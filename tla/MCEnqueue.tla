----------------------------- MODULE MCEnqueue -----------------------------
(***************************************************************************)
(* Small instances of Enqueue for TLC: one host.                           *)
(***************************************************************************)
EXTENDS Enqueue, TLC

CONSTANTS p1, p2, rb, v1, v2

OneRobotsOf == p1 :> rb
TwoRobotsOf == p1 :> rb @@ p2 :> rb

\* Each page is visited under one spelling ...
OneNormal == v1 :> p1
OneTop == <<v1>>
TwoNormal == v1 :> p1 @@ v2 :> p2
\* ... or one page under two ...
SameNormal == v1 :> p1 @@ v2 :> p1
\* ... or the robots.txt too.
RobotsNormal == v1 :> p1 @@ v2 :> rb
TwoTop == <<v1, v2>>

Allows == {{}}
AllowsOrNot == {{}, {p1}}
=============================================================================
