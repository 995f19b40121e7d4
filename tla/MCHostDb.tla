------------------------------ MODULE MCHostDb ------------------------------
(***************************************************************************)
(* Small instances of HostDb for TLC: two hosts, two workers, records for  *)
(* the robots.txt and for pages of each host.                              *)
(***************************************************************************)
EXTENDS HostDb, TLC

CONSTANTS h1, h2, w1, w2, page, r1, r2, r3, r4

MCReq == {r1, r2, r3, r4}
\* One host with two pages and its robots.txt, and a page of a second host.
MCHostOf == r1 :> h1 @@ r2 :> h1 @@ r3 :> h1 @@ r4 :> h2
MCPathOf == r1 :> RobotsTxt @@ r2 :> page @@ r3 :> page @@ r4 :> page
MCWorkerOf == r1 :> w1 @@ r2 :> w1 @@ r3 :> w2 @@ r4 :> w2

\* Two hosts with two records each: the first and the second fetch of each.
PairsHostOf == r1 :> h1 @@ r2 :> h1 @@ r3 :> h2 @@ r4 :> h2
PairsPathOf == [r \in MCReq |-> page]

MCWindow == {"minute", "day"}
MCWindowLen == "minute" :> 0 @@ "day" :> 1
MCWindowLimit == "minute" :> 1 @@ "day" :> 2
\* Windows that never refuse.
OpenWindowLimit == "minute" :> 9 @@ "day" :> 9
=============================================================================
