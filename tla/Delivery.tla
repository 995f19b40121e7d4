------------------------------ MODULE Delivery ------------------------------
(***************************************************************************)
(* What a worker promises of the records of the global fetch queue: it     *)
(* answers each record it has read at most once, and forgets one only when *)
(* it crashes.  What Kafka has not been told of is then delivered again,   *)
(* be it answered or not.                                                  *)
(***************************************************************************)
EXTENDS Integers

CONSTANT Url   \* a record is known by its URL

VARIABLES
  unread,    \* how many records of each URL are still in the topic
  held,      \* how many the worker has read and not answered
  answers    \* how many it has answered

vars == <<unread, held, answers>>

Bag == [Url -> Nat]
Nothing == [u \in Url |-> 0]

Init == unread \in Bag /\ held = Nothing /\ answers = Nothing

Read(u) ==
  /\ unread[u] > 0
  /\ unread' = [unread EXCEPT ![u] = @ - 1]
  /\ held' = [held EXCEPT ![u] = @ + 1]
  /\ UNCHANGED answers

Answer(u) ==
  /\ held[u] > 0
  /\ held' = [held EXCEPT ![u] = @ - 1]
  /\ answers' = [answers EXCEPT ![u] = @ + 1]
  /\ UNCHANGED unread

Crash ==
  /\ held' = Nothing
  /\ unread' \in Bag
  /\ \A u \in Url : unread'[u] >= unread[u]
  /\ UNCHANGED answers

Next == Crash \/ \E u \in Url : Read(u) \/ Answer(u)

Spec == Init /\ [][Next]_vars
=============================================================================
