--------------------------- MODULE EnqueueProofs ---------------------------
(***************************************************************************)
(* The safety properties of Enqueue for any pages, ranking, rules, targets *)
(* and waits.  IInv, defined in Enqueue, is inductive.                     *)
(***************************************************************************)
EXTENDS Enqueue, FiniteSetTheorems, TLAPS

-----------------------------------------------------------------------------
(***************************************************************************)
(* What the operations on a list of attempts and the waits of the policies *)
(* guarantee, for lists of any length.                                     *)
(***************************************************************************)
USE AttemptsAssumption

LEMMA AddTimesFacts ==
  ASSUME NEW a \in CrawlAttempts, NEW t \in Nat, NEW n \in Nat \ {0}
  PROVE  /\ AddTimes(a, t, n) \in CrawlAttempts
         /\ AddTimes(a, t, n) # <<>>
         /\ GetLast(AddTimes(a, t, n)).tp = t
         /\ GetLast(AddTimes(a, t, n)).status = "ENQUEUED"
<1> DEFINE added == [i \in 1 .. n |-> New(t)]
           b == a \o added
<1>1. a \in Seq(Attempt) /\ Len(a) \in Nat /\ Len(a) <= LastStoreAttempts
  BY DEF CrawlAttempts
<1>2. New(t) \in Attempt /\ New(t).tp = t /\ New(t).status = "ENQUEUED"
  BY DEF New, Attempt, Status
<1>3. added \in Seq(Attempt) /\ Len(added) = n /\ added[n] = New(t)
  BY <1>2
<1> HIDE DEF added
<1>4. b \in Seq(Attempt) /\ Len(b) = Len(a) + n /\ b[Len(b)] = New(t)
  BY <1>1, <1>3
<1> HIDE DEF b
<1>5. AddTimes(a, t, n) =
        IF Len(b) <= LastStoreAttempts THEN b
        ELSE SubSeq(b, Len(b) - LastStoreAttempts + 1, Len(b))
  BY DEF AddTimes, b, added
<1>6. CASE Len(b) <= LastStoreAttempts
  <2>1. b # <<>>
    BY <1>1, <1>4
  <2> QED BY <1>2, <1>4, <1>5, <1>6, <2>1 DEF CrawlAttempts, GetLast
<1>7. CASE ~(Len(b) <= LastStoreAttempts)
  <2> DEFINE first == Len(b) - LastStoreAttempts + 1
             c == SubSeq(b, first, Len(b))
  <2>1. first \in 1 .. Len(b) /\ Len(b) \in Nat
    BY <1>1, <1>4, <1>7
  <2>2. c \in Seq(Attempt) /\ Len(c) = LastStoreAttempts
    BY <1>4, <2>1
  <2>3. c[LastStoreAttempts] = b[Len(b)]
    BY <1>4, <2>1
  <2>4. c # <<>>
    BY <2>2
  <2>5. AddTimes(a, t, n) = c
    BY <1>5, <1>7
  <2> HIDE DEF c
  <2> QED BY <1>2, <1>4, <2>2, <2>3, <2>4, <2>5 DEF CrawlAttempts, GetLast
<1>8. QED
  BY <1>6, <1>7

LEMMA AddNoTimes ==
  ASSUME NEW a \in CrawlAttempts, NEW t
  PROVE  AddTimes(a, t, 0) = a
<1>1. a \in Seq(Attempt) /\ Len(a) <= LastStoreAttempts
  BY DEF CrawlAttempts
<1>2. [i \in 1 .. 0 |-> New(t)] = <<>>
  OBVIOUS
<1>3. a \o <<>> = a
  BY <1>1
<1> QED BY <1>1, <1>2, <1>3 DEF AddTimes

LEMMA SetStatusFacts ==
  ASSUME NEW a \in CrawlAttempts, NEW status \in Status, NEW t \in Nat
  PROVE  /\ SetStatus(a, status, t) \in CrawlAttempts
         /\ SetStatus(a, status, t) # <<>>
         /\ GetLast(SetStatus(a, status, t)).tp = IF a = <<>> THEN t ELSE GetLast(a).tp
         /\ GetLast(SetStatus(a, status, t)).status = status
<1> DEFINE b == IF a = <<>> THEN Add(a, t) ELSE a
           c == [b EXCEPT ![Len(b)].status = status]
<1>1. /\ b \in CrawlAttempts /\ b # <<>>
      /\ GetLast(b).tp = IF a = <<>> THEN t ELSE GetLast(a).tp
  BY AddTimesFacts DEF Add
<1> HIDE DEF b
<1>2. /\ b \in Seq(Attempt) /\ Len(b) \in Nat \ {0} /\ Len(b) <= LastStoreAttempts
      /\ b[Len(b)] \in Attempt /\ DOMAIN b = 1 .. Len(b)
  BY <1>1 DEF CrawlAttempts
<1>3. c = [b EXCEPT ![Len(b)] = [b[Len(b)] EXCEPT !.status = status]]
  OBVIOUS
<1>4. /\ [b[Len(b)] EXCEPT !.status = status] \in Attempt
      /\ [b[Len(b)] EXCEPT !.status = status].tp = b[Len(b)].tp
      /\ [b[Len(b)] EXCEPT !.status = status].status = status
  BY <1>2 DEF Attempt
<1>5. /\ c \in Seq(Attempt) /\ Len(c) = Len(b) /\ c # <<>>
      /\ c[Len(b)].tp = b[Len(b)].tp /\ c[Len(b)].status = status
  BY <1>2, <1>3, <1>4
<1>6. c = SetStatus(a, status, t)
  BY DEF SetStatus, b
<1> HIDE DEF c
<1>7. QED
  BY <1>1, <1>2, <1>5, <1>6 DEF CrawlAttempts, GetLast

(***************************************************************************)
(* The doubling never makes the wait of a failed page shorter than the     *)
(* hour it starts from.                                                    *)
(***************************************************************************)
LEMMA PowerOfTwo ==
  ASSUME NEW n \in Nat
  PROVE  2 ^ n \in Nat \ {0}
<1>1. IsFiniteSet(1 .. n) /\ Cardinality(1 .. n) = n
  BY FS_Interval
<1>2. IsFiniteSet(SUBSET (1 .. n)) /\ Cardinality(SUBSET (1 .. n)) = 2 ^ n
  BY <1>1, FS_SUBSET
<1>3. SUBSET (1 .. n) # {}
  OBVIOUS
<1>4. QED
  BY <1>2, <1>3, FS_EmptySet, FS_CardinalityType

LEMMA Last4xx5xxCountNat ==
  ASSUME NEW a \in CrawlAttempts
  PROVE  Last4xx5xxCount(a) \in Nat
<1>1. Len(a) \in Nat
  BY DEF CrawlAttempts
<1>2. IsFiniteSet(2 .. Len(a))
  BY <1>1, FS_Interval
<1>3. {i \in 2 .. Len(a) : \A j \in i .. Len(a) : a[j].status \in Failed}
        \in SUBSET (2 .. Len(a))
  OBVIOUS
<1>4. QED
  BY <1>2, <1>3, FS_Subset, FS_CardinalityType DEF Last4xx5xxCount

LEMMA PageWaitFacts ==
  ASSUME NEW a \in CrawlAttempts, a # <<>>
  PROVE  /\ PageWait(a) \in Nat
         /\ PageWait(a) >= Hour
         /\ GetLast(a).status = "OK" => PageWait(a) = Week
<1> DEFINE status == GetLast(a).status
           power == 2 ^ Last4xx5xxCount(a)
<1>1. power \in Nat \ {0}
  BY Last4xx5xxCountNat, PowerOfTwo
<1>2. CASE status \in {"CURL_ERR", "PENDING"}
  BY <1>2 DEF PageWait
<1>3. CASE status = "ENQUEUED"
  BY <1>3 DEF PageWait
<1>4. CASE status = "OK"
  BY <1>4 DEF PageWait
<1>5. CASE status \notin {"CURL_ERR", "PENDING", "ENQUEUED", "OK"}
  <2>1. PageWait(a) = Hour * power
    BY <1>5 DEF PageWait
  <2> HIDE DEF power
  <2>2. Hour * power \in Nat /\ Hour * power >= Hour
    BY <1>1
  <2> QED BY <1>5, <2>1, <2>2
<1>6. QED
  BY <1>2, <1>3, <1>4, <1>5

LEMMA RobotsWaitFacts ==
  ASSUME NEW a
  PROVE  /\ RobotsWait(a) \in Nat
         /\ RobotsWait(a) >= Hour
         /\ GetLast(a).status = "OK" => RobotsWait(a) = Day
BY DEF RobotsWait

HIDE AttemptsAssumption

-----------------------------------------------------------------------------
(***************************************************************************)
(* The invariant.                                                          *)
(***************************************************************************)
USE EnqueueAssumption

LEMMA EmptyAttempts == <<>> \in CrawlAttempts
BY AttemptsAssumption DEF CrawlAttempts

LEMMA EmptyBagFacts == IsABag(EmptyBag) /\ BagToSet(EmptyBag) = {}
BY DEF IsABag, EmptyBag, SetToBag, BagToSet

LEMMA BagPut ==
  ASSUME NEW B, NEW e
  PROVE  /\ BagToSet(B (+) SetToBag({e})) = BagToSet(B) \cup {e}
         /\ IsABag(B) => IsABag(B (+) SetToBag({e}))
<1> DEFINE C == B (+) SetToBag({e})
<1>1. DOMAIN C = DOMAIN B \cup {e}
  BY DEF (+), SetToBag
<1>2. ASSUME IsABag(B) PROVE IsABag(C)
  <2>1. ASSUME NEW d \in DOMAIN C PROVE C[d] \in {n \in Nat : n > 0}
    BY <1>1, <1>2, <2>1 DEF (+), SetToBag, IsABag
  <2>2. C = [d \in DOMAIN C |-> C[d]]
    BY DEF (+)
  <2> QED BY <2>1, <2>2 DEF IsABag
<1>3. QED
  BY <1>1, <1>2 DEF BagToSet

LEMMA BagTake ==
  ASSUME NEW B, NEW e
  PROVE  /\ BagToSet(B (-) SetToBag({e})) \subseteq BagToSet(B)
         /\ IsABag(B) => /\ IsABag(B (-) SetToBag({e}))
                         /\ BagToSet(B) \ {e} \subseteq BagToSet(B (-) SetToBag({e}))
<1> DEFINE D == [d \in DOMAIN B |-> IF d \in {e} THEN B[d] - 1 ELSE B[d]]
           C == B (-) SetToBag({e})
<1>1. C = [d \in {c \in DOMAIN D : D[c] > 0} |-> D[d]]
  <2>1. D = [d \in DOMAIN B |-> IF d \in DOMAIN SetToBag({e})
                                  THEN B[d] - SetToBag({e})[d] ELSE B[d]]
    BY DEF SetToBag
  <2> QED BY <2>1 DEF (-)
<1>2. DOMAIN C \subseteq DOMAIN B
  BY <1>1
<1>3. ASSUME IsABag(B)
      PROVE  IsABag(C) /\ BagToSet(B) \ {e} \subseteq BagToSet(C)
  <2>1. \A d \in DOMAIN B : B[d] \in Nat /\ B[d] > 0
    BY <1>3 DEF IsABag
  <2>2. \A d \in DOMAIN D : D[d] > 0 => D[d] \in {n \in Nat : n > 0}
    BY <2>1
  <2>3. IsABag(C)
    BY <1>1, <2>2 DEF IsABag
  <2>4. DOMAIN B \ {e} \subseteq DOMAIN C
    BY <1>1, <2>1
  <2> QED BY <2>3, <2>4 DEF BagToSet
<1>4. QED
  BY <1>2, <1>3 DEF BagToSet

\* The lists hold items, what is pushed are their URLs.
LEMMA UrlsFacts ==
  /\ Urls({}) = {}
  /\ \A S \in SUBSET Item : Urls(S) \in SUBSET Url
  /\ \A S : \A T \in SUBSET S : Urls(T) \in SUBSET Urls(S)
  /\ \A S : \A i : Urls(S \cup {i}) = Urls(S) \cup {UrlOf(i)}
  /\ \A S : \A i \in S : UrlOf(i) \in Urls(S)
BY DEF Urls, UrlOf, Item, Url

LEMMA TimesFacts ==
  ASSUME batch \subseteq Item, NEW u
  PROVE  /\ u \in Urls(batch) => Times(u) \in Nat \ {0}
         /\ u \notin Urls(batch) => Times(u) = 0
<1> DEFINE T == {i \in batch : UrlOf(i) = u}
<1>1. IsFiniteSet(T)
  BY FS_Subset
<1>2. Cardinality(T) \in Nat /\ (Cardinality(T) = 0 <=> T = {})
  BY <1>1, FS_CardinalityType, FS_EmptySet
<1>3. T = {} <=> u \notin Urls(batch)
  BY DEF Urls
<1> QED BY <1>2, <1>3 DEF Times

\* What the filters let through.
LEMMA TopVisitsAreVisits == TopVisits \subseteq Visit
BY DEF TopVisits

LEMMA AllowedAreKnown ==
  ASSUME NEW S \in SUBSET Visit
  PROVE  /\ LeaveAllowedByRobots(S) \subseteq Item
         /\ \A p \in Urls(LeaveAllowedByRobots(S)) \cap Page : Known(p)
<1> DEFINE pages == {v \in S : Normal[v] \in Page}
           allowed == {v \in pages : IsAllowedRobots(Normal[v])}
           needed == {RobotsOf[Normal[v]] : v \in {w \in pages : ~Known(Normal[w])}}
<1>1. LeaveAllowedByRobots(S) = allowed \cup (S \ pages) \cup needed
  BY DEF LeaveAllowedByRobots
<1>2. needed \subseteq Robots
  OBVIOUS
<1>3. ASSUME NEW i \in LeaveAllowedByRobots(S), UrlOf(i) \in Page
      PROVE  Known(UrlOf(i))
  <2>1. i \notin Robots
    BY <1>3 DEF UrlOf
  <2>2. i \in S /\ i \in Visit /\ UrlOf(i) = Normal[i]
    BY <1>1, <1>2, <2>1 DEF UrlOf
  <2>3. i \in allowed
    BY <1>1, <1>2, <1>3, <2>1, <2>2
  <2> QED BY <2>2, <2>3 DEF IsAllowedRobots
<1> HIDE DEF needed
<1> QED BY <1>1, <1>2, <1>3 DEF Urls, Item

LEMMA NeededWaited ==
  ASSUME TypeOK, NEW i \in Item, NEW u, u = UrlOf(i), IsNeeded(i), attempts[u] # <<>>
  PROVE  /\ checkNow >= GetLast(attempts[u]).tp + Hour
         /\ GetLast(attempts[u]).status = "OK" =>
              checkNow >= GetLast(attempts[u]).tp + OkWait(u)
         /\ GetLast(attempts[u]).tp \in Nat
<1>0. u \in Url
  BY DEF UrlOf, Item, Url
<1>1. attempts[u] \in CrawlAttempts /\ checkNow \in Nat
  BY <1>0 DEF TypeOK
<1>2. GetLast(attempts[u]) \in Attempt
  BY <1>1 DEF GetLast, CrawlAttempts
<1>3. GetLast(attempts[u]).tp \in Nat
  BY <1>2 DEF Attempt
<1>4. CASE i \in Visit
  <2>1. checkNow >= GetLast(attempts[u]).tp + PageWait(attempts[u])
    BY <1>4 DEF IsNeeded, IsNeedCrawl, UrlOf
  <2>2. /\ PageWait(attempts[u]) \in Nat /\ PageWait(attempts[u]) >= Hour
        /\ GetLast(attempts[u]).status = "OK" => PageWait(attempts[u]) = Week
    BY <1>1, PageWaitFacts
  <2>3. OkWait(u) \in Nat /\ OkWait(u) <= Week
    BY AttemptsAssumption DEF OkWait
  <2> QED BY <1>1, <1>3, <2>1, <2>2, <2>3, AttemptsAssumption
<1>5. CASE i \notin Visit
  <2>1. checkNow >= GetLast(attempts[u]).tp + RobotsWait(attempts[u]) /\ u \in Robots
    BY <1>5 DEF IsNeeded, IsNeedCrawlRobots, UrlOf, Item
  <2>2. /\ RobotsWait(attempts[u]) \in Nat /\ RobotsWait(attempts[u]) >= Hour
        /\ GetLast(attempts[u]).status = "OK" => RobotsWait(attempts[u]) = OkWait(u)
    BY <2>1, RobotsWaitFacts DEF OkWait
  <2> QED BY <1>1, <1>3, <2>1, <2>2, AttemptsAssumption
<1>6. QED
  BY <1>3, <1>4, <1>5

-----------------------------------------------------------------------------
LEMMA InitIInv == Init => IInv
<1> SUFFICES ASSUME Init PROVE IInv
  OBVIOUS
<1> USE DEF Init
<1>1. TypeOK
  BY EmptyAttempts, EmptyBagFacts DEF TypeOK
<1>2. LoopInv /\ GapInv /\ OkInv
  BY DEF LoopInv, GapInv, OkInv
<1>3. RobotsInv
  BY EmptyBagFacts, UrlsFacts DEF RobotsInv, Url
<1>4. QueuedPagesFetchable
  BY EmptyBagFacts DEF QueuedPagesFetchable
<1>5. QED
  BY <1>1, <1>2, <1>3, <1>4 DEF IInv

-----------------------------------------------------------------------------
(***************************************************************************)
(* Every step of the loop, of a worker or of a thread keeps the types.     *)
(***************************************************************************)
LEMMA TypeStep == IInv /\ [Next]_vars => TypeOK'
<1> SUFFICES ASSUME IInv, [Next]_vars PROVE TypeOK'
  OBVIOUS
<1> USE DEF dbVars, hostVars, loopVars, queueVars
<1>0. TypeOK /\ (pushed # {} => pc = "push")
  BY DEF IInv, LoopInv
<1>1. CASE StartLoop
  BY <1>0, <1>1 DEF StartLoop, TypeOK
<1>2. CASE FilterByRobots
  <2>1. LeaveAllowedByRobots(TopVisits) \subseteq Item
    BY TopVisitsAreVisits, AllowedAreKnown
  <2> QED BY <1>0, <1>2, <2>1 DEF FilterByRobots, TypeOK
<1>3. CASE FilterByNeed
  <2>1. \A need \in SUBSET batch : Limited(need) \subseteq SUBSET batch
    BY DEF Limited
  <2> DEFINE need == {i \in batch : IsNeeded(i)}
  <2>2. /\ batch' \subseteq batch
        /\ pc' \in {"push", "filter"}
        /\ top' \in Nat /\ pushTp' \in Nat
    <3>1. CASE batch' \in Limited(need) /\ pushTp' = now /\ pc' = "push" /\ top' = top
      BY <1>0, <2>1, <3>1 DEF TypeOK
    <3>2. CASE batch' = need /\ pushTp' = now /\ pc' = "push" /\ top' = top
      BY <1>0, <3>2 DEF TypeOK
    <3>3. CASE top' = 2 * top /\ batch' = {} /\ pc' = "filter" /\ pushTp' = pushTp
      BY <1>0, <3>3 DEF TypeOK
    <3> QED BY <1>3, <3>1, <3>2, <3>3 DEF FilterByNeed
  <2>3. pushed = {}
    BY <1>0, <1>3 DEF FilterByNeed
  <2> QED BY <1>0, <1>3, <2>2, <2>3 DEF FilterByNeed, TypeOK
<1>4. ASSUME NEW i \in Item, PushToKafka(i) PROVE TypeOK'
  <2> DEFINE rec == [url |-> UrlOf(i), ts |-> pushTp]
  <2>1. rec \in Record /\ UrlOf(i) \in Url
    BY <1>0 DEF TypeOK, Record, UrlOf, Item, Url
  <2>2. BagToSet(gfq') \subseteq Record
    <3>1. gfq' = gfq (+) SetToBag({rec})
      BY <1>4 DEF PushToKafka
    <3> HIDE DEF rec
    <3>2. BagToSet(gfq') = BagToSet(gfq) \cup {rec}
      BY <3>1, BagPut
    <3> QED BY <1>0, <2>1, <3>2 DEF TypeOK
  <2>3. lastPush' \in [Url -> SUBSET Nat] /\ pushed' \subseteq batch
    BY <1>0, <1>4, <2>1 DEF PushToKafka, TypeOK
  <2> QED BY <1>0, <1>4, <2>2, <2>3 DEF PushToKafka, TypeOK
<1>5. CASE SetEnqueued
  <2>1. ASSUME NEW u \in Url PROVE AddTimes(attempts[u], pushTp, Times(u)) \in CrawlAttempts
    <3>1. attempts[u] \in CrawlAttempts /\ pushTp \in Nat /\ batch \subseteq Item
      BY <1>0 DEF TypeOK
    <3>2. CASE Times(u) = 0
      BY <3>1, <3>2, AddNoTimes
    <3>3. CASE Times(u) \in Nat \ {0}
      BY <3>1, <3>3, AddTimesFacts
    <3> QED BY <3>1, <3>2, <3>3, TimesFacts
  <2>2. attempts' \in [Url -> CrawlAttempts]
    BY <1>5, <2>1 DEF SetEnqueued
  <2> QED BY <1>0, <1>5, <2>2 DEF SetEnqueued, Sleep, TypeOK
<1>6. ASSUME NEW rec \in BagToSet(gfq), NEW status \in Outcome, OnFetched(rec, status)
      PROVE  TypeOK'
  <2> DEFINE u == rec.url
  <2>1. u \in Url
    BY <1>0 DEF TypeOK, Record
  <2>2. SetStatus(attempts[u], status, now) \in CrawlAttempts
    BY <1>0, <2>1, SetStatusFacts DEF TypeOK
  <2>3. attempts' \in [Url -> CrawlAttempts]
    BY <1>0, <1>6, <2>1, <2>2 DEF OnFetched, TypeOK
  <2>4. BagToSet(gfq') \subseteq Record
    BY <1>0, <1>6, BagTake DEF OnFetched, TypeOK
  <2>5. BagToSet(keeping') \subseteq Robots
    <3>1. CASE IsOkRobots(u, status)
      <4>1. keeping' = keeping (+) SetToBag({u}) /\ u \in Robots
        BY <1>6, <3>1 DEF OnFetched, IsOkRobots
      <4>2. BagToSet(keeping') = BagToSet(keeping) \cup {u}
        BY <4>1, BagPut
      <4> QED BY <1>0, <4>1, <4>2 DEF TypeOK
    <3>2. CASE ~IsOkRobots(u, status)
      BY <1>0, <1>6, <3>2 DEF OnFetched, TypeOK
    <3> QED BY <3>1, <3>2
  <2>6. lastOk' \in [Url -> SUBSET Nat]
    <3>1. attempts'[u] = SetStatus(attempts[u], status, now)
      BY <1>0, <1>6, <2>1 DEF OnFetched, TypeOK
    <3>2. attempts'[u] \in CrawlAttempts /\ attempts'[u] # <<>>
      BY <1>0, <2>1, <3>1, SetStatusFacts DEF TypeOK
    <3>3. GetLast(attempts'[u]).tp \in Nat
      <4> DEFINE a == attempts'[u]
      <4>1. a \in Seq(Attempt) /\ a # <<>>
        BY <3>2 DEF CrawlAttempts
      <4> HIDE DEF a
      <4>2. a[Len(a)] \in Attempt
        BY <4>1
      <4>3. a[Len(a)].tp \in Nat
        BY <4>2 DEF Attempt
      <4> QED BY <4>3 DEF GetLast, a
    <3>4. (IF status = "OK" THEN {GetLast(attempts'[u]).tp} ELSE {}) \in SUBSET Nat
      BY <3>3
    <3> QED BY <1>0, <1>6, <2>1, <3>4 DEF OnFetched, TypeOK
  <2>7. raced' \subseteq Url
    BY <1>0, <1>6, <2>1 DEF OnFetched, TypeOK
  <2> QED BY <1>0, <1>6, <2>3, <2>4, <2>5, <2>6, <2>7 DEF OnFetched, TypeOK
<1>7. ASSUME NEW u \in Robots, NEW rules \in Rules, KeepRobots(u, rules)
      PROVE  TypeOK'
  <2>1. BagToSet(keeping') \subseteq BagToSet(keeping)
    BY <1>7, BagTake DEF KeepRobots
  <2>2. /\ robots' \in [Robots -> {NoRobots} \cup Rules]
        /\ robotsDb' \in [Robots -> {NoRobots} \cup Rules]
    BY <1>0, <1>7 DEF KeepRobots, TypeOK
  <2> QED BY <1>0, <1>7, <2>1, <2>2 DEF KeepRobots, TypeOK
<1>8. ASSUME NEW rec \in BagToSet(gfq), LoseRecord(rec) PROVE TypeOK'
  <2>1. gfq' = gfq (-) SetToBag({rec})
    BY <1>8 DEF LoseRecord
  <2>2. BagToSet(gfq') \subseteq BagToSet(gfq)
    BY <2>1, BagTake
  <2>3. lost' \in Nat
    BY <1>0, <1>8 DEF LoseRecord, TypeOK
  <2>4. UNCHANGED <<attempts, attemptsDb, snap, robots, robotsDb, pc, target, top, checkNow, batch,
                    pushTp, pushed, keeping, now, lastPush, lastOk, raced, torn, restarts>>
    BY <1>8 DEF LoseRecord
  <2> QED BY <1>0, <2>2, <2>3, <2>4 DEF TypeOK
<1>9. CASE SnapCopy
  BY <1>0, <1>9 DEF SnapCopy, TypeOK
<1>10. ASSUME NEW u \in Url, SnapPut(u) PROVE TypeOK'
  <2>1. snap' \in [Url -> CrawlAttempts] /\ attemptsDb' \in [Url -> CrawlAttempts]
    BY <1>0, <1>10, EmptyAttempts DEF SnapPut, TypeOK
  <2> QED BY <1>0, <1>10, <2>1 DEF SnapPut, TypeOK
<1>11. CASE Restart
  <2>1. attempts' \in [Url -> CrawlAttempts] /\ snap' \in [Url -> CrawlAttempts]
    BY <1>0, <1>11, EmptyAttempts DEF Restart, LoadCrawlAttempts, TypeOK
  <2>2. robots' \in [Robots -> {NoRobots} \cup Rules]
    BY <1>0, <1>11 DEF Restart, LoadRobotsDb, TypeOK
  <2>3. torn' \subseteq Robots /\ BagToSet(keeping') \subseteq Robots
    BY <1>0, <1>11, EmptyBagFacts DEF Restart, TypeOK
  <2>4. lastPush' \in [Url -> SUBSET Nat] /\ lastOk' \in [Url -> SUBSET Nat]
    BY <1>0, <1>11 DEF Restart, TypeOK
  <2>5. restarts' \in Nat
    BY <1>0, <1>11 DEF Restart, TypeOK
  <2>6. /\ UNCHANGED <<attemptsDb, robotsDb, gfq, now, raced, lost>>
        /\ Sleep
    BY <1>11 DEF Restart
  <2> QED BY <1>0, <2>1, <2>2, <2>3, <2>4, <2>5, <2>6 DEF Sleep, TypeOK
<1>12. CASE Tick
  BY <1>0, <1>12 DEF Tick, TypeOK
<1>13. CASE UNCHANGED vars
  BY <1>0, <1>13 DEF vars, TypeOK
<1>14. QED
  BY <1>1, <1>2, <1>3, <1>4, <1>5, <1>6, <1>7, <1>8, <1>9, <1>10, <1>11, <1>12, <1>13
     DEF Next, LoopStep, Fetched

-----------------------------------------------------------------------------
(***************************************************************************)
(* The loop's variables agree with where it is, and a decision is never    *)
(* made with a time to come.                                               *)
(***************************************************************************)
LEMMA LoopStepInv == IInv /\ [Next]_vars => LoopInv'
<1> SUFFICES ASSUME IInv, [Next]_vars PROVE LoopInv'
  OBVIOUS
<1> USE DEF dbVars, loopVars, queueVars
<1>0. /\ checkNow \in Nat /\ now \in Nat /\ checkNow <= now
      /\ pushed # {} => pc = "push"
  BY DEF IInv, LoopInv, TypeOK
<1>1. CASE StartLoop
  BY <1>0, <1>1 DEF StartLoop, LoopInv
<1>2. CASE FilterByRobots
  BY <1>0, <1>2 DEF FilterByRobots, LoopInv
<1>3. CASE FilterByNeed
  BY <1>0, <1>3 DEF FilterByNeed, LoopInv
<1>4. ASSUME NEW i \in Item, PushToKafka(i) PROVE LoopInv'
  BY <1>0, <1>4 DEF PushToKafka, LoopInv
<1>5. CASE SetEnqueued \/ Restart
  BY <1>0, <1>5 DEF SetEnqueued, Restart, Sleep, LoopInv
<1>6. CASE Tick
  BY <1>0, <1>6 DEF Tick, LoopInv
<1>7. CASE UNCHANGED <<pushed, pc, checkNow, now>>
  BY <1>0, <1>7 DEF LoopInv
<1>8. QED
  BY <1>1, <1>2, <1>3, <1>4, <1>5, <1>6, <1>7
     DEF Next, LoopStep, Fetched, OnFetched, KeepRobots, LoseRecord, SnapCopy, SnapPut, vars

\* What the steps do to the last attempt of a URL.
LEMMA LastAfterResult ==
  ASSUME TypeOK, NEW rec \in BagToSet(gfq), NEW status \in Outcome, OnFetched(rec, status)
  PROVE  /\ rec.url \in Url
         /\ attempts'[rec.url] # <<>>
         /\ GetLast(attempts'[rec.url]).status = status
         /\ attempts[rec.url] # <<>> =>
              GetLast(attempts'[rec.url]).tp = GetLast(attempts[rec.url]).tp
         /\ \A u \in Url \ {rec.url} : attempts'[u] = attempts[u]
<1>1. rec.url \in Url
  BY DEF TypeOK, Record
<1>2. attempts'[rec.url] = SetStatus(attempts[rec.url], status, now)
  BY <1>1 DEF OnFetched, TypeOK
<1>3. \A u \in Url \ {rec.url} : attempts'[u] = attempts[u]
  BY DEF OnFetched, TypeOK
<1>4. attempts[rec.url] \in CrawlAttempts /\ status \in Status /\ now \in Nat
  BY <1>1 DEF TypeOK
<1> HIDE EnqueueAssumption
<1> DEFINE b == SetStatus(attempts[rec.url], status, now)
<1>5. /\ b # <<>> /\ GetLast(b).status = status
      /\ GetLast(b).tp = IF attempts[rec.url] = <<>> THEN now ELSE GetLast(attempts[rec.url]).tp
  BY <1>4, SetStatusFacts
<1> HIDE DEF b
<1>6. attempts'[rec.url] = b
  BY <1>2 DEF b
<1> QED BY <1>1, <1>3, <1>5, <1>6

LEMMA LastAfterSetEnqueued ==
  ASSUME TypeOK, SetEnqueued, NEW u \in Url
  PROVE  /\ u \in Urls(batch) => /\ attempts'[u] # <<>>
                                 /\ GetLast(attempts'[u]).tp = pushTp
                                 /\ GetLast(attempts'[u]).status = "ENQUEUED"
         /\ u \notin Urls(batch) => attempts'[u] = attempts[u]
<1>1. attempts[u] \in CrawlAttempts /\ pushTp \in Nat /\ batch \subseteq Item
  BY DEF TypeOK
<1>2. attempts'[u] = AddTimes(attempts[u], pushTp, Times(u))
  BY DEF SetEnqueued
<1>3. ASSUME u \in Urls(batch)
      PROVE  /\ attempts'[u] # <<>>
             /\ GetLast(attempts'[u]).tp = pushTp
             /\ GetLast(attempts'[u]).status = "ENQUEUED"
  <2>1. Times(u) \in Nat \ {0}
    BY <1>1, <1>3, TimesFacts
  <2> HIDE EnqueueAssumption
  <2> DEFINE b == AddTimes(attempts[u], pushTp, Times(u))
  <2>2. b # <<>> /\ GetLast(b).tp = pushTp /\ GetLast(b).status = "ENQUEUED"
    BY <1>1, <2>1, AddTimesFacts
  <2> HIDE DEF b
  <2>3. attempts'[u] = b
    BY <1>2 DEF b
  <2> QED BY <2>2, <2>3
<1>4. ASSUME u \notin Urls(batch) PROVE attempts'[u] = attempts[u]
  BY <1>1, <1>2, <1>4, TimesFacts, AddNoTimes
<1> QED BY <1>3, <1>4

\* What is pushed was decided on when the wait of its last attempt was over.
LEMMA BatchNeeded ==
  ASSUME FilterByNeed, pc' = "push", batch \subseteq Item, NEW u \in Urls(batch')
  PROVE  /\ pushTp' = now
         /\ \E i \in Item : u = UrlOf(i) /\ IsNeeded(i)
<1>1. batch' \subseteq {i \in batch : IsNeeded(i)} /\ pushTp' = now
  BY DEF FilterByNeed, Limited
<1> QED BY <1>1 DEF Urls

-----------------------------------------------------------------------------
(***************************************************************************)
(* The last push of a URL stays an hour behind the next.                   *)
(***************************************************************************)
LEMMA GapStep == IInv /\ [Next]_vars => GapInv'
<1> DEFINE Gap(u, t) ==
             /\ u \in Urls(pushed) => t = pushTp
             /\ u \notin Urls(pushed) => attempts[u] # <<>> /\ GetLast(attempts[u]).tp >= t
             /\ pc = "push" /\ u \in Urls(batch) \ Urls(pushed) => pushTp >= t + Hour
<1>0. GapInv <=> \A u \in Url : \A t \in lastPush[u] : Gap(u, t)
  BY DEF GapInv
<1>a. (\A u \in Url : \A t \in lastPush'[u] : Gap(u, t)') => GapInv'
  BY DEF GapInv
<1> SUFFICES ASSUME IInv, [Next]_vars, NEW u \in Url, NEW t \in lastPush'[u]
             PROVE  Gap(u, t)'
  BY <1>a
<1> USE DEF dbVars, loopVars, queueVars
<1>1. /\ TypeOK /\ (pushed # {} => pc = "push") /\ pushed \subseteq batch
      /\ checkNow <= now /\ checkNow \in Nat /\ now \in Nat /\ pushTp \in Nat
      /\ t \in lastPush[u] => Gap(u, t) /\ t \in Nat
  BY <1>0 DEF IInv, LoopInv, TypeOK
<1>2. CASE StartLoop \/ FilterByRobots
  BY <1>1, <1>2 DEF StartLoop, FilterByRobots
<1>3. CASE FilterByNeed
  <2>1. pushed = {} /\ pushed' = {} /\ attempts' = attempts /\ t \in lastPush[u]
    BY <1>1, <1>3 DEF FilterByNeed
  <2>2. ASSUME pc' = "push", u \in Urls(batch') PROVE pushTp' >= t + Hour
    <3>1. pushTp' = now /\ \E i \in Item : u = UrlOf(i) /\ IsNeeded(i)
      BY <1>1, <1>3, <2>2, BatchNeeded DEF TypeOK
    <3>2. /\ attempts[u] # <<>> /\ GetLast(attempts[u]).tp >= t
          /\ t \in Nat
      BY <1>1, <2>1, UrlsFacts
    <3>3. /\ checkNow >= GetLast(attempts[u]).tp + Hour
          /\ GetLast(attempts[u]).tp \in Nat
      BY <1>1, <3>1, <3>2, NeededWaited
    <3> QED BY <1>1, <3>1, <3>2, <3>3, AttemptsAssumption
  <2> QED BY <1>1, <2>1, <2>2, UrlsFacts
<1>4. ASSUME NEW i \in Item, PushToKafka(i) PROVE Gap(u, t)'
  <2>1. /\ Urls(pushed') = Urls(pushed) \cup {UrlOf(i)} /\ UrlOf(i) \in Urls(batch)
        /\ UrlOf(i) \in Url /\ pc = "push"
    BY <1>1, <1>4, UrlsFacts DEF PushToKafka, TypeOK
  <2>2. /\ lastPush \in [Url -> SUBSET Nat]
        /\ lastPush' = [lastPush EXCEPT ![UrlOf(i)] = {pushTp}]
        /\ UNCHANGED <<attempts, pc, batch, pushTp>>
    BY <1>1, <1>4 DEF PushToKafka, TypeOK
  <2>3. Urls(batch') = Urls(batch)
    BY <2>2 DEF Urls
  <2>4. CASE u = UrlOf(i)
    <3>1. t = pushTp /\ u \in Urls(pushed')
      BY <2>1, <2>2, <2>4
    <3> QED BY <2>2, <3>1
  <2>5. CASE u # UrlOf(i)
    <3>1. t \in lastPush[u] /\ (u \in Urls(pushed') <=> u \in Urls(pushed))
      BY <2>1, <2>2, <2>5
    <3> QED BY <1>1, <2>2, <2>3, <3>1
  <2> QED BY <2>4, <2>5
<1>5. CASE SetEnqueued
  <2>1. /\ t \in lastPush[u] /\ pushed = batch /\ pushed' = {} /\ pc' = "sleep"
    BY <1>5 DEF SetEnqueued, Sleep
  <2>2. CASE u \in Urls(batch)
    BY <1>1, <1>5, <2>1, <2>2, LastAfterSetEnqueued, UrlsFacts
  <2>3. CASE u \notin Urls(batch)
    BY <1>1, <1>5, <2>1, <2>3, LastAfterSetEnqueued, UrlsFacts
  <2> QED BY <2>2, <2>3
<1>6. ASSUME NEW rec \in BagToSet(gfq), NEW status \in Outcome, OnFetched(rec, status)
      PROVE  Gap(u, t)'
  <2>1. t \in lastPush[u] /\ UNCHANGED <<pushed, batch, pc, pushTp>>
    BY <1>6 DEF OnFetched
  <2>2. attempts[u] # <<>> =>
          attempts'[u] # <<>> /\ GetLast(attempts'[u]).tp = GetLast(attempts[u]).tp
    BY <1>1, <1>6, LastAfterResult
  <2> QED BY <1>1, <2>1, <2>2
<1>7. CASE Restart
  <2>1. /\ t \in lastPush[u] /\ attempts'[u] = attempts[u] /\ u \notin Urls(pushed)
        /\ pushed' = {} /\ pc' = "sleep"
    BY <1>7 DEF Restart, Sleep
  <2> QED BY <1>1, <2>1, UrlsFacts
<1>8. CASE UNCHANGED <<attempts, pushed, batch, pc, pushTp, lastPush>>
  BY <1>1, <1>8
<1>9. QED
  BY <1>2, <1>3, <1>4, <1>5, <1>6, <1>7, <1>8
     DEF Next, LoopStep, Fetched, KeepRobots, LoseRecord, SnapCopy, SnapPut, Tick, vars

-----------------------------------------------------------------------------
(***************************************************************************)
(* A result OK is waited for, unless it came during the push.              *)
(***************************************************************************)
LEMMA OkStep == IInv /\ [Next]_vars => OkInv'
<1> DEFINE Ok(u, t) ==
             /\ attempts[u] # <<>>
             /\ \/ GetLast(attempts[u]).tp = t /\ GetLast(attempts[u]).status = "OK"
                \/ GetLast(attempts[u]).tp >= t + OkWait(u)
             /\ pc = "push" /\ u \in Urls(batch) => pushTp >= t + OkWait(u)
<1>0. OkInv <=> \A u \in Url : \A t \in lastOk[u] : u \notin raced => Ok(u, t)
  BY DEF OkInv
<1>a. (\A u \in Url : \A t \in lastOk'[u] : u \notin raced' => Ok(u, t)') => OkInv'
  BY DEF OkInv, OkWait
<1> SUFFICES ASSUME IInv, [Next]_vars, NEW u \in Url, NEW t \in lastOk'[u], u \notin raced'
             PROVE  Ok(u, t)'
  BY <1>a
<1> USE DEF dbVars, loopVars, queueVars
<1>1. /\ TypeOK /\ pushed \subseteq batch /\ OkWait(u) \in Nat
      /\ checkNow <= now /\ checkNow \in Nat /\ now \in Nat /\ pushTp \in Nat
      /\ t \in lastOk[u] => t \in Nat
      /\ t \in lastOk[u] /\ u \notin raced => Ok(u, t)
  BY <1>0, AttemptsAssumption DEF IInv, LoopInv, TypeOK, OkWait
<1>2. CASE StartLoop \/ FilterByRobots
  BY <1>1, <1>2 DEF StartLoop, FilterByRobots
<1>3. CASE FilterByNeed
  <2>1. attempts' = attempts /\ t \in lastOk[u] /\ Ok(u, t) /\ t \in Nat
    BY <1>1, <1>3 DEF FilterByNeed
  <2>2. ASSUME pc' = "push", u \in Urls(batch') PROVE pushTp' >= t + OkWait(u)
    <3>1. pushTp' = now /\ \E i \in Item : u = UrlOf(i) /\ IsNeeded(i)
      BY <1>1, <1>3, <2>2, BatchNeeded DEF TypeOK
    <3>2. /\ checkNow >= GetLast(attempts[u]).tp + Hour
          /\ GetLast(attempts[u]).status = "OK" =>
               checkNow >= GetLast(attempts[u]).tp + OkWait(u)
          /\ GetLast(attempts[u]).tp \in Nat
      BY <1>1, <2>1, <3>1, NeededWaited
    <3> QED BY <1>1, <2>1, <3>1, <3>2, AttemptsAssumption
  <2> QED BY <2>1, <2>2
<1>4. ASSUME NEW i \in Item, PushToKafka(i) PROVE Ok(u, t)'
  BY <1>1, <1>4 DEF PushToKafka
<1>5. CASE SetEnqueued
  <2>1. t \in lastOk[u] /\ pc = "push" /\ pc' = "sleep" /\ Ok(u, t)
    BY <1>1, <1>5 DEF SetEnqueued, Sleep
  <2>2. CASE u \in Urls(batch)
    BY <1>1, <1>5, <2>1, <2>2, LastAfterSetEnqueued
  <2>3. CASE u \notin Urls(batch)
    BY <1>1, <1>5, <2>1, <2>3, LastAfterSetEnqueued
  <2> QED BY <2>2, <2>3
<1>6. ASSUME NEW rec \in BagToSet(gfq), NEW status \in Outcome, OnFetched(rec, status)
      PROVE  Ok(u, t)'
  <2>1. UNCHANGED <<batch, pc, pushTp>>
    BY <1>6 DEF OnFetched
  <2>2. CASE u = rec.url
    <3>1. status = "OK" /\ t = GetLast(attempts'[u]).tp
      BY <1>1, <1>6, <2>2 DEF OnFetched, TypeOK
    <3>2. ~(pc = "push" /\ u \in Urls(batch))
      BY <1>6, <2>2, <3>1 DEF OnFetched
    <3>3. attempts'[u] # <<>> /\ GetLast(attempts'[u]).status = "OK"
      BY <1>1, <1>6, <2>2, <3>1, LastAfterResult
    <3> QED BY <2>1, <3>1, <3>2, <3>3
  <2>3. CASE u # rec.url
    <3>1. t \in lastOk[u] /\ u \notin raced
      BY <1>1, <1>6, <2>3 DEF OnFetched, TypeOK
    <3>2. attempts'[u] = attempts[u]
      BY <1>1, <1>6, <2>3, LastAfterResult
    <3> QED BY <1>1, <2>1, <3>1, <3>2
  <2> QED BY <2>2, <2>3
<1>7. CASE Restart
  <2>1. /\ t \in lastOk[u] /\ attempts'[u] = attempts[u] /\ u \notin raced
        /\ pc' = "sleep"
    BY <1>7 DEF Restart, Sleep
  <2> QED BY <1>1, <2>1
<1>8. CASE UNCHANGED <<attempts, batch, pc, pushTp, lastOk, raced>>
  BY <1>1, <1>8
<1>9. QED
  BY <1>2, <1>3, <1>4, <1>5, <1>6, <1>7, <1>8
     DEF Next, LoopStep, Fetched, KeepRobots, LoseRecord, SnapCopy, SnapPut, Tick, vars

-----------------------------------------------------------------------------
(***************************************************************************)
(* Robots rules: only a restart loses what is known, and remembers that it *)
(* did; an OK on record is vouched for by HostDb, or will be, or fell to a *)
(* restart.                                                                *)
(***************************************************************************)
Vouched(u) == robots[u] # NoRobots \/ BagIn(u, keeping) \/ u \in torn

Knew(u) == robots[u] # NoRobots \/ u \in torn

LEMMA KnownStays ==
  ASSUME TypeOK, [Next]_vars, NEW u \in Robots, robots[u] # NoRobots, ~Restart
  PROVE  robots'[u] # NoRobots
<1> USE DEF hostVars
<1>1. ASSUME NEW v \in Robots, NEW rules \in Rules, KeepRobots(v, rules)
      PROVE  robots'[u] # NoRobots
  BY <1>1 DEF KeepRobots, TypeOK
<1>2. CASE robots' = robots
  BY <1>2
<1>3. QED
  BY <1>1, <1>2
     DEF Next, LoopStep, StartLoop, FilterByRobots, FilterByNeed, PushToKafka, SetEnqueued,
         Fetched, OnFetched, LoseRecord, SnapCopy, SnapPut, Tick, vars

LEMMA KnewStays ==
  ASSUME TypeOK, [Next]_vars, NEW u \in Robots, Knew(u)
  PROVE  Knew(u)'
<1> USE DEF Knew, hostVars
<1>1. ASSUME NEW v \in Robots, NEW rules \in Rules, KeepRobots(v, rules)
      PROVE  Knew(u)'
  BY <1>1 DEF KeepRobots, TypeOK
<1>2. CASE Restart
  BY <1>2 DEF Restart
<1>3. CASE robots' = robots /\ torn' = torn
  BY <1>3
<1>4. QED
  BY <1>1, <1>2, <1>3
     DEF Next, LoopStep, StartLoop, FilterByRobots, FilterByNeed, PushToKafka, SetEnqueued,
         Fetched, OnFetched, LoseRecord, SnapCopy, SnapPut, Tick, vars

LEMMA VouchedStays ==
  ASSUME TypeOK, IsABag(keeping), [Next]_vars, NEW u \in Robots, Vouched(u)
  PROVE  Vouched(u)' /\ IsABag(keeping')
<1> USE DEF loopVars
<1>1. Knew(u) => Vouched(u)'
  BY KnewStays DEF Vouched, Knew
<1>2. ASSUME NEW rec \in BagToSet(gfq), NEW status \in Outcome, OnFetched(rec, status)
      PROVE  /\ BagToSet(keeping) \subseteq BagToSet(keeping') /\ IsABag(keeping')
             /\ torn' = torn
  <2>1. \/ keeping' = keeping
        \/ keeping' = keeping (+) SetToBag({rec.url})
    BY <1>2 DEF OnFetched
  <2>2. torn' = torn
    BY <1>2 DEF OnFetched
  <2>3. ASSUME keeping' = keeping (+) SetToBag({rec.url})
        PROVE  BagToSet(keeping) \subseteq BagToSet(keeping') /\ IsABag(keeping')
    BY <2>3, BagPut
  <2> QED BY <2>1, <2>2, <2>3
<1>3. ASSUME NEW v \in Robots, NEW rules \in Rules, KeepRobots(v, rules)
      PROVE  Vouched(u)' /\ IsABag(keeping')
  <2>1. /\ keeping' = keeping (-) SetToBag({v})
        /\ torn' = torn \ {v}
        /\ robots' = [robots EXCEPT ![v] = rules]
    BY <1>3 DEF KeepRobots
  <2>2. IsABag(keeping') /\ BagToSet(keeping) \ {v} \subseteq BagToSet(keeping')
    BY <2>1, BagTake
  <2>3. CASE u = v
    BY <2>1, <2>2, <2>3 DEF Vouched, TypeOK
  <2>4. CASE u # v
    BY <2>1, <2>2, <2>4 DEF Vouched, BagIn, TypeOK
  <2> QED BY <2>3, <2>4
<1>4. CASE Restart
  <2>1. IsABag(keeping') /\ (robots'[u] # NoRobots \/ u \in torn')
    BY <1>4, EmptyBagFacts DEF Restart, Vouched, BagIn
  <2> QED BY <2>1 DEF Vouched
<1>5. CASE UNCHANGED <<keeping, torn>>
  BY <1>1, <1>5 DEF Vouched, Knew
<1>6. QED
  <2>1. ASSUME NEW rec \in BagToSet(gfq), NEW status \in Outcome, OnFetched(rec, status)
        PROVE  Vouched(u)' /\ IsABag(keeping')
    BY <1>1, <1>2, <2>1 DEF Vouched, Knew, BagIn
  <2> QED
    BY <2>1, <1>3, <1>4, <1>5
       DEF Next, LoopStep, StartLoop, FilterByRobots, FilterByNeed, PushToKafka, SetEnqueued,
           Fetched, LoseRecord, SnapCopy, SnapPut, Tick, vars, queueVars

\* The lists a step leaves behind have an OK only if one of the lists had it, or
\* a result has just brought it.
LEMMA OkComesFrom ==
  ASSUME TypeOK, IsABag(keeping), [Next]_vars, NEW u \in Robots,
         NEW a \in {attempts'[u], attemptsDb'[u], snap'[u]},
         a # <<>>, GetLast(a).status = "OK"
  PROVE  a \in {attempts[u], attemptsDb[u], snap[u]} \/ Vouched(u)'
<1> USE DEF dbVars
<1>0. u \in Url
  BY DEF Url
<1>1. CASE SetEnqueued
  <2>1. attempts'[u] # a \/ attempts'[u] = attempts[u]
    BY <1>0, <1>1, LastAfterSetEnqueued
  <2>2. UNCHANGED <<attemptsDb, snap>>
    BY <1>1 DEF SetEnqueued
  <2> QED BY <2>1, <2>2
<1>2. ASSUME NEW rec \in BagToSet(gfq), NEW status \in Outcome, OnFetched(rec, status)
      PROVE  a \in {attempts[u], attemptsDb[u], snap[u]} \/ Vouched(u)'
  <2>1. UNCHANGED <<attemptsDb, snap>>
    BY <1>2 DEF OnFetched
  <2>2. CASE u # rec.url
    BY <1>0, <1>2, <2>1, <2>2, LastAfterResult
  <2>3. CASE u = rec.url /\ status = "OK"
    <3>1. keeping' = keeping (+) SetToBag({u})
      BY <1>2, <2>3 DEF OnFetched, IsOkRobots
    <3>2. BagToSet(keeping') = BagToSet(keeping) \cup {u}
      BY <3>1, BagPut
    <3> QED BY <3>2 DEF Vouched, BagIn
  <2>4. CASE u = rec.url /\ status # "OK"
    BY <1>2, <2>1, <2>4, LastAfterResult
  <2> QED BY <2>2, <2>3, <2>4
<1>3. CASE SnapCopy
  BY <1>3 DEF SnapCopy
<1>4. ASSUME NEW v \in Url, SnapPut(v)
      PROVE  a \in {attempts[u], attemptsDb[u], snap[u]}
  <2>1. CASE u = v
    BY <1>0, <1>4, <2>1 DEF SnapPut, TypeOK
  <2>2. CASE u # v
    BY <1>0, <1>4, <2>2 DEF SnapPut, TypeOK
  <2> QED BY <2>1, <2>2
<1>5. CASE Restart
  BY <1>0, <1>5 DEF Restart, LoadCrawlAttempts
<1>6. CASE UNCHANGED dbVars
  BY <1>6
<1>7. QED
  BY <1>1, <1>2, <1>3, <1>4, <1>5, <1>6
     DEF Next, LoopStep, StartLoop, FilterByRobots, FilterByNeed, PushToKafka,
         Fetched, KeepRobots, LoseRecord, Tick, vars

LEMMA RobotsStep == IInv /\ [Next]_vars => RobotsInv'
<1> SUFFICES ASSUME IInv, [Next]_vars PROVE RobotsInv'
  OBVIOUS
<1>0. /\ TypeOK /\ IsABag(keeping) /\ (\A p \in Urls(batch) \cap Page : Known(p))
      /\ \A u \in Robots : \A a \in {attempts[u], attemptsDb[u], snap[u]} :
           a # <<>> /\ GetLast(a).status = "OK" => Vouched(u)
  BY DEF IInv, RobotsInv, Vouched
<1>1. IsABag(keeping')
  <2>1. ASSUME NEW rec \in BagToSet(gfq), NEW status \in Outcome, OnFetched(rec, status)
        PROVE  IsABag(keeping')
    <3>1. CASE keeping' = keeping
      BY <1>0, <3>1
    <3>2. CASE keeping' = keeping (+) SetToBag({rec.url})
      BY <1>0, <3>2, BagPut
    <3> QED BY <2>1, <3>1, <3>2 DEF OnFetched
  <2>2. ASSUME NEW v \in Robots, NEW rules \in Rules, KeepRobots(v, rules)
        PROVE  IsABag(keeping')
    <3>1. keeping' = keeping (-) SetToBag({v})
      BY <2>2 DEF KeepRobots
    <3> QED BY <1>0, <3>1, BagTake
  <2>3. CASE Restart
    BY <2>3, EmptyBagFacts DEF Restart
  <2>4. CASE keeping' = keeping
    BY <1>0, <2>4
  <2> QED
    BY <2>1, <2>2, <2>3, <2>4
       DEF Next, LoopStep, StartLoop, FilterByRobots, FilterByNeed, PushToKafka, SetEnqueued,
           Fetched, LoseRecord, SnapCopy, SnapPut, Tick, vars, queueVars
<1>2. ASSUME NEW u \in Robots, NEW a \in {attempts'[u], attemptsDb'[u], snap'[u]},
             a # <<>>, GetLast(a).status = "OK"
      PROVE  Vouched(u)'
  BY <1>0, <1>2, OkComesFrom, VouchedStays
<1>3. \A p \in Page : RobotsOf[p] \in Robots /\ (Known(p) => Known(p)' \/ Restart)
  BY <1>0, KnownStays DEF Known
<1>4. ASSUME NEW p \in Urls(batch') \cap Page PROVE Known(p)'
  <2>1. CASE FilterByRobots
    <3>1. Known(p)
      BY <1>4, <2>1, TopVisitsAreVisits, AllowedAreKnown DEF FilterByRobots
    <3> QED BY <2>1, <3>1 DEF FilterByRobots, hostVars, Known
  <2>2. CASE FilterByNeed
    <3>1. batch' \subseteq batch
      BY <2>2 DEF FilterByNeed, Limited
    <3>2. Known(p)
      BY <1>0, <1>4, <3>1, UrlsFacts
    <3> QED BY <2>2, <3>2 DEF FilterByNeed, hostVars, Known
  <2>3. batch' # {}
    BY <1>4, UrlsFacts
  <2>4. CASE batch' = batch /\ ~Restart
    BY <1>0, <1>3, <1>4, <2>4
  <2> QED
    BY <2>1, <2>2, <2>3, <2>4
       DEF Next, LoopStep, StartLoop, PushToKafka, SetEnqueued, Sleep, Fetched, OnFetched,
           KeepRobots, LoseRecord, SnapCopy, SnapPut, Restart, Tick, vars, loopVars
<1>5. QED
  BY <1>1, <1>2, <1>4 DEF RobotsInv, Vouched

(***************************************************************************)
(* Only pages with known robots rules are pushed.                          *)
(***************************************************************************)
LEMMA QueueStep == IInv /\ [Next]_vars => QueuedPagesFetchable'
<1> SUFFICES ASSUME IInv, [Next]_vars, NEW rec \in BagToSet(gfq'), rec.url \in Page
             PROVE  Knew(RobotsOf[rec.url])'
  BY DEF QueuedPagesFetchable, Known, Knew
<1>0. /\ TypeOK /\ QueuedPagesFetchable
      /\ \A p \in Urls(batch) \cap Page : Known(p)
  BY DEF IInv, RobotsInv
<1>1. \A p \in Page : Knew(RobotsOf[p]) => Knew(RobotsOf[p])'
  BY <1>0, KnewStays
<1>2. ASSUME NEW i \in Item, PushToKafka(i)
      PROVE  rec \in BagToSet(gfq) \/ rec.url \in Urls(batch)
  <2> DEFINE u == UrlOf(i)
  <2>1. gfq' = gfq (+) SetToBag({[url |-> u, ts |-> pushTp]}) /\ u \in Urls(batch)
    BY <1>2, UrlsFacts DEF PushToKafka
  <2> HIDE DEF u
  <2>2. BagToSet(gfq') = BagToSet(gfq) \cup {[url |-> u, ts |-> pushTp]}
    BY <2>1, BagPut
  <2>3. rec \in BagToSet(gfq) \/ rec = [url |-> u, ts |-> pushTp]
    BY <2>2
  <2>4. [url |-> u, ts |-> pushTp].url = u
    OBVIOUS
  <2> QED BY <2>1, <2>3, <2>4
<1>3. ASSUME NEW r \in BagToSet(gfq), gfq' = gfq (-) SetToBag({r})
      PROVE  rec \in BagToSet(gfq)
  BY <1>3, BagTake
<1>4. rec \in BagToSet(gfq) \/ rec.url \in Urls(batch)
  <2>1. ASSUME NEW r \in BagToSet(gfq), NEW status \in Outcome, OnFetched(r, status)
        PROVE  rec \in BagToSet(gfq)
    BY <2>1, <1>3 DEF OnFetched
  <2>2. ASSUME NEW r \in BagToSet(gfq), LoseRecord(r) PROVE rec \in BagToSet(gfq)
    BY <2>2, <1>3 DEF LoseRecord
  <2>3. CASE gfq' = gfq
    BY <2>3
  <2> QED
    <3>1. \/ gfq' = gfq
          \/ \E i \in Item : PushToKafka(i)
          \/ \E u \in Url : Fetched(u)
          \/ \E r \in BagToSet(gfq) : LoseRecord(r)
      BY DEF Next, LoopStep, StartLoop, FilterByRobots, FilterByNeed, SetEnqueued,
             KeepRobots, SnapCopy, SnapPut, Restart, Tick, vars, queueVars
    <3> QED BY <3>1, <1>2, <2>1, <2>2, <2>3 DEF Fetched
<1>5. QED
  BY <1>0, <1>1, <1>4 DEF QueuedPagesFetchable, Known, Knew

-----------------------------------------------------------------------------
(***************************************************************************)
(* IInv is inductive (EnqueueLoop.cpp, UrlDb*.cpp, HostDb.cpp:47-95): what  *)
(* the loop decided on stays right for as long as it takes to push it.      *)
(***************************************************************************)
THEOREM EnqueueInductive == Spec => []IInv
<1>1. IInv /\ [Next]_vars => IInv'
  BY TypeStep, LoopStepInv, GapStep, OkStep, RobotsStep, QueueStep DEF IInv
<1>2. QED
  BY InitIInv, <1>1, PTL DEF Spec

(***************************************************************************)
(* The lists of attempts never outgrow LAST_STORE_ATTEMPTS, and everything *)
(* pushed, kept or remembered is of its type (CrawlAttempts.cpp:38-47).    *)
(***************************************************************************)
THEOREM EnqueueTypeCorrect == Spec => []TypeOK
<1>1. IInv => TypeOK
  BY DEF IInv
<1>2. QED
  BY <1>1, EnqueueInductive, PTL

(***************************************************************************)
(* No page circulates in the queue for want of a robots.txt nobody has     *)
(* asked for, but for the rules a restart lost                             *)
(* (EnqueueLoopFilter.cpp:8-36, HostDb.cpp:24-33, 79-95).                  *)
(***************************************************************************)
THEOREM QueueFetchable == Spec => []QueuedPagesFetchable
<1>1. IInv => QueuedPagesFetchable
  BY DEF IInv
<1>2. QED
  BY <1>1, EnqueueInductive, PTL

(***************************************************************************)
(* UrlDb and HostDb agree on robots.txt, whatever writes and scans of      *)
(* either fail, up to a restart (Scheduler.cpp:165-168, HostDb.cpp:24-55,  *)
(* UrlDbLoad.cpp:22-30).                                                   *)
(***************************************************************************)
THEOREM RobotsAgreed == Spec => []RobotsAgree
<1>1. IInv => RobotsAgree
  BY DEF IInv, RobotsInv, RobotsAgree
<1>2. QED
  BY <1>1, EnqueueInductive, PTL

\* Nothing but PushToKafka pushes.
LEMMA PushesOnly ==
  ASSUME IInv, [Next]_vars, NEW u \in Url, Pushes(u)
  PROVE  pc = "push" /\ u \in Urls(batch) \ Urls(pushed)
<1>0. u \in Urls(pushed') /\ u \notin Urls(pushed)
  BY DEF Pushes
<1>1. ASSUME NEW i \in Item, PushToKafka(i)
      PROVE  pc = "push" /\ u \in Urls(batch) \ Urls(pushed)
  <2>1. Urls(pushed') = Urls(pushed) \cup {UrlOf(i)} /\ UrlOf(i) \in Urls(batch) /\ pc = "push"
    BY <1>1, UrlsFacts DEF PushToKafka
  <2> QED BY <1>0, <2>1
<1>2. CASE pushed' \in SUBSET pushed
  BY <1>0, <1>2, UrlsFacts
<1>3. QED
  BY <1>1, <1>2
     DEF Next, LoopStep, StartLoop, FilterByRobots, FilterByNeed, SetEnqueued, Sleep,
         Fetched, OnFetched, KeepRobots, LoseRecord, SnapCopy, SnapPut, Restart, Tick,
         vars, loopVars

(***************************************************************************)
(* No two rounds push a URL within the hour, under whatever spellings,     *)
(* whatever results come and whenever the scheduler restarts, as far as    *)
(* its snapshots go and are read (EnqueueLoop.cpp:22-41,                   *)
(* UrlDbPolicy.cpp, UrlDbPolicyRobots.cpp, UrlDbLoad.cpp:22-30).           *)
(***************************************************************************)
THEOREM PushesAnHourApart == Spec => PushGap
<1>1. IInv /\ [Next]_vars =>
        [\A u \in Url : Pushes(u) => \A t \in lastPush[u] : pushTp >= t + Hour]_vars
  BY PushesOnly DEF IInv, GapInv
<1>2. QED
  BY <1>1, EnqueueInductive, PTL DEF Spec, PushGap

(***************************************************************************)
(* A URL with an OK result is left alone as long as the policies say,      *)
(* unless the result came during the push or a restart did not find it     *)
(* (UrlDbPolicy.cpp:59-65, UrlDbPolicyRobots.cpp:57-63).                   *)
(***************************************************************************)
THEOREM OkWaited == Spec => OkWaits
<1>1. IInv /\ [Next]_vars =>
        [\A u \in Url :
           Pushes(u) /\ u \notin raced => \A t \in lastOk[u] : pushTp >= t + OkWait(u)]_vars
  BY PushesOnly DEF IInv, OkInv
<1>2. QED
  BY <1>1, EnqueueInductive, PTL DEF Spec, OkWaits
=============================================================================
