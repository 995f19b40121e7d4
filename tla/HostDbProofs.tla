---------------------------- MODULE HostDbProofs ----------------------------
(***************************************************************************)
(* The safety properties of HostDb for any hosts, records, workers, limits *)
(* and windows.  IInv, defined in HostDb, is inductive; every property is  *)
(* one of its conjuncts or follows from it.                                *)
(***************************************************************************)
EXTENDS HostDb, FiniteSetTheorems, WellFoundedInduction, TLAPS

-----------------------------------------------------------------------------
(***************************************************************************)
(* What the operators of HostFreq return, for any windows and limits.      *)
(***************************************************************************)
LEMMA LeastNat ==
  ASSUME NEW S, S \subseteq Nat, S # {}
  PROVE  \E k \in S : \A j \in S : k <= j
<1>1. \E k \in S : \A j \in S : ~(<<j, k>> \in OpToRel(<, Nat))
  BY NatLessThanWellFounded, WFMin
<1>2. ASSUME NEW j \in Nat, NEW k \in Nat, j < k
      PROVE  <<j, k>> \in OpToRel(<, Nat)
  BY <1>2 DEF OpToRel
<1>3. PICK k \in S : \A j \in S : ~(<<j, k>> \in OpToRel(<, Nat))
  BY <1>1
<1>4. ASSUME NEW j \in S PROVE k <= j
  <2>1. j \in Nat /\ k \in Nat /\ ~(j < k)
    BY <1>2, <1>3
  <2> QED BY <2>1
<1>5. QED
  BY <1>4

(***************************************************************************)
(* The loop of checkClean always stops at some point, and whatever it      *)
(* popped is expired.                                                      *)
(***************************************************************************)
LEMMA CheckCleanPopsExpired ==
  ASSUME NEW f \in Freq, NEW w \in Window, NEW t \in Nat,
         f.popped[w] <= Len(f.log)
  PROVE  /\ CheckClean(f, w, t) \in f.popped[w] .. Len(f.log)
         /\ \A i \in f.popped[w] + 1 .. CheckClean(f, w, t) :
              Expired(w, f.log[i], t)
<1> DEFINE stops(k) == k < Len(f.log) => ~Expired(w, f.log[k + 1], t)
           Stops == {k \in f.popped[w] .. Len(f.log) : stops(k)}
<1>1. f.popped[w] \in Nat /\ Len(f.log) \in Nat
  BY DEF Freq
<1>2. Len(f.log) \in Stops /\ Stops \subseteq Nat
  BY <1>1
<1>3. PICK k \in Stops : \A j \in Stops : k <= j
  <2> HIDE DEF Stops
  <2> QED BY <1>2, LeastNat
<1>4. \A i \in f.popped[w] + 1 .. k : Expired(w, f.log[i], t)
  <2> SUFFICES ASSUME NEW i \in f.popped[w] + 1 .. k, ~Expired(w, f.log[i], t)
               PROVE  FALSE
    OBVIOUS
  <2>1. i - 1 \in f.popped[w] .. Len(f.log) /\ (i - 1) + 1 = i /\ i - 1 < k
    BY <1>1, <1>3
  <2>2. i - 1 \in Stops
    BY <2>1
  <2> QED BY <2>1, <2>2, <1>3, <1>1
<1>5. \E n \in f.popped[w] .. Len(f.log) :
        /\ \A i \in f.popped[w] + 1 .. n : Expired(w, f.log[i], t)
        /\ stops(n)
  BY <1>3, <1>4
<1> HIDE DEF stops, Stops
<1>6. QED
  BY <1>5 DEF CheckClean, stops

(***************************************************************************)
(* A newer clock expires no fewer points.                                  *)
(***************************************************************************)
LEMMA PoppedExpiredLater ==
  ASSUME NEW f \in Freq, NEW t \in Nat, NEW later \in Nat, t <= later,
         PoppedExpired(f, t)
  PROVE  PoppedExpired(f, later)
<1> SUFFICES ASSUME NEW w \in Window, NEW i \in 1 .. f.popped[w]
             PROVE  Expired(w, f.log[i], later)
  BY DEF PoppedExpired
<1>1. f.popped[w] \in Nat /\ f.popped[w] <= Len(f.log) /\ f.log \in Seq(Nat)
  BY DEF PoppedExpired, Freq
<1>2. f.log[i] \in Nat
  BY <1>1
<1>3. t - f.log[i] > WindowLen[w] /\ WindowLen[w] \in Nat
  BY LimitsAssumption DEF PoppedExpired, Expired
<1>4. QED
  BY <1>2, <1>3 DEF Expired

(***************************************************************************)
(* incCrawling() counts the fetch and keeps the windows sound.             *)
(***************************************************************************)
LEMMA IncCrawlingFacts ==
  ASSUME NEW f \in Freq, NEW t \in Nat, PoppedExpired(f, t)
  PROVE  /\ IncCrawling(f, t) \in Freq
         /\ IncCrawling(f, t).crawling = f.crawling + 1
         /\ IncCrawling(f, t).log = Append(f.log, t)
         /\ PoppedExpired(IncCrawling(f, t), t)
<1> DEFINE p == [f EXCEPT !.crawling = @ + 1, !.log = Append(@, t)]
           g == IncCrawling(f, t)
<1>1. f.log \in Seq(Nat) /\ f.popped \in [Window -> Nat] /\ f.crawling \in Nat
  BY DEF Freq
<1>2. /\ p.crawling = f.crawling + 1
      /\ p.log = Append(f.log, t)
      /\ p.popped = f.popped
      /\ p \in Freq
  <2>1. f.crawling + 1 \in Nat /\ Append(f.log, t) \in Seq(Nat)
    BY <1>1
  <2> QED BY <2>1, <1>1 DEF Freq
<1>3. /\ Len(p.log) = Len(f.log) + 1
      /\ Len(f.log) \in Nat
      /\ \A i \in 1 .. Len(f.log) : p.log[i] = f.log[i]
  BY <1>1, <1>2
<1>4. ASSUME NEW w \in Window
      PROVE  /\ CheckClean(p, w, t) \in 0 .. Len(p.log)
             /\ \A i \in 1 .. CheckClean(p, w, t) : Expired(w, p.log[i], t)
  <2>1. f.popped[w] \in Nat /\ f.popped[w] <= Len(f.log)
    BY <1>1 DEF PoppedExpired
  <2>2. p.popped[w] <= Len(p.log)
    BY <2>1, <1>2, <1>3
  <2> HIDE DEF p
  <2>3. /\ CheckClean(p, w, t) \in p.popped[w] .. Len(p.log)
        /\ \A i \in p.popped[w] + 1 .. CheckClean(p, w, t) :
             Expired(w, p.log[i], t)
    BY <1>2, <2>2, CheckCleanPopsExpired
  <2>4. \A i \in 1 .. f.popped[w] : Expired(w, p.log[i], t)
    <3> TAKE i \in 1 .. f.popped[w]
    <3>1. i \in 1 .. Len(f.log)
      BY <2>1, <1>3
    <3>2. Expired(w, f.log[i], t)
      BY DEF PoppedExpired
    <3> QED BY <3>1, <3>2, <1>3
  <2>5. CheckClean(p, w, t) \in Nat /\ p.popped[w] = f.popped[w]
    BY <2>3, <2>1, <1>2
  <2>6. ASSUME NEW i \in 1 .. CheckClean(p, w, t)
        PROVE  Expired(w, p.log[i], t)
    <3>1. i \in 1 .. f.popped[w] \/ i \in f.popped[w] + 1 .. CheckClean(p, w, t)
      BY <2>1, <2>5
    <3> QED BY <3>1, <2>3, <2>4, <2>5
  <2> QED BY <2>1, <2>3, <2>5, <2>6
<1>5. g = [p EXCEPT !.popped = [w \in Window |-> CheckClean(p, w, t)]]
  BY DEF IncCrawling
<1> HIDE DEF p
<1>6. [w \in Window |-> CheckClean(p, w, t)] \in [Window -> Nat]
  BY <1>4, <1>3
<1>7. /\ g \in Freq
      /\ g.crawling = p.crawling
      /\ g.log = p.log
      /\ \A w \in Window : g.popped[w] = CheckClean(p, w, t)
  <2> HIDE DEF g
  <2> DEFINE c == [w \in Window |-> CheckClean(p, w, t)]
  <2>1. g = [p EXCEPT !.popped = c] /\ c \in [Window -> Nat]
    BY <1>5, <1>6
  <2>2. \A w \in Window : c[w] = CheckClean(p, w, t)
    OBVIOUS
  <2> HIDE DEF c
  <2> QED BY <2>1, <2>2, <1>2 DEF Freq
<1>8. PoppedExpired(g, t)
  <2> HIDE DEF g
  <2> SUFFICES ASSUME NEW w \in Window
               PROVE  /\ g.popped[w] <= Len(g.log)
                      /\ \A i \in 1 .. g.popped[w] : Expired(w, g.log[i], t)
    BY DEF PoppedExpired
  <2>1. g.popped[w] = CheckClean(p, w, t) /\ g.log = p.log
    BY <1>7
  <2>2. Len(p.log) \in Nat
    BY <1>3
  <2> QED BY <1>4, <2>1, <2>2
<1>9. QED
  BY <1>2, <1>7, <1>8

(***************************************************************************)
(* The rate limit: a fetch that isAllowed() lets through keeps the log     *)
(* spaced, because at most WindowLimit[w] - 1 points are not yet expired.  *)
(***************************************************************************)
LEMMA IncCrawlingKeepsSpaced ==
  ASSUME NEW f \in Freq, NEW t \in Nat, PoppedExpired(f, t), Spaced(f),
         IsAllowed(f, t)
  PROVE  Spaced(IncCrawling(f, t))
<1> DEFINE n == Len(f.log)
           g == IncCrawling(f, t)
<1>1. f.log \in Seq(Nat) /\ f.popped \in [Window -> Nat] /\ n \in Nat
  BY DEF Freq
<1>2. g.log = Append(f.log, t)
  BY IncCrawlingFacts
<1>3. /\ Len(g.log) = n + 1
      /\ g.log[n + 1] = t
      /\ \A i \in 1 .. n : g.log[i] = f.log[i]
  <2> HIDE DEF g
  <2> QED BY <1>1, <1>2
<1> SUFFICES ASSUME NEW w \in Window, NEW i \in 1 .. Len(g.log),
                    i + WindowLimit[w] <= Len(g.log)
             PROVE  g.log[i + WindowLimit[w]] - g.log[i] > WindowLen[w]
  BY DEF Spaced
<1> HIDE DEF g
<1>4. WindowLimit[w] \in Nat \ {0} /\ i \in 1 .. n + 1 /\ i + WindowLimit[w] <= n + 1
  BY LimitsAssumption, <1>3
<1> HIDE DEF n
<1>5. CASE i + WindowLimit[w] <= n
  <2>1. i \in 1 .. n /\ i + WindowLimit[w] \in 1 .. n
    BY <1>1, <1>3, <1>4, <1>5
  <2> QED BY <2>1, <1>3, <1>5 DEF Spaced, n
<1>6. CASE i + WindowLimit[w] = n + 1
  <2> DEFINE k == CheckClean(f, w, t)
  <2>1. f.popped[w] <= n /\ f.popped[w] \in Nat
    BY <1>1 DEF PoppedExpired, n
  <2>2. /\ k \in f.popped[w] .. n
        /\ \A j \in f.popped[w] + 1 .. k : Expired(w, f.log[j], t)
    BY <2>1, CheckCleanPopsExpired DEF n
  <2>3. n - k < WindowLimit[w]
    BY DEF IsAllowed, Size, n
  <2> HIDE DEF k
  <2>4. i <= k /\ i \in 1 .. n
    BY <1>1, <1>3, <1>4, <1>6, <2>1, <2>2, <2>3
  <2>5. i \in 1 .. f.popped[w] \/ i \in f.popped[w] + 1 .. k
    BY <2>1, <2>2, <2>4
  <2>6. Expired(w, f.log[i], t)
    BY <2>2, <2>5 DEF PoppedExpired
  <2> QED BY <1>3, <1>6, <2>4, <2>6 DEF Expired
<1>7. n \in Nat /\ i + WindowLimit[w] \in Nat
  BY <1>1, <1>4
<1>8. i + WindowLimit[w] <= n \/ i + WindowLimit[w] = n + 1
  BY <1>1, <1>4, <1>7
<1>9. QED
  BY <1>5, <1>6, <1>8

-----------------------------------------------------------------------------
(***************************************************************************)
(* The invariant.                                                          *)
(***************************************************************************)
USE HostDbAssumption, LimitsAssumption

LEMMA StagesFinite ==
  ASSUME NEW S, NEW s
  PROVE  /\ IsFiniteSet(AtStage(S, s))
         /\ Cardinality(AtStage(S, s)) \in Nat
<1>1. AtStage(S, s) \subseteq Req
  BY DEF AtStage
<1>2. IsFiniteSet(AtStage(S, s))
  BY <1>1, FS_Subset
<1>3. QED
  BY <1>2, FS_CardinalityType

LEMMA HoldingFinite ==
  ASSUME NEW s
  PROVE  /\ IsFiniteSet(Holding(s)) /\ Cardinality(Holding(s)) \in Nat
         /\ IsFiniteSet(Fetching(s)) /\ Cardinality(Fetching(s)) \in Nat
         /\ Cardinality(Fetching(s)) <= Cardinality(Holding(s))
<1>1. Fetching(s) \subseteq Holding(s)
  BY DEF Fetching, Holding, AtStage
<1>2. IsFiniteSet(Holding(s)) /\ IsFiniteSet(Fetching(s))
  BY StagesFinite DEF Holding, Fetching
<1>3. QED
  BY <1>1, <1>2, FS_Subset, FS_CardinalityType

LEMMA ScopesOf ==
  ASSUME NEW r \in Req, NEW s \in Scope
  PROVE  s \in Scopes(r) <=> InScope(r, s)
BY DEF Scopes, InScope, Scope

LEMMA RulesNotMissing == NoRobots \notin Rules
BY DEF Rules

LEMMA NewFreqFacts ==
  /\ NewFreq \in Freq
  /\ NewFreq.crawling = 0
  /\ NewFreq.log = <<>>
  /\ Spaced(NewFreq)
  /\ \A t \in Nat : PoppedExpired(NewFreq, t)
<1>1. <<>> \in Seq(Nat) /\ Len(<<>>) = 0
  OBVIOUS
<1>2. NewFreq \in Freq /\ NewFreq.crawling = 0 /\ NewFreq.log = <<>>
  BY <1>1 DEF NewFreq, Freq
<1>3. Spaced(NewFreq)
  BY <1>1, <1>2 DEF Spaced
<1>4. \A t \in Nat : PoppedExpired(NewFreq, t)
  BY <1>1 DEF PoppedExpired, NewFreq
<1>5. QED
  BY <1>2, <1>3, <1>4

-----------------------------------------------------------------------------
LEMMA InitIInv == Init => IInv
<1> SUFFICES ASSUME Init PROVE IInv
  OBVIOUS
<1> USE DEF Init
<1>1. TypeOK
  <2>1. <<>> \in Seq(Req) /\ known \subseteq Host /\ before \subseteq Req
    OBVIOUS
  <2>2. freq \in [Scope -> Freq]
    BY NewFreqFacts
  <2>3. stage \in [Req -> Stage]
    BY DEF Stage
  <2>4. /\ robots \in [Host -> {NoRobots} \cup Rules]
        /\ learned \in [Host -> {NoRobots} \cup Rules]
    BY DEF LoadRobotsDb, NothingLearned
  <2> QED BY <2>1, <2>2, <2>3, <2>4 DEF TypeOK
<1>2. CallInv
  BY DEF CallInv
<1>3. CountInv
  BY NewFreqFacts DEF CountInv, Scope
<1>4. \A s \in Scope : Holding(s) = {}
  BY DEF Holding, AtStage
<1>5. SlotAccounting
  BY <1>4, NewFreqFacts, FS_EmptySet DEF SlotAccounting
<1>6. WindowInv
  <2>1. now \in Nat /\ \A s \in Scope : freq[s] = NewFreq
    OBVIOUS
  <2> QED BY <2>1, NewFreqFacts DEF WindowInv
<1>7. RateLimit
  BY NewFreqFacts DEF RateLimit, Scope
<1>8. RobotsInForce
  BY DEF RobotsInForce, NothingLearned
<1>9. QED
  BY <1>1, <1>2, <1>3, <1>5, <1>6, <1>7, <1>8 DEF IInv

-----------------------------------------------------------------------------
(***************************************************************************)
(* A record is allowed: one more slot, of its host and of the system.      *)
(***************************************************************************)
LEMMA AllowIInv == IInv /\ TryCrawlAllow => IInv'
<1> SUFFICES ASSUME IInv, TryCrawlAllow PROVE IInv'
  OBVIOUS
<1> USE DEF IInv
<1> DEFINE r == Head(todo)
           h == HostOf[r]
<1>1. /\ todo \in Seq(Req) /\ todo # <<>> /\ r = todo[1] /\ r \in Req
      /\ h \in Host /\ h \in Scope /\ Global \in Scope /\ h # Global
      /\ DOMAIN todo = 1 .. Len(todo) /\ 1 \in DOMAIN todo
  BY DEF TypeOK, TryCrawlAllow, Deciding, Scope
<1>2. /\ Tail(todo) \in Seq(Req)
      /\ \A i \in DOMAIN Tail(todo) : /\ i + 1 \in DOMAIN todo
                                      /\ i + 1 # 1
                                      /\ Tail(todo)[i] = todo[i + 1]
  BY <1>1
<1>3. /\ IsAllowedRobots(r) /\ IsAllowedFreq(h) /\ SetCrawling(h)
      /\ stage' = [stage EXCEPT ![r] = "granted"]
      /\ todo' = Tail(todo)
      /\ UNCHANGED <<robots, robotsDb, rpc, now, lost, restarts, leaked, forgotten, learned, before>>
  BY DEF TryCrawlAllow, ghosts
<1>4. stage[r] = "asked"
  BY <1>1 DEF CallInv
<1> HIDE DEF r, h
<1>5. /\ known \subseteq Host /\ freq \in [Scope -> Freq] /\ now \in Nat
      /\ stage \in [Req -> Stage]
  BY DEF TypeOK
<1>6. /\ known' = known \cup {h}
      /\ freq' \in [Scope -> Freq]
      /\ freq'[h] = IncCrawling(freq[h], now)
      /\ freq'[Global] = IncCrawling(freq[Global], now)
      /\ \A s \in Scope \ {h, Global} : freq'[s] = freq[s]
  <2>1. \A s \in Scope : IncCrawling(freq[s], now) \in Freq
    BY <1>5, IncCrawlingFacts DEF WindowInv
  <2> QED BY <1>1, <1>3, <1>5, <2>1 DEF SetCrawling
<1>7. \A s \in Scope :
        /\ PoppedExpired(freq'[s], now)
        /\ freq'[s].crawling =
             IF s \in {h, Global} THEN freq[s].crawling + 1 ELSE freq[s].crawling
  BY <1>1, <1>5, <1>6, IncCrawlingFacts DEF WindowInv
<1>8. \A q \in Req : stage'[q] = IF q = r THEN "granted" ELSE stage[q]
  BY <1>3, <1>5
<1>9. TypeOK'
  <2>1. stage' \in [Req -> Stage]
    BY <1>3, <1>5 DEF Stage
  <2> QED BY <1>1, <1>2, <1>3, <1>6, <2>1 DEF TypeOK
<1>10. CallInv'
  <2>1. ASSUME NEW i \in DOMAIN Tail(todo) PROVE Tail(todo)[i] # r
    BY <1>1, <1>2 DEF CallInv
  <2>2. ASSUME NEW i \in DOMAIN Tail(todo)
        PROVE  /\ stage'[Tail(todo)[i]] = "asked"
               /\ rpc[WorkerOf[Tail(todo)[i]]] = "deciding"
    <3>1. Tail(todo)[i] \in Req /\ stage[Tail(todo)[i]] = "asked"
      BY <1>1, <1>2 DEF CallInv
    <3> QED BY <3>1, <2>1, <1>8, <1>2 DEF CallInv
  <2>3. ASSUME NEW i \in DOMAIN Tail(todo), NEW j \in DOMAIN Tail(todo),
               Tail(todo)[i] = Tail(todo)[j]
        PROVE  i = j
    <3>1. i \in Int /\ j \in Int
      BY <1>2
    <3>2. i + 1 = j + 1
      BY <2>3, <1>2 DEF CallInv
    <3> QED BY <3>1, <3>2
  <2> QED BY <2>2, <2>3, <1>3 DEF CallInv
<1>11. CountInv'
  <2>1. \A g \in Host : g \notin known' => freq'[g] = NewFreq
    <3> TAKE g \in Host
    <3> SUFFICES ASSUME g \notin known' PROVE freq'[g] = NewFreq
      OBVIOUS
    <3>1. g \in Scope \ {h, Global} /\ g \notin known
      BY <1>6 DEF Scope
    <3> QED BY <3>1, <1>6 DEF CountInv
  <2>2. freq[h].crawling < MaxHostParallel
    BY <1>1, <1>3, NewFreqFacts DEF CountInv, IsAllowedFreq, IsAllowed
  <2>3. \A s \in Scope : freq[s].crawling \in Nat
    BY <1>5 DEF Freq
  <2>4. ASSUME NEW g \in Host PROVE freq'[g].crawling <= MaxHostParallel
    <3>1. g \in Scope /\ freq[g].crawling <= MaxHostParallel /\ g # Global
      BY DEF Scope, CountInv
    <3>2. freq'[g].crawling =
            IF g = h THEN freq[g].crawling + 1 ELSE freq[g].crawling
      BY <3>1, <1>7
    <3>3. freq[g].crawling \in Nat
      BY <3>1, <2>3
    <3> QED BY <3>1, <3>2, <3>3, <2>2
  <2>5. IsFiniteSet(known) /\ Cardinality(known) \in Nat /\ known' # {}
    BY <1>5, <1>6, FS_Subset, FS_CardinalityType
  <2>6. Cardinality(known') =
          IF h \in known THEN Cardinality(known) ELSE Cardinality(known) + 1
    BY <1>6, <2>5, FS_AddElement
  <2>7. freq'[Global].crawling <= MaxHostParallel + Cardinality(known') - 1
    <3>1. freq'[Global].crawling = freq[Global].crawling + 1
      BY <1>1, <1>7
    <3>2. CASE h \in known
      <4>1. freq[Global].crawling < MaxHostParallel
        BY <1>3, <3>2 DEF IsAllowedFreq, IsAllowed
      <4>2. Cardinality(known) # 0
        BY <2>5, <3>2, FS_EmptySet
      <4> QED BY <3>1, <3>2, <4>1, <4>2, <2>3, <2>5, <2>6, <1>1
    <3>3. CASE h \notin known
      <4>1. CASE known = {}
        BY <3>1, <3>3, <4>1, <2>5, <2>6 DEF CountInv
      <4>2. CASE known # {}
        BY <3>1, <3>3, <4>2, <2>3, <2>5, <2>6, <1>1 DEF CountInv
      <4> QED BY <4>1, <4>2
    <3> QED BY <3>2, <3>3
  <2> QED BY <2>1, <2>4, <2>5, <2>7 DEF CountInv
<1>12. SlotAccounting'
  <2> SUFFICES ASSUME NEW s \in Scope
               PROVE  freq'[s].crawling + forgotten[s]
                        = Cardinality(Holding(s)') + leaked[s]
    BY <1>3 DEF SlotAccounting
  <2>1. freq[s].crawling + forgotten[s] = Cardinality(Holding(s)) + leaked[s]
    BY DEF SlotAccounting
  <2>2. /\ freq[s].crawling \in Nat /\ forgotten[s] \in Nat /\ leaked[s] \in Nat
        /\ Cardinality(Holding(s)) \in Nat
    BY HoldingFinite DEF TypeOK, Freq
  <2>3. r \notin Holding(s)
    BY <1>4 DEF Holding, AtStage
  <2>4. CASE s \in {h, Global}
    <3>1. InScope(r, s)
      BY <2>4, ScopesOf, <1>1 DEF Scopes, h
    <3>2. Holding(s)' = Holding(s) \cup {r}
      BY <3>1, <1>1, <1>4, <1>8 DEF Holding, AtStage, InScope
    <3>3. Cardinality(Holding(s)') = Cardinality(Holding(s)) + 1
      BY <3>2, <2>3, HoldingFinite, FS_AddElement
    <3> QED BY <3>3, <2>1, <2>2, <2>4, <1>7
  <2>5. CASE s \notin {h, Global}
    <3>1. ~InScope(r, s)
      BY <2>5, ScopesOf, <1>1 DEF Scopes, h
    <3>2. Holding(s)' = Holding(s)
      BY <3>1, <1>1, <1>4, <1>8 DEF Holding, AtStage, InScope
    <3> QED BY <3>2, <2>1, <2>5, <1>7
  <2> QED BY <2>4, <2>5
<1>13. WindowInv'
  BY <1>3, <1>7 DEF WindowInv
<1>14. RateLimit'
  <2> SUFFICES ASSUME NEW g \in Host PROVE Spaced(freq'[g])
    BY DEF RateLimit
  <2>1. CASE g # h
    BY <2>1, <1>6 DEF RateLimit, Scope
  <2>2. CASE g = h /\ h \in known
    <3>1. IsAllowed(freq[h], now)
      BY <2>2, <1>3 DEF IsAllowedFreq
    <3> QED BY <3>1, <2>2, <1>1, <1>5, <1>6, IncCrawlingKeepsSpaced DEF RateLimit, WindowInv
  <2>3. CASE g = h /\ h \notin known
    <3>1. freq[h] = NewFreq
      BY <2>3, <1>1 DEF CountInv
    <3>2. freq'[g].log = Append(<<>>, now)
      BY <2>3, <3>1, <1>1, <1>5, <1>6, NewFreqFacts, IncCrawlingFacts DEF WindowInv
    <3>3. Len(freq'[g].log) = 1
      BY <3>2, <1>5
    <3> QED BY <3>3 DEF Spaced
  <2> QED BY <2>1, <2>2, <2>3
<1>15. RobotsInForce'
  <2>1. \A q \in Req \ before :
          stage'[q] \in {"granted", "fetching"} /\ PathOf[q] # RobotsTxt =>
            robots[HostOf[q]] # NoRobots
    BY <1>3, <1>8 DEF RobotsInForce, IsAllowedRobots
  <2> QED BY <2>1, <1>3 DEF RobotsInForce
<1>16. QED
  BY <1>9, <1>10, <1>11, <1>12, <1>13, <1>14, <1>15

-----------------------------------------------------------------------------
(***************************************************************************)
(* Steps that leave the state of HostDb alone.  The clock may have moved:  *)
(* what was popped stays expired.                                          *)
(***************************************************************************)
LEMMA HostVarsKept ==
  ASSUME IInv, UNCHANGED hostVars, now' \in Nat, now <= now'
  PROVE  CountInv' /\ WindowInv' /\ RateLimit'
<1> USE DEF hostVars
<1>1. CountInv' /\ RateLimit'
  BY DEF IInv, CountInv, RateLimit
<1>2. ASSUME NEW s \in Scope PROVE PoppedExpired(freq[s], now')
  <2>1. freq[s] \in Freq /\ now \in Nat /\ PoppedExpired(freq[s], now)
    BY DEF IInv, TypeOK, WindowInv
  <2> QED BY <2>1, PoppedExpiredLater
<1>3. QED
  BY <1>1, <1>2 DEF WindowInv

\* If nobody's slot changes hands, the accounts stay balanced.
LEMMA SlotsKept ==
  ASSUME IInv, UNCHANGED <<freq, forgotten, leaked>>,
         \A s \in Scope : Holding(s)' = Holding(s)
  PROVE  SlotAccounting'
BY DEF IInv, SlotAccounting

LEMMA RefuseIInv == IInv /\ TryCrawlRefuse => IInv'
<1> SUFFICES ASSUME IInv, TryCrawlRefuse PROVE IInv'
  OBVIOUS
<1>1. /\ todo' = Tail(todo) /\ todo # <<>> /\ todo \in Seq(Req) /\ now \in Nat
      /\ UNCHANGED <<hostVars, rpc, stage, now, ghosts>>
  BY DEF TryCrawlRefuse, Deciding, IInv, TypeOK
<1>2. /\ Tail(todo) \in Seq(Req)
      /\ \A i \in DOMAIN Tail(todo) : /\ i \in Int /\ i + 1 \in DOMAIN todo
                                      /\ Tail(todo)[i] = todo[i + 1]
  BY <1>1
<1>3. TypeOK'
  BY <1>1, <1>2 DEF TypeOK, IInv, hostVars, ghosts
<1>4. CallInv'
  <2>1. ASSUME NEW i \in DOMAIN Tail(todo)
        PROVE  /\ stage[Tail(todo)[i]] = "asked"
               /\ rpc[WorkerOf[Tail(todo)[i]]] = "deciding"
    BY <1>2 DEF IInv, CallInv
  <2>2. ASSUME NEW i \in DOMAIN Tail(todo), NEW j \in DOMAIN Tail(todo),
               Tail(todo)[i] = Tail(todo)[j]
        PROVE  i = j
    <3>1. i + 1 = j + 1 /\ i \in Int /\ j \in Int
      BY <2>2, <1>2 DEF IInv, CallInv
    <3> QED BY <3>1
  <2> QED BY <1>1, <2>1, <2>2 DEF CallInv
<1>5. SlotAccounting'
  BY <1>1, SlotsKept DEF Holding, AtStage, hostVars, ghosts
<1>6. RobotsInForce'
  BY <1>1 DEF IInv, RobotsInForce, hostVars, ghosts
<1>7. CountInv' /\ WindowInv' /\ RateLimit'
  BY <1>1, HostVarsKept DEF ghosts
<1>8. QED
  BY <1>3, <1>4, <1>5, <1>6, <1>7 DEF IInv

LEMMA TryFetchUrlsIInv ==
  ASSUME NEW w \in Worker, NEW b \in Batches(w), IInv, TryFetchUrls(w, b)
  PROVE  IInv'
<1> DEFINE mine == {r \in Req : stage[r] = "queued" /\ WorkerOf[r] = w}
<1>1. PICK n \in 1 .. MaxBatch : b \in [1 .. n -> mine]
  BY DEF Batches
<1>2. \A i, j \in DOMAIN b : b[i] = b[j] => i = j
  BY DEF Batches
<1>3. /\ b \in Seq(Req)
      /\ \A i \in DOMAIN b :
           b[i] \in Req /\ stage[b[i]] = "queued" /\ WorkerOf[b[i]] = w
  BY <1>1
<1>4. /\ rpc' = [rpc EXCEPT ![w] = "deciding"] /\ todo' = b
      /\ stage' = [r \in Req |-> IF \E i \in DOMAIN b : b[i] = r
                                   THEN "asked" ELSE stage[r]]
      /\ UNCHANGED <<hostVars, now, ghosts>>
  BY DEF TryFetchUrls
<1> HIDE DEF mine
<1>5. \A r \in Req :
        \/ stage'[r] = stage[r] \/ (stage[r] = "queued" /\ stage'[r] = "asked")
  BY <1>3, <1>4
<1>6. TypeOK'
  <2>1. rpc' \in [Worker -> {"idle", "deciding", "replying"}]
    BY <1>4 DEF IInv, TypeOK
  <2>2. stage' \in [Req -> Stage]
    BY <1>4 DEF IInv, TypeOK, Stage
  <2> QED BY <2>1, <2>2, <1>3, <1>4 DEF IInv, TypeOK, hostVars, ghosts
<1>7. CallInv'
  <2>1. ASSUME NEW i \in DOMAIN b
        PROVE  stage'[b[i]] = "asked" /\ rpc'[WorkerOf[b[i]]] = "deciding"
    BY <1>3, <1>4 DEF IInv, TypeOK
  <2>2. todo' = b
    BY <1>4
  <2>3. \A i \in DOMAIN b : stage'[b[i]] = "asked" /\ rpc'[WorkerOf[b[i]]] = "deciding"
    BY <2>1
  <2> QED BY <1>2, <2>2, <2>3, Zenon DEF CallInv
<1>8. \A s \in Scope : Holding(s)' = Holding(s)
  BY <1>5 DEF Holding, AtStage, InScope
<1>9. SlotAccounting'
  BY <1>4, <1>8, SlotsKept DEF hostVars, ghosts
<1>10. RobotsInForce'
  BY <1>4, <1>5 DEF IInv, RobotsInForce, hostVars, ghosts
<1>11. CountInv' /\ WindowInv' /\ RateLimit'
  <2>1. now' \in Nat /\ now <= now'
    BY <1>4 DEF IInv, TypeOK
  <2> QED BY <2>1, <1>4, HostVarsKept DEF ghosts
<1>12. QED
  BY <1>6, <1>7, <1>9, <1>10, <1>11 DEF IInv

LEMMA TryCrawlReturnIInv ==
  ASSUME NEW w \in Worker, IInv, TryCrawlReturn(w)
  PROVE  IInv'
<1>1. /\ rpc' = [rpc EXCEPT ![w] = "replying"] /\ todo = <<>>
      /\ UNCHANGED <<hostVars, todo, stage, now, ghosts>>
  BY DEF TryCrawlReturn
<1>2. TypeOK'
  BY <1>1 DEF IInv, TypeOK, hostVars, ghosts
<1>3. CallInv'
  BY <1>1 DEF CallInv
<1>4. SlotAccounting'
  BY <1>1, SlotsKept DEF Holding, AtStage, hostVars, ghosts
<1>5. RobotsInForce'
  BY <1>1 DEF IInv, RobotsInForce, hostVars, ghosts
<1>6. CountInv' /\ WindowInv' /\ RateLimit'
  <2>1. now' \in Nat /\ now <= now'
    BY <1>1 DEF IInv, TypeOK
  <2> QED BY <2>1, <1>1, HostVarsKept DEF ghosts
<1>7. QED
  BY <1>2, <1>3, <1>4, <1>5, <1>6 DEF IInv

(***************************************************************************)
(* The end of a call moves the records of its own worker only, and so none *)
(* of those still to decide for another.                                   *)
(***************************************************************************)
LEMMA SettleFacts ==
  ASSUME NEW w \in Worker, NEW g \in {"queued", "fetching"}, IInv,
         rpc[w] = "replying", rpc' = [rpc EXCEPT ![w] = "idle"],
         stage' = Settle(w, g), todo' = todo
  PROVE  /\ stage' \in [Req -> Stage]
         /\ rpc' \in [Worker -> {"idle", "deciding", "replying"}]
         /\ CallInv'
<1>1. stage' \in [Req -> Stage]
  <2> SUFFICES ASSUME NEW r \in Req PROVE Settle(w, g)[r] \in Stage
    BY DEF Settle
  <2>1. stage[r] \in Stage
    BY DEF IInv, TypeOK
  <2> QED BY <2>1 DEF Settle, Stage
<1>2. rpc' \in [Worker -> {"idle", "deciding", "replying"}]
  BY DEF IInv, TypeOK
<1>3. ASSUME NEW i \in DOMAIN todo
      PROVE  stage'[todo[i]] = "asked" /\ rpc'[WorkerOf[todo[i]]] = "deciding"
  <2>1. todo[i] \in Req
    BY DEF IInv, TypeOK
  <2>2. stage[todo[i]] = "asked" /\ rpc[WorkerOf[todo[i]]] = "deciding"
    BY DEF IInv, CallInv
  <2>3. WorkerOf[todo[i]] # w /\ WorkerOf[todo[i]] \in Worker
    BY <2>1, <2>2
  <2> QED BY <2>1, <2>2, <2>3 DEF Settle, IInv, TypeOK
<1>4. CallInv'
  BY <1>3 DEF IInv, CallInv
<1>5. QED
  BY <1>1, <1>2, <1>4

LEMMA ReplyIInv ==
  ASSUME NEW w \in Worker, IInv, Reply(w)
  PROVE  IInv'
<1>1. /\ rpc[w] = "replying" /\ rpc' = [rpc EXCEPT ![w] = "idle"]
      /\ stage' = Settle(w, "fetching")
      /\ UNCHANGED <<hostVars, todo, now, ghosts>>
  BY DEF Reply
<1>2. /\ stage' \in [Req -> Stage] /\ CallInv'
      /\ rpc' \in [Worker -> {"idle", "deciding", "replying"}]
  BY <1>1, SettleFacts
<1>3. TypeOK'
  BY <1>1, <1>2 DEF IInv, TypeOK, hostVars, ghosts
<1>4. \A r \in Req : stage'[r] \in {"granted", "fetching"}
                       <=> stage[r] \in {"granted", "fetching"}
  BY <1>1 DEF Settle
<1>5. SlotAccounting'
  <2>1. \A s \in Scope : Holding(s)' = Holding(s)
    BY <1>4 DEF Holding, AtStage, InScope
  <2> QED BY <2>1, <1>1, SlotsKept DEF hostVars, ghosts
<1>6. RobotsInForce'
  BY <1>1, <1>4 DEF IInv, RobotsInForce, hostVars, ghosts
<1>7. CountInv' /\ WindowInv' /\ RateLimit'
  <2>1. now' \in Nat /\ now <= now'
    BY <1>1 DEF IInv, TypeOK
  <2> QED BY <2>1, <1>1, HostVarsKept DEF ghosts
<1>8. QED
  BY <1>2, <1>3, <1>5, <1>6, <1>7 DEF IInv

LEMMA LoseReplyIInv ==
  ASSUME NEW w \in Worker, IInv, LoseReply(w)
  PROVE  IInv'
<1> DEFINE Back(s) == {r \in AtStage({"granted"}, s) : WorkerOf[r] = w}
<1>1. /\ rpc[w] = "replying" /\ rpc' = [rpc EXCEPT ![w] = "idle"]
      /\ stage' = Settle(w, "queued") /\ lost' = lost + 1
      /\ leaked' = [s \in Scope |-> leaked[s] + Cardinality(Back(s))]
      /\ UNCHANGED <<hostVars, todo, now, restarts, forgotten, learned, before>>
  BY DEF LoseReply
<1>2. /\ stage' \in [Req -> Stage] /\ CallInv'
      /\ rpc' \in [Worker -> {"idle", "deciding", "replying"}]
  BY <1>1, SettleFacts
<1>3. ASSUME NEW s \in Scope
      PROVE  /\ Back(s) \subseteq Holding(s)
             /\ Holding(s)' = Holding(s) \ Back(s)
  BY <1>1 DEF Holding, AtStage, InScope, Settle
<1>4. ASSUME NEW s \in Scope
      PROVE  /\ Cardinality(Back(s)) \in Nat
             /\ Cardinality(Holding(s)') = Cardinality(Holding(s)) - Cardinality(Back(s))
  <2>1. Back(s) \cap Holding(s) = Back(s) /\ Holding(s) \cap Back(s) = Back(s)
    BY <1>3
  <2>2. IsFiniteSet(Holding(s)) /\ IsFiniteSet(Back(s))
    BY <1>3, HoldingFinite, FS_Subset
  <2> HIDE DEF Back
  <2>3. Cardinality(Holding(s) \ Back(s))
          = Cardinality(Holding(s)) - Cardinality(Holding(s) \cap Back(s))
    BY <2>2, FS_Difference
  <2> QED BY <1>3, <2>1, <2>2, <2>3, FS_CardinalityType
<1> HIDE DEF Back
<1>5. TypeOK'
  <2>1. leaked' \in [Scope -> Nat]
    BY <1>1, <1>4 DEF IInv, TypeOK
  <2> QED BY <1>1, <1>2, <2>1 DEF IInv, TypeOK, hostVars
<1>6. SlotAccounting'
  <2> SUFFICES ASSUME NEW s \in Scope
               PROVE  freq[s].crawling + forgotten[s]
                        = Cardinality(Holding(s)') + leaked'[s]
    BY <1>1 DEF SlotAccounting, hostVars
  <2>1. /\ freq[s].crawling + forgotten[s] = Cardinality(Holding(s)) + leaked[s]
        /\ freq[s].crawling \in Nat /\ forgotten[s] \in Nat /\ leaked[s] \in Nat
    BY DEF IInv, SlotAccounting, TypeOK, Freq
  <2>2. leaked'[s] = leaked[s] + Cardinality(Back(s))
    BY <1>1
  <2> QED BY <2>1, <2>2, <1>4, HoldingFinite
<1>7. RobotsInForce'
  <2>1. \A r \in Req : stage'[r] \in {"granted", "fetching"}
                         => stage[r] \in {"granted", "fetching"}
    BY <1>1 DEF Settle
  <2> QED BY <2>1, <1>1 DEF IInv, RobotsInForce, hostVars
<1>8. CountInv' /\ WindowInv' /\ RateLimit'
  <2>1. now' \in Nat /\ now <= now'
    BY <1>1 DEF IInv, TypeOK
  <2> QED BY <2>1, <1>1, HostVarsKept
<1>9. QED
  BY <1>2, <1>5, <1>6, <1>7, <1>8 DEF IInv

-----------------------------------------------------------------------------
(***************************************************************************)
(* A fetch ends: its record leaves Holding of its host and of the system.  *)
(***************************************************************************)
LEMMA DoneFacts ==
  ASSUME NEW r \in Req, IInv, stage[r] = "fetching",
         stage' = [stage EXCEPT ![r] = "done"], todo' = todo, rpc' = rpc
  PROVE  /\ stage' \in [Req -> Stage]
         /\ CallInv'
         /\ \A q \in Req : stage'[q] \in {"granted", "fetching"}
                             => stage[q] \in {"granted", "fetching"}
         /\ \A s \in Scope :
              Cardinality(Holding(s)') =
                IF s \in Scopes(r) THEN Cardinality(Holding(s)) - 1
                                   ELSE Cardinality(Holding(s))
<1>1. \A q \in Req : stage'[q] = IF q = r THEN "done" ELSE stage[q]
  BY DEF IInv, TypeOK
<1>2. stage' \in [Req -> Stage]
  BY DEF IInv, TypeOK, Stage
<1>3. CallInv'
  <2>1. ASSUME NEW i \in DOMAIN todo PROVE stage'[todo[i]] = "asked"
    <3>1. todo[i] \in Req /\ stage[todo[i]] = "asked"
      BY DEF IInv, TypeOK, CallInv
    <3> QED BY <3>1, <1>1
  <2> QED BY <2>1 DEF IInv, CallInv
<1>4. ASSUME NEW s \in Scope
      PROVE  Cardinality(Holding(s)') =
               IF s \in Scopes(r) THEN Cardinality(Holding(s)) - 1
                                  ELSE Cardinality(Holding(s))
  <2>1. CASE s \in Scopes(r)
    <3>1. Holding(s)' = Holding(s) \ {r} /\ r \in Holding(s)
      BY <2>1, <1>1, ScopesOf DEF Holding, AtStage, InScope
    <3> QED BY <3>1, <2>1, HoldingFinite, FS_RemoveElement
  <2>2. CASE s \notin Scopes(r)
    <3>1. Holding(s)' = Holding(s)
      BY <2>2, <1>1, ScopesOf DEF Holding, AtStage, InScope
    <3> QED BY <3>1, <2>2
  <2> QED BY <2>1, <2>2
<1>5. QED
  BY <1>1, <1>2, <1>3, <1>4

LEMMA LoseResultIInv ==
  ASSUME NEW r \in Req, IInv, LoseResult(r)
  PROVE  IInv'
<1>1. /\ stage[r] = "fetching" /\ stage' = [stage EXCEPT ![r] = "done"]
      /\ lost' = lost + 1
      /\ leaked' = [s \in Scope |-> IF s \in Scopes(r) THEN leaked[s] + 1 ELSE leaked[s]]
      /\ UNCHANGED <<hostVars, rpc, todo, now, restarts, forgotten, learned, before>>
  BY DEF LoseResult
<1>2. /\ stage' \in [Req -> Stage] /\ CallInv'
      /\ \A q \in Req : stage'[q] \in {"granted", "fetching"}
                          => stage[q] \in {"granted", "fetching"}
      /\ \A s \in Scope :
           Cardinality(Holding(s)') =
             IF s \in Scopes(r) THEN Cardinality(Holding(s)) - 1
                                ELSE Cardinality(Holding(s))
  BY <1>1, DoneFacts
<1>3. TypeOK'
  <2>1. leaked' \in [Scope -> Nat]
    BY <1>1 DEF IInv, TypeOK
  <2> QED BY <1>1, <1>2, <2>1 DEF IInv, TypeOK, hostVars
<1>4. SlotAccounting'
  <2> SUFFICES ASSUME NEW s \in Scope
               PROVE  freq[s].crawling + forgotten[s]
                        = Cardinality(Holding(s)') + leaked'[s]
    BY <1>1 DEF SlotAccounting, hostVars
  <2>1. /\ freq[s].crawling + forgotten[s] = Cardinality(Holding(s)) + leaked[s]
        /\ freq[s].crawling \in Nat /\ forgotten[s] \in Nat /\ leaked[s] \in Nat
    BY DEF IInv, SlotAccounting, TypeOK, Freq
  <2>2. leaked'[s] = IF s \in Scopes(r) THEN leaked[s] + 1 ELSE leaked[s]
    BY <1>1
  <2> QED BY <2>1, <2>2, <1>2, HoldingFinite
<1>5. RobotsInForce'
  BY <1>1, <1>2 DEF IInv, RobotsInForce, hostVars
<1>6. CountInv' /\ WindowInv' /\ RateLimit'
  <2>1. now' \in Nat /\ now <= now'
    BY <1>1 DEF IInv, TypeOK
  <2> QED BY <2>1, <1>1, HostVarsKept
<1>7. QED
  BY <1>2, <1>3, <1>4, <1>5, <1>6 DEF IInv

LEMMA DecCrawlingFacts ==
  ASSUME NEW f \in Freq
  PROVE  /\ DecCrawling(f) \in Freq
         /\ DecCrawling(f).crawling =
              IF f.crawling = 0 THEN 0 ELSE f.crawling - 1
         /\ DecCrawling(f).log = f.log
         /\ DecCrawling(f).popped = f.popped
<1>1. /\ f.crawling \in Nat /\ f.log \in Seq(Nat) /\ f.popped \in [Window -> Nat]
      /\ f = [crawling |-> f.crawling, log |-> f.log, popped |-> f.popped]
  BY DEF Freq
<1>2. CASE f.crawling = 0
  BY <1>2 DEF DecCrawling
<1>3. CASE f.crawling # 0
  <2>1. f.crawling - 1 \in Nat
    BY <1>1, <1>3
  <2>2. DecCrawling(f)
          = [crawling |-> f.crawling - 1, log |-> f.log, popped |-> f.popped]
    BY <1>1, <1>3 DEF DecCrawling
  <2> QED BY <1>1, <1>3, <2>1, <2>2 DEF Freq
<1> QED BY <1>2, <1>3

LEMMA OnFetchedIInv ==
  ASSUME NEW r \in Req, IInv, OnFetched(r)
  PROVE  IInv'
<1> DEFINE h == HostOf[r]
<1>1. /\ stage[r] = "fetching" /\ stage' = [stage EXCEPT ![r] = "done"]
      /\ MutexFree /\ GiveBack(r)
      /\ \/ \E rules \in Rules : KeepRobots(h, rules)
         \/ UNCHANGED <<robots, robotsDb, learned>>
      /\ forgotten' = [s \in Scope |->
           IF s \in Scopes(r) /\ freq[s].crawling = 0
             THEN forgotten[s] - 1 ELSE forgotten[s]]
      /\ UNCHANGED <<rpc, todo, now, lost, restarts, leaked, before>>
  BY DEF OnFetched
<1>2. /\ stage' \in [Req -> Stage] /\ CallInv'
      /\ \A q \in Req : stage'[q] \in {"granted", "fetching"}
                          => stage[q] \in {"granted", "fetching"}
      /\ \A s \in Scope :
           Cardinality(Holding(s)') =
             IF s \in Scopes(r) THEN Cardinality(Holding(s)) - 1
                                ELSE Cardinality(Holding(s))
  BY <1>1, DoneFacts
<1>3. /\ h \in Host /\ h \in Scope /\ Global \in Scope /\ h # Global
      /\ Scopes(r) = {h, Global}
      /\ known \subseteq Host /\ freq \in [Scope -> Freq]
  BY DEF Scope, Scopes, IInv, TypeOK
<1>4. /\ known' = known \cup {h}
      /\ freq' \in [Scope -> Freq]
      /\ \A s \in Scope :
           freq'[s] = IF s \in Scopes(r) THEN DecCrawling(freq[s]) ELSE freq[s]
  <2>1. \A s \in Scope : DecCrawling(freq[s]) \in Freq
    BY <1>3, DecCrawlingFacts
  <2> QED BY <1>1, <1>3, <2>1 DEF GiveBack
<1>5. ASSUME NEW s \in Scope
      PROVE  /\ freq[s].crawling \in Nat
             /\ freq'[s].crawling =
                  IF s \in Scopes(r) /\ freq[s].crawling # 0
                    THEN freq[s].crawling - 1 ELSE freq[s].crawling
             /\ freq'[s].log = freq[s].log
             /\ freq'[s].popped = freq[s].popped
  <2>1. freq[s].crawling \in Nat
    BY <1>3 DEF Freq
  <2> QED BY <2>1, <1>3, <1>4, DecCrawlingFacts
<1>6. r \in Holding(h) /\ r \in Holding(Global)
  BY <1>1 DEF Holding, AtStage, InScope
<1>7. ASSUME NEW s \in Scope
      PROVE  /\ freq[s].crawling + forgotten[s] = Cardinality(Holding(s)) + leaked[s]
             /\ Cardinality(Holding(s)) \in Nat
             /\ forgotten[s] \in Nat /\ leaked[s] \in Nat
             /\ s \in Scopes(r) => Cardinality(Holding(s)) # 0
  <2>1. s \in Scopes(r) => Cardinality(Holding(s)) # 0
    BY <1>3, <1>6, HoldingFinite, FS_EmptySet
  <2> QED BY <2>1, HoldingFinite DEF IInv, SlotAccounting, TypeOK
<1>8. TypeOK'
  <2>1. forgotten' \in [Scope -> Nat]
    BY <1>1, <1>5, <1>7
  <2>2. /\ robots' \in [Host -> {NoRobots} \cup Rules]
        /\ robotsDb' \in [Host -> {NoRobots} \cup Rules]
        /\ learned' \in [Host -> {NoRobots} \cup Rules]
    <3>1. ASSUME NEW rules \in Rules, KeepRobots(h, rules)
          PROVE  /\ robots' \in [Host -> {NoRobots} \cup Rules]
                 /\ robotsDb' \in [Host -> {NoRobots} \cup Rules]
                 /\ learned' \in [Host -> {NoRobots} \cup Rules]
      <4>1. /\ robots \in [Host -> {NoRobots} \cup Rules]
            /\ robotsDb \in [Host -> {NoRobots} \cup Rules]
            /\ learned \in [Host -> {NoRobots} \cup Rules]
        BY DEF IInv, TypeOK
      <4>2. robotsDb' = robotsDb \/ robotsDb' = [robotsDb EXCEPT ![h] = rules]
        BY <3>1 DEF KeepRobots
      <4> QED BY <3>1, <4>1, <4>2, <1>3 DEF KeepRobots
    <3>2. CASE UNCHANGED <<robots, robotsDb, learned>>
      BY <3>2 DEF IInv, TypeOK
    <3> QED BY <1>1, <3>1, <3>2
  <2> QED BY <1>1, <1>2, <1>3, <1>4, <2>1, <2>2 DEF IInv, TypeOK
<1>9. CountInv'
  <2>1. \A g \in Host : g \notin known' => freq'[g] = NewFreq
    BY <1>3, <1>4 DEF IInv, CountInv, Scope
  <2>2. ASSUME NEW g \in Host PROVE freq'[g].crawling <= MaxHostParallel
    <3>1. g \in Scope /\ freq[g].crawling <= MaxHostParallel
      BY DEF Scope, IInv, CountInv
    <3> QED BY <3>1, <1>5
  <2>3. IsFiniteSet(known) /\ Cardinality(known) \in Nat /\ known' # {}
    BY <1>3, <1>4, FS_Subset, FS_CardinalityType
  <2>4. Cardinality(known') =
          IF h \in known THEN Cardinality(known) ELSE Cardinality(known) + 1
    BY <1>4, <2>3, FS_AddElement
  <2>5. /\ freq[Global].crawling \in Nat
        /\ freq'[Global].crawling <= freq[Global].crawling
    BY <1>3, <1>5
  <2>6. freq'[Global].crawling <= MaxHostParallel + Cardinality(known') - 1
    <3>1. CASE known = {}
      <4>1. freq'[Global].crawling = 0
        BY <3>1, <1>3, <1>5 DEF IInv, CountInv
      <4> QED BY <3>1, <4>1, <2>3, <2>4
    <3>2. CASE known # {}
      <4>1. freq[Global].crawling <= MaxHostParallel + Cardinality(known) - 1
        BY <3>2 DEF IInv, CountInv
      <4>2. freq'[Global].crawling \in Nat
        BY <1>3, <1>5
      <4> QED BY <4>1, <4>2, <2>3, <2>4, <2>5
    <3> QED BY <3>1, <3>2
  <2> QED BY <2>1, <2>2, <2>3, <2>6 DEF CountInv
<1>10. SlotAccounting'
  <2> SUFFICES ASSUME NEW s \in Scope
               PROVE  freq'[s].crawling + forgotten'[s]
                        = Cardinality(Holding(s)') + leaked[s]
    BY <1>1 DEF SlotAccounting
  <2>1. forgotten'[s] = IF s \in Scopes(r) /\ freq[s].crawling = 0
                          THEN forgotten[s] - 1 ELSE forgotten[s]
    BY <1>1
  <2> QED BY <2>1, <1>2, <1>5, <1>7
<1>11. WindowInv' /\ RateLimit'
  <2>1. ASSUME NEW s \in Scope
        PROVE  PoppedExpired(freq'[s], now')
    BY <1>1, <1>5 DEF IInv, WindowInv, PoppedExpired
  <2>2. ASSUME NEW g \in Host PROVE Spaced(freq'[g])
    <3>1. g \in Scope
      BY DEF Scope
    <3> QED BY <3>1, <1>5 DEF IInv, RateLimit, Spaced
  <2> QED BY <2>1, <2>2 DEF WindowInv, RateLimit
<1>12. RobotsInForce'
  <2>1. \A q \in Req \ before :
          stage'[q] \in {"granted", "fetching"} /\ PathOf[q] # RobotsTxt =>
            robots[HostOf[q]] # NoRobots
    BY <1>2 DEF IInv, RobotsInForce
  <2>2. CASE UNCHANGED <<robots, robotsDb, learned>>
    BY <1>1, <2>1, <2>2 DEF IInv, RobotsInForce
  <2>3. ASSUME NEW rules \in Rules, KeepRobots(h, rules)
        PROVE  RobotsInForce'
    <3>1. \A g \in Host :
            /\ robots'[g] = IF g = h THEN rules ELSE robots[g]
            /\ learned'[g] = IF g = h THEN rules ELSE learned[g]
      BY <2>3 DEF KeepRobots, IInv, TypeOK
    <3>2. \A q \in Req : HostOf[q] \in Host
      OBVIOUS
    <3>3. rules # NoRobots
      BY RulesNotMissing
    <3> QED BY <1>1, <2>1, <3>1, <3>2, <3>3 DEF IInv, RobotsInForce
  <2> QED BY <1>1, <2>2, <2>3
<1>13. QED
  BY <1>2, <1>8, <1>9, <1>10, <1>11, <1>12 DEF IInv

-----------------------------------------------------------------------------
(***************************************************************************)
(* A restart: what still runs is what the new process knows nothing of.    *)
(***************************************************************************)
LEMMA RestartIInv == IInv /\ Restart => IInv'
<1> SUFFICES ASSUME IInv, Restart PROVE IInv'
  OBVIOUS
<1> USE DEF Restart
<1>1. \A q \in Req : stage'[q] =
        IF stage[q] \in {"asked", "granted"} THEN "queued" ELSE stage[q]
  OBVIOUS
<1>2. TypeOK'
  <2>1. stage' \in [Req -> Stage]
    BY DEF IInv, TypeOK, Stage
  <2>2. forgotten' \in [Scope -> Nat]
    BY HoldingFinite
  <2>3. leaked' \in [Scope -> Nat] /\ known' \subseteq Host /\ restarts' \in Nat
    BY DEF IInv, TypeOK
  <2>4. freq' \in [Scope -> Freq]
    BY NewFreqFacts
  <2>5. todo' \in Seq(Req) /\ rpc' \in [Worker -> {"idle", "deciding", "replying"}]
    OBVIOUS
  <2>6. /\ robots' \in [Host -> {NoRobots} \cup Rules]
        /\ learned' \in [Host -> {NoRobots} \cup Rules]
    BY DEF LoadRobotsDb, NothingLearned, IInv, TypeOK
  <2>7. before' \subseteq Req
    BY DEF Fetching, AtStage
  <2> QED BY <2>1, <2>2, <2>3, <2>4, <2>5, <2>6, <2>7 DEF IInv, TypeOK
<1>3. CallInv'
  BY DEF CallInv
<1>4. CountInv'
  BY NewFreqFacts DEF CountInv, Scope
<1>5. SlotAccounting'
  <2> SUFFICES ASSUME NEW s \in Scope
               PROVE  freq'[s].crawling + forgotten'[s]
                        = Cardinality(Holding(s)') + leaked'[s]
    BY DEF SlotAccounting
  <2>1. Holding(s)' = Fetching(s)
    BY <1>1 DEF Holding, Fetching, AtStage, InScope
  <2>2. /\ freq'[s].crawling = 0 /\ leaked'[s] = 0
        /\ forgotten'[s] = Cardinality(Fetching(s))
    BY NewFreqFacts
  <2> QED BY <2>1, <2>2, HoldingFinite
<1>6. WindowInv' /\ RateLimit'
  <2>1. now' \in Nat /\ \A s \in Scope : freq'[s] = NewFreq
    BY DEF IInv, TypeOK
  <2> HIDE DEF Restart
  <2> QED BY <2>1, NewFreqFacts DEF WindowInv, RateLimit, Scope
<1>7. RobotsInForce'
  <2>1. \A q \in Req \ before' : stage'[q] \notin {"granted", "fetching"}
    BY <1>1 DEF Fetching, AtStage, InScope
  <2>2. \A g \in Host : learned'[g] = NoRobots
    BY DEF NothingLearned
  <2> QED BY <2>1, <2>2 DEF RobotsInForce
<1>8. QED
  BY <1>2, <1>3, <1>4, <1>5, <1>6, <1>7 DEF IInv

LEMMA TickIInv == IInv /\ Tick => IInv'
<1> SUFFICES ASSUME IInv, Tick PROVE IInv'
  OBVIOUS
<1>1. now' = now + 1 /\ now \in Nat /\ UNCHANGED <<hostVars, callVars, ghosts>>
  BY DEF Tick, IInv, TypeOK
<1>2. TypeOK'
  BY <1>1 DEF IInv, TypeOK, hostVars, callVars, ghosts
<1>3. CallInv'
  BY <1>1 DEF IInv, CallInv, callVars
<1>4. SlotAccounting'
  BY <1>1, SlotsKept DEF Holding, AtStage, hostVars, callVars, ghosts
<1>5. RobotsInForce'
  BY <1>1 DEF IInv, RobotsInForce, hostVars, callVars, ghosts
<1>6. CountInv' /\ WindowInv' /\ RateLimit'
  BY <1>1, HostVarsKept DEF ghosts
<1>7. QED
  BY <1>2, <1>3, <1>4, <1>5, <1>6 DEF IInv

LEMMA StutterIInv == IInv /\ UNCHANGED vars => IInv'
<1> SUFFICES ASSUME IInv, UNCHANGED vars PROVE IInv'
  OBVIOUS
<1> USE DEF vars
<1>1. TypeOK'
  BY DEF IInv, TypeOK
<1>2. CallInv'
  BY DEF IInv, CallInv
<1>3. SlotAccounting'
  BY SlotsKept DEF Holding, AtStage
<1>4. RobotsInForce'
  BY DEF IInv, RobotsInForce
<1>5. CountInv' /\ WindowInv' /\ RateLimit'
  <2>1. now' \in Nat /\ now <= now'
    BY DEF IInv, TypeOK
  <2> QED BY <2>1, HostVarsKept DEF hostVars
<1>6. QED
  BY <1>1, <1>2, <1>3, <1>4, <1>5 DEF IInv

-----------------------------------------------------------------------------
LEMMA NextIInv == IInv /\ [Next]_vars => IInv'
<1> SUFFICES ASSUME IInv, [Next]_vars PROVE IInv'
  OBVIOUS
<1>1. CASE TryCrawlAllow
  BY <1>1, AllowIInv
<1>2. CASE TryCrawlRefuse
  BY <1>2, RefuseIInv
<1>3. ASSUME NEW w \in Worker, NEW b \in Batches(w), TryFetchUrls(w, b)
      PROVE  IInv'
  BY <1>3, TryFetchUrlsIInv
<1>4. ASSUME NEW w \in Worker, TryCrawlReturn(w) \/ Reply(w) \/ LoseReply(w)
      PROVE  IInv'
  BY <1>4, TryCrawlReturnIInv, ReplyIInv, LoseReplyIInv
<1>5. ASSUME NEW r \in Req, OnFetched(r) \/ LoseResult(r)
      PROVE  IInv'
  BY <1>5, OnFetchedIInv, LoseResultIInv
<1>6. CASE Restart
  BY <1>6, RestartIInv
<1>7. CASE Tick
  BY <1>7, TickIInv
<1>8. CASE UNCHANGED vars
  BY <1>8, StutterIInv
<1>9. QED
  BY <1>1, <1>2, <1>3, <1>4, <1>5, <1>6, <1>7, <1>8 DEF Next

(***************************************************************************)
(* IInv holds in every reachable state.                                    *)
(***************************************************************************)
THEOREM Inductive == Spec => []IInv
BY InitIInv, NextIInv, PTL DEF Spec

(***************************************************************************)
(* Every variable has its type: no counter of HostDb goes below zero       *)
(* (HostFreq.cpp:29-33).                                                   *)
(***************************************************************************)
THEOREM TypeCorrect == Spec => []TypeOK
<1>1. IInv => TypeOK
  BY DEF IInv
<1>2. QED
  BY <1>1, Inductive, PTL

(***************************************************************************)
(* The slots counted are exactly those of the fetches allowed and not yet  *)
(* reported, up to lost calls and restarts (HostDb.cpp:44-45, :216-220).   *)
(***************************************************************************)
THEOREM SlotsAccounted == Spec => []SlotAccounting
<1>1. IInv => SlotAccounting
  BY DEF IInv
<1>2. QED
  BY <1>1, Inductive, PTL

(***************************************************************************)
(* A host never has more than max_host_parallel_crawl fetches running that *)
(* a scheduler has counted (HostFreq.cpp:7, Scheduler.h:20-21).            *)
(***************************************************************************)
THEOREM HostParallelBounded == Spec => []HostParallelBound
<1>1. IInv => HostParallelBound
  <2> SUFFICES ASSUME IInv, NEW h \in Host
               PROVE  Cardinality(Fetching(h)) <= MaxHostParallel + forgotten[h]
    BY DEF HostParallelBound
  <2>1. /\ freq[h].crawling + forgotten[h] = Cardinality(Holding(h)) + leaked[h]
        /\ freq[h].crawling <= MaxHostParallel
        /\ freq[h].crawling \in Nat /\ forgotten[h] \in Nat /\ leaked[h] \in Nat
    BY DEF IInv, SlotAccounting, CountInv, TypeOK, Freq, Scope
  <2> QED BY <2>1, HoldingFinite
<1>2. QED
  BY <1>1, Inductive, PTL

(***************************************************************************)
(* The rate limits hold in every window (HostFreq.cpp:10-17,               *)
(* TpSlidWin.cpp:21-26).                                                   *)
(***************************************************************************)
THEOREM RateLimited == Spec => []RateLimit
<1>1. IInv => RateLimit
  BY DEF IInv
<1>2. QED
  BY <1>1, Inductive, PTL

(***************************************************************************)
(* What bounds the fetches of the whole system (HostDb.cpp:208-214).       *)
(***************************************************************************)
THEOREM SystemBounded == Spec => []SystemBound
<1>1. IInv => SystemBound
  <2> SUFFICES ASSUME IInv, known # {}
               PROVE  Cardinality(Fetching(Global))
                        <= MaxHostParallel + Cardinality(known) - 1 + forgotten[Global]
    BY DEF SystemBound
  <2>1. /\ freq[Global].crawling + forgotten[Global]
             = Cardinality(Holding(Global)) + leaked[Global]
        /\ freq[Global].crawling <= MaxHostParallel + Cardinality(known) - 1
        /\ freq[Global].crawling \in Nat
        /\ forgotten[Global] \in Nat /\ leaked[Global] \in Nat
    BY DEF IInv, SlotAccounting, CountInv, TypeOK, Freq, Scope
  <2>2. Cardinality(known) \in Nat
    BY FS_Subset, FS_CardinalityType DEF IInv, TypeOK
  <2> QED BY <2>1, <2>2, HoldingFinite
<1>2. QED
  BY <1>1, Inductive, PTL

(***************************************************************************)
(* A scheduler lets no page through without the rules of its host, also    *)
(* when a restart lost them, and what could not be stored is in force      *)
(* (HostDb.cpp:24-33, :47-56, :200-204).                                   *)
(***************************************************************************)
THEOREM RobotsEnforced == Spec => []RobotsInForce
<1>1. IInv => RobotsInForce
  BY DEF IInv
<1>2. QED
  BY <1>1, Inductive, PTL
=============================================================================
