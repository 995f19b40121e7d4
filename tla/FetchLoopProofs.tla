--------------------------- MODULE FetchLoopProofs ---------------------------
(***************************************************************************)
(* Proofs about FetchLoop for any URLs, any topic and any limits: its type *)
(* invariant, that a page the scheduler counts as fetched is saved but for *)
(* a fault, and that it implements Delivery, fairness left aside.          *)
(***************************************************************************)
EXTENDS FetchLoop, TLAPS

\* A part of a bag is a bag, and so is the rest.
LEMMA SubBagsMinus ==
  ASSUME NEW b \in Bag, NEW a \in SubBags(b)
  PROVE  a \in Bag /\ Minus(b, a) \in Bag /\ \A u \in Url : a[u] <= b[u]
BY DEF SubBags, Minus, Bag

LEMMA PlusBag ==
  ASSUME NEW a \in Bag, NEW b \in Bag
  PROVE  Plus(a, b) \in Bag
BY DEF Plus, Bag

LEMMA NothingBag == Nothing \in Bag
BY DEF Nothing, Bag

LEMMA MoreBag ==
  ASSUME NEW b \in Bag, NEW u \in Url
  PROVE  [b EXCEPT ![u] = @ + 1] \in Bag
BY DEF Bag

LEMMA LessBag ==
  ASSUME NEW b \in Bag, NEW u \in Url, b[u] > 0
  PROVE  [b EXCEPT ![u] = @ - 1] \in Bag
BY DEF Bag

LEMMA Distinct == \A r \in Responses : r.stage \in {"unreported", "reported"}
BY DEF Responses

-----------------------------------------------------------------------------
LEMMA InitTypeOK == Init => TypeOK
<1> SUFFICES ASSUME Init PROVE TypeOK
  OBVIOUS
<1>1. {topic, queue, batch, asking, curl} \subseteq Bag
  BY FetchLoopAssumption, NothingBag DEF Init
<1>2. {reported, heard, saved} \subseteq Bag
  BY NothingBag DEF Init
<1>3. left \in 0 .. MaxRead
  BY FetchLoopAssumption DEF Init
<1>4. QED
  BY <1>1, <1>2, <1>3 DEF Init, TypeOK

LEMMA LoopTypeOK ==
  ASSUME TypeOK, LoopStep \/ Stop
  PROVE  TypeOK'
<1> USE FetchLoopAssumption DEF loopVars, mergeVars, tellVars
<1>1. CASE StartRead
  BY <1>1 DEF TypeOK, StartRead
<1>2. CASE EndRead
  BY <1>2 DEF TypeOK, EndRead
<1>3. CASE Stop
  BY <1>3 DEF TypeOK, Stop
<1>4. ASSUME NEW u \in Url, ReadOne(u)
      PROVE  TypeOK'
  <2>1. topic' \in Bag /\ queue' \in Bag
    BY <1>4, LessBag, MoreBag DEF TypeOK, ReadOne
  <2>2. left' \in 0 .. MaxRead
    BY <1>4 DEF TypeOK, ReadOne
  <2>3. QED
    BY <1>4, <2>1, <2>2 DEF TypeOK, ReadOne
<1>5. QED
  BY <1>1, <1>2, <1>3, <1>4 DEF LoopStep

LEMMA MergeTypeOK ==
  ASSUME TypeOK, MergeStep
  PROVE  TypeOK'
<1> USE DEF loopVars, mergeVars, tellVars
<1>1. ASSUME NEW u \in Url, AccEvent(u)
      PROVE  TypeOK'
  <2>1. queue' \in Bag /\ batch' \in Bag
    BY <1>1, LessBag, MoreBag DEF TypeOK, AccEvent
  <2>2. QED
    BY <1>1, <2>1 DEF TypeOK, AccEvent
<1>2. CASE SwitchGlobalObj
  BY <1>2 DEF TypeOK, SwitchGlobalObj
<1>3. ASSUME NEW reqs \in SubBags(batch), TryFetch(reqs)
      PROVE  TypeOK'
  <2>1. asking' \in Bag /\ batch' \in Bag
    BY <1>3, SubBagsMinus DEF TypeOK, TryFetch
  <2>2. QED
    BY <1>3, <2>1 DEF TypeOK, TryFetch
<1>4. ASSUME NEW urls \in SubBags(asking), Replied(urls)
      PROVE  TypeOK'
  <2>1. urls \in Bag /\ Minus(asking, urls) \in Bag
    BY SubBagsMinus DEF TypeOK
  <2>2. curl' \in Bag /\ queue' \in Bag
    BY <1>4, <2>1, PlusBag DEF TypeOK, Replied
  <2>3. QED
    BY <1>4, <2>2, NothingBag DEF TypeOK, Replied
<1>5. CASE Sent
  BY <1>5 DEF TypeOK, Sent
<1>6. QED
  BY <1>1, <1>2, <1>3, <1>4, <1>5 DEF MergeStep

LEMMA ClientTypeOK ==
  ASSUME TypeOK, ClientStep
  PROVE  TypeOK'
<1> USE DEF loopVars, mergeVars, tellVars
<1>1. ASSUME NEW u \in Url, NEW success \in BOOLEAN, Respond(u, success)
      PROVE  TypeOK'
  <2>1. curl' \in Bag
    BY <1>1, LessBag DEF TypeOK, Respond
  <2>2. response' \in Responses
    BY <1>1 DEF Respond, Responses
  <2>3. QED
    BY <1>1, <2>1, <2>2 DEF TypeOK, Respond
<1>2. ASSUME NEW received \in BOOLEAN, OnFetched(received)
      PROVE  TypeOK'
  <2>1. response \in Responses
    BY <1>2 DEF TypeOK, OnFetched, NoResponse
  <2>2. response.url \in Url
    BY <2>1 DEF Responses
  <2>3. reported' \in Bag /\ heard' \in Bag
    BY <1>2, <2>2, MoreBag DEF TypeOK, OnFetched
  <2>4. response' \in Responses \cup {NoResponse}
    BY <1>2, <2>1 DEF OnFetched, Responses
  <2>5. QED
    BY <1>2, <2>3, <2>4 DEF TypeOK, OnFetched
<1>3. ASSUME NEW ok \in BOOLEAN, Save(ok)
      PROVE  TypeOK'
  <2>1. response \in Responses
    BY <1>3 DEF TypeOK, Save, NoResponse
  <2>2. response.url \in Url
    BY <2>1 DEF Responses
  <2>3. saved' \in Bag
    BY <1>3, <2>2, MoreBag DEF TypeOK, Save
  <2>4. QED
    BY <1>3, <2>3 DEF TypeOK, Save
<1>4. QED
  BY <1>1, <1>2, <1>3 DEF ClientStep

LEMMA CrashTypeOK ==
  ASSUME TypeOK, Topic \in Bag, NEW again \in SubBags(Minus(Topic, topic)), Crash(again)
  PROVE  TypeOK'
<1>1. again \in Bag
  BY DEF SubBags, Bag
<1>2. topic' \in Bag
  BY <1>1, PlusBag DEF TypeOK, Crash
<1>3. {topic', queue', batch', asking', curl'} \subseteq Bag
  BY <1>2, NothingBag DEF Crash
<1>4. left' \in 0 .. MaxRead
  BY FetchLoopAssumption DEF Crash
<1>5. {reported', heard', saved'} \subseteq Bag
  BY DEF TypeOK, Crash, tellVars
<1>6. faults' \in Nat
  BY DEF TypeOK, Crash
<1>7. running' = TRUE /\ sending' = FALSE
  BY Zenon DEF Crash
<1>8. pc' = "check" /\ response' = NoResponse /\ asking' = Nothing
  BY Zenon DEF Crash
<1>9. QED
  BY <1>3, <1>4, <1>5, <1>6, <1>7, <1>8 DEF TypeOK

\* Types are kept over all steps, whatever comes again after a crash.
THEOREM TypeCorrect == Spec => []TypeOK
<1>1. ASSUME TypeOK, Next
      PROVE  TypeOK'
  BY <1>1, LoopTypeOK, MergeTypeOK, ClientTypeOK, CrashTypeOK, FetchLoopAssumption DEF Next
<1>2. ASSUME TypeOK, UNCHANGED vars
      PROVE  TypeOK'
  BY <1>2 DEF TypeOK, vars, loopVars, mergeVars, tellVars
<1>3. QED
  BY InitTypeOK, <1>1, <1>2, PTL DEF Spec

-----------------------------------------------------------------------------
\* Between the two calls of _onResponse a page is told and not yet saved.
Telling(u) == IF response.stage = "reported" /\ response.url = u THEN 1 ELSE 0

LEMMA TellingWhenIdle ==
  ASSUME response = NoResponse, NEW u
  PROVE  Telling(u) = 0
BY DEF Telling, NoResponse

LEMMA PageSavedStep ==
  ASSUME TypeOK, TypeOK', PageSaved, [Next]_vars
  PROVE  PageSaved'
<1> SUFFICES ASSUME NEW v \in Url
             PROVE  heard'[v] <= saved'[v] + faults' + Telling(v)'
  BY DEF PageSaved, Telling
<1>1. /\ heard[v] <= saved[v] + faults + Telling(v)
      /\ {heard[v], saved[v], heard'[v], saved'[v], faults, faults'} \subseteq Nat
      /\ Telling(v) \in 0 .. 1 /\ Telling(v)' \in 0 .. 1
  BY DEF PageSaved, TypeOK, Bag, Telling
<1>2. CASE UNCHANGED <<heard, saved, faults, response>>
  BY <1>1, <1>2 DEF Telling
<1>3. ASSUME NEW u \in Url, NEW success \in BOOLEAN, Respond(u, success)
      PROVE  heard'[v] <= saved'[v] + faults' + Telling(v)'
  <2>1. Telling(v) = 0
    BY <1>3, TellingWhenIdle DEF Respond
  <2>2. QED
    BY <1>1, <1>3, <2>1 DEF Respond, tellVars
<1>4. ASSUME NEW received \in BOOLEAN, OnFetched(received)
      PROVE  heard'[v] <= saved'[v] + faults' + Telling(v)'
  <2>1. Telling(v) = 0
    BY <1>4 DEF OnFetched, Telling
  <2>2. response \in Responses
    BY <1>4 DEF TypeOK, OnFetched, NoResponse
  <2>3. UNCHANGED <<saved, faults>>
    BY <1>4 DEF OnFetched
  <2>4. CASE heard' = heard
    BY <1>1, <2>1, <2>3, <2>4
  <2>5. CASE heard' # heard
    <3>1. /\ heard' = [heard EXCEPT ![response.url] = @ + 1]
          /\ response' = [response EXCEPT !.stage = "reported"]
      BY <1>4, <2>5 DEF OnFetched
    <3>2. response'.stage = "reported" /\ response'.url = response.url
      BY <2>2, <3>1 DEF Responses
    <3>3. v # response.url => heard'[v] = heard[v]
      BY <3>1 DEF TypeOK, Bag
    <3>4. v = response.url => heard'[v] = heard[v] + 1 /\ Telling(v)' = 1
      BY <3>1, <3>2 DEF TypeOK, Bag, Telling
    <3>5. QED
      BY <1>1, <2>1, <2>3, <3>3, <3>4
  <2>6. QED
    BY <2>4, <2>5
<1>5. ASSUME NEW ok \in BOOLEAN, Save(ok)
      PROVE  heard'[v] <= saved'[v] + faults' + Telling(v)'
  <2>1. Telling(v)' = 0
    BY <1>5 DEF Save, Telling, NoResponse
  <2>2. heard' = heard
    BY <1>5 DEF Save
  <2>3. CASE ok
    <3>1. saved' = [saved EXCEPT ![response.url] = @ + 1] /\ faults' = faults
      BY <1>5, <2>3 DEF Save
    <3>2. v = response.url => saved'[v] = saved[v] + 1
      BY <3>1 DEF TypeOK, Bag
    <3>3. v # response.url => saved'[v] = saved[v] /\ Telling(v) = 0
      BY <3>1 DEF TypeOK, Bag, Telling
    <3>4. QED
      BY <1>1, <2>1, <2>2, <3>1, <3>2, <3>3
  <2>4. CASE ~ok
    <3>1. saved' = saved /\ faults' = faults + 1
      BY <1>5, <2>4 DEF Save
    <3>2. QED
      BY <1>1, <2>1, <2>2, <3>1
  <2>5. QED
    BY <2>3, <2>4
<1>6. ASSUME NEW again \in SubBags(Minus(Topic, topic)), Crash(again)
      PROVE  heard'[v] <= saved'[v] + faults' + Telling(v)'
  <2>1. Telling(v)' = 0
    BY <1>6 DEF Crash, Telling, NoResponse
  <2>2. heard' = heard /\ saved' = saved /\ faults' = faults + 1
    BY <1>6 DEF Crash, tellVars
  <2>3. QED
    BY <1>1, <2>1, <2>2
<1>7. CASE LoopStep \/ Stop
  BY <1>2, <1>7 DEF LoopStep, StartRead, ReadOne, EndRead, Stop, tellVars
<1>8. CASE MergeStep
  BY <1>2, <1>8 DEF MergeStep, AccEvent, SwitchGlobalObj, TryFetch, Replied, Sent, tellVars
<1>9. CASE UNCHANGED vars
  BY <1>2, <1>9 DEF vars, tellVars
<1>10. QED
  BY <1>3, <1>4, <1>5, <1>6, <1>7, <1>8, <1>9 DEF Next, ClientStep

\* A page the scheduler counts as fetched is in the page store, but for faults.
THEOREM PagesSaved == Spec => []PageSaved
<1>1. Init => PageSaved
  BY DEF Init, PageSaved, Nothing, NoResponse
<1>2. QED
  BY TypeCorrect, <1>1, PageSavedStep, PTL DEF Spec

-----------------------------------------------------------------------------
LEMMA HeldBag ==
  ASSUME TypeOK
  PROVE  Held \in Bag /\ \A u \in Url : ResponseOf(u) \in 0 .. 1
BY DEF TypeOK, Bag, Held, ResponseOf

\* Held is a function of Url: two of them are equal when they agree on each URL.
LEMMA HeldKept ==
  ASSUME \A v \in Url : Held'[v] = Held[v]
  PROVE  Held' = Held
BY DEF Held

LEMMA ResponseOfNone ==
  ASSUME response = NoResponse, NEW u
  PROVE  ResponseOf(u) = 0
BY DEF ResponseOf, NoResponse

\* What the reader takes from Kafka it holds.
LEMMA ReadRefines ==
  ASSUME TypeOK, NEW u \in Url, ReadOne(u)
  PROVE  D!Read(u)
<1>1. topic[u] > 0 /\ topic' = [topic EXCEPT ![u] = @ - 1] /\ reported' = reported
  BY DEF ReadOne, tellVars
<1>2. Held' = [Held EXCEPT ![u] = @ + 1]
  <2> SUFFICES ASSUME NEW v \in Url
               PROVE  Held'[v] = IF v = u THEN Held[u] + 1 ELSE Held[v]
    BY DEF Held
  <2>1. /\ queue' = [queue EXCEPT ![u] = @ + 1]
        /\ UNCHANGED <<batch, asking, curl, response>>
    BY DEF ReadOne, mergeVars
  <2>2. ResponseOf(v)' = ResponseOf(v)
    BY <2>1 DEF ResponseOf
  <2>3. QED
    BY <2>1, <2>2, HeldBag DEF Held, TypeOK, Bag
<1>3. QED
  BY <1>1, <1>2 DEF D!Read

\* A record stays with the worker while it goes from place to place.
LEMMA MergeKeepsHeld ==
  ASSUME TypeOK, MergeStep
  PROVE  UNCHANGED <<topic, Held, reported>>
<1>1. UNCHANGED <<topic, reported, response>>
  BY DEF MergeStep, AccEvent, SwitchGlobalObj, TryFetch, Replied, Sent, tellVars
<1> SUFFICES ASSUME NEW v \in Url
             PROVE  queue'[v] + batch'[v] + asking'[v] + curl'[v]
                      = queue[v] + batch[v] + asking[v] + curl[v]
  BY <1>1, HeldKept DEF Held, ResponseOf
<1>2. {queue[v], batch[v], asking[v], curl[v]} \subseteq Nat
  BY DEF TypeOK, Bag
<1>3. ASSUME NEW u \in Url, AccEvent(u)
      PROVE  /\ queue'[v] + batch'[v] = queue[v] + batch[v]
             /\ UNCHANGED <<asking, curl>>
  BY <1>3, <1>2 DEF AccEvent, TypeOK, Bag
<1>4. CASE SwitchGlobalObj \/ Sent
  BY <1>4 DEF SwitchGlobalObj, Sent
<1>5. ASSUME NEW reqs \in SubBags(batch), TryFetch(reqs)
      PROVE  /\ batch'[v] + asking'[v] = batch[v] + asking[v]
             /\ UNCHANGED <<queue, curl>>
  <2>1. reqs[v] \in Nat
    BY SubBagsMinus DEF TypeOK, Bag
  <2>2. asking[v] = 0 /\ asking'[v] = reqs[v] /\ batch'[v] = batch[v] - reqs[v]
    BY <1>5 DEF TryFetch, Minus, Nothing
  <2>3. QED
    BY <1>2, <1>5, <2>1, <2>2 DEF TryFetch
<1>6. ASSUME NEW urls \in SubBags(asking), Replied(urls)
      PROVE  /\ queue'[v] + asking'[v] + curl'[v] = queue[v] + asking[v] + curl[v]
             /\ UNCHANGED batch
  <2>1. urls[v] \in Nat
    BY SubBagsMinus DEF TypeOK, Bag
  <2>2. /\ queue'[v] = queue[v] + (asking[v] - urls[v])
        /\ asking'[v] = 0 /\ curl'[v] = curl[v] + urls[v]
    BY <1>6 DEF Replied, Plus, Minus, Nothing
  <2>3. QED
    BY <1>2, <1>6, <2>1, <2>2 DEF Replied
<1>7. CASE \E u \in Url : AccEvent(u)
  BY <1>2, <1>3, <1>7, MergeTypeOK DEF AccEvent, TypeOK, Bag
<1>8. CASE \E reqs \in SubBags(batch) : TryFetch(reqs)
  <2>1. {batch'[v], asking'[v]} \subseteq Nat
    BY MergeTypeOK DEF TypeOK, Bag
  <2>2. QED
    BY <1>2, <1>5, <1>8, <2>1
<1>9. CASE \E urls \in SubBags(asking) : Replied(urls)
  <2>1. {queue'[v], asking'[v], curl'[v]} \subseteq Nat
    BY MergeTypeOK DEF TypeOK, Bag
  <2>2. QED
    BY <1>2, <1>6, <1>9, <2>1
<1>10. QED
  BY <1>4, <1>7, <1>8, <1>9 DEF MergeStep

\* A response is reported once, and with it the worker is done with the record.
LEMMA ClientRefines ==
  ASSUME TypeOK, ClientStep
  PROVE  (\E u \in Url : D!Answer(u)) \/ UNCHANGED <<topic, Held, reported>>
<1>1. ASSUME NEW u \in Url, NEW success \in BOOLEAN, Respond(u, success)
      PROVE  UNCHANGED <<topic, Held, reported>>
  <2>1. /\ curl' = [curl EXCEPT ![u] = @ - 1]
        /\ UNCHANGED <<topic, reported, queue, batch, asking>>
    BY <1>1 DEF Respond, mergeVars, tellVars
  <2>2. \A v \in Url : ResponseOf(v) = 0 /\ ResponseOf(v)' = IF v = u THEN 1 ELSE 0
    BY <1>1, ResponseOfNone DEF Respond, ResponseOf
  <2>3. ASSUME NEW v \in Url
        PROVE  Held'[v] = Held[v]
    BY <2>1, <2>2 DEF Held, TypeOK, Bag
  <2>4. QED
    BY <2>1, <2>3, HeldKept
<1>2. ASSUME NEW received \in BOOLEAN, OnFetched(received)
      PROVE  D!Answer(response.url)
  <2>1. response \in Responses /\ response.stage = "unreported"
    BY <1>2 DEF TypeOK, OnFetched, NoResponse
  <2>2. response.url \in Url
    BY <2>1 DEF Responses
  <2>3. /\ reported' = [reported EXCEPT ![response.url] = @ + 1]
        /\ UNCHANGED <<topic, queue, batch, asking, curl>>
    BY <1>2 DEF OnFetched, mergeVars
  <2>4. response'.stage # "unreported"
    BY <1>2, <2>1 DEF OnFetched, Responses, NoResponse
  <2>5. /\ \A v \in Url : ResponseOf(v) = IF v = response.url THEN 1 ELSE 0
        /\ \A v \in Url : ResponseOf(v)' = 0
    BY <2>1, <2>4 DEF ResponseOf
  <2>6. ASSUME NEW v \in Url
        PROVE  Held'[v] = IF v = response.url THEN Held[v] - 1 ELSE Held[v]
    <3>1. {queue[v], batch[v], asking[v], curl[v]} \subseteq Nat
      BY DEF TypeOK, Bag
    <3>2. Held'[v] = queue[v] + batch[v] + asking[v] + curl[v] + 0
      BY <2>3, <2>5 DEF Held
    <3>3. Held[v] = queue[v] + batch[v] + asking[v] + curl[v] + ResponseOf(v)
      BY DEF Held
    <3>4. QED
      BY <2>5, <3>1, <3>2, <3>3
  <2>7. Held' = [Held EXCEPT ![response.url] = @ - 1]
    BY <2>6 DEF Held
  <2>8. Held[response.url] > 0
    <3>1. /\ queue[response.url] \in Nat /\ batch[response.url] \in Nat
          /\ asking[response.url] \in Nat /\ curl[response.url] \in Nat
      BY <2>2 DEF TypeOK, Bag
    <3>2. Held[response.url] = queue[response.url] + batch[response.url]
                                 + asking[response.url] + curl[response.url] + 1
      BY <2>2, <2>5 DEF Held
    <3>3. QED
      BY <3>1, <3>2
  <2>9. QED
    BY <2>3, <2>7, <2>8 DEF D!Answer
<1>3. ASSUME NEW ok \in BOOLEAN, Save(ok)
      PROVE  UNCHANGED <<topic, Held, reported>>
  <2>1. UNCHANGED <<topic, reported, queue, batch, asking, curl>>
    BY <1>3 DEF Save, mergeVars
  <2>2. \A v \in Url : ResponseOf(v) = 0 /\ ResponseOf(v)' = 0
    BY <1>3 DEF Save, ResponseOf, NoResponse
  <2>3. QED
    BY <2>1, <2>2, HeldKept DEF Held
<1>4. ASSUME NEW received \in BOOLEAN, OnFetched(received)
      PROVE  response.url \in Url
  BY <1>4 DEF TypeOK, OnFetched, NoResponse, Responses
<1>5. QED
  BY <1>1, <1>2, <1>3, <1>4 DEF ClientStep

\* The records held at a crash are gone; some of those delivered come again.
LEMMA CrashRefines ==
  ASSUME TypeOK, NEW again \in SubBags(Minus(Topic, topic)), Crash(again)
  PROVE  D!Crash
<1>1. again \in Bag
  BY DEF SubBags, Bag
<1>2. topic' \in D!Bag
  BY <1>1, PlusBag DEF TypeOK, Crash, Bag, D!Bag
<1>3. \A u \in Url : topic'[u] >= topic[u]
  BY <1>1 DEF Crash, Plus, TypeOK, Bag
<1>4. \A u \in Url : ResponseOf(u)' = 0
  BY DEF Crash, ResponseOf, NoResponse
<1>5. Held' = D!Nothing
  BY <1>4 DEF Held, Crash, Nothing, D!Nothing
<1>6. reported' = reported
  BY DEF Crash, tellVars
<1>7. QED
  BY <1>2, <1>3, <1>5, <1>6 DEF D!Crash

LEMMA InitRefines == Init => D!Init
<1> SUFFICES ASSUME Init PROVE D!Init
  OBVIOUS
<1>1. topic \in D!Bag
  BY FetchLoopAssumption DEF Init, Bag, D!Bag
<1>2. \A u \in Url : ResponseOf(u) = 0
  BY ResponseOfNone DEF Init
<1>3. Held = D!Nothing /\ reported = D!Nothing
  BY <1>2 DEF Init, Held, Nothing, D!Nothing
<1>4. QED
  BY <1>1, <1>3 DEF D!Init

LEMMA NextRefines ==
  ASSUME TypeOK, [Next]_vars
  PROVE  [D!Next]_(D!vars)
<1>1. CASE \E u \in Url : ReadOne(u)
  BY <1>1, ReadRefines DEF D!Next
<1>2. CASE StartRead \/ EndRead \/ Stop \/ UNCHANGED vars
  <2>1. UNCHANGED <<topic, queue, batch, asking, curl, response, reported>>
    BY <1>2 DEF StartRead, EndRead, Stop, vars, mergeVars, tellVars
  <2>2. QED
    BY <2>1 DEF D!vars, Held, ResponseOf
<1>3. CASE MergeStep
  BY <1>3, MergeKeepsHeld DEF D!vars
<1>4. CASE ClientStep
  BY <1>4, ClientRefines DEF D!Next, D!vars
<1>5. ASSUME NEW again \in SubBags(Minus(Topic, topic)), Crash(again)
      PROVE  D!Next
  BY <1>5, CrashRefines DEF D!Next
<1>6. QED
  BY <1>1, <1>2, <1>3, <1>4, <1>5 DEF Next, LoopStep

\* The fetch loop implements the safety of Delivery: no step of its threads drops or doubles a record.
THEOREM Implements == Spec => Delivered
BY TypeCorrect, InitRefines, NextRefines, PTL DEF Spec, Delivered, D!Spec
=============================================================================
