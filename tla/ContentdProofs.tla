--------------------------- MODULE ContentdProofs ---------------------------
(***************************************************************************)
(* What is proved about Contentd, for any program, number of routes,       *)
(* visits and records: the types, that the counters of the worker and of   *)
(* the scheduler agree up to the result being reported, and that a dry     *)
(* run's statistics are filled from merged visits; and about               *)
(* SchedulerServer, for any calls and methods.                             *)
(***************************************************************************)
EXTENDS Contentd, SchedulerServer, TLAPS

USE ProgramsAssumption, CallsAssumption

-----------------------------------------------------------------------------
(***************************************************************************)
(* Types.                                                                  *)
(***************************************************************************)
LEMMA InitTypes == Init => TypeOK
<1> SUFFICES ASSUME Init
             PROVE  TypeOK
  OBVIOUS
<1>1. Zero \in [Kind -> Nat]
  BY DEF Zero
<1>2. main \in {"load", "page_db", "fill"}
  BY DEF Init
<1>3. http \in [at : {"idle", "url_db", "host_db", "crawled_db", "stats", "save"}, kind : Kind]
  BY DEF Init, Kind
<1>4. topic \in Nat /\ gfq \in Nat /\ days \in Nat
  BY DEF Init
<1>5. finished \in BOOLEAN /\ dry \in BOOLEAN
  BY DEF Init
<1>6. /\ queue \in Nat /\ batch \in Nat /\ filled \in Nat /\ sim \in Nat /\ requests \in Nat
      /\ routes \in 0 .. Routes /\ lost \in 0 .. Routes /\ served \in 0 .. Routes
      /\ ret \in 0 .. 1
  BY DEF Init
<1>7. worker \in [Kind -> Nat] /\ scheduler \in [Kind -> Nat] /\ stats \in [Kind -> Nat]
  BY <1>1 DEF Init
<1>8. /\ program \in Program /\ merge \in {"sleep"} /\ api \in {"none"} /\ query \in {"none"}
  BY DEF Init
<1> QED
  BY <1>2, <1>3, <1>4, <1>5, <1>6, <1>7, <1>8 DEF TypeOK

LEMMA PushKeepsTypes ==
  ASSUME gfq \in Nat, sim \in Nat, NEW n \in 0 .. MaxRecords, Push(n)
  PROVE  gfq' \in Nat /\ sim' \in Nat
  BY DEF Push

LEMMA MainKeepsTypes ==
  ASSUME TypeOK, Main
  PROVE  TypeOK'
<1> USE DEF TypeOK, mergeVars, fetchVars, apiVars, Goto
<1>1. CASE LoadDry
  BY <1>1 DEF LoadDry, Load
<1>2. CASE LoadEnd \/ WaitMerged \/ Fill \/ WaitFreqMerged
  BY <1>2 DEF LoadEnd, WaitMerged, Fill, WaitFreqMerged
<1>3. CASE EnqueueDry
  <2>1. gfq' \in Nat /\ sim' \in Nat
    BY <1>3, PushKeepsTypes DEF EnqueueDry
  <2> QED BY <1>3, <2>1 DEF EnqueueDry
<1>4. CASE MakePageDb \/ MakeWorker
  BY <1>4 DEF MakePageDb, MakeWorker
<1>5. CASE MakeApi \/ ConstructRoutes \/ FillKeys
  BY <1>5 DEF MakeApi, ConstructRoutes, FillKeys
<1>6. CASE WorkerStats \/ SchedulerStats \/ Start
  BY <1>6 DEF WorkerStats, SchedulerStats, Start
<1>7. CASE Destroy \/ StopServer \/ JoinServer
  BY <1>7 DEF Destroy, StopServer, JoinServer
<1> QED
  BY <1>1, <1>2, <1>3, <1>4, <1>5, <1>6, <1>7 DEF Main

LEMMA HttpKeepsTypes ==
  ASSUME TypeOK, HttpThread
  PROVE  TypeOK'
<1> USE DEF TypeOK, mergeVars, fetchVars, apiVars
<1>1. CASE OnFetched
  <2>1. http' \in [at : {"idle", "url_db", "host_db", "crawled_db", "stats", "save"}, kind : Kind]
    BY <1>1 DEF OnFetched, After
  <2>2. scheduler' \in [Kind -> Nat]
    BY <1>1 DEF OnFetched, IncStats, Counter
  <2> QED BY <1>1, <2>1, <2>2 DEF OnFetched
<1>2. ASSUME NEW k \in Kind, Respond(k)
      PROVE  TypeOK'
  BY <1>2 DEF Respond
<1> QED
  BY <1>1, <1>2 DEF HttpThread

(* Every variable of Contentd keeps its type. (bin/contentd/cli/Contentd.cpp) *)
THEOREM TypeCorrect == Spec => []TypeOK
<1>1. ASSUME TypeOK, [Next]_vars
      PROVE  TypeOK'
  <2>1. CASE MergeThread
    <3> USE <1>1 DEF TypeOK
    <3>1. queue' \in Nat /\ days' \in Nat /\ batch' \in Nat /\ merge' \in {"sleep", "dequeue", "merge"}
      BY <2>1 DEF MergeThread, SetMergeStarted, Dequeue, Merge
    <3>2. finished' \in BOOLEAN
      BY <2>1
      DEF MergeThread, SetMergeStarted, Dequeue, EmptyRound, Merge, SetMergeFinished
    <3>3. UNCHANGED <<program, dry, main, topic, filled, fetchVars, stats, apiVars, ret>>
      BY <2>1 DEF MergeThread, SetMergeStarted, Dequeue, Merge
    <3> QED BY <3>1, <3>2, <3>3 DEF fetchVars, apiVars
  <2>2. CASE ApiThread \/ EndQuery
    BY <1>1, <2>2
    DEF TypeOK, ApiThread, EndQuery, PushRoute, MakeServer, RegisterRoute, AllRegistered,
        Listen, Others, mergeVars, fetchVars
  <2>3. CASE LoadLoop \/ FetchRecord
    BY <1>1, <2>3 DEF TypeOK, LoadLoop, Load, FetchRecord, mergeVars, fetchVars, apiVars
  <2>4. CASE EnqueueLoop
    <3>1. gfq' \in Nat /\ sim' \in Nat
      BY <1>1, <2>4, PushKeepsTypes DEF EnqueueLoop, TypeOK
    <3> QED BY <1>1, <2>4, <3>1 DEF EnqueueLoop, TypeOK, mergeVars, apiVars
  <2>5. CASE UNCHANGED vars
    BY <1>1, <2>5 DEF TypeOK, vars, mergeVars, fetchVars, apiVars
  <2> QED
    BY <1>1, <2>1, <2>2, <2>3, <2>4, <2>5, MainKeepsTypes, HttpKeepsTypes DEF Next
<1> QED
  BY <1>1, InitTypes, PTL DEF Spec

-----------------------------------------------------------------------------
(***************************************************************************)
(* The counters: only the HTTP thread counts.                              *)
(***************************************************************************)
LEMMA RespondKeepsStats ==
  ASSUME TypeOK, StatsAgree, NEW k \in Kind, Respond(k)
  PROVE  StatsAgree'
<1>1. http.at = "idle" /\ http' = [at |-> "url_db", kind |-> k]
  BY DEF Respond
<1> SUFFICES ASSUME program = "contentd", NEW j \in Kind
             PROVE  worker'[j] = scheduler'[j] +
                      IF http'.kind = j /\ http'.at \notin {"idle", "save"} THEN 1 ELSE 0
  BY DEF StatsAgree, Respond
<1>2. worker \in [Kind -> Nat] /\ scheduler \in [Kind -> Nat]
  BY DEF TypeOK
<1>3. worker[j] = scheduler[j]
  BY <1>1, <1>2 DEF StatsAgree
<1>4. scheduler' = scheduler /\ worker' = [worker EXCEPT ![k] = @ + 1]
  BY DEF Respond
<1> QED
  BY <1>1, <1>2, <1>3, <1>4

LEMMA OnFetchedKeepsStats ==
  ASSUME TypeOK, StatsAgree, OnFetched
  PROVE  StatsAgree'
<1> SUFFICES ASSUME program = "contentd", NEW j \in Kind
             PROVE  worker'[j] = scheduler'[j] +
                      IF http'.kind = j /\ http'.at \notin {"idle", "save"} THEN 1 ELSE 0
  BY DEF StatsAgree, OnFetched
<1>1. worker \in [Kind -> Nat] /\ scheduler \in [Kind -> Nat] /\ http.kind \in Kind
  BY DEF TypeOK
<1>2. worker[j] = scheduler[j] +
        IF http.kind = j /\ http.at \notin {"idle", "save"} THEN 1 ELSE 0
  BY DEF StatsAgree
<1>3. worker' = worker /\ http'.kind = http.kind /\ http'.at = After(http.at)
  BY DEF OnFetched, TypeOK
<1>4. CASE http.at = "stats"
  <2>1. scheduler' = [scheduler EXCEPT ![http.kind] = @ + 1]
    BY <1>4 DEF OnFetched, IncStats, Counter
  <2>2. http'.at = "save"
    BY <1>3, <1>4 DEF After
  <2> QED BY <1>1, <1>2, <1>3, <1>4, <2>1, <2>2
<1>5. CASE http.at # "stats"
  <2>1. scheduler' = scheduler
    BY <1>5 DEF OnFetched
  <2>2. http.at \notin {"idle", "save"} <=> http'.at \notin {"idle", "save"}
    BY <1>3, <1>5 DEF OnFetched, TypeOK, After
  <2> QED BY <1>2, <1>3, <2>1, <2>2
<1> QED
  BY <1>4, <1>5

(* The worker's and the scheduler's counters agree, kind by kind, up to    *)
(* the result the HTTP thread is reporting, for any number of results.     *)
(* (FetchLoop.cpp:89-125, Scheduler.cpp:165-190)                           *)
THEOREM StatsAgreed == Spec => []StatsAgree
<1>1. Init => StatsAgree
  BY DEF Init, StatsAgree, Zero
<1>2. ASSUME TypeOK, StatsAgree, [Next]_vars
      PROVE  StatsAgree'
  <2>1. CASE HttpThread
    BY <1>2, <2>1, RespondKeepsStats, OnFetchedKeepsStats DEF HttpThread
  <2>2. ASSUME UNCHANGED <<program, http, worker, scheduler>>
        PROVE  StatsAgree'
    BY <1>2, <2>2 DEF StatsAgree
  <2>3. CASE Main
    BY <2>2, <2>3
    DEF Main, LoadDry, LoadEnd, WaitMerged, Fill, WaitFreqMerged, EnqueueDry, MakePageDb, MakeWorker,
        MakeApi, ConstructRoutes, FillKeys, WorkerStats, SchedulerStats, Start, Destroy, StopServer,
        JoinServer, Goto, fetchVars
  <2>4. CASE MergeThread
    BY <2>2, <2>4 DEF MergeThread, SetMergeStarted, Dequeue, Merge, fetchVars
  <2>5. CASE ApiThread \/ EndQuery
    BY <2>2, <2>5
    DEF ApiThread, EndQuery, PushRoute, MakeServer, RegisterRoute, Listen, Others, fetchVars
  <2>6. CASE LoadLoop \/ EnqueueLoop \/ FetchRecord \/ UNCHANGED vars
    BY <2>2, <2>6 DEF LoadLoop, EnqueueLoop, FetchRecord, vars, fetchVars
  <2> QED
    BY <1>2, <2>1, <2>3, <2>4, <2>5, <2>6 DEF Next
<1> QED
  BY <1>1, <1>2, TypeCorrect, PTL DEF Spec

-----------------------------------------------------------------------------
(***************************************************************************)
(* The fill.  m_merge_finished is set with a batch that is not empty, and  *)
(* nothing takes days away.                                                *)
(***************************************************************************)
FillInv ==
  /\ merge = "merge" => batch > 0
  /\ finished => days > 0
  /\ dry /\ HasScheduler /\ main = "fill" => days > 0
  /\ FillsMerged

LEMMA MainKeepsFill ==
  ASSUME TypeOK, FillInv, Main
  PROVE  FillInv'
<1> USE DEF FillInv, FillsMerged, HasScheduler, mergeVars
<1>1. CASE LoadDry
  BY <1>1 DEF LoadDry
<1>2. CASE LoadEnd \/ WaitMerged \/ Fill \/ WaitFreqMerged
  BY <1>2 DEF LoadEnd, WaitMerged, Fill, WaitFreqMerged, Goto
<1>3. CASE EnqueueDry \/ MakePageDb \/ MakeWorker
  BY <1>3 DEF EnqueueDry, MakePageDb, MakeWorker, Goto
<1>4. CASE MakeApi \/ ConstructRoutes \/ FillKeys
  BY <1>4 DEF MakeApi, ConstructRoutes, FillKeys, Goto
<1>5. CASE WorkerStats \/ SchedulerStats \/ Start
  BY <1>5 DEF WorkerStats, SchedulerStats, Start, Goto
<1>6. CASE Destroy \/ StopServer \/ JoinServer
  BY <1>6 DEF Destroy, StopServer, JoinServer, Goto
<1> QED
  BY <1>1, <1>2, <1>3, <1>4, <1>5, <1>6 DEF Main

(* A dry run's statistics are filled from days that hold visits, however   *)
(* many rounds the merge thread makes and what they find.                  *)
(* (UrlsDaysDb.h:112, UrlsDaysDb.cpp:84-87, Scheduler.cpp:75-101)          *)
THEOREM FilledWhenMerged == Spec => []FillsMerged
<1>1. Init => FillInv
  BY DEF Init, FillInv, FillsMerged, HasScheduler, Program
<1>2. ASSUME TypeOK, FillInv, [Next]_vars
      PROVE  FillInv'
  <2>1. CASE MergeThread
    BY <1>2, <2>1
    DEF TypeOK, FillInv, FillsMerged, HasScheduler, MergeThread, SetMergeStarted, Dequeue,
        EmptyRound, Merge, SetMergeFinished
  <2>2. ASSUME UNCHANGED <<program, dry, main, days, merge, batch, finished, filled>>
        PROVE  FillInv'
    BY <1>2, <2>2 DEF FillInv, FillsMerged, HasScheduler
  <2>3. CASE PushRoute
    BY <1>2, <2>3
    DEF FillInv, FillsMerged, HasScheduler, PushRoute, Others, mergeVars
  <2>4. CASE MakeServer \/ RegisterRoute \/ Listen \/ EndQuery
    BY <2>2, <2>4 DEF MakeServer, RegisterRoute, Listen, EndQuery, Others, mergeVars
  <2>5. CASE HttpThread
    BY <2>2, <2>5 DEF HttpThread, OnFetched, Respond, mergeVars
  <2>6. CASE LoadLoop \/ EnqueueLoop \/ FetchRecord \/ UNCHANGED vars
    BY <2>2, <2>6 DEF LoadLoop, EnqueueLoop, FetchRecord, vars, mergeVars
  <2> QED
    BY <1>2, <2>1, <2>3, <2>4, <2>5, <2>6, MainKeepsFill DEF Next, ApiThread
<1>3. FillInv => FillsMerged
  BY DEF FillInv
<1> QED
  BY <1>1, <1>2, <1>3, TypeCorrect, PTL DEF Spec

-----------------------------------------------------------------------------
(***************************************************************************)
(* The server of the scheduler's RPC, for any calls and methods.           *)
(***************************************************************************)
LEMMA ServerInitInv == ServerInit => ServerInv
  BY DEF ServerInit, ServerInv, ServerTypeOK, NotYet, Counted, Listening, NoCall, Serving, Alive, Shut

(***************************************************************************)
(* Every step keeps the invariant, one action at a time.  What it takes: a *)
(* call data that got its call is replaced, at the latest, by the step     *)
(* that looks at the call (NextCall), and no call is counted twice because *)
(* its call data is never back in the state of one with a new call.        *)
(***************************************************************************)
LEMMA ServerStep == ServerInv /\ [ServerNext]_serverVars => ServerInv'
<1> SUFFICES ASSUME ServerInv, [ServerNext]_serverVars PROVE ServerInv'
  OBVIOUS
<1> USE DEF ServerInv
<1>0. CASE UNCHANGED serverVars
  BY <1>0 DEF serverVars, threadVars, dataVars, callVars, ServerTypeOK, NotYet, Counted, Listening,
     Matched, Serving, Alive, Shut
<1>1. CASE Build
  BY <1>1 DEF Build, dataVars, callVars, ServerTypeOK, NotYet, Counted, Listening,
     Matched, Serving, Alive, Shut
<1>2. CASE InstateAllCallDatas
  BY <1>2 DEF InstateAllCallDatas, Register, Add, NoCall, dataVars, callVars, ServerTypeOK, NotYet, Counted,
     Listening, Matched, Serving, Alive, Shut, CqShut
<1>3. CASE TestRunning
  BY <1>3 DEF TestRunning, dataVars, callVars, ServerTypeOK, NotYet, Counted, Listening,
     Matched, Serving, Alive, Shut
<1>4. ASSUME NEW c \in Call, NextCall(c) PROVE ServerInv'
  BY <1>4 DEF NextCall, NewCallData, Register, Add, dataVars, ServerTypeOK, NotYet, Counted, Listening,
     Matched, Serving, Alive, Shut
<1>5. ASSUME NEW c \in Call, Proceed(c) PROVE ServerInv'
  BY <1>5 DEF Proceed, dataVars, ServerTypeOK, NotYet, Counted, Listening,
     Matched, Serving, Alive, Shut
<1>6. ASSUME NEW c \in Call, NextFinished(c) PROVE ServerInv'
  BY <1>6 DEF NextFinished, AfterFinish, dataVars, ServerTypeOK, NotYet, Counted, Listening,
     Matched, Serving, Alive, Shut
<1>7. CASE NextCancelled
  <2> USE <1>7 DEF NextCancelled, callVars
  <2>1. PICK m \in Method : cancelled[m] > 0 /\ cancelled' = [cancelled EXCEPT ![m] = @ - 1]
    OBVIOUS
  <2>2. cancelled' \in [Method -> Nat]
    BY <2>1 DEF ServerTypeOK
  <2>3. ServerTypeOK'
    BY <2>2 DEF ServerTypeOK
  <2>4. NotYet' /\ Counted'
    BY DEF NotYet, Counted
  <2>5. Listening'
    BY DEF Listening, Matched, Serving, Alive, Shut
  <2> QED
    BY <2>3, <2>4, <2>5
<1>8. CASE NextDrained
  BY <1>8 DEF NextDrained, dataVars, callVars, ServerTypeOK, NotYet, Counted, Listening,
     Matched, Serving, Alive, Shut
<1>9. CASE Construct
  BY <1>9 DEF Construct, threadVars, dataVars, callVars, ServerTypeOK, NotYet, Counted, Listening,
     Matched, Serving, Alive, Shut
<1>10. CASE Stop
  BY <1>10 DEF Stop, Add, NoCall, threadVars, dataVars, callVars, ServerTypeOK, NotYet, Counted, Listening,
     Matched, Serving, Alive, Shut
<1>11. CASE StopStep
  BY <1>11 DEF StopStep, Close, StopRunning, Join, threadVars, dataVars, callVars, ServerTypeOK,
     NotYet, Counted, Listening, Matched, Serving, Alive, Shut
<1>12. ASSUME NEW c \in Call, Send(c) PROVE ServerInv'
  BY <1>12 DEF Send, threadVars, dataVars, ServerTypeOK, NotYet, Counted, Listening,
     Matched, Serving, Alive, Shut
<1>13. ASSUME NEW c \in Call, Lose(c) PROVE ServerInv'
  BY <1>13 DEF Lose, threadVars, dataVars, ServerTypeOK, NotYet, Counted, Listening,
     Matched, Serving, Alive, Shut
<1>14. ASSUME NEW c \in Call, MatchCall(c) PROVE ServerInv'
  <2> USE <1>14 DEF MatchCall, threadVars
  <2> DEFINE m == MethodOf[c]
  <2>1. th \notin {"starting", "instate"}
    BY DEF NotYet, NoCall, Serving, ServerTypeOK
  <2>2. waiting[m] = 1 /\ Matched(m) = {}
    BY <2>1 DEF Listening, ServerTypeOK
  <2>3. ServerTypeOK'
    BY <2>2 DEF ServerTypeOK
  <2>4. NotYet' /\ Counted'
    BY <2>1 DEF NotYet, Counted, ServerTypeOK
  <2>5. waiting'[m] = 0 /\ Matched(m)' = {c}
    BY <2>2 DEF Matched, ServerTypeOK
  <2>6. ASSUME NEW n \in Method, n # m PROVE waiting'[n] = waiting[n] /\ Matched(n)' = Matched(n)
    BY <2>6 DEF Matched, ServerTypeOK
  <2>7. Listening'
    BY <2>1, <2>5, <2>6 DEF Listening
  <2> QED
    BY <2>3, <2>4, <2>7
<1> QED
  BY <1>0, <1>1, <1>2, <1>3, <1>4, <1>5, <1>6, <1>7, <1>8, <1>9, <1>10, <1>11, <1>12,
     <1>13, <1>14 DEF ServerNext, ThreadStep, GrpcStep

(* Whatever calls, stops and losses there are, every variable keeps its    *)
(* type; above all no second call data waits for calls of one method.      *)
(* (SchedulerServer.h:45-62)                                               *)
THEOREM ServerTypeCorrect == ServerSpec => []ServerTypeOK
<1>1. ServerInv => ServerTypeOK
  BY DEF ServerInv
<1> QED
  BY ServerInitInv, ServerStep, <1>1, PTL DEF ServerSpec

(* The server always listens: a method with no call to look at has a call  *)
(* data that waits for one, as long as the server is up.                   *)
(* (SchedulerServerCallDataTryFetchUrls.cpp:20-33)                         *)
THEOREM ServerListens == ServerSpec => []Listening
<1>1. ServerInv => Listening
  BY DEF ServerInv
<1> QED
  BY ServerInitInv, ServerStep, <1>1, PTL DEF ServerSpec

(* The scheduler sees a call at most once, and saw one that was answered.  *)
(* (SchedulerServerCallDataOnFetched.cpp:14-33)                            *)
THEOREM CallsOnce == ServerSpec => []HandledOnce
<1>1. ServerInv => HandledOnce
  BY DEF ServerInv, Counted, HandledOnce
<1> QED
  BY ServerInitInv, ServerStep, <1>1, PTL DEF ServerSpec
=============================================================================
