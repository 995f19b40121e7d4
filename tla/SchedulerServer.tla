--------------------------- MODULE SchedulerServer ---------------------------
(***************************************************************************)
(* The server side of the scheduler's RPC and the calls of its clients:    *)
(*   scheduler/rpc/SchedulerServer              the thread and its owner,  *)
(*   scheduler/rpc/SchedulerServerCallData*     one object per call,       *)
(*   scheduler/rpc/SchedulerClient              the workers' calls.        *)
(*                                                                         *)
(* gRPC is external: a call is matched with a call data registered for its *)
(* method, its tag is then in the completion queue; Finish answers the     *)
(* call and puts the tag there once more; Server::Shutdown refuses calls,  *)
(* returns the tags that wait with ok = FALSE and blocks until every call  *)
(* matched before is over; ServerNext of a queue that is shut down and drained   *)
(* leaves tag and ok what they were.  The clients set no deadline.         *)
(***************************************************************************)
EXTENDS Naturals

CONSTANTS
  Call,     \* the calls of the workers
  Method,   \* the methods of the service
  MethodOf  \* the method of each call

ASSUME CallsAssumption == MethodOf \in [Call -> Method]

VARIABLES
  running,    \* m_running; before the constructor sets it, what memory held
  owner,      \* where the thread that owns the object is
  th,         \* where m_th is: SchedulerServer::_thread
  waiting,    \* call datas registered, no call yet, by method
  cancelled,  \* tags in the queue with ok = FALSE, by method
  ok,         \* the ok of the last tag taken
  server,     \* each call as the server has it
  client,     \* each call as its client has it
  handled     \* history: how often the scheduler was called for each

threadVars == <<th, ok>>
dataVars == <<waiting, cancelled>>
callVars == <<server, client, handled>>
serverVars == <<running, owner, threadVars, dataVars, callVars>>

NoCall == [m \in Method |-> 0]
Shut == owner \in {"shutdown", "closing", "joining", "gone"}
CqShut == owner \in {"closing", "joining", "gone"}
Alive == owner \notin {"gone", "crashed"}

ServerTypeOK ==
  /\ running \in BOOLEAN /\ ok \in BOOLEAN
  /\ owner \in {"constructing", "alive", "shutdown", "closing", "joining", "gone", "crashed"}
  /\ th \in {"starting", "instate", "test", "next", "handling", "ended"}
  /\ waiting \in [Method -> 0..1]
  /\ cancelled \in [Method -> Nat]
  /\ server \in [Call -> {"none", "sent", "matched", "handling", "finished", "freed"}]
  /\ client \in [Call -> {"idle", "waiting", "answered", "failed"}]
  /\ handled \in [Call -> Nat]

\* m_th is started by the initialiser list, before m_running{true} is reached.
ServerInit ==
  /\ running \in BOOLEAN
  /\ owner = "constructing" /\ th = "starting"
  /\ waiting = NoCall /\ cancelled = NoCall /\ ok \in BOOLEAN
  /\ server = [c \in Call |-> "none"]
  /\ client = [c \in Call |-> "idle"]
  /\ handled = [c \in Call |-> 0]

-----------------------------------------------------------------------------
(***************************************************************************)
(* The thread.                                                             *)
(***************************************************************************)
\* BuildAndStart gives nothing when the address is taken: the process ends when the
\* first call data, or stop(), asks that server.
Build ==
  /\ Alive /\ th = "starting"
  /\ \/ th' = "instate" /\ UNCHANGED owner
     \/ owner' = "crashed" /\ UNCHANGED th
  /\ UNCHANGED <<running, ok, dataVars, callVars>>

\* A new call data asks for the next call of its method; a server that is shut
\* down gives its tag back at once.
Add(count, M) == [m \in Method |-> IF m \in M THEN count[m] + 1 ELSE count[m]]

Register(M) ==
  IF Shut
  THEN cancelled' = Add(cancelled, M) /\ UNCHANGED waiting
  ELSE waiting' = Add(waiting, M) /\ UNCHANGED cancelled

\* Asking with a completion queue that is shut down ends the process.
InstateAllCallDatas ==
  /\ Alive /\ th = "instate"
  /\ IF CqShut
     THEN owner' = "crashed" /\ UNCHANGED <<dataVars, th>>
     ELSE Register(Method) /\ th' = "test" /\ UNCHANGED owner
  /\ UNCHANGED <<running, ok, callVars>>

TestRunning ==
  /\ Alive /\ th = "test"
  /\ th' = IF running THEN "next" ELSE "ended"
  /\ UNCHANGED <<running, owner, ok, dataVars, callVars>>

\* Proceed in state PROCESS: first a new call data for the next call ...
NewCallDataNot(c) == UNCHANGED dataVars
NewCallData(c) == Register({MethodOf[c]})

NextCall(c) ==
  /\ Alive /\ th = "next" /\ server[c] = "matched"
  /\ ok' = TRUE
  /\ IF running
     THEN /\ th' = "handling"
          /\ server' = [server EXCEPT ![c] = "handling"]
          /\ NewCallData(c)
     ELSE th' = "test" /\ UNCHANGED <<server, dataVars>>
  /\ UNCHANGED <<running, owner, client, handled>>

\* ... then the scheduler is called, and the answer sent.
Proceed(c) ==
  /\ Alive /\ th = "handling" /\ server[c] = "handling"
  /\ handled' = [handled EXCEPT ![c] = @ + 1]
  /\ server' = [server EXCEPT ![c] = "finished"]
  /\ client' = [client EXCEPT ![c] = IF @ = "waiting" THEN "answered" ELSE @]
  /\ th' = "test"
  /\ UNCHANGED <<running, owner, ok, dataVars>>

\* Proceed in state FINISH deletes the call data.
AfterFinishAgain(c) == [server EXCEPT ![c] = "matched"]
AfterFinish(c) == [server EXCEPT ![c] = "freed"]

NextFinished(c) ==
  /\ Alive /\ th = "next" /\ server[c] = "finished"
  /\ ok' = TRUE
  /\ server' = IF running THEN AfterFinish(c) ELSE server
  /\ th' = "test"
  /\ UNCHANGED <<running, owner, dataVars, client, handled>>

NextCancelled ==
  /\ Alive /\ th = "next"
  /\ \E m \in Method :
       /\ cancelled[m] > 0
       /\ cancelled' = [cancelled EXCEPT ![m] = @ - 1]
  /\ ok' = FALSE
  /\ th' = "test"
  /\ UNCHANGED <<running, owner, waiting, callVars>>

\* ServerNext of the drained queue fails at once: while m_running is still set, and the
\* last tag was a deleted call data, Proceed is called on it again.
NextDrained ==
  /\ Alive /\ th = "next" /\ CqShut /\ cancelled = NoCall
  /\ \A c \in Call : server[c] \notin {"matched", "finished"}
  /\ \/ th' = "test" /\ UNCHANGED owner
     \/ running /\ ok /\ owner' = "crashed" /\ UNCHANGED th
  /\ UNCHANGED <<running, ok, dataVars, callVars>>

-----------------------------------------------------------------------------
(***************************************************************************)
(* The owner: the constructor, stop() and the destructor.                  *)
(***************************************************************************)
Construct ==
  /\ owner = "constructing"
  /\ owner' = "alive" /\ running' = TRUE
  /\ UNCHANGED <<threadVars, dataVars, callVars>>

\* server_->Shutdown(), where there is a server_ yet.
Stop ==
  /\ owner = "alive"
  /\ IF th = "starting"
     THEN owner' = "crashed" /\ UNCHANGED <<dataVars, callVars>>
     ELSE /\ owner' = "shutdown"
          /\ cancelled' = Add(cancelled, {m \in Method : waiting[m] = 1})
          /\ waiting' = NoCall
          /\ server' = [c \in Call |-> IF server[c] = "sent" THEN "freed" ELSE server[c]]
          /\ client' = [c \in Call |-> IF server[c] = "sent" /\ client[c] = "waiting"
                                        THEN "failed" ELSE client[c]]
          /\ UNCHANGED handled
  /\ UNCHANGED <<running, threadVars>>

\* Shutdown returns when the calls are over; cq_->Shutdown().
Over(c) == server[c] \in {"none", "freed"}

Close ==
  /\ owner = "shutdown"
  /\ \A c \in Call : Over(c)
  /\ owner' = "closing"
  /\ UNCHANGED <<running, threadVars, dataVars, callVars>>

StopRunningNot ==
  /\ owner = "closing"
  /\ owner' = "joining"
  /\ UNCHANGED <<running, threadVars, dataVars, callVars>>

StopRunning ==
  /\ owner = "closing"
  /\ owner' = "joining" /\ running' = FALSE
  /\ UNCHANGED <<threadVars, dataVars, callVars>>

Join ==
  /\ owner = "joining" /\ th = "ended"
  /\ owner' = "gone"
  /\ UNCHANGED <<running, threadVars, dataVars, callVars>>

-----------------------------------------------------------------------------
(***************************************************************************)
(* The clients.                                                            *)
(***************************************************************************)
Serving == Alive /\ th # "starting" /\ ~Shut

\* A call fails at once where no server listens.
Send(c) ==
  /\ client[c] = "idle"
  /\ \/ /\ Serving
        /\ client' = [client EXCEPT ![c] = "waiting"]
        /\ server' = [server EXCEPT ![c] = "sent"]
     \/ /\ ~Serving
        /\ client' = [client EXCEPT ![c] = "failed"]
        /\ UNCHANGED server
  /\ UNCHANGED <<running, owner, threadVars, dataVars, handled>>

MatchCall(c) ==
  /\ Serving /\ server[c] = "sent" /\ waiting[MethodOf[c]] > 0
  /\ server' = [server EXCEPT ![c] = "matched"]
  /\ waiting' = [waiting EXCEPT ![MethodOf[c]] = @ - 1]
  /\ UNCHANGED <<running, owner, threadVars, cancelled, client, handled>>

\* The connection is lost: the client has its error, the server goes on.
Lose(c) ==
  /\ client[c] = "waiting"
  /\ client' = [client EXCEPT ![c] = "failed"]
  /\ UNCHANGED <<running, owner, threadVars, dataVars, server, handled>>

-----------------------------------------------------------------------------
ThreadStep ==
  \/ Build \/ InstateAllCallDatas \/ TestRunning
  \/ \E c \in Call : NextCall(c) \/ Proceed(c) \/ NextFinished(c)
  \/ NextCancelled \/ NextDrained

StopStep == Close \/ StopRunning \/ Join

\* gRPC's own step.
GrpcStep == \E c \in Call : MatchCall(c)

ServerNext ==
  \/ ThreadStep
  \/ Construct \/ Stop \/ StopStep
  \/ \E c \in Call : Send(c) \/ Lose(c)
  \/ GrpcStep

ServerSpec == ServerInit /\ [][ServerNext]_serverVars

\* The threads run and gRPC works, whatever the order of the tags and of the calls
\* that wait (each call is made once here, so that none is overtaken for ever).
\* Nobody has to call, nor to stop the server.
FairServerSpec ==
  /\ ServerSpec
  /\ WF_serverVars(ThreadStep) /\ WF_serverVars(Construct) /\ WF_serverVars(StopStep) /\ WF_serverVars(GrpcStep)

-----------------------------------------------------------------------------
(* The thread's first look at m_running came before the constructor had    *)
(* set it, and found FALSE in that memory: nobody serves the calls.        *)
EndedEarly == th = "ended" /\ (running \/ owner = "constructing")

(* The server never goes deaf: while it is up there is, for each method,   *)
(* one call data that waits for a call, or one such that has just got its  *)
(* call, however calls, answers and deletions are mixed.                   *)
(* (SchedulerServerCallDataTryFetchUrls.cpp:12-31)                         *)
Matched(m) == {c \in Call : MethodOf[c] = m /\ server[c] = "matched"}

Listening ==
  Serving /\ th # "instate" =>
    \A m \in Method :
      \/ waiting[m] = 1 /\ Matched(m) = {}
      \/ waiting[m] = 0 /\ \E c \in Call : Matched(m) = {c}

(* A call is given to the scheduler at most once, and one that was         *)
(* answered exactly once, whether its connection lasts or not.  (Proceed's *)
(* three states, SchedulerServerCallDataOnFetched.cpp:12-30)               *)
HandledOnce ==
  \A c \in Call :
    /\ handled[c] <= 1
    /\ client[c] = "answered" => handled[c] = 1

(* A client, which sets no deadline, does not wait for ever: its call is   *)
(* answered or fails - unless the thread ended early.                      *)
(* (SchedulerClient.cpp:28-56, SchedulerServer.cpp:59-71)                  *)
CallsAnswered ==
  \A c \in Call : client[c] = "waiting" ~> (client[c] # "waiting" \/ EndedEarly)

(* stop() and the destructor return, whatever calls are under way - unless *)
(* the thread ended early: its calls are never over, and Shutdown waits    *)
(* for them.  (SchedulerServer.cpp:25-41)                                  *)
StopEnds == owner = "shutdown" ~> (~Alive \/ EndedEarly)

-----------------------------------------------------------------------------
(***************************************************************************)
(* The inductive invariant behind the safety properties.                   *)
(***************************************************************************)
\* Nothing is registered before the thread gets there.
NotYet ==
  th \in {"starting", "instate"} =>
    /\ waiting = NoCall
    /\ \A c \in Call : server[c] # "matched"

\* A call the scheduler has not seen yet is not counted; a client's first and only
\* step starts a call.
Counted ==
  \A c \in Call :
    /\ server[c] \in {"none", "sent", "matched", "handling"} => handled[c] = 0
    /\ handled[c] <= 1
    /\ client[c] = "idle" => server[c] = "none"
    /\ client[c] = "answered" => handled[c] = 1

ServerInv == ServerTypeOK /\ NotYet /\ Counted /\ Listening
=============================================================================
