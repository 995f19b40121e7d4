------------------------------ MODULE Contentd ------------------------------
(***************************************************************************)
(* The programs: how their parts are put together, started and, in a dry   *)
(* run, ended.                                                             *)
(*   bin/contentd   a scheduler, a page database, a worker and the API,    *)
(*   bin/sched      a scheduler, a page database and the API,              *)
(*   bin/workd      a page database and a worker that asks by RPC,         *)
(*   scheduler/default/Scheduler, worker/Worker, api/v1/APIv1Wrap and      *)
(*   api/v1/APIv1                               what they start and end.   *)
(*                                                                         *)
(* What a visit or a result is does not matter here: visits are counted,   *)
(* results told apart by the counter they go to.  What runs beside the     *)
(* main thread is the merge thread of UrlsDaysDb, the loops and the HTTP   *)
(* thread (one, external), each a step at a time, and the API's threads.   *)
(* Nothing stops a program that is not a dry run: its main thread stays in *)
(* join().  The ends of the databases are in the modules about them.       *)
(***************************************************************************)
EXTENDS Naturals

CONSTANTS
  MockKafka,   \* Scheduler's _mock_kafka: does it write to KafkaStaticSim?
  Routes,      \* how many routes the API has
  MaxVisits,   \* bound: visits in the topic
  MaxRecords   \* bound: records of the global fetch queue, those fetched included

ASSUME ProgramsAssumption ==
  /\ MockKafka \in BOOLEAN
  /\ {Routes, MaxVisits, MaxRecords} \subseteq Nat

Kind == {"success", "fail", "robots_success", "robots_fail"}
Program == {"contentd", "sched", "workd"}

VARIABLES
  program, dry,  \* what was started, and how
  main,          \* where the main thread is
  topic,         \* visits not read yet
  queue,         \* UrlsDaysDb::m_q
  days,          \* visits merged into UrlsDaysDb::m_urls_days
  merge,         \* where _mergeThread is
  batch,         \* upd_urls_days_local
  finished,      \* m_merge_finished
  filled,        \* m_loaded_uts_count
  gfq,           \* records in the topic of the global fetch queue
  sim,           \* records in KafkaStaticSim
  requests,      \* URLs the HTTP client was given
  http,          \* where the HTTP thread is, and the kind of its result
  worker,        \* FetchLoop's counters
  scheduler,     \* Scheduler's counters
  stats,         \* m_sched_stats: the worker's counters, as they were read
  api,           \* where APIv1's thread, _setupServer, is
  routes,        \* how many routes m_routes has
  lost,          \* how many it had before the constructor made it empty
  served,        \* how many routes m_srv has
  query,         \* where the QueryLoop thread is
  ret            \* what operator() returns

mergeVars == <<queue, days, merge, batch, finished>>
fetchVars == <<gfq, sim, requests, http, worker, scheduler>>
apiVars == <<api, routes, lost, served, query>>
vars == <<program, dry, main, topic, mergeVars, filled, fetchVars, stats, apiVars, ret>>

HasScheduler == program \in {"contentd", "sched"}
HasWorker == program \in {"contentd", "workd"}
Running == main \notin {"ended", "terminated"}
Zero == [k \in Kind |-> 0]

TypeOK ==
  /\ program \in Program /\ dry \in BOOLEAN
  /\ main \in {"load", "wait_days", "fill", "wait_freq", "enqueue", "page_db", "worker", "api",
               "routes", "keys", "worker_stats", "scheduler_stats", "start", "join",
               "returned", "join_query", "stop_server", "join_server", "ended",
               "terminated"}
  /\ topic \in Nat /\ queue \in Nat /\ days \in Nat /\ batch \in Nat
  /\ merge \in {"sleep", "dequeue", "merge"}
  /\ finished \in BOOLEAN
  /\ filled \in Nat
  /\ gfq \in Nat /\ sim \in Nat /\ requests \in Nat
  /\ http \in [at : {"idle", "url_db", "host_db", "crawled_db", "stats", "save"}, kind : Kind]
  /\ worker \in [Kind -> Nat] /\ scheduler \in [Kind -> Nat]
  /\ stats \in [Kind -> Nat]
  /\ api \in {"none", "routes", "register", "listening", "ended"}
  /\ routes \in 0..Routes /\ lost \in 0..Routes /\ served \in 0..Routes
  /\ query \in {"none", "running", "ended"}
  /\ ret \in 0..1

\* The databases are open (those of days may have been filled before), their merge
\* threads run; the main thread is past them in Scheduler's constructor.
Init ==
  /\ program \in Program /\ dry \in BOOLEAN
  /\ main = CASE program = "workd" -> "page_db"
              [] program # "workd" /\ dry -> "load"
              [] OTHER -> "fill"
  /\ topic \in 0..MaxVisits
  /\ queue = 0 /\ days \in 0..1 /\ merge = "sleep" /\ batch = 0 /\ finished = FALSE
  /\ filled = 0
  /\ gfq \in 0..MaxRecords /\ sim = 0 /\ requests = 0
  /\ http = [at |-> "idle", kind |-> "success"]
  /\ worker = Zero /\ scheduler = Zero
  /\ stats = Zero
  /\ api = "none" /\ routes = 0 /\ lost = 0 /\ served = 0 /\ query = "none"
  /\ ret = 0

-----------------------------------------------------------------------------
(***************************************************************************)
(* UrlsDaysDb::_mergeThread, one round: _mergeEventsFromQueue, then sleep. *)
(***************************************************************************)
\* The merge thread sleeps for seconds between two rounds: a main thread that waits
\* and may go on does so before the next.
Timely == ~(main = "wait_days" /\ finished)

SetMergeStarted ==
  /\ HasScheduler /\ Running /\ merge = "sleep" /\ Timely
  /\ merge' = "dequeue"
  /\ finished' = FALSE
  /\ UNCHANGED <<program, dry, main, topic, queue, days, batch, filled, fetchVars, stats, apiVars, ret>>

\* A round that finds no visit, or only visits too old to be kept (UrlsDays::add),
\* returns without _setMergeFinished.
EmptyRoundFinished == finished' = TRUE
EmptyRound == UNCHANGED finished

Dequeue ==
  /\ merge = "dequeue"
  /\ queue' = 0 /\ batch' \in 0..queue
  /\ \/ batch' = 0 /\ merge' = "sleep" /\ EmptyRound
     \/ batch' > 0 /\ merge' = "merge" /\ UNCHANGED finished
  /\ UNCHANGED <<program, dry, main, topic, days, filled, fetchVars, stats, apiVars, ret>>

SetMergeFinishedNot == UNCHANGED finished
SetMergeFinished == finished' = TRUE

Merge ==
  /\ merge = "merge"
  /\ days' = days + batch /\ batch' = 0
  /\ SetMergeFinished
  /\ merge' = "sleep"
  /\ UNCHANGED <<program, dry, main, topic, queue, filled, fetchVars, stats, apiVars, ret>>

-----------------------------------------------------------------------------
(***************************************************************************)
(* The main thread: Scheduler::Scheduler ...                               *)
(***************************************************************************)
\* LoadLoop::_loopImpl reads a visit: in the dry run until the topic is empty
\* (dont_block), else in its own thread.
Load ==
  /\ topic > 0
  /\ topic' = topic - 1
  /\ queue' = queue + 1

LoadDry ==
  /\ main = "load" /\ Load
  /\ UNCHANGED <<program, dry, main, days, merge, batch, finished, filled, fetchVars, stats, apiVars, ret>>

Goto(pc) ==
  /\ main' = pc
  /\ UNCHANGED <<program, dry, topic, mergeVars>>

LoadEnd == main = "load" /\ topic = 0 /\ Goto("wait_days") /\ UNCHANGED <<filled, fetchVars, stats, apiVars, ret>>

WaitMerged ==
  /\ main = "wait_days" /\ finished
  /\ Goto("fill")
  /\ UNCHANGED <<filled, fetchVars, stats, apiVars, ret>>

\* _fillUrlFreqStats.
Fill ==
  /\ main = "fill"
  /\ filled' = days
  /\ Goto(IF dry THEN "wait_freq" ELSE "page_db")
  /\ UNCHANGED <<fetchVars, stats, apiVars, ret>>

\* UrlFreqStatsLF's waitMerged is that of misc::MergeQueue (external): it ends when
\* something was inserted before it, which is how all its callers use it, and else
\* waits for ever.
WaitFreqMerged ==
  /\ main = "wait_freq" /\ filled > 0
  /\ Goto("enqueue")
  /\ UNCHANGED <<filled, fetchVars, stats, apiVars, ret>>

\* m_enqueue_loop->_loopImpl(): the queue it writes to is the mock's if it is one.
Records ==
  gfq + sim + requests + worker["success"] + worker["fail"]
    + worker["robots_success"] + worker["robots_fail"]

Push(n) ==
  IF MockKafka
  THEN sim' = sim + n /\ UNCHANGED gfq
  ELSE gfq' = gfq + n /\ UNCHANGED sim

EnqueueDry ==
  /\ main = "enqueue"
  /\ \E n \in 0..MaxRecords : n + Records <= MaxRecords /\ Push(n)
  /\ Goto("page_db")
  /\ UNCHANGED <<filled, requests, http, worker, scheduler, stats, apiVars, ret>>

-----------------------------------------------------------------------------
(***************************************************************************)
(* ... then operator() of the program.                                     *)
(***************************************************************************)
\* sched and workd have Scylla's; an unknown one ends contentd by an exception.
MakePageDb ==
  /\ main = "page_db"
  /\ \/ Goto(IF HasWorker THEN "worker" ELSE "api")
     \/ program = "contentd" /\ Goto("terminated")
  /\ UNCHANGED <<filled, fetchVars, stats, apiVars, ret>>

\* A dry Worker reads the simulated queue once, in its constructor.
MakeWorker ==
  /\ main = "worker"
  /\ IF dry THEN requests' = requests + sim /\ sim' = 0 ELSE UNCHANGED <<requests, sim>>
  /\ Goto(IF program = "contentd" THEN "api" ELSE "start")
  /\ UNCHANGED <<filled, gfq, http, worker, scheduler, stats, apiVars, ret>>

\* APIv1::APIv1 starts the thread; m_routes, declared after it, is constructed, empty,
\* when the thread may have pushed routes already; the keys come last.
MakeApi ==
  /\ main = "api"
  /\ api' = "routes"
  /\ Goto("routes")
  /\ UNCHANGED <<filled, fetchVars, stats, routes, lost, served, query, ret>>

ConstructRoutes ==
  /\ main = "routes"
  /\ routes' = 0 /\ lost' = routes
  /\ Goto("keys")
  /\ UNCHANGED <<filled, fetchVars, stats, api, served, query, ret>>

\* The keys are stored, APIv1Wrap starts the QueryLoop.  Only contentd has its dry
\* run end here.
FillKeys ==
  /\ main = "keys"
  /\ query' = "running"
  /\ Goto(IF dry /\ program = "contentd" THEN "worker_stats" ELSE "start")
  /\ UNCHANGED <<filled, fetchVars, stats, api, routes, lost, served, ret>>

\* The worker's counters are read first, the scheduler's when more results may have
\* come: isStatsEqual() compares the two, isStatsAnyOk() looks at the first.
WorkerStats ==
  /\ main = "worker_stats"
  /\ stats' = worker
  /\ Goto("scheduler_stats")
  /\ UNCHANGED <<filled, fetchVars, apiVars, ret>>

SchedulerStats ==
  /\ main = "scheduler_stats"
  /\ ret' = IF stats = scheduler /\ (stats["success"] # 0 \/ stats["robots_success"] # 0)
             THEN 0 ELSE 1
  /\ Goto("returned")
  /\ UNCHANGED <<filled, fetchVars, stats, apiVars>>

\* The loops' threads are started; join() never returns.
Start ==
  /\ main = "start"
  /\ Goto("join")
  /\ UNCHANGED <<filled, fetchVars, stats, apiVars, ret>>

\* The members of Contentd are destroyed.  ~APIv1Wrap stops and joins the QueryLoop,
Destroy ==
  /\ \/ main = "returned" /\ Goto("join_query")
     \/ main = "join_query" /\ query = "ended" /\ Goto("stop_server")
  /\ UNCHANGED <<filled, fetchVars, stats, apiVars, ret>>

\* ~APIv1 stops the server: there may be none yet, or one that does not listen yet
\* and will not notice; then it joins the thread.
StopServer ==
  /\ main = "stop_server"
  /\ \/ api = "routes" /\ Goto("terminated") /\ UNCHANGED api
     \/ api # "routes" /\ Goto("join_server")
        /\ api' = IF api = "listening" THEN "ended" ELSE api
  /\ UNCHANGED <<filled, fetchVars, stats, routes, lost, served, query, ret>>

JoinServer ==
  /\ main = "join_server" /\ api = "ended"
  /\ Goto("ended")
  /\ UNCHANGED <<filled, fetchVars, stats, apiVars, ret>>

Main ==
  \/ LoadDry \/ LoadEnd \/ WaitMerged \/ Fill \/ WaitFreqMerged \/ EnqueueDry
  \/ MakePageDb \/ MakeWorker \/ MakeApi \/ ConstructRoutes \/ FillKeys
  \/ WorkerStats \/ SchedulerStats \/ Start
  \/ Destroy \/ StopServer \/ JoinServer

-----------------------------------------------------------------------------
(***************************************************************************)
(* The API's threads.                                                      *)
(***************************************************************************)
Others == <<program, dry, topic, mergeVars, filled, fetchVars, stats, ret>>

\* A push into a vector that is not constructed works as if it were, or ends the
\* process.
PushRoute ==
  /\ Running /\ api = "routes" /\ routes + lost < Routes
  /\ \/ routes' = routes + 1 /\ UNCHANGED main
     \/ main = "routes" /\ main' = "terminated" /\ UNCHANGED routes
  /\ UNCHANGED <<Others, api, lost, served, query>>

\* m_srv is made, the routes of m_routes are registered one by one, it listens.
MakeServer ==
  /\ Running /\ api = "routes" /\ routes + lost = Routes
  /\ api' = "register"
  /\ UNCHANGED <<Others, main, routes, lost, served, query>>

AllRegistered == served >= routes

RegisterRoute ==
  /\ Running /\ api = "register" /\ ~AllRegistered
  /\ served' = served + 1
  /\ UNCHANGED <<Others, main, api, routes, lost, query>>

Listen ==
  /\ Running /\ api = "register" /\ AllRegistered
  /\ api' = "listening"
  /\ UNCHANGED <<Others, main, routes, lost, served, query>>

\* The QueryLoop goes round; when it is stopped, a last round.
StopQuery == main = "join_query"

EndQuery ==
  /\ Running /\ query = "running" /\ StopQuery
  /\ query' = "ended"
  /\ UNCHANGED <<Others, main, api, routes, lost, served>>

ApiThread == PushRoute \/ MakeServer \/ RegisterRoute \/ Listen

-----------------------------------------------------------------------------
(***************************************************************************)
(* The loops' threads.                                                     *)
(***************************************************************************)
LoadLoop ==
  /\ HasScheduler /\ main = "join" /\ Load
  /\ UNCHANGED <<program, dry, main, days, merge, batch, finished, filled, fetchVars, stats, apiVars, ret>>

EnqueueLoop ==
  /\ HasScheduler /\ main = "join"
  /\ \E n \in 0..MaxRecords : n + Records <= MaxRecords /\ Push(n)
  /\ UNCHANGED <<program, dry, main, topic, mergeVars, filled, requests, http, worker,
                 scheduler, stats, apiVars, ret>>

\* Worker::loop: what it reads is requested, sooner or later; a dry one reads the mock.
FetchRecord ==
  /\ HasWorker /\ main = "join"
  /\ \/ ~dry /\ gfq > 0 /\ gfq' = gfq - 1 /\ UNCHANGED sim
     \/ dry /\ sim > 0 /\ sim' = sim - 1 /\ UNCHANGED gfq
  /\ requests' = requests + 1
  /\ UNCHANGED <<program, dry, main, topic, mergeVars, filled, http, worker, scheduler, stats, apiVars, ret>>

\* FetchLoop::_onResponse: the worker's counter first ...
Respond(k) ==
  /\ requests > 0 /\ http.at = "idle"
  /\ Running
  /\ requests' = requests - 1
  /\ worker' = [worker EXCEPT ![k] = @ + 1]
  /\ http' = [at |-> "url_db", kind |-> k]
  /\ UNCHANGED <<program, dry, main, topic, mergeVars, filled, gfq, sim, scheduler, stats, apiVars, ret>>

\* ... then Scheduler::onFetched: three databases, then its own counter.  workd calls
\* the scheduler of another process.
CounterOfPages(k) == CASE k = "robots_fail" -> "fail" [] OTHER -> k
Counter(k) == k

IncStats(k) ==
  IF program = "contentd"
  THEN scheduler' = [scheduler EXCEPT ![Counter(k)] = @ + 1]
  ELSE UNCHANGED scheduler

After(at) ==
  CASE at = "url_db" -> "host_db" [] at = "host_db" -> "crawled_db"
    [] at = "crawled_db" -> "stats" [] at = "stats" -> "save" [] at = "save" -> "idle"

OnFetched ==
  /\ http.at # "idle" /\ Running
  /\ IF http.at = "stats" THEN IncStats(http.kind) ELSE UNCHANGED scheduler
  /\ http' = [http EXCEPT !.at = After(http.at)]
  /\ UNCHANGED <<program, dry, main, topic, mergeVars, filled, gfq, sim, requests, worker, stats, apiVars, ret>>

MergeThread == SetMergeStarted \/ Dequeue \/ Merge
HttpThread == OnFetched \/ \E k \in Kind : Respond(k)

Next == Main \/ MergeThread \/ ApiThread \/ EndQuery \/ HttpThread \/ LoadLoop \/ EnqueueLoop \/ FetchRecord

Spec == Init /\ [][Next]_vars

\* The main thread, the merge thread and the API's threads run.
FairSpec == Spec /\ WF_vars(Main) /\ WF_vars(MergeThread) /\ WF_vars(ApiThread) /\ WF_vars(EndQuery)

-----------------------------------------------------------------------------
(* waitMerged() is to "wait to merge real data": a dry run that is past it *)
(* fills the statistics from days that hold visits, never from none        *)
(* because a round of the merge thread found nothing.                      *)
(* (UrlsDaysDb.h:112, UrlsDaysDb.cpp:84-87, SchedulerTester.cpp:32)        *)
FillsMerged ==
  dry /\ HasScheduler /\ main \notin {"load", "wait_days", "fill"} =>
    filled > 0

(* The worker and the scheduler count the same results, kind by kind: they *)
(* differ by the one the HTTP thread has just counted for the worker and   *)
(* is reporting.  (FetchLoop.cpp:89-125, Scheduler.cpp:165-190)            *)
StatsAgree ==
  program = "contentd" =>
    \A k \in Kind :
      worker[k] = scheduler[k] +
        IF http.kind = k /\ http.at \notin {"idle", "save"} THEN 1 ELSE 0

(* A dry run of contentd whose main thread waits for a merge while there   *)
(* are visits being merged, or that is past the wait, comes to its end: it *)
(* returns and destroys what it made, or ends by an exception.  Where      *)
(* nothing is left to merge the wait is for ever: no visit was read, or    *)
(* only old ones, or the merge thread was through with them, and in its    *)
(* next round, before the wait.  So is the API's end when it was stopped   *)
(* before it listened.  (Contentd.cpp:37-102, Scheduler.cpp:75-101,        *)
(* UrlsDaysDb.cpp:46-104, APIv1Wrap.cpp:6-13, APIv1.cpp:66-69)             *)
WillMerge ==
  \/ main = "wait_days" /\ (finished \/ batch > 0)
  \/ main \notin {"load", "wait_days"}

StoppedEarly == main = "join_server" /\ api # "ended"

DryRunEnds ==
  dry /\ program = "contentd" /\ WillMerge ~> ~Running \/ StoppedEarly
=============================================================================
