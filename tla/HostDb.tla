------------------------------- MODULE HostDb -------------------------------
(***************************************************************************)
(* ldb/HostDb.{h,cpp}: the one instance that every fetch has to ask first, *)
(* with the callers that exercise it: the workers' tryFetchUrls and        *)
(* onFetched calls (worker/FetchLoop), carried in process or by            *)
(* scheduler/rpc, and restarts of the scheduler process that holds it.     *)
(*                                                                         *)
(* HostDb is guarded by one mutex.  tryCrawl() decides a batch of records  *)
(* one by one with the mutex held; the steps of that loop are separate     *)
(* actions here, because each reads the clock by itself.                   *)
(***************************************************************************)
EXTENDS HostFreq, FiniteSets

CONSTANTS
  Host,               \* the hosts crawled
  Global,             \* the scope of m_global_freq, not a host
  Page,               \* the paths of pages, the same for every host
  RobotsTxt,          \* the path /robots.txt
  NoRobots,           \* a host without an entry in m_host_robots
  Worker,             \* the worker processes
  Req,                \* the GFQ records read by the workers
  HostOf,             \* [Req -> Host]
  PathOf,             \* [Req -> Page \cup {RobotsTxt}]
  WorkerOf,           \* [Req -> Worker]: the consumer of the record's partition
  MaxSystemParallel,  \* max_system_parallel_crawl: HostDb never reads it
  MaxBatch,           \* fetch_max_requests_in_batch
  MaxTime,            \* bound: the clock
  MaxLost,            \* bound: RPCs lost, and workers that die with a fetch
  MaxRestart          \* bound: restarts of the scheduler

ASSUME HostDbAssumption ==
  /\ Global \notin Host
  /\ IsFiniteSet(Host)
  /\ IsFiniteSet(Req)
  /\ \A rules \in SUBSET Page : rules # NoRobots
  /\ RobotsTxt \notin Page
  /\ HostOf \in [Req -> Host]
  /\ PathOf \in [Req -> Page \cup {RobotsTxt}]
  /\ WorkerOf \in [Req -> Worker]
  /\ MaxBatch \in Nat \ {0}
  /\ {MaxTime, MaxLost, MaxRestart} \subseteq Nat

VARIABLES
  known,      \* the hosts that have an entry in m_host_freq
  freq,       \* m_host_freq, and at Global m_global_freq; not persistent
  robots,     \* m_host_robots: the pages a host's robots.txt disallows
  robotsDb,   \* the leveldb m_db: the same, persistent
  rpc,        \* where each worker's tryFetchUrls call is
  todo,       \* the records of the call that holds the mutex still to decide
  stage,      \* where each record is
  now,        \* the clock
  lost,       \* history: how many RPCs were lost
  restarts,   \* history: how many times the scheduler restarted
  leaked,     \* history: slots taken whose result will never come
  forgotten,  \* history: fetches running since before a restart, less the
              \* results for which there was no slot left to give back
  learned,    \* history: the last robots.txt of each host fetched since the
              \* scheduler started
  before      \* history: the records that were being fetched at the last restart

hostVars == <<known, freq, robots, robotsDb>>
callVars == <<rpc, todo, stage>>
ghosts == <<lost, restarts, leaked, forgotten, learned, before>>
vars == <<known, freq, robots, robotsDb, rpc, todo, stage, now,
          lost, restarts, leaked, forgotten, learned, before>>

Scope == Host \cup {Global}
\* A robots.txt is what it forbids; an empty one allows everything.
Rules == SUBSET Page

Stage == {"queued", "asked", "granted", "fetching", "done"}

InScope(r, s) == s = Global \/ HostOf[r] = s
AtStage(S, s) == {r \in Req : stage[r] \in S /\ InScope(r, s)}
\* The records whose slot is taken and whose fetch will be or is being made.
Holding(s) == AtStage({"granted", "fetching"}, s)
Fetching(s) == AtStage({"fetching"}, s)

MutexFree == \A w \in Worker : rpc[w] # "deciding"

TypeOK ==
  /\ known \subseteq Host
  /\ freq \in [Scope -> Freq]
  /\ robots \in [Host -> {NoRobots} \cup Rules]
  /\ robotsDb \in [Host -> {NoRobots} \cup Rules]
  /\ rpc \in [Worker -> {"idle", "deciding", "replying"}]
  /\ todo \in Seq(Req)
  /\ stage \in [Req -> Stage]
  /\ now \in Nat
  /\ lost \in Nat
  /\ restarts \in Nat
  /\ leaked \in [Scope -> Nat]
  /\ forgotten \in [Scope -> Nat]
  /\ learned \in [Host -> {NoRobots} \cup Rules]
  /\ before \subseteq Req

(***************************************************************************)
(* HostDb::HostDb and _loadRobotsDb: the robots rules of the database, no  *)
(* frequencies.  A scan error is only logged: what was read up to it is    *)
(* kept, and the scheduler starts without the rest.                        *)
(***************************************************************************)
LoadRobotsDb(read) == [h \in Host |-> IF h \in read THEN robotsDb[h] ELSE NoRobots]
NothingLearned == [h \in Host |-> NoRobots]

Init ==
  /\ known = {}
  /\ freq = [s \in Scope |-> NewFreq]
  /\ robotsDb \in [Host -> {NoRobots} \cup Rules]
  /\ \E read \in SUBSET Host : robots = LoadRobotsDb(read)
  /\ rpc = [w \in Worker |-> "idle"]
  /\ todo = <<>>
  /\ stage = [r \in Req |-> "queued"]
  /\ now = 0
  /\ lost = 0
  /\ restarts = 0
  /\ leaked = [s \in Scope |-> 0]
  /\ forgotten = [s \in Scope |-> 0]
  /\ learned = NothingLearned
  /\ before = {}

-----------------------------------------------------------------------------
(***************************************************************************)
(* The decision on one record: HostDb::_tryCrawl.                          *)
(***************************************************************************)
IsAllowedRobots(r) ==
  \/ PathOf[r] = RobotsTxt
  \/ /\ robots[HostOf[r]] # NoRobots
     /\ PathOf[r] \notin robots[HostOf[r]]

IsAllowedFreqHostOnly(h) == h \in known => IsAllowed(freq[h], now)

\* A host seen for the first time is allowed without a look at m_global_freq,
\* and m_global_freq is held against the limits of one host.
IsAllowedFreq(h) ==
  h \in known => IsAllowed(freq[h], now) /\ IsAllowed(freq[Global], now)

SetCrawlingHostOnly(h) ==
  /\ known' = known \cup {h}
  /\ freq' = [freq EXCEPT ![h] = IncCrawling(@, now)]

SetCrawling(h) ==
  /\ known' = known \cup {h}
  /\ freq' = [freq EXCEPT ![h] = IncCrawling(@, now),
                          ![Global] = IncCrawling(@, now)]

Deciding == todo # <<>>

TryCrawlAllow ==
  /\ Deciding
  /\ LET r == Head(todo)
     IN  /\ IsAllowedRobots(r)
         /\ IsAllowedFreq(HostOf[r])
         /\ SetCrawling(HostOf[r])
         /\ stage' = [stage EXCEPT ![r] = "granted"]
  /\ todo' = Tail(todo)
  /\ UNCHANGED <<robots, robotsDb, rpc, now, ghosts>>

\* NEED_ROBOTS, BY_ROBOTS and FREQ are told apart in the log only: the caller
\* gets the allowed records back and nothing else.
TryCrawlRefuse ==
  /\ Deciding
  /\ LET r == Head(todo)
     IN  ~(IsAllowedRobots(r) /\ IsAllowedFreq(HostOf[r]))
  /\ todo' = Tail(todo)
  /\ UNCHANGED <<hostVars, rpc, stage, now, ghosts>>

-----------------------------------------------------------------------------
(***************************************************************************)
(* The callers.                                                            *)
(***************************************************************************)

\* The batches a worker may send: its queued records, each once, in any order.
Batches(w) ==
  LET mine == {r \in Req : stage[r] = "queued" /\ WorkerOf[r] = w}
  IN  {b \in UNION {[1 .. n -> mine] : n \in 1 .. MaxBatch} :
         \A i, j \in DOMAIN b : b[i] = b[j] => i = j}

\* FetchLoop::_sendToCurl: the worker's merge thread calls tryFetchUrls and
\* waits for the answer; the call reaches HostDb::tryCrawl and takes the mutex.
TryFetchUrls(w, b) ==
  /\ rpc[w] = "idle"
  /\ MutexFree
  /\ rpc' = [rpc EXCEPT ![w] = "deciding"]
  /\ todo' = b
  /\ stage' = [r \in Req |-> IF \E i \in DOMAIN b : b[i] = r THEN "asked" ELSE stage[r]]
  /\ UNCHANGED <<hostVars, now, ghosts>>

\* tryCrawl returns: the mutex is released, the reply is on its way.
TryCrawlReturn(w) ==
  /\ rpc[w] = "deciding"
  /\ todo = <<>>
  /\ rpc' = [rpc EXCEPT ![w] = "replying"]
  /\ UNCHANGED <<hostVars, todo, stage, now, ghosts>>

\* What becomes of the records of w's call once it is over.
Settle(w, granted) ==
  [r \in Req |->
     CASE WorkerOf[r] = w /\ stage[r] = "asked"   -> "queued"
       [] WorkerOf[r] = w /\ stage[r] = "granted" -> granted
       [] OTHER                                   -> stage[r]]

\* The worker fetches what was allowed and pushes the rest back on its queue.
Reply(w) ==
  /\ rpc[w] = "replying"
  /\ rpc' = [rpc EXCEPT ![w] = "idle"]
  /\ stage' = Settle(w, "fetching")
  /\ UNCHANGED <<hostVars, todo, now, ghosts>>

\* SchedulerClient::callTryFetchUrlsSync_: a failed call is logged, no record is
\* allowed, and all of them go back on the queue; the slots stay taken.
LoseReply(w) ==
  /\ rpc[w] = "replying"
  /\ lost < MaxLost
  /\ lost' = lost + 1
  /\ rpc' = [rpc EXCEPT ![w] = "idle"]
  /\ stage' = Settle(w, "queued")
  /\ leaked' = [s \in Scope |->
       leaked[s] + Cardinality({r \in AtStage({"granted"}, s) : WorkerOf[r] = w})]
  /\ UNCHANGED <<hostVars, todo, now, restarts, forgotten, learned, before>>

\* The two counters a fetch is counted on.
Scopes(r) == {HostOf[r], Global}

GiveBack(r) ==
  /\ known' = known \cup {HostOf[r]}
  /\ freq' = [freq EXCEPT ![HostOf[r]] = DecCrawling(@), ![Global] = DecCrawling(@)]

\* The robots.txt of h was fetched: kept in memory and, unless the write fails,
\* which is only logged, in the database.
KeepRobotsIfStored(h, rules) ==
  /\ learned' = [learned EXCEPT ![h] = rules]
  /\ \/ /\ robots' = [robots EXCEPT ![h] = rules]
        /\ robotsDb' = [robotsDb EXCEPT ![h] = rules]
     \/ UNCHANGED <<robots, robotsDb>>

KeepRobots(h, rules) ==
  /\ robots' = [robots EXCEPT ![h] = rules]
  /\ robotsDb' \in {robotsDb, [robotsDb EXCEPT ![h] = rules]}
  /\ learned' = [learned EXCEPT ![h] = rules]

\* HostDb::onFetched with the one result FetchLoop::_onResponse reports.
OnFetched(r) ==
  /\ stage[r] = "fetching"
  /\ MutexFree
  /\ GiveBack(r)
  /\ \/ /\ PathOf[r] = RobotsTxt
        /\ \E rules \in Rules : KeepRobots(HostOf[r], rules)
     \/ UNCHANGED <<robots, robotsDb, learned>>
  /\ stage' = [stage EXCEPT ![r] = "done"]
  /\ forgotten' = [s \in Scope |->
       IF s \in Scopes(r) /\ freq[s].crawling = 0
         THEN forgotten[s] - 1 ELSE forgotten[s]]
  /\ UNCHANGED <<rpc, todo, now, lost, restarts, leaked, before>>

\* The OnFetched RPC fails (SchedulerClient::onFetched only logs it), or the
\* worker dies with the fetch.
LoseResult(r) ==
  /\ stage[r] = "fetching"
  /\ lost < MaxLost
  /\ lost' = lost + 1
  /\ stage' = [stage EXCEPT ![r] = "done"]
  /\ leaked' = [s \in Scope |-> IF s \in Scopes(r) THEN leaked[s] + 1 ELSE leaked[s]]
  /\ UNCHANGED <<hostVars, rpc, todo, now, restarts, forgotten, learned, before>>

\* The scheduler process restarts: frequencies are gone, robots rules are
\* loaded again, all or a part of them.  Calls in flight fail, and their records
\* go back to the queues.
Restart ==
  /\ restarts < MaxRestart
  /\ restarts' = restarts + 1
  /\ known' = {}
  /\ freq' = [s \in Scope |-> NewFreq]
  /\ \E read \in SUBSET Host : robots' = LoadRobotsDb(read)
  /\ rpc' = [w \in Worker |-> "idle"]
  /\ todo' = <<>>
  /\ stage' = [r \in Req |->
       IF stage[r] \in {"asked", "granted"} THEN "queued" ELSE stage[r]]
  /\ leaked' = [s \in Scope |-> 0]
  /\ forgotten' = [s \in Scope |-> Cardinality(Fetching(s))]
  /\ learned' = NothingLearned
  /\ before' = Fetching(Global)
  /\ UNCHANGED <<robotsDb, now, lost>>

Tick ==
  /\ now < MaxTime
  /\ now' = now + 1
  /\ UNCHANGED <<hostVars, callVars, ghosts>>

-----------------------------------------------------------------------------
Next ==
  \/ TryCrawlAllow
  \/ TryCrawlRefuse
  \/ \E w \in Worker :
       \/ \E b \in Batches(w) : TryFetchUrls(w, b)
       \/ TryCrawlReturn(w)
       \/ Reply(w)
       \/ LoseReply(w)
  \/ \E r \in Req : OnFetched(r) \/ LoseResult(r)
  \/ Restart
  \/ Tick

Spec == Init /\ [][Next]_vars

(***************************************************************************)
(* Fairness: the decision loop, the RPC threads and the HTTP client run;   *)
(* every request ends, by fetch_request_timeout_secs at the latest.  The   *)
(* mutex is free again and again, not always, hence SF for OnFetched: the  *)
(* workers' merge threads sleep between their calls.  No call is ever      *)
(* promised, nor a restart or a loss.                                      *)
(***************************************************************************)
FairSpec ==
  /\ Spec
  /\ WF_vars(TryCrawlAllow \/ TryCrawlRefuse)
  /\ \A w \in Worker : WF_vars(TryCrawlReturn(w)) /\ WF_vars(Reply(w))
  /\ \A r \in Req : SF_vars(OnFetched(r))

-----------------------------------------------------------------------------
(* m_crawling_now counts, for every host and for the whole system, exactly *)
(* the fetches allowed and not yet reported: a slot is off the count only  *)
(* because a call was lost, or because the scheduler was restarted.        *)
(* (HostDb.cpp:44-45, :216-220; HostFreq.cpp:22-33)                        *)
SlotAccounting ==
  \A s \in Scope :
    freq[s].crawling + forgotten[s] = Cardinality(Holding(s)) + leaked[s]

(* "Do not bring a host down": the fetches of a host running at the same   *)
(* time are at most max_host_parallel_crawl, plus those a restarted        *)
(* scheduler does not know about.  Losing calls never breaks this.         *)
(* (Scheduler.h:20-21, HostFreq.cpp:7)                                     *)
HostParallelBound ==
  \A h \in Host :
    Cardinality(Fetching(h)) <= MaxHostParallel + forgotten[h]

(* The rate limits: of the fetches of a host allowed by one scheduler      *)
(* process, any WindowLimit[w] + 1 in a row span more than the window w.   *)
(* (HostFreq.cpp:10-17, TpSlidWin.cpp:21-26)                               *)
RateLimit == \A h \in Host : Spaced(freq[h])

(* What bounds the whole system in place of max_system_parallel_crawl:     *)
(* the limit of one host, and one more fetch for every further host met    *)
(* since the scheduler started.  (HostDb.cpp:208-214)                      *)
SystemBound ==
  known # {} =>
    Cardinality(Fetching(Global))
      <= MaxHostParallel + Cardinality(known) - 1 + forgotten[Global]

(* No page is let through by a scheduler that does not have the rules of   *)
(* its host, whatever was lost on the way: after a restart that did not    *)
(* bring rules back (they could not be stored, or not be read) nothing of  *)
(* the host is fetched before its robots.txt was fetched anew; and rules   *)
(* that could not be stored are in force all the same while this scheduler *)
(* runs.  Only pages that were on their way at the restart are apart.      *)
(* (HostDb.cpp:24-33, :47-56, :200-204)                                    *)
RobotsInForce ==
  /\ \A r \in Req \ before :
       stage[r] \in {"granted", "fetching"} /\ PathOf[r] # RobotsTxt =>
         robots[HostOf[r]] # NoRobots
  /\ \A h \in Host : learned[h] # NoRobots => robots[h] = learned[h]

-----------------------------------------------------------------------------
(* The inductive invariant behind the five properties above.               *)

\* The records still to decide were asked for once, by the call in the mutex.
CallInv ==
  /\ \A i \in DOMAIN todo :
       stage[todo[i]] = "asked" /\ rpc[WorkerOf[todo[i]]] = "deciding"
  /\ \A i, j \in DOMAIN todo : todo[i] = todo[j] => i = j

\* What is counted: a host the scheduler has not met has no count, and the
\* counts stay below what the guards let through.
CountInv ==
  /\ \A h \in Host : h \notin known => freq[h] = NewFreq
  /\ \A h \in Host : freq[h].crawling <= MaxHostParallel
  /\ IF known = {}
       THEN freq[Global].crawling = 0
       ELSE freq[Global].crawling <= MaxHostParallel + Cardinality(known) - 1

\* Of every window, only expired points were popped.
WindowInv == \A s \in Scope : PoppedExpired(freq[s], now)

IInv ==
  /\ TypeOK
  /\ CallInv
  /\ CountInv
  /\ SlotAccounting
  /\ WindowInv
  /\ RateLimit
  /\ RobotsInForce

-----------------------------------------------------------------------------
(* "Do not bring ourselves down (max system crawl)", Scheduler.h:22: the   *)
(* limit sched_max_system_parallel_crawl on the fetches running at the     *)
(* same time.                                                              *)
SystemParallelLimit == Cardinality(Fetching(Global)) <= MaxSystemParallel

(* "persistent", HostDb.h:45, of m_host_robots: rules once known stay known *)
(* when the scheduler is restarted.                                        *)
RobotsPersistent ==
  [][\A h \in Host : robots[h] # NoRobots => robots'[h] # NoRobots]_robots

(* A host that has all its slots taken gets one back, unless a call was    *)
(* lost: the retries of refused records cannot keep the results out.       *)
(* (FetchLoop.h:130-135 against HostDb.cpp:37-58)                          *)
HostRecovers ==
  \A h \in Host :
    freq[h].crawling >= MaxHostParallel ~>
      freq[h].crawling < MaxHostParallel \/ leaked[h] > 0
=============================================================================
