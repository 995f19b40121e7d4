------------------------------ MODULE Enqueue ------------------------------
(***************************************************************************)
(* How a URL gets into the global fetch queue and its result back:         *)
(*   scheduler/default/EnqueueLoop*  the thread that chooses what to push, *)
(*   ldb/UrlDb*                      the attempts, and their snapshots,    *)
(*   ldb/HostDb                      the robots rules the choice looks at, *)
(*   the Kafka topic global_fetch_queue and the workers behind it, and     *)
(*   Scheduler::onFetched            which takes the results back.         *)
(*                                                                         *)
(* UrlDb and HostDb have a mutex each; what the threads do between two     *)
(* critical sections can interleave.  When a fetch may start is the        *)
(* subject of HostDb: here a record is fetched sooner or later.  The       *)
(* ranking does not change.                                                *)
(***************************************************************************)
EXTENDS CrawlAttempts, Bags

CONSTANTS
  Page,        \* the URLs of pages
  Robots,      \* the URLs of robots.txt, one for each host
  RobotsOf,    \* [Page -> Robots]
  Visit,       \* the URLs visited, as they are spelled in the visits
  Normal,      \* [Visit -> Url], UrlParsed::normalized
  Top,         \* the visits in the order of UrlFreqStats, most frequent first
  NoRobots,    \* a host without an entry in m_host_robots
  Rules,       \* the contents of robots.txt: the sets of pages they disallow
  Target,      \* what _calcToEnqueueNow can ask for
  Outcome,     \* what a fetch can end with
  MaxTime,     \* bound: the clock
  MaxLost,     \* bound: records whose result never comes
  MaxRestart   \* bound: restarts of the scheduler

Url == Page \cup Robots

\* What the loop's lists hold: a visited URL, or a robots.txt that is needed.
Item == Visit \cup Robots
UrlOf(i) == IF i \in Visit THEN Normal[i] ELSE i
Urls(S) == {UrlOf(i) : i \in S}

ASSUME EnqueueAssumption ==
  /\ Page \cap Robots = {}
  /\ Visit \cap Robots = {}
  /\ IsFiniteSet(Item)
  /\ RobotsOf \in [Page -> Robots]
  /\ Normal \in [Visit -> Url]
  /\ Top \in Seq(Visit)
  /\ Rules \subseteq SUBSET Page
  /\ NoRobots \notin Rules
  /\ Target \subseteq Nat \ {0}
  /\ Outcome \subseteq Status
  /\ {MaxTime, MaxLost, MaxRestart} \subseteq Nat

VARIABLES
  attempts,    \* UrlDb::m_url_crawl_attempts
  attemptsDb,  \* the leveldb m_attempts_db
  snap,        \* _snapData's copy: the lists it has not written yet
  robots,      \* HostDb::m_host_robots
  robotsDb,    \* the leveldb HostDb::m_db
  pc,          \* where the EnqueueLoop thread is
  target,      \* push_target
  top,         \* top_cur
  checkNow,    \* the "now" of _needCrawlUrls
  batch,       \* what is considered, needed, and then pushed
  pushTp,      \* attempt_tp
  pushed,      \* what of batch is pushed so far
  gfq,         \* the records in the topic and with the workers, a bag
  keeping,     \* robots.txt results UrlDb has seen and HostDb has not, a bag
  now,         \* the clock
  lastPush,    \* history: when each URL was last pushed, as far as UrlDb knows
  lastOk,      \* history: the attempt the last result was put down to, if OK
  raced,       \* history: the URLs whose last result, an OK, came while they
               \* were being pushed
  torn,        \* history: robots.txt whose rules HostDb knew, or was about to,
               \* before a restart, and has not since
  lost,        \* history: how many records were lost
  restarts     \* history: how many times the scheduler restarted

dbVars == <<attempts, attemptsDb, snap>>
hostVars == <<robots, robotsDb>>
loopVars == <<pc, target, top, checkNow, batch, pushTp, pushed>>
queueVars == <<gfq, keeping>>
vars == <<attempts, attemptsDb, snap, robots, robotsDb, pc, target, top, checkNow, batch,
          pushTp, pushed, gfq, keeping, now, lastPush, lastOk, raced, torn,
          lost, restarts>>

Record == [url : Url, ts : Nat]

TypeOK ==
  /\ attempts \in [Url -> CrawlAttempts]
  /\ attemptsDb \in [Url -> CrawlAttempts]
  /\ snap \in [Url -> CrawlAttempts]
  /\ robots \in [Robots -> {NoRobots} \cup Rules]
  /\ robotsDb \in [Robots -> {NoRobots} \cup Rules]
  /\ pc \in {"sleep", "filter", "need", "push"}
  /\ target \in Nat /\ top \in Nat
  /\ checkNow \in Nat /\ pushTp \in Nat /\ now \in Nat
  /\ batch \subseteq Item /\ pushed \subseteq batch
  /\ BagToSet(gfq) \subseteq Record
  /\ BagToSet(keeping) \subseteq Robots
  /\ lastPush \in [Url -> SUBSET Nat]
  /\ lastOk \in [Url -> SUBSET Nat]
  /\ raced \subseteq Url /\ torn \subseteq Robots
  /\ lost \in Nat /\ restarts \in Nat

\* UrlDb::UrlDb and HostDb::HostDb on empty databases; the loop sleeps.
Init ==
  /\ attempts = [u \in Url |-> <<>>]
  /\ attemptsDb = [u \in Url |-> <<>>]
  /\ snap = [u \in Url |-> <<>>]
  /\ robots = [u \in Robots |-> NoRobots]
  /\ robotsDb = robots
  /\ pc = "sleep"
  /\ target = 0 /\ top = 0 /\ checkNow = 0 /\ pushTp = 0
  /\ batch = {} /\ pushed = {}
  /\ gfq = EmptyBag /\ keeping = EmptyBag
  /\ now = 0
  /\ lastPush = [u \in Url |-> {}]
  /\ lastOk = [u \in Url |-> {}]
  /\ raced = {} /\ torn = {}
  /\ lost = 0 /\ restarts = 0

-----------------------------------------------------------------------------
(***************************************************************************)
(* The EnqueueLoop thread.                                                 *)
(***************************************************************************)

\* The loop goes to sleep, or is not started yet: its local variables are gone.
Sleep ==
  /\ pc' = "sleep"
  /\ target' = 0 /\ top' = 0 /\ checkNow' = 0 /\ pushTp' = 0
  /\ batch' = {} /\ pushed' = {}

\* _loopImpl and searchTop start: the top is first as long as the target.
StartLoop ==
  /\ pc = "sleep"
  /\ \E t \in Target : target' = t /\ top' = t
  /\ pc' = "filter"
  /\ UNCHANGED <<dbVars, hostVars, checkNow, batch, pushTp, pushed, queueVars, now,
                 lastPush, lastOk, raced, torn, lost, restarts>>

TopVisits == {Top[i] : i \in {j \in DOMAIN Top : j <= top}}

Known(p) == robots[RobotsOf[p]] # NoRobots
IsAllowedRobots(p) == Known(p) /\ p \notin robots[RobotsOf[p]]

\* HostDb::leaveAllowedByRobots on the top: what is allowed - a robots.txt always
\* is - and the robots.txt needed for the others, each once (reduceUrlFreqs).
\* What is allowed goes on under its normal spelling, once for each spelling.
LeaveAllowedUnlessDenied(S) ==
  LET pages == {v \in S : Normal[v] \in Page} IN
    {v \in pages : Known(Normal[v]) => IsAllowedRobots(Normal[v])} \cup (S \ pages)
      \cup {RobotsOf[Normal[v]] : v \in {w \in pages : ~Known(Normal[w])}}

LeaveAllowedByRobots(S) ==
  LET pages == {v \in S : Normal[v] \in Page} IN
    {v \in pages : IsAllowedRobots(Normal[v])} \cup (S \ pages)
      \cup {RobotsOf[Normal[v]] : v \in {w \in pages : ~Known(Normal[w])}}

FilterByRobots ==
  /\ pc = "filter"
  /\ checkNow' = now
  /\ batch' = LeaveAllowedByRobots(TopVisits)
  /\ pc' = "need"
  /\ UNCHANGED <<dbVars, hostVars, target, top, pushTp, pushed, queueVars, now,
                 lastPush, lastOk, raced, torn, lost, restarts>>

\* leaveNeedUrls for what was visited, leaveNeedRobots for a robots.txt needed.
IsNeeded(i) ==
  IF i \in Visit THEN IsNeedCrawl(attempts[Normal[i]], checkNow)
                 ELSE IsNeedCrawlRobots(attempts[i], checkNow)

Rank(v) == CHOOSE i \in DOMAIN Top : Top[i] = v

\* limit_vector: the first of the robots.txt needed, in any order, then of the
\* visits by their rank.
Limited(need) ==
  {P \in SUBSET need :
     /\ Cardinality(P) = target
     /\ P \cap Visit # {} => need \cap Robots \subseteq P
     /\ \A v \in P \cap Visit, w \in need \cap Visit : Rank(w) < Rank(v) => w \in P}

MaxReachedAtOnce == TRUE

\* The ceiling goes up once in any case, then until it is above the number of
\* URLs there are.
MaxReached == top > Len(Top) /\ top # target

\* UrlDb::leaveNeedUrls and leaveNeedRobots.  They are two critical sections, but
\* each decision reads the attempts of its own URL only, so a result between
\* them is one before the first or after the second.  attempt_tp is read next.
FilterByNeed ==
  /\ pc = "need"
  /\ LET need == {i \in batch : IsNeeded(i)}
         enough == Cardinality(need) >= target
     IN  \/ /\ enough
            /\ batch' \in Limited(need)
            /\ pushTp' = now
            /\ pc' = "push"
            /\ UNCHANGED top
         \/ /\ ~enough
            /\ MaxReached
            /\ batch' = need
            /\ pushTp' = now
            /\ pc' = "push"
            /\ UNCHANGED top
         \/ /\ ~enough
            /\ ~MaxReached
            /\ top' = 2 * top
            /\ batch' = {}
            /\ pc' = "filter"
            /\ UNCHANGED pushTp
  /\ UNCHANGED <<dbVars, hostVars, target, checkNow, pushed, queueVars, now,
                 lastPush, lastOk, raced, torn, lost, restarts>>

\* _pushToKafka, one record at a time.
PushToKafka(i) ==
  /\ pc = "push"
  /\ i \in batch \ pushed
  /\ gfq' = gfq (+) SetToBag({[url |-> UrlOf(i), ts |-> pushTp]})
  /\ pushed' = pushed \cup {i}
  /\ lastPush' = [lastPush EXCEPT ![UrlOf(i)] = {pushTp}]
  /\ UNCHANGED <<dbVars, hostVars, pc, target, top, checkNow, batch, pushTp, keeping,
                 now, lastOk, raced, torn, lost, restarts>>

\* How often the list pushed has the URL.
Times(u) == Cardinality({i \in batch : UrlOf(i) = u})

\* UrlDb::setEnqueued, at the end of _loopImpl.
SetEnqueuedUnstamped ==
  /\ pc = "push"
  /\ pushed = batch
  /\ attempts' = [u \in Url |->
       IF attempts[u] = <<>> THEN AddTimes(attempts[u], pushTp, Times(u)) ELSE attempts[u]]
  /\ Sleep
  /\ UNCHANGED <<attemptsDb, snap, hostVars, queueVars, now, lastPush, lastOk, raced,
                 torn, lost, restarts>>

SetEnqueued ==
  /\ pc = "push"
  /\ pushed = batch
  /\ attempts' = [u \in Url |-> AddTimes(attempts[u], pushTp, Times(u))]
  /\ Sleep
  /\ UNCHANGED <<attemptsDb, snap, hostVars, queueVars, now, lastPush, lastOk, raced,
                 torn, lost, restarts>>

-----------------------------------------------------------------------------
(***************************************************************************)
(* The workers' results: Scheduler::onFetched goes to UrlDb first, then to *)
(* HostDb.  A page is fetched only once HostDb knows the rules of its host *)
(* (until then the worker tries the record again and again).               *)
(***************************************************************************)
IsOkRobots(u, status) == u \in Robots /\ status = "OK"

OnFetched(rec, status) ==
  LET u == rec.url IN
  /\ BagIn(rec, gfq)
  /\ u \in Page => Known(u)
  /\ gfq' = gfq (-) SetToBag({rec})
  /\ attempts' = [attempts EXCEPT ![u] = SetStatus(@, status, now)]
  /\ keeping' = IF IsOkRobots(u, status) THEN keeping (+) SetToBag({u}) ELSE keeping
  /\ lastOk' = [lastOk EXCEPT
       ![u] = IF status = "OK" THEN {GetLast(attempts'[u]).tp} ELSE {}]
  /\ raced' = IF pc = "push" /\ u \in Urls(batch) /\ status = "OK"
                THEN raced \cup {u} ELSE raced \ {u}
  /\ UNCHANGED <<attemptsDb, snap, hostVars, loopVars, now, lastPush, torn, lost, restarts>>

\* HostDb::onFetched on the robots.txt u: memory in any case, leveldb unless the
\* write fails, which is only logged.  Bound: no write that no restart can read.
KeepRobotsUnlessEmpty(u, rules) ==
  /\ BagIn(u, keeping)
  /\ keeping' = keeping (-) SetToBag({u})
  /\ robots' = IF rules = {} THEN robots ELSE [robots EXCEPT ![u] = rules]
  /\ \/ restarts < MaxRestart /\ robotsDb' = [robotsDb EXCEPT ![u] = rules]
     \/ UNCHANGED robotsDb
  /\ torn' = torn \ {u}
  /\ UNCHANGED <<dbVars, loopVars, gfq, now, lastPush, lastOk, raced, lost, restarts>>

KeepRobots(u, rules) ==
  /\ BagIn(u, keeping)
  /\ keeping' = keeping (-) SetToBag({u})
  /\ robots' = [robots EXCEPT ![u] = rules]
  /\ \/ restarts < MaxRestart /\ robotsDb' = [robotsDb EXCEPT ![u] = rules]
     \/ UNCHANGED robotsDb
  /\ torn' = torn \ {u}
  /\ UNCHANGED <<dbVars, loopVars, gfq, now, lastPush, lastOk, raced, lost, restarts>>

\* A worker dies with the record, or its onFetched call fails.
LoseRecord(rec) ==
  /\ BagIn(rec, gfq)
  /\ lost < MaxLost
  /\ lost' = lost + 1
  /\ gfq' = gfq (-) SetToBag({rec})
  /\ UNCHANGED <<dbVars, hostVars, loopVars, keeping, now, lastPush, lastOk, raced,
                 torn, restarts>>

-----------------------------------------------------------------------------
(***************************************************************************)
(* UrlDb's snapshot thread: a copy taken with the mutex held, then one     *)
(* write for each URL, each of which may fail.                             *)
(***************************************************************************)
\* Bound: no snapshot that no restart can read.
SnapCopy ==
  /\ restarts < MaxRestart
  /\ \A u \in Url : snap[u] = <<>>
  /\ \E u \in Url : attempts[u] # <<>>
  /\ snap' = attempts
  /\ UNCHANGED <<attempts, attemptsDb, hostVars, loopVars, queueVars, now, lastPush,
                 lastOk, raced, torn, lost, restarts>>

SnapPut(u) ==
  /\ snap[u] # <<>>
  /\ \/ attemptsDb' = [attemptsDb EXCEPT ![u] = snap[u]]
     \/ UNCHANGED attemptsDb
  /\ snap' = [snap EXCEPT ![u] = <<>>]
  /\ UNCHANGED <<attempts, hostVars, loopVars, queueVars, now, lastPush, lastOk, raced,
                 torn, lost, restarts>>

\* UrlDb::_loadCrawlAttempts and HostDb::_loadRobotsDb: a scan that breaks off is
\* only logged, what was not read by then is not there.
LoadCrawlAttempts(read) ==
  attempts' = [u \in Url |-> IF u \in read THEN attemptsDb[u] ELSE <<>>]
LoadRobotsDb(read) ==
  robots' = [u \in Robots |-> IF u \in read THEN robotsDb[u] ELSE NoRobots]

\* The scheduler process is killed (nothing in it ever calls stop()) and started
\* again.  The histories forget what it did not save or could not load.
Restart ==
  /\ restarts < MaxRestart
  /\ restarts' = restarts + 1
  /\ \E read \in SUBSET Url : LoadCrawlAttempts(read)
  /\ \E read \in SUBSET Robots : LoadRobotsDb(read)
  /\ snap' = [u \in Url |-> <<>>]
  /\ Sleep
  /\ keeping' = EmptyBag
  /\ torn' = {u \in torn \cup BagToSet(keeping) \cup {r \in Robots : robots[r] # NoRobots} :
                robots'[u] = NoRobots}
  /\ LET forgotten == {u \in Url : attempts'[u] # attempts[u]} \cup Urls(pushed) IN
       /\ lastPush' = [u \in Url |-> IF u \in forgotten THEN {} ELSE lastPush[u]]
       /\ lastOk' = [u \in Url |-> IF u \in forgotten THEN {} ELSE lastOk[u]]
  /\ UNCHANGED <<attemptsDb, robotsDb, gfq, now, raced, lost>>

Tick ==
  /\ now < MaxTime
  /\ now' = now + 1
  /\ UNCHANGED <<dbVars, hostVars, loopVars, queueVars, lastPush, lastOk, raced, torn,
                 lost, restarts>>

-----------------------------------------------------------------------------
LoopStep ==
  \/ StartLoop
  \/ FilterByRobots
  \/ FilterByNeed
  \/ \E i \in Item : PushToKafka(i)
  \/ SetEnqueued

Fetched(u) ==
  \E rec \in BagToSet(gfq) : rec.url = u /\ \E status \in Outcome : OnFetched(rec, status)

Next ==
  \/ LoopStep
  \/ \E u \in Url : Fetched(u)
  \/ \E u \in Robots, rules \in Rules : KeepRobots(u, rules)
  \/ \E rec \in BagToSet(gfq) : LoseRecord(rec)
  \/ SnapCopy
  \/ \E u \in Url : SnapPut(u)
  \/ Restart
  \/ Tick

Spec == Init /\ [][Next]_vars

(***************************************************************************)
(* Fairness: the threads of the scheduler run.  That the records in the    *)
(* queue are fetched is not assumed.                                       *)
(***************************************************************************)
FairSpec ==
  /\ Spec
  /\ WF_vars(LoopStep)
  /\ \A u \in Robots : WF_vars(\E rules \in Rules : KeepRobots(u, rules))

-----------------------------------------------------------------------------
\* The round pushes the URL u, for the first time.
Pushes(u) == u \in Urls(pushed)' /\ u \notin Urls(pushed)

(* The rounds that push a URL are an hour apart, under whatever spelling   *)
(* it was visited, whatever comes back in between, whenever it comes back, *)
(* and across restarts of the scheduler for all that its last snapshot     *)
(* saved and the restart loaded: nothing can make the loop spin on a URL.  *)
(* (EnqueueLoop.cpp:22-41, UrlDbPolicy.cpp:19-81, UrlDbModify.cpp:6-46)    *)
PushGap ==
  [][\A u \in Url : Pushes(u) => \A t \in lastPush[u] : pushTp >= t + Hour]_vars

OkWait(u) == IF u \in Page THEN Week ELSE Day

(* "Last attempt succeeded - wait 1 week" (a robots.txt: one day): the     *)
(* next push of a URL with an OK result comes that much later, unless the  *)
(* result came while the loop was pushing the URL again.                   *)
(* (UrlDb.h:53, UrlDbPolicy.cpp:59-65, UrlDbModify.cpp:45)                 *)
OkWaits ==
  [][\A u \in Url :
       Pushes(u) /\ u \notin raced => \A t \in lastOk[u] : pushTp >= t + OkWait(u)]_vars

(* The two databases agree on robots.txt: when UrlDb counts one as fetched *)
(* (and so leaves it alone for a day), HostDb has its rules or is about to *)
(* have them.  Only a restart makes them disagree: it comes between the    *)
(* two, or does not find what HostDb failed to write or to read.           *)
(* (Scheduler.cpp:165-168, HostDb.cpp:24-33, 47-55)                        *)
RobotsAgree ==
  \A u \in Robots :
    attempts[u] # <<>> /\ GetLast(attempts[u]).status = "OK" =>
      robots[u] # NoRobots \/ BagIn(u, keeping) \/ u \in torn

(* Every page in the queue can be fetched as far as robots rules go: none  *)
(* circulates between the workers and HostDb for want of a robots.txt that *)
(* nobody has asked for - unless a restart has lost the rules it was       *)
(* pushed under.  (EnqueueLoopFilter.cpp:8-36, HostDb.cpp:200-204)         *)
QueuedPagesFetchable ==
  \A rec \in BagToSet(gfq) :
    rec.url \in Page => Known(rec.url) \/ RobotsOf[rec.url] \in torn

\* The loop has its target without getting to v.
Crowded(v) ==
  /\ pc = "need"
  /\ Cardinality({i \in batch : IsNeeded(i) /\ (i \in Robots \/ Rank(i) < Rank(v))}) >= target

(* A page that is allowed and was never tried gets tried, however far down *)
(* the ranking it is, if what is due before it does not always make up the *)
(* target: the search goes past the pages that must wait.  With a target   *)
(* too small for what is due above it, a page may never have its turn.     *)
(* (EnqueueLoopFilter.cpp:45-89)                                           *)
PagesTried ==
  \A v \in {w \in Visit : Normal[w] \in Page} :
    LET p == Normal[v] IN
      <>[]~Crowded(v) => (IsAllowedRobots(p) ~> attempts[p] # <<>> \/ ~IsAllowedRobots(p))

-----------------------------------------------------------------------------
(* "Last attempt succeded - wait 1 week" (UrlDb.h:53), with no exception:  *)
(* a page is not pushed again within the week of its last OK result.       *)
OkAlwaysWaits ==
  [][\A p \in Page : Pushes(p) => \A t \in lastOk[p] : pushTp >= t + Week]_vars

(* "Last attempted enqueued - wait 1 day" (UrlDb.h:51): a page whose       *)
(* record is still waiting or being fetched is not pushed again the same   *)
(* day.                                                                    *)
EnqueuedWaitsDay ==
  [][\A p \in Page :
       Pushes(p) => \A rec \in BagToSet(gfq) : rec.url = p => pushTp >= rec.ts + Day]_vars
-----------------------------------------------------------------------------
(***************************************************************************)
(* The inductive invariant behind the safety properties.                   *)
(***************************************************************************)
LoopInv ==
  /\ pushed # {} => pc = "push"
  /\ checkNow <= now

\* A URL already pushed carries the stamp of this round; otherwise its last push
\* is not younger than the last attempt, which the decision to push it again was
\* made on.
GapInv ==
  \A u \in Url : \A t \in lastPush[u] :
    /\ u \in Urls(pushed) => t = pushTp
    /\ u \notin Urls(pushed) => attempts[u] # <<>> /\ GetLast(attempts[u]).tp >= t
    /\ pc = "push" /\ u \in Urls(batch) \ Urls(pushed) => pushTp >= t + Hour

\* A result OK is still that of the last attempt, or has been waited for.
OkInv ==
  \A u \in Url : \A t \in lastOk[u] : u \notin raced =>
    /\ attempts[u] # <<>>
    /\ \/ GetLast(attempts[u]).tp = t /\ GetLast(attempts[u]).status = "OK"
       \/ GetLast(attempts[u]).tp >= t + OkWait(u)
    /\ pc = "push" /\ u \in Urls(batch) => pushTp >= t + OkWait(u)

\* The lists on disk and in the copy being written are no better than those in
\* memory: they vouch for robots.txt in the same way.
RobotsInv ==
  /\ IsABag(keeping)
  /\ \A u \in Robots : \A a \in {attempts[u], attemptsDb[u], snap[u]} :
       a # <<>> /\ GetLast(a).status = "OK" =>
         robots[u] # NoRobots \/ BagIn(u, keeping) \/ u \in torn
  /\ \A p \in Urls(batch) \cap Page : Known(p)

IInv ==
  /\ TypeOK
  /\ LoopInv
  /\ GapInv
  /\ OkInv
  /\ RobotsInv
  /\ QueuedPagesFetchable
=============================================================================
