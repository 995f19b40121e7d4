# contentv1: formal models, model checks and proofs

TLA+ specifications of the core of the crawler in `src/src`: who may be fetched
and when, what is put into the global fetch queue and how much of it, how the visits
that rank the URLs are kept and counted, how a worker hands records on, how pages are
matched against the users' query groups, how the scheduler serves its workers, and how
the programs are put together. TLC checks the specifications on small instances; TLAPS
proves the main safety properties for every value of the constants. Paths below are
relative to `src/src` unless they start with `src/`.

To check by hand: `tlc -config Enqueue.cfg MCEnqueue.tla`,
`tlapm EnqueueProofs.tla`. `PROJECT.json` names, for every definition, the source
lines it stands for, and for every property the mutant of the code that breaks it.

## 1. The system

contentv1 learns from a stream of visits which URLs are popular, fetches those
pages politely and again and again, and matches them against the query groups of
its users. `contentd` runs everything in one process; `sched` (scheduler and API)
and `workd` (worker) are the same parts in two, over gRPC. Nothing calls `stop()`
in production: a process ends by being killed.

```
 visits topic -> LoadLoop -> UrlFreqStatsLF (ranking, memory)  ----+
                    |                                              v
                    +-----> UrlsDaysDb (visits by day) ~start~> EnqueueLoop
                                                                   | reads UrlDb, HostDb, CrawledDb
                                                                   v
                                              Kafka topic global_fetch_queue
                                                                   v
  HostDb  <---- tryFetchUrls (may I?) ------------------------ FetchLoop -> HTTP
  UrlDb, HostDb, CrawledDb <---- onFetched (result) ----------     |
                                                                   v
                                    QueryLoop <- QueryDb <- API   page store
```

| Component | State | Operations | Hard because | Correct when |
|---|---|---|---|---|
| `core/HostFreq`, `TpSlidWin` | fetches running, three sliding windows | `isAllowed`, `incCrawling`, `decCrawling` | window edges, a guarded signed counter | no window ever over its limit |
| `ldb/HostDb` | frequencies (memory), robots rules (memory and leveldb), one mutex | `tryCrawl`, `onFetched`, `leaveAllowedByRobots`, restart | several workers, lost RPCs, counters forgotten by a restart, rules not stored or not read | slots accounted for; no host overrun; no page without robots rules |
| `scheduler/rpc` | calls in flight; server call data | `tryFetchUrls`, `onFetched` | a call can fail after its effect | a failed call only costs what it cost |
| `worker/FetchLoop` | merge queue, requests at the HTTP client | read GFQ, ask, fetch, report, save | requeues refused records for ever | every record fetched or kept |
| `ldb/UrlDb`, `core/CrawlAttempts` | last attempts of each URL, leveldb snapshot | `leaveNeedUrls`, `leaveNeedRobots`, `setEnqueued`, `onFetched` | results late, of older attempts; snapshots lag, scans break off | waits kept; never spins |
| `scheduler/default/EnqueueLoop` | the thread's local variables | filter, search the top, push, `setEnqueued` | reads, decides, pushes and records in separate critical sections | only fetchable URLs queued; every page reached |
| `ldb/UrlsDaysDb`, `UrlsDays.h` | lock-free queue, map by URL and day, leveldb | `saveVisit`, merge thread, snapshot thread, load | three threads, the day turning between them, partial snapshots, timestamps nobody checks | no visit lost or doubled; only DAYS days |
| `ldb/CrawledDb` | the same class, for results | `saveResult`, `getFinishedToday`, `getInProgress` | "today" is the last day stored | counts of one day compared |
| `core/UrlFreqStatsLF`, `UrlFreqMap`, `LastPerMaps` | windows of visits, sorted sets | `insert`, merge, `getTopUrls` | merged by another thread than it is read | same ranking as `UrlFreqStats` |
| `worker/QueryLoop`, `ldb/QueryDb`, `api/v1` | query groups, hits, tokens | match, save hits; set, get, list, delete | groups change while they are matched; a stored group may be unreadable | no hit outlives its group |
| `scylla/`, `ldb/PageDb` | pages by URL | `save`, iterate | driver | one write per page |
| `bin/`, `kafkawrap`, proto, config | none of their own | wiring, parsing | - | - |

`src/misc` (queues, Kafka, HTTP client, leveldb wrapper, clock) is an empty
submodule here: the models take what the code in `src/src` relies on.

What is hard to test is in the list of hazards in
`PROJECT.json`, at the line where it bites, with the properties aimed at it or the
reason why there is none. Some properties exempt a failure that a hazard names: they say exactly
when the bad thing happens, and do not prevent it. Such a hazard does not list them, and its note says so.

## 2. The modules

| Module | Models | Runs |
|---|---|---|
| `HostFreq` | the counters of one host, as operators | |
| `HostDb` (EXTENDS HostFreq) | HostDb with the workers' calls, lost RPCs, restarts | `hostdb`, `hostdb_system` |
| `CrawlAttempts` | attempts of one URL and the two crawl policies, as operators | |
| `Enqueue` (EXTENDS CrawlAttempts) | EnqueueLoop, UrlDb, the robots rules of HostDb, the topic, onFetched | `enqueue`, `enqueue_restart`, `enqueue_top` |
| `Quota` | how many URLs EnqueueLoop pushes: `_calcHourTarget`, `_calcToEnqueueNow`, CrawledDb's counters | `quota` |
| `UrlsDaysDb` | the visits by day: queue, merge, snapshots, restarts | `urls_days` |
| `FreqStats` | UrlFreqStatsLF, LastPerMaps, UrlFreqMap: the windows and the top | `freq_stats` |
| `Delivery` | the abstract promise of a worker: each record read is answered once, unless it crashes | |
| `FetchLoop` (INSTANCE Delivery) | the worker: reader, MergeQueue, requests, HTTP thread, page store | `fetch_loop` |
| `SchedulerServer` | the gRPC server's thread and call data, its clients, start and stop | `scheduler_server` |
| `Matching` | query groups, the matching loop, the pages | |
| `QueryApi` (EXTENDS Matching) | the same as the users of the API see it: conversions, what is read, what hits are due | `matching` |
| `Contentd` | the programs: construction, dry run and threads of contentd, sched and workd | `contentd` |
| `HostDbProofs`, `EnqueueProofs`, `QuotaProofs`, `UrlsDaysDbProofs`, `FreqStatsProofs`, `FetchLoopProofs`, `MatchingProofs` (Matching and QueryApi), `ContentdProofs` (Contentd and SchedulerServer) | the theorems | |
| `MC...` | small instances for TLC; `Contentd` needs none | |

The modules share no variables; where one component's behaviour matters to another it
is taken as any behaviour: the scheduler's answer in `FetchLoop` is any part of what was
asked, the results in `Quota` come or do not come, the ranking in `Enqueue` is a
constant. The exceptions are compositions: `Enqueue` (EnqueueLoop, UrlDb and the robots
rules of HostDb), `HostDb` (with its callers), `QueryApi` (Matching with the API's
readers), `FetchLoop` (which implements `Delivery`) and `Contentd` (all threads, each
at its coarsest).

Definitions whose names end in a phrase such as `...Unguarded`, `...OneTooMany`,
`...Unstamped` stand just before a definition and are that definition with a
plausible bug; they are used by no specification, only by the mutants of
`PROJECT.json`.

### HostFreq and HostDb

A host's three queues of time points are all suffixes of one log of fetches, since
`incCrawling` pushes the same time on each; a record keeps the log once and how
many points each window has popped. `HostDb` is guarded by one mutex.
`tryCrawl` decides the records of a batch one by one under it, reading the clock
for each; so a call is `TryFetchUrls` (takes the mutex), some `TryCrawlAllow` /
`TryCrawlRefuse`, `TryCrawlReturn`, then `Reply` or `LoseReply` at the worker,
which fetches what was allowed and requeues the rest (`Settle`). `OnFetched` and
`LoseResult` end a fetch, `Restart` is a scheduler killed and started again. A
fetch that was running before a restart still reports to the new process:
`forgotten` counts those, `leaked` the slots whose result was lost. The write of a
robots.txt (`KeepRobots`) may fail, and the scan of the database at a start (`LoadRobotsDb`) may
break off anywhere: both are only logged. `learned` is what this process has fetched of robots.txt,
`before` are the fetches that were running at the last restart. All four are
histories: no guard reads them. Two details of the code are kept as they are: a host
met for the first time is allowed without looking at any counter, and the counters
of the whole system are held against the limits of *one host*.

A robots.txt is the set of pages it forbids. `Robots::isAllowed` and the parser
are abstracted to membership in it.

### CrawlAttempts and Enqueue

`Enqueue` has one action per critical section of the loop: `StartLoop` (target,
search for the top), `FilterByRobots` (`HostDb::leaveAllowedByRobots`),
`FilterByNeed` (`UrlDb::leaveNeedUrls/Robots` and the decision to double the top),
one `PushToKafka` per record, `SetEnqueued`. In between, `OnFetched` brings
results of any record in the queue in any order, to UrlDb first and
to HostDb in a later `KeepRobots`, as `Scheduler::onFetched` does with no lock
around the two; `LoseRecord` loses one; `SnapCopy`/`SnapPut` write UrlDb's
snapshot, where a write may fail; `KeepRobots` writes memory (`robots`) and, unless it
fails, leveldb (`robotsDb`). `Restart` forgets what was not written, and
loads any part of what was (`LoadCrawlAttempts`, `LoadRobotsDb`): a scan that breaks off is
logged and no more. The history `torn` has the robots.txt whose rules a restart lost. A
result is put down to the *last* attempt of its URL, whichever attempt it belongs
to, as in `UrlDb::_setStatus`.

The ranking is of URLs as they are spelled in the visits (`Visit`), and
`leaveAllowedByRobots` hands on their normal form (`Normal`). Nothing merges two spellings of one
URL after that: a round pushes the URL once for each spelling in the top, and `setEnqueued`
adds as many attempts (`Times`). `PushGap` therefore speaks of rounds.

The queue is a bag: consumers of a topic with several partitions take records in
any order. Kafka's redelivery after a crash of a worker is not modelled. When a
record may be fetched is the subject of `HostDb`; here a page is fetched once
the rules of its host are known. The ranking `Top` does not change here: it is a constant, and how many URLs
to push is any number of `Target`: the quota is the subject of `Quota`. A loop with
nothing to push does not happen here: `Target` is positive.

### Quota

One round of the loop is `StartRound`, one `GetTodayEvents` for each counter CrawledDb
adds up (each read takes UrlsDaysDb's lock anew), `CalcHourTarget`, more
`GetTodayEvents`, `PushToKafka` and `SaveEnqueued`, which counts the pushes through the
queue of UrlsDaysDb; `Merge` is that database's merge thread, which may take part of
what is queued. "Today" is the last day a status has an entry for (`_getTodayEvents`), so each counter
keeps only that entry. The two operands of `getInProgress` may be read in either order;
the division is C++'s, and the hour before midnight has the whole rest of the day.
Whether all counters of a round are of one moment (`racing`), whether a counter was of an
earlier day (`stale`) and what midnight found in flight (`carried`) are histories.
`searchTop` finds as many URLs as it is asked for.

### UrlsDaysDb

`SaveVisitsPack` is LoadLoop's call; `StartMerge`, one `Dequeue` per record,
`EndDrain` and `SwitchGlobal` are the merge thread; `StartSnapshot` and one `Put`
per URL the snapshot thread, where a failing `Put` ends the snapshot; `Restart`
loads the leveldb, or nothing when the scan fails. The map from days to visits is a
bag of days. The global map is copied under a read lock and replaced under a write
lock; the merge thread is its only writer after the start, so the two are one
step. Nothing checks the timestamps of the stream: `Age` may be negative, a visit of a day
to come (the history `ahead` has those days). A URL's entry keeps its `url` field apart from its key, because the code does:
`merge` leaves it empty.

### FreqStats

A window (`UrlFreqMap`) is the pair of its counts and its queue of visits; `CheckCleanup`,
`InsertVisitsPack`, `MergeQueues`, `MergeMap` and `GetTopUrls` are its operations. `Fill`
is `Scheduler::_fillUrlFreqStats`, `Load` the LoadLoop, `AccEvent` and `SwitchGlobalObj`
the merge thread, in the order `misc::MergeQueue` calls them. A visit can be older than
those before it, and the merge thread cleans its own windows only, never the global
ones: the model keeps both. `std::sort` may put equal counts into any order, so
`GetTopUrls` is the set of results it may have.

### FetchLoop and Delivery

The three threads of a worker: `StartRead`, `ReadOne`, `EndRead` are `loop()`; `AccEvent`,
`SwitchGlobalObj`, `TryFetch`, `Replied`, `Sent` the merge thread and `_sendToCurl`;
`Respond`, `OnFetched`, `Save` the HTTP client's thread in `_onResponse`. Records are
equal when their URLs are (`GFQRecord::operator==`), so each place records can be in is
a bag. `Replied` allows any part of a slice that holds no refused record: politeness is
HostDb's subject, and a failed call allows nothing. `Crash` loses what is in memory, and
Kafka delivers again any part of what was read; it is bounded together with the saves
that fail. Both page stores throw when a save fails, out of the HTTP client's callback: whether
that client catches it is not in the source, so the thread goes on (`Save(FALSE)`) or the
process ends (`Crash`). `Delivery` knows three numbers for each URL: not read, held, answered. The
refinement maps `held` to all places a record can be in between.

### SchedulerServer

A call data is not an object here but what has become of its call: `waiting` (registered,
one per method), `matched`, `handling`, `finished`, `freed` are its CREATE, PROCESS and
FINISH states with the tags that are in the completion queue. `NextCall`,
`NextFinished`, `NextCancelled`, `NextDrained` are what `cq_->Next` can return to
`_handleRpcs`; `Proceed` calls the scheduler and `Finish`. The owner's side
is `Construct`, `Stop`, `Close`, `StopRunning`, `Join`. The thread is started by the
initialiser list, and `m_running` is initialised after it: `Init` leaves its value open and
`Construct` sets it. A port that is taken makes `Build` end the process. Clients set no deadline, so they wait until answered, until the
connection is lost (`Lose`), or the server is shut down before it has the call (`Stop`).

### Matching

A page is the set of queries found in it, a group the set of its queries: the trie is
abstracted to a common element. A round of `QueryLoop` is `GetAllQG`, `ScanFull`, one
`SaveQGHits` per group with hits, `EndRound`. The scan is one step: leveldb's iterator
shows the database as it was when it was made, and the Scylla driver hands over one
result. An error in Scylla's scan is logged and the round goes on with what was read, so
`ScanFull` may find a part only (`broken`). The HTTP handlers run in several threads:
`SetQueryGroup` is one write, a deletion is two (`DeleteQG`, `DeleteQGHits`), and the
second may fail or come much later. `FetchLoop` saves pages at any time. Nothing locks
the two databases together, or the loop against the handlers. `Restart` is the end of the
process at any point, whose databases stay. A group is stored as a message whose strings
are parsed only if they are UTF-8; JSON lets others in. Such a group is not `Readable`: `getAllQG`
throws out of the loop's thread, and the process ends at each start (`GetAllQGThrows`).

`QueryApi` adds what goes over HTTP. What throws in a handler is answered with
`InternalError`. A body is JSON of a group, or fails in one of the ways
`fromJson` can; `JsonArray` is the null that jsoncpp makes of an array nothing was appended
to, and `FromJson` has to take it back. The handlers that read are functions of the
databases; those that write are the actions of `Matching`. `wanted` and `due` are what
the users may expect: the groups as last set, and the pages that ever matched a
group since its hits were last deleted.

### Contentd

One main thread runs through `Scheduler`'s constructor (with LoadLoop, the wait for
UrlsDaysDb's merge, the fill and EnqueueLoop in a dry run), the page store, the worker, the
API, and then the dry run's comparison of counters and the destructors, or `join()`. Beside
it run UrlsDaysDb's merge thread, the API's thread (whose routes it pushes into a vector
that the constructor may not have made yet: `ConstructRoutes`), the QueryLoop, the HTTP
thread, and the loops. Visits and records are numbers here. `Timely` says that a main thread that
waits in `waitMerged`, which looks again at once, gets to see the flag before the merge
thread, which sleeps for seconds, clears it. The dry run's second wait (`WaitFreqMerged`)
is that of `misc::MergeQueue`, external: it is taken to end when something was inserted before, which
is how all callers use it.

## 3. What the runs check

Time is counted in ticks. In HostDb and Enqueue a tick is at least a second, the
precision of a time point, in Quota an hour; the clock does not step back (`system_clock`
could).

| Run | Instance | Shows |
|---|---|---|
| `hostdb` | 2 hosts, 2 workers, 4 records (a robots.txt, two pages of its host, one page of the other), parallel limit 1, two windows, times 0..2, one loss, one restart | `TypeOK`; `SlotAccounting`: the parallel counters equal the fetches allowed and not reported, up to losses and restarts; `HostParallelBound`; `RateLimit`; `RobotsInForce`: no page is let through without the rules of its host, also when a restart lost them, and what was fetched is in force also when it could not be stored |
| `hostdb_system` | 2 records on each of 2 hosts, limit 2, time stands still, open windows | `SystemBound`: what does bound the whole system; `HostRecovers`: a full host gets a slot back although refused records are retried for ever |
| `enqueue` | 1 page and its robots.txt, both visited, target 1, 2 attempts kept, Hour 1, Day 2, Week 3, times 0..4, results OK, CURL_ERR, 4xx; robots.txt that allow or forbid | `TypeOK`; `OkWaits`: an OK is waited for, but for the one race it names |
| `enqueue_restart` | 1 page under two spellings and its robots.txt, target 2, 1 attempt kept, Hour 1, Day 1, Week 3, times 0..1, results OK and CURL_ERR; snapshots, writes that fail, one restart, scans that read a part | `PushGap`: rounds that push a URL are an hour apart; `RobotsAgree`: UrlDb counts a robots.txt as fetched only if HostDb has it, is about to, or a restart came between; `QueuedPagesFetchable`: no page is queued before its robots.txt is known, and only a restart takes the rules away from it |
| `enqueue_top` | 2 pages, target 1, one lost record | `PagesTried`: the lower page is reached in the end, if what is due above it does not always make up the target |
| `quota` | days of 3 hours, times 0..5 (two days), target 2, one finished status, 2 results, 3 pushes a day | `DayQuota`: over a day no more is pushed than the target, or than was counted; `HourPaced`: no push leaves more in flight than the hour's share, but for the races it names; `DayReached`: the last day's target is reached |
| `urls_days` | 2 URLs, 2 days kept, 2 ticks a day, times 2..5, visits 0 and 2 ticks old and 2 ticks ahead, in packs of 1 or 2, 3 saves, one restart | `TypeOK`; `VisitsConserved`: no visit lost or doubled between queue, merge and map; `DaysBounded`: no more than Days days but for those visited ahead; `SnapshotCovers`: a finished snapshot is not undone by a later, interrupted one |
| `freq_stats` | 2 URLs (symmetric), windows of 1 and 2, visits 0 or 2 ticks old, packs of 2, 4 events, limits 0..3 | `VisitsCounted`: no visit lost or doubled between stream, merge and windows; `FreqMatchesQueue`; `HourInDay`: no URL has more visits in the hour than in the day; `TopUrlsRight` |
| `fetch_loop` | a page, a robots.txt, a page always refused; reads of 1, slices of 2, one crash or failed save | `Delivered`: refines `Delivery`; `PageSaved`: what the scheduler counts as fetched is saved but for a fault; `AllAnswered`: refused records do not starve the others |
| `scheduler_server` | 2 methods, 2 calls each, stop at any time | `Listening`: there is always a call data for the next call; `HandledOnce`; `CallsAnswered`: no client waits for ever, and `StopEnds`: stop() and the destructor return, both but for a thread that ended early |
| `matching` | 1 group, 2 pages, 2 queries and one that is not UTF-8, 2 HTTP threads, one broken scan, one restart, seven bodies, four of them bad | `TypeOK`; `OrphansRaced`: a group that does not exist has hits only if its deletion raced a round, failed half-way or is not over; `HitsKept`: no hit that still matches is lost; `MatchFound`: every match is found in the end, once no unreadable group is stored; `SetIsRead`: what was set in UTF-8 is what is read; `HitsOwn`: a group shows no hits of an earlier one under its gid |
| `contentd` | all three programs, dry or not, 2 visits, 2 records, 3 routes | `FillsMerged`: the statistics of a dry run are not filled from nothing; `StatsAgree`: the two sets of counters differ by the one result under way; `DryRunEnds` where there is something to wait for |

Why the bounds are enough. `hostdb`: two records of one host race for one slot from two
workers, a third record of another host shows what crosses hosts; windows of
length 0 and 1 with limits 1 and 2 fill and expire within three ticks; one loss and
one restart in any order give every mix of forgotten and leaked slots for a
record. `enqueue`: Hour, Day and Week are 1, 2 and 3, all distinct, so that each wait
passes within the run and the shorter ones pass while a longer one holds; two attempts
fill the list, so the third drops one. `enqueue_restart`: with one attempt kept, two pushes of
one URL in a round drop the attempt before; Day is as short as Hour, so that every wait but that of a page's OK passes within the one tick there is.
`enqueue_top`: with a target of one and the upper page due again every hour, the lower one has its turn only because
the clock of the instance stops. `PagesTried` names that condition (`Crowded`), and needs no more than it. `quota`: two days show midnight; three hours have a
first, a middle and a last share, of 1, 2 and 2; two results are a target's worth. `urls_days`: with two days
kept, one expires when the day turns; a visit two ticks old is on the edge of the window, one two
ticks ahead is of a day to come that becomes today later, and the day can turn between the queue, the
merge and the snapshot. `freq_stats`: a visit can be too old for the hour and young for the day, come
after a younger one, and expire in the queue, with the merge thread or in the window; the
limits are below, at and above the number of URLs. `fetch_loop`: with three records and
slices of two, a slice can be allowed whole, in part and not at all; a read of one record shows the
reader held up by refused ones. `scheduler_server`: two calls of one method meet at one
call data. `matching`: the group is set to queries
that a page has, to queries it has not and to one that cannot be parsed, and deleted twice at the same time; two pages
are the least for a scan that finds one and not the other. Groups meet only in the
order in which their hits are saved; the proofs are for any number. `contentd`: two
records of different kinds are counted at the same time; two visits are merged in one
round or in two. It has `MockKafka` FALSE, as contentd sets it.
The bounds are the constants commented as such (`MaxTime`, `MaxLost`, `MaxRestart`,
`MaxSaves`, `MaxPush`, `MaxResults`, `MaxEvents`, `MaxFaults`, `MaxVisits`, `MaxRecords`);
`SnapCopy`, `StartSnapshot` and Enqueue's write of a robots.txt to leveldb are also bounded: what no restart can
read any more is not written. `TypeOK` of Quota, FreqStats, FetchLoop and Contentd and `ServerTypeOK` of SchedulerServer
are theorems (section 5), which the runs do not repeat.

Deadlock is checked in the Enqueue, Quota and Matching runs. It is switched off for HostDb
and SchedulerServer, where all records and calls may be done, for UrlsDaysDb and FreqStats, where visits and
the clock run out, for FetchLoop, which ends after `stop()`, and for Contentd, whose
program may end. Each is an end of the instance or of the program.

Fairness. `HostDb!FairSpec`: the decision loop and the RPC threads run (WF), every
fetch ends and is reported, because the HTTP client has a timeout, and the report gets
the mutex in the end although workers keep asking (SF: the merge threads sleep
between their calls, so the mutex is free again and again). `Enqueue!FairSpec`: the
loop thread runs, and an onFetched call that has reached UrlDb also reaches HostDb.
`Quota!FairSpec`: the loop and the merge thread run and the clock goes on; results need
not come. `FetchLoop!FairSpec`: the three threads run and the HTTP client answers every
request, if with a timeout (WF); a record in the MergeQueue has its turn although others come
back to it, and a URL not refused is allowed some time when it is asked for again and
again (SF): the first because the queue is first in, first out, the second is
`HostRecovers` and the passing of the windows. `SchedulerServer!FairServerSpec`: the threads run and gRPC matches calls; nobody has to call or to stop. `QueryApi!ApiFairSpec`: the loop's
thread runs; the scans that break off are bounded, so one gets through in the end.
`Contentd!FairSpec`: the main thread, the merge thread, the API's thread and the
QueryLoop that was stopped run. No HTTP response, visit or record is assumed.
That a queued record is ever fetched, that a call succeeds, that the clock moves (but in
Quota, which is about hours) or a restart happens is never assumed. `PagesTried` therefore
speaks of pages whose host has known rules and says that the page is *pushed*, if from some time
on no round has its target without getting to the page: with a small target, pages above it that fail fall due
again every hour or two and may keep it out for ever. It also
relies on targets being positive: a quota that stays used up stops the loop for the day,
by design.

## 4. Where code and documents differ

What a comment, a test or a document says of the code and the models refute. The first ten have a
property and a configuration that TLC finds violated, to be run by hand; they are
not among the runs, which ask what does hold.

1. **`max_system_parallel_crawl` limits nothing.** It is read
   from the configuration and never used; the counters of the whole system are held against
   one host's limits, and not at all for a host met for the first time. `SystemBound`
   is what the code gives instead: the limit of one host, plus one for each further host
   known. (`SystemParallelLimit`: `tlc -config HostDbSystemLimit.cfg MCHostDb.tla`)
2. **An OK can be overlooked.** When the result of an earlier attempt
   arrives between the loop's decision and `setEnqueued`, the page is pushed again within the
   week, and the OK is hidden behind the new attempt. (`OkAlwaysWaits`: `EnqueueRace.cfg`,
   `MCEnqueue`)
3. **A late result is put down to the wrong attempt.** `attempt_ts`
   travels to the worker and back and is not read; the failure of an old attempt
   shortens the wait of the newer one from a day to an hour. (`EnqueuedWaitsDay`:
   `EnqueueLate.cfg`, `MCEnqueue`)
4. **Visits lose their URL.** `UrlsDays::merge` creates an entry with an
   empty `url`; what a restart loads and feeds to UrlFreqStats is ranked under the empty
   string. (`VisitsOfTheirUrl`: `UrlsDaysDbUrl.cfg`, `MCUrlsDaysDb`)
5. **Hits outlive their reason.** A round saves the hits of groups that
   have some; a group whose queries no page matches any more keeps those of an earlier round.
   For the same reason the hits which a round brings back for a group deleted meanwhile
   stay for ever (`OrphansRaced` says exactly when that happens). (`HitsMatch`:
   `MatchingStale.cfg`, `MCMatching`)
6. **The windows do not slide by themselves.** `core/UrlFreqMap.h:12` says "remove old";
   the merge thread cleans the windows of its own batch, and what it merges them into is
   never cleaned: `UrlFreqMap::merge` does not, and nothing inserts into `m_maps`. So
   the numbers grow until a restart. `VisitsCounted` claims only what holds. (`WindowSlides`:
   `FreqStatsSlides.cfg`, `MCFreqStats`)
7. **The hour's share is not kept after midnight.** `scheduler/default/Scheduler.h:17` speaks of hourly and
   daily quotas; a status whose last entry is of the day before is counted as today's
   until it has an entry of today, and what is left of the target and in progress is
   taken from both days. (`HourPacedAlways`: `QuotaMidnight.cfg`, `MCQuota`)
8. **Robots rules are not persistent.** `ldb/HostDb.h:45` calls them so; a write that fails is logged
   and the fetch counts as done, and a scan that breaks off is logged and the scheduler starts
   without the rest. UrlDb's OK for the robots.txt stays, so that the host's pages wait for a day.
   `RobotsInForce`, `RobotsAgree` and `QueuedPagesFetchable` say what holds all the same.
   (`RobotsPersistent`: `HostDbRobots.cfg`, `MCHostDb`)
9. **A URL can have more than DAYS days.** `ldb/UrlsDays.h:16` says "Store last DAYS visits, drop older"; a visit
   with a timestamp ahead of the clock is kept on top of them. (`DaysLimit`: `UrlsDaysDbAhead.cfg`, `MCUrlsDaysDb`)
10. **What was set may not be readable.** `api/v1/ut/APIv1Tester.cpp` sets a group and gets it back; one whose strings are
   not UTF-8 is stored, answered with "ok", and cannot be parsed: the group, the list of all groups and
   the matching loop fail on it until it is deleted. (`SetIsGot`: `MatchingUtf8.cfg`, `MCMatching`)
11. A dry run of `contentd` returns 1 whatever it did: `mock_kafka` is false
   (`bin/contentd/cli/Contentd.cpp:39`), so its worker reads nothing and no counter
   moves. `src/doc/check_dev_contentv1.txt` says of the dry run that the scheduler's
   counters are not zero. Set `MockKafka` to TRUE in Contentd.cfg to see the other case.
12. `bin/sched` declares a `SchedulerServer` (`bin/sched/cli/Sched.h:34`) and never makes
   one: the workers of `workd` have no server to ask.
13. `UrlFreqMap::checkSortedAndDestroyQueue` compares everything with the first element,
    `scylla/PageDbScyllaDetail.cpp:117` throws when there was no error. Tests use the one,
    and `IPageDb::load`, which has the other, is called by tests only.

## 5. What is proved

For all hosts, records, workers, pages, groups, limits, waits and numbers of losses and
restarts, from the named assumptions of the modules (`LimitsAssumption`,
`HostDbAssumption`, `AttemptsAssumption`, `EnqueueAssumption`, `MatchingAssumption`,
`QueryApiAssumption`, `FetchLoopAssumption`, `CallsAssumption`, `UrlsDaysAssumption`,
`QuotaAssumption`, `FreqStatsAssumption`, `ProgramsAssumption`: finite sets, positive limits,
Hour <= Day <= Week, disjoint names), each of which TLC evaluates in the runs. Every invariant
and every action property that a run checks is a theorem; so is the refinement of Delivery.

*HostDb* (`HostDbProofs`): `TypeCorrect`, `SlotsAccounted`, `HostParallelBounded`,
`RateLimited`, `SystemBounded`, `RobotsEnforced`. The properties are not inductive by
themselves. `SlotAccounting` needs `CallInv` (the records still to decide are
distinct and belong to the one call that holds the mutex: otherwise a record
could be granted twice and count twice). The two bounds on parallel fetches need
`CountInv` (what the guards keep the counters below, and that a host not yet
known has none) together with `SlotAccounting`. `RateLimit` needs `WindowInv`: a window has
only popped points that are expired, so points that a window holds no more than
its limit of are those the guard counted. `RobotsInForce` is inductive with the types: rules get into memory in any
case, and only a restart takes them out, after which nothing is granted yet.

*Enqueue* (`EnqueueProofs`): `EnqueueTypeCorrect`, `QueueFetchable`, `RobotsAgreed`,
`PushesAnHourApart`, `OkWaited`. `GapInv` is the heart of it: a URL pushed in this round
carries this round's stamp; one that is not has a last attempt no older than
its last push (results never change the time of an attempt, only its status), and when
the loop is about to push it, the decision has made sure of the hour. `OkInv` says the
same of an OK, which stays the status of the last attempt unless another result or
the race of finding 2 comes. `RobotsInv` says what `RobotsAgree` says of the lists on disk and in a snapshot
under way as well, for a restart makes any part of them current, and that the pages the loop
is about to push have known rules. All five theorems are for any failing writes, any partial scans and any
spellings; what a restart lost or did not read is in `torn`, or gone from `lastPush` and `lastOk`.

*Matching* (`MatchingProofs`): `MatchingTypeCorrect`, `OrphansExplained`, `HitsStay`.
`OrphansRaced` needs `RoundInv`: hits about to be saved are of groups the round started
with, and such a group, when it does not exist, is accounted for before its hits are
saved, not only after. `HitsKept` needs `FoundInv`: while hits wait to be saved,
everything that still matches and was not saved again is among them.

*QueryApi* (also `MatchingProofs`): `SetsAreRead`, `HitsAreOwn`. Every
step of QueryApi is one of Matching or a stutter (the lemma `ApiImplementsMatching`), so the invariants of
Matching are there to use. `SetIsRead`, which is for groups in UTF-8, needs `Wanted` (the groups stored are those the users last set) and
`JsonRoundTrip` (`fromJson` takes back what `toJsonValue` made, the null of an empty array
included). `HitsOwn` needs `OwnInv`: what the round found for a group and what is stored
is due to it, or the group is accounted for by a deletion that raced, failed half-way
or is not over.

*FetchLoop* (`FetchLoopProofs`): `TypeCorrect`, `PagesSaved`, `Implements`. The last is the
refinement: `FetchLoop!Spec => Delivery!Spec` under the mapping of the module, with one lemma
for each thread. The reader's steps are `Read`, a report is `Answer`, `Crash` is `Crash`, and
every step of the merge thread keeps `Held` as it is, wherever it moves a record. It is
a refinement of safety; what fairness adds is `AllAnswered`, by TLC.

*SchedulerServer* (`ContentdProofs`): `ServerTypeCorrect`, `ServerListens`, `CallsOnce`. Its
invariant is ServerTypeOK, `NotYet` (nothing is registered before the thread gets to
`InstateAllCallDatas`), `Counted` (which states of a call go with which number of times it was
handled) and `Listening` itself. That `waiting` is never above one per method is part of
the result: a call data registers the next before it does anything else.

*UrlsDaysDb* (`UrlsDaysDbProofs`): `TypeCorrect`, `DaysAreBounded`, `SnapshotsCover`,
`VisitsAreConserved`.
`DaysBounded` needs `DaysInv`: `checkClean` runs only where a visit is added, so an entry may
hold days that are over, but whatever map it is in, its days lie in `Days` successive ones
and none is to come, but for days in `ahead`. That rests on what integer division does to `now - Retention` (a few
lemmas about `DayOf`). `SnapshotCovers` needs `CoverInv`: the leveldb and the memory cover the
last snapshot written to its end; a snapshot under way covers it too and is covered by the
memory, and the URLs it is through with are in the leveldb as they are in it. Then a snapshot
that ends becomes the one covered, and one that does not has taken nothing away.

`VisitsConserved` is proved for every day after the first one kept, to come or not, and needs that what `Queued` counts
is finite (`ConservedInv`). A pack taken from the queue is one member less of `VisitsIn(q)` for
each of its visits, and `checkClean` drops only days before those the property speaks of.

*Quota* (`QuotaProofs`): `TypeCorrect`, `DayQuotaKept`, `HourPacedKept`. The loop reads the counts
one by one, so the invariant says at every position what it has read: in `_calcHourTarget`
the first `i` results (`TargetInv`), in `_calcToEnqueueNow` the pushes as well, before the results
or after (`ProgressInv`). What it has read are sums over that part of `Finished`, and a merge
between two reads makes the round one that raced. `CountInv` is the
balance of a day: what is in flight and the results counted today are what midnight found in flight
and what was pushed. With both, `hourTarget - inProgress` pages more are still
within the target and within the hour's share; that the share never exceeds what the
target leaves is a fact about the ceiling of a division (`QuotientFacts`, `ShareFacts`).

*FreqStats* (`FreqStatsProofs`): `TypeCorrect`, `FreqIsOfQueue`, `NoVisitIsLost`, `HourIsInDay`,
`TopIsRight`. `VisitsCounted` speaks of the visits in a window now, and the window moves; `SinceInv`
says the same of the visits since *any* time: none is anywhere more often than it came, and
all of them are there when that time lies in the window, for what `checkCleanup` pops is
older. `HourInDay` needs `HourEndsDay`: the queue of the hour, with the merge thread, is the end of
that of the day, since both get the same visits and a visit the day pops is too old for the hour
as well. That `merge` keeps every visit of both queues, sorted or not, is `MergeFacts`, by
induction over the steps of its loop. `TopUrlsRight` follows from the others: the loop over the day
stops after some `m` of the sorted URLs (`AddDaysFacts`), with all of them unless the
result is full.

*Contentd* (`ContentdProofs`): `TypeCorrect`, `StatsAgreed`, `FilledWhenMerged`. `StatsAgree` is
inductive up to the types. `FillsMerged` needs `FillInv`: the merge thread merges only a batch
that is not empty, so `m_merge_finished` is never set while the days are empty.

The first sections of `HostDbProofs` and `EnqueueProofs` hold the lemmas about the operators of
`HostFreq` and `CrawlAttempts` (what a window pops, what `Add` and `SetStatus` keep). Those of
`QuotaProofs` and `FreqStatsProofs` hold the induction that sums and loops need. The
library's induction theorems take an operator, which no prover here can instantiate, so it is
done by the least counterexample: `LeastNat`, from the well-foundedness of the naturals, and `UpTo`,
which has a set in place of the operator. A recursive function is shown to exist before
its equation is used (`SumExists`, `It1Exists`, `AddedExists`). No module here has a
RECURSIVE operator.

Only model-checked: the liveness properties `HostRecovers`, `PagesTried`, `MatchFound`,
`DayReached`, `AllAnswered`, `CallsAnswered`, `StopEnds` and `DryRunEnds`. Liveness under
fairness and ENABLED are out of the prover's reach. The properties of section 4 belong to no
run and do not hold.

## 6. Not modelled

- The destructor of UrlsDaysDb, which takes a last snapshot: nothing destroys one in
  production. A process that is killed is the `Restart` of the models.
- `core/UrlFreqStats.cpp`, the variant of UrlFreqStatsLF with a mutex: tests only.
  So are `IPageDb::load`, `HostDb::onRobotsTxt`, `checkSortedAndDestroyQueue`. `CrawlAttempts::set` and
  `UrlsDays::dump` of the whole map are called by tests or by nothing.
- Tokens, keys and headers of the API: a request that is not authorised changes nothing, and
  the keys are written once at the start.
- `hasRobots` and `sizeRobots` of HostDb, which only read.
- What `last4xx5xxCount` should be: it never counts the first attempt of the list (`core/CrawlAttempts.cpp:79`), and
  nothing says whether it should. The waits are modelled as they are.
- The order in which the members of a FetchLoop die (`worker/FetchLoop.h:72`): only at the end of a process that
  nothing stops in production.
- Parsing of pages and robots.txt, the trie, command lines and configuration files,
  logging, and the Kafka, gRPC, HTTP, leveldb and Scylla drivers: input/output or
  external.
- Contentd's last wait: `~APIv1` calls `stop()` of a server that may not listen yet; such a
  stop is lost and the join waits for ever (`StoppedEarly`). The model has it, and
  `DryRunEnds` names it. It also names the wait of a dry run with nothing to merge.
- In Contentd, the end of the process by a save that throws in the worker: that is `Crash` of FetchLoop. Also the waits of
  UrlFreqStatsLF's merge, beyond what section 2 says of `WaitFreqMerged`.
- A ranking that changes while EnqueueLoop searches the top: `Top` is a constant of Enqueue.
- In SchedulerServer: two servers after each other on one port, and deadlines of the clients
  (there are none).

## 7. Plan

1. *(done)* HostFreq, HostDb, CrawlAttempts, Enqueue, Matching and their proofs; UrlsDaysDb.
2. *(done)* Quota; FreqStats; Delivery, FetchLoop and the refinement; SchedulerServer; QueryApi;
   Contentd; proofs of FetchLoop, SchedulerServer, QueryApi, UrlsDaysDb and Contentd.
3. *(done)* The proofs of Quota and FreqStats, and `VisitsConserved`: every safety property that a
   run checks is a theorem.
4. *(done)* Failing writes and partial scans of HostDb and UrlDb, spellings of URLs, visits ahead of the clock, groups that are
   not UTF-8.
5. An abstract specification of politeness, a semaphore per host with leaks, and HostDb shown to
   implement it, in TLC and in TLAPS; FetchLoop composed with it in place of "any part of a slice".
6. FetchLoop composed with Matching through the page store: a page reported and saved is matched.
7. UrlFreqStats as the abstract specification of UrlFreqStatsLF: only once the global windows
   are cleaned, since today they differ.
8. Runs stay few: where two runs ask questions of the same instance they are merged.
