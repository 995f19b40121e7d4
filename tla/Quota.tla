-------------------------------- MODULE Quota --------------------------------
(***************************************************************************)
(* How many URLs EnqueueLoop puts into the global fetch queue in an hour.  *)
(*   scheduler/default/EnqueueLoop  the loop: it reads what was finished   *)
(*                                  and queued today, and pushes the rest  *)
(*                                  of this hour's share,                  *)
(*   ldb/CrawledDb                  the counters it reads: one list of     *)
(*                                  days for each status, in a UrlsDaysDb, *)
(*   worker/FetchLoop               whose results CrawledDb counts.        *)
(*                                                                         *)
(* Every counter is read under a lock of its own and changes only when the *)
(* merge thread of the UrlsDaysDb switches its map.  "Today" is the last   *)
(* day a status has an entry for: only that entry is kept here.            *)
(***************************************************************************)
EXTENDS Integers, Sequences, FiniteSetsExt, SequencesExt, TLC

CONSTANTS
  Enqueued,        \* ATTEMPT_STATUS_ENQUEUED
  Finished,        \* m_enum_finished_values, in their order
  TargetDayCrawl,  \* sched_target_day_crawl
  HoursInDay,
  MaxTime,         \* bound: the clock, in hours
  MaxPush,         \* bound: URLs pushed in a day
  MaxResults       \* bound: results

Statuses == {Enqueued} \cup ToSet(Finished)

ASSUME QuotaAssumption ==
  /\ Finished \in Seq(ToSet(Finished)) /\ IsInjective(Finished)
  /\ Enqueued \notin ToSet(Finished)
  /\ {TargetDayCrawl, HoursInDay} \subseteq Nat \ {0}
  /\ {MaxTime, MaxPush, MaxResults} \subseteq Nat

VARIABLES
  now,         \* the clock
  q,           \* UrlsDaysDb::m_q: the counts not merged yet, by status and day
  last,        \* m_urls_days: the last day of each status
  pc,          \* where the loop is
  reads,       \* the counters it has still to read
  finished,    \* crawled_today
  hourTarget,  \* target_current_hour
  inProgress,  \* in_progress_now
  pushing,     \* push_urls.size()
  flight,      \* the records in the global fetch queue and with the workers
  racing,      \* history: this round's counters are not of one moment, or lack its pushes
  oldest,      \* history: the oldest day whose results this round counts
  stale,       \* history: was that an earlier day than that of the target?
  allowed,     \* history: what may be in flight once this round has pushed
  carried,     \* history: flight at midnight
  pushed,      \* history: the URLs pushed today
  counted,     \* history: the most results a round counted for today, or the target
  raced,       \* history: was there a racing round today?
  results      \* history: how many results came

countVars == <<q, last>>
loopVars == <<pc, reads, finished, hourTarget, inProgress, pushing>>
historyVars == <<carried, pushed, counted, raced>>
roundVars == <<racing, oldest, stale, allowed>>
vars == <<now, countVars, loopVars, flight, roundVars, historyVars, results>>

Today == now \div HoursInDay + 1
LastDay == MaxTime \div HoursInDay + 1
HoursTillMidnight == (HoursInDay - 1) - (now % HoursInDay)

NoCounts == <<>>
\* UrlsDays::add: an entry comes to be even for a count of zero.
AddCount(m, key, n) ==
  [k \in DOMAIN m \cup {key} |->
     (IF k \in DOMAIN m THEN m[k] ELSE 0) + (IF k = key THEN n ELSE 0)]

\* No entry yet: _getTodayEvents returns 0.
NoEntry == [day |-> 0, cnt |-> 0]

IsCounts(m) ==
  \A k \in DOMAIN m : k \in Statuses \X (1 .. LastDay) /\ m[k] \in Nat

TypeOK ==
  /\ now \in 0 .. MaxTime
  /\ IsCounts(q)
  /\ last \in [Statuses -> [day : 0 .. LastDay, cnt : Nat]]
  /\ pc \in {"sleep", "target", "progress", "save"}
  /\ reads \in Seq(Statuses)
  /\ finished \in Nat /\ {hourTarget, inProgress} \subseteq Int
  /\ {pushing, flight, carried, pushed, counted, results, oldest, allowed} \subseteq Nat
  /\ {racing, stale, raced} \subseteq BOOLEAN

Init ==
  /\ now = 0
  /\ q = NoCounts /\ last = [s \in Statuses |-> NoEntry]
  /\ pc = "sleep" /\ reads = <<>>
  /\ finished = 0 /\ hourTarget = 0 /\ inProgress = 0 /\ pushing = 0
  /\ flight = 0 /\ racing = FALSE /\ oldest = LastDay
  /\ stale = FALSE /\ allowed = 0
  /\ carried = 0 /\ raced = FALSE /\ results = 0
  /\ pushed = 0 /\ counted = TargetDayCrawl

-----------------------------------------------------------------------------
(***************************************************************************)
(* The merge thread of CrawledDb's UrlsDaysDb: it switches to a map with   *)
(* what it found in the queue a moment before, some of the counts.         *)
(***************************************************************************)
MergedEntry(s, taken) ==
  LET days == {d \in 1 .. LastDay : <<s, d>> \in taken /\ d >= last[s].day}
      day == Max(days)
  IN  IF days = {} THEN last[s]
      ELSE [day |-> day,
            cnt |-> q[s, day] + IF day = last[s].day THEN last[s].cnt ELSE 0]

Merge(taken) ==
  /\ taken # {}
  /\ last' = [s \in Statuses |-> MergedEntry(s, taken)]
  /\ q' = Restrict(q, DOMAIN q \ taken)
  /\ racing' = (racing \/ pc \in {"target", "progress"})
  /\ UNCHANGED <<now, loopVars, flight, oldest, stale, allowed, historyVars, results>>

-----------------------------------------------------------------------------
(***************************************************************************)
(* One round of the loop.                                                  *)
(***************************************************************************)
Unmerged(s) == \E k \in DOMAIN q : k[1] = s

\* loop, _loopImpl, _checkEnqueueImpl: down to the first call of getFinishedToday.
StartRound ==
  /\ pc = "sleep"
  /\ pc' = "target"
  /\ reads' = Finished
  /\ racing' = Unmerged(Enqueued)
  /\ UNCHANGED <<now, countVars, finished, hourTarget, inProgress, pushing, flight, oldest,
                 stale, allowed, historyVars, results>>

\* _getTodayEvents, as getFinishedToday and getInProgress add it up.
GetTodayEvents ==
  /\ reads # <<>>
  /\ LET s == Head(reads)
         cnt == last[s].cnt
     IN  /\ finished' = IF pc = "target" THEN finished + cnt ELSE finished
         /\ inProgress' = IF pc = "target" THEN inProgress
                          ELSE IF s = Enqueued THEN inProgress + cnt
                          ELSE inProgress - cnt
         /\ oldest' = IF pc = "target" /\ cnt > 0 THEN Min({oldest, last[s].day}) ELSE oldest
  /\ reads' = Tail(reads)
  /\ UNCHANGED <<now, countVars, pc, hourTarget, pushing, flight, racing, stale, allowed,
                 historyVars, results>>

\* The division of C++.
Quotient(a, b) == IF a < 0 THEN -((-a) \div b) ELSE a \div b

ShareOfWhole(left) ==
  IF HoursTillMidnight = 0 THEN TargetDayCrawl
  ELSE Quotient(TargetDayCrawl, HoursTillMidnight)

Share(left) == IF HoursTillMidnight = 0 THEN left ELSE Quotient(left, HoursTillMidnight)

\* The rest of _calcHourTarget, and the call of getInProgress.  C++ may evaluate the two operands of the
\* subtraction in getInProgress in either order.
CalcHourTarget ==
  /\ pc = "target" /\ reads = <<>>
  /\ hourTarget' = Share(TargetDayCrawl - finished)
  /\ reads' \in {<<Enqueued>> \o Finished, Finished \o <<Enqueued>>}
  /\ stale' = (oldest < Today)
  /\ allowed' = carried + Share(TargetDayCrawl)
  /\ oldest' = LastDay
  /\ pc' = "progress"
  /\ UNCHANGED <<now, countVars, finished, inProgress, pushing, flight, racing,
                 historyVars, results>>

ToEnqueueAll == hourTarget

\* _calcToEnqueueNow
ToEnqueueNow == IF inProgress < hourTarget THEN hourTarget - inProgress ELSE 0

\* _pushToKafka: searchTop is taken to find as many URLs as it is asked for.
PushToKafka ==
  LET n == Min({ToEnqueueNow, MaxPush - pushed})
  IN  /\ pc = "progress" /\ reads = <<>>
      /\ pushing' = n
      /\ flight' = flight + n
      /\ pushed' = pushed + n
      /\ counted' = Max({counted, finished})
      /\ raced' = (raced \/ racing)
      /\ pc' = "save"
      /\ finished' = 0 /\ hourTarget' = 0 /\ inProgress' = 0
      /\ racing' = FALSE /\ oldest' = LastDay /\ stale' = FALSE /\ allowed' = 0
      /\ UNCHANGED <<now, countVars, reads, carried, results>>

SaveEnqueuedIfAny ==
  /\ pc = "save"
  /\ q' = IF pushing = 0 THEN q ELSE AddCount(q, <<Enqueued, Today>>, pushing)
  /\ pc' = "sleep" /\ pushing' = 0
  /\ UNCHANGED <<now, last, reads, finished, hourTarget, inProgress, flight,
                 roundVars, historyVars, results>>

\* saveResult, also of no URL at all.
SaveEnqueued ==
  /\ pc = "save"
  /\ q' = AddCount(q, <<Enqueued, Today>>, pushing)
  /\ pc' = "sleep" /\ pushing' = 0
  /\ UNCHANGED <<now, last, reads, finished, hourTarget, inProgress, flight,
                 roundVars, historyVars, results>>

-----------------------------------------------------------------------------
\* CrawledDb::onFetched of one result; a record need not have one.
OnFetched(status) ==
  /\ flight > 0 /\ results < MaxResults
  /\ flight' = flight - 1
  /\ results' = results + 1
  /\ q' = AddCount(q, <<status, Today>>, 1)
  /\ UNCHANGED <<now, last, loopVars, roundVars, historyVars>>

Tick ==
  /\ now < MaxTime
  /\ now' = now + 1
  /\ IF Today' = Today THEN UNCHANGED historyVars
     ELSE /\ carried' = flight
          /\ pushed' = 0 /\ counted' = TargetDayCrawl /\ raced' = FALSE
  /\ UNCHANGED <<countVars, loopVars, flight, roundVars, results>>

-----------------------------------------------------------------------------
LoopStep ==
  \/ StartRound
  \/ GetTodayEvents
  \/ CalcHourTarget
  \/ PushToKafka
  \/ SaveEnqueued

Next ==
  \/ LoopStep
  \/ \E taken \in SUBSET DOMAIN q : Merge(taken)
  \/ \E i \in DOMAIN Finished : OnFetched(Finished[i])
  \/ Tick

Spec == Init /\ [][Next]_vars

(***************************************************************************)
(* Fairness: both threads run and the clock goes on.  That results come is *)
(* not assumed.                                                            *)
(***************************************************************************)
FairSpec ==
  /\ Spec
  /\ WF_vars(LoopStep) /\ WF_vars(Merge(DOMAIN q)) /\ WF_vars(Tick)

-----------------------------------------------------------------------------
(* A day's pushes stay within the target, or within the results that were  *)
(* counted for that day when there are more of them, over all rounds and   *)
(* hours; unless in some round the merge thread came in between two reads, *)
(* or had not yet merged the pushes of the round before.                   *)
(* (EnqueueLoop.cpp:43-84, CrawledDb.cpp:41-64, EnqueueLoop.h:17-24)       *)
DayQuota ==
  raced \/ pushed <= counted

Pushes == pc = "progress" /\ pc' = "save" /\ pushing' > 0

(* A push leaves no more in flight than an hour's share of the target, on  *)
(* top of what midnight found in flight: unless the round raced with a     *)
(* merge or counted results of an earlier day as today's.                  *)
(* (EnqueueLoop.cpp:60-84, CrawledDb.cpp:49-64)                            *)
HourPaced ==
  [][Pushes /\ ~racing /\ ~stale => flight' <= allowed]_vars

(* "Задача - дернуть target_day_crawl в сутки" (EnqueueLoop.h:17): by the  *)
(* end of the day that much has been enqueued, whatever counters of the    *)
(* day before the loop began with, and even if no result comes back.       *)
(* (EnqueueLoop.cpp:36-37, :60-84)                                         *)
DayReached ==
  <>(last[Enqueued].day = LastDay /\ last[Enqueued].cnt >= TargetDayCrawl)

-----------------------------------------------------------------------------
(***************************************************************************)
(* The inductive invariant behind DayQuota and HourPaced.                  *)
(***************************************************************************)
\* The counts c of the first n statuses a fetch can end with.
SumTo(c, n) ==
  LET sum[m \in 0 .. n] == IF m = 0 THEN 0 ELSE sum[m - 1] + c[Finished[m]]
  IN  sum[n]

\* What was counted for a day, merged or not, and what the loop reads.
CountedOn(s, d) ==
  (IF <<s, d>> \in DOMAIN q THEN q[<<s, d>>] ELSE 0) + (IF last[s].day = d THEN last[s].cnt ELSE 0)
CountedToday == [s \in Statuses |-> CountedOn(s, Today)]
Merged == [s \in Statuses |-> last[s].cnt]

DaysInv ==
  /\ \A k \in DOMAIN q : k[2] <= Today
  /\ \A s \in Statuses : last[s].day <= Today

CountInv ==
  /\ pushed <= MaxPush /\ pushed <= CountedToday[Enqueued] + pushing
  /\ pc # "save" => pushing = 0
  /\ flight + SumTo(CountedToday, Len(Finished)) = carried + pushed
  /\ counted >= TargetDayCrawl

Rest(i) == SubSeq(Finished, i + 1, Len(Finished))

\* The loop has read the first i of the results.
TargetInv ==
  \E i \in 0 .. Len(Finished) :
    /\ reads = Rest(i)
    /\ ~racing => /\ finished = SumTo(Merged, i)
                  /\ \A j \in 1 .. i :
                       last[Finished[j]].cnt > 0 => oldest <= last[Finished[j]].day
    /\ inProgress = 0

\* It reads the pushes before or after the results.
ProgressInv ==
  /\ hourTarget <= 0 \/ hourTarget + finished <= TargetDayCrawl
  /\ \/ reads = <<Enqueued>> \o Finished /\ inProgress = 0
     \/ \E i \in 0 .. Len(Finished) :
          /\ reads = Rest(i)
          /\ ~racing => inProgress = last[Enqueued].cnt - SumTo(Merged, i)
     \/ \E i \in 0 .. Len(Finished) :
          /\ reads = Rest(i) \o <<Enqueued>>
          /\ ~racing => inProgress = 0 - SumTo(Merged, i)
  /\ ~racing =>
       /\ finished = SumTo(Merged, Len(Finished))
       /\ ~stale => flight + hourTarget + finished <= allowed + last[Enqueued].cnt

RoundInv ==
  /\ pc \in {"target", "progress"} /\ ~racing => ~Unmerged(Enqueued)
  /\ pc \in {"sleep", "save"} => reads = <<>> /\ finished = 0 /\ inProgress = 0
  /\ pc = "target" => TargetInv
  /\ pc = "progress" => ProgressInv

IInv == TypeOK /\ DaysInv /\ CountInv /\ RoundInv

-----------------------------------------------------------------------------
(* "чтобы выполнить часовые, суточные квоты" (Scheduler.h:17, to keep the  *)
(* hourly and daily quotas): the share of an hour holds after midnight as  *)
(* it does before.                                                         *)
HourPacedAlways ==
  [][Pushes /\ ~racing => flight' <= allowed]_vars
=============================================================================
