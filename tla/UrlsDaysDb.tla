----------------------------- MODULE UrlsDaysDb -----------------------------
(***************************************************************************)
(* ldb/UrlsDays.h and ldb/UrlsDaysDb*: the visits of each URL, by day, for *)
(* the last Days days.  LoadLoop saves visits into a lock-free queue; the  *)
(* merge thread drains it into a map of its own, merges that into a copy   *)
(* of the global map and puts the copy in its place; the snapshot thread   *)
(* copies the global map and writes it to leveldb; a restart loads what    *)
(* was written, and the scheduler fills UrlFreqStats from it.  CrawledDb   *)
(* keeps the results of fetches in another instance of the same class.     *)
(*                                                                         *)
(* The merge thread is the only writer of the global map after the start,  *)
(* so its copy under the read lock and the switch under the write lock are *)
(* one step here.                                                          *)
(***************************************************************************)
EXTENDS Integers, FiniteSets, Bags, TLC

CONSTANTS
  Url,
  NoUrl,       \* the empty string, which UrlDaysImpl() leaves in its url
  Days,        \* DAYS
  DayLen,      \* the ticks in a day
  Age,         \* how old a visit can be when it is saved, less than 0 for one
               \* whose timestamp is ahead of the clock
  Pack,        \* how many visits one saveVisitsPack can hold
  MaxTime,     \* bound: the clock
  MaxSaves,    \* bound: calls of saveVisit and saveVisitsPack
  MaxRestart   \* bound: restarts

Retention == (Days - 1) * DayLen   \* m_duration

ASSUME UrlsDaysAssumption ==
  /\ NoUrl \notin Url
  /\ IsFiniteSet(Url)
  /\ Days \in Nat \ {0} /\ DayLen \in Nat \ {0}
  /\ Age \subseteq Int
  /\ Pack \subseteq Nat \ {0}
  /\ {MaxTime, MaxSaves, MaxRestart} \subseteq Nat

VARIABLES
  q,         \* m_q, a bag: its producers' records come in any order
  mergePc,   \* where the merge thread is
  upd,       \* upd_urls_days_local
  mem,       \* m_urls_days
  snap,      \* _saveSnapshot's copy
  toPut,     \* the URLs it has not written yet
  disk,      \* the leveldb
  now,       \* the clock
  saved,     \* history: the visits loaded and saved since, by day
  ahead,     \* history: the days of each URL that were still to come when visits
             \* of them were saved
  written,   \* history: the map the last snapshot written to its end had
  saves,     \* history: how often visits were saved
  restarts   \* history: how many times the process restarted

mergeVars == <<q, mergePc, upd>>
snapVars == <<snap, toPut>>
vars == <<q, mergePc, upd, mem, snap, toPut, disk, now, saved, ahead, written, saves, restarts>>

DayOf(t) == t \div DayLen

\* UrlDaysImpl: the map from days to visits is a bag of days.
IsUrlDays(e) ==
  /\ e = [url |-> e.url, days |-> e.days]
  /\ e.url \in Url \cup {NoUrl}
  /\ \A d \in DOMAIN e.days : d \in Nat /\ e.days[d] \in Nat \ {0}

NoVisits(url) == [url |-> url, days |-> EmptyBag]

\* UrlsDays: a map from some of the URLs.
NoUrls == <<>>
PutAt(m, u, e) == [x \in DOMAIN m \cup {u} |-> IF x = u THEN e ELSE m[x]]
EntryOf(m, u, new) == IF u \in DOMAIN m THEN m[u] ELSE NoVisits(new)

LastStoreDayOneMore(t) == DayOf(t - Retention) - 1

\* The first day checkClean leaves alone.
LastStoreDay(t) == DayOf(t - Retention)

CheckClean(days, t) ==
  [d \in {e \in DOMAIN days : e >= LastStoreDay(t)} |-> days[d]]

\* UrlsDays::add of a record, which may be too old.
AddPack(m, rec, t) ==
  IF t - rec.tp > Retention THEN m
  ELSE PutAt(m, rec.url,
         [EntryOf(m, rec.url, rec.url) EXCEPT !.days =
            CheckClean(@ (+) [d \in {DayOf(rec.tp)} |-> rec.cnt], t)])

MergeDaysOver(a, b, t) ==
  [a EXCEPT !.days = CheckClean(b.days @@ @, t)]

\* UrlDaysImpl::merge into an entry that may be new.
MergeDays(a, b, t) ==
  [a EXCEPT !.days = IF @ = EmptyBag THEN b.days ELSE CheckClean(@ (+) b.days, t)]

\* UrlsDays::merge: an entry that is new to the global map has no URL yet.
Merge(m, u, t) ==
  [x \in DOMAIN m \cup DOMAIN u |->
     IF x \in DOMAIN u THEN MergeDays(EntryOf(m, x, NoUrl), u[x], t) ELSE m[x]]

\* UrlTpStat.
Record == [url : Url, tp : Nat, cnt : Pack]

TypeOK ==
  /\ \A rec \in DOMAIN q : rec \in Record /\ q[rec] \in Nat \ {0}
  /\ mergePc \in {"sleep", "drain", "merge"}
  /\ mergePc = "sleep" => upd = NoUrls
  /\ \A m \in {upd, mem, snap, disk, written} :
       DOMAIN m \subseteq Url /\ \A u \in DOMAIN m : IsUrlDays(m[u])
  /\ toPut \subseteq DOMAIN snap
  /\ now \in Nat /\ now >= Retention
  /\ saves \in Nat /\ restarts \in Nat
  /\ DOMAIN saved = Url
  /\ \A u \in Url : IsUrlDays([url |-> u, days |-> saved[u]])
  /\ ahead \in [Url -> SUBSET Nat]

Init ==
  /\ q = EmptyBag /\ mergePc = "sleep" /\ upd = NoUrls
  /\ mem = NoUrls /\ snap = NoUrls /\ toPut = {} /\ disk = NoUrls
  /\ now = Retention
  /\ saved = [u \in Url |-> EmptyBag]
  /\ ahead = [u \in Url |-> {}]
  /\ written = NoUrls
  /\ saves = 0 /\ restarts = 0

-----------------------------------------------------------------------------
\* saveVisit, saveVisitsPack: called by LoadLoop for a visit of any age.  Nothing
\* checks the timestamps of the stream: a visit may lie in the future as well.
SaveVisitsPack(u, age, cnt) ==
  /\ saves < MaxSaves
  /\ age <= now
  /\ saves' = saves + 1
  /\ q' = q (+) SetToBag({[url |-> u, tp |-> now - age, cnt |-> cnt]})
  /\ saved' = [saved EXCEPT ![u] = @ (+) [d \in {DayOf(now - age)} |-> cnt]]
  /\ ahead' = [ahead EXCEPT ![u] = @ \cup {d \in {DayOf(now - age)} : d > DayOf(now)}]
  /\ UNCHANGED <<mergePc, upd, mem, snapVars, disk, now, written, restarts>>

-----------------------------------------------------------------------------
(***************************************************************************)
(* The merge thread.                                                       *)
(***************************************************************************)
StartMerge ==
  /\ mergePc = "sleep"
  /\ mergePc' = "drain"
  /\ UNCHANGED <<q, upd, mem, snapVars, disk, now, saved, ahead, written, saves, restarts>>

Dequeue(rec) ==
  /\ mergePc = "drain"
  /\ BagIn(rec, q)
  /\ q' = q (-) SetToBag({rec})
  /\ upd' = AddPack(upd, rec, now)
  /\ UNCHANGED <<mergePc, mem, snapVars, disk, now, saved, ahead, written, saves, restarts>>

\* The queue is empty; without anything to merge the thread sleeps again.
EndDrain ==
  /\ mergePc = "drain"
  /\ q = EmptyBag
  /\ mergePc' = IF upd = NoUrls THEN "sleep" ELSE "merge"
  /\ UNCHANGED <<q, upd, mem, snapVars, disk, now, saved, ahead, written, saves, restarts>>

SwitchGlobalKept ==
  /\ mergePc = "merge"
  /\ mem' = Merge(mem, upd, now)
  /\ mergePc' = "sleep"
  /\ UNCHANGED <<q, upd, snapVars, disk, now, saved, ahead, written, saves, restarts>>

SwitchGlobal ==
  /\ mergePc = "merge"
  /\ mem' = Merge(mem, upd, now)
  /\ upd' = NoUrls
  /\ mergePc' = "sleep"
  /\ UNCHANGED <<q, snapVars, disk, now, saved, ahead, written, saves, restarts>>

-----------------------------------------------------------------------------
(***************************************************************************)
(* The snapshot thread: a copy, then one write for each URL; a write that  *)
(* fails ends the snapshot.                                                *)
(***************************************************************************)
StartSnapshot ==
  /\ toPut = {}
  /\ restarts < MaxRestart   \* bound: no snapshot nobody will load
  /\ mem # NoUrls
  /\ snap' = mem
  /\ toPut' = DOMAIN mem
  /\ UNCHANGED <<mergeVars, mem, disk, now, saved, ahead, written, saves, restarts>>

PutSkipped(u) ==
  /\ u \in toPut
  /\ toPut' = toPut \ {u}
  /\ \/ disk' = PutAt(disk, u, snap[u])
     \/ UNCHANGED disk
  /\ written' = IF toPut' = {} THEN snap ELSE written
  /\ snap' = IF toPut' = {} THEN NoUrls ELSE snap
  /\ UNCHANGED <<mergeVars, mem, now, saved, ahead, saves, restarts>>

Put(u) ==
  /\ u \in toPut
  /\ \/ /\ disk' = PutAt(disk, u, snap[u])
        /\ toPut' = toPut \ {u}
        /\ written' = IF toPut' = {} THEN snap ELSE written
     \/ /\ toPut' = {}
        /\ UNCHANGED <<disk, written>>
  /\ snap' = IF toPut' = {} THEN NoUrls ELSE snap
  /\ UNCHANGED <<mergeVars, mem, now, saved, ahead, saves, restarts>>

\* The process is killed and started again.  A scan of the leveldb that fails
\* leaves the map empty.
Restart ==
  /\ restarts < MaxRestart
  /\ restarts' = restarts + 1
  /\ \/ mem' = disk /\ written' = written
     \/ mem' = NoUrls /\ written' = NoUrls
  /\ q' = EmptyBag /\ mergePc' = "sleep" /\ upd' = NoUrls
  /\ snap' = NoUrls /\ toPut' = {}
  /\ saved' = [u \in Url |-> EntryOf(mem', u, u).days]
  /\ UNCHANGED <<disk, now, ahead, saves>>

Tick ==
  /\ now < MaxTime
  /\ now' = now + 1
  /\ UNCHANGED <<mergeVars, mem, snapVars, disk, saved, ahead, written, saves, restarts>>

-----------------------------------------------------------------------------
Next ==
  \/ \E u \in Url, age \in Age, cnt \in Pack : SaveVisitsPack(u, age, cnt)
  \/ StartMerge
  \/ \E rec \in BagToSet(q) : Dequeue(rec)
  \/ EndDrain
  \/ SwitchGlobal
  \/ StartSnapshot
  \/ \E u \in toPut : Put(u)
  \/ Restart
  \/ Tick

Spec == Init /\ [][Next]_vars

-----------------------------------------------------------------------------
\* The visits that the records of a queue stand for, and those of u on day d.
VisitsIn(queue) == UNION {{rec} \X (1 .. queue[rec] * rec.cnt) : rec \in BagToSet(queue)}
VisitsOf(queue, u, d) == {v \in VisitsIn(queue) : v[1].url = u /\ DayOf(v[1].tp) = d}
Queued(u, d) == Cardinality(VisitsOf(q, u, d))

On(days, d) == IF d \in DOMAIN days THEN days[d] ELSE 0
Visits(m, u, d) == On(EntryOf(m, u, u).days, d)

\* b's visits of the days that are kept at t, a has too.
Covers(a, b, t) ==
  \A u \in Url : \A d \in DOMAIN EntryOf(b, u, u).days :
    d >= LastStoreDay(t) => Visits(a, u, d) >= Visits(b, u, d)

\* What was saved of a day is in the queue, with the merge thread or in the map.
Conserved(u, d) ==
  Queued(u, d) + Visits(upd, u, d) + Visits(mem, u, d) = On(saved[u], d)

(* No visit is lost or counted twice on its way from the queue into the    *)
(* map, whatever the threads do and whenever the day turns, of all days    *)
(* kept whole, those to come included.  (Of the first day kept, visits are *)
(* dropped as its hours pass.)  (UrlsDays.h:67-127, UrlsDaysDb.cpp:73-104) *)
VisitsConserved ==
  \A u \in Url : \A d \in DOMAIN saved[u] \cup DOMAIN EntryOf(mem, u, u).days :
    d > LastStoreDay(now) => Conserved(u, d)

(* No URL ever has more than Days days of visits, on whichever day it was  *)
(* last merged and whatever was lost and loaded since, but for those a     *)
(* visit reached ahead of its day: nothing keeps visits with a timestamp   *)
(* in the future out, and they come on top of the Days days.               *)
(* (UrlsDays.h:16, :80-127)                                                *)
DaysBounded ==
  \A u \in DOMAIN mem : Cardinality(DOMAIN mem[u].days \ ahead[u]) <= Days

(* What a snapshot has written to its end stays: a later one that fails    *)
(* half-way, or that a restart interrupts, takes nothing of it away but    *)
(* the days that are over.  (UrlsDaysDbSnap.cpp:15-53)                     *)
SnapshotCovers == Covers(disk, written, now)

-----------------------------------------------------------------------------
(***************************************************************************)
(* The inductive invariant behind TypeOK, DaysBounded and SnapshotCovers.  *)
(***************************************************************************)
\* A URL's days but those in over are of Days successive ones, none of them to
\* come.
InWindow(days, over, t) ==
  /\ \E first \in 0 .. DayOf(t) : DOMAIN days \ over \subseteq first .. first + Days - 1
  /\ \A d \in DOMAIN days \ over : d <= DayOf(t)

DaysInv ==
  /\ \A rec \in DOMAIN q :
       DayOf(rec.tp) <= DayOf(now) \/ DayOf(rec.tp) \in ahead[rec.url]
  /\ \A m \in {upd, mem, snap, disk, written} : \A u \in DOMAIN m :
       InWindow(m[u].days, ahead[u], now)

CoverInv ==
  /\ Covers(disk, written, now) /\ Covers(mem, written, now)
  /\ toPut # {} =>
       /\ Covers(snap, written, now) /\ Covers(mem, snap, now)
       /\ \A u \in DOMAIN snap \ toPut : u \in DOMAIN disk /\ disk[u] = snap[u]

IInv == TypeOK /\ DaysInv /\ CoverInv

\* What VisitsConserved takes besides.
ConservedInv ==
  /\ \A u \in Url : \A d \in Nat : d > LastStoreDay(now) => Conserved(u, d)
  /\ IsFiniteSet(VisitsIn(q))

-----------------------------------------------------------------------------
(* "При старте отсюда конструируются UrlFreqMaps" (UrlsDaysDb.h:27): what  *)
(* iterateAll hands to Scheduler::_fillUrlFreqStats is of the URL it is    *)
(* stored under.                                                           *)
VisitsOfTheirUrl ==
  \A u \in DOMAIN mem : mem[u].days # EmptyBag => mem[u].url = u

(* "Store last DAYS visits, drop older" (UrlsDays.h:16), of any visits.    *)
DaysLimit == \A u \in DOMAIN mem : Cardinality(DOMAIN mem[u].days) <= Days
=============================================================================
