------------------------------ MODULE FreqStats ------------------------------
(***************************************************************************)
(* Which URLs are visited most.                                            *)
(*   core/UrlFreqMap        one sliding window: the visits in it and their *)
(*                          number for each URL,                           *)
(*   core/LastPerMaps       the window of an hour and that of a day,       *)
(*   core/UrlFreqStatsLF    both behind a queue: LoadLoop inserts, a merge *)
(*                          thread counts what came into windows of its    *)
(*                          own, merges these into a copy of the global    *)
(*                          ones and switches, EnqueueLoop reads the top,  *)
(*   scheduler/default/     LoadLoop, which hands on the stream of visits, *)
(*                          and Scheduler, which first fills the windows   *)
(*                          with the days kept in UrlsDaysDb.              *)
(* The merge thread itself (misc::MergeQueue) is outside the repository:   *)
(* accEvent for each event of the queue, then copyGlobalObj, merge and     *)
(* switchGlobalObj, of which only the switch takes the write lock.         *)
(***************************************************************************)
EXTENDS Integers, Sequences, FiniteSetsExt, SequencesExt

CONSTANTS
  Url,
  Window,      \* m_hour_map and m_day_map, as their m_window
  Age,         \* how old a visit can be when it is read from the stream
  Pack,        \* the visits of a URL on one day that UrlsDaysDb has
  Limit,       \* the limits EnqueueLoop asks for
  MaxTime,     \* bound: the clock
  MaxEvents    \* bound: visits and packs

Hour == Min(Window)
Day == Max(Window)
FirstTime == Max(Age)

ASSUME FreqStatsAssumption ==
  /\ Window \subseteq Nat /\ Window # {} /\ IsFiniteSet(Window)
  /\ Age \subseteq Nat /\ Age # {} /\ IsFiniteSet(Age)
  /\ Pack \subseteq Nat \ {0} /\ Limit \subseteq Nat
  /\ {MaxTime, MaxEvents} \subseteq Nat /\ FirstTime <= MaxTime

VARIABLES
  filling,   \* is Scheduler::_fillUrlFreqStats still running?
  q,         \* the events pushed to the MergeQueue
  merging,   \* is the merge thread at work?
  upd,       \* the windows it counts events in
  mem,       \* m_maps
  now,       \* the clock
  events     \* history: all visits and packs so far

vars == <<filling, q, merging, upd, mem, now, events>>

\* UrlTpStat
Uts == [url : Url, tp : Nat, cnt : Nat \ {0}]

-----------------------------------------------------------------------------
(***************************************************************************)
(* UrlFreqMap: freq is m_url_freq (URLs that are not in it have 0 visits), *)
(* q is m_uts_q.                                                           *)
(***************************************************************************)
NewMap == [freq |-> [u \in Url |-> 0], q |-> <<>>]

SumTo(c, n) ==
  LET sum[m \in 0 .. n] == IF m = 0 THEN 0 ELSE sum[m - 1] + c[m]
  IN  sum[n]

\* The visits of u in the sequence s that are not from before t, and all.
CntSince(s, u, t) ==
  SumTo([i \in 1 .. Len(s) |-> IF s[i].url = u /\ s[i].tp >= t THEN s[i].cnt ELSE 0], Len(s))

CntOf(s, u) == CntSince(s, u, 0)

\* How many events checkCleanup pops: it stops at the first that is young enough.
Popped(m, t, window) ==
  Max({k \in 0 .. Len(m.q) : \A i \in 1 .. k : t - m.q[i].tp > window})

CheckCleanupKeepsFreq(m, t, window) ==
  [m EXCEPT !.q = SubSeq(@, Popped(m, t, window) + 1, Len(@))]

CheckCleanup(m, t, window) ==
  LET k == Popped(m, t, window)
  IN  [freq |-> [u \in Url |-> m.freq[u] - CntOf(SubSeq(m.q, 1, k), u)],
       q |-> SubSeq(m.q, k + 1, Len(m.q))]

InsertVisitsPack(m, uts, t, window) ==
  CheckCleanup([freq |-> [m.freq EXCEPT ![uts.url] = @ + uts.cnt],
                q |-> Append(m.q, uts)], t, window)

\* The loop of merge: it1[n] is how many of the first n it takes from a.
MergeQueues(a, b) ==
  LET FromA(i, j) == i < Len(a) /\ (j = Len(b) \/ a[i + 1].tp < b[j + 1].tp)
      it1[n \in 0 .. Len(a) + Len(b)] ==
        IF n = 0 THEN 0
        ELSE IF FromA(it1[n - 1], n - 1 - it1[n - 1]) THEN it1[n - 1] + 1
        ELSE it1[n - 1]
  IN  [n \in 1 .. Len(a) + Len(b) |->
         IF it1[n] # it1[n - 1] THEN a[it1[n]] ELSE b[n - it1[n]]]

MergeMapReplaces(a, b) ==
  [freq |-> [u \in Url |-> IF b.freq[u] > 0 THEN b.freq[u] ELSE a.freq[u]],
   q |-> MergeQueues(a.q, b.q)]

\* UrlFreqMap::merge
MergeMap(a, b) ==
  [freq |-> [u \in Url |-> a.freq[u] + b.freq[u]], q |-> MergeQueues(a.q, b.q)]

\* LastPerMaps
NewMaps == [w \in Window |-> NewMap]
InsertIntoMaps(m, uts, t) == [w \in Window |-> InsertVisitsPack(m[w], uts, t, w)]
MergeMaps(a, b) == [w \in Window |-> MergeMap(a[w], b[w])]

-----------------------------------------------------------------------------
(***************************************************************************)
(* UrlFreqStatsLF::getTopUrls without a filter: the results it can return, *)
(* each as the counts of some URLs.  std::sort puts equal counts into any  *)
(* order.                                                                  *)
(***************************************************************************)
Visited(m) == {u \in Url : m.freq[u] > 0}

\* UrlFreqMap::getTopUrls
TopUrls(m) ==
  {s \in SetToSeqs(Visited(m)) :
     \A i \in 1 .. Len(s) - 1 : m.freq[s[i]] >= m.freq[s[i + 1]]}

AddDay(r, u, cnt, limit) ==
  IF Cardinality(DOMAIN r) >= limit THEN r
  ELSE [v \in DOMAIN r \union {u} |->
          (IF v \in DOMAIN r THEN r[v] ELSE 0) + IF v = u THEN cnt ELSE 0]

\* The loop over the sorted day.
AddDays(r, day, freq, limit) ==
  LET map[n \in 0 .. Len(day)] ==
        IF n = 0 THEN r ELSE AddDay(map[n - 1], day[n], freq[day[n]], limit)
  IN  map[Len(day)]

LastOf(s, limit) == SubSeq(s, Max({1, Len(s) - limit + 1}), Len(s))

FirstOf(s, limit) == SubSeq(s, 1, Min({limit, Len(s)}))

GetTopUrls(maps, limit) ==
  {AddDays([u \in ToSet(FirstOf(hour, limit)) |-> maps[Hour].freq[u]], day,
           maps[Day].freq, limit) :
     hour \in TopUrls(maps[Hour]), day \in TopUrls(maps[Day])}

-----------------------------------------------------------------------------
IsMap(m) ==
  /\ m.freq \in [Url -> Nat]
  /\ m.q \in Seq(Uts)

TypeOK ==
  /\ {filling, merging} \subseteq BOOLEAN
  /\ q \in Seq(Uts)
  /\ \A w \in Window : IsMap(upd[w]) /\ IsMap(mem[w])
  /\ ~merging => upd = NewMaps
  /\ now \in FirstTime .. MaxTime
  /\ events \in Seq(Uts)

Init ==
  /\ filling = TRUE
  /\ q = <<>> /\ merging = FALSE /\ upd = NewMaps /\ mem = NewMaps
  /\ now = FirstTime
  /\ events = <<>>

\* UrlFreqStatsLF::insert and insertVisitsPack
Push(uts) ==
  /\ Len(events) < MaxEvents
  /\ q' = Append(q, uts)
  /\ events' = Append(events, uts)

\* Scheduler::_fillUrlFreqStats: the days of the URLs, in any order.
Fill(u, age, cnt) ==
  /\ filling
  /\ Push([url |-> u, tp |-> now - age, cnt |-> cnt])
  /\ UNCHANGED <<filling, merging, upd, mem, now>>

StartLoading ==
  /\ filling
  /\ filling' = FALSE
  /\ UNCHANGED <<q, merging, upd, mem, now, events>>

\* LoadLoop::_loopImpl of one visit.
Load(u, age) ==
  /\ ~filling
  /\ Push([url |-> u, tp |-> now - age, cnt |-> 1])
  /\ UNCHANGED <<filling, merging, upd, mem, now>>

-----------------------------------------------------------------------------
(***************************************************************************)
(* The merge thread.                                                       *)
(***************************************************************************)
AccEvent ==
  /\ q # <<>>
  /\ upd' = InsertIntoMaps(upd, Head(q), now)
  /\ q' = Tail(q)
  /\ merging' = TRUE
  /\ UNCHANGED <<filling, mem, now, events>>

SwitchGlobalObjKept ==
  /\ merging
  /\ mem' = MergeMaps(mem, upd)
  /\ merging' = FALSE
  /\ UNCHANGED <<filling, q, upd, now, events>>

\* copyGlobalObj, merge, switchGlobalObj: no other thread writes m_maps.
SwitchGlobalObj ==
  /\ merging
  /\ mem' = MergeMaps(mem, upd)
  /\ upd' = NewMaps
  /\ merging' = FALSE
  /\ UNCHANGED <<filling, q, now, events>>

Tick ==
  /\ now < MaxTime
  /\ now' = now + 1
  /\ UNCHANGED <<filling, q, merging, upd, mem, events>>

-----------------------------------------------------------------------------
Next ==
  \/ \E u \in Url, age \in Age, cnt \in Pack : Fill(u, age, cnt)
  \/ StartLoading
  \/ \E u \in Url, age \in Age : Load(u, age)
  \/ AccEvent
  \/ SwitchGlobalObj
  \/ Tick

Spec == Init /\ [][Next]_vars

-----------------------------------------------------------------------------
(* The number a window has for a URL is that of the visits in its queue,   *)
(* whatever order they came in and however they were merged: what is       *)
(* popped later takes away what was counted.                               *)
(* (UrlFreqMap.cpp:10-62, :85-101)                                         *)
FreqMatchesQueue ==
  \A w \in Window, u \in Url : \A m \in {upd[w], mem[w]} : m.freq[u] = CntOf(m.q, u)

(* No visit is lost or counted twice between the stream and the windows:   *)
(* each that is young enough for a window is in the queue, with the merge  *)
(* thread or in the window, and nothing is there more often than it came.  *)
(* (UrlFreqStatsLF.cpp:16-23, UrlFreqStatsLF.h:40-49, UrlFreqMap.cpp:85-90)*)
VisitsCounted ==
  \A w \in Window, u \in Url :
    LET counted == CntOf(q, u) + upd[w].freq[u] + mem[w].freq[u]
    IN  CntSince(events, u, now - w) <= counted /\ counted <= CntOf(events, u)

(* What EnqueueLoop reads under one lock agrees: no URL has more visits in *)
(* the last hour than in the last day, although either window is cleaned   *)
(* from the front of a queue of its own and stops at the first young visit.*)
(* (LastPerMaps.cpp:18-35, UrlFreqMap.cpp:85-101)                          *)
HourInDay ==
  \A u \in Url : mem[Hour].freq[u] <= mem[Day].freq[u]

HourVisits(u) == mem[Hour].freq[u]
DayVisits(u) == mem[Day].freq[u]

(* The top that EnqueueLoop gets has no more URLs than it asked for; when  *)
(* it has fewer, they are all there are and their visits are complete; and *)
(* no URL is left out for one with fewer visits in the hour, or, when      *)
(* neither has any, in the day.  (UrlFreqStatsLF.cpp:35-66)                *)
TopUrlsRight ==
  \A limit \in Limit : \A r \in GetTopUrls(mem, limit) :
    /\ Cardinality(DOMAIN r) <= limit
    /\ Cardinality(DOMAIN r) < limit =>
         r = [u \in Visited(mem[Day]) |-> HourVisits(u) + DayVisits(u)]
    /\ \A u \in Url \ DOMAIN r, v \in DOMAIN r :
         /\ HourVisits(u) <= HourVisits(v)
         /\ HourVisits(v) = 0 => DayVisits(u) <= DayVisits(v)

-----------------------------------------------------------------------------
(***************************************************************************)
(* The strengthening that makes the invariants inductive.                  *)
(***************************************************************************)
\* What the merge thread has for the hour is the end of what it has for the day.
HourEndsDay ==
  \E k \in 0 .. Len(upd[Day].q) :
    upd[Hour].q = SubSeq(upd[Day].q, k + 1, Len(upd[Day].q))

\* Of the visits since t, whatever t, none is anywhere more often than it
\* came; and when all of them are young enough for a window, all are there.
SinceInv ==
  \A w \in Window, u \in Url, t \in 0 - Day .. MaxTime :
    LET there == CntSince(q, u, t) + CntSince(upd[w].q, u, t) + CntSince(mem[w].q, u, t)
    IN  /\ there <= CntSince(events, u, t)
        /\ now - w <= t => there = CntSince(events, u, t)

IInv == TypeOK /\ FreqMatchesQueue /\ HourEndsDay /\ HourInDay /\ SinceInv

-----------------------------------------------------------------------------
(* "Keep freq, remove old, get top; sliding window" (UrlFreqMap.h:12): the *)
(* windows that the merge thread switches to have what it has counted, and *)
(* of the windows before only what is young enough.                        *)
WindowSlides ==
  [][SwitchGlobalObj =>
       \A w \in Window, u \in Url :
         mem'[w].freq[u] <= upd[w].freq[u] + CntSince(mem[w].q, u, now - w)]_vars
=============================================================================
