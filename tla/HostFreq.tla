------------------------------ MODULE HostFreq ------------------------------
(***************************************************************************)
(* The politeness counters of one host: core/HostFreq.{h,cpp} and the      *)
(* sliding windows of core/TpSlidWin.{h,cpp} it is made of.                *)
(*                                                                         *)
(* A HostFreq holds m_crawling_now and three queues of time points, m_min, *)
(* m_hour and m_day.  incCrawling() pushes the current time on all three,  *)
(* and each queue pops its own expired front, so at any moment each queue  *)
(* is a suffix of one log of the pushes.  A frequency record keeps that    *)
(* log once, and for every window the number of points popped from it:     *)
(* the queue m_min is the log after its first popped["minute"] points.     *)
(***************************************************************************)
EXTENDS Naturals, Sequences

CONSTANTS
  Window,           \* the names of the windows: minute, hour, day
  WindowLen,        \* [Window -> Nat]: the largest age, in clock ticks, whose
                    \* whole seconds do not exceed the window (TpSlidWin::m_window)
  WindowLimit,      \* [Window -> Nat]: max_host_{minute,hour,day}_crawl
  MaxHostParallel   \* max_host_parallel_crawl

ASSUME LimitsAssumption ==
  /\ WindowLen \in [Window -> Nat]
  /\ WindowLimit \in [Window -> Nat \ {0}]
  /\ MaxHostParallel \in Nat \ {0}

Freq == [crawling : Nat, log : Seq(Nat), popped : [Window -> Nat]]

NewFreq == [crawling |-> 0, log |-> <<>>, popped |-> [w \in Window |-> 0]]

ExpiredAtLen(w, t, now) == now - t >= WindowLen[w]

Expired(w, t, now) == now - t > WindowLen[w]

\* How many points are popped from window w once checkClean(now) has run: the
\* loop pops from the front while the front is expired, and stops at the first
\* point that is not.
CheckClean(f, w, now) ==
  CHOOSE k \in f.popped[w] .. Len(f.log) :
    /\ \A i \in f.popped[w] + 1 .. k : Expired(w, f.log[i], now)
    /\ k < Len(f.log) => ~Expired(w, f.log[k + 1], now)

\* TpSlidWin::size(now) cleans first.  The points it pops are popped again, with
\* the same result, by the next call that looks at the queue, so a query leaves
\* "popped" to the next inc().
Size(f, w, now) == Len(f.log) - CheckClean(f, w, now)

IsAllowedOneTooMany(f, now) ==
  /\ f.crawling <= MaxHostParallel
  /\ \A w \in Window : Size(f, w, now) < WindowLimit[w]

IsAllowed(f, now) ==
  /\ f.crawling < MaxHostParallel
  /\ \A w \in Window : Size(f, w, now) < WindowLimit[w]

IncCrawling(f, now) ==
  LET pushed == [f EXCEPT !.crawling = @ + 1, !.log = Append(@, now)]
  IN  [pushed EXCEPT !.popped = [w \in Window |-> CheckClean(pushed, w, now)]]

\* m_crawling_now is a signed Cnt: without its guard decCrawling() would go
\* below zero (here: to a value no frequency record has).
DecCrawlingUnguarded(f) ==
  [f EXCEPT !.crawling = IF @ = 0 THEN 0 - 1 ELSE @ - 1]

DecCrawlingNever(f) == f

DecCrawling(f) == IF f.crawling = 0 THEN f ELSE [f EXCEPT !.crawling = @ - 1]

\* What the windows are for: any WindowLimit[w] + 1 points of the log in a row
\* span more than the window.
Spaced(f) ==
  \A w \in Window : \A i \in 1 .. Len(f.log) :
    i + WindowLimit[w] <= Len(f.log) =>
      f.log[i + WindowLimit[w]] - f.log[i] > WindowLen[w]

\* Of every window, only expired points were popped.
PoppedExpired(f, now) ==
  \A w \in Window :
    /\ f.popped[w] <= Len(f.log)
    /\ \A i \in 1 .. f.popped[w] : Expired(w, f.log[i], now)
=============================================================================
