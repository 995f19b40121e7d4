--------------------------- MODULE CrawlAttempts ---------------------------
(***************************************************************************)
(* core/CrawlAttempts.{h,cpp}, the last attempts to fetch one URL, and the *)
(* two crawl policies that read them: ldb/UrlDbPolicy.cpp for pages and    *)
(* ldb/UrlDbPolicyRobots.cpp for robots.txt.  A URL without an entry in    *)
(* UrlDb::m_url_crawl_attempts is one with the empty list: both policies   *)
(* and _setStatus treat the two alike.                                     *)
(***************************************************************************)
EXTENDS Naturals, Sequences, FiniteSets

CONSTANTS
  LastStoreAttempts,  \* LAST_STORE_ATTEMPTS
  Hour, Day, Week     \* the waits of the policies, in clock ticks

ASSUME AttemptsAssumption ==
  /\ LastStoreAttempts \in Nat \ {0}
  /\ Hour \in Nat \ {0} /\ Day \in Nat /\ Week \in Nat
  /\ Hour <= Day /\ Day <= Week

Failed == {"4xx", "5xx"}
Status == {"ENQUEUED", "PENDING", "OK", "CURL_ERR"} \cup Failed

Attempt == [tp : Nat, status : Status]
CrawlAttempts == {a \in Seq(Attempt) : Len(a) <= LastStoreAttempts}

GetLast(a) == a[Len(a)]

New(t) == [tp |-> t, status |-> "ENQUEUED"]

AddTimesUntrimmed(a, t, n) == a \o [i \in 1 .. n |-> New(t)]

\* add, n times: only the last attempts are kept.
AddTimes(a, t, n) ==
  LET b == a \o [i \in 1 .. n |-> New(t)]
  IN  IF Len(b) <= LastStoreAttempts THEN b
      ELSE SubSeq(b, Len(b) - LastStoreAttempts + 1, Len(b))

Add(a, t) == AddTimes(a, t, 1)

\* UrlDb::_setStatus and setResult: the result goes to the last attempt, whose
\* attempt it may not be (gfq.attempt_ts is not looked at).
SetStatus(a, status, t) ==
  LET b == IF a = <<>> THEN Add(a, t) ELSE a
  IN  [b EXCEPT ![Len(b)].status = status]

\* The first attempt of the list is never counted.
Last4xx5xxCount(a) ==
  Cardinality({i \in 2 .. Len(a) : \A j \in i .. Len(a) : a[j].status \in Failed})

-----------------------------------------------------------------------------
\* How long after its last attempt a URL is left alone.
PageWaitOkADay(a) ==
  IF GetLast(a).status \in {"OK", "ENQUEUED"} THEN Day ELSE Hour

PageWait(a) ==
  CASE GetLast(a).status \in {"CURL_ERR", "PENDING"} -> Hour
    [] GetLast(a).status = "ENQUEUED"                -> Day
    [] GetLast(a).status = "OK"                      -> Week
    [] OTHER -> Hour * 2 ^ Last4xx5xxCount(a)

RobotsWait(a) ==
  IF GetLast(a).status \in {"ENQUEUED", "PENDING"} THEN Hour ELSE Day

\* UrlDb::_IsNeedCrawl and _IsNeedCrawlRobots: is it ALLOW?
IsNeedCrawl(a, now) == a = <<>> \/ now >= GetLast(a).tp + PageWait(a)
IsNeedCrawlRobots(a, now) == a = <<>> \/ now >= GetLast(a).tp + RobotsWait(a)
=============================================================================
