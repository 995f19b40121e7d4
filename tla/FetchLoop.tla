------------------------------ MODULE FetchLoop ------------------------------
(***************************************************************************)
(* A worker of the fleet that crawls.                                      *)
(*   worker/FetchLoop   the loop reads the global fetch queue from Kafka   *)
(*                      into a MergeQueue; the merge thread of that queue  *)
(*                      gathers the records in a ReqBatch, asks the        *)
(*                      scheduler slice by slice which may be fetched now, *)
(*                      hands these to the HTTP client and pushes the      *)
(*                      others back; the thread of the HTTP client reports *)
(*                      each response and then saves the page,             *)
(*   worker/ReqBatch    the batch,                                         *)
(*   scheduler/rpc/     SchedulerClient, through which the scheduler is    *)
(*                      asked and told; a failed call is only logged.      *)
(* Kafka, the HTTP client and misc::MergeQueue are outside the repository. *)
(* Records are compared by their URL alone (GFQRecord.h:42): a collection  *)
(* of them is a bag of URLs.                                               *)
(***************************************************************************)
EXTENDS Integers, Sequences, Functions, TLC

CONSTANTS
  Url,
  Robots,        \* the URLs of robots.txt files
  Refused,       \* the URLs the scheduler never allows: robots rules forbid them
  Topic,         \* the records EnqueueLoop has put into the topic
  MaxRead,       \* fetch_kafka_read_batch_size
  MaxRequests,   \* fetch_max_requests_in_batch
  MaxFaults      \* bound: no crash after so many faults

Bag == [Url -> Nat]

ASSUME FetchLoopAssumption ==
  /\ Robots \subseteq Url /\ Refused \subseteq Url
  /\ Topic \in Bag
  /\ {MaxRead, MaxRequests} \subseteq Nat \ {0} /\ MaxFaults \in Nat

VARIABLES
  topic,         \* the records Kafka has not delivered
  running,       \* FetchLoop::m_running
  pc,            \* where loop() is
  left,          \* how many records this read may still deliver
  queue,         \* the MergeQueue
  sending,       \* is the merge thread in _sendToCurl?
  batch,         \* m_req_batch, then _a
  asking,        \* try_urls
  curl,          \* the requests with the HTTP client
  response,      \* the response it calls _onResponse with
  reported,      \* history: the responses reported
  heard,         \* history: those with status OK the scheduler received, pages only
  saved,         \* history: the pages saved
  faults         \* history: the crashes, and the calls of save that failed

loopVars == <<running, pc, left>>
mergeVars == <<sending, batch, asking>>
tellVars == <<reported, heard, saved>>
vars == <<topic, loopVars, queue, mergeVars, curl, response, tellVars, faults>>

Nothing == [u \in Url |-> 0]
Size(b) == FoldFunction(+, 0, b)
Plus(a, b) == [u \in Url |-> a[u] + b[u]]
Minus(a, b) == [u \in Url |-> a[u] - b[u]]
SubBags(b) == {a \in [Url -> 0 .. Size(b)] : \A u \in Url : a[u] <= b[u]}

\* "unreported" becomes "reported" between the two calls of _onResponse.
NoResponse == [stage |-> "none"]
Responses == [stage : {"unreported", "reported"}, url : Url, success : BOOLEAN]
ResponseOf(u) == IF response.stage = "unreported" /\ response.url = u THEN 1 ELSE 0

\* The records read and not reported.
Held == [u \in Url |-> queue[u] + batch[u] + asking[u] + curl[u] + ResponseOf(u)]

TypeOK ==
  /\ {topic, queue, batch, asking, curl} \subseteq Bag
  /\ {reported, heard, saved} \subseteq Bag
  /\ {running, sending} \subseteq BOOLEAN
  /\ pc \in {"check", "read", "last", "done"}
  /\ left \in 0 .. MaxRead
  /\ response \in Responses \cup {NoResponse}
  /\ ~sending => asking = Nothing
  /\ faults \in Nat

Init ==
  /\ topic = Topic
  /\ running = TRUE /\ pc = "check" /\ left = 0
  /\ queue = Nothing
  /\ sending = FALSE /\ batch = Nothing /\ asking = Nothing
  /\ curl = Nothing /\ response = NoResponse
  /\ reported = Nothing /\ heard = Nothing /\ saved = Nothing
  /\ faults = 0

-----------------------------------------------------------------------------
(***************************************************************************)
(* The loop.  After stop() it reads once more, whatever the queue holds.   *)
(***************************************************************************)
StartReadBelow ==
  /\ pc = "check"
  /\ running => Size(queue) < MaxRead
  /\ pc' = IF running THEN "read" ELSE "last"
  /\ left' = MaxRead
  /\ UNCHANGED <<topic, running, queue, mergeVars, curl, response, tellVars, faults>>

StartRead ==
  /\ pc = "check"
  /\ running => Size(queue) <= MaxRead
  /\ pc' = IF running THEN "read" ELSE "last"
  /\ left' = MaxRead
  /\ UNCHANGED <<topic, running, queue, mergeVars, curl, response, tellVars, faults>>

\* The callback GFQReader::read calls for each record.
ReadOne(u) ==
  /\ pc \in {"read", "last"} /\ left > 0 /\ topic[u] > 0
  /\ topic' = [topic EXCEPT ![u] = @ - 1]
  /\ queue' = [queue EXCEPT ![u] = @ + 1]
  /\ left' = left - 1
  /\ UNCHANGED <<running, pc, mergeVars, curl, response, tellVars, faults>>

EndRead ==
  /\ pc \in {"read", "last"} /\ (left = 0 \/ topic = Nothing)
  /\ pc' = IF pc = "last" THEN "done" ELSE "check"
  /\ left' = 0
  /\ UNCHANGED <<topic, running, queue, mergeVars, curl, response, tellVars, faults>>

Stop ==
  /\ running
  /\ running' = FALSE
  /\ UNCHANGED <<topic, pc, left, queue, mergeVars, curl, response, tellVars, faults>>

-----------------------------------------------------------------------------
(***************************************************************************)
(* The merge thread.                                                       *)
(***************************************************************************)
\* accEvent: straight into m_req_batch, not into the batch it is given.
AccEvent(u) ==
  /\ ~sending /\ queue[u] > 0
  /\ queue' = [queue EXCEPT ![u] = @ - 1]
  /\ batch' = [batch EXCEPT ![u] = @ + 1]
  /\ UNCHANGED <<topic, loopVars, sending, asking, curl, response, tellVars, faults>>

\* copyGlobalObj, merge of an empty batch, switchGlobalObj as far as the loop of _sendToCurl.
SwitchGlobalObj ==
  /\ ~sending /\ batch # Nothing
  /\ sending' = TRUE
  /\ UNCHANGED <<topic, loopVars, queue, batch, asking, curl, response, tellVars, faults>>

\* getReqs, slice.
TryFetch(reqs) ==
  /\ sending /\ asking = Nothing /\ batch # Nothing
  /\ reqs \in SubBags(batch)
  /\ Size(reqs) = IF Size(batch) < MaxRequests THEN Size(batch) ELSE MaxRequests
  /\ asking' = reqs
  /\ batch' = Minus(batch, reqs)
  /\ UNCHANGED <<topic, loopVars, queue, sending, curl, response, tellVars, faults>>

RepliedNoPushBack(urls) ==
  /\ asking # Nothing
  /\ urls \in SubBags(asking)
  /\ \A u \in Refused : urls[u] = 0
  /\ curl' = Plus(curl, urls)
  /\ asking' = Nothing
  /\ UNCHANGED <<topic, loopVars, queue, sending, batch, response, tellVars, faults>>

\* tryFetchUrls returns; it allows nothing when the call failed.
Replied(urls) ==
  /\ asking # Nothing
  /\ urls \in SubBags(asking)
  /\ \A u \in Refused : urls[u] = 0
  /\ curl' = Plus(curl, urls)
  /\ queue' = Plus(queue, Minus(asking, urls))
  /\ asking' = Nothing
  /\ UNCHANGED <<topic, loopVars, sending, batch, response, tellVars, faults>>

\* The end of _sendToCurl: the batch, now empty, becomes m_req_batch.
Sent ==
  /\ sending /\ asking = Nothing /\ batch = Nothing
  /\ sending' = FALSE
  /\ UNCHANGED <<topic, loopVars, queue, batch, asking, curl, response, tellVars, faults>>
-----------------------------------------------------------------------------
(***************************************************************************)
(* The thread of the HTTP client.                                          *)
(***************************************************************************)
Respond(u, success) ==
  /\ response = NoResponse /\ curl[u] > 0
  /\ curl' = [curl EXCEPT ![u] = @ - 1]
  /\ response' = [stage |-> "unreported", url |-> u, success |-> success]
  /\ UNCHANGED <<topic, loopVars, queue, mergeVars, tellVars, faults>>

IsPage(r) == r.success /\ r.url \notin Robots

OnFetchedOnly(received) ==
  /\ response.stage = "unreported"
  /\ reported' = [reported EXCEPT ![response.url] = @ + 1]
  /\ heard' = IF received /\ IsPage(response)
              THEN [heard EXCEPT ![response.url] = @ + 1] ELSE heard
  /\ response' = NoResponse
  /\ UNCHANGED <<topic, loopVars, queue, mergeVars, curl, saved, faults>>

\* m_scheduler_api->onFetched, which the scheduler receives or not.
OnFetched(received) ==
  /\ response.stage = "unreported"
  /\ reported' = [reported EXCEPT ![response.url] = @ + 1]
  /\ heard' = IF received /\ IsPage(response)
              THEN [heard EXCEPT ![response.url] = @ + 1] ELSE heard
  /\ response' = IF IsPage(response) THEN [response EXCEPT !.stage = "reported"]
                 ELSE NoResponse
  /\ UNCHANGED <<topic, loopVars, queue, mergeVars, curl, saved, faults>>

\* m_page_db->save, which may fail: both stores throw then, out of the callback of
\* the HTTP client (external), which catches it or not: then the process ends (Crash).
Save(ok) ==
  /\ response.stage = "reported"
  /\ saved' = IF ok THEN [saved EXCEPT ![response.url] = @ + 1] ELSE saved
  /\ faults' = IF ok THEN faults ELSE faults + 1
  /\ response' = NoResponse
  /\ UNCHANGED <<topic, loopVars, queue, mergeVars, curl, reported, heard>>

\* The process dies, or ends, and is started again: a new FetchLoop is constructed.
\* Kafka delivers again what was not committed.
Crash(again) ==
  /\ faults < MaxFaults
  /\ faults' = faults + 1
  /\ topic' = Plus(topic, again)
  /\ running' = TRUE /\ pc' = "check" /\ left' = 0
  /\ queue' = Nothing
  /\ sending' = FALSE /\ batch' = Nothing /\ asking' = Nothing
  /\ curl' = Nothing /\ response' = NoResponse
  /\ UNCHANGED tellVars
-----------------------------------------------------------------------------
LoopStep == StartRead \/ EndRead \/ \E u \in Url : ReadOne(u)

MergeStep ==
  \/ \E u \in Url : AccEvent(u)
  \/ SwitchGlobalObj
  \/ \E reqs \in SubBags(batch) : TryFetch(reqs)
  \/ \E urls \in SubBags(asking) : Replied(urls)
  \/ Sent

ClientStep ==
  \/ \E u \in Url, success \in BOOLEAN : Respond(u, success)
  \/ \E received \in BOOLEAN : OnFetched(received)
  \/ \E ok \in BOOLEAN : Save(ok)

Next == LoopStep \/ MergeStep \/ ClientStep \/ Stop
        \/ \E again \in SubBags(Minus(Topic, topic)) : Crash(again)

Spec == Init /\ [][Next]_vars

(***************************************************************************)
(* Fairness: the three threads run, the HTTP client answers each request,  *)
(* if with an error after fetch_request_timeout_secs, each record in the   *)
(* MergeQueue has its turn, and the scheduler, asked again and again,      *)
(* allows a URL it does not refuse.                                        *)
(***************************************************************************)
FairSpec ==
  /\ Spec
  /\ WF_vars(LoopStep) /\ WF_vars(MergeStep) /\ WF_vars(ClientStep)
  /\ \A u \in Url : SF_vars(AccEvent(u))
  /\ \A u \in Url \ Refused :
       SF_vars(\E urls \in SubBags(asking) : urls[u] > 0 /\ Replied(urls))

-----------------------------------------------------------------------------
(* A record read is in one place until its response is reported, however   *)
(* often it is refused and pushed back; only a crash loses it.  What was   *)
(* read and not committed comes again, so that a record reported may be    *)
(* read a second time.  The process that runs has no other records.        *)
(* (FetchLoop.h:112-138, FetchLoop.cpp:72-85, :139-160)                    *)
D == INSTANCE Delivery WITH unread <- topic, held <- Held, answers <- reported
Delivered == D!Spec

(* A page the scheduler counts as fetched is in the page store: but for    *)
(* the time between the two calls, for a crash in it and for a save that   *)
(* fails.  Nothing tells the scheduler then.  (FetchLoop.cpp:123-129)      *)
PageSaved ==
  \A u \in Url :
    heard[u] <= saved[u] + faults
                + IF response.stage = "reported" /\ response.url = u THEN 1 ELSE 0

(* In the end a running loop has read all there is in the topic, and every *)
(* record read is answered that the scheduler does not refuse, after       *)
(* stop() too: though refused records go round for ever, and the length of *)
(* the queue they come back to holds up the reader, as long as there are   *)
(* no more than fetch_kafka_read_batch_size of them.                       *)
(* (FetchLoop.cpp:61-68, FetchLoop.h:115-136)                              *)
AllAnswered ==
  Size([u \in Url |-> IF u \in Refused THEN Topic[u] ELSE 0]) <= MaxRead
    => /\ <>[](running => topic = Nothing)
       /\ \A u \in Url \ Refused : <>[](Held[u] = 0)
=============================================================================
