------------------------------ MODULE QueryApi ------------------------------
(***************************************************************************)
(* Matching as the users of the HTTP API see it: what they send and are    *)
(* answered (api/v1/APIv1HdlQG, APIv1HdlHits), what of it QueryDb stores   *)
(* (ldb/QueryDb), and the conversions between (core/QueryGroup).           *)
(*                                                                         *)
(* A JSON array of strings, like the repeated field of a message, is the   *)
(* set of what it holds: Matching tells groups apart by nothing else.  A   *)
(* handler that only reads is a function of the databases, its answer;     *)
(* one that writes is the action of Matching for what it was sent.  The    *)
(* URLs of hits came to the pages by messages and are UTF-8.               *)
(***************************************************************************)
EXTENDS Matching, FiniteSets

CONSTANTS
  Body,        \* the bodies of /set_query_group requests
  Unparsable,  \* a body that is no JSON
  Null,        \* the JSON null, or no value at all
  NotString,   \* a JSON value that is not a string,
  NotArray,    \* not an array and not null
  NoGid        \* the empty gid of QueryGroupHits{}

VARIABLES
  wanted,      \* history: the queries of each group as its users last set them
  due          \* history: the pages that matched the group, as it is stored or as
               \* the round has it, since its hits were last deleted

apiVars == <<vars, wanted, due>>

-----------------------------------------------------------------------------
(***************************************************************************)
(* core/QueryGroup: JSON and the messages stored.                          *)
(***************************************************************************)
\* Json::Value: the first element makes it an array, without any it stays null.
JsonObject(S) == IF S = {} THEN NotArray ELSE S
JsonArray(S) == IF S = {} THEN Null ELSE S

\* fromJson: the gid and the elements are strings; no array is one of no elements.
IsArray(js) == js # Null /\ js # NotArray
Throws(gid, array) ==
  \/ gid = NotString
  \/ array = NotArray
  \/ IsArray(array) /\ NotString \in array
Elements(array) == IF IsArray(array) THEN array ELSE {}

ToJsonValue(qg) == [gid |-> qg.gid, queries |-> JsonArray(qg.queries)]
FromJson(js) == [gid |-> js.gid, queries |-> Elements(js.queries)]

HitsToJsonValue(qgh) == [gid |-> qgh.gid, hits |-> JsonArray(qgh.hits)]
HitsFromJson(js) == [gid |-> js.gid, hits |-> Elements(js.hits)]

\* A body that is no JSON is answered with bad_request, one fromJson throws at with
\* internal_error by the wrapper of all handlers.
IsGroup(body) == body # Unparsable /\ ~Throws(body.gid, body.queries)

ASSUME QueryApiAssumption ==
  /\ \A body \in Body : IsGroup(body) =>
       body.gid \in Gid /\ Elements(body.queries) \in QuerySets
  /\ NotString \notin Gid \cup Query
  /\ \A S \in (SUBSET Gid) \cup (SUBSET Query) \cup (SUBSET Url) : S # Null /\ S # NotArray
  /\ Null # NotArray

-----------------------------------------------------------------------------
(***************************************************************************)
(* ldb/QueryDb: what is read.                                              *)
(***************************************************************************)
\* QueryGroup::dump and its inverse; the key is the gid once more.
Stored(g) == [gid |-> g, queries |-> qgs[g]]
StoredHits(g) == [gid |-> g, hits |-> hits[g]]

\* loadQG: is there a group?  getAllQG: all there are.  Both throw at one that
\* is not Readable.
LoadQG(g) == qgs[g] # NoGroup
StoredQGs == {Stored(g) : g \in {h \in Gid : LoadQG(h)}}

\* loadQGHits leaves the QueryGroupHits as it was made when there is no entry.
LoadQGHits(g) == IF hits[g] = {} THEN [gid |-> NoGid, hits |-> {}] ELSE StoredHits(g)

-----------------------------------------------------------------------------
(***************************************************************************)
(* The handlers that read.                                                 *)
(***************************************************************************)
\* What throws is answered by the wrapper of all handlers.
InternalError == [status |-> "internal_error"]

HdlGetQueryGroup(g) ==
  IF ~LoadQG(g) THEN [status |-> "bad_request"]
  ELSE IF ~Readable(g, qgs[g]) THEN InternalError
  ELSE [status |-> "ok", result |-> ToJsonValue(Stored(g))]

HdlGetQueryGroupsList ==
  IF ~AllReadable THEN InternalError
  ELSE [status |-> "ok",
        query_groups_count |-> Cardinality(StoredQGs),
        query_groups |-> JsonArray({qg.gid : qg \in StoredQGs})]

HdlGetHits(g) == [status |-> "ok", result |-> HitsToJsonValue(LoadQGHits(g))]

-----------------------------------------------------------------------------
(***************************************************************************)
(* The steps of Matching, with what they mean to the users.                *)
(***************************************************************************)
Matches(queries, u) == queries # NoGroup /\ queries \cap pages[u] # {}

\* The groups in deleted begin anew.
Track(deleted) ==
  due' = [g \in Gid |->
            (IF g \in deleted THEN {} ELSE due[g])
              \cup {u \in Url : Matches(qgs[g], u)' \/ Match(g, u)'}]

ApiInit ==
  /\ Init
  /\ wanted = [g \in Gid |-> NoGroup]
  /\ due = [g \in Gid |-> {}]

Round == LoopStep /\ Track({}) /\ UNCHANGED wanted

\* hdlSetQueryGroup saves the group that the body is, if it is one.
SaveQG(body) ==
  /\ IsGroup(body)
  /\ SetQueryGroup(FromJson(body).gid, FromJson(body).queries)
  /\ wanted' = [wanted EXCEPT ![body.gid] = Elements(body.queries)]
  /\ Track({})

DeleteGroup(c, g) ==
  /\ DeleteQG(c, g)
  /\ wanted' = [wanted EXCEPT ![g] = NoGroup]
  /\ Track({})

\* The handler answers with ok if this succeeds too: the group's hits are gone.
DeleteHits(c) ==
  /\ DeleteQGHits(c)
  /\ Track({deleting[c]} \ half')
  /\ UNCHANGED wanted

Other ==
  /\ (\E u \in Url, content \in Contents : SavePage(u, content)) \/ Restart
  /\ Track({})
  /\ UNCHANGED wanted

ApiNext ==
  \/ Round
  \/ \E body \in Body : SaveQG(body)
  \/ \E c \in Client : (\E g \in Gid : DeleteGroup(c, g)) \/ DeleteHits(c)
  \/ Other

ApiSpec == ApiInit /\ [][ApiNext]_apiVars
ApiFairSpec == ApiSpec /\ WF_apiVars(Round)

-----------------------------------------------------------------------------
\* /get_query_group answers with JSON of which fromJson makes the group again.
ReadBack(g) ==
  LET got == HdlGetQueryGroup(g) IN
    /\ got.status = "ok"
    /\ ~Throws(got.result.gid, got.result.queries)
    /\ FromJson(got.result) = [gid |-> g, queries |-> wanted[g]]

(* What a user sets in UTF-8 is what is read back, whatever rounds,        *)
(* requests and restarts come between, and whatever is stored beside it;   *)
(* for a group that was deleted there is no answer.  If all that is set is *)
(* UTF-8, /get_query_groups_list names the groups that exist.              *)
(* (APIv1Tester.cpp _testSetGetQG, _testListQG; QueryGroup.cpp:13-76)      *)
SetIsRead ==
  /\ \A g \in Gid :
       IF wanted[g] = NoGroup
       THEN HdlGetQueryGroup(g).status = "bad_request"
       ELSE Readable(g, wanted[g]) => ReadBack(g)
  /\ (\A g \in Gid : wanted[g] # NoGroup => Readable(g, wanted[g])) =>
       Elements(HdlGetQueryGroupsList.query_groups) = {g \in Gid : wanted[g] # NoGroup}

(* "/get_query_group and compare" after a /set_query_group that was        *)
(* answered with ok (api/v1/ut/APIv1Tester.cpp, _testSetGetQG): what a     *)
(* user sets is read back.                                                 *)
SetIsGot == \A g \in Gid : wanted[g] # NoGroup => ReadBack(g)

(* The hits /get_hits answers with are the group's own: pages that matched *)
(* it since its hits were last deleted.  A group made anew under the gid   *)
(* of a deleted one does not show that one's hits - unless the deletion    *)
(* raced a round, failed half-way, or is not over.                         *)
(* (APIv1HdlQG.cpp:89-98, APIv1HdlHits.cpp:18-27, QueryLoop.cpp:34-63)     *)
HitsOwn ==
  \A g \in Gid :
    \/ HitsFromJson(HdlGetHits(g).result).hits \subseteq due[g]
    \/ g \in half \cup raced
    \/ \E c \in Client : deleting[c] = g
=============================================================================
