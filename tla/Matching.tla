------------------------------ MODULE Matching ------------------------------
(***************************************************************************)
(* How pages are matched against the users' query groups:                  *)
(*   ldb/QueryDb           the groups and their hits, two leveldbs,        *)
(*   worker/QueryLoop      the thread that matches all pages with all      *)
(*                         groups, round after round,                      *)
(*   api/v1/APIv1HdlQG     the HTTP handlers that change the groups, any   *)
(*                         number at a time, and                           *)
(*   worker/FetchLoop      which saves pages.                              *)
(*                                                                         *)
(* The databases have no lock across two calls.  A page is the set of the  *)
(* queries found in it, a group the set of its queries; one without an     *)
(* entry in the hits is one without hits, as /get_hits has it.             *)
(***************************************************************************)
EXTENDS Naturals

CONSTANTS
  Gid,         \* the query groups
  Url,         \* the pages
  Query,       \* what is searched for
  QuerySets,   \* the queries a group can be given
  Contents,    \* what a page can be: the queries found in it
  Client,      \* the threads of the HTTP server
  NotUtf8,     \* the gids and queries that are no UTF-8
  NoGroup,     \* a group that does not exist
  Idle,        \* a thread that deletes nothing
  MaxFail,     \* bound: scans of the pages that break off
  MaxRestart   \* bound: restarts of the process

ASSUME MatchingAssumption ==
  /\ QuerySets \subseteq SUBSET Query
  /\ Contents \subseteq SUBSET Query
  /\ {} \in Contents
  /\ \A S \in SUBSET Query : S # NoGroup
  /\ Idle \notin Gid
  /\ {MaxFail, MaxRestart} \subseteq Nat

VARIABLES
  qgs,       \* QueryDb::m_qg_db
  hits,      \* QueryDb::m_qg_hits_db
  pages,     \* IPageDb
  pc,        \* where the QueryLoop thread is
  groups,    \* the groups its matcher was built from
  found,     \* qgs_hits_map, less what is saved already
  deleting,  \* the group each HTTP thread has deleted, its hits not yet
  half,      \* history: the groups deleted without their hits
  raced,     \* history: the groups deleted during a round that had them
  resaved,   \* history: the pages saved since the scan of this round
  broken,    \* history: did the scan of this round break off?
  fails,     \* history: how many scans broke off
  restarts   \* history: how many times the process restarted

dbVars == <<qgs, hits, pages>>
loopVars == <<pc, groups, found>>
vars == <<qgs, hits, pages, pc, groups, found, deleting, half, raced, resaved,
          broken, fails, restarts>>

TypeOK ==
  /\ qgs \in [Gid -> QuerySets \cup {NoGroup}]
  /\ hits \in [Gid -> SUBSET Url]
  /\ pages \in [Url -> Contents]
  /\ pc \in {"sleep", "scan", "save"}
  /\ groups \in [Gid -> SUBSET Query]
  /\ found \in [Gid -> SUBSET Url]
  /\ deleting \in [Client -> Gid \cup {Idle}]
  /\ half \subseteq Gid /\ raced \subseteq Gid
  /\ resaved \subseteq Url
  /\ broken \in BOOLEAN
  /\ fails \in Nat /\ restarts \in Nat
  /\ pc = "sleep" => groups = [g \in Gid |-> {}]
  /\ pc # "save" => found = [g \in Gid |-> {}]

\* QueryDb::QueryDb on empty databases; the loop has not begun.
Init ==
  /\ qgs = [g \in Gid |-> NoGroup]
  /\ hits = [g \in Gid |-> {}]
  /\ pages = [u \in Url |-> {}]
  /\ pc = "sleep"
  /\ groups = [g \in Gid |-> {}]
  /\ found = [g \in Gid |-> {}]
  /\ deleting = [c \in Client |-> Idle]
  /\ half = {} /\ raced = {} /\ resaved = {}
  /\ broken = FALSE
  /\ fails = 0 /\ restarts = 0

-----------------------------------------------------------------------------
(***************************************************************************)
(* The QueryLoop thread: one round.                                        *)
(***************************************************************************)

\* QueryGroup::QueryGroup of a dump: the strings of a message are serialised
\* whatever they are, and parsed only if they are UTF-8.  The JSON a group is set
\* with is not checked for that.
Readable(g, queries) == ({g} \cup queries) \cap NotUtf8 = {}
AllReadable == \A g \in Gid : qgs[g] # NoGroup => Readable(g, qgs[g])

\* QueryGroupMatcher::_buildState: a group without queries is never found.
BuildState(q) == [g \in Gid |-> IF q[g] = NoGroup THEN {} ELSE q[g]]

GetAllQG ==
  /\ pc = "sleep"
  /\ AllReadable
  /\ groups' = BuildState(qgs)
  /\ pc' = "scan"
  /\ UNCHANGED <<dbVars, found, deleting, half, raced, resaved, broken, fails, restarts>>

\* QueryGroupMatcher::match of one page: the groups one of whose queries is in it.
MatchAll(g, u) == groups[g] \subseteq pages[u] /\ groups[g] # {}
Match(g, u) == groups[g] \cap pages[u] # {}

FoundLast(S) ==
  [g \in Gid |-> {u \in S : Match(g, u) /\ u = CHOOSE v \in S : Match(g, v)}]

\* QueryLoop::_query: the pages among S that match, by group.
Found(S) == [g \in Gid |-> {u \in S : Match(g, u)}]

\* IPageDb::scanFull reads the pages as they are at one moment (an iterator of
\* leveldb, one result of Scylla).  PageDbScylla::scanFull only logs an error: the
\* round goes on with the pages read so far.
ScanFull ==
  /\ pc = "scan"
  /\ \E S \in SUBSET Url :
       /\ \/ S = Url /\ broken' = FALSE /\ UNCHANGED fails
          \/ fails < MaxFail /\ broken' = TRUE /\ fails' = fails + 1
       /\ found' = Found(S)
  /\ resaved' = {}
  /\ pc' = "save"
  /\ UNCHANGED <<dbVars, groups, deleting, half, raced, restarts>>

\* Only groups with a hit are saved: the hits of the others stay what they were.
SaveQGHits(g) ==
  /\ pc = "save"
  /\ found[g] # {}
  /\ hits' = [hits EXCEPT ![g] = found[g]]
  /\ found' = [found EXCEPT ![g] = {}]
  /\ UNCHANGED <<qgs, pages, pc, groups, deleting, half, raced, resaved, broken,
                 fails, restarts>>

EndRoundEarly ==
  /\ pc = "save"
  /\ pc' = "sleep"
  /\ groups' = [g \in Gid |-> {}]
  /\ resaved' = {}
  /\ broken' = FALSE
  /\ UNCHANGED <<dbVars, found, deleting, half, raced, fails, restarts>>

EndRound ==
  /\ pc = "save"
  /\ \A g \in Gid : found[g] = {}
  /\ pc' = "sleep"
  /\ groups' = [g \in Gid |-> {}]
  /\ resaved' = {}
  /\ broken' = FALSE
  /\ UNCHANGED <<dbVars, found, deleting, half, raced, fails, restarts>>

-----------------------------------------------------------------------------
(***************************************************************************)
(* The others: the HTTP handlers and the worker.  A call of QueryDb that   *)
(* fails changes nothing.                                                  *)
(***************************************************************************)
SetQueryGroup(g, queries) ==
  /\ qgs' = [qgs EXCEPT ![g] = queries]
  /\ UNCHANGED <<hits, pages, loopVars, deleting, half, raced, resaved, broken,
                 fails, restarts>>

\* hdlDeleteQueryGroup: first the group, whether it exists or not, ...
DeleteQG(c, g) ==
  /\ deleting[c] = Idle
  /\ qgs' = [qgs EXCEPT ![g] = NoGroup]
  /\ deleting' = [deleting EXCEPT ![c] = g]
  /\ UNCHANGED <<hits, pages, loopVars, half, raced, resaved, broken, fails, restarts>>

\* ... then its hits, which may fail.
DeleteQGHitsSkipped(c) ==
  /\ deleting[c] # Idle
  /\ deleting' = [deleting EXCEPT ![c] = Idle]
  /\ UNCHANGED <<dbVars, loopVars, half, raced, resaved, broken, fails, restarts>>

DeleteQGHits(c) ==
  /\ deleting[c] # Idle
  /\ LET g == deleting[c] IN
       \/ /\ hits' = [hits EXCEPT ![g] = {}]
          /\ half' = half \ {g}
          /\ raced' = IF groups[g] # {} THEN raced \cup {g} ELSE raced \ {g}
       \/ /\ half' = half \cup {g}
          /\ UNCHANGED <<hits, raced>>
  /\ deleting' = [deleting EXCEPT ![c] = Idle]
  /\ UNCHANGED <<qgs, pages, loopVars, resaved, broken, fails, restarts>>

\* FetchLoop::_onResponse saves a page that was fetched.
SavePage(u, content) ==
  /\ pages' = [pages EXCEPT ![u] = content]
  /\ resaved' = IF pc = "save" THEN resaved \cup {u} ELSE resaved
  /\ UNCHANGED <<qgs, hits, loopVars, deleting, half, raced, broken, fails, restarts>>

\* Whatever the threads were at is lost; what is stored stays.
Ends ==
  /\ pc' = "sleep"
  /\ groups' = [g \in Gid |-> {}]
  /\ found' = [g \in Gid |-> {}]
  /\ deleting' = [c \in Client |-> Idle]
  /\ half' = half \cup {g \in Gid : \E c \in Client : deleting[c] = g}
  /\ resaved' = {}
  /\ broken' = FALSE
  /\ UNCHANGED <<dbVars, raced, fails>>

\* The process is killed, or ends by an error of a database in the loop.
Restart ==
  /\ restarts < MaxRestart
  /\ restarts' = restarts + 1
  /\ Ends

\* One group that cannot be read: the exception leaves the loop's thread, and the
\* process ends with it, each time it is started.
GetAllQGThrows ==
  /\ pc = "sleep"
  /\ ~AllReadable
  /\ Ends
  /\ UNCHANGED restarts

-----------------------------------------------------------------------------
LoopStep ==
  \/ GetAllQG
  \/ GetAllQGThrows
  \/ ScanFull
  \/ \E g \in Gid : SaveQGHits(g)
  \/ EndRound

Next ==
  \/ LoopStep
  \/ \E g \in Gid, queries \in QuerySets : SetQueryGroup(g, queries)
  \/ \E c \in Client : (\E g \in Gid : DeleteQG(c, g)) \/ DeleteQGHits(c)
  \/ \E u \in Url, content \in Contents : SavePage(u, content)
  \/ Restart

Spec == Init /\ [][Next]_vars

\* The loop's thread runs; nothing is assumed of the clients and the worker.
FairSpec == Spec /\ WF_vars(LoopStep)

-----------------------------------------------------------------------------
(* A group that does not exist has hits only because its deletion is not   *)
(* over, did not get to the hits, or came during a round that had the      *)
(* group: any other sequence of calls and rounds leaves none behind.       *)
(* (APIv1HdlQG.cpp:89-98, QueryLoop.cpp:34-45)                             *)
OrphansRaced ==
  \A g \in Gid :
    qgs[g] = NoGroup /\ hits[g] # {} =>
      g \in half \cup raced \/ \E c \in Client : deleting[c] = g

(* A hit that is still one is not lost: a round takes a page off the hits  *)
(* of a group only if the page no longer matches, was saved again since    *)
(* the scan, or the scan broke off.  (QueryLoop.cpp:41-63)                 *)
HitsKept ==
  [][\A g \in Gid : \A u \in hits[g] \ hits'[g] :
       \/ ~Match(g, u)
       \/ u \in resaved
       \/ broken
       \/ \E c \in Client : deleting[c] = g]_vars

(* Every match is found in the end, also by groups set, and for pages      *)
(* saved, in the middle of a round: when a query of a group is in a page   *)
(* and stays so, the page gets among the group's hits - once no group is   *)
(* stored that cannot be read, for with one there are no rounds.           *)
(* (QueryLoop.cpp:17-63)                                                   *)
MatchFound ==
  \A g \in Gid, u \in Url, q \in Query :
    <>[]AllReadable =>
      ((qgs[g] # NoGroup /\ q \in BuildState(qgs)[g] \cap pages[u]) ~>
         (u \in hits[g] \/ q \notin BuildState(qgs)[g] \cap pages[u]))

-----------------------------------------------------------------------------
(* "Wait for real query complete and check hits", which are to be those    *)
(* expected of every group (api/v1/ut/APIv1Tester.cpp): after a round of   *)
(* the loop a group's hits are pages that match it - if neither changed    *)
(* since the round began and the scan did not break off.                   *)
HitsMatch ==
  [][EndRound /\ groups = BuildState(qgs) /\ resaved = {} /\ ~broken =>
       \A g \in Gid : qgs[g] # NoGroup => \A u \in hits[g] : Match(g, u)]_vars

-----------------------------------------------------------------------------
(***************************************************************************)
(* The inductive invariant behind the safety properties.                   *)
(***************************************************************************)
\* What the loop is going to save is of groups it knows, and those of them that
\* were deleted since are accounted for like the hits.
RoundInv ==
  \A g \in Gid :
    /\ found[g] # {} => groups[g] # {}
    /\ qgs[g] = NoGroup /\ groups[g] # {} =>
         g \in half \cup raced \/ \E c \in Client : deleting[c] = g

\* Nothing the scan had to find is missing from what is to be saved.
FoundInv ==
  pc = "save" /\ ~broken =>
    \A g \in Gid : found[g] # {} =>
      \A u \in Url \ resaved : Match(g, u) => u \in found[g]

IInv ==
  /\ TypeOK
  /\ RoundInv
  /\ FoundInv
  /\ OrphansRaced
=============================================================================
