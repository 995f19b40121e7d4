--------------------------- MODULE MatchingProofs ---------------------------
(***************************************************************************)
(* The safety properties of Matching and of QueryApi for any groups,       *)
(* pages, queries, requests and numbers of HTTP threads.  IInv, defined in *)
(* Matching, is inductive; QueryApi implements Matching, so what is proved *)
(* of Matching holds of it, and both its own properties are invariants.    *)
(***************************************************************************)
EXTENDS QueryApi, TLAPS

USE MatchingAssumption

\* The hits of a group that was deleted since are accounted for.
Accounted(g) == g \in half \cup raced \/ \E c \in Client : deleting[c] = g

LEMMA BuildStateType ==
  ASSUME NEW q \in [Gid -> QuerySets \cup {NoGroup}]
  PROVE  /\ BuildState(q) \in [Gid -> SUBSET Query]
         /\ \A g \in Gid : q[g] = NoGroup => BuildState(q)[g] = {}
BY DEF BuildState

LEMMA FoundType ==
  ASSUME NEW S \in SUBSET Url
  PROVE  /\ Found(S) \in [Gid -> SUBSET Url]
         /\ \A g \in Gid : Found(S)[g] # {} => groups[g] # {}
         /\ \A g \in Gid : \A u \in S : Match(g, u) => u \in Found(S)[g]
BY DEF Found, Match

LEMMA InitIInv == Init => IInv
<1> SUFFICES ASSUME Init PROVE IInv
  OBVIOUS
<1> USE DEF Init
<1>1. TypeOK
  BY DEF TypeOK
<1>2. RoundInv /\ FoundInv /\ OrphansRaced
  BY DEF RoundInv, FoundInv, OrphansRaced
<1>3. QED
  BY <1>1, <1>2 DEF IInv

-----------------------------------------------------------------------------
LEMMA TypeStep == TypeOK /\ [Next]_vars => TypeOK'
<1> SUFFICES ASSUME TypeOK, [Next]_vars PROVE TypeOK'
  OBVIOUS
<1> USE DEF TypeOK, dbVars, loopVars
<1>1. CASE GetAllQG
  BY <1>1, BuildStateType DEF GetAllQG
<1>2. CASE ScanFull
  <2>1. PICK S \in SUBSET Url :
          /\ \/ broken' = FALSE /\ fails' = fails
             \/ broken' = TRUE /\ fails' = fails + 1
          /\ found' = Found(S)
    BY <1>2 DEF ScanFull
  <2>2. found' \in [Gid -> SUBSET Url]
    BY <2>1, FoundType
  <2>3. broken' \in BOOLEAN
    BY <2>1
  <2>4. fails' \in Nat
    BY <2>1
  <2> QED BY <1>2, <2>2, <2>3, <2>4 DEF ScanFull
<1>3. ASSUME NEW g \in Gid, SaveQGHits(g) PROVE TypeOK'
  BY <1>3 DEF SaveQGHits
<1>4. CASE EndRound
  <2>1. found = [g \in Gid |-> {}]
    BY <1>4 DEF EndRound
  <2> QED BY <1>4, <2>1 DEF EndRound
<1>5. ASSUME NEW g \in Gid, NEW queries \in QuerySets, SetQueryGroup(g, queries)
      PROVE  TypeOK'
  BY <1>5 DEF SetQueryGroup
<1>6. ASSUME NEW c \in Client, NEW g \in Gid, DeleteQG(c, g) PROVE TypeOK'
  BY <1>6 DEF DeleteQG
<1>7. ASSUME NEW c \in Client, DeleteQGHits(c) PROVE TypeOK'
  BY <1>7 DEF DeleteQGHits
<1>8. ASSUME NEW u \in Url, NEW content \in Contents, SavePage(u, content)
      PROVE  TypeOK'
  BY <1>8 DEF SavePage
<1>9. CASE Restart \/ GetAllQGThrows
  <2>1. Ends /\ restarts' \in Nat
    BY <1>9 DEF Restart, GetAllQGThrows
  <2>2. half' \subseteq Gid /\ UNCHANGED <<qgs, hits, pages, raced, fails>>
    BY <2>1 DEF Ends
  <2> QED BY <2>1, <2>2 DEF Ends
<1>10. CASE UNCHANGED vars
  BY <1>10 DEF vars
<1>11. QED
  BY <1>1, <1>2, <1>3, <1>4, <1>5, <1>6, <1>7, <1>8, <1>9, <1>10 DEF Next, LoopStep

\* Once the hits of a group are accounted for, they stay so until the hits are
\* deleted with no round under way that has the group.
LEMMA AccountedStep ==
  ASSUME TypeOK, [Next]_vars, NEW g \in Gid, Accounted(g)
  PROVE  \/ Accounted(g)'
         \/ (hits'[g] = {} /\ groups'[g] = {} /\ found' = found)
<1> USE DEF TypeOK, dbVars, loopVars, Accounted
<1>1. CASE GetAllQG \/ ScanFull \/ EndRound \/ UNCHANGED vars
  BY <1>1 DEF GetAllQG, ScanFull, EndRound, vars
<1>2. ASSUME NEW h \in Gid, SaveQGHits(h) PROVE Accounted(g)'
  BY <1>2 DEF SaveQGHits
<1>3. ASSUME NEW h \in Gid, NEW queries \in QuerySets, SetQueryGroup(h, queries)
      PROVE  Accounted(g)'
  BY <1>3 DEF SetQueryGroup
<1>4. ASSUME NEW c \in Client, NEW h \in Gid, DeleteQG(c, h) PROVE Accounted(g)'
  <2>1. \A d \in Client : deleting[d] = g => deleting'[d] = g
    BY <1>4 DEF DeleteQG
  <2> QED BY <1>4, <2>1 DEF DeleteQG
<1>5. ASSUME NEW c \in Client, DeleteQGHits(c)
      PROVE  Accounted(g)' \/ (hits'[g] = {} /\ groups'[g] = {} /\ found' = found)
  <2>1. CASE deleting[c] = g
    BY <1>5, <2>1 DEF DeleteQGHits
  <2>2. CASE deleting[c] # g
    <3>1. g \in half \cup raced => g \in half' \cup raced'
      BY <1>5, <2>2 DEF DeleteQGHits
    <3>2. \A d \in Client : deleting[d] = g => deleting'[d] = g
      BY <1>5, <2>2 DEF DeleteQGHits
    <3> QED BY <3>1, <3>2
  <2> QED BY <2>1, <2>2
<1>6. ASSUME NEW u \in Url, NEW content \in Contents, SavePage(u, content)
      PROVE  Accounted(g)'
  BY <1>6 DEF SavePage
<1>7. CASE Restart \/ GetAllQGThrows
  BY <1>7 DEF Restart, GetAllQGThrows, Ends
<1>8. QED
  BY <1>1, <1>2, <1>3, <1>4, <1>5, <1>6, <1>7 DEF Next, LoopStep

LEMMA RoundStep == IInv /\ [Next]_vars => RoundInv' /\ OrphansRaced'
<1> SUFFICES ASSUME IInv, [Next]_vars, NEW g \in Gid
             PROVE  /\ found'[g] # {} => groups'[g] # {}
                    /\ qgs'[g] = NoGroup /\ groups'[g] # {} => Accounted(g)'
                    /\ qgs'[g] = NoGroup /\ hits'[g] # {} => Accounted(g)'
  <2>1. (\A g \in Gid :
           /\ found'[g] # {} => groups'[g] # {}
           /\ qgs'[g] = NoGroup /\ groups'[g] # {} => Accounted(g)'
           /\ qgs'[g] = NoGroup /\ hits'[g] # {} => Accounted(g)')
         => RoundInv' /\ OrphansRaced'
    BY DEF RoundInv, OrphansRaced, Accounted
  <2> QED BY <2>1
<1> USE DEF IInv, TypeOK, dbVars, loopVars
<1>1. /\ found[g] # {} => groups[g] # {}
      /\ qgs[g] = NoGroup /\ groups[g] # {} => Accounted(g)
      /\ qgs[g] = NoGroup /\ hits[g] # {} => Accounted(g)
  BY DEF RoundInv, OrphansRaced, Accounted
<1>2. Accounted(g) => Accounted(g)' \/ (hits'[g] = {} /\ groups'[g] = {} /\ found' = found)
  BY AccountedStep
<1>3. CASE GetAllQG
  BY <1>1, <1>2, <1>3, BuildStateType DEF GetAllQG
<1>4. CASE ScanFull
  BY <1>1, <1>2, <1>4, FoundType DEF ScanFull
<1>5. ASSUME NEW h \in Gid, SaveQGHits(h)
      PROVE  /\ found'[g] # {} => groups'[g] # {}
             /\ qgs'[g] = NoGroup /\ groups'[g] # {} => Accounted(g)'
             /\ qgs'[g] = NoGroup /\ hits'[g] # {} => Accounted(g)'
  BY <1>1, <1>2, <1>5 DEF SaveQGHits
<1>6. CASE EndRound
  BY <1>1, <1>2, <1>6 DEF EndRound
<1>7. ASSUME NEW h \in Gid, NEW queries \in QuerySets, SetQueryGroup(h, queries)
      PROVE  /\ found'[g] # {} => groups'[g] # {}
             /\ qgs'[g] = NoGroup /\ groups'[g] # {} => Accounted(g)'
             /\ qgs'[g] = NoGroup /\ hits'[g] # {} => Accounted(g)'
  BY <1>1, <1>2, <1>7 DEF SetQueryGroup
<1>8. ASSUME NEW c \in Client, NEW h \in Gid, DeleteQG(c, h)
      PROVE  /\ found'[g] # {} => groups'[g] # {}
             /\ qgs'[g] = NoGroup /\ groups'[g] # {} => Accounted(g)'
             /\ qgs'[g] = NoGroup /\ hits'[g] # {} => Accounted(g)'
  <2>1. CASE h = g
    BY <1>1, <1>8, <2>1 DEF DeleteQG, Accounted
  <2>2. CASE h # g
    BY <1>1, <1>2, <1>8, <2>2 DEF DeleteQG
  <2> QED BY <2>1, <2>2
<1>9. ASSUME NEW c \in Client, DeleteQGHits(c)
      PROVE  /\ found'[g] # {} => groups'[g] # {}
             /\ qgs'[g] = NoGroup /\ groups'[g] # {} => Accounted(g)'
             /\ qgs'[g] = NoGroup /\ hits'[g] # {} => Accounted(g)'
  <2>1. hits'[g] # {} => hits[g] # {}
    BY <1>9 DEF DeleteQGHits
  <2> QED BY <1>1, <1>2, <1>9, <2>1 DEF DeleteQGHits
<1>10. ASSUME NEW u \in Url, NEW content \in Contents, SavePage(u, content)
      PROVE  /\ found'[g] # {} => groups'[g] # {}
             /\ qgs'[g] = NoGroup /\ groups'[g] # {} => Accounted(g)'
             /\ qgs'[g] = NoGroup /\ hits'[g] # {} => Accounted(g)'
  BY <1>1, <1>2, <1>10 DEF SavePage
<1>11. CASE Restart \/ GetAllQGThrows
  BY <1>1, <1>2, <1>11 DEF Restart, GetAllQGThrows, Ends
<1>12. CASE UNCHANGED vars
  BY <1>1, <1>2, <1>12 DEF vars
<1>13. QED
  BY <1>3, <1>4, <1>5, <1>6, <1>7, <1>8, <1>9, <1>10, <1>11, <1>12 DEF Next, LoopStep

LEMMA FoundStep == TypeOK /\ FoundInv /\ [Next]_vars => FoundInv'
<1> SUFFICES ASSUME TypeOK, FoundInv, [Next]_vars, pc' = "save", ~broken',
                    NEW g \in Gid, found'[g] # {},
                    NEW u \in Url \ resaved', Match(g, u)'
             PROVE  u \in found'[g]
  BY DEF FoundInv
<1> USE DEF TypeOK, dbVars, loopVars
<1>1. pc = "save" /\ ~broken /\ found[g] # {} /\ u \notin resaved /\ Match(g, u)
        => u \in found[g]
  BY DEF FoundInv
<1>2. CASE ScanFull
  <2>1. found' = Found(Url) /\ Match(g, u)
    BY <1>2 DEF ScanFull, Match
  <2> QED BY <2>1, FoundType
<1>3. ASSUME NEW h \in Gid, SaveQGHits(h) PROVE u \in found'[g]
  BY <1>1, <1>3 DEF SaveQGHits, Match
<1>4. ASSUME NEW h \in Gid, NEW queries \in QuerySets, SetQueryGroup(h, queries)
      PROVE  u \in found'[g]
  BY <1>1, <1>4 DEF SetQueryGroup, Match
<1>5. ASSUME NEW c \in Client, NEW h \in Gid, DeleteQG(c, h) PROVE u \in found'[g]
  BY <1>1, <1>5 DEF DeleteQG, Match
<1>6. ASSUME NEW c \in Client, DeleteQGHits(c) PROVE u \in found'[g]
  BY <1>1, <1>6 DEF DeleteQGHits, Match
<1>7. ASSUME NEW v \in Url, NEW content \in Contents, SavePage(v, content)
      PROVE  u \in found'[g]
  BY <1>1, <1>7 DEF SavePage, Match
<1>8. CASE UNCHANGED vars
  BY <1>1, <1>8 DEF vars, Match
<1>9. CASE GetAllQG \/ EndRound \/ Restart \/ GetAllQGThrows
  BY <1>9 DEF GetAllQG, EndRound, Restart, GetAllQGThrows, Ends
<1>10. QED
  BY <1>2, <1>3, <1>4, <1>5, <1>6, <1>7, <1>8, <1>9 DEF Next, LoopStep

(* IInv is an inductive invariant of the rounds, the handlers, the page    *)
(* saves and the restarts.  (QueryLoop.cpp, APIv1HdlQG.cpp, QueryDb.cpp)   *)
THEOREM MatchingInductive == Spec => []IInv
<1>1. IInv /\ [Next]_vars => IInv'
  BY TypeStep, RoundStep, FoundStep DEF IInv
<1>2. QED
  BY InitIInv, <1>1, PTL DEF Spec

-----------------------------------------------------------------------------
(* The databases, the round and the handlers keep their types; the loop    *)
(* takes nothing from one round into the next.  (QueryLoop.cpp:34-45)      *)
THEOREM MatchingTypeCorrect == Spec => []TypeOK
<1>1. IInv => TypeOK
  BY DEF IInv
<1>2. QED
  BY <1>1, MatchingInductive, PTL

(* Hits of a group that does not exist are left only by a deletion that    *)
(* raced a round, failed half-way, or is not over.                         *)
(* (APIv1HdlQG.cpp:89-98, QueryLoop.cpp:34-45)                             *)
THEOREM OrphansExplained == Spec => []OrphansRaced
<1>1. IInv => OrphansRaced
  BY DEF IInv
<1>2. QED
  BY <1>1, MatchingInductive, PTL

(* No round loses a hit of a page that still matches, was not saved again  *)
(* since the scan, and could be scanned.  (QueryLoop.cpp:41-63)            *)
THEOREM HitsStay == Spec => HitsKept
<1> DEFINE Kept(g, u) ==
      \/ ~Match(g, u)
      \/ u \in resaved
      \/ broken
      \/ \E c \in Client : deleting[c] = g
<1>1. IInv /\ [Next]_vars => [\A g \in Gid : \A u \in hits[g] \ hits'[g] : Kept(g, u)]_vars
  <2> SUFFICES ASSUME IInv, Next, NEW g \in Gid, NEW u \in hits[g] \ hits'[g]
               PROVE  Kept(g, u)
    OBVIOUS
  <2> USE DEF IInv, TypeOK, dbVars, loopVars
  <2>1. ASSUME NEW h \in Gid, SaveQGHits(h) PROVE Kept(g, u)
    <3>1. h = g /\ pc = "save" /\ found[g] # {} /\ u \notin found[g] /\ u \in Url
      BY <2>1 DEF SaveQGHits
    <3> QED BY <3>1 DEF FoundInv
  <2>2. ASSUME NEW c \in Client, DeleteQGHits(c) PROVE Kept(g, u)
    <3>1. deleting[c] = g
      BY <2>2 DEF DeleteQGHits
    <3> QED BY <3>1
  <2>3. ASSUME UNCHANGED hits PROVE FALSE
    BY <2>3
  <2>4. QED
    BY <2>1, <2>2, <2>3 DEF Next, LoopStep, GetAllQG, ScanFull, EndRound,
       SetQueryGroup, DeleteQG, SavePage, Restart, GetAllQGThrows, Ends
<1>2. QED
  BY <1>1, MatchingInductive, PTL DEF Spec, HitsKept

-----------------------------------------------------------------------------
(***************************************************************************)
(* What the users of the API may rely on.                                  *)
(***************************************************************************)
USE QueryApiAssumption

LEMMA InitMaps == ApiInit => Init
BY DEF ApiInit

LEMMA StepMaps == [ApiNext]_apiVars => [Next]_vars
<1> SUFFICES ASSUME [ApiNext]_apiVars PROVE [Next]_vars
  OBVIOUS
<1>1. CASE Round
  BY <1>1 DEF Round, Next
<1>2. ASSUME NEW body \in Body, SaveQG(body) PROVE Next
  <2>1. body.gid \in Gid /\ Elements(body.queries) \in QuerySets
    BY <1>2 DEF SaveQG
  <2>2. SetQueryGroup(body.gid, Elements(body.queries))
    BY <1>2 DEF SaveQG, FromJson
  <2> QED BY <2>1, <2>2 DEF Next
<1>3. ASSUME NEW c \in Client, NEW g \in Gid, DeleteGroup(c, g) PROVE Next
  BY <1>3 DEF DeleteGroup, Next
<1>4. ASSUME NEW c \in Client, DeleteHits(c) PROVE Next
  BY <1>4 DEF DeleteHits, Next
<1>5. CASE Other
  BY <1>5 DEF Other, Next
<1>6. CASE UNCHANGED apiVars
  BY <1>6 DEF apiVars
<1>7. QED
  BY <1>1, <1>2, <1>3, <1>4, <1>5, <1>6 DEF ApiNext

\* QueryApi only adds histories and the bodies that are no group to Matching.
LEMMA ApiImplementsMatching == ApiSpec => Spec
BY InitMaps, StepMaps, PTL DEF ApiSpec, Spec

LEMMA ApiInductive == ApiSpec => []IInv
BY ApiImplementsMatching, MatchingInductive, PTL

-----------------------------------------------------------------------------
\* The stored groups are the ones the users set.
Wanted == wanted = qgs

LEMMA WantedInit == ApiInit => Wanted
BY DEF ApiInit, Init, Wanted

LEMMA WantedStep == TypeOK /\ Wanted /\ [ApiNext]_apiVars => Wanted'
<1> SUFFICES ASSUME TypeOK, Wanted, [ApiNext]_apiVars PROVE Wanted'
  OBVIOUS
<1> USE DEF Wanted, TypeOK, dbVars, loopVars
<1>1. CASE Round
  BY <1>1 DEF Round, LoopStep, GetAllQG, ScanFull, SaveQGHits, EndRound,
     GetAllQGThrows, Ends
<1>2. ASSUME NEW body \in Body, SaveQG(body) PROVE Wanted'
  BY <1>2 DEF SaveQG, SetQueryGroup, FromJson
<1>3. ASSUME NEW c \in Client, NEW g \in Gid, DeleteGroup(c, g) PROVE Wanted'
  BY <1>3 DEF DeleteGroup, DeleteQG
<1>4. ASSUME NEW c \in Client, DeleteHits(c) PROVE Wanted'
  BY <1>4 DEF DeleteHits, DeleteQGHits
<1>5. CASE Other
  BY <1>5 DEF Other, SavePage, Restart, Ends
<1>6. CASE UNCHANGED apiVars
  BY <1>6 DEF apiVars, vars
<1>7. QED
  BY <1>1, <1>2, <1>3, <1>4, <1>5, <1>6 DEF ApiNext

\* fromJson makes of the JSON of a group the group again, one without queries too.
LEMMA JsonRoundTrip ==
  ASSUME NEW g \in Gid, NEW S \in SUBSET Query
  PROVE  LET js == ToJsonValue([gid |-> g, queries |-> S]) IN
           /\ ~Throws(js.gid, js.queries)
           /\ FromJson(js) = [gid |-> g, queries |-> S]
BY DEF ToJsonValue, FromJson, Throws, JsonArray, Elements, IsArray

\* getAllQG reads the groups that exist, under their gids, if it can read them all.
LEMMA GroupsListed ==
  ASSUME TypeOK, Wanted, AllReadable
  PROVE  Elements(HdlGetQueryGroupsList.query_groups) = {g \in Gid : wanted[g] # NoGroup}
<1> DEFINE L == {g \in Gid : qgs[g] # NoGroup}
<1>1. StoredQGs = {Stored(g) : g \in L}
  BY DEF StoredQGs, LoadQG
<1>2. \A g \in L : Stored(g).gid = g
  BY DEF Stored
<1>3. {qg.gid : qg \in StoredQGs} = L
  BY <1>1, <1>2
<1>4. L \in SUBSET Gid /\ L # Null /\ L # NotArray
  OBVIOUS
<1>5. Elements(JsonArray(L)) = L
  BY <1>4 DEF Elements, JsonArray, IsArray
<1>6. L = {g \in Gid : wanted[g] # NoGroup}
  BY DEF Wanted
<1> HIDE DEF L
<1>7. HdlGetQueryGroupsList.query_groups = JsonArray({qg.gid : qg \in StoredQGs})
  BY DEF HdlGetQueryGroupsList
<1> QED BY <1>3, <1>5, <1>6, <1>7

LEMMA WantedRead == TypeOK /\ Wanted => SetIsRead
<1> SUFFICES ASSUME TypeOK, Wanted PROVE SetIsRead
  OBVIOUS
<1>1. ASSUME NEW g \in Gid, wanted[g] = NoGroup
      PROVE  HdlGetQueryGroup(g).status = "bad_request"
  BY <1>1 DEF HdlGetQueryGroup, LoadQG, Wanted
<1>2. ASSUME NEW g \in Gid, wanted[g] # NoGroup, Readable(g, wanted[g])
      PROVE  ReadBack(g)
  <2>1. qgs[g] = wanted[g] /\ wanted[g] \in SUBSET Query
    BY <1>2, MatchingAssumption DEF Wanted, TypeOK
  <2>2. HdlGetQueryGroup(g) =
          [status |-> "ok", result |-> ToJsonValue([gid |-> g, queries |-> wanted[g]])]
    BY <1>2, <2>1 DEF HdlGetQueryGroup, LoadQG, Stored
  <2> QED BY <2>1, <2>2, JsonRoundTrip DEF ReadBack
<1>3. (\A g \in Gid : wanted[g] # NoGroup => Readable(g, wanted[g])) => AllReadable
  BY DEF AllReadable, Wanted
<1> QED BY <1>1, <1>2, <1>3, GroupsListed DEF SetIsRead

(* What was set in UTF-8 is read back through dump, leveldb and JSON,      *)
(* after any rounds, requests and restarts, whatever else was set; the     *)
(* rest of what is set is not: see Readable and SetIsGot.                  *)
(* (QueryGroup.cpp:13-76, QueryDb.cpp)                                     *)
THEOREM SetsAreRead == ApiSpec => []SetIsRead
<1>1. IInv => TypeOK
  BY DEF IInv
<1>2. QED
  BY <1>1, ApiInductive, WantedInit, WantedStep, WantedRead, PTL DEF ApiSpec

-----------------------------------------------------------------------------
\* What matches now is due, and so is all that is shown or about to be - of the
\* groups whose deletion is not accounted for.
OwnInv ==
  \A g \in Gid :
    /\ \A u \in Url : Match(g, u) => u \in due[g]
    /\ hits[g] \cup found[g] \subseteq due[g] \/ Accounted(g)

DueType == due \in [Gid -> SUBSET Url]

LEMMA OwnInit == ApiInit => DueType /\ OwnInv
BY DEF ApiInit, Init, DueType, OwnInv, Match

\* Whatever is deleted, the pages that match afterwards are due.
LEMMA TrackStep ==
  ASSUME NEW deleted, Track(deleted), DueType
  PROVE  /\ DueType'
         /\ \A g \in Gid : \A u \in Url : Match(g, u)' => u \in due'[g]
         /\ \A g \in Gid : g \notin deleted => due[g] \subseteq due'[g]
BY DEF Track, DueType

LEMMA SomeTrack ==
  ASSUME [ApiNext]_apiVars
  PROVE  \/ \E deleted : Track(deleted)
         \/ UNCHANGED apiVars
BY DEF ApiNext, Round, SaveQG, DeleteGroup, DeleteHits, Other

LEMMA OwnStep == IInv /\ DueType /\ OwnInv /\ [ApiNext]_apiVars => DueType' /\ OwnInv'
<1> SUFFICES ASSUME IInv, DueType, OwnInv, [ApiNext]_apiVars PROVE DueType' /\ OwnInv'
  OBVIOUS
<1>1. DueType' /\ \A g \in Gid : \A u \in Url : Match(g, u)' => u \in due'[g]
  BY SomeTrack, TrackStep DEF apiVars, vars, DueType, OwnInv, Match
<1>2. ASSUME NEW g \in Gid
      PROVE  hits'[g] \cup found'[g] \subseteq due'[g] \/ Accounted(g)'
  <2> USE DEF dbVars, loopVars
  <2>1. TypeOK /\ [Next]_vars
    BY StepMaps DEF IInv
  <2>2. Accounted(g) =>
          Accounted(g)' \/ (hits'[g] = {} /\ groups'[g] = {} /\ found' = found)
    BY <2>1, AccountedStep
  <2>3. found[g] # {} => groups[g] # {}
    BY DEF IInv, RoundInv
  <2>4. CASE Accounted(g)
    <3>1. CASE Accounted(g)'
      BY <3>1
    <3>2. CASE hits'[g] = {} /\ groups'[g] = {} /\ found' = found
      <4>1. found'[g] # {} => groups'[g] # {}
        BY <2>1, RoundStep DEF RoundInv
      <4> QED BY <3>2, <4>1
    <3> QED BY <2>2, <2>4, <3>1, <3>2
  <2>5. CASE ~Accounted(g)
    <3>1. hits[g] \cup found[g] \subseteq due[g]
      BY <2>5 DEF OwnInv
    <3>2. CASE Round
      <4>1. due[g] \subseteq due'[g]
        BY <3>2, TrackStep DEF Round
      <4>2. CASE ScanFull
        <5>1. PICK S \in SUBSET Url : found' = Found(S)
          BY <4>2 DEF ScanFull
        <5>2. found'[g] \subseteq {u \in Url : Match(g, u)}
          BY <5>1 DEF Found
        <5>3. {u \in Url : Match(g, u)} \subseteq due[g]
          BY DEF OwnInv
        <5>4. hits' = hits
          BY <4>2 DEF ScanFull
        <5> QED BY <3>1, <4>1, <5>2, <5>3, <5>4
      <4>3. ASSUME NEW h \in Gid, SaveQGHits(h)
            PROVE  hits'[g] \cup found'[g] \subseteq hits[g] \cup found[g]
        BY <2>1, <4>3 DEF SaveQGHits, TypeOK
      <4>4. CASE GetAllQG \/ EndRound \/ GetAllQGThrows
        BY <3>1, <4>1, <4>4 DEF GetAllQG, EndRound, GetAllQGThrows, Ends
      <4> QED BY <3>1, <3>2, <4>1, <4>2, <4>3, <4>4 DEF Round, LoopStep
    <3>3. ASSUME NEW body \in Body, SaveQG(body)
          PROVE  hits'[g] \cup found'[g] \subseteq due'[g]
      <4>1. due[g] \subseteq due'[g]
        BY <3>3, TrackStep DEF SaveQG
      <4> QED BY <3>1, <3>3, <4>1 DEF SaveQG, SetQueryGroup
    <3>4. ASSUME NEW c \in Client, NEW h \in Gid, DeleteGroup(c, h)
          PROVE  hits'[g] \cup found'[g] \subseteq due'[g]
      <4>1. due[g] \subseteq due'[g]
        BY <3>4, TrackStep DEF DeleteGroup
      <4> QED BY <3>1, <3>4, <4>1 DEF DeleteGroup, DeleteQG
    <3>5. ASSUME NEW c \in Client, DeleteHits(c)
          PROVE  hits'[g] \cup found'[g] \subseteq due'[g]
      <4>1. deleting[c] # g
        BY <2>5 DEF Accounted
      <4>2. due[g] \subseteq due'[g]
        BY <3>5, <4>1, TrackStep DEF DeleteHits
      <4>3. hits'[g] = hits[g] /\ found' = found
        BY <2>1, <3>5, <4>1 DEF DeleteHits, DeleteQGHits, TypeOK
      <4> QED BY <3>1, <4>2, <4>3
    <3>6. CASE Other
      <4>1. due[g] \subseteq due'[g]
        BY <3>6, TrackStep DEF Other
      <4>2. hits' = hits /\ (found' = found \/ found' = [h \in Gid |-> {}])
        BY <3>6 DEF Other, SavePage, Restart, Ends
      <4>3. hits'[g] \cup found'[g] \subseteq hits[g] \cup found[g]
        BY <4>2
      <4> QED BY <3>1, <4>1, <4>3
    <3>7. CASE UNCHANGED apiVars
      BY <3>1, <3>7 DEF apiVars, vars
    <3> QED BY <3>2, <3>3, <3>4, <3>5, <3>6, <3>7 DEF ApiNext
  <2> QED BY <2>4, <2>5
<1> QED BY <1>1, <1>2 DEF OwnInv

LEMMA OwnShown == TypeOK /\ OwnInv => HitsOwn
<1> SUFFICES ASSUME TypeOK, OwnInv, NEW g \in Gid
             PROVE  \/ HitsFromJson(HdlGetHits(g).result).hits \subseteq due[g]
                    \/ Accounted(g)
  BY DEF HitsOwn, Accounted
<1>1. hits[g] \in SUBSET Url
  BY DEF TypeOK
<1>2. LoadQGHits(g).hits = hits[g]
  BY DEF LoadQGHits, StoredHits
<1>3. HitsFromJson(HdlGetHits(g).result).hits = Elements(JsonArray(hits[g]))
  BY <1>2 DEF HitsFromJson, HdlGetHits, HitsToJsonValue
<1>4. Elements(JsonArray(hits[g])) = hits[g]
  BY <1>1 DEF Elements, JsonArray, IsArray
<1> QED BY <1>3, <1>4 DEF OwnInv

(* The hits a user is shown are the group's own: a group made anew under   *)
(* the gid of a deleted one shows none of its hits, but for the deletions  *)
(* that raced a round, failed half-way or are not over.                    *)
(* (APIv1HdlQG.cpp:89-98, QueryLoop.cpp:34-63)                             *)
THEOREM HitsAreOwn == ApiSpec => []HitsOwn
<1>1. IInv => TypeOK
  BY DEF IInv
<1>2. QED
  BY <1>1, ApiInductive, OwnInit, OwnStep, OwnShown, PTL DEF ApiSpec
=============================================================================
