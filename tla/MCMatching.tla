----------------------------- MODULE MCMatching -----------------------------
(***************************************************************************)
(* A small instance of Matching, and of QueryApi, for TLC.                 *)
(***************************************************************************)
EXTENDS QueryApi

CONSTANTS g1, u1, u2, q1, q2, q3, c1, c2

\* A page is found by one of the sets of queries that can be read, if at all.
MCQuerySets == {{}, {q1, q2}, {q1, q3}}
MCNotUtf8 == {q3}
MCContents == {{}, {q1}}

\* Bodies that are groups, and one of every kind that is none.
MCBody ==
  {[gid |-> g1, queries |-> js] : js \in {Null, {q1, q2}, {q1, q3}, NotArray, {q1, NotString}}}
    \cup {[gid |-> NotString, queries |-> Null], Unparsable}
=============================================================================
