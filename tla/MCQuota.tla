------------------------------ MODULE MCQuota ------------------------------
(***************************************************************************)
(* A small instance of Quota for TLC: one status a fetch can end with.     *)
(***************************************************************************)
EXTENDS Quota

OneFinished == <<"OK">>
=============================================================================
