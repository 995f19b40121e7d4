---------------------------- MODULE MCFetchLoop ----------------------------
(***************************************************************************)
(* A small instance of FetchLoop for TLC: a page, a robots.txt file and a  *)
(* page its host's robots rules forbid.                                    *)
(***************************************************************************)
EXTENDS FetchLoop

MCTopic == "page" :> 1 @@ "robots" :> 1 @@ "forbidden" :> 1
=============================================================================
