------------------------ MODULE MCSchedulerServer ------------------------
(***************************************************************************)
(* A small instance of SchedulerServer for TLC: two workers that ask and   *)
(* report at the same time.                                                 *)
(***************************************************************************)
EXTENDS SchedulerServer, TLC

MCMethodOf == "try1" :> "TryFetchUrls" @@ "try2" :> "TryFetchUrls" @@
              "result1" :> "OnFetched" @@ "result2" :> "OnFetched"
=============================================================================
