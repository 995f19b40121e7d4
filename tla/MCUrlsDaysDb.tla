---------------------------- MODULE MCUrlsDaysDb ----------------------------
(***************************************************************************)
(* Small instances of UrlsDaysDb for TLC.                                  *)
(***************************************************************************)
EXTENDS UrlsDaysDb

CONSTANTS u1, u2

\* Visits of now, of a day ago (too old once they waited), and of tomorrow.
MCAge == {0, 2, -2}
=============================================================================
