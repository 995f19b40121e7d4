---------------------------- MODULE MCFreqStats ----------------------------
(***************************************************************************)
(* Small instances of FreqStats for TLC.                                   *)
(***************************************************************************)
EXTENDS FreqStats, TLC

CONSTANTS u1, u2

Symmetry == Permutations(Url)
=============================================================================
