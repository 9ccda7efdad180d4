----------------------------- MODULE MCBackoff ------------------------------
(* Values of the constants of Backoff for the runs of TLC.                 *)
EXTENDS Backoff, TLC

MCSymmetry == Permutations(Jobs)
=============================================================================
