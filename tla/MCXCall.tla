------------------------------- MODULE MCXCall -------------------------------
(***************************************************************************)
(* XCall for TLC.  No step tells one CPU, or one area, from another.       *)
(***************************************************************************)
EXTENDS XCall, TLC

Symmetry == Permutations(Cpus) \cup Permutations(Areas)
=============================================================================
