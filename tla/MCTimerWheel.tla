---------------------------- MODULE MCTimerWheel ----------------------------
(***************************************************************************)
(* TimerWheel with a few levels of 4 buckets, each twice as coarse as      *)
(* the one below.  The code's wheel has 5 levels of 64 and factor 8: there *)
(* too the number of buckets is the square of the factor.                  *)
(***************************************************************************)
EXTENDS TimerWheel

CONSTANTS Requests      \* the deltas asked for, before the margin is kept

ClearDeltas == {d \in Requests : ClearOfLevelEnd(d)}

Symmetry == Permutations(Timeouts)
=============================================================================
