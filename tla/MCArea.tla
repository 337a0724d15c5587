------------------------------- MODULE MCArea -------------------------------
(* Memory areas of three threads, on the window rules of three ports. *)
EXTENDS Area, TLC

MCBuilds == {[pow2 |-> TRUE, min |-> 2, max |-> 0, align |-> 2],
             [pow2 |-> FALSE, min |-> 2, max |-> 0, align |-> 4],
             [pow2 |-> FALSE, min |-> 2, max |-> 2, align |-> 2]}
MCHints == {[base |-> 13, size |-> 5]}
MCArena == 4 .. 9
MCRights == {{"r"}, {"r", "w"}}
Symmetry == Permutations(Threads)
=============================================================================
