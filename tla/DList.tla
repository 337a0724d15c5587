------------------------------- MODULE DList -------------------------------
(***************************************************************************)
(* The intrusive list of kernel/include/list.h, as a sequence of the       *)
(* objects whose nodes are linked on it, head first.                       *)
(***************************************************************************)
EXTENDS Naturals, Sequences

(* sys_dlist_remove: a node is on a list at most once.                      *)
Unlink(s, t) ==
  IF \E i \in DOMAIN s : s[i] = t
  THEN LET k == CHOOSE i \in DOMAIN s : s[i] = t
       IN  [j \in 1 .. Len(s) - 1 |-> IF j < k THEN s[j] ELSE s[j + 1]]
  ELSE s
=============================================================================
