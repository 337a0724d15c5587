-------------------------------- MODULE Heap --------------------------------
(***************************************************************************)
(* What the kernel heap promises its callers (ulmk_mem_internal.h): the    *)
(* blocks it has handed out are disjoint pieces of its pool, each at least  *)
(* as long as the request and aligned as asked; a block stays where it is   *)
(* until it is freed; a request may be refused.                             *)
(***************************************************************************)
EXTENDS Integers

CONSTANTS
  PoolBase, PoolEnd,   \* the pool is the addresses PoolBase .. PoolEnd - 1
  Sizes, Aligns        \* the requests

VARIABLE given         \* blocks handed out and not freed: [addr, len, size, align],
                       \* the last two as they were asked for

Init == given = {}

\* A request for b.size bytes at a multiple of b.align, granted.
Alloc(b) ==
  /\ given' = given \cup {b}
  /\ b.size \in Sizes /\ b.align \in Aligns
  /\ b.addr % b.align = 0 /\ b.len >= b.size
  /\ PoolBase <= b.addr /\ b.addr + b.len <= PoolEnd
  /\ \A c \in given : c.addr + c.len <= b.addr \/ b.addr + b.len <= c.addr

Free(b) == given' = given \ {b}

Next == \/ \E b \in given' \ given : Alloc(b)
        \/ \E b \in given : Free(b)

Spec == Init /\ [][Next]_given
=============================================================================
