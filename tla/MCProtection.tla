---------------------------- MODULE MCProtection ----------------------------
(***************************************************************************)
(* The protection units of the five ports, one per behaviour: the slot      *)
(* units on a map of 40 granules, the page tables of a hart with six        *)
(* megapages of two pages and four level-2 tables.                          *)
(***************************************************************************)
EXTENDS MpuSlots, TLC

\* Flash 0..7 (user text 4..7), kernel RAM 8..12, user RAM 13..15, heap 16..31,
\* peripherals 32..35.
MCAddrs == 0 .. 39
MCText == [lo |-> 4, hi |-> 8]
MCFlash == [lo |-> 0, hi |-> 8]
MCKRam == [lo |-> 8, hi |-> 13]
MCRam == [lo |-> 13, hi |-> 16]
MCMmio == [lo |-> 32, hi |-> 36]

MCPorts ==
  {[name |-> "pmp", slots |-> 8, text |-> 2, ram |-> 4, mmio |-> 5, pin |-> -1, tor |-> TRUE, taken |-> {7}],
   [name |-> "v7m", slots |-> 6, text |-> 2, ram |-> 3, mmio |-> 4, pin |-> -1, tor |-> FALSE, taken |-> {}],
   [name |-> "v8m", slots |-> 6, text |-> 2, ram |-> 3, mmio |-> 4, pin |-> -1, tor |-> FALSE, taken |-> {}],
   [name |-> "tricore", slots |-> 9, text |-> 3, ram |-> 2, mmio |-> 4, pin |-> 5, tor |-> FALSE, taken |-> {0, 1, 5, 8}]}

W(lo, hi, perms) == [lo |-> lo, hi |-> hi, perms |-> perms]

\* Two threads with a stack on the heap, one with a linker-reserved stack.  One
\* has mapped part of kernel RAM.
CONSTANTS ta, tb, tc
MCStacks == (ta :> [lo |-> 16, hi |-> 18]) @@ (tb :> [lo |-> 18, hi |-> 20]) @@ (tc :> [lo |-> 13, hi |-> 14])
MCAreas == (ta :> {W(20, 22, {"r", "w"}), W(22, 23, {"r"}), W(24, 28, {"r", "w"}), W(36, 38, {"r", "w"})})
        @@ (tb :> {W(20, 22, {"r"}), W(28, 32, {"r", "x"})})
        @@ (tc :> {W(24, 28, {"r"}), W(10, 12, {"r", "w"})})

-----------------------------------------------------------------------------
\* The hart: user text is page 1, user RAM pages 2..3 (a megapage).
VARIABLES root, l2, l2_vpn1, l2_pin, l2_static, pin, ring, dyn_next, owner, running, tlb, got

pageVars == <<root, l2, l2_vpn1, l2_pin, l2_static, pin, ring, dyn_next, owner, running, tlb, got>>

P(page, perms) == [page |-> page, perms |-> perms]
Pages == INSTANCE Sv32 WITH
  Per <- 2, Megas <- 6, L2_NUM <- 4, DYN_MAX <- 2,
  Static <- <<[lo |-> 1, hi |-> 2, perms |-> {"r", "x"}], [lo |-> 2, hi |-> 4, perms |-> {"r", "w"}]>>,
  Ram <- [lo |-> 2, hi |-> 4],
  Stacks <- (ta :> [lo |-> 5, hi |-> 7]) @@ (tb :> [lo |-> 5, hi |-> 6]) @@ (tc :> [lo |-> 2, hi |-> 3]),
  Areas <- (ta :> {P(0, {"r"}), P(7, {"r", "w"}), P(8, {"w"}), P(10, {"r"}), P(11, {"x"})})
        @@ (tb :> {P(6, {"r", "w"}), P(8, {"r"})})
        @@ (tc :> {P(5, {"r"}), P(8, {"r", "x"}), P(10, {"r", "w"})}),
  pinned <- owner, cur <- running, loaded <- got

\* A paged build has no slots.
Paged == [name |-> "sv32"]
NoSlots == /\ port = Paged /\ slot = <<>> /\ cur = Nil /\ pinned = Nil
           /\ dyn = {} /\ next = 0 /\ loaded = {}

PortSpec ==
  /\ Init \/ NoSlots
  /\ Pages!Init
  /\ [][\/ port # Paged /\ Next /\ UNCHANGED pageVars
        \/ port = Paged /\ Pages!Next /\ UNCHANGED vars]_<<vars, pageVars>>

\* Root entries and level-2 tables of the hart name each other in every order
\* of loads, evictions and drops, and what it has cached of the running thread
\* is what they say (l2_alloc, l2_release, dyn_drop and the fences of dyn_push
\* and user_layout).
TablesSound == Pages!TablesMatch /\ Pages!CacheCoherent

\* On no port is a window of the running thread refused as a violation unless
\* the thread reaches it already (the "already live" tests of
\* ulmk_arch_mpu_load; on a hart also running out of level-2 tables).
NoLegalAccessRefused == IF port = Paged THEN Pages!NoFalseViolation ELSE NoFalseViolation

\* Slot units and page tables implement the protection unit the kernel relies
\* on (ulmk_arch_mpu_switch, _flush and _load of the five ports).
UnitsKept == KeepsUnit /\ Pages!KeepsUnit
=============================================================================
