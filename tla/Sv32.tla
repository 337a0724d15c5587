-------------------------------- MODULE Sv32 --------------------------------
(***************************************************************************)
(* The page-table protection unit of one RISC-V hart                        *)
(* (arch/riscv/mmu_sv32.c): a root table, a few level-2 tables handed out   *)
(* and taken back, the pinned stack, and a ring of pages loaded on faults.  *)
(* Addresses are pages; Per pages make a megapage.  The translation cache   *)
(* of the hart may hold any mapping the tables had since it was fenced.     *)
(***************************************************************************)
EXTENDS Integers, Sequences, FiniteSets, FiniteSetsExt

CONSTANTS
  Threads, Nil,
  Per, Megas,        \* pages of a level-2 table, entries of the root table
  L2_NUM, DYN_MAX,   \* ULMK_ARCH_SV32_L2_NUM, ULMK_ARCH_SV32_DYN_MAX
  Static,            \* the static user map, in order: [lo, hi, perms]
  Ram,               \* user RAM, [lo, hi)
  Stacks,            \* thread -> [lo, hi) of its pinned stack
  Areas              \* thread -> pages its areas give: [page, perms]

VARIABLES
  root,      \* megapage -> NoPte, a leaf [leaf |-> perms] or [table |-> i]
  l2,        \* level-2 table -> page in it -> rights, {} when not valid
  l2_vpn1,   \* level-2 table -> the megapage it serves, or None
  l2_pin,    \* dynamic tables that hold pinned pages
  l2_static, \* tables below this one hold the static map
  pin,       \* the pinned pages mapped, [lo, hi)
  ring,      \* pages loaded on faults (dyn, dyn_n)
  dyn_next,  \* the next one to go
  pinned,    \* the thread whose layout is loaded, or Nil
  cur,       \* the running user thread, or Nil
  tlb,       \* mappings the hart has cached: <<page, rights>>
  loaded     \* history: windows loaded since the last layout or flush

vars == <<root, l2, l2_vpn1, l2_pin, l2_static, pin, ring, dyn_next, pinned, cur, tlb, loaded>>

None == -1
NoPte == [none |-> TRUE]
Tables == 0 .. L2_NUM - 1
Pages == 0 .. Megas * Per - 1
VPN1(p) == p \div Per
VPN0(p) == p % Per

\* W without R is a reserved encoding.
perms_to_pte(perms) == IF "w" \in perms THEN perms \cup {"r"} ELSE perms

(***************************************************************************)
(* The tables as one record t = [root, l2, vpn1, pin, static].              *)
(***************************************************************************)
Tables_ == [root |-> root, l2 |-> l2, vpn1 |-> l2_vpn1, pin |-> l2_pin, static |-> l2_static]

l2_find(t, vpn1) == IF \E i \in Tables : t.vpn1[i] = vpn1
                    THEN CHOOSE i \in Tables : t.vpn1[i] = vpn1 ELSE None

Spare(t) == {i \in t.static .. L2_NUM - 1 : t.vpn1[i] = None}

\* The table for a megapage, a cleared spare one if it has none; no table if
\* the entry is taken or none is spare.
l2_alloc(t, vpn1) ==
  IF t.root[vpn1] # NoPte \/ Spare(t) = {} THEN t
  ELSE LET i == Min(Spare(t)) IN
       [t EXCEPT !.l2[i] = [q \in 0 .. Per - 1 |-> {}], !.vpn1[i] = vpn1, !.root[vpn1] = [table |-> i]]

\* pte_slot with alloc: the tables with room for page p, if there is any.
WithSlot(t, p) == IF l2_find(t, VPN1(p)) = None THEN l2_alloc(t, VPN1(p)) ELSE t
HasSlot(t, p) == l2_find(t, VPN1(p)) # None
Pte(t, p) == t.l2[l2_find(t, VPN1(p))][VPN0(p)]
SetPte(t, p, rights) == [t EXCEPT !.l2[l2_find(t, VPN1(p))][VPN0(p)] = rights]

unmap_page(t, p) == IF HasSlot(t, p) THEN SetPte(t, p, {}) ELSE t
unmap_pages(t, S) == FoldSet(LAMBDA p, u : unmap_page(u, p), t, S)

\* static_map from page lo on: a megapage where one fits, else single pages
\* of a table that becomes static.
StaticStep(t, lo, hi, rights) ==
  IF lo % Per = 0 /\ hi - lo >= Per /\ t.root[VPN1(lo)] = NoPte
  THEN [t |-> [t EXCEPT !.root[VPN1(lo)] = [leaf |-> rights]], lo |-> lo + Per]
  ELSE LET u == IF HasSlot(t, lo) THEN t
                ELSE [l2_alloc(t, VPN1(lo)) EXCEPT !.static = @ + 1]
       IN [t |-> SetPte(u, lo, rights), lo |-> lo + 1]

static_map(t, r) ==
  LET walk[n \in 0 .. r.hi - r.lo] ==
        IF n = 0 THEN [t |-> t, lo |-> r.lo]
        ELSE IF walk[n - 1].lo >= r.hi THEN walk[n - 1]
        ELSE StaticStep(walk[n - 1].t, walk[n - 1].lo, r.hi, perms_to_pte(r.perms))
  IN walk[r.hi - r.lo].t

\* Tables of the static map at boot.
StaticTables ==
  LET empty == [root |-> [m \in 0 .. Megas - 1 |-> NoPte],
                l2 |-> [i \in Tables |-> [q \in 0 .. Per - 1 |-> {}]],
                vpn1 |-> [i \in Tables |-> None], pin |-> {}, static |-> 0]
      upto[n \in 0 .. Len(Static)] == IF n = 0 THEN empty ELSE static_map(upto[n - 1], Static[n])
  IN upto[Len(Static)]

\* The loaded pages go, and the dynamic tables that hold no pinned page.
dyn_drop(t, pages) ==
  LET u == unmap_pages(t, pages)
      gone == {i \in t.static .. L2_NUM - 1 : t.vpn1[i] # None /\ i \notin t.pin}
  IN [u EXCEPT !.root = [m \in DOMAIN @ |-> IF \E i \in gone : u.vpn1[i] = m THEN NoPte ELSE @[m]],
               !.vpn1 = [i \in Tables |-> IF i \in gone THEN None ELSE @[i]]]

pin_drop(t, p) == [unmap_pages(t, p.lo .. p.hi - 1) EXCEPT !.pin = {}]

\* The pinned pages in order, up to the first without a table.
pin_map(t, s) ==
  LET to[n \in 0 .. s.hi - s.lo] ==
        IF n = 0 THEN [t |-> t, hi |-> s.lo, ok |-> TRUE]
        ELSE LET was == to[n - 1]
                 p == s.lo + n - 1
                 u == WithSlot(was.t, p)
                 i == l2_find(u, VPN1(p))
             IN IF ~was.ok \/ i = None THEN [was EXCEPT !.ok = FALSE]
                ELSE [t |-> [SetPte(u, p, {"r", "w"}) EXCEPT
                               !.pin = IF i >= u.static THEN @ \cup {i} ELSE @],
                      hi |-> p + 1, ok |-> TRUE]
  IN to[s.hi - s.lo]

covered_by_uram(s) == Ram.lo <= s.lo /\ s.hi <= Ram.hi

Install(t) == /\ root' = t.root /\ l2' = t.l2 /\ l2_vpn1' = t.vpn1
              /\ l2_pin' = t.pin /\ l2_static' = t.static

-----------------------------------------------------------------------------
\* ulmk_arch_mpu_init
Init ==
  /\ root = StaticTables.root /\ l2 = StaticTables.l2 /\ l2_vpn1 = StaticTables.vpn1
  /\ l2_pin = {} /\ l2_static = StaticTables.static
  /\ pin = [lo |-> 0, hi |-> 0] /\ ring = <<>> /\ dyn_next = 0
  /\ pinned = Nil /\ cur = Nil /\ tlb = {} /\ loaded = {}

ToPages(s) == {s[i] : i \in DOMAIN s}

SwitchKernel ==
  /\ cur # Nil
  /\ cur' = Nil /\ pinned' = Nil /\ loaded' = {}
  /\ UNCHANGED <<root, l2, l2_vpn1, l2_pin, l2_static, pin, ring, dyn_next, tlb>>

\* user_layout: both kinds of pages go, then the stack is mapped, then the
\* whole cache is fenced.
ulmk_arch_mpu_switch(th) ==
  LET bare == dyn_drop(pin_drop(Tables_, pin), ToPages(ring))
      got == pin_map(bare, Stacks[th])
  IN /\ cur' = th
     /\ IF pinned = th
        THEN UNCHANGED <<root, l2, l2_vpn1, l2_pin, l2_static, pin, ring, dyn_next, pinned, tlb, loaded>>
        ELSE /\ IF covered_by_uram(Stacks[th])
                THEN Install(bare) /\ pin' = [lo |-> 0, hi |-> 0]
                ELSE Install(got.t) /\ pin' = [lo |-> Stacks[th].lo, hi |-> got.hi]
             /\ ring' = <<>> /\ dyn_next' = 0 /\ pinned' = th /\ tlb' = {} /\ loaded' = {}

ulmk_arch_mpu_flush ==
  /\ cur # Nil
  /\ Install(dyn_drop(Tables_, ToPages(ring)))
  /\ ring' = <<>> /\ dyn_next' = 0 /\ tlb' = {} /\ loaded' = {}
  /\ UNCHANGED <<pin, pinned, cur>>

\* sfence_vma of one page.
Unfenced(cache, p) == {m \in cache : m[1] # p}

\* Mutant: the page given up is not fenced.
DynPushUnfenced(t, r, p) ==
  IF Len(r) < DYN_MAX THEN [t |-> t, ring |-> Append(r, p), next |-> dyn_next, out |-> p]
  ELSE [t |-> unmap_page(t, r[dyn_next + 1]), ring |-> [r EXCEPT ![dyn_next + 1] = p],
        next |-> (dyn_next + 1) % DYN_MAX, out |-> p]

\* The ring takes page p; a full one gives up its oldest page.
dyn_push(t, r, p) ==
  IF Len(r) < DYN_MAX THEN [t |-> t, ring |-> Append(r, p), next |-> dyn_next, out |-> p]
  ELSE [t |-> unmap_page(t, r[dyn_next + 1]), ring |-> [r EXCEPT ![dyn_next + 1] = p],
        next |-> (dyn_next + 1) % DYN_MAX, out |-> r[dyn_next + 1]]

\* The tables in which ulmk_arch_mpu_load looks for its slot: when none is left
\* it starts over from the pinned set.
LoadTables(w) ==
  LET t == WithSlot(Tables_, w.page) IN
  IF HasSlot(t, w.page) THEN [t |-> t, over |-> FALSE]
  ELSE [t |-> WithSlot(dyn_drop(Tables_, ToPages(ring)), w.page), over |-> TRUE]

Mega(p) == "leaf" \in DOMAIN root[VPN1(p)]

\* Out of tables, the pages are dropped even if the load then fails.
ulmk_arch_mpu_load(w) ==
  LET got == LoadTables(w)
      rights == perms_to_pte(w.perms)
      left == IF got.over THEN <<>> ELSE ring
      fenced == IF got.over THEN {} ELSE tlb
      fits == HasSlot(got.t, w.page) /\ Pte(got.t, w.page) = {}
      pushed == dyn_push(SetPte(got.t, w.page, rights), left, w.page)
  IN /\ cur # Nil
     /\ rights # {} /\ ~Mega(w.page)
     /\ IF fits
        THEN /\ Install(pushed.t) /\ ring' = pushed.ring
             /\ dyn_next' = IF got.over THEN 0 ELSE pushed.next
             /\ tlb' = Unfenced(Unfenced(fenced, pushed.out), w.page)
             /\ loaded' = loaded \cup {w}
        ELSE /\ Install(got.t) /\ ring' = left
             /\ dyn_next' = IF got.over THEN 0 ELSE dyn_next
             /\ tlb' = fenced /\ UNCHANGED loaded
     /\ UNCHANGED <<pin, pinned, cur>>

\* The rights of a page by a walk of the tables.
Walk(p) == LET e == root[VPN1(p)] IN
  CASE "leaf" \in DOMAIN e  -> e.leaf
    [] "table" \in DOMAIN e -> l2[e.table][VPN0(p)]
    [] OTHER                -> {}

\* The hart caches what it walks (external: the privileged architecture).
Touch(p) ==
  /\ cur # Nil /\ Walk(p) # {}
  /\ <<p, Walk(p)>> \notin tlb
  /\ tlb' = tlb \cup {<<p, Walk(p)>>}
  /\ UNCHANGED <<root, l2, l2_vpn1, l2_pin, l2_static, pin, ring, dyn_next, pinned, cur, loaded>>

Next == \/ SwitchKernel
        \/ \E th \in Threads : ulmk_arch_mpu_switch(th)
        \/ ulmk_arch_mpu_flush
        \/ \E w \in (IF cur = Nil THEN {} ELSE Areas[cur]) : ulmk_arch_mpu_load(w)
        \/ \E p \in Pages : Touch(p)

Spec == Init /\ [][Next]_vars

-----------------------------------------------------------------------------
\* Root entries and tables name each other, static tables are never given
\* back, and a page of the ring is mapped and not pinned: the bookkeeping of
\* tables and pages survives every order of loads, evictions and drops.
TablesMatch ==
  /\ \A m \in DOMAIN root, i \in Tables : (root[m] = [table |-> i]) = (l2_vpn1[i] = m)
  /\ \A i \in Tables : i < l2_static => l2_vpn1[i] = StaticTables.vpn1[i]
  /\ \A r \in ToPages(ring) : Walk(r) # {} /\ r \notin pin.lo .. pin.hi - 1
  /\ Len(ring) = Cardinality(ToPages(ring))

\* What the hart has cached of the running thread is what the tables say:
\* every mapping taken away was fenced before it could be used again.
CacheCoherent == cur # Nil => \A m \in tlb : m[2] = Walk(m[1])

\* A page of an area is refused as a real violation only if it is mapped with
\* those rights already: running out of level-2 tables drops pages, and never
\* turns a legal access into a fault of the thread.
NoFalseViolation ==
  cur # Nil => \A w \in Areas[cur] :
    LET got == LoadTables(w) IN
    ~Mega(w.page) /\ ~(HasSlot(got.t, w.page) /\ Pte(got.t, w.page) = {})
      => perms_to_pte(w.perms) \subseteq Walk(w.page)

\* Rights a user access has: by a walk or by the cache.
Granted(p) == Walk(p) \cup UNION {m[2] : m \in {x \in tlb : x[1] = p}}
PagePairs(S, rights) == S \X rights
StaticPairs == UNION {PagePairs(Static[n].lo .. Static[n].hi - 1, perms_to_pte(Static[n].perms)) : n \in DOMAIN Static}

\* The page tables give the running thread its stack, the page loaded last,
\* and beyond the static map only pages loaded for it since it was switched
\* in or lost an area.
Unit == INSTANCE Protection WITH
  who <- cur,
  stack <- IF cur = Nil THEN {} ELSE PagePairs(Stacks[cur].lo .. Stacks[cur].hi - 1, {"r", "w"}) \ StaticPairs,
  may <- {PagePairs({w.page}, perms_to_pte(w.perms)) : w \in loaded},
  reach <- IF cur = Nil THEN {} ELSE {x \in Pages \X {"r", "w", "x"} : x[2] \in Granted(x[1])} \ StaticPairs
KeepsUnit == Unit!Spec
=============================================================================
