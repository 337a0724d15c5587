------------------------------ MODULE MpuSlots ------------------------------
(***************************************************************************)
(* The protection units with a fixed number of region slots: RISC-V PMP     *)
(* (arch/riscv/mpu_pmp.c), ARMv7-M and ARMv8-M MPU (arch/arm/mpu_v7m.c,     *)
(* mpu_v8m.c) and the TriCore data ranges (arch/tricore/arch.c, builds with *)
(* lazy windows).  The ports share one scheme and differ in which slot they *)
(* take, how a region is encoded and what overlapping regions mean.  An     *)
(* address is one granule of the unit.                                      *)
(***************************************************************************)
EXTENDS Integers, FiniteSets, FiniteSetsExt

CONSTANTS
  Threads, Nil,
  Ports,          \* the builds: [name, slots, text, ram, mmio, pin, tor, taken], slot numbers
  Addrs,          \* the granules of the address space
  Text, Flash, KRam, Ram, Mmio,  \* linker ranges [lo, hi): user text, flash, kernel RAM, user RAM, peripherals
  Stacks,         \* thread -> [lo, hi) of its stack
  Areas           \* thread -> the windows its areas give: [lo, hi, perms]

VARIABLES
  port,    \* the build
  slot,    \* the slots of the unit
  cur,     \* the running user thread, or Nil
  pinned,  \* the thread whose layout is loaded (its pinned list), or Nil
  dyn,     \* slots for windows
  next,    \* round robin over them
  loaded   \* history: windows loaded since the last layout or flush

vars == <<port, slot, cur, pinned, dyn, next, loaded>>

Rights == {"r", "w", "x"}

Off == [mode |-> "off", lo |-> 0, hi |-> 0, perms |-> {}]
Region(lo, hi, perms) == [mode |-> "range", lo |-> lo, hi |-> hi, perms |-> perms]

Powers == {1, 2, 4, 8, 16, 32, 64, 128, 256, 512, 1024}
Down(x, s) == (x \div s) * s
Inside(r, s) == s.lo <= r.lo /\ r.hi <= s.hi

\* The smallest naturally aligned power of two that covers the range
\* (log2_cover).
Cover(lo, hi, perms) ==
  LET s == Min({p \in Powers : Down(lo, p) + p >= hi}) IN Region(Down(lo, s), Down(lo, s) + s, perms)

InRegion(r, a) == r.lo <= a /\ a < r.hi
Meet(r, s) == \E a \in Addrs : InRegion(r, a) /\ InRegion(s, a)

NaturallyAligned(w) == (w.hi - w.lo) \in Powers /\ w.lo % (w.hi - w.lo) = 0

\* Slots that never hold a pinned region or a window: PMP_FREE_SLOTS,
\* MPU_FREE_SLOTS, and on TriCore those below MPU_DYN_BASE.
SlotsOf(p) == 0 .. p.slots - 1
StaticSlotsOf(p) == {p.text, p.ram, p.mmio} \cup p.taken \cup (IF p.tor THEN {p.ram - 1} ELSE {})
StaticSlots == StaticSlotsOf(port)
Free == SlotsOf(port) \ StaticSlots

\* The board's slot numbers: static slots are different ones, two at least
\* are free, only PMP spends one on a lower bound, and only TriCore keeps one
\* for the stack and has code ranges.
ASSUME PortAssumption ==
  \A p \in Ports :
    /\ p.name \in {"pmp", "v7m", "v8m", "tricore"}
    /\ p.slots \in Nat /\ p.tor \in BOOLEAN
    /\ StaticSlotsOf(p) \subseteq SlotsOf(p)
    /\ p.text # p.ram /\ p.text # p.mmio /\ p.ram # p.mmio
    /\ p.taken \cap {p.text, p.ram, p.mmio} = {}
    /\ \E i, j \in SlotsOf(p) \ StaticSlotsOf(p) : i # j
    /\ p.tor => p.name = "pmp" /\ p.ram - 1 \notin {p.text, p.mmio} \cup p.taken
    /\ IF p.name = "tricore" THEN {p.pin, p.slots - 1} \subseteq p.taken /\ p.pin # p.slots - 1
       ELSE p.pin = -1

(***************************************************************************)
(* RISC-V PMP.  The static map is written with each layout; user RAM is a   *)
(* top-of-range pair where the board asks for it.                           *)
(***************************************************************************)
perms_to_pmp(perms) == perms
pmp_set_napot(r, perms) == Cover(r.lo, r.hi, perms)
pmp_set_tor(r, perms) == [Region(0, r.hi, perms) EXCEPT !.mode = "tor"]

\* Mutant: user RAM rounded like the other windows.
PmpStaticRounded(i) ==
  CASE i = port.text -> pmp_set_napot(Text, {"r", "x"})
    [] i = port.ram  -> pmp_set_napot(Ram, {"r", "w"})
    [] i = port.mmio -> pmp_set_napot(Mmio, {"r", "w"})
    [] OTHER         -> Off

pmp_static_user(i) ==
  CASE i = port.text               -> pmp_set_napot(Text, {"r", "x"})
    [] i = port.ram                -> IF port.tor THEN pmp_set_tor(Ram, {"r", "w"})
                                      ELSE pmp_set_napot(Ram, {"r", "w"})
    [] i = port.ram - 1 /\ port.tor -> [Off EXCEPT !.lo = Ram.lo]
    [] i = port.mmio               -> pmp_set_napot(Mmio, {"r", "w"})
    [] OTHER                       -> Off

pmp_covered_by_uram(r) == Inside(r, Ram)

\* pmp_user_layout: everything off, the static map, and the stack in the
\* first free slot unless user RAM holds it.
pmp_user_layout(stack) ==
  LET pin == IF pmp_covered_by_uram(stack) THEN {} ELSE {Min(Free)} IN
  [slot |-> [i \in DOMAIN slot |-> IF i \in pin THEN pmp_set_napot(stack, perms_to_pmp({"r", "w"}))
                                   ELSE pmp_static_user(i)],
   dyn  |-> Free \ pin]

\* A window that is naturally aligned and whose encoding, base and size, no
\* window slot holds.
PmpLoad(w) == /\ dyn # {} /\ NaturallyAligned(w)
              /\ \A i \in dyn : <<slot[i].lo, slot[i].hi>> # <<w.lo, w.hi>>

(***************************************************************************)
(* ARMv7-M.  Static ranges are exact, by subregions an eighth of the cover  *)
(* each; the stack takes the last free slot, which wins an overlap.         *)
(***************************************************************************)
perm_to_attr(perms) == perms \cup {"r"}
RegionExact(r) == LET c == Cover(r.lo, r.hi, {})
                      sub == (c.hi - c.lo) \div 8
                  IN sub > 1 => r.lo % sub = 0 /\ r.hi % sub = 0

V7mStatic(i) ==
  CASE i = port.text -> Region(Text.lo, Text.hi, {"r", "x"})
    [] i = port.ram  -> Region(Ram.lo, Ram.hi, {"r", "w"})
    [] i = port.mmio -> Cover(Mmio.lo, Mmio.hi, {"r", "w"})
    [] OTHER         -> Off

covered_by_uram(r) == Inside(r, Ram)
top_slot(S) == Max(S)

V7mLayout(stack) ==
  LET pin == IF covered_by_uram(stack) THEN {} ELSE {top_slot(Free)} IN
  [slot |-> [i \in DOMAIN slot |-> CASE i \in pin -> Cover(stack.lo, stack.hi, perm_to_attr({"r", "w"}))
                                     [] i \in Free \ pin -> Off
                                     [] OTHER -> slot[i]],
   dyn  |-> Free \ pin]

\* Mutant: bases compared under too coarse a mask.
V7mLoadCoarse(w) == /\ dyn # {} /\ NaturallyAligned(w)
                    /\ \A i \in dyn : ~(slot[i].mode = "range" /\ Down(slot[i].lo, 4) = Down(w.lo, 4))

V7mLoad(w) == /\ dyn # {} /\ NaturallyAligned(w)
              /\ \A i \in dyn : ~(slot[i].mode = "range" /\ slot[i].lo = w.lo)

(***************************************************************************)
(* ARMv8-M.  Bounds are exact and an access that matches two regions        *)
(* faults: a stack inside user RAM or the peripherals is not pinned again.  *)
(***************************************************************************)
perm_to_rbar(perms) == perms \cup {"r"}

V8mStatic(i) ==
  CASE i = port.text -> Region(Text.lo, Text.hi, {"r", "x"})
    [] i = port.ram  -> Region(Ram.lo, Ram.hi, {"r", "w"})
    [] i = port.mmio -> Region(Mmio.lo, Mmio.hi, {"r", "w"})
    [] OTHER         -> Off

covered_by_static(r) == Inside(r, Ram) \/ Inside(r, Mmio)

\* Mutant: the windows of the thread before stay.
V8mLayoutKeeps(stack) ==
  LET pin == IF covered_by_static(stack) THEN {} ELSE {Min(Free)} IN
  [slot |-> [i \in DOMAIN slot |-> IF i \in pin THEN Region(stack.lo, stack.hi, perm_to_rbar({"r", "w"}))
                                   ELSE slot[i]],
   dyn  |-> Free \ pin]

V8mLayout(stack) ==
  LET pin == IF covered_by_static(stack) THEN {} ELSE {Min(Free)} IN
  [slot |-> [i \in DOMAIN slot |-> CASE i \in pin -> Region(stack.lo, stack.hi, perm_to_rbar({"r", "w"}))
                                     [] i \in Free \ pin -> Off
                                     [] OTHER -> slot[i]],
   dyn  |-> Free \ pin]

V8mLoad(w) == dyn # {} /\ \A i \in dyn : ~(slot[i].mode = "range" /\ slot[i].lo = w.lo)

(***************************************************************************)
(* TriCore.  Data ranges do not execute; user code is the last slot here (a *)
(* code range).  The pinned stack has a slot of its own and is never        *)
(* skipped; the windows are switched off by their enable bits.              *)
(***************************************************************************)
mpu_perm_bits(perms) == perms \ {"x"}

\* A data or code range and its enable bits, as the CSFRs hold them.
mpu_write_range(r, perms) == Region(r.lo, r.hi, perms)

mpu_user_static(i) ==
  CASE i = port.ram       -> mpu_write_range(Ram, {"r", "w"})
    [] i = port.text      -> mpu_write_range(Flash, {"r"})
    [] i = port.mmio      -> mpu_write_range(Mmio, {"r", "w"})
    [] i = port.slots - 1 -> mpu_write_range(Text, {"x"})
    [] OTHER              -> Off

TcLayout(stack) ==
  [slot |-> [i \in DOMAIN slot |-> CASE i = port.pin -> mpu_write_range(stack, mpu_perm_bits({"r", "w"}))
                                     [] i \in Free   -> Off
                                     [] OTHER        -> slot[i]],
   dyn  |-> Free]

TcLoad(w) == \A i \in dyn : ~(slot[i].mode = "range" /\ slot[i].lo = w.lo)

(***************************************************************************)
(* The build's own.                                                         *)
(***************************************************************************)
PortRights(perms) ==
  CASE port.name = "pmp" -> perms_to_pmp(perms) [] port.name = "v7m"     -> perm_to_attr(perms)
    [] port.name = "v8m" -> perm_to_rbar(perms) [] port.name = "tricore" -> mpu_perm_bits(perms)

\* The slots ulmk_arch_mpu_init leaves: PMP has none of the user's yet.
BootSlot(i) ==
  CASE port.name = "pmp" -> Off          [] port.name = "v7m"     -> V7mStatic(i)
    [] port.name = "v8m" -> V8mStatic(i) [] port.name = "tricore" -> mpu_user_static(i)

Layout(stack) ==
  CASE port.name = "pmp" -> pmp_user_layout(stack) [] port.name = "v7m"     -> V7mLayout(stack)
    [] port.name = "v8m" -> V8mLayout(stack)       [] port.name = "tricore" -> TcLayout(stack)

Accepts(w) ==
  CASE port.name = "pmp" -> PmpLoad(w) [] port.name = "v7m"     -> V7mLoad(w)
    [] port.name = "v8m" -> V8mLoad(w) [] port.name = "tricore" -> TcLoad(w)

\* ulmk_arch_mpu_init: the static map, no owner.  A v7-M image whose static
\* ranges are not exact stops here (static_range).
Init ==
  /\ port \in Ports
  /\ port.name = "v7m" => RegionExact(Text) /\ RegionExact(Ram)
  /\ slot = [i \in 0 .. port.slots - 1 |-> BootSlot(i)]
  /\ cur = Nil /\ pinned = Nil
  /\ dyn = {} /\ next = 0 /\ loaded = {}

\* ulmk_arch_mpu_switch to a kernel thread: the windows stay, their owner is
\* forgotten.
SwitchKernel ==
  /\ cur # Nil
  /\ cur' = Nil /\ pinned' = Nil /\ loaded' = {}
  /\ UNCHANGED <<port, slot, dyn, next>>

\* ... to a user thread: its own layout is kept, any other is rebuilt.
ulmk_arch_mpu_switch(t) ==
  /\ cur' = t
  /\ IF pinned = t THEN UNCHANGED <<slot, pinned, dyn, next, loaded>>
     ELSE /\ slot' = Layout(Stacks[t]).slot
          /\ dyn' = Layout(Stacks[t]).dyn
          /\ pinned' = t /\ next' = 0 /\ loaded' = {}
  /\ UNCHANGED port

ulmk_arch_mpu_flush ==
  /\ cur # Nil
  /\ slot' = [i \in DOMAIN slot |-> IF i \in dyn THEN Off ELSE slot[i]]
  /\ loaded' = {}
  /\ UNCHANGED <<port, cur, pinned, dyn, next>>

\* The slot whose turn it is, counting through the window slots upwards.
Victim == CHOOSE i \in dyn : Cardinality({j \in dyn : j < i}) = next % Cardinality(dyn)

\* ulmk_arch_mpu_load of a window that is accepted; a naturally aligned one is
\* its own cover.
ulmk_arch_mpu_load(w) ==
  /\ cur # Nil
  /\ Accepts(w)
  /\ slot' = [slot EXCEPT ![Victim] = Region(w.lo, w.hi, PortRights(w.perms))]
  /\ next' = (next + 1) % Cardinality(dyn)
  /\ loaded' = loaded \cup {w}
  /\ UNCHANGED <<port, cur, pinned, dyn>>

Next == \/ SwitchKernel
        \/ \E t \in Threads : ulmk_arch_mpu_switch(t)
        \/ ulmk_arch_mpu_flush
        \/ \E w \in (IF cur = Nil THEN {} ELSE Areas[cur]) : ulmk_arch_mpu_load(w)

Spec == Init /\ [][Next]_vars

-----------------------------------------------------------------------------
(***************************************************************************)
(* What the unit lets a user access do (external: the manuals of the        *)
(* processors).  Of several regions that match, PMP takes the lowest slot,  *)
(* v7-M the highest, v8-M faults, TriCore adds their rights up.             *)
(***************************************************************************)
Matches(i, a) == CASE slot[i].mode = "off" -> FALSE
                   [] slot[i].mode = "tor" -> slot[i - 1].lo <= a /\ a < slot[i].hi
                   [] OTHER                -> slot[i].lo <= a /\ a < slot[i].hi

Granted(a) ==
  LET hits == {i \in DOMAIN slot : Matches(i, a)} IN
  IF hits = {} THEN {}
  ELSE CASE port.name = "pmp" -> slot[Min(hits)].perms
         [] port.name = "v7m" -> slot[Max(hits)].perms
         [] port.name = "v8m" -> IF Cardinality(hits) = 1 THEN slot[Min(hits)].perms ELSE {}
         [] OTHER             -> UNION {slot[i].perms : i \in hits}

Pairs(r, perms) == (r.lo .. r.hi - 1) \X perms
StaticPairs == {x \in Addrs \X Rights :
                  \E i \in StaticSlots \ {port.pin} : Matches(i, x[1]) /\ x[2] \in slot[i].perms}

-----------------------------------------------------------------------------
(***************************************************************************)
(* The memory map the units are given.                                      *)
(***************************************************************************)
\* What the static regions of a port match, once encoded.
StaticRanges(p) ==
  CASE p.name = "pmp"     -> {Cover(Text.lo, Text.hi, {}), Cover(Mmio.lo, Mmio.hi, {}),
                              IF p.tor THEN Ram ELSE Cover(Ram.lo, Ram.hi, {})}
    [] p.name = "v7m"     -> {Text, Ram, Cover(Mmio.lo, Mmio.hi, {})}
    [] p.name = "v8m"     -> {Text, Ram, Mmio}
    [] p.name = "tricore" -> {Text, Ram, Flash, Mmio}

WindowsArePowers(p) == p.name \in {"pmp", "v7m"}

\* The linked ranges are apart from kernel RAM, and boards keep rounded text
\* and peripherals off it too.  User RAM sits right above it and is small enough
\* for one region; a board that does not spend a TOR pair on it aligns it.
ASSUME MapAssumption ==
  /\ Addrs \subseteq Nat /\ KRam.lo .. KRam.hi - 1 \subseteq Addrs
  /\ {KRam.lo, KRam.hi, Ram.lo, Ram.hi, Mmio.lo, Mmio.hi} \subseteq Nat
  /\ \E s \in Powers : Down(Ram.lo, s) + s >= Ram.hi
  /\ \A r \in {Text, Flash, Ram, Mmio} : ~Meet(r, KRam)
  /\ \A p \in Ports :
       /\ p.name = "pmp" => ~Meet(Cover(Text.lo, Text.hi, {}), KRam)
       /\ WindowsArePowers(p) => ~Meet(Cover(Mmio.lo, Mmio.hi, {}), KRam)
       /\ p.name = "pmp" /\ ~p.tor => NaturallyAligned(Ram)

\* A stack is linked into user RAM (on v8-M it may be inside the peripherals),
\* or is a block of the heap as stack_alloc rounds it.
ASSUME StackAssumption ==
  /\ Nil \notin Threads
  /\ Stacks \in [Threads -> [lo : Nat, hi : Nat]]
  /\ \A t \in Threads :
       /\ Stacks[t].lo .. Stacks[t].hi - 1 \subseteq Addrs
       /\ \A p \in Ports :
            \/ Inside(Stacks[t], Ram)
            \/ p.name = "v8m" /\ Inside(Stacks[t], Mmio)
            \/ /\ WindowsArePowers(p) => NaturallyAligned(Stacks[t])
               /\ ~Meet(Stacks[t], KRam)
               /\ \A r \in StaticRanges(p) : ~Meet(Stacks[t], r)

\* Windows of a thread: parts of its areas, which are disjoint, off the static
\* map, of which an access does not fault, and cut as ulmk_area_window does.
\* A driver may have mapped any range: ulmk_mem_map takes the address of a
\* peripheral or of shared memory as given.
ASSUME WindowAssumption ==
  /\ Areas \in [Threads -> SUBSET [lo : Nat, hi : Nat, perms : SUBSET Rights]]
  /\ \A t \in Threads : \A w \in Areas[t] :
       /\ w.lo < w.hi /\ w.lo .. w.hi - 1 \subseteq Addrs
       /\ ~Meet(w, Stacks[t])
       /\ \A v \in Areas[t] \ {w} : ~Meet(v, w)
       /\ \A p \in Ports : /\ WindowsArePowers(p) => NaturallyAligned(w)
                           /\ \A r \in StaticRanges(p) : ~Meet(w, r)

-----------------------------------------------------------------------------
\* User mode gets at a granule of kernel RAM only with the rights of an area
\* the running thread itself has mapped there and faulted in: never by a region
\* rounded to what the unit can encode (pmp_set_uram), nor by a window left
\* over from another thread or from an area that is gone.
KernelRamHidden ==
  cur # Nil => \A a \in KRam.lo .. KRam.hi - 1 :
    Granted(a) \subseteq UNION {PortRights(w.perms) : w \in {v \in Areas[cur] \cap loaded : InRegion(v, a)}}

\* A window is refused as a real violation only if the running thread reaches
\* all of it already: a fault outside what is live is never mistaken for one
\* (the "already live" test of ulmk_arch_mpu_load).
NoFalseViolation ==
  cur # Nil => \A w \in Areas[cur] :
    ~Accepts(w) => \A a \in w.lo .. w.hi - 1 : PortRights(w.perms) \subseteq Granted(a)

\* Beyond the static map: the stack, each window loaded, and all that the
\* running thread can use, as <<address, right>> pairs.
StackPairs == IF cur = Nil THEN {} ELSE Pairs(Stacks[cur], {"r", "w"}) \ StaticPairs
WindowPairs == {Pairs(w, PortRights(w.perms)) : w \in loaded}
ReachPairs == IF cur = Nil THEN {} ELSE {x \in Addrs \X Rights : x[2] \in Granted(x[1])} \ StaticPairs

\* The unit gives the running thread its stack, the last window loaded, and
\* beyond the static map nothing but windows loaded for it since it was
\* switched in or lost an area.
Unit == INSTANCE Protection WITH
  who <- cur, stack <- StackPairs, may <- WindowPairs, reach <- ReachPairs
KeepsUnit == Unit!Spec
=============================================================================
