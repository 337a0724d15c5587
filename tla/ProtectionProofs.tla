-------------------------- MODULE ProtectionProofs --------------------------
(***************************************************************************)
(* The protection units with slots (MpuSlots), for any numbers of slots,    *)
(* threads, windows and any memory map that MapAssumption, StackAssumption  *)
(* and WindowAssumption allow: kernel RAM stays hidden, no legal access is  *)
(* refused, and each unit implements Protection.                            *)
(*                                                                          *)
(* The inductive invariant says what each slot holds: a static slot its     *)
(* static region (on PMP the lower bound of user RAM included), a pinned    *)
(* one the running thread's stack, and a slot for windows nothing or a      *)
(* window loaded for this thread, no window twice.                          *)
(***************************************************************************)
EXTENDS MpuSlots, FiniteSetTheorems, FunctionTheorems, WellFoundedInduction, TLAPS

PinSlots(stack) ==
  CASE port.name = "pmp"     -> IF pmp_covered_by_uram(stack) THEN {} ELSE {Min(Free)}
    [] port.name = "v7m"     -> IF covered_by_uram(stack) THEN {} ELSE {top_slot(Free)}
    [] port.name = "v8m"     -> IF covered_by_static(stack) THEN {} ELSE {Min(Free)}
    [] port.name = "tricore" -> {port.pin}

MapSlots == StaticSlots \ {port.pin}
MapSlot(i) == IF port.name = "pmp" THEN pmp_static_user(i) ELSE BootSlot(i)
StackSlot(stack) == Region(stack.lo, stack.hi, {"r", "w"})
WindowSlot(w) == Region(w.lo, w.hi, PortRights(w.perms))

(* The static map is in place: on PMP it is written with the first layout.  *)
MapInPlace == cur # Nil \/ port.name # "pmp" => \A i \in MapSlots : slot[i] = MapSlot(i)

OwnLayout ==
  /\ dyn = Free \ PinSlots(Stacks[cur])
  /\ \A i \in PinSlots(Stacks[cur]) : slot[i] = StackSlot(Stacks[cur])

OwnWindows ==
  /\ loaded \subseteq Areas[cur]
  /\ \A i \in dyn : slot[i] = Off \/ \E w \in loaded : slot[i] = WindowSlot(w)
  /\ \A i, j \in dyn : i # j /\ slot[i] = slot[j] => slot[i] = Off

SlotInv ==
  /\ port \in Ports /\ next \in Nat
  /\ cur = pinned /\ cur \in Threads \cup {Nil}
  /\ slot = [i \in SlotsOf(port) |-> slot[i]]
  /\ MapInPlace
  /\ cur # Nil => OwnLayout /\ OwnWindows

-----------------------------------------------------------------------------
(* Least and greatest slots.                                                *)

LEMMA LeastIn ==
  ASSUME NEW B \in SUBSET Nat, B # {}
  PROVE  Min(B) \in B /\ \A y \in B : Min(B) <= y
<1> DEFINE R == {ss \in Nat \X Nat : ss[1] < ss[2]}
<1>1. IsWellFoundedOn(R, Nat)
  BY NatLessThanWellFounded, Zenon DEF OpToRel
<1>2. PICK x \in B : \A y \in B : ~ (<<y, x>> \in R)
  <2> HIDE DEF R
  <2> QED
    BY <1>1, WFMin
<1>3. \A y \in B : x <= y
  <2> SUFFICES ASSUME NEW y \in B, y < x
               PROVE  FALSE
    OBVIOUS
  <2>1. <<y, x>> \in Nat \X Nat /\ <<y, x>>[1] < <<y, x>>[2]
    OBVIOUS
  <2>2. <<y, x>> \in R
    BY <2>1
  <2> QED
    BY <1>2, <2>2
<1> QED
  BY <1>3 DEF Min

LEMMA GreatestIn ==
  ASSUME NEW n \in Nat, NEW B \in SUBSET (0 .. n), B # {}
  PROVE  Max(B) \in B
<1> DEFINE C == {n - x : x \in B}
<1>1. C \subseteq Nat /\ C # {}
  <2>1. PICK x : x \in B
    OBVIOUS
  <2>2. n - x \in C
    BY <2>1
  <2> QED
    BY <2>2
<1>2. Min(C) \in C /\ \A y \in C : Min(C) <= y
  <2> HIDE DEF C
  <2> QED
    BY <1>1, LeastIn
<1>3. PICK x \in B : Min(C) = n - x
  BY <1>2
<1>4. \A y \in B : x >= y
  <2> SUFFICES ASSUME NEW y \in B
               PROVE  x >= y
    OBVIOUS
  <2>1. n - y \in C
    OBVIOUS
  <2>2. n - x <= n - y
    BY <1>2, <1>3, <2>1
  <2> QED
    BY <2>2
<1> QED
  BY <1>4 DEF Max

LEMMA OneIsLeast ==
  ASSUME NEW i \in Nat
  PROVE  Min({i}) = i /\ Max({i}) = i
BY DEF Min, Max

(* Counting upwards from the least slot reaches every slot: the k-th of a   *)
(* finite set of numbers exists (the round robin finds its victim).         *)
LEMMA RankExists ==
  ASSUME NEW D \in SUBSET Nat, IsFiniteSet(D), NEW k \in Nat, k < Cardinality(D)
  PROVE  \E i \in D : Cardinality({j \in D : j < i}) = k
<1> DEFINE Below(i) == {j \in D : j < i}
           n == Cardinality(D)
           rank == [i \in D |-> Cardinality(Below(i))]
<1>1. n \in Nat
  BY FS_CardinalityType
<1>2. ASSUME NEW i \in D
      PROVE  /\ IsFiniteSet(Below(i)) /\ rank[i] = Cardinality(Below(i))
             /\ rank[i] \in 0 .. n - 1
  <2>1. Below(i) \in SUBSET D /\ i \notin Below(i)
    OBVIOUS
  <2>2. /\ IsFiniteSet(Below(i)) /\ Cardinality(Below(i)) <= Cardinality(D)
        /\ Cardinality(D) = Cardinality(Below(i)) => D = Below(i)
    <3> HIDE DEF Below
    <3> QED
      BY <2>1, FS_Subset
  <2>3. Cardinality(Below(i)) \in Nat
    BY <2>2, FS_CardinalityType
  <2> QED
    BY <1>1, <2>1, <2>2, <2>3
<1>3. ASSUME NEW i \in D, NEW j \in D, i < j
      PROVE  rank[i] < rank[j]
  <2>1. Below(i) \in SUBSET Below(j) /\ i \in Below(j) /\ i \notin Below(i)
    <3>1. i \in Nat /\ j \in Nat /\ \A x \in D : x \in Nat /\ (x < i => x < j)
      BY <1>3
    <3>2. ASSUME NEW x \in Below(i)
          PROVE  x \in Below(j)
      BY <3>1
    <3>3. i \in Below(j)
      BY <1>3
    <3>4. i \notin Below(i)
      BY <3>1
    <3> HIDE DEF Below
    <3> QED
      BY <3>2, <3>3, <3>4
  <2>2. /\ Cardinality(Below(i)) <= Cardinality(Below(j))
        /\ Cardinality(Below(j)) = Cardinality(Below(i)) => Below(j) = Below(i)
    <3>1. IsFiniteSet(Below(j))
      BY <1>2
    <3> HIDE DEF Below
    <3> QED
      BY <2>1, <3>1, FS_Subset
  <2>3. Cardinality(Below(i)) \in Nat /\ Cardinality(Below(j)) \in Nat
    BY <1>2, FS_CardinalityType
  <2> QED
    BY <2>1, <2>2, <2>3
<1>4. rank \in [D -> 0 .. n - 1]
  BY <1>2
<1>5. rank \in Injection(D, 0 .. n - 1)
  <2>1. ASSUME NEW i \in D, NEW j \in D, rank[i] = rank[j]
        PROVE  i = j
    <3>1. rank[i] \in 0 .. n - 1 /\ rank[j] \in 0 .. n - 1
      BY <1>2
    <3>2. ~(i < j) /\ ~(j < i)
      <4> HIDE DEF rank
      <4> QED
        BY <1>1, <1>3, <2>1, <3>1
    <3> QED
      BY <3>2
  <2> HIDE DEF rank
  <2> QED
    BY <1>4, <2>1 DEF Injection, IsInjective
<1>6. IsFiniteSet(0 .. n - 1) /\ Cardinality(0 .. n - 1) = n
  <2>1. n - 1 \in Int /\ 0 \in Int
    BY <1>1
  <2> HIDE DEF n
  <2> QED
    BY <1>1, <2>1, FS_Interval
<1>7. rank \in Surjection(D, 0 .. n - 1)
  <2> HIDE DEF rank
  <2> QED
    BY <1>5, <1>6, FS_Injection
<1>8. k \in 0 .. n - 1
  BY <1>1
<1>9. PICK i \in D : rank[i] = k
  <2> HIDE DEF rank
  <2> QED
    BY <1>7, <1>8 DEF Surjection
<1> QED
  BY <1>9

LEMMA VictimIsFree ==
  ASSUME port \in Ports, dyn \subseteq SlotsOf(port), dyn # {}, next \in Nat
  PROVE  Victim \in dyn /\ (next + 1) % Cardinality(dyn) \in Nat
<1>1. port.slots \in Nat /\ SlotsOf(port) \subseteq Nat
  BY PortAssumption DEF SlotsOf
<1>2. IsFiniteSet(SlotsOf(port))
  BY <1>1, FS_Interval DEF SlotsOf
<1>3. IsFiniteSet(dyn) /\ dyn \in SUBSET Nat
  BY <1>1, <1>2, FS_Subset
<1>4. Cardinality(dyn) \in Nat /\ Cardinality(dyn) # 0
  BY <1>3, FS_CardinalityType, FS_EmptySet
<1>5. /\ next % Cardinality(dyn) \in Nat /\ next % Cardinality(dyn) < Cardinality(dyn)
      /\ (next + 1) % Cardinality(dyn) \in Nat
  BY <1>4
<1>6. \E i \in dyn : Cardinality({j \in dyn : j < i}) = next % Cardinality(dyn)
  BY <1>3, <1>5, RankExists
<1> QED
  BY <1>5, <1>6 DEF Victim

-----------------------------------------------------------------------------
(* A stack that stack_alloc has rounded is encoded exactly.                 *)

LEMMA DownAligned ==
  ASSUME NEW x \in Nat, NEW s \in Nat \ {0}
  PROVE  Down(x, s) \in Int /\ Down(x, s) <= x /\ (x % s = 0 => Down(x, s) = x)
<1>1. PICK q \in Int : q = x \div s
  OBVIOUS
<1>2. PICK m \in 0 .. s - 1 : m = x % s
  OBVIOUS
<1>3. x = (x \div s) * s + (x % s)
  BY Z3T(30)
<1>4. x = q * s + m /\ q * s \in Int
  BY <1>1, <1>2, <1>3
<1>5. Down(x, s) = q * s
  BY <1>1 DEF Down
<1> QED
  BY <1>2, <1>4, <1>5

LEMMA CoverExact ==
  ASSUME NEW lo \in Nat, NEW hi \in Nat, NEW perms,
         hi - lo \in Powers, lo % (hi - lo) = 0
  PROVE  Cover(lo, hi, perms) = Region(lo, hi, perms)
<1> DEFINE s == hi - lo
           P == {p \in Powers : Down(lo, p) + p >= hi}
<1>1. Powers \subseteq Nat \ {0}
  BY DEF Powers
<1>2. s \in Powers /\ s \in Nat \ {0} /\ Down(lo, s) = lo
  BY <1>1, DownAligned
<1>3. s \in P
  BY <1>2
<1>4. ASSUME NEW p \in P
      PROVE  s <= p
  <2>1. p \in Nat \ {0} /\ Down(lo, p) + p >= hi
    BY <1>1
  <2>2. Down(lo, p) \in Int /\ Down(lo, p) <= lo
    BY <2>1, DownAligned
  <2> QED
    BY <2>1, <2>2
<1>5. Min(P) = s
  <2>1. P \subseteq Nat
    BY <1>1
  <2>2. Min(P) \in P /\ \A y \in P : Min(P) <= y
    <3> HIDE DEF P
    <3> QED
      BY <1>3, <2>1, LeastIn
  <2>3. s <= Min(P) /\ Min(P) <= s /\ Min(P) \in Nat
    <3> HIDE DEF P, s
    <3> QED
      BY <1>3, <1>4, <2>1, <2>2
  <2> QED
    BY <1>2, <2>3
<1>6. Cover(lo, hi, perms) = Region(Down(lo, s), Down(lo, s) + s, perms)
  BY <1>5 DEF Cover
<1> QED
  BY <1>2, <1>6

(* A cover covers.                                                          *)
LEMMA CoverCovers ==
  ASSUME NEW lo \in Nat, NEW hi \in Nat, NEW perms, \E p \in Powers : Down(lo, p) + p >= hi
  PROVE  /\ Cover(lo, hi, perms).lo \in Int /\ Cover(lo, hi, perms).hi \in Int
         /\ Cover(lo, hi, perms).lo <= lo /\ hi <= Cover(lo, hi, perms).hi
<1> DEFINE P == {p \in Powers : Down(lo, p) + p >= hi}
<1>1. P # {} /\ P \subseteq Nat \ {0}
  BY DEF Powers
<1>2. Min(P) \in P
  <2> HIDE DEF P
  <2> QED
    BY <1>1, LeastIn
<1>3. PICK s \in Nat \ {0} : s = Min(P) /\ Down(lo, s) + s >= hi
  BY <1>1, <1>2
<1>4. Cover(lo, hi, perms) = Region(Down(lo, s), Down(lo, s) + s, perms)
  BY <1>3 DEF Cover
<1>5. Down(lo, s) \in Int /\ Down(lo, s) <= lo
  BY DownAligned
<1> QED
  BY <1>3, <1>4, <1>5 DEF Region

-----------------------------------------------------------------------------
(* Which slots there are, and what a layout puts in them.                   *)

LEMMA PortFacts ==
  ASSUME port \in Ports
  PROVE  /\ port.name \in {"pmp", "v7m", "v8m", "tricore"}
         /\ port.slots \in Nat /\ SlotsOf(port) \subseteq Nat
         /\ StaticSlots \subseteq SlotsOf(port)
         /\ Min(Free) \in Free /\ top_slot(Free) \in Free
         /\ \A i : Free \ {i} # {}
         /\ port.name # "tricore" => port.pin \notin StaticSlots
         /\ port.name = "tricore" => port.pin \in StaticSlots
<1>1. /\ port.name \in {"pmp", "v7m", "v8m", "tricore"}
      /\ port.slots \in Nat /\ StaticSlots \subseteq SlotsOf(port)
      /\ \E i, j \in Free : i # j
  BY PortAssumption DEF Free, StaticSlots
<1>2. SlotsOf(port) \subseteq Nat /\ SlotsOf(port) \subseteq 0 .. port.slots
  BY <1>1 DEF SlotsOf
<1>3. Free # {} /\ Free \subseteq SlotsOf(port) /\ \A i : Free \ {i} # {}
  BY <1>1 DEF Free
<1>4. Min(Free) \in Free
  BY <1>2, <1>3, LeastIn
<1>5. top_slot(Free) \in Free
  BY <1>1, <1>2, <1>3, GreatestIn DEF top_slot
<1>6. port.name # "tricore" => port.pin \notin StaticSlots
  BY <1>1, <1>2, PortAssumption
<1>7. port.name = "tricore" => port.pin \in StaticSlots
  BY PortAssumption DEF StaticSlots, StaticSlotsOf
<1> QED
  BY <1>1, <1>2, <1>3, <1>4, <1>5, <1>6, <1>7

LEMMA PinFacts ==
  ASSUME port \in Ports, NEW stack
  PROVE  /\ PinSlots(stack) \subseteq SlotsOf(port)
         /\ PinSlots(stack) \cap MapSlots = {}
         /\ Free \ PinSlots(stack) # {}
         /\ \A i, j \in PinSlots(stack) : i = j
         /\ \A i \in SlotsOf(port) : i \in MapSlots \cup PinSlots(stack) \cup Free
<1>1. Free \subseteq SlotsOf(port) /\ Free \cap StaticSlots = {}
  BY DEF Free
<1>2. CASE port.name = "tricore"
  <2>1. PinSlots(stack) = {port.pin}
    BY <1>2 DEF PinSlots
  <2> QED
    BY <1>1, <1>2, <2>1, PortFacts DEF MapSlots, Free
<1>3. CASE port.name # "tricore"
  <2>1. PinSlots(stack) = {} \/ \E i \in Free : PinSlots(stack) = {i}
    BY <1>3, PortFacts DEF PinSlots
  <2>2. MapSlots = StaticSlots
    BY <1>3, PortFacts DEF MapSlots
  <2> QED
    BY <1>1, <2>1, <2>2, PortFacts DEF Free
<1> QED
  BY <1>2, <1>3

LEMMA StackExact ==
  ASSUME port \in Ports, NEW t \in Threads, NEW perms,
         port.name \in {"pmp", "v7m"}, ~Inside(Stacks[t], Ram)
  PROVE  Cover(Stacks[t].lo, Stacks[t].hi, perms) = Region(Stacks[t].lo, Stacks[t].hi, perms)
<1>1. NaturallyAligned(Stacks[t]) /\ Stacks[t].lo \in Nat /\ Stacks[t].hi \in Nat
  BY StackAssumption DEF WindowsArePowers
<1> QED
  BY <1>1, CoverExact DEF NaturallyAligned

LEMMA LayoutFits ==
  ASSUME port \in Ports, NEW t \in Threads, slot = [i \in SlotsOf(port) |-> slot[i]],
         port.name # "pmp" => \A i \in MapSlots : slot[i] = MapSlot(i),
         NEW L, L = Layout(Stacks[t])
  PROVE  /\ L.dyn = Free \ PinSlots(Stacks[t])
         /\ L.slot = [i \in SlotsOf(port) |-> L.slot[i]]
         /\ \A i \in MapSlots : L.slot[i] = MapSlot(i)
         /\ \A i \in PinSlots(Stacks[t]) : L.slot[i] = StackSlot(Stacks[t])
         /\ \A i \in L.dyn : L.slot[i] = Off
<1> DEFINE s == Stacks[t]
<1>1. /\ DOMAIN slot = SlotsOf(port) /\ MapSlots \subseteq SlotsOf(port)
      /\ Free \subseteq SlotsOf(port) /\ Free \cap MapSlots = {}
      /\ PinSlots(s) \subseteq SlotsOf(port) /\ PinSlots(s) \cap MapSlots = {}
  BY PortFacts, PinFacts DEF MapSlots, Free
<1>2. CASE port.name = "pmp"
  <2>1. PinSlots(s) = IF pmp_covered_by_uram(s) THEN {} ELSE {Min(Free)}
    BY <1>2 DEF PinSlots
  <2>2. L = [slot |-> [i \in SlotsOf(port) |->
                         IF i \in PinSlots(s) THEN pmp_set_napot(s, perms_to_pmp({"r", "w"}))
                         ELSE pmp_static_user(i)],
             dyn |-> Free \ PinSlots(s)]
    BY <1>1, <1>2, <2>1 DEF Layout, pmp_user_layout
  <2>3. \A i \in MapSlots : pmp_static_user(i) = MapSlot(i)
    BY <1>2 DEF MapSlot
  <2>4. \A i \in Free : pmp_static_user(i) = Off
    BY DEF Free, StaticSlots, StaticSlotsOf, pmp_static_user
  <2>5. PinSlots(s) # {} => pmp_set_napot(s, perms_to_pmp({"r", "w"})) = StackSlot(s)
    BY <1>2, <2>1, StackExact DEF pmp_covered_by_uram, pmp_set_napot, perms_to_pmp, StackSlot
  <2> QED
    BY <1>1, <2>2, <2>3, <2>4, <2>5
<1>3. CASE port.name = "v7m"
  <2>1. PinSlots(s) = IF covered_by_uram(s) THEN {} ELSE {top_slot(Free)}
    BY <1>3 DEF PinSlots
  <2>2. L = [slot |-> [i \in SlotsOf(port) |->
                         CASE i \in PinSlots(s) -> Cover(s.lo, s.hi, perm_to_attr({"r", "w"}))
                           [] i \in Free \ PinSlots(s) -> Off
                           [] OTHER -> slot[i]],
             dyn |-> Free \ PinSlots(s)]
    BY <1>1, <1>3, <2>1 DEF Layout, V7mLayout
  <2>3. perm_to_attr({"r", "w"}) = {"r", "w"}
    BY DEF perm_to_attr
  <2>4. PinSlots(s) # {} => Cover(s.lo, s.hi, perm_to_attr({"r", "w"})) = StackSlot(s)
    BY <1>3, <2>1, <2>3, StackExact DEF covered_by_uram, StackSlot
  <2> QED
    BY <1>1, <1>3, <2>1, <2>2, <2>4
<1>4. CASE port.name = "v8m"
  <2>1. PinSlots(s) = IF covered_by_static(s) THEN {} ELSE {Min(Free)}
    BY <1>4 DEF PinSlots
  <2>2. L = [slot |-> [i \in SlotsOf(port) |->
                         CASE i \in PinSlots(s) -> Region(s.lo, s.hi, perm_to_rbar({"r", "w"}))
                           [] i \in Free \ PinSlots(s) -> Off
                           [] OTHER -> slot[i]],
             dyn |-> Free \ PinSlots(s)]
    BY <1>1, <1>4, <2>1 DEF Layout, V8mLayout
  <2>3. perm_to_rbar({"r", "w"}) = {"r", "w"}
    BY DEF perm_to_rbar
  <2> QED
    BY <1>1, <1>4, <2>1, <2>2, <2>3 DEF StackSlot
<1>5. CASE port.name = "tricore"
  <2>1. PinSlots(s) = {port.pin} /\ port.pin \notin Free
    BY <1>5, PortFacts DEF PinSlots, Free
  <2>2. L = [slot |-> [i \in SlotsOf(port) |->
                         CASE i = port.pin -> mpu_write_range(s, mpu_perm_bits({"r", "w"}))
                           [] i \in Free -> Off
                           [] OTHER -> slot[i]],
             dyn |-> Free]
    BY <1>1, <1>5 DEF Layout, TcLayout
  <2>3. mpu_perm_bits({"r", "w"}) = {"r", "w"}
    BY DEF mpu_perm_bits
  <2> QED
    BY <1>1, <1>5, <2>1, <2>2, <2>3 DEF StackSlot, mpu_write_range
<1> QED
  BY <1>2, <1>3, <1>4, <1>5, PortFacts

-----------------------------------------------------------------------------
(* The invariant.                                                           *)

(* What depends on the build alone stays.                                   *)
LEMMA BuildKept ==
  ASSUME port' = port
  PROVE  /\ StaticSlots' = StaticSlots /\ Free' = Free /\ MapSlots' = MapSlots
         /\ \A i : MapSlot(i)' = MapSlot(i)
         /\ \A st : PinSlots(st)' = PinSlots(st)
         /\ \A w : WindowSlot(w)' = WindowSlot(w)
         /\ \A ps : PortRights(ps)' = PortRights(ps)
<1>1. StaticSlots' = StaticSlots /\ Free' = Free /\ MapSlots' = MapSlots
  BY DEF StaticSlots, Free, MapSlots
<1>2. ASSUME NEW i
      PROVE  MapSlot(i)' = MapSlot(i)
  BY DEF MapSlot, pmp_static_user, BootSlot, V7mStatic, V8mStatic, mpu_user_static
<1>3. ASSUME NEW st
      PROVE  PinSlots(st)' = PinSlots(st)
  BY <1>1 DEF PinSlots
<1>4. ASSUME NEW ps
      PROVE  PortRights(ps)' = PortRights(ps)
  BY DEF PortRights
<1>5. ASSUME NEW w
      PROVE  WindowSlot(w)' = WindowSlot(w)
  BY <1>4 DEF WindowSlot
<1> QED
  BY <1>1, <1>2, <1>3, <1>4, <1>5

(* A window that is accepted is in no slot.                                 *)
LEMMA AcceptedIsNew ==
  ASSUME port \in Ports, NEW w, Accepts(w), NEW i \in dyn
  PROVE  slot[i] # WindowSlot(w)
<1> SUFFICES ASSUME slot[i] = WindowSlot(w)
             PROVE  FALSE
  OBVIOUS
<1>1. slot[i].mode = "range" /\ slot[i].lo = w.lo /\ slot[i].hi = w.hi
  BY DEF WindowSlot, Region
<1>2. CASE port.name = "pmp"
  BY <1>1, <1>2 DEF Accepts, PmpLoad
<1>3. CASE port.name = "v7m"
  BY <1>1, <1>3 DEF Accepts, V7mLoad
<1>4. CASE port.name = "v8m"
  BY <1>1, <1>4 DEF Accepts, V8mLoad
<1>5. CASE port.name = "tricore"
  BY <1>1, <1>5 DEF Accepts, TcLoad
<1> QED
  BY <1>2, <1>3, <1>4, <1>5, PortFacts

LEMMA InitSlots == Init => SlotInv
<1> SUFFICES ASSUME Init
             PROVE  SlotInv
  OBVIOUS
<1>1. port \in Ports /\ cur = Nil /\ pinned = Nil /\ next = 0
      /\ slot = [i \in SlotsOf(port) |-> BootSlot(i)]
  BY DEF Init, SlotsOf
<1>2. MapSlots \subseteq SlotsOf(port)
  BY <1>1, PortFacts DEF MapSlots
<1>3. MapInPlace
  BY <1>1, <1>2 DEF MapInPlace, MapSlot
<1>4. slot = [i \in SlotsOf(port) |-> slot[i]]
  BY <1>1
<1> QED
  BY <1>1, <1>3, <1>4 DEF SlotInv

LEMMA KernelSlots ==
  ASSUME SlotInv, SwitchKernel
  PROVE  SlotInv'
<1>1. port' = port /\ slot' = slot /\ cur' = Nil /\ pinned' = Nil /\ next' = next /\ cur # Nil
  BY DEF SwitchKernel
<1>2. MapInPlace'
  BY <1>1, BuildKept DEF SlotInv, MapInPlace
<1> QED
  BY <1>1, <1>2 DEF SlotInv

LEMMA SwitchSlots ==
  ASSUME SlotInv, NEW t \in Threads, ulmk_arch_mpu_switch(t)
  PROVE  SlotInv'
<1>1. port' = port /\ cur' = t /\ t # Nil /\ port \in Ports
  BY StackAssumption DEF ulmk_arch_mpu_switch, SlotInv
<1>2. CASE pinned = t
  <2>1. UNCHANGED vars
    BY <1>1, <1>2 DEF ulmk_arch_mpu_switch, SlotInv, vars
  <2> QED
    BY <2>1, BuildKept DEF SlotInv, MapInPlace, OwnLayout, OwnWindows, vars
<1>3. CASE pinned # t
  <2> DEFINE L == Layout(Stacks[t])
  <2>1. slot' = L.slot /\ dyn' = L.dyn /\ pinned' = t /\ next' = 0 /\ loaded' = {}
    BY <1>3 DEF ulmk_arch_mpu_switch
  <2>2. /\ L.dyn = Free \ PinSlots(Stacks[t])
        /\ L.slot = [i \in SlotsOf(port) |-> L.slot[i]]
        /\ \A i \in MapSlots : L.slot[i] = MapSlot(i)
        /\ \A i \in PinSlots(Stacks[t]) : L.slot[i] = StackSlot(Stacks[t])
        /\ \A i \in L.dyn : L.slot[i] = Off
    BY <1>1, LayoutFits DEF SlotInv, MapInPlace
  <2> HIDE DEF L
  <2>3. MapInPlace'
    BY <1>1, <2>1, <2>2, BuildKept DEF MapInPlace
  <2>4. OwnLayout'
    BY <1>1, <2>1, <2>2, BuildKept DEF OwnLayout
  <2>5. OwnWindows'
    BY <2>1, <2>2 DEF OwnWindows
  <2> QED
    BY <1>1, <2>1, <2>2, <2>3, <2>4, <2>5 DEF SlotInv
<1> QED
  BY <1>2, <1>3

(* Slots for windows hold nothing else.                                     *)
LEMMA DynFacts ==
  ASSUME SlotInv, cur # Nil
  PROVE  /\ dyn \subseteq SlotsOf(port) /\ dyn # {}
         /\ dyn \cap MapSlots = {} /\ dyn \cap PinSlots(Stacks[cur]) = {}
         /\ MapSlots \subseteq SlotsOf(port) /\ PinSlots(Stacks[cur]) \subseteq SlotsOf(port)
         /\ \A i \in SlotsOf(port) : i \in MapSlots \cup PinSlots(Stacks[cur]) \cup dyn
         /\ DOMAIN slot = SlotsOf(port)
<1>1. port \in Ports /\ dyn = Free \ PinSlots(Stacks[cur]) /\ DOMAIN slot = SlotsOf(port)
  BY DEF SlotInv, OwnLayout
<1>2. Free \subseteq SlotsOf(port) /\ Free \cap MapSlots = {} /\ MapSlots \subseteq SlotsOf(port)
  BY <1>1, PortFacts DEF Free, MapSlots
<1> QED
  BY <1>1, <1>2, PinFacts

LEMMA FlushSlots ==
  ASSUME SlotInv, ulmk_arch_mpu_flush
  PROVE  SlotInv'
<1>1. /\ cur # Nil /\ port' = port /\ cur' = cur /\ pinned' = pinned /\ dyn' = dyn
      /\ next' = next /\ loaded' = {}
      /\ slot' = [i \in SlotsOf(port) |-> IF i \in dyn THEN Off ELSE slot[i]]
  BY DynFacts DEF ulmk_arch_mpu_flush
<1>2. MapInPlace'
  <2>1. \A i \in MapSlots : slot'[i] = slot[i]
    BY <1>1, DynFacts
  <2>2. \A i \in MapSlots : slot[i] = MapSlot(i)
    BY <1>1 DEF SlotInv, MapInPlace
  <2> QED
    BY <1>1, <2>1, <2>2, BuildKept DEF MapInPlace
<1>3. OwnLayout'
  <2>1. \A i \in PinSlots(Stacks[cur]) : slot'[i] = slot[i]
    BY <1>1, DynFacts
  <2>2. OwnLayout
    BY <1>1 DEF SlotInv
  <2> QED
    BY <1>1, <2>1, <2>2, BuildKept DEF OwnLayout
<1>4. OwnWindows'
  BY <1>1, DynFacts DEF OwnWindows
<1> QED
  BY <1>1, <1>2, <1>3, <1>4 DEF SlotInv

LEMMA LoadSlots ==
  ASSUME SlotInv, NEW w \in Areas[cur], ulmk_arch_mpu_load(w)
  PROVE  /\ SlotInv'
         /\ \E i \in dyn' : slot'[i] = WindowSlot(w)'
<1>1. /\ cur # Nil /\ port' = port /\ cur' = cur /\ pinned' = pinned /\ dyn' = dyn
      /\ next' = (next + 1) % Cardinality(dyn) /\ loaded' = loaded \cup {w} /\ Accepts(w)
      /\ slot' = [slot EXCEPT ![Victim] = WindowSlot(w)]
  BY DEF ulmk_arch_mpu_load, WindowSlot
<1>2. port \in Ports /\ next \in Nat
  BY DEF SlotInv
<1>3. Victim \in dyn /\ next' \in Nat
  BY <1>1, <1>2, DynFacts, VictimIsFree
<1> DEFINE v == Victim
<1> HIDE DEF v
<1>4. /\ slot' = [i \in SlotsOf(port) |-> slot'[i]] /\ slot'[v] = WindowSlot(w)
      /\ \A i \in SlotsOf(port) \ {v} : slot'[i] = slot[i]
  BY <1>1, <1>3, DynFacts DEF SlotInv, v
<1>5. v \in dyn
  BY <1>3 DEF v
<1>6. MapInPlace'
  <2>1. \A i \in MapSlots : slot'[i] = slot[i]
    BY <1>1, <1>4, <1>5, DynFacts
  <2>2. \A i \in MapSlots : slot[i] = MapSlot(i)
    BY <1>1 DEF SlotInv, MapInPlace
  <2> QED
    BY <1>1, <2>1, <2>2, BuildKept DEF MapInPlace
<1>7. OwnLayout'
  <2>1. \A i \in PinSlots(Stacks[cur]) : slot'[i] = slot[i]
    BY <1>1, <1>4, <1>5, DynFacts
  <2>2. OwnLayout
    BY <1>1 DEF SlotInv
  <2> QED
    BY <1>1, <2>1, <2>2, BuildKept DEF OwnLayout
<1>8. OwnWindows'
  <2>1. loaded \subseteq Areas[cur]
        /\ (\A i \in dyn : slot[i] = Off \/ \E x \in loaded : slot[i] = WindowSlot(x))
        /\ \A i, j \in dyn : i # j /\ slot[i] = slot[j] => slot[i] = Off
    BY <1>1 DEF SlotInv, OwnWindows
  <2>2. \A i \in dyn \ {v} : slot'[i] = slot[i] /\ slot'[i] # WindowSlot(w)
    BY <1>1, <1>2, <1>4, DynFacts, AcceptedIsNew
  <2>3. \A i \in dyn : slot'[i] = Off \/ \E x \in loaded' : slot'[i] = WindowSlot(x)
    BY <1>1, <1>4, <2>1, <2>2
  <2>4. \A i, j \in dyn : i # j /\ slot'[i] = slot'[j] => slot'[i] = Off
    BY <1>4, <2>1, <2>2
  <2> QED
    BY <1>1, <2>1, <2>3, <2>4, BuildKept DEF OwnWindows
<1> QED
  BY <1>1, <1>2, <1>3, <1>4, <1>5, <1>6, <1>7, <1>8, BuildKept DEF SlotInv

LEMMA StepSlots == SlotInv /\ [Next]_vars => SlotInv'
<1> SUFFICES ASSUME SlotInv, [Next]_vars
             PROVE  SlotInv'
  OBVIOUS
<1>1. CASE SwitchKernel
  BY <1>1, KernelSlots
<1>2. CASE \E t \in Threads : ulmk_arch_mpu_switch(t)
  BY <1>2, SwitchSlots
<1>3. CASE ulmk_arch_mpu_flush
  BY <1>3, FlushSlots
<1>4. CASE \E w \in (IF cur = Nil THEN {} ELSE Areas[cur]) : ulmk_arch_mpu_load(w)
  BY <1>4, LoadSlots
<1>5. CASE UNCHANGED vars
  BY <1>5, BuildKept DEF SlotInv, MapInPlace, OwnLayout, OwnWindows, vars
<1> QED
  BY <1>1, <1>2, <1>3, <1>4, <1>5 DEF Next

(* Every slot holds what it should: the inductive invariant of the unit.    *)
THEOREM SlotInvariant == Spec => []SlotInv
  BY InitSlots, StepSlots, PTL DEF Spec

-----------------------------------------------------------------------------
(* What the slots match.                                                    *)

LEMMA CoverBounds ==
  ASSUME NEW lo, NEW hi, NEW perms
  PROVE  /\ Cover(lo, hi, perms).lo = Cover(lo, hi, {}).lo
         /\ Cover(lo, hi, perms).hi = Cover(lo, hi, {}).hi
         /\ Cover(lo, hi, perms).mode = "range" /\ Cover(lo, hi, perms).perms = perms
BY DEF Cover, Region

LEMMA MatchesRange ==
  ASSUME NEW i, NEW a, slot[i].mode = "range"
  PROVE  Matches(i, a) <=> slot[i].lo <= a /\ a < slot[i].hi
BY DEF Matches

(* A static slot matches what the board's map says.                         *)
LEMMA MapHit ==
  ASSUME SlotInv, cur # Nil, NEW i \in MapSlots, NEW a, Matches(i, a)
  PROVE  \E r \in StaticRanges(port) : InRegion(r, a)
<1>1. port \in Ports /\ slot[i] = MapSlot(i)
  BY DEF SlotInv, MapInPlace
<1>2. slot[i].mode # "off"
  BY DEF Matches
<1>3. CASE port.name = "pmp"
  <2>1. slot[i] = pmp_static_user(i)
    BY <1>1, <1>3 DEF MapSlot
  <2>2. CASE i = port.text
    <3>1. slot[i] = Cover(Text.lo, Text.hi, {"r", "x"})
      BY <1>1, <2>1, <2>2, PortAssumption DEF pmp_static_user, pmp_set_napot
    <3> QED
      BY <1>3, <3>1, CoverBounds, MatchesRange DEF StaticRanges, InRegion
  <2>3. CASE i = port.mmio
    <3>1. slot[i] = Cover(Mmio.lo, Mmio.hi, {"r", "w"})
      BY <1>1, <2>1, <2>3, PortAssumption DEF pmp_static_user, pmp_set_napot
    <3> QED
      BY <1>3, <3>1, CoverBounds, MatchesRange DEF StaticRanges, InRegion
  <2>4. CASE i = port.ram /\ ~port.tor
    <3>1. slot[i] = Cover(Ram.lo, Ram.hi, {"r", "w"})
      BY <1>1, <2>1, <2>4, PortAssumption DEF pmp_static_user, pmp_set_napot
    <3> QED
      BY <1>3, <2>4, <3>1, CoverBounds, MatchesRange DEF StaticRanges, InRegion
  <2>5. CASE i = port.ram /\ port.tor
    <3>1. slot[i] = pmp_set_tor(Ram, {"r", "w"})
      <4>1. port.ram \in Nat /\ port.ram # port.text /\ port.ram # port.mmio
        BY <1>1, PortAssumption, PortFacts DEF StaticSlots, StaticSlotsOf
      <4> QED
        BY <2>1, <2>5, <4>1 DEF pmp_static_user
    <3>2. i - 1 \in MapSlots
      BY <1>1, <1>3, <2>5, PortFacts DEF MapSlots, StaticSlots, StaticSlotsOf
    <3>3. slot[i - 1] = pmp_static_user(i - 1)
      BY <1>3, <3>2 DEF SlotInv, MapInPlace, MapSlot
    <3>4. i - 1 # port.text /\ i - 1 # port.mmio /\ i \in Nat
      BY <1>1, <2>5, PortAssumption, PortFacts DEF StaticSlots, StaticSlotsOf
    <3>5. slot[i - 1].lo = Ram.lo
      BY <2>5, <3>3, <3>4 DEF pmp_static_user, Off
    <3>6. Ram.lo <= a /\ a < Ram.hi
      BY <3>1, <3>5 DEF Matches, pmp_set_tor, Region
    <3> QED
      BY <1>3, <2>5, <3>6 DEF StaticRanges, InRegion
  <2>6. CASE i \notin {port.text, port.mmio, port.ram}
    <3>1. slot[i].mode = "off"
      BY <2>1, <2>6 DEF pmp_static_user, Off
    <3> QED
      BY <1>2, <3>1
  <2> QED
    BY <1>1, <2>2, <2>3, <2>4, <2>5, <2>6, PortAssumption
<1>4. CASE port.name = "v7m"
  <2>1. slot[i] = V7mStatic(i)
    BY <1>1, <1>4 DEF MapSlot, BootSlot
  <2>2. slot[i].mode = "range" /\ i \in {port.text, port.ram, port.mmio}
    BY <1>2, <2>1, CoverBounds DEF V7mStatic, Off, Region
  <2>3. \/ slot[i].lo = Text.lo /\ slot[i].hi = Text.hi
        \/ slot[i].lo = Ram.lo /\ slot[i].hi = Ram.hi
        \/ slot[i] = Cover(Mmio.lo, Mmio.hi, {"r", "w"})
    BY <2>1, <2>2 DEF V7mStatic, Region
  <2> QED
    BY <1>4, <2>2, <2>3, CoverBounds, MatchesRange DEF StaticRanges, InRegion
<1>5. CASE port.name = "v8m"
  <2>1. slot[i] = V8mStatic(i)
    BY <1>1, <1>5 DEF MapSlot, BootSlot
  <2>2. slot[i].mode = "range" /\ \E r \in {Text, Ram, Mmio} : slot[i].lo = r.lo /\ slot[i].hi = r.hi
    BY <1>2, <2>1 DEF V8mStatic, Off, Region
  <2> QED
    BY <1>5, <2>2, MatchesRange DEF StaticRanges, InRegion
<1>6. CASE port.name = "tricore"
  <2>1. slot[i] = mpu_user_static(i)
    BY <1>1, <1>6 DEF MapSlot, BootSlot
  <2>2. /\ slot[i].mode = "range"
        /\ \E r \in {Text, Ram, Flash, Mmio} : slot[i].lo = r.lo /\ slot[i].hi = r.hi
    BY <1>2, <2>1 DEF mpu_user_static, mpu_write_range, Off, Region
  <2> QED
    BY <1>6, <2>2, MatchesRange DEF StaticRanges, InRegion
<1> QED
  BY <1>1, <1>3, <1>4, <1>5, <1>6, PortFacts

LEMMA HitKinds ==
  ASSUME SlotInv, cur # Nil, NEW a, NEW i \in SlotsOf(port), Matches(i, a)
  PROVE  \/ i \in MapSlots /\ \E r \in StaticRanges(port) : InRegion(r, a)
         \/ i \in PinSlots(Stacks[cur]) /\ InRegion(Stacks[cur], a) /\ slot[i].perms = {"r", "w"}
         \/ i \in dyn /\ \E w \in loaded : slot[i] = WindowSlot(w) /\ InRegion(w, a)
<1>1. CASE i \in MapSlots
  BY <1>1, MapHit
<1>2. CASE i \in PinSlots(Stacks[cur])
  <2>1. slot[i] = StackSlot(Stacks[cur])
    BY <1>2 DEF SlotInv, OwnLayout
  <2> QED
    BY <1>2, <2>1, MatchesRange DEF StackSlot, Region, InRegion
<1>3. CASE i \in dyn
  <2>1. slot[i] # Off
    BY DEF Matches, Off
  <2>2. PICK w \in loaded : slot[i] = WindowSlot(w)
    BY <1>3, <2>1 DEF SlotInv, OwnWindows
  <2>3. InRegion(w, a)
    BY <2>2, MatchesRange DEF WindowSlot, Region, InRegion
  <2> QED
    BY <1>3, <2>2, <2>3
<1> QED
  BY <1>1, <1>2, <1>3, DynFacts

-----------------------------------------------------------------------------
(* What the unit grants.                                                    *)

LEMMA OneHit ==
  ASSUME SlotInv, NEW a, NEW i \in SlotsOf(port), Matches(i, a),
         \A j \in SlotsOf(port) : Matches(j, a) => j = i
  PROVE  Granted(a) = slot[i].perms
<1> DEFINE hits == {j \in DOMAIN slot : Matches(j, a)}
<1>1. hits = {i} /\ i \in Nat
  BY PortFacts DEF SlotInv
<1>2. Min(hits) = i /\ Max(hits) = i /\ Cardinality(hits) = 1
  BY <1>1, OneIsLeast, FS_Singleton
<1>3. UNION {slot[j].perms : j \in hits} = slot[i].perms
  BY <1>1
<1>4. Granted(a) = (IF hits = {} THEN {}
        ELSE CASE port.name = "pmp" -> slot[Min(hits)].perms
               [] port.name = "v7m" -> slot[Max(hits)].perms
               [] port.name = "v8m" -> IF Cardinality(hits) = 1 THEN slot[Min(hits)].perms ELSE {}
               [] OTHER             -> UNION {slot[j].perms : j \in hits})
  BY DEF Granted
<1> HIDE DEF hits
<1>5. hits # {}
  BY <1>1
<1>6. port.name \in {"pmp", "v7m", "v8m", "tricore"}
  BY PortFacts DEF SlotInv
<1> QED
  BY <1>2, <1>3, <1>4, <1>5, <1>6

LEMMA GrantedFrom ==
  ASSUME SlotInv, NEW a, NEW p \in Granted(a)
  PROVE  \E i \in SlotsOf(port) : Matches(i, a) /\ p \in slot[i].perms
<1> DEFINE hits == {j \in DOMAIN slot : Matches(j, a)}
<1>1. hits \subseteq SlotsOf(port) /\ port \in Ports
  BY DEF SlotInv
<1>2. Granted(a) = (IF hits = {} THEN {}
        ELSE CASE port.name = "pmp" -> slot[Min(hits)].perms
               [] port.name = "v7m" -> slot[Max(hits)].perms
               [] port.name = "v8m" -> IF Cardinality(hits) = 1 THEN slot[Min(hits)].perms ELSE {}
               [] OTHER             -> UNION {slot[j].perms : j \in hits})
  BY DEF Granted
<1>3. \A i \in hits : Matches(i, a)
  OBVIOUS
<1> HIDE DEF hits
<1>4. hits # {}
  BY <1>2
<1>5. Min(hits) \in hits
  BY <1>1, <1>4, PortFacts, LeastIn
<1>6. Max(hits) \in hits
  <2>1. port.slots \in Nat /\ hits \subseteq 0 .. port.slots
    BY <1>1, PortFacts DEF SlotsOf
  <2> QED
    BY <1>4, <2>1, GreatestIn
<1>7. \E i \in hits : p \in slot[i].perms
  BY <1>2, <1>4, <1>5, <1>6
<1> QED
  BY <1>1, <1>3, <1>7

LEMMA RunningThread ==
  ASSUME SlotInv, cur # Nil
  PROVE  /\ port \in Ports /\ cur \in Threads /\ loaded \subseteq Areas[cur]
         /\ Stacks[cur].lo \in Nat /\ Stacks[cur].hi \in Nat
         /\ \A w \in loaded : w.lo \in Nat /\ w.hi \in Nat /\ w.perms \subseteq Rights
BY StackAssumption, WindowAssumption DEF SlotInv, OwnWindows

(* The static regions stay off kernel RAM also as they are encoded.          *)
LEMMA StaticOffKernel ==
  ASSUME NEW p \in Ports, NEW r \in StaticRanges(p), NEW a \in Addrs, InRegion(KRam, a)
  PROVE  ~InRegion(r, a)
<1>1. \A s \in {Text, Flash, Ram, Mmio} : ~InRegion(s, a)
  BY MapAssumption DEF Meet
<1>2. p.name = "pmp" => ~InRegion(Cover(Text.lo, Text.hi, {}), a)
  BY MapAssumption DEF Meet
<1>3. p.name \in {"pmp", "v7m"} => ~InRegion(Cover(Mmio.lo, Mmio.hi, {}), a)
  BY MapAssumption DEF Meet, WindowsArePowers
<1>4. p.name = "pmp" /\ ~p.tor => ~InRegion(Cover(Ram.lo, Ram.hi, {}), a)
  <2> SUFFICES ASSUME p.name = "pmp", ~p.tor
               PROVE  ~InRegion(Cover(Ram.lo, Ram.hi, {}), a)
    OBVIOUS
  <2>1. Ram.lo \in Nat /\ Ram.hi \in Nat /\ NaturallyAligned(Ram)
    BY MapAssumption
  <2>2. Cover(Ram.lo, Ram.hi, {}) = Region(Ram.lo, Ram.hi, {})
    BY <2>1, CoverExact DEF NaturallyAligned
  <2> QED
    BY <1>1, <2>2 DEF Region, InRegion
<1>5. p.name \in {"pmp", "v7m", "v8m", "tricore"} /\ p.tor \in BOOLEAN
  BY PortAssumption
<1> QED
  BY <1>1, <1>2, <1>3, <1>4, <1>5 DEF StaticRanges

LEMMA HiddenNow == SlotInv => KernelRamHidden
<1> SUFFICES ASSUME SlotInv, cur # Nil, NEW a \in KRam.lo .. KRam.hi - 1, NEW q \in Granted(a)
             PROVE  \E w \in Areas[cur] \cap loaded : InRegion(w, a) /\ q \in PortRights(w.perms)
  BY DEF KernelRamHidden
<1>1. PICK i \in SlotsOf(port) : Matches(i, a) /\ q \in slot[i].perms
  BY GrantedFrom
<1>2. a \in Addrs /\ InRegion(KRam, a)
  <2>1. a \in Addrs /\ a \in Nat
    BY MapAssumption
  <2>2. KRam.lo <= a /\ a < KRam.hi
    BY MapAssumption
  <2> QED
    BY <2>1, <2>2 DEF InRegion
<1>3. \A r \in StaticRanges(port) : ~InRegion(r, a)
  BY <1>2, RunningThread, StaticOffKernel
<1>4. ~InRegion(Stacks[cur], a)
  <2>1. \/ Inside(Stacks[cur], Ram) \/ Inside(Stacks[cur], Mmio)
        \/ ~Meet(Stacks[cur], KRam)
    BY RunningThread, StackAssumption
  <2>2. ~InRegion(Ram, a) /\ ~InRegion(Mmio, a) /\ a \in Nat
    BY <1>2, MapAssumption DEF Meet
  <2>3. ~Meet(Stacks[cur], KRam) => ~InRegion(Stacks[cur], a)
    BY <1>2 DEF Meet
  <2>4. ASSUME NEW r \in {Ram, Mmio}, Inside(Stacks[cur], r)
        PROVE  ~InRegion(Stacks[cur], a)
    BY <2>2, <2>4, RunningThread, MapAssumption DEF Inside, InRegion
  <2> QED
    BY <2>1, <2>3, <2>4
<1>5. PICK w \in loaded : slot[i] = WindowSlot(w) /\ InRegion(w, a)
  BY <1>1, <1>3, <1>4, HitKinds
<1> QED
  BY <1>1, <1>5, RunningThread DEF WindowSlot, Region

(* User mode gets at kernel RAM only through an area the running thread has *)
(* mapped there itself and faulted in, whatever threads run and fault, on   *)
(* the four kinds of slot units: rounded regions, the two slots of a range  *)
(* and windows that stay for a kernel thread included.  Of windows nothing  *)
(* is assumed about kernel RAM; of the static map only what is linked.      *)
THEOREM KernelHidden == Spec => []KernelRamHidden
  BY SlotInvariant, HiddenNow, PTL

(* The thread has the rights of a window that is in a slot.                 *)
LEMMA WindowReached ==
  ASSUME SlotInv, cur # Nil, NEW i \in dyn, NEW w \in loaded, slot[i] = WindowSlot(w),
         NEW a \in Addrs, InRegion(w, a)
  PROVE  Granted(a) = PortRights(w.perms) /\ \A j \in MapSlots : ~Matches(j, a)
<1>1. i \in SlotsOf(port) /\ Matches(i, a)
  BY DynFacts, MatchesRange DEF WindowSlot, Region, InRegion
<1>2. w \in Areas[cur] /\ \A r \in StaticRanges(port) : ~InRegion(r, a)
  BY RunningThread, WindowAssumption DEF Meet
<1>3. \A j \in MapSlots : ~Matches(j, a)
  BY <1>2, MapHit
<1>4. ~InRegion(Stacks[cur], a)
  BY <1>2, RunningThread, WindowAssumption DEF Meet
<1>5. ASSUME NEW v \in loaded, InRegion(v, a)
      PROVE  v = w
  BY <1>2, <1>5, RunningThread, WindowAssumption DEF Meet
<1>6. ASSUME NEW j \in SlotsOf(port), Matches(j, a)
      PROVE  j = i
  <2>1. j \in dyn /\ \E v \in loaded : slot[j] = WindowSlot(v) /\ InRegion(v, a)
    BY <1>3, <1>4, <1>6, HitKinds
  <2>2. slot[j] = slot[i] /\ slot[i] # Off
    BY <1>5, <2>1 DEF WindowSlot, Region, Off
  <2> QED
    BY <2>1, <2>2 DEF SlotInv, OwnWindows
<1>7. Granted(a) = slot[i].perms
  BY <1>1, <1>6, OneHit
<1> QED
  BY <1>3, <1>7 DEF WindowSlot, Region

LEMMA RefusedIsLive ==
  ASSUME SlotInv, cur # Nil, NEW w \in Areas[cur], ~Accepts(w)
  PROVE  w \in loaded /\ \E i \in dyn : slot[i] = WindowSlot(w)
<1>1. port \in Ports /\ cur \in Threads /\ dyn # {}
  BY RunningThread, DynFacts
<1>2. WindowsArePowers(port) => NaturallyAligned(w)
  BY <1>1, WindowAssumption
<1>3. w.lo < w.hi /\ w.lo \in Nat /\ w.hi \in Nat
  BY <1>1, WindowAssumption
<1>4. \E i \in dyn : slot[i] # Off /\ slot[i].lo = w.lo
  <2>1. CASE port.name = "pmp"
    BY <1>1, <1>2, <1>3, <2>1 DEF WindowsArePowers, Accepts, PmpLoad, Off
  <2>2. CASE port.name = "v7m"
    BY <1>1, <1>2, <2>2 DEF WindowsArePowers, Accepts, V7mLoad, Off
  <2>3. CASE port.name = "v8m"
    BY <1>1, <2>3 DEF Accepts, V8mLoad, Off
  <2>4. CASE port.name = "tricore"
    BY <2>4 DEF Accepts, TcLoad, Off
  <2> QED
    BY <1>1, <2>1, <2>2, <2>3, <2>4, PortFacts
<1>5. PICK i \in dyn : slot[i] # Off /\ slot[i].lo = w.lo
  BY <1>4
<1>6. PICK v \in loaded : slot[i] = WindowSlot(v)
  BY <1>5 DEF SlotInv, OwnWindows
<1>7. v \in Areas[cur] /\ v.lo = w.lo
  BY <1>5, <1>6, RunningThread DEF WindowSlot, Region
<1>8. v = w
  <2>1. v.lo < v.hi /\ v.lo \in Nat /\ v.hi \in Nat /\ w.lo \in w.lo .. w.hi - 1
    BY <1>1, <1>3, <1>7, WindowAssumption
  <2>2. w.lo \in Addrs
    BY <1>1, <2>1, WindowAssumption
  <2>3. Meet(v, w)
    BY <1>3, <1>7, <2>1, <2>2 DEF Meet, InRegion
  <2> QED
    BY <1>1, <1>7, <2>3, WindowAssumption
<1> QED
  BY <1>6, <1>8

LEMMA NothingRefusedNow == SlotInv => NoFalseViolation
<1> SUFFICES ASSUME SlotInv, cur # Nil, NEW w \in Areas[cur], ~Accepts(w),
                    NEW a \in w.lo .. w.hi - 1
             PROVE  PortRights(w.perms) \subseteq Granted(a)
  BY DEF NoFalseViolation
<1>1. PICK i \in dyn : w \in loaded /\ slot[i] = WindowSlot(w)
  BY RefusedIsLive
<1>2. a \in Addrs /\ InRegion(w, a)
  <2>1. a \in Addrs /\ w.lo \in Nat /\ w.hi \in Nat
    BY RunningThread, WindowAssumption
  <2> QED
    BY <2>1 DEF InRegion
<1> QED
  BY <1>1, <1>2, WindowReached

(* No window of the running thread is refused as a violation unless the     *)
(* thread reaches all of it already (the "already live" tests of            *)
(* ulmk_arch_mpu_load): a legal access never kills a thread.                *)
THEOREM NothingRefused == Spec => []NoFalseViolation
  BY SlotInvariant, NothingRefusedNow, PTL

-----------------------------------------------------------------------------
(* Each unit implements Protection.                                         *)

(* The stack is in the static map, or pinned and apart from it.             *)
Covered(stack) == Inside(stack, Ram) \/ (port.name = "v8m" /\ Inside(stack, Mmio))

LEMMA UserMapHits ==
  ASSUME SlotInv, cur # Nil, NEW a \in Nat,
         InRegion(Ram, a) \/ (port.name = "v8m" /\ InRegion(Mmio, a))
  PROVE  \E i \in MapSlots : Matches(i, a) /\ {"r", "w"} \subseteq slot[i].perms
<1>1. port \in Ports /\ \A i \in MapSlots : slot[i] = MapSlot(i)
  BY DEF SlotInv, MapInPlace
<1>2. port.ram \in MapSlots /\ port.mmio \in MapSlots
  <2>1. port.ram \in StaticSlots /\ port.mmio \in StaticSlots
    BY DEF StaticSlots, StaticSlotsOf
  <2>2. port.ram # port.pin /\ port.mmio # port.pin
    BY <1>1, <2>1, PortAssumption, PortFacts
  <2> QED
    BY <2>1, <2>2 DEF MapSlots
<1>3. port.ram \in Nat /\ port.ram # port.text /\ port.ram # port.mmio /\ port.mmio # port.text
  BY <1>1, PortAssumption, PortFacts DEF StaticSlots, StaticSlotsOf
<1>4. CASE InRegion(Ram, a) /\ port.name = "pmp" /\ port.tor
  <2>1. slot[port.ram] = pmp_set_tor(Ram, {"r", "w"})
    BY <1>1, <1>2, <1>3, <1>4 DEF MapSlot, pmp_static_user
  <2>2. port.ram - 1 \in MapSlots
    BY <1>1, <1>4, PortFacts DEF MapSlots, StaticSlots, StaticSlotsOf
  <2>3. port.ram - 1 # port.text /\ port.ram - 1 # port.mmio /\ port.ram - 1 # port.ram
    BY <1>1, <1>3, <1>4, PortAssumption
  <2>4. slot[port.ram - 1].lo = Ram.lo
    BY <1>1, <1>4, <2>2, <2>3 DEF MapSlot, pmp_static_user, Off
  <2>5. Matches(port.ram, a) /\ slot[port.ram].perms = {"r", "w"}
    BY <1>4, <2>1, <2>4 DEF Matches, pmp_set_tor, Region, InRegion
  <2> QED
    BY <1>2, <2>5
<1>5. CASE InRegion(Ram, a) /\ port.name = "pmp" /\ ~port.tor
  <2>1. slot[port.ram] = Cover(Ram.lo, Ram.hi, {"r", "w"})
    BY <1>1, <1>2, <1>3, <1>5 DEF MapSlot, pmp_static_user, pmp_set_napot
  <2>2. /\ slot[port.ram].lo \in Int /\ slot[port.ram].hi \in Int
        /\ slot[port.ram].lo <= Ram.lo /\ Ram.hi <= slot[port.ram].hi
    BY <2>1, CoverCovers, MapAssumption
  <2>3. slot[port.ram].lo <= a /\ a < slot[port.ram].hi
    BY <1>5, <2>2, MapAssumption DEF InRegion
  <2> QED
    BY <1>2, <2>1, <2>3, CoverBounds, MatchesRange
<1>6. CASE InRegion(Ram, a) /\ port.name # "pmp"
  <2>1. slot[port.ram] = Region(Ram.lo, Ram.hi, {"r", "w"})
    <3>1. slot[port.ram] = BootSlot(port.ram)
      BY <1>1, <1>2, <1>6 DEF MapSlot
    <3>2. CASE port.name = "v7m"
      BY <1>3, <3>1, <3>2 DEF BootSlot, V7mStatic
    <3>3. CASE port.name = "v8m"
      BY <1>3, <3>1, <3>3 DEF BootSlot, V8mStatic
    <3>4. CASE port.name = "tricore"
      <4>1. port.ram # port.slots - 1
        BY <1>1, <3>4, PortAssumption
      <4> QED
        BY <1>3, <3>1, <3>4, <4>1 DEF BootSlot, mpu_user_static, mpu_write_range
    <3> QED
      BY <1>1, <1>6, <3>2, <3>3, <3>4, PortFacts
  <2> QED
    BY <1>2, <1>6, <2>1, MatchesRange DEF Region, InRegion
<1>7. CASE port.name = "v8m" /\ InRegion(Mmio, a)
  <2>1. slot[port.mmio] = Region(Mmio.lo, Mmio.hi, {"r", "w"})
    BY <1>1, <1>2, <1>3, <1>7 DEF MapSlot, BootSlot, V8mStatic
  <2> QED
    BY <1>2, <1>7, <2>1, MatchesRange DEF Region, InRegion
<1> QED
  BY <1>1, <1>4, <1>5, <1>6, <1>7, PortAssumption

LEMMA StackInMap ==
  ASSUME SlotInv, cur # Nil, Covered(Stacks[cur]), NEW a \in Addrs, InRegion(Stacks[cur], a),
         NEW p \in {"r", "w"}
  PROVE  <<a, p>> \in StaticPairs
<1>1. a \in Nat /\ Stacks[cur].lo \in Nat /\ Stacks[cur].hi \in Nat
  BY RunningThread, MapAssumption
<1>2. InRegion(Ram, a) \/ (port.name = "v8m" /\ InRegion(Mmio, a))
  BY <1>1, MapAssumption DEF Covered, Inside, InRegion
<1>3. PICK i \in MapSlots : Matches(i, a) /\ p \in slot[i].perms
  BY <1>1, <1>2, UserMapHits
<1> QED
  BY <1>3 DEF StaticPairs, MapSlots, Rights

LEMMA StackReached ==
  ASSUME SlotInv, cur # Nil, ~Covered(Stacks[cur]), NEW a \in Addrs, InRegion(Stacks[cur], a)
  PROVE  Granted(a) = {"r", "w"}
<1>1. port \in Ports /\ cur \in Threads
  BY RunningThread
<1>2. \E i : i \in PinSlots(Stacks[cur])
  BY <1>1, PortFacts DEF Covered, PinSlots, pmp_covered_by_uram, covered_by_uram, covered_by_static
<1>3. PICK i : i \in PinSlots(Stacks[cur])
  BY <1>2
<1>4. i \in SlotsOf(port) /\ slot[i] = StackSlot(Stacks[cur])
  BY <1>3, DynFacts DEF SlotInv, OwnLayout
<1>5. Matches(i, a) /\ slot[i].perms = {"r", "w"}
  BY <1>4, MatchesRange DEF StackSlot, Region, InRegion
<1>6. \A r \in StaticRanges(port) : ~InRegion(r, a)
  BY <1>1, StackAssumption DEF Covered, Meet
<1>7. \A w \in loaded : ~InRegion(w, a)
  BY <1>1, RunningThread, WindowAssumption DEF Meet
<1>8. \A j \in SlotsOf(port) : Matches(j, a) => j = i
  BY <1>1, <1>3, <1>6, <1>7, HitKinds, PinFacts
<1> QED
  BY <1>4, <1>5, <1>8, OneHit

(* A right the unit grants is of the static map, the stack or a window.     *)
LEMMA ReachBounded ==
  ASSUME SlotInv, cur # Nil, NEW a \in Addrs, NEW p \in Rights, p \in Granted(a)
  PROVE  \/ <<a, p>> \in StaticPairs
         \/ InRegion(Stacks[cur], a) /\ p \in {"r", "w"}
         \/ \E w \in loaded : InRegion(w, a) /\ p \in PortRights(w.perms)
<1>1. PICK i \in SlotsOf(port) : Matches(i, a) /\ p \in slot[i].perms
  BY GrantedFrom
<1>2. CASE i \in MapSlots
  BY <1>1, <1>2 DEF StaticPairs, MapSlots
<1>3. CASE i \in dyn /\ \E w \in loaded : slot[i] = WindowSlot(w) /\ InRegion(w, a)
  BY <1>1, <1>3 DEF WindowSlot, Region
<1> QED
  BY <1>1, <1>2, <1>3, HitKinds

(* The two promises of Protection at any moment.                            *)
UnitBounds ==
  /\ ReachPairs \subseteq StackPairs \cup UNION WindowPairs
  /\ StackPairs \subseteq ReachPairs

LEMMA InRange ==
  ASSUME NEW r, r.lo \in Nat, r.hi \in Nat, NEW a \in Nat
  PROVE  a \in r.lo .. r.hi - 1 <=> InRegion(r, a)
BY DEF InRegion

LEMMA BoundsNow == SlotInv => UnitBounds
<1> SUFFICES ASSUME SlotInv, cur # Nil
             PROVE  UnitBounds
  BY DEF UnitBounds, ReachPairs, StackPairs
<1>1. Addrs \subseteq Nat
  BY MapAssumption
<1>2. ASSUME NEW x \in ReachPairs
      PROVE  x \in StackPairs \cup UNION WindowPairs
  <2>1. PICK a \in Addrs, p \in Rights : x = <<a, p>> /\ p \in Granted(a) /\ <<a, p>> \notin StaticPairs
    BY <1>2 DEF ReachPairs
  <2>2. CASE InRegion(Stacks[cur], a) /\ p \in {"r", "w"}
    <3>1. a \in Stacks[cur].lo .. Stacks[cur].hi - 1
      BY <1>1, <2>2, RunningThread, InRange
    <3> QED
      BY <2>1, <2>2, <3>1 DEF StackPairs, Pairs
  <2>3. CASE \E w \in loaded : InRegion(w, a) /\ p \in PortRights(w.perms)
    <3>1. PICK w \in loaded : InRegion(w, a) /\ p \in PortRights(w.perms)
      BY <2>3
    <3>2. a \in w.lo .. w.hi - 1
      BY <1>1, <3>1, RunningThread, InRange
    <3>3. <<a, p>> \in Pairs(w, PortRights(w.perms))
      BY <3>1, <3>2 DEF Pairs
    <3> QED
      BY <2>1, <3>3 DEF WindowPairs
  <2> QED
    BY <2>1, <2>2, <2>3, ReachBounded
<1>3. ASSUME NEW x \in StackPairs
      PROVE  x \in ReachPairs
  <2>1. PICK a \in Stacks[cur].lo .. Stacks[cur].hi - 1, p \in {"r", "w"} :
          x = <<a, p>> /\ <<a, p>> \notin StaticPairs
    BY <1>3 DEF StackPairs, Pairs
  <2>2. a \in Addrs
    BY <2>1, RunningThread, StackAssumption
  <2>3. InRegion(Stacks[cur], a)
    BY <1>1, <2>1, <2>2, RunningThread, InRange
  <2>4. ~Covered(Stacks[cur])
    BY <2>1, <2>2, <2>3, StackInMap
  <2>5. p \in Granted(a)
    BY <2>2, <2>3, <2>4, StackReached
  <2> QED
    BY <2>1, <2>2, <2>5 DEF ReachPairs, Rights
<1> QED
  BY <1>2, <1>3 DEF UnitBounds

(* The static map is the same for every thread.                             *)
LEMMA BoundIsStatic ==
  ASSUME SlotInv, cur # Nil, NEW i \in MapSlots, slot[i].mode = "tor"
  PROVE  i - 1 \in MapSlots
<1>1. port \in Ports /\ slot[i] = MapSlot(i)
  BY DEF SlotInv, MapInPlace
<1>2. port.name = "pmp"
  <2>1. MapSlot(i) = BootSlot(i) => slot[i].mode # "tor"
    BY <1>1, PortFacts, CoverBounds
       DEF BootSlot, V7mStatic, V8mStatic, mpu_user_static, mpu_write_range, Region, Off
  <2> QED
    BY <2>1 DEF MapSlot
<1>3. i = port.ram /\ port.tor
  <2>1. slot[i] = pmp_static_user(i)
    BY <1>1, <1>2 DEF MapSlot
  <2>2. i \in {port.text, port.mmio} => slot[i].mode # "tor"
    BY <1>1, <2>1, PortAssumption, CoverBounds DEF pmp_static_user, pmp_set_napot
  <2>3. i \notin {port.text, port.mmio, port.ram} => slot[i].mode # "tor"
    BY <2>1 DEF pmp_static_user, Off
  <2>4. i = port.ram /\ ~port.tor => slot[i].mode # "tor"
    BY <1>1, <2>1, PortAssumption, CoverBounds DEF pmp_static_user, pmp_set_napot
  <2> QED
    BY <2>2, <2>3, <2>4
<1> QED
  BY <1>1, <1>2, <1>3, PortFacts DEF MapSlots, StaticSlots, StaticSlotsOf

LEMMA MapKept ==
  ASSUME SlotInv, SlotInv', port' = port, cur # Nil, cur' # Nil
  PROVE  StaticPairs' = StaticPairs
<1>1. MapSlots' = MapSlots /\ \A i \in MapSlots : slot'[i] = slot[i]
  BY BuildKept DEF SlotInv, MapInPlace
<1>2. ASSUME NEW i \in MapSlots, NEW a
      PROVE  Matches(i, a)' <=> Matches(i, a)
  <2>1. CASE slot[i].mode = "tor"
    <3>1. slot'[i - 1] = slot[i - 1]
      BY <1>1, <2>1, BoundIsStatic
    <3> QED
      BY <1>1, <2>1, <3>1 DEF Matches
  <2>2. CASE slot[i].mode # "tor"
    BY <1>1, <2>2 DEF Matches
  <2> QED
    BY <2>1, <2>2
<1>3. \A a \in Addrs, p \in Rights :
        (\E i \in MapSlots : Matches(i, a)' /\ p \in slot'[i].perms)
          <=> (\E i \in MapSlots : Matches(i, a) /\ p \in slot[i].perms)
  BY <1>1, <1>2
<1>4. StaticPairs = {x \in Addrs \X Rights : \E i \in MapSlots : Matches(i, x[1]) /\ x[2] \in slot[i].perms}
  BY DEF StaticPairs, MapSlots
<1>5. StaticPairs' = {x \in Addrs \X Rights :
                        \E i \in MapSlots : Matches(i, x[1])' /\ x[2] \in slot'[i].perms}
  BY <1>1 DEF StaticPairs, MapSlots
<1> QED
  BY <1>3, <1>4, <1>5

(* A window that is in a slot can be used, all of it.                       *)
LoadedReached ==
  cur # Nil => \A i \in dyn, w \in loaded :
    slot[i] = WindowSlot(w) => Pairs(w, PortRights(w.perms)) \subseteq ReachPairs

LEMMA LoadedNow == SlotInv => LoadedReached
<1> SUFFICES ASSUME SlotInv, cur # Nil, NEW i \in dyn, NEW w \in loaded, slot[i] = WindowSlot(w),
                    NEW a \in w.lo .. w.hi - 1, NEW p \in PortRights(w.perms)
             PROVE  <<a, p>> \in ReachPairs
  BY DEF LoadedReached, Pairs
<1>1. port \in Ports /\ w \in Areas[cur] /\ cur \in Threads /\ w.perms \subseteq Rights
  BY RunningThread
<1>2. a \in Addrs /\ a \in Nat
  BY <1>1, WindowAssumption, MapAssumption
<1>3. InRegion(w, a)
  BY <1>2, RunningThread, InRange
<1>4. p \in Granted(a) /\ <<a, p>> \notin StaticPairs
  BY <1>2, <1>3, WindowReached DEF StaticPairs, MapSlots
<1>5. p \in Rights
  BY <1>1, PortFacts
     DEF PortRights, perms_to_pmp, perm_to_attr, perm_to_rbar, mpu_perm_bits, Rights
<1> QED
  BY <1>2, <1>4, <1>5 DEF ReachPairs

LEMMA StepKeepsUnit ==
  ASSUME SlotInv, SlotInv', UnitBounds', LoadedReached', [Next]_vars
  PROVE  [Unit!Next]_<<cur, StackPairs, WindowPairs, ReachPairs>>
<1>1. Unit!Bounds
  BY DEF Unit!Bounds, UnitBounds
<1>2. CASE SwitchKernel
  <2>1. cur' = Nil /\ loaded' = {}
    BY <1>2 DEF SwitchKernel
  <2>2. StackPairs' = {} /\ WindowPairs' = {}
    BY <2>1 DEF StackPairs, WindowPairs
  <2>3. Unit!Switch(Nil)
    BY <1>1, <2>1, <2>2 DEF Unit!Switch
  <2> QED
    BY <2>3 DEF Unit!Next
<1>3. ASSUME NEW t \in Threads, ulmk_arch_mpu_switch(t)
      PROVE  [Unit!Next]_<<cur, StackPairs, WindowPairs, ReachPairs>>
  <2>1. port' = port /\ cur' = t /\ t # Nil /\ cur = pinned
    BY <1>3, StackAssumption DEF ulmk_arch_mpu_switch, SlotInv
  <2>2. CASE pinned = t
    <3>1. UNCHANGED vars
      BY <1>3, <2>1, <2>2 DEF ulmk_arch_mpu_switch, vars
    <3>2. WindowPairs' = WindowPairs
      BY <3>1, BuildKept DEF WindowPairs, vars
    <3>3. StackPairs' = StackPairs
      BY <2>1, <2>2, MapKept DEF StackPairs
    <3>4. Unit!Switch(t)
      BY <1>1, <2>1, <2>2, <3>2, <3>3 DEF Unit!Switch
    <3> QED
      BY <3>4 DEF Unit!Next
  <2>3. CASE pinned # t
    <3>1. WindowPairs' = {}
      BY <1>3, <2>3 DEF ulmk_arch_mpu_switch, WindowPairs
    <3>2. Unit!Switch(t)
      BY <1>1, <2>1, <2>3, <3>1 DEF Unit!Switch
    <3> QED
      BY <3>2 DEF Unit!Next
  <2> QED
    BY <2>2, <2>3
<1>4. CASE ulmk_arch_mpu_flush
  <2>1. port' = port /\ cur' = cur /\ cur # Nil /\ loaded' = {}
    BY <1>4 DEF ulmk_arch_mpu_flush
  <2>2. WindowPairs' = {} /\ StackPairs' = StackPairs
    BY <2>1, MapKept DEF WindowPairs, StackPairs
  <2>3. Unit!Flush
    BY <1>1, <2>1, <2>2 DEF Unit!Flush
  <2> QED
    BY <2>3 DEF Unit!Next
<1>5. ASSUME NEW w \in Areas[cur], ulmk_arch_mpu_load(w)
      PROVE  [Unit!Next]_<<cur, StackPairs, WindowPairs, ReachPairs>>
  <2>1. port' = port /\ cur' = cur /\ cur # Nil /\ loaded' = loaded \cup {w}
    BY <1>5 DEF ulmk_arch_mpu_load
  <2> DEFINE W == Pairs(w, PortRights(w.perms))
  <2>2. StackPairs' = StackPairs
    BY <2>1, MapKept DEF StackPairs
  <2>3. WindowPairs' = WindowPairs \cup {W}
    BY <2>1, BuildKept DEF WindowPairs
  <2>4. PICK i \in dyn' : slot'[i] = WindowSlot(w)'
    BY <1>5, LoadSlots
  <2>5. W \subseteq ReachPairs'
    BY <2>1, <2>4, BuildKept DEF LoadedReached
  <2> HIDE DEF W
  <2>6. Unit!Load(W) /\ W \in WindowPairs'
    BY <1>1, <2>1, <2>2, <2>3, <2>5 DEF Unit!Load
  <2> QED
    BY <2>6 DEF Unit!Next
<1>6. CASE UNCHANGED vars
  <2>1. port' = port /\ cur' = cur /\ slot' = slot /\ loaded' = loaded
    BY <1>6 DEF vars
  <2>2. WindowPairs' = WindowPairs
    BY <2>1, BuildKept DEF WindowPairs
  <2>3. StaticPairs' = StaticPairs /\ \A a : Granted(a)' = Granted(a)
    BY <2>1 DEF StaticPairs, StaticSlots, Matches, Granted
  <2>4. StackPairs' = StackPairs /\ ReachPairs' = ReachPairs
    BY <2>1, <2>3 DEF StackPairs, ReachPairs
  <2> QED
    BY <2>1, <2>2, <2>4
<1> QED
  BY <1>2, <1>3, <1>4, <1>5, <1>6 DEF Next

(* Each slot unit implements the protection unit the kernel relies on: the  *)
(* running thread always has its stack, it has the window loaded last, and  *)
(* beyond the static map it has nothing but windows loaded for it since it  *)
(* was switched in or flushed (ulmk_arch_mpu_switch, _flush and _load).     *)
THEOREM UnitImplemented == Spec => KeepsUnit
<1>1. Init => Unit!Init
  BY DEF Init, Unit!Init, StackPairs, WindowPairs, ReachPairs
<1>2. SlotInv => UnitBounds /\ LoadedReached
  BY BoundsNow, LoadedNow
<1>3. SlotInv /\ SlotInv' /\ (UnitBounds /\ LoadedReached)' /\ [Next]_vars
        => [Unit!Next]_<<cur, StackPairs, WindowPairs, ReachPairs>>
  BY StepKeepsUnit
<1> QED
  BY <1>1, <1>2, <1>3, SlotInvariant, PTL DEF Spec, KeepsUnit, Unit!Spec
=============================================================================
