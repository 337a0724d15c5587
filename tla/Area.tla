-------------------------------- MODULE Area --------------------------------
(***************************************************************************)
(* Memory areas: kernel/mem/area.c and kernel/mem/mem.c on one CPU.  Every  *)
(* thread holds a set of areas; an area is an origin (made by a mapping) or *)
(* was derived from another one by a grant or at a spawn.  Areas are not    *)
(* programmed into the protection unit when they are made: a fault looks    *)
(* the address up and loads one window of the area (live).                  *)
(*                                                                          *)
(* A set sorted by base is a set here, and the list of an area's children   *)
(* is the areas that name it as parent.  Every handler runs under           *)
(* g_ulmk_lock_area and is one step, the settling after it (mem_settle)     *)
(* included; what two CPUs can do to it in between is in module XCall.      *)
(***************************************************************************)
EXTENDS Integers, FiniteSets, FiniteSetsExt

CONSTANTS
  Threads, Idle,     \* user threads and the idle thread, which runs privileged
  Nil,               \* no thread, no record
  Records,           \* the area records the heap has room for
  Arena,             \* granules of the heap that back anonymous mappings
  Hints,             \* peripheral and shared ranges a thread may ask for: [base, size]
  Lengths,           \* lengths asked for in an anonymous mapping
  Rights,            \* permission sets, subsets of Perms
  Builds,            \* window rules of the ports: [pow2, min, max, align]
  MaxLive            \* dynamic windows the protection unit holds

Perms == {"r", "w", "x"}

ASSUME BuildAssumption ==
  \A b \in Builds : /\ b.pow2 \in BOOLEAN /\ b.min \in Nat \ {0} /\ b.max \in Nat
                    /\ b.align \in Nat \ {0} /\ b.align % b.min = 0 /\ b.max % b.min = 0
ASSUME RightsAssumption == \A p \in Rights : p \subseteq Perms
ASSUME NameAssumption == Nil \notin Threads \cup Records /\ Idle \notin Threads \cup {Nil}
ASSUME MemoryAssumption ==
  /\ Records \subseteq Nat /\ IsFiniteSet(Records) /\ MaxLive \in Nat \ {0}
  /\ Arena \subseteq Int /\ Lengths \subseteq Nat
  /\ \A h \in Hints : h.base \in Int /\ h.size \in Nat

VARIABLES
  build,   \* the port the kernel was built for
  rec,     \* area records: record -> area, or NoArea when free
  blocks,  \* backing blocks taken from the heap: [base, size]
  alive,   \* threads that exist
  cur,     \* the running thread
  owner,   \* the thread whose layout the protection unit holds, or Nil
  live     \* dynamic windows of the protection unit: [base, size, perms]

vars == <<build, rec, blocks, alive, cur, owner, live>>

NoArea == [holder |-> Nil, parent |-> Nil, base |-> 0, size |-> 0, perms |-> {}, type |-> "none", backed |-> FALSE]

Down(x, g) == (x \div g) * g
Up(x, g) == Down(x + g - 1, g)

Used(r) == {x \in Records : r[x].size > 0}
Held(r, t) == {x \in Used(r) : r[x].holder = t}
Kids(r, x) == {y \in Used(r) : r[y].parent = x}
Cells(a) == a.base .. a.base + a.size - 1

overlaps(b1, s1, b2, s2) == b1 < b2 + s2 /\ b2 < b1 + s1

\* Whether a new area of t fits among the ones it holds and a record is left.
MayInsert(r, t, base, size) ==
  /\ size > 0
  /\ \A x \in Held(r, t) : ~overlaps(r[x].base, r[x].size, base, size)
  /\ Used(r) # Records

ulmk_area_insert(r, t, base, size, perms, type, backed, parent) ==
  LET x == CHOOSE x \in Records \ Used(r) : \A y \in Records \ Used(r) : x <= y IN
  [r EXCEPT ![x] = [holder |-> t, parent |-> parent, base |-> base, size |-> size,
                    perms |-> perms, type |-> type, backed |-> backed]]

Pick(S) == IF S = {} THEN Nil ELSE CHOOSE x \in S : TRUE
ulmk_area_find(r, t, addr) == Pick({x \in Held(r, t) : addr \in Cells(r[x])})
ulmk_area_find_base(r, t, base) == Pick({x \in Held(r, t) : r[x].base = base})

\* The proper ancestors of a record: what is met on the way up from it, the
\* least set that holds its parent and the parent of every member.
ParentClosed(r, S) == \A y \in S : r[y].parent \in S \cup {Nil}
Ancestors(r, x) ==
  {a \in Used(r) : \A S \in SUBSET Used(r) :
                     r[x].parent \in S \cup {Nil} /\ ParentClosed(r, S) => a \in S}
Descendants(r, x) == {y \in Used(r) : x \in Ancestors(r, y)}

\* Mutant: an orphan is not looked at again when its last child goes.
ReleaseSetFlat(r, S) == S

\* Childless records S are freed, and with them every orphaned ancestor that
\* is left without a child: the least such set.
Bereft(r, p, G) == r[p].holder = Nil /\ Kids(r, p) # {} /\ Kids(r, p) \subseteq G
ReleaseSet(r, S) ==
  {x \in Used(r) : \A G \in SUBSET Used(r) :
                     S \subseteq G /\ (\A p \in Used(r) : Bereft(r, p, G) => p \in G) => x \in G}
release_up(r, S) ==
  LET gone == ReleaseSet(r, S) IN [x \in Records |-> IF x \in gone THEN NoArea ELSE r[x]]

\* Everything derived from a goes first, then a itself leaves its set.
ulmk_area_revoke(r, a) ==
  LET below == Descendants(r, a)
      cut == [x \in Records |-> IF x \in below THEN NoArea ELSE r[x]]
  IN release_up([cut EXCEPT ![a].holder = Nil], {a})

\* A dying holder does not revoke what it handed out.
ulmk_area_set_release(r, t) ==
  LET left == [x \in Records |-> IF x \in Held(r, t) THEN [r[x] EXCEPT !.holder = Nil] ELSE r[x]]
  IN release_up(left, {x \in Held(r, t) : Kids(r, x) = {}})

\* Every area of src for dst, in the order of their bases, each into the first
\* record that is left, up to the one that finds none.
ulmk_area_inherit(r, dst, src) ==
  LET held == Held(r, src)
      free == Records \ Used(r)
      turn(x) == Cardinality({y \in held : r[y].base < r[x].base})
      place(z) == Cardinality({y \in free : y < z})
      from(z) == CHOOSE x \in held : turn(x) = place(z)
      taken == {z \in free : place(z) < Cardinality(held)}
      alias(z) == [r[from(z)] EXCEPT !.holder = dst, !.parent = from(z), !.backed = FALSE]
  IN [z \in Records |-> IF z \in taken THEN alias(z) ELSE r[z]]

-----------------------------------------------------------------------------
(***************************************************************************)
(* Windows: what one fault loads of an area.                                *)
(***************************************************************************)
NoWindow == [base |-> 0, size |-> 0]

\* No odd number but 1 divides a power of two.
PowerOfTwo(k) == \A d \in 2 .. k : k % d = 0 => d % 2 = 0

\* The largest naturally aligned power of two around addr that stays inside.
WindowPow2(a, addr) ==
  LET block(s) == Down(addr, s)
      fits(s) == s <= a.size /\ a.base <= block(s) /\ block(s) - a.base <= a.size - s
      sizes == {s \in 1 .. a.size : s % build.min = 0 /\ PowerOfTwo(s \div build.min) /\ fits(s)}
  IN IF ~fits(build.min) THEN NoWindow ELSE [base |-> block(Max(sizes)), size |-> Max(sizes)]

\* The whole granules of the area, or at most max of them from addr on.
WindowRange(a, addr) ==
  LET lo == Up(a.base, build.min)
      hi == Down(a.base + a.size, build.min)
      from == Down(addr, build.min)
      clip == build.max > 0 /\ hi - lo > build.max
  IN IF addr < lo \/ addr >= hi THEN NoWindow
     ELSE IF ~clip THEN [base |-> lo, size |-> hi - lo]
     ELSE [base |-> from, size |-> IF hi - from > build.max THEN build.max ELSE hi - from]

ulmk_area_window(a, addr) == IF build.pow2 THEN WindowPow2(a, addr) ELSE WindowRange(a, addr)

-----------------------------------------------------------------------------
Init ==
  /\ build \in Builds
  /\ rec = [x \in Records |-> NoArea]
  /\ blocks = {}
  /\ \E root \in Threads : alive = {root}
  /\ cur = Idle /\ owner = Nil /\ live = {}

\* Mutant: no flush before the backing goes.
SettleUnflushed(r) ==
  LET gone == {x \in Used(rec) : x \notin Used(r)}
  IN /\ rec' = r
     /\ blocks' = blocks \ {[base |-> rec[x].base, size |-> rec[x].size] : x \in {y \in gone : rec[y].backed}}
     /\ UNCHANGED live

\* Replace the records by r: threads in lost have an area less, so the running
\* one loses its windows (ulmk_kern_area_dropped), and the backing of records
\* that went is freed once they are flushed (mem_settle).
Settle(r) ==
  LET gone == {x \in Used(rec) : x \notin Used(r)}
      lost == {rec[x].holder : x \in {y \in Used(rec) : rec[y].holder # r[y].holder}}
  IN /\ rec' = r
     /\ blocks' = blocks \ {[base |-> rec[x].base, size |-> rec[x].size] : x \in {y \in gone : rec[y].backed}}
     /\ live' = IF cur \in lost THEN {} ELSE live

\* ulmk_kern_mem_map of anonymous memory: a block of whole granules, given
\* back when the area cannot be recorded.
mem_map_anon(len, perms) ==
  /\ cur # Idle
  /\ LET size == Up(len, build.align) IN
     \E base \in Arena :
       /\ base % build.align = 0 /\ base .. base + size - 1 \subseteq Arena
       /\ \A b \in blocks : ~overlaps(b.base, b.size, base, size)
       /\ MayInsert(rec, cur, base, size)
       /\ rec' = ulmk_area_insert(rec, cur, base, size, perms, "heap", TRUE, Nil)
       /\ blocks' = blocks \cup {[base |-> base, size |-> size]}
  /\ UNCHANGED <<build, alive, cur, owner, live>>

\* ulmk_kern_mem_map of a peripheral or shared range: at the address asked for.
mem_map_hint(h, type, perms) ==
  /\ cur # Idle
  /\ MayInsert(rec, cur, h.base, h.size)
  /\ rec' = ulmk_area_insert(rec, cur, h.base, h.size, perms, type, FALSE, Nil)
  /\ UNCHANGED <<build, blocks, alive, cur, owner, live>>

ulmk_kern_mem_unmap(addr) ==
  /\ cur # Idle
  /\ ulmk_area_find_base(rec, cur, addr) # Nil
  /\ Settle(ulmk_area_revoke(rec, ulmk_area_find_base(rec, cur, addr)))
  /\ UNCHANGED <<build, alive, cur, owner>>

GrantType(type) == IF type = "heap" THEN "grant" ELSE type

\* Mutant: the rights asked for, whatever the granter's.
GrantUnmasked(addr, target, perms) ==
  LET x == ulmk_area_find_base(rec, cur, addr) IN
  /\ cur # Idle
  /\ target \in alive /\ x # Nil
  /\ MayInsert(rec, target, rec[x].base, rec[x].size)
  /\ rec' = ulmk_area_insert(rec, target, rec[x].base, rec[x].size, perms, GrantType(rec[x].type), FALSE, x)
  /\ UNCHANGED <<build, blocks, alive, cur, owner, live>>

\* An alias of a whole area for target, with no right the granter lacks.
ulmk_kern_mem_grant(addr, target, perms) ==
  LET x == ulmk_area_find_base(rec, cur, addr) IN
  /\ cur # Idle
  /\ target \in alive /\ x # Nil
  /\ MayInsert(rec, target, rec[x].base, rec[x].size)
  /\ rec' = ulmk_area_insert(rec, target, rec[x].base, rec[x].size, perms \cap rec[x].perms,
                             GrantType(rec[x].type), FALSE, x)
  /\ UNCHANGED <<build, blocks, alive, cur, owner, live>>

\* Mutant: anybody who holds the same base may revoke.
RevokeAny(addr, target) ==
  LET t == ulmk_area_find_base(rec, target, addr) IN
  /\ cur # Idle
  /\ target \in alive /\ t # Nil /\ ulmk_area_find_base(rec, cur, addr) # Nil
  /\ Settle(ulmk_area_revoke(rec, t))
  /\ UNCHANGED <<build, alive, cur, owner>>

\* Take an alias back from target: only one that was derived from the caller's.
ulmk_kern_mem_revoke(addr, target) ==
  LET a == ulmk_area_find_base(rec, cur, addr)
      t == ulmk_area_find_base(rec, target, addr)
  IN /\ cur # Idle
     /\ target \in alive /\ a # Nil /\ t # Nil
     /\ a \in Ancestors(rec, t)
     /\ Settle(ulmk_area_revoke(rec, t))
     /\ UNCHANGED <<build, alive, cur, owner>>

\* spawn: the new thread inherits every area or none; when the records run
\* out on the way it is taken down again.
ulmk_kern_thread_spawn(th, inherit) ==
  LET got == IF inherit THEN ulmk_area_inherit(rec, th, cur) ELSE rec
      ok == inherit => Cardinality(Held(rec, cur)) <= Cardinality(Records \ Used(rec)) IN
  /\ cur # Idle
  /\ th \notin alive
  /\ IF ok THEN rec' = got /\ alive' = alive \cup {th}
     ELSE rec' = ulmk_area_set_release(got, th) /\ UNCHANGED alive
  /\ UNCHANGED <<build, blocks, cur, owner, live>>

\* ulmk_sched_load_protection: the privileged thread leaves the windows where
\* they are and forgets whose they are; a user thread keeps only its own.
mpu_switch(th) ==
  /\ cur' = th
  /\ owner' = IF th = Idle THEN Nil ELSE th
  /\ live' = IF th \in {Idle, owner} THEN live ELSE {}

Dispatch(th) ==
  /\ th # cur
  /\ mpu_switch(th)
  /\ UNCHANGED <<build, rec, blocks, alive>>

\* kill of another thread: ulmk_thread_free releases its set.
Kill(th) ==
  /\ cur # Idle
  /\ th \in alive \ {cur}
  /\ alive' = alive \ {th}
  /\ Settle(ulmk_area_set_release(rec, th))
  /\ UNCHANGED <<build, cur, owner>>

\* exit: the next thread is loaded before the corpse is cleaned up.
Exit(next) ==
  LET r == ulmk_area_set_release(rec, cur) IN
  /\ cur # Idle
  /\ alive # {cur}
  /\ next \in (alive \ {cur}) \cup {Idle}
  /\ alive' = alive \ {cur}
  /\ rec' = r
  /\ blocks' = blocks \ {[base |-> rec[x].base, size |-> rec[x].size] :
                          x \in {y \in Used(rec) \ Used(r) : rec[y].backed}}
  /\ mpu_switch(next)
  /\ UNCHANGED build

\* ulmk_kern_mem_fault: find the area, check the access, load a window.  A
\* window that is live already is a real violation; a full unit evicts one.
ulmk_kern_mem_fault(addr, access) ==
  LET x == ulmk_area_find(rec, cur, addr)
      w == ulmk_area_window(rec[x], addr)
      win == [base |-> w.base, size |-> w.size, perms |-> rec[x].perms]
  IN /\ cur # Idle
     /\ x # Nil
     /\ access \subseteq rec[x].perms
     /\ w # NoWindow
     /\ win \notin live
     /\ \E kept \in SUBSET live : /\ Cardinality(kept) = Min({MaxLive - 1, Cardinality(live)})
                                  /\ live' = kept \cup {win}
     /\ UNCHANGED <<build, rec, blocks, alive, cur, owner>>

Next ==
  \/ \E len \in Lengths, p \in Rights : mem_map_anon(len, p)
  \/ \E h \in Hints, p \in Rights : mem_map_hint(h, "periph", p)
  \/ \E x \in Used(rec) : \/ ulmk_kern_mem_unmap(rec[x].base)
                          \/ \E th \in Threads, p \in Rights : ulmk_kern_mem_grant(rec[x].base, th, p)
                          \/ \E th \in Threads : ulmk_kern_mem_revoke(rec[x].base, th)
                          \/ \E addr \in Cells(rec[x]), p \in Rights : ulmk_kern_mem_fault(addr, p)
  \/ \E th \in Threads, inherit \in BOOLEAN : ulmk_kern_thread_spawn(th, inherit)
  \/ \E th \in alive \cup {Idle} : Dispatch(th)
  \/ \E th \in alive : Kill(th)
  \/ \E th \in alive \cup {Idle} : Exit(th)

Spec == Init /\ [][Next]_vars

-----------------------------------------------------------------------------
TypeOK ==
  /\ build \in Builds
  /\ \A x \in Used(rec) : /\ rec[x].holder \in Threads \cup {Nil}
                          /\ rec[x].parent \in Records \cup {Nil}
                          /\ rec[x].perms \subseteq Perms /\ rec[x].backed \in BOOLEAN
  /\ alive \subseteq Threads /\ cur \in alive \cup {Idle} /\ owner \in Threads \cup {Nil}
  /\ Cardinality(live) <= MaxLive

\* Areas one thread holds never overlap, so a fault resolves to one area; only
\* threads that exist hold any.
SetsDisjoint ==
  /\ \A x, y \in Used(rec) : rec[x].holder = rec[y].holder /\ rec[x].holder # Nil /\ x # y
                               => ~overlaps(rec[x].base, rec[x].size, rec[y].base, rec[y].size)
  /\ \A x \in Used(rec) : rec[x].holder \in alive \cup {Nil}

\* A derived area names a record that still exists, covers the same range and
\* has no right its parent lacks, however long the chain of grants and
\* whichever of its holders died.
DerivationSound ==
  \A x \in Used(rec) : LET p == rec[x].parent IN
    p # Nil => /\ p \in Used(rec) /\ x \notin Ancestors(rec, x)
               /\ rec[p].base = rec[x].base /\ rec[p].size = rec[x].size
               /\ rec[x].perms \subseteq rec[p].perms /\ ~rec[x].backed

\* Whatever was mapped, granted, inherited and released, the areas are a forest
\* of disjoint sets (area.c).
AreasSound == TypeOK /\ SetsDisjoint /\ DerivationSound

\* A block is taken from the heap exactly while an origin record stands for it,
\* and an orphaned record lives on only for the areas derived from it: a
\* backing is neither leaked nor freed under an alias (release_up, mem_settle).
BackingExact ==
  /\ blocks = {[base |-> rec[x].base, size |-> rec[x].size] : x \in {y \in Used(rec) : rec[y].backed}}
  /\ Cardinality(blocks) = Cardinality({x \in Used(rec) : rec[x].backed})
  /\ \A x \in Used(rec) : rec[x].holder = Nil => Kids(rec, x) # {}

\* Whatever was mapped, granted, revoked or freed since they were loaded, the
\* windows the running thread has live lie inside areas it holds now, with
\* the rights it holds now, and can be encoded by the port.
WindowsAuthorised ==
  cur # Idle => \A w \in live :
    /\ \E x \in Held(rec, cur) : /\ w.perms = rec[x].perms
                                 /\ w.base .. w.base + w.size - 1 \subseteq Cells(rec[x])
    /\ w.base % build.min = 0 /\ w.size % build.min = 0
    /\ build.pow2 => w.base % w.size = 0

\* A thread loses an area only by its own act or its death, or by the act of a
\* thread that holds an area it was derived from.
OnlyAncestorsRevoke ==
  [][\A x \in Used(rec) : LET h == rec[x].holder IN
       h # Nil /\ h # cur /\ rec'[x].holder # h /\ h \in alive'
         => \E a \in Ancestors(rec, x) : rec[a].holder = cur]_vars
=============================================================================
