-------------------------------- MODULE Tlsf --------------------------------
(***************************************************************************)
(* The two-level segregated-fit heap of kernel/mem/tlsf.c.  Block headers   *)
(* are a table from addresses (blk); a free list is the sequence of its     *)
(* blocks, head first (next_free and prev_free); a bitmap is the set of its  *)
(* one bits.  Sizes and addresses are bytes, as in the code.  Each public    *)
(* operation runs under g_ulmk_lock_mem and is one step.                    *)
(***************************************************************************)
EXTENDS Integers, Sequences, FiniteSets, SequencesExt

CONSTANTS
  Base, Size,    \* the arguments of ulmk_heap_init
  FL_COUNT,      \* first-level classes (24 in the code)
  Word,          \* where uint32_t, size_t and uintptr_t wrap (2^32 in the code)
  Sizes, Aligns  \* the requests made of the heap

HDR == 64        \* TLSF_HDR
FL_BASE == 6
SL_BITS == 2
SL_COUNT == 4
Null == 0        \* no address of a block

Wrap(x) == x % Word
RoundUp(x, g) == (Wrap(x + g - 1) \div g) * g

ASSUME RequestsAssumption == Sizes \subseteq Nat \ {0} /\ Aligns \subseteq Nat \ {0}

\* ulmk_heap_init leaves a heap of no blocks when the pool has no room for
\* two headers and a payload.
ASSUME PoolAssumption ==
  Base \in Nat \ {0} /\ Size \in Nat /\ FL_COUNT \in Nat \ {0}
  /\ Base + Size - RoundUp(Base, HDR) >= 3 * HDR
  /\ Word \in Nat /\ Base + Size < Word

VARIABLES
  blk,         \* header address -> [prev_phys, size, free]
  free_lists,  \* <<fl, sl>> -> the free blocks of that class, head first
  fl_bitmap,   \* the levels with a free block
  sl_bitmap,   \* level -> its sub-classes with a free block
  free_bytes,
  asked        \* history: block -> the request it answers, [size, align]

vars == <<blk, free_lists, fl_bitmap, sl_bitmap, free_bytes, asked>>

Levels == 0 .. FL_COUNT - 1
Subs == 0 .. SL_COUNT - 1

FLS(x) == CHOOSE f \in 0 .. 30 : 2^f <= x /\ x \div 2 < 2^f
Smallest(S) == CHOOSE x \in S : \A y \in S : x <= y
Level(f) == IF f < FL_BASE THEN 0 ELSE IF f - FL_BASE >= FL_COUNT THEN FL_COUNT - 1 ELSE f - FL_BASE
SubClass(size, f) == (size \div 2^(f - SL_BITS)) % SL_COUNT

\* The class a free block of this size is filed under.
mapping_insert(size) == <<Level(FLS(size)), SubClass(size, FLS(size))>>

\* Mutant: searched in the class the size itself falls into.
SearchUnrounded(size) == mapping_insert(size)

\* The class whose every block is at least this long: the size is first
\* rounded up to the next sub-class.
SearchSize(size) == IF FLS(size) >= SL_BITS THEN RoundUp(size, 2^(FLS(size) - SL_BITS)) ELSE size
mapping_search(size) == mapping_insert(SearchSize(size))

(***************************************************************************)
(* The heap as one record h, so that the steps of an operation compose.     *)
(***************************************************************************)
Heap_ == [blk |-> blk, lists |-> free_lists, fl |-> fl_bitmap, sl |-> sl_bitmap, bytes |-> free_bytes]

Become(h) == /\ blk' = h.blk /\ free_lists' = h.lists /\ fl_bitmap' = h.fl
             /\ sl_bitmap' = h.sl /\ free_bytes' = h.bytes

blk_next(h, b) == b + HDR + h.blk[b].size

insert_free(h, b) ==
  LET c == mapping_insert(h.blk[b].size) IN
  [h EXCEPT !.lists[c] = <<b>> \o @, !.fl = @ \cup {c[1]}, !.sl[c[1]] = @ \cup {c[2]},
            !.blk[b].free = TRUE, !.bytes = @ + h.blk[b].size]

remove_free(h, b) ==
  LET c == mapping_insert(h.blk[b].size)
      rest == SelectSeq(h.lists[c], LAMBDA x : x # b)
      sub == IF rest = <<>> THEN h.sl[c[1]] \ {c[2]} ELSE h.sl[c[1]]
      levels == IF sub = {} THEN h.fl \ {c[1]} ELSE h.fl
  IN [h EXCEPT !.lists[c] = rest, !.sl[c[1]] = sub, !.fl = levels,
               !.blk[b].free = FALSE, !.bytes = @ - h.blk[b].size]

find_free_block(h, size) ==
  LET c == mapping_search(size)
      subs == {s \in h.sl[c[1]] : s >= c[2]}
      levels == {f \in h.fl : f > c[1]}
  IN IF subs # {} THEN Head(h.lists[<<c[1], Smallest(subs)>>])
     ELSE IF levels # {}
     THEN LET f == Smallest(levels) IN Head(h.lists[<<f, Smallest(h.sl[f])>>])
     ELSE Null

\* Cut block b, which is on no list, before address at: the part from at on is
\* a new block, and the block after it is told of its new predecessor.
CutAt(h, b, at) ==
  LET rest == [prev_phys |-> b, size |-> h.blk[b].size - (at - b), free |-> FALSE]
      after == blk_next(h, b)
  IN [h EXCEPT !.blk = [x \in DOMAIN @ \cup {at} |->
       CASE x = at    -> rest
         [] x = b     -> [@[b] EXCEPT !.size = at - b - HDR]
         [] x = after -> [@[after] EXCEPT !.prev_phys = at]
         [] OTHER     -> @[x]]]

\* What a block holds beyond the request goes back as a free block if it has
\* room for a header and a payload.
SplitTail(h, b, rounded) ==
  LET at == b + HDR + rounded IN
  IF h.blk[b].size >= Wrap(rounded + 2 * HDR) THEN insert_free(CutAt(h, b, at), at) ELSE h

\* Block b takes in the block that follows it.
Absorb(h, b) ==
  LET n == blk_next(h, b)
      after == blk_next(h, n)
  IN [h EXCEPT !.blk = [x \in DOMAIN @ \ {n} |->
       CASE x = b     -> [@[b] EXCEPT !.size = @ + HDR + h.blk[n].size]
         [] x = after -> [@[after] EXCEPT !.prev_phys = b]
         [] OTHER     -> @[x]]]

-----------------------------------------------------------------------------
Note(b, size, align) == asked' = (b :> [size |-> size, align |-> align]) @@ asked

\* ulmk_heap_init: one free block, and a sentinel of size 0 after it that no
\* block coalesces with.
Init ==
  LET first == RoundUp(Base, HDR)
      total == Base + Size - first
      sentinel == first + total - HDR
      header(p, s) == [prev_phys |-> p, size |-> s, free |-> FALSE]
  IN LET h == insert_free(
       [blk |-> (first :> header(Null, total - 2 * HDR)) @@ (sentinel :> header(first, 0)),
        lists |-> [c \in Levels \X Subs |-> <<>>], fl |-> {}, sl |-> [f \in Levels |-> {}],
        bytes |-> 0], first)
     IN /\ blk = h.blk /\ free_lists = h.lists /\ fl_bitmap = h.fl
        /\ sl_bitmap = h.sl /\ free_bytes = h.bytes /\ asked = <<>>

ulmk_heap_alloc(size) ==
  LET rounded == RoundUp(size, HDR)
      b == find_free_block(Heap_, rounded)
  IN /\ b # Null
     /\ Become(SplitTail(remove_free(Heap_, b), b, rounded))
     /\ Note(b, size, HDR)

\* The address handed out for an alignment beyond a header: a lead too short
\* to be a block of its own is passed over by going to the next multiple.
AlignedPayload(payload, align) ==
  LET a == RoundUp(payload, align) IN
  IF a # payload /\ a - payload < 2 * HDR THEN Wrap(a + align) ELSE a

\* Mutant: no allowance for the lead.
AlignedSearchTight(rounded, align) == Wrap(rounded + HDR)

\* The sum wraps where size and alignment are both half of all addresses.
AlignedSearch(rounded, align) == Wrap(rounded + align + HDR)

ulmk_heap_aligned_alloc(align, size) ==
  IF align <= HDR THEN ulmk_heap_alloc(size)
  ELSE LET rounded == RoundUp(size, HDR)
           b == find_free_block(Heap_, AlignedSearch(rounded, align))
           out == remove_free(Heap_, b)
           at == AlignedPayload(b + HDR, align)
           lead == insert_free(CutAt(out, b, at - HDR), b)
       IN /\ \E n \in 0 .. 30 : align = 2^n
          /\ b # Null
          /\ Become(IF at = b + HDR THEN SplitTail(out, b, rounded)
                                    ELSE SplitTail(lead, at - HDR, rounded))
          /\ Note(at - HDR, size, align)

\* Blocks in the hands of a caller, by header address.
Given == {b \in DOMAIN blk : blk[b].size > 0 /\ ~blk[b].free}

CoalesceForward(h, b) ==
  LET n == blk_next(h, b) IN
  IF h.blk[n].size > 0 /\ h.blk[n].free THEN Absorb(remove_free(h, n), b) ELSE h

CoalesceBackward(h, b) ==
  LET p == h.blk[b].prev_phys IN
  IF p # Null /\ h.blk[p].free THEN insert_free(Absorb(remove_free(h, p), p), p)
                               ELSE insert_free(h, b)

ulmk_heap_free(b) ==
  /\ b \in Given
  /\ Become(CoalesceBackward(CoalesceForward(Heap_, b), b))
  /\ asked' = [x \in DOMAIN asked \ {b} |-> asked[x]]

Next == \/ \E size \in Sizes : ulmk_heap_alloc(size)
        \/ \E size \in Sizes, align \in Aligns : ulmk_heap_aligned_alloc(align, size)
        \/ \E b \in Given : ulmk_heap_free(b)

Spec == Init /\ [][Next]_vars

-----------------------------------------------------------------------------
TypeOK ==
  /\ \A b \in DOMAIN blk : /\ b % HDR = 0 \/ blk[b].size = 0
                           /\ blk[b].prev_phys \in DOMAIN blk \cup {Null}
                           /\ blk[b].size \in Nat /\ blk[b].free \in BOOLEAN
  /\ free_lists \in [Levels \X Subs -> Seq(DOMAIN blk)]
  /\ fl_bitmap \subseteq Levels /\ sl_bitmap \in [Levels -> SUBSET Subs]
  /\ free_bytes \in Nat

\* Walking the headers by size from the first block visits every block and
\* ends in the sentinel at the end of the pool, and every header knows its
\* predecessor: whatever sequence of splits and merges happened, no byte of
\* the pool is lost or counted twice (blk_next, prev_phys).
ChainIntact ==
  LET ends == {b \in DOMAIN blk : blk[b].size = 0} IN
  /\ Cardinality(ends) = 1
  /\ \A s \in ends : s = Base + Size - HDR
  /\ \A b \in DOMAIN blk \ ends : blk_next(Heap_, b) \in DOMAIN blk
                                  /\ blk[blk_next(Heap_, b)].prev_phys = b
  /\ {b \in DOMAIN blk : blk[b].prev_phys = Null} = {RoundUp(Base, HDR)}

\* Two neighbours are never both free: every free coalesces on both sides
\* (ulmk_heap_free), also after an aligned allocation left a lead behind.
NoFreeNeighbours ==
  \A b \in DOMAIN blk : blk[b].free => ~blk[blk_next(Heap_, b)].free

\* The lists hold each free block once, in its own class, the bitmaps name
\* exactly the classes that are not empty, and free_bytes is their sum
\* (insert_free, remove_free).
ListsMatchBlocks ==
  /\ \A c \in DOMAIN free_lists :
       /\ ToSet(free_lists[c]) = {b \in DOMAIN blk : blk[b].free /\ mapping_insert(blk[b].size) = c}
       /\ Len(free_lists[c]) = Cardinality(ToSet(free_lists[c]))
       /\ (c[2] \in sl_bitmap[c[1]]) = (free_lists[c] # <<>>)
  /\ fl_bitmap = {f \in Levels : sl_bitmap[f] # {}}
  /\ free_bytes = FoldSet(LAMBDA b, n : n + blk[b].size, 0, {b \in DOMAIN blk : blk[b].free})

\* The search returns a block long enough without looking at its length, and
\* refuses only if no free block has the length rounded up to a sub-class:
\* mapping_search and mapping_insert agree on every size.
SearchFits ==
  \A rounded \in {RoundUp(s, HDR) : s \in Sizes} \cup
                 {AlignedSearch(RoundUp(s, HDR), a) : s \in Sizes, a \in Aligns} :
    LET b == find_free_block(Heap_, rounded) IN
    IF b # Null THEN blk[b].free /\ blk[b].size >= rounded
    ELSE \A x \in DOMAIN blk : blk[x].free => blk[x].size < SearchSize(rounded)

\* Chain, neighbours, lists, bitmaps and search agree after every operation
\* (the whole of tlsf_ctrl_t and the headers).
HeapIntact == TypeOK /\ ChainIntact /\ NoFreeNeighbours /\ ListsMatchBlocks /\ SearchFits

\* The heap keeps the promises of module Heap: what callers hold are disjoint,
\* aligned, long enough and unmoved pieces of the pool.
Promise == INSTANCE Heap WITH
  PoolBase <- Base, PoolEnd <- Base + Size,
  given <- {[addr |-> b + HDR, len |-> blk[b].size, size |-> asked[b].size,
             align |-> asked[b].align] : b \in Given}
KeepsPromise == Promise!Spec
=============================================================================
