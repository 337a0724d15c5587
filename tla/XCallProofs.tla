----------------------------- MODULE XCallProofs -----------------------------
(***************************************************************************)
(* Cross-CPU calls for any number of CPUs, areas and calls.  Two layers:   *)
(*                                                                         *)
(*   CallInv    kernel stacks have one of a few shapes, a request that is  *)
(*              not done is in its target's slot or run there, once, and a *)
(*              block waits to be freed in one place.  No program breaks   *)
(*              it.                                                        *)
(*   AllCovered a CPU that still reaches a block about to be freed will be *)
(*              flushed before: programs drop an area only when the last   *)
(*              drop of it is settled.                                     *)
(***************************************************************************)
EXTENDS XCall, FiniteSetTheorems, SequenceTheorems, TLAPS

Calling == Posting \cup Waiting
Serving == {"run", "ran"}

-----------------------------------------------------------------------------
(* What a frame stands on: a settle calls out, a call serves others while it *)
(* waits, and what it serves settles but calls nobody.                      *)
CallShape(c, i) ==
  stack[c][i].op \in Calling =>
    /\ stack[c][i].dst # c
    /\ i = 1 \/ (i = 2 /\ stack[c][1].op = "settle")
    /\ stack[c][i].op \in Posting => ~stack[c][i].done

RunShape(c, i) ==
  stack[c][i].op \in Serving =>
    i = 1 \/ (i \in {2, 3} /\ stack[c][i - 1].op \in Calling)

SettleShape(c, i) ==
  stack[c][i].op = "settle" =>
    /\ c \notin stack[c][i].todo
    /\ \/ i = 1
       \/ /\ i \in 2 .. 4 /\ i = Len(stack[c])
          /\ stack[c][i].todo = {} /\ stack[c][i - 1].op \in Serving

Shaped ==
  \A c \in Cpus : \A i \in 1 .. Len(stack[c]) :
    CallShape(c, i) /\ RunShape(c, i) /\ SettleShape(c, i)

(* Frame j of CPU d waits for an answer of CPU c.                           *)
IsPosted(d, j, c) ==
  /\ d \in Cpus /\ j \in 1 .. Len(stack[d]) /\ stack[d][j].op \in Waiting
  /\ stack[d][j].dst = c /\ ~stack[d][j].done

SlotFits(c) == slot[c] # Null => IsPosted(slot[c][1], slot[c][2], c)

RunFits(c, i) ==
  stack[c][i].op \in Serving =>
    LET x == stack[c][i].req
    IN  IsPosted(x[1], x[2], c) /\ stack[c][i].fn = stack[x[1]][x[2]].fn /\ slot[c] # x

RunsOnce(c, i, k) ==
  stack[c][i].op \in Serving /\ stack[c][k].op \in Serving
    /\ stack[c][i].req = stack[c][k].req => i = k

Awaited(c, i) ==
  stack[c][i].op \in Waiting /\ ~stack[c][i].done =>
    LET d == stack[c][i].dst IN
    \/ slot[d] = <<c, i>>
    \/ \E k \in 1 .. Len(stack[d]) : stack[d][k].op \in Serving /\ stack[d][k].req = <<c, i>>

Requests ==
  \A c \in Cpus :
    /\ SlotFits(c)
    /\ \A i \in 1 .. Len(stack[c]) :
         /\ RunFits(c, i) /\ Awaited(c, i)
         /\ \A k \in 1 .. Len(stack[c]) : RunsOnce(c, i, k)

(* A block to be freed is in no heap, in no thread's set and on one list.   *)
FreeFits(c, i) ==
  stack[c][i].op = "settle" => \A a \in stack[c][i].free : holds[a] = {} /\ a \notin heap

FreeOnce(c, i, d, j) ==
  stack[c][i].op = "settle" /\ stack[d][j].op = "settle" /\ (c # d \/ i # j)
    => stack[c][i].free \cap stack[d][j].free = {}

Blocks ==
  \A c \in Cpus : \A i \in 1 .. Len(stack[c]) :
    /\ FreeFits(c, i)
    /\ \A d \in Cpus : \A j \in 1 .. Len(stack[d]) : FreeOnce(c, i, d, j)

CallInv == TypeOK /\ Shaped /\ Requests /\ Blocks

(* Frame i of CPU d asks CPU c to flush its windows, and c has not yet.     *)
Unflushed(d, i, c) ==
  /\ i \in 1 .. Len(stack[d]) /\ stack[d][i].op \in Calling
  /\ stack[d][i].dst = c /\ stack[d][i].fn = "flush" /\ ~stack[d][i].done
  /\ \A k \in 1 .. Len(stack[c]) : stack[c][k].op = "ran" => stack[c][k].req # <<d, i>>

Covers(d, i) ==
  stack[d][i].op = "settle" =>
    \A a \in stack[d][i].free, c \in Cpus :
      a \in window[c] => c \in stack[d][i].todo \/ Unflushed(d, i + 1, c)

AllCovered ==
  /\ FreedUnreachable
  /\ \A d \in Cpus : \A i \in 1 .. Len(stack[d]) : Covers(d, i)

-----------------------------------------------------------------------------
(* Frames and stacks.                                                       *)

CallFrames   == [op : Calling, dst : Cpus, fn : {"kill", "flush"}, done : BOOLEAN]
RunFrames    == [op : Serving, req : Pointers, fn : {"kill", "flush"}]
SettleFrames == [op : {"settle"}, todo : SUBSET Cpus, free : SUBSET Areas]

LEMMA FrameKinds ==
  ASSUME NEW f \in Frames
  PROVE  /\ f.op \in Calling \cup Serving \cup {"settle"}
         /\ f.op \in Calling => f \in CallFrames
         /\ f.op \in Serving => f \in RunFrames
         /\ f.op = "settle" => f \in SettleFrames
  BY DEF Frames, CallFrames, RunFrames, SettleFrames, Calling, Serving, Posting, Waiting

LEMMA FramesOfKinds == CallFrames \cup RunFrames \cup SettleFrames = Frames
  BY DEF Frames, CallFrames, RunFrames, SettleFrames, Calling, Serving

(* What is left when the top frame goes, and what may be put on it.         *)
LEMMA TopGone ==
  ASSUME NEW S, NEW s \in Seq(S), Len(s) > 0, NEW b, b = SubSeq(s, 1, Len(s) - 1)
  PROVE  b \in Seq(S) /\ Len(b) = Len(s) - 1 /\ \A i \in 1 .. Len(s) - 1 : b[i] = s[i]
<1>1. PICK n : n = Len(s) - 1 /\ n \in Nat
  OBVIOUS
<1>2. \A i \in 1 .. n : s[i] \in S
  BY <1>1
<1> QED
  BY <1>1, <1>2, SubSeqProperties

LEMMA Pushed ==
  ASSUME NEW S, NEW s \in Seq(S), NEW g \in S, NEW t, t = Append(s, g)
  PROVE  /\ t \in Seq(S) /\ Len(t) = Len(s) + 1 /\ t[Len(s) + 1] = g
         /\ \A i \in 1 .. Len(s) : t[i] = s[i]
  OBVIOUS

LEMMA StackType ==
  ASSUME TypeOK, NEW c \in Cpus
  PROVE  /\ Len(stack[c]) \in Nat /\ stack[c] \in Seq(Frames)
         /\ \A i \in 1 .. Len(stack[c]) : stack[c][i] \in Frames
  BY DEF TypeOK

-----------------------------------------------------------------------------
(* The shapes of steps.  A frame stays the same when it is of the same kind *)
(* and carries the same request; a settle may have fewer CPUs to flush.     *)
Same(f, g) ==
  \/ /\ \/ f.op \in Posting /\ g.op \in Posting
        \/ f.op \in Waiting /\ g.op \in Waiting
     /\ g.dst = f.dst /\ g.fn = f.fn /\ g.done = f.done
  \/ f.op \in Serving /\ g.op \in Serving /\ g.req = f.req /\ g.fn = f.fn
  \/ f.op = "settle" /\ g.op = "settle" /\ g.free = f.free /\ g.todo \subseteq f.todo

LEMMA SameSelf ==
  ASSUME NEW f \in Frames
  PROVE  Same(f, f)
  BY FrameKinds DEF Same, Calling

Keeps(d, i) == Same(stack[d][i], stack'[d][i])

(* No frame comes or goes.                                                  *)
KeepsAll(d) ==
  Len(stack'[d]) = Len(stack[d]) /\ \A i \in 1 .. Len(stack[d]) : Keeps(d, i)

SameStacks == \A d \in Cpus : KeepsAll(d)

(* CPU c gets one more frame, g.                                            *)
Grew(c, g) ==
  /\ Len(stack'[c]) = Len(stack[c]) + 1 /\ stack'[c][Len(stack[c]) + 1] = g
  /\ \A i \in 1 .. Len(stack[c]) : Keeps(c, i)
  /\ \A d \in Cpus \ {c} : KeepsAll(d)

(* CPU c loses its top frame.                                               *)
Lost(c) ==
  /\ Len(stack'[c]) = Len(stack[c]) - 1
  /\ \A i \in 1 .. Len(stack[c]) - 1 : Keeps(c, i)

Shrank(c) == Lost(c) /\ \A d \in Cpus \ {c} : KeepsAll(d)

LEMMA OpsDiffer ==
  ASSUME NEW o
  PROVE  /\ o \in Calling <=> o \in Posting \/ o \in Waiting
         /\ o \in Posting => o \notin Waiting /\ o \notin Serving /\ o # "settle"
         /\ o \in Waiting => o \notin Posting /\ o \notin Serving /\ o # "settle"
         /\ o \in Serving => o \notin Calling /\ o # "settle"
         /\ o = "settle" => o \notin Calling /\ o \notin Serving
  BY DEF Calling, Posting, Waiting, Serving

(* What the old frame was, from the new one.                                *)
LEMMA SameKind ==
  ASSUME NEW f, NEW g, Same(f, g)
  PROVE  /\ g.op \in Posting <=> f.op \in Posting
         /\ g.op \in Waiting <=> f.op \in Waiting
         /\ g.op \in Calling <=> f.op \in Calling
         /\ g.op \in Serving <=> f.op \in Serving
         /\ g.op = "settle" <=> f.op = "settle"
         /\ f.op \in Calling => g.dst = f.dst /\ g.fn = f.fn /\ g.done = f.done
         /\ f.op \in Serving => g.req = f.req /\ g.fn = f.fn
         /\ f.op = "settle" => g.free = f.free /\ g.todo \subseteq f.todo
<1>1. PICK p, q : p = f.op /\ q = g.op
  OBVIOUS
<1> QED
  BY <1>1, OpsDiffer DEF Same

-----------------------------------------------------------------------------
(* Stacks keep their shapes.                                                *)

(* For the shape it does not matter whether a request is done.              *)
Alike(f, g) ==
  \/ Same(f, g)
  \/ f.op \in Waiting /\ g.op \in Waiting /\ g.dst = f.dst

LEMMA AlikeKind ==
  ASSUME NEW f, NEW g, Alike(f, g)
  PROVE  /\ g.op \in Posting <=> f.op \in Posting
         /\ g.op \in Calling <=> f.op \in Calling
         /\ g.op \in Serving <=> f.op \in Serving
         /\ g.op = "settle" <=> f.op = "settle"
         /\ f.op \in Calling => g.dst = f.dst
         /\ f.op \in Posting => g.done = f.done
         /\ f.op = "settle" => g.todo \subseteq f.todo
<1>1. CASE Same(f, g)
  BY <1>1, SameKind, OpsDiffer
<1>2. CASE f.op \in Waiting /\ g.op \in Waiting /\ g.dst = f.dst
  BY <1>2, OpsDiffer
<1> QED
  BY <1>1, <1>2 DEF Alike

Likes(d, i) == Alike(stack[d][i], stack'[d][i])

LikesAll(d) ==
  Len(stack'[d]) = Len(stack[d]) /\ \A i \in 1 .. Len(stack[d]) : Likes(d, i)

LEMMA KeepsLikes == \A d, i : Keeps(d, i) => Likes(d, i)
  BY DEF Keeps, Likes, Alike

LEMMA FrameShaped ==
  ASSUME NEW d \in Cpus, NEW i \in Nat \ {0}, CallShape(d, i), RunShape(d, i), SettleShape(d, i),
         Likes(d, i), i > 1 => Likes(d, i - 1), i > 1 => Likes(d, 1),
         i = 1 \/ stack[d][i].op # "settle" \/ Len(stack'[d]) = Len(stack[d])
  PROVE  CallShape(d, i)' /\ RunShape(d, i)' /\ SettleShape(d, i)'
<1>1. PICK f, g : f = stack[d][i] /\ g = stack'[d][i]
  OBVIOUS
<1>2. Alike(f, g)
  BY <1>1 DEF Likes
<1>3. /\ g.op \in Posting <=> f.op \in Posting
      /\ g.op \in Calling <=> f.op \in Calling
      /\ g.op \in Serving <=> f.op \in Serving
      /\ g.op = "settle" <=> f.op = "settle"
      /\ f.op \in Calling => g.dst = f.dst
      /\ f.op \in Posting => g.done = f.done
      /\ f.op = "settle" => g.todo \subseteq f.todo
  BY <1>2, AlikeKind
<1>4. i > 1 => /\ stack'[d][i - 1].op \in Calling <=> stack[d][i - 1].op \in Calling
               /\ stack'[d][i - 1].op \in Serving <=> stack[d][i - 1].op \in Serving
  BY AlikeKind DEF Likes
<1>5. i > 1 => (stack'[d][1].op = "settle" <=> stack[d][1].op = "settle")
  BY AlikeKind DEF Likes
<1>6. CallShape(d, i)'
  BY <1>1, <1>3, <1>5 DEF CallShape
<1>7. RunShape(d, i)'
  BY <1>1, <1>3, <1>4 DEF RunShape
<1>8. SettleShape(d, i)'
  BY <1>1, <1>3, <1>4 DEF SettleShape
<1> QED
  BY <1>6, <1>7, <1>8

(* A CPU whose frames all stay.                                             *)
LEMMA CpuShaped ==
  ASSUME TypeOK, Shaped, NEW d \in Cpus, LikesAll(d)
  PROVE  \A i \in 1 .. Len(stack'[d]) :
           CallShape(d, i)' /\ RunShape(d, i)' /\ SettleShape(d, i)'
<1> SUFFICES ASSUME NEW i \in 1 .. Len(stack'[d])
             PROVE  CallShape(d, i)' /\ RunShape(d, i)' /\ SettleShape(d, i)'
  OBVIOUS
<1>1. /\ i \in Nat \ {0} /\ Len(stack'[d]) = Len(stack[d]) /\ Likes(d, i)
      /\ i > 1 => Likes(d, i - 1) /\ Likes(d, 1)
  BY StackType DEF LikesAll
<1>2. CallShape(d, i) /\ RunShape(d, i) /\ SettleShape(d, i)
  BY <1>1 DEF Shaped
<1> QED
  BY <1>1, <1>2, FrameShaped

LEMMA SameShaped ==
  ASSUME TypeOK, Shaped, SameStacks
  PROVE  Shaped'
  BY CpuShaped, KeepsLikes DEF Shaped, SameStacks, KeepsAll, LikesAll

(* The frames a new one may be put on.                                      *)
Fits(c, g) ==
  LET n == Len(stack[c]) IN
  \/ /\ g.op \in Posting /\ g.dst # c /\ ~g.done
     /\ n = 0 \/ (n = 1 /\ stack[c][1].op = "settle")
  \/ g.op \in Serving /\ (n = 0 \/ stack[c][n].op \in Calling)
  \/ /\ g.op = "settle" /\ c \notin g.todo
     /\ n = 0 \/ (g.todo = {} /\ stack[c][n].op \in Serving)

LEMMA GrewShaped ==
  ASSUME TypeOK, Shaped, NEW c \in Cpus, NEW g, Grew(c, g), Fits(c, g)
  PROVE  Shaped'
<1>1. PICK n \in Nat : n = Len(stack[c])
  BY StackType
<1>2. Len(stack'[c]) = n + 1 /\ stack'[c][n + 1] = g
  BY <1>1 DEF Grew
<1>3. ASSUME NEW i \in 1 .. n
      PROVE  CallShape(c, i)' /\ RunShape(c, i)' /\ SettleShape(c, i)'
  <2>1. Likes(c, i) /\ (i > 1 => Likes(c, i - 1) /\ Likes(c, 1))
    BY <1>1, KeepsLikes DEF Grew
  <2>2. CallShape(c, i) /\ RunShape(c, i) /\ SettleShape(c, i)
    BY <1>1 DEF Shaped
  <2>3. i = 1 \/ stack[c][i].op # "settle"
    <3>1. PICK o : o = stack[c][n].op
      OBVIOUS
    <3>2. n > 1 => o # "settle"
      BY <1>1, <3>1, OpsDiffer DEF Fits
    <3> QED
      BY <1>1, <2>2, <3>1, <3>2 DEF SettleShape
  <2> QED
    BY <2>1, <2>2, <2>3, FrameShaped
<1>4. CallShape(c, n + 1)' /\ RunShape(c, n + 1)' /\ SettleShape(c, n + 1)'
  <2>1. PICK m : m = n + 1 /\ m \in Nat /\ m - 1 = n
    OBVIOUS
  <2>2. stack'[c][m] = g /\ Len(stack'[c]) = m
    BY <1>2, <2>1
  <2>3. n > 0 => /\ stack'[c][n].op \in Calling <=> stack[c][n].op \in Calling
                 /\ stack'[c][n].op \in Serving <=> stack[c][n].op \in Serving
                 /\ stack'[c][1].op = "settle" <=> stack[c][1].op = "settle"
    BY <1>1, SameKind DEF Grew, Keeps
  <2>4. CASE g.op \in Posting
    <3>1. g.op \in Calling /\ g.op \notin Serving /\ g.op # "settle"
      BY <2>4, OpsDiffer
    <3>2. g.dst # c /\ ~g.done /\ (m = 1 \/ (m = 2 /\ stack'[c][1].op = "settle"))
      BY <1>1, <2>1, <2>3, <3>1, OpsDiffer DEF Fits
    <3> QED
      BY <2>1, <2>2, <3>1, <3>2 DEF CallShape, RunShape, SettleShape
  <2>5. CASE g.op \in Serving
    <3>1. g.op \notin Calling /\ g.op \notin Posting /\ g.op # "settle"
      BY <2>5, OpsDiffer
    <3>2. n = 0 \/ stack[c][n].op \in Calling
      BY <1>1, <3>1 DEF Fits
    <3>3. n \in {0, 1, 2}
      <4>1. n > 0 => n \in 1 .. Len(stack[c])
        BY <1>1
      <4>2. n > 0 => CallShape(c, n)
        BY <4>1 DEF Shaped
      <4> QED
        BY <3>2, <4>2 DEF CallShape
    <3>4. m = 1 \/ (m \in {2, 3} /\ stack'[c][m - 1].op \in Calling)
      BY <2>1, <2>3, <3>2, <3>3
    <3> QED
      BY <2>1, <2>2, <3>1, <3>4 DEF CallShape, RunShape, SettleShape
  <2>6. CASE g.op = "settle"
    <3>1. g.op \notin Calling /\ g.op \notin Posting /\ g.op \notin Serving
      BY <2>6, OpsDiffer
    <3>2. c \notin g.todo /\ (n = 0 \/ (g.todo = {} /\ stack[c][n].op \in Serving))
      BY <1>1, <3>1 DEF Fits
    <3>3. n \in {0, 1, 2, 3}
      <4>1. n > 0 => n \in 1 .. Len(stack[c])
        BY <1>1
      <4>2. n > 0 => RunShape(c, n)
        BY <4>1 DEF Shaped
      <4> QED
        BY <3>2, <4>2 DEF RunShape
    <3>4. m = 1 \/ (m \in 2 .. 4 /\ g.todo = {} /\ stack'[c][m - 1].op \in Serving)
      BY <2>1, <2>3, <3>2, <3>3
    <3> QED
      BY <2>1, <2>2, <3>1, <3>2, <3>4 DEF CallShape, RunShape, SettleShape
  <2> QED
    BY <2>1, <2>4, <2>5, <2>6 DEF Fits
<1>5. \A i \in 1 .. Len(stack'[c]) : CallShape(c, i)' /\ RunShape(c, i)' /\ SettleShape(c, i)'
  BY <1>2, <1>3, <1>4
<1>6. \A d \in Cpus \ {c} : LikesAll(d)
  BY KeepsLikes DEF Grew, KeepsAll, LikesAll
<1> QED
  BY <1>5, <1>6, CpuShaped DEF Shaped

LEMMA LostShaped ==
  ASSUME TypeOK, Shaped, NEW c \in Cpus, Lost(c), Len(stack[c]) > 0
  PROVE  \A i \in 1 .. Len(stack'[c]) : CallShape(c, i)' /\ RunShape(c, i)' /\ SettleShape(c, i)'
<1> SUFFICES ASSUME NEW i \in 1 .. Len(stack'[c])
             PROVE  CallShape(c, i)' /\ RunShape(c, i)' /\ SettleShape(c, i)'
  OBVIOUS
<1>1. /\ i \in Nat \ {0} /\ i < Len(stack[c]) /\ i \in 1 .. Len(stack[c]) /\ Likes(c, i)
      /\ i > 1 => Likes(c, i - 1) /\ Likes(c, 1)
  BY StackType, KeepsLikes DEF Lost
<1>2. CallShape(c, i) /\ RunShape(c, i) /\ SettleShape(c, i)
  BY <1>1 DEF Shaped
<1>3. i = 1 \/ stack[c][i].op # "settle"
  BY <1>1, <1>2, StackType DEF SettleShape
<1> QED
  BY <1>1, <1>2, <1>3, FrameShaped

LEMMA ShrankShaped ==
  ASSUME TypeOK, Shaped, NEW c \in Cpus, Lost(c), Len(stack[c]) > 0,
         \A d \in Cpus \ {c} : LikesAll(d)
  PROVE  Shaped'
  BY CpuShaped, LostShaped DEF Shaped

-----------------------------------------------------------------------------
(* Requests keep their one place.                                           *)

(* The frames that requests depend on.                                      *)
Matters(f) == f.op \in Serving \/ (f.op \in Waiting /\ ~f.done)

LEMMA SameMatters ==
  ASSUME NEW f, NEW g, Same(f, g)
  PROVE  Matters(f) <=> Matters(g)
<1>1. f.op \in Waiting => f.op \in Calling
  BY OpsDiffer
<1> QED
  BY <1>1, SameKind DEF Matters

LEMMA PostedKept ==
  ASSUME NEW d, NEW j, NEW c, IsPosted(d, j, c), j \in 1 .. Len(stack'[d]), Keeps(d, j)
  PROVE  IsPosted(d, j, c)' /\ stack'[d][j].fn = stack[d][j].fn
<1>1. PICK f, g : f = stack[d][j] /\ g = stack'[d][j]
  OBVIOUS
<1>2. Same(f, g) /\ f.op \in Waiting /\ f.op \in Calling
  BY <1>1, OpsDiffer DEF Keeps, IsPosted
<1>3. g.op \in Waiting /\ g.dst = f.dst /\ g.fn = f.fn /\ g.done = f.done
  BY <1>2, SameKind
<1> QED
  BY <1>1, <1>3 DEF IsPosted

LEMMA PointerType ==
  ASSUME TypeOK, Requests, NEW c \in Cpus, NEW i \in 1 .. Len(stack[c]), stack[c][i].op \in Serving
  PROVE  /\ stack[c][i].req \in Pointers
         /\ stack[c][i].req = <<stack[c][i].req[1], stack[c][i].req[2]>>
<1>1. stack[c][i] \in RunFrames
  BY StackType, FrameKinds
<1> QED
  BY <1>1 DEF RunFrames, Pointers

(* Every frame that matters stays, and no other comes.                      *)
QuietStacks ==
  /\ \A d \in Cpus : \A i \in 1 .. Len(stack[d]) :
       Matters(stack[d][i]) => i \in 1 .. Len(stack'[d]) /\ Keeps(d, i)
  /\ \A d \in Cpus : \A i \in 1 .. Len(stack'[d]) :
       Matters(stack'[d][i]) => i \in 1 .. Len(stack[d]) /\ Keeps(d, i)

LEMMA QuietRequests ==
  ASSUME TypeOK, Requests, UNCHANGED slot, QuietStacks
  PROVE  Requests'
<1>1. ASSUME NEW d, NEW j, NEW c, IsPosted(d, j, c)
      PROVE  IsPosted(d, j, c)' /\ stack'[d][j].fn = stack[d][j].fn
  <2>1. d \in Cpus /\ j \in 1 .. Len(stack[d]) /\ Matters(stack[d][j])
    BY <1>1 DEF IsPosted, Matters
  <2>2. j \in 1 .. Len(stack'[d]) /\ Keeps(d, j)
    BY <2>1 DEF QuietStacks
  <2> QED
    BY <1>1, <2>2, PostedKept
<1> SUFFICES ASSUME NEW c \in Cpus
             PROVE  /\ SlotFits(c)'
                    /\ \A i \in 1 .. Len(stack'[c]) :
                         /\ RunFits(c, i)' /\ Awaited(c, i)'
                         /\ \A k \in 1 .. Len(stack'[c]) : RunsOnce(c, i, k)'
  BY DEF Requests
<1>2. SlotFits(c)'
  BY <1>1 DEF Requests, SlotFits
<1>3. ASSUME NEW i \in 1 .. Len(stack'[c]), Matters(stack'[c][i])
      PROVE  i \in 1 .. Len(stack[c]) /\ Keeps(c, i) /\ Same(stack[c][i], stack'[c][i])
  BY <1>3 DEF QuietStacks, Keeps
<1>4. ASSUME NEW i \in 1 .. Len(stack'[c])
      PROVE  RunFits(c, i)'
  <2> SUFFICES ASSUME stack'[c][i].op \in Serving
               PROVE  RunFits(c, i)'
    BY DEF RunFits
  <2>1. i \in 1 .. Len(stack[c]) /\ Same(stack[c][i], stack'[c][i])
    BY <1>3 DEF Matters
  <2>2. PICK x : x = stack[c][i].req
    OBVIOUS
  <2>3. stack[c][i].op \in Serving /\ stack'[c][i].req = x /\ stack'[c][i].fn = stack[c][i].fn
    BY <2>1, <2>2, SameKind
  <2>4. RunFits(c, i)
    BY <2>1 DEF Requests
  <2>5. IsPosted(x[1], x[2], c) /\ stack[c][i].fn = stack[x[1]][x[2]].fn /\ slot[c] # x
    BY <2>2, <2>3, <2>4 DEF RunFits
  <2> QED
    BY <1>1, <2>3, <2>5 DEF RunFits
<1>5. ASSUME NEW i \in 1 .. Len(stack'[c])
      PROVE  Awaited(c, i)'
  <2> SUFFICES ASSUME stack'[c][i].op \in Waiting, ~stack'[c][i].done
               PROVE  Awaited(c, i)'
    BY DEF Awaited
  <2>1. i \in 1 .. Len(stack[c]) /\ Same(stack[c][i], stack'[c][i])
    BY <1>3 DEF Matters
  <2>2. /\ stack[c][i].op \in Waiting /\ ~stack[c][i].done
        /\ stack'[c][i].dst = stack[c][i].dst
    BY <2>1, SameKind, OpsDiffer
  <2>3. PICK d \in Cpus : d = stack[c][i].dst
    <3>1. stack[c][i] \in CallFrames
      BY <2>1, <2>2, StackType, FrameKinds, OpsDiffer
    <3> QED
      BY <3>1 DEF CallFrames
  <2>4. CASE slot[d] = <<c, i>>
    BY <2>2, <2>3, <2>4 DEF Awaited
  <2>5. ASSUME NEW k \in 1 .. Len(stack[d]), stack[d][k].op \in Serving, stack[d][k].req = <<c, i>>
        PROVE  Awaited(c, i)'
    <3>1. k \in 1 .. Len(stack'[d]) /\ Same(stack[d][k], stack'[d][k])
      BY <2>5 DEF QuietStacks, Matters, Keeps
    <3>2. stack'[d][k].op \in Serving /\ stack'[d][k].req = <<c, i>>
      BY <2>5, <3>1, SameKind
    <3> QED
      BY <2>2, <2>3, <3>1, <3>2 DEF Awaited
  <2>6. Awaited(c, i)
    BY <2>1 DEF Requests
  <2> QED
    BY <2>2, <2>3, <2>4, <2>5, <2>6 DEF Awaited
<1>6. ASSUME NEW i \in 1 .. Len(stack'[c]), NEW k \in 1 .. Len(stack'[c])
      PROVE  RunsOnce(c, i, k)'
  <2> SUFFICES ASSUME stack'[c][i].op \in Serving, stack'[c][k].op \in Serving,
                      stack'[c][i].req = stack'[c][k].req
               PROVE  i = k
    BY DEF RunsOnce
  <2>1. /\ i \in 1 .. Len(stack[c]) /\ Same(stack[c][i], stack'[c][i])
        /\ k \in 1 .. Len(stack[c]) /\ Same(stack[c][k], stack'[c][k])
    BY <1>3 DEF Matters
  <2>2. /\ stack[c][i].op \in Serving /\ stack[c][k].op \in Serving
        /\ stack[c][i].req = stack[c][k].req
    BY <2>1, SameKind
  <2> QED
    BY <2>1, <2>2 DEF Requests, RunsOnce
<1> QED
  BY <1>2, <1>4, <1>5, <1>6

LEMMA SameQuiet ==
  ASSUME SameStacks
  PROVE  QuietStacks
  BY SameMatters DEF SameStacks, KeepsAll, Keeps, QuietStacks

LEMMA GrewQuiet ==
  ASSUME TypeOK, NEW c \in Cpus, NEW g, Grew(c, g), ~Matters(g)
  PROVE  QuietStacks
<1>1. PICK n \in Nat : n = Len(stack[c])
  BY StackType
<1>2. ASSUME NEW d \in Cpus, NEW i \in 1 .. Len(stack[d])
      PROVE  i \in 1 .. Len(stack'[d]) /\ Keeps(d, i)
  BY <1>1 DEF Grew, KeepsAll
<1>3. ASSUME NEW d \in Cpus, NEW i \in 1 .. Len(stack'[d]), Matters(stack'[d][i])
      PROVE  i \in 1 .. Len(stack[d]) /\ Keeps(d, i)
  <2>1. CASE d = c
    BY <1>1, <1>3, <2>1 DEF Grew
  <2>2. CASE d # c
    BY <2>2 DEF Grew, KeepsAll
  <2> QED
    BY <2>1, <2>2
<1> QED
  BY <1>2, <1>3 DEF QuietStacks

LEMMA ShrankQuiet ==
  ASSUME TypeOK, NEW c \in Cpus, Shrank(c), Len(stack[c]) > 0, ~Matters(Top(c))
  PROVE  QuietStacks
<1>1. PICK n \in Nat : n = Len(stack[c])
  BY StackType
<1>2. ASSUME NEW d \in Cpus, NEW i \in 1 .. Len(stack'[d])
      PROVE  i \in 1 .. Len(stack[d]) /\ Keeps(d, i)
  BY <1>1 DEF Shrank, Lost, KeepsAll
<1>3. ASSUME NEW d \in Cpus, NEW i \in 1 .. Len(stack[d]), Matters(stack[d][i])
      PROVE  i \in 1 .. Len(stack'[d]) /\ Keeps(d, i)
  <2>1. CASE d = c
    BY <1>1, <1>3, <2>1 DEF Shrank, Lost, Top
  <2>2. CASE d # c
    BY <2>2 DEF Shrank, KeepsAll
  <2> QED
    BY <2>1, <2>2
<1> QED
  BY <1>2, <1>3 DEF QuietStacks

(* A request goes from the slot to the stack of the CPU that serves it.     *)
LEMMA TakenRequests ==
  ASSUME TypeOK, Requests, NEW c \in Cpus, NEW x, x = slot[c], x # Null,
         NEW g, g = RunFrame(x, stack[x[1]][x[2]].fn), Grew(c, g), slot' = Take(c)
  PROVE  Requests'
<1>1. PICK n \in Nat : n = Len(stack[c])
  BY StackType
<1>2. Len(stack'[c]) = n + 1 /\ stack'[c][n + 1] = g
  BY <1>1 DEF Grew
<1>3. g.op \in Serving /\ g.op \notin Waiting /\ g.req = x /\ g.fn = stack[x[1]][x[2]].fn
  BY DEF RunFrame, Serving, Waiting
<1>4. /\ slot'[c] = Null /\ \A d \in Cpus \ {c} : slot'[d] = slot[d]
      /\ x \in Pointers /\ Null \notin Pointers
  BY CpusAssumption DEF Take, TypeOK, Pointers
<1>5. ASSUME NEW d \in Cpus, NEW i \in 1 .. Len(stack[d])
      PROVE  i \in 1 .. Len(stack'[d]) /\ Keeps(d, i) /\ Same(stack[d][i], stack'[d][i])
  BY <1>1 DEF Grew, KeepsAll, Keeps
<1>6. ASSUME NEW d, NEW j, NEW b, IsPosted(d, j, b)
      PROVE  IsPosted(d, j, b)' /\ stack'[d][j].fn = stack[d][j].fn
  <2>1. d \in Cpus /\ j \in 1 .. Len(stack[d])
    BY <1>6 DEF IsPosted
  <2> QED
    BY <1>5, <1>6, <2>1, PostedKept
<1>7. IsPosted(x[1], x[2], c)
  BY DEF Requests, SlotFits
<1> SUFFICES ASSUME NEW d \in Cpus
             PROVE  /\ SlotFits(d)'
                    /\ \A i \in 1 .. Len(stack'[d]) :
                         /\ RunFits(d, i)' /\ Awaited(d, i)'
                         /\ \A k \in 1 .. Len(stack'[d]) : RunsOnce(d, i, k)'
  BY DEF Requests
<1>8. SlotFits(d)'
  BY <1>4, <1>6 DEF Requests, SlotFits
<1>9. ASSUME NEW i \in 1 .. Len(stack'[d])
      PROVE  i \in 1 .. Len(stack[d]) \/ (d = c /\ i = n + 1)
  BY <1>1, <1>2 DEF Grew, KeepsAll
<1>10. ASSUME NEW i \in 1 .. Len(stack'[d])
       PROVE  RunFits(d, i)'
  <2>1. CASE i \in 1 .. Len(stack[d])
    <3> SUFFICES ASSUME stack'[d][i].op \in Serving
                 PROVE  RunFits(d, i)'
      BY DEF RunFits
    <3>1. PICK y : y = stack[d][i].req
      OBVIOUS
    <3>2. stack[d][i].op \in Serving /\ stack'[d][i].req = y /\ stack'[d][i].fn = stack[d][i].fn
      BY <1>5, <2>1, <3>1, SameKind
    <3>3. RunFits(d, i)
      BY <2>1 DEF Requests
    <3>4. IsPosted(y[1], y[2], d) /\ stack[d][i].fn = stack[y[1]][y[2]].fn /\ slot[d] # y
      BY <3>1, <3>2, <3>3 DEF RunFits
    <3>5. y \in Pointers
      BY <2>1, <3>1, <3>2, PointerType
    <3>6. slot'[d] # y
      BY <1>4, <3>4, <3>5
    <3> QED
      BY <1>6, <3>2, <3>4, <3>6 DEF RunFits
  <2>2. CASE d = c /\ i = n + 1
    <3>1. stack'[c][i] = g
      BY <1>2, <2>2
    <3>2. slot'[d] # x
      BY <1>4, <2>2
    <3>3. stack'[d][i].req = x /\ stack'[d][i].fn = stack[x[1]][x[2]].fn
      BY <1>3, <2>2, <3>1
    <3>4. IsPosted(x[1], x[2], d)' /\ stack'[x[1]][x[2]].fn = stack[x[1]][x[2]].fn
      BY <1>6, <1>7, <2>2
    <3> QED
      BY <3>2, <3>3, <3>4 DEF RunFits
  <2> QED
    BY <1>9, <2>1, <2>2
<1>11. ASSUME NEW i \in 1 .. Len(stack'[d])
       PROVE  Awaited(d, i)'
  <2> SUFFICES ASSUME stack'[d][i].op \in Waiting, ~stack'[d][i].done
               PROVE  Awaited(d, i)'
    BY DEF Awaited
  <2>1. i \in 1 .. Len(stack[d])
    BY <1>2, <1>3, <1>9
  <2>2. /\ stack[d][i].op \in Waiting /\ ~stack[d][i].done
        /\ stack'[d][i].dst = stack[d][i].dst
    BY <1>5, <2>1, SameKind, OpsDiffer
  <2>3. PICK e \in Cpus : e = stack[d][i].dst
    <3>1. stack[d][i] \in CallFrames
      BY <2>1, <2>2, StackType, FrameKinds, OpsDiffer
    <3> QED
      BY <3>1 DEF CallFrames
  <2>4. CASE slot[e] = <<d, i>> /\ e = c
    <3>1. PICK k : k = n + 1
      OBVIOUS
    <3>2. k \in 1 .. Len(stack'[e]) /\ stack'[e][k] = g
      BY <1>2, <2>4, <3>1
    <3>3. x = <<d, i>>
      BY <2>4
    <3>4. stack'[e][k].op \in Serving /\ stack'[e][k].req = <<d, i>>
      BY <1>3, <3>2, <3>3
    <3> QED
      BY <2>2, <2>3, <3>2, <3>4 DEF Awaited
  <2>5. CASE slot[e] = <<d, i>> /\ e # c
    BY <1>4, <2>2, <2>3, <2>5 DEF Awaited
  <2>6. ASSUME NEW k \in 1 .. Len(stack[e]), stack[e][k].op \in Serving, stack[e][k].req = <<d, i>>
        PROVE  Awaited(d, i)'
    <3>1. k \in 1 .. Len(stack'[e]) /\ stack'[e][k].op \in Serving /\ stack'[e][k].req = <<d, i>>
      BY <1>5, <2>6, SameKind
    <3> QED
      BY <2>2, <2>3, <3>1 DEF Awaited
  <2>7. Awaited(d, i)
    BY <2>1 DEF Requests
  <2> QED
    BY <2>2, <2>3, <2>4, <2>5, <2>6, <2>7 DEF Awaited
<1>12. ASSUME NEW i \in 1 .. Len(stack[d]), stack'[d][i].op \in Serving
       PROVE  /\ stack[d][i].op \in Serving /\ stack[d][i].req = stack'[d][i].req
              /\ d = c => stack'[d][i].req # x
  <2>1. stack[d][i].op \in Serving /\ stack[d][i].req = stack'[d][i].req
    BY <1>5, <1>12, SameKind
  <2>2. RunFits(d, i)
    BY DEF Requests
  <2> QED
    BY <2>1, <2>2 DEF RunFits
<1>13. ASSUME NEW i \in 1 .. Len(stack'[d]), NEW k \in 1 .. Len(stack'[d])
       PROVE  RunsOnce(d, i, k)'
  <2> SUFFICES ASSUME stack'[d][i].op \in Serving, stack'[d][k].op \in Serving,
                      stack'[d][i].req = stack'[d][k].req
               PROVE  i = k
    BY DEF RunsOnce
  <2>1. CASE i \in 1 .. Len(stack[d]) /\ k \in 1 .. Len(stack[d])
    BY <1>12, <2>1 DEF Requests, RunsOnce
  <2>2. CASE ~(i \in 1 .. Len(stack[d]) /\ k \in 1 .. Len(stack[d]))
    <3>1. d = c
      BY <1>9, <2>2
    <3>2. stack'[d][n + 1].req = x
      BY <1>2, <1>3, <3>1
    <3> QED
      BY <1>9, <1>12, <2>2, <3>1, <3>2
  <2> QED
    BY <2>1, <2>2
<1> QED
  BY <1>8, <1>10, <1>11, <1>13

(* The top frame of CPU c turns from posting to waiting, and is in the slot *)
(* of its target.                                                           *)
PutInSlot(c, n, d) ==
  /\ stack[c][n].op \in Posting /\ stack'[c][n].op \in Waiting
  /\ stack[c][n].dst = d /\ stack'[c][n].dst = d
  /\ ~stack'[c][n].done /\ stack'[c][n].fn = stack[c][n].fn
  /\ slot[d] = Null /\ slot' = [slot EXCEPT ![d] = <<c, n>>]

AllBut(c, n) ==
  \A e \in Cpus :
    /\ Len(stack'[e]) = Len(stack[e])
    /\ \A i \in 1 .. Len(stack[e]) : e # c \/ i # n => Keeps(e, i)

LEMMA PutRequests ==
  ASSUME TypeOK, Requests, NEW c \in Cpus, NEW n \in 1 .. Len(stack[c]), NEW d \in Cpus,
         PutInSlot(c, n, d), AllBut(c, n)
  PROVE  Requests'
<1>1. /\ slot'[d] = <<c, n>> /\ slot[d] = Null /\ \A e \in Cpus \ {d} : slot'[e] = slot[e]
      /\ Null \notin Pointers
  BY CpusAssumption DEF PutInSlot, TypeOK, Pointers
<1>2. stack[c][n].op \notin Waiting /\ stack'[c][n].op \notin Serving /\ stack[c][n].op \notin Serving
  BY OpsDiffer DEF PutInSlot
<1>3. ASSUME NEW e, NEW j, NEW b, IsPosted(e, j, b)
      PROVE  /\ IsPosted(e, j, b)' /\ stack'[e][j].fn = stack[e][j].fn
             /\ e # c \/ j # n
  <2>1. e \in Cpus /\ j \in 1 .. Len(stack[e]) /\ (e # c \/ j # n)
    BY <1>2, <1>3 DEF IsPosted
  <2>2. j \in 1 .. Len(stack'[e]) /\ Keeps(e, j)
    BY <2>1 DEF AllBut
  <2> QED
    BY <1>3, <2>1, <2>2, PostedKept
<1>4. IsPosted(c, n, d)'
  BY DEF IsPosted, PutInSlot, AllBut
<1> SUFFICES ASSUME NEW e \in Cpus
             PROVE  /\ SlotFits(e)'
                    /\ \A i \in 1 .. Len(stack'[e]) :
                         /\ RunFits(e, i)' /\ Awaited(e, i)'
                         /\ \A k \in 1 .. Len(stack'[e]) : RunsOnce(e, i, k)'
  BY DEF Requests
<1>5. SlotFits(e)'
  <2>1. CASE e = d
    BY <1>1, <1>4, <2>1 DEF SlotFits
  <2>2. CASE e # d
    BY <1>1, <1>3, <2>2 DEF Requests, SlotFits
  <2> QED
    BY <2>1, <2>2
<1>6. ASSUME NEW i \in 1 .. Len(stack'[e])
      PROVE  /\ i \in 1 .. Len(stack[e])
             /\ e # c \/ i # n => Same(stack[e][i], stack'[e][i])
  BY DEF AllBut, Keeps
<1>7. ASSUME NEW i \in 1 .. Len(stack'[e]), stack'[e][i].op \in Serving
      PROVE  /\ stack[e][i].op \in Serving /\ stack'[e][i].req = stack[e][i].req
             /\ stack'[e][i].fn = stack[e][i].fn
  <2>1. e # c \/ i # n
    BY <1>2, <1>7
  <2> QED
    BY <1>6, <1>7, <2>1, SameKind
<1>8. ASSUME NEW i \in 1 .. Len(stack'[e])
      PROVE  RunFits(e, i)'
  <2> SUFFICES ASSUME stack'[e][i].op \in Serving
               PROVE  RunFits(e, i)'
    BY DEF RunFits
  <2>1. PICK y : y = stack[e][i].req
    OBVIOUS
  <2>2. stack[e][i].op \in Serving /\ stack'[e][i].req = y /\ stack'[e][i].fn = stack[e][i].fn
    BY <1>7, <2>1
  <2>3. RunFits(e, i)
    BY <1>6 DEF Requests
  <2>4. IsPosted(y[1], y[2], e) /\ stack[e][i].fn = stack[y[1]][y[2]].fn /\ slot[e] # y
    BY <2>1, <2>2, <2>3 DEF RunFits
  <2>5. y # <<c, n>>
    BY <1>3, <2>4
  <2>6. slot'[e] # y
    BY <1>1, <2>4, <2>5
  <2> QED
    BY <1>3, <2>2, <2>4, <2>6 DEF RunFits
<1>9. ASSUME NEW i \in 1 .. Len(stack'[e])
      PROVE  Awaited(e, i)'
  <2>1. CASE e = c /\ i = n
    BY <1>1, <2>1 DEF Awaited, PutInSlot
  <2>2. CASE e # c \/ i # n
    <3> SUFFICES ASSUME stack'[e][i].op \in Waiting, ~stack'[e][i].done
                 PROVE  Awaited(e, i)'
      BY DEF Awaited
    <3>1. /\ stack[e][i].op \in Waiting /\ ~stack[e][i].done
          /\ stack'[e][i].dst = stack[e][i].dst
      BY <1>6, <2>2, SameKind, OpsDiffer
    <3>2. PICK b \in Cpus : b = stack[e][i].dst
      <4>1. stack[e][i] \in CallFrames
        BY <1>6, <3>1, StackType, FrameKinds, OpsDiffer
      <4> QED
        BY <4>1 DEF CallFrames
    <3>3. CASE slot[b] = <<e, i>>
      <4>1. i \in Nat /\ <<e, i>> \in Pointers
        BY <1>6, StackType DEF Pointers
      <4>2. b # d
        BY <1>1, <3>3, <4>1
      <4> QED
        BY <1>1, <3>1, <3>2, <3>3, <4>2 DEF Awaited
    <3>4. ASSUME NEW k \in 1 .. Len(stack[b]), stack[b][k].op \in Serving, stack[b][k].req = <<e, i>>
          PROVE  Awaited(e, i)'
      <4>1. b # c \/ k # n
        BY <1>2, <3>4
      <4>2. k \in 1 .. Len(stack'[b]) /\ Same(stack[b][k], stack'[b][k])
        BY <4>1 DEF AllBut, Keeps
      <4>3. stack'[b][k].op \in Serving /\ stack'[b][k].req = <<e, i>>
        BY <3>4, <4>2, SameKind
      <4> QED
        BY <3>1, <3>2, <4>2, <4>3 DEF Awaited
    <3>5. Awaited(e, i)
      BY <1>6 DEF Requests
    <3> QED
      BY <3>1, <3>2, <3>3, <3>4, <3>5 DEF Awaited
  <2> QED
    BY <2>1, <2>2
<1>10. ASSUME NEW i \in 1 .. Len(stack'[e]), NEW k \in 1 .. Len(stack'[e])
       PROVE  RunsOnce(e, i, k)'
  BY <1>6, <1>7 DEF Requests, RunsOnce
<1> QED
  BY <1>5, <1>8, <1>9, <1>10

LEMMA ServedIsPosted ==
  ASSUME Requests, NEW c \in Cpus, NEW n \in 1 .. Len(stack[c]), stack[c][n].op \in Serving,
         NEW d, NEW j, stack[c][n].req = <<d, j>>
  PROVE  IsPosted(d, j, c) /\ stack[c][n].fn = stack[d][j].fn /\ slot[c] # <<d, j>>
<1>1. RunFits(c, n)
  BY DEF Requests
<1>2. PICK x : x = <<d, j>>
  OBVIOUS
<1>3. x[1] = d /\ x[2] = j /\ stack[c][n].req = x
  BY <1>2
<1> QED
  BY <1>1, <1>2, <1>3 DEF RunFits

(* CPU c has served the request of frame j of CPU d, and says so in it.     *)
Answers(c, d, j) ==
  /\ Len(stack[c]) > 0 /\ Top(c).op \in Serving /\ Top(c).req = <<d, j>>
  /\ d \in Cpus /\ d # c /\ j \in 1 .. Len(stack[d])
  /\ Lost(c)
  /\ \A e \in Cpus \ {c} :
       /\ Len(stack'[e]) = Len(stack[e])
       /\ \A i \in 1 .. Len(stack[e]) : e # d \/ i # j => Keeps(e, i)
  /\ stack'[d][j].op = stack[d][j].op /\ stack'[d][j].dst = stack[d][j].dst
  /\ stack'[d][j].done = TRUE

LEMMA AnswersRequests ==
  ASSUME TypeOK, Requests, NEW c \in Cpus, NEW d, NEW j, Answers(c, d, j), UNCHANGED slot
  PROVE  Requests'
<1>1. PICK n \in Nat : n = Len(stack[c]) /\ n \in 1 .. Len(stack[c])
  BY StackType DEF Answers
<1>2. stack[c][n].op \in Serving /\ stack[c][n].req = <<d, j>>
  BY <1>1 DEF Answers, Top
<1>3. IsPosted(d, j, c) /\ slot[c] # <<d, j>>
  BY <1>1, <1>2, ServedIsPosted
<1>4. ASSUME NEW b \in Cpus, IsPosted(d, j, b)
      PROVE  b = c
  BY <1>3, <1>4 DEF IsPosted
<1>5. ASSUME NEW e \in Cpus, NEW i \in 1 .. Len(stack[e]), e # c \/ i # n, e # d \/ i # j
      PROVE  i \in 1 .. Len(stack'[e]) /\ Keeps(e, i) /\ Same(stack[e][i], stack'[e][i])
  BY <1>1, <1>5 DEF Answers, Lost, Keeps
<1>6. ASSUME NEW e, NEW i, NEW b, IsPosted(e, i, b), e # d \/ i # j
      PROVE  IsPosted(e, i, b)' /\ stack'[e][i].fn = stack[e][i].fn
  <2>1. e \in Cpus /\ i \in 1 .. Len(stack[e]) /\ (e # c \/ i # n)
    BY <1>2, <1>6, OpsDiffer DEF IsPosted
  <2> QED
    BY <1>5, <1>6, <2>1, PostedKept
<1>7. stack[d][j].op \in Waiting /\ stack'[d][j].op \in Waiting /\ stack'[d][j].done
      /\ stack[d][j].op \notin Serving /\ stack'[d][j].op \notin Serving
  BY <1>3, OpsDiffer DEF IsPosted, Answers
<1> SUFFICES ASSUME NEW e \in Cpus
             PROVE  /\ SlotFits(e)'
                    /\ \A i \in 1 .. Len(stack'[e]) :
                         /\ RunFits(e, i)' /\ Awaited(e, i)'
                         /\ \A k \in 1 .. Len(stack'[e]) : RunsOnce(e, i, k)'
  BY DEF Requests
<1>8. SlotFits(e)'
  <2> SUFFICES ASSUME slot[e] # Null
               PROVE  SlotFits(e)'
    BY DEF SlotFits
  <2>1. IsPosted(slot[e][1], slot[e][2], e)
    BY DEF Requests, SlotFits
  <2>2. slot[e] = <<slot[e][1], slot[e][2]>>
    BY DEF TypeOK, Pointers
  <2>3. slot[e][1] # d \/ slot[e][2] # j
    BY <1>3, <1>4, <2>1, <2>2
  <2> QED
    BY <1>6, <2>1, <2>3 DEF SlotFits
<1>9. ASSUME NEW i \in 1 .. Len(stack'[e])
      PROVE  i \in 1 .. Len(stack[e]) /\ (e # c \/ i # n)
  BY <1>1 DEF Answers, Lost
<1>10. ASSUME NEW i \in 1 .. Len(stack'[e]), stack'[e][i].op \in Serving
       PROVE  /\ stack[e][i].op \in Serving /\ stack'[e][i].req = stack[e][i].req
              /\ stack'[e][i].fn = stack[e][i].fn /\ i \in 1 .. Len(stack[e])
  <2>1. e # d \/ i # j
    BY <1>7, <1>10
  <2> QED
    BY <1>5, <1>9, <1>10, <2>1, SameKind
<1>11. ASSUME NEW i \in 1 .. Len(stack'[e])
       PROVE  RunFits(e, i)'
  <2> SUFFICES ASSUME stack'[e][i].op \in Serving
               PROVE  RunFits(e, i)'
    BY DEF RunFits
  <2>1. PICK y : y = stack[e][i].req
    OBVIOUS
  <2>2. stack[e][i].op \in Serving /\ stack'[e][i].req = y /\ stack'[e][i].fn = stack[e][i].fn
        /\ i \in 1 .. Len(stack[e])
    BY <1>10, <2>1
  <2>3. RunFits(e, i)
    BY <2>2 DEF Requests
  <2>4. IsPosted(y[1], y[2], e) /\ stack[e][i].fn = stack[y[1]][y[2]].fn /\ slot[e] # y
    BY <2>1, <2>2, <2>3 DEF RunFits
  <2>5. y = <<y[1], y[2]>>
    BY <2>1, <2>2, PointerType
  <2>6. y[1] # d \/ y[2] # j
    <3> SUFFICES ASSUME y[1] = d, y[2] = j
                 PROVE  FALSE
      OBVIOUS
    <3>1. e = c /\ y = <<d, j>>
      BY <1>4, <2>4, <2>5
    <3>2. RunsOnce(c, i, n)
      BY <1>1, <2>2, <3>1 DEF Requests
    <3> QED
      BY <1>2, <1>9, <2>1, <2>2, <3>1, <3>2 DEF RunsOnce
  <2> QED
    BY <1>6, <2>2, <2>4, <2>6 DEF RunFits
<1>12. ASSUME NEW i \in 1 .. Len(stack'[e])
       PROVE  Awaited(e, i)'
  <2> SUFFICES ASSUME stack'[e][i].op \in Waiting, ~stack'[e][i].done
               PROVE  Awaited(e, i)'
    BY DEF Awaited
  <2>1. e # d \/ i # j
    BY <1>7
  <2>2. /\ stack[e][i].op \in Waiting /\ ~stack[e][i].done
        /\ stack'[e][i].dst = stack[e][i].dst
    BY <1>5, <1>9, <2>1, SameKind, OpsDiffer
  <2>3. PICK b \in Cpus : b = stack[e][i].dst
    <3>1. stack[e][i] \in CallFrames
      BY <1>9, <2>2, StackType, FrameKinds, OpsDiffer
    <3> QED
      BY <3>1 DEF CallFrames
  <2>4. CASE slot[b] = <<e, i>>
    BY <2>2, <2>3, <2>4 DEF Awaited
  <2>5. ASSUME NEW k \in 1 .. Len(stack[b]), stack[b][k].op \in Serving, stack[b][k].req = <<e, i>>
        PROVE  Awaited(e, i)'
    <3>1. (b # c \/ k # n) /\ (b # d \/ k # j)
      BY <1>2, <1>7, <2>1, <2>5
    <3>2. k \in 1 .. Len(stack'[b]) /\ Same(stack[b][k], stack'[b][k])
      BY <1>5, <3>1
    <3>3. stack'[b][k].op \in Serving /\ stack'[b][k].req = <<e, i>>
      BY <2>5, <3>2, SameKind
    <3> QED
      BY <2>2, <2>3, <3>2, <3>3 DEF Awaited
  <2>6. Awaited(e, i)
    BY <1>9 DEF Requests
  <2> QED
    BY <2>2, <2>3, <2>4, <2>5, <2>6 DEF Awaited
<1>13. ASSUME NEW i \in 1 .. Len(stack'[e]), NEW k \in 1 .. Len(stack'[e])
       PROVE  RunsOnce(e, i, k)'
  BY <1>10 DEF Requests, RunsOnce
<1> QED
  BY <1>8, <1>11, <1>12, <1>13

LEMMA AnswersShaped ==
  ASSUME TypeOK, Shaped, Requests, NEW c \in Cpus, NEW d, NEW j, Answers(c, d, j)
  PROVE  Shaped'
<1>1. PICK n \in Nat : n = Len(stack[c]) /\ n \in 1 .. Len(stack[c])
  BY StackType DEF Answers
<1>2. stack[d][j].op \in Waiting
  BY <1>1, ServedIsPosted DEF Answers, Top, IsPosted
<1>3. \A e \in Cpus \ {c} : LikesAll(e)
  BY <1>2, KeepsLikes DEF Answers, LikesAll, Likes, Alike
<1>4. Lost(c) /\ Len(stack[c]) > 0
  BY DEF Answers
<1> QED
  BY <1>3, <1>4, ShrankShaped

-----------------------------------------------------------------------------
(* Blocks wait to be freed in one place.                                    *)

(* Settle frame i of CPU d was there, with the same blocks.                 *)
WasSettle(d, i) ==
  i \in 1 .. Len(stack[d]) /\ stack[d][i].op = "settle" /\ stack'[d][i].free = stack[d][i].free

LEMMA FreeType ==
  ASSUME TypeOK, NEW d \in Cpus, NEW i \in 1 .. Len(stack[d]), stack[d][i].op = "settle"
  PROVE  stack[d][i].free \subseteq Areas /\ stack[d][i].todo \subseteq Cpus
<1>1. stack[d][i] \in SettleFrames
  BY StackType, FrameKinds
<1> QED
  BY <1>1 DEF SettleFrames

LEMMA QuietBlocks ==
  ASSUME TypeOK, Blocks,
         \A d \in Cpus : \A i \in 1 .. Len(stack'[d]) : stack'[d][i].op = "settle" => WasSettle(d, i),
         \A a \in Areas : holds[a] = {} /\ a \notin heap => holds'[a] = {} /\ a \notin heap'
  PROVE  Blocks'
<1>1. ASSUME NEW c \in Cpus, NEW i \in 1 .. Len(stack'[c])
      PROVE  FreeFits(c, i)'
  BY FreeType DEF FreeFits, WasSettle, Blocks
<1>2. ASSUME NEW c \in Cpus, NEW i \in 1 .. Len(stack'[c]),
             NEW d \in Cpus, NEW j \in 1 .. Len(stack'[d])
      PROVE  FreeOnce(c, i, d, j)'
  <2> SUFFICES ASSUME stack'[c][i].op = "settle", stack'[d][j].op = "settle", c # d \/ i # j
               PROVE  stack'[c][i].free \cap stack'[d][j].free = {}
    BY DEF FreeOnce
  <2>1. WasSettle(c, i) /\ WasSettle(d, j)
    OBVIOUS
  <2>2. FreeOnce(c, i, d, j)
    BY <2>1 DEF Blocks, WasSettle
  <2> QED
    BY <2>1, <2>2 DEF FreeOnce, WasSettle
<1> QED
  BY <1>1, <1>2 DEF Blocks

(* A settle is put on the stack of CPU c for blocks that were held until    *)
(* now.                                                                     *)
OnlySettle(c, m) ==
  \A d \in Cpus : \A i \in 1 .. Len(stack'[d]) :
    stack'[d][i].op = "settle" => (d = c /\ i = m) \/ WasSettle(d, i)

NewlyFree(F) == \A a \in F : holds[a] # {} /\ holds'[a] = {} /\ a \notin heap'

LEMMA GrewBlocks ==
  ASSUME TypeOK, Blocks, NEW c \in Cpus, NEW m, OnlySettle(c, m),
         stack'[c][m].free \subseteq Areas, NewlyFree(stack'[c][m].free),
         \A a \in Areas : holds[a] = {} /\ a \notin heap => holds'[a] = {} /\ a \notin heap'
  PROVE  Blocks'
<1> USE DEF OnlySettle, NewlyFree
<1>1. ASSUME NEW d \in Cpus, NEW i \in 1 .. Len(stack'[d]), WasSettle(d, i)
      PROVE  FreeFits(d, i)' /\ \A a \in stack'[d][i].free : holds[a] = {}
  BY <1>1, FreeType DEF FreeFits, WasSettle, Blocks
<1>2. ASSUME NEW i \in 1 .. Len(stack'[c]), i = m
      PROVE  FreeFits(c, i)'
  BY <1>2 DEF FreeFits
<1>3. ASSUME NEW d \in Cpus, NEW i \in 1 .. Len(stack'[d]),
             NEW e \in Cpus, NEW j \in 1 .. Len(stack'[e])
      PROVE  FreeOnce(d, i, e, j)'
  <2> SUFFICES ASSUME stack'[d][i].op = "settle", stack'[e][j].op = "settle", d # e \/ i # j
               PROVE  stack'[d][i].free \cap stack'[e][j].free = {}
    BY DEF FreeOnce
  <2>1. CASE WasSettle(d, i) /\ WasSettle(e, j)
    BY <2>1 DEF WasSettle, Blocks, FreeOnce
  <2>2. CASE d = c /\ i = m /\ WasSettle(e, j)
    BY <1>1, <2>2
  <2>3. CASE e = c /\ j = m /\ WasSettle(d, i)
    BY <1>1, <2>3
  <2> QED
    BY <2>1, <2>2, <2>3
<1>4. ASSUME NEW d \in Cpus, NEW i \in 1 .. Len(stack'[d])
      PROVE  FreeFits(d, i)'
  <2>1. CASE stack'[d][i].op = "settle"
    BY <1>1, <1>2, <2>1
  <2>2. CASE stack'[d][i].op # "settle"
    BY <2>2 DEF FreeFits
  <2> QED
    BY <2>1, <2>2
<1> QED
  BY <1>3, <1>4 DEF Blocks

(* The top settle of CPU c frees its blocks.                                *)
LEMMA FreedBlocks ==
  ASSUME TypeOK, Blocks, NEW c \in Cpus, NEW n \in 1 .. Len(stack[c]), stack[c][n].op = "settle",
         \A d \in Cpus : \A i \in 1 .. Len(stack'[d]) :
           stack'[d][i].op = "settle" => (d # c \/ i # n) /\ WasSettle(d, i),
         UNCHANGED holds, heap' = heap \cup stack[c][n].free
  PROVE  Blocks'
<1>1. ASSUME NEW d \in Cpus, NEW i \in 1 .. Len(stack'[d])
      PROVE  FreeFits(d, i)'
  <2> SUFFICES ASSUME stack'[d][i].op = "settle", NEW a \in stack'[d][i].free
               PROVE  holds'[a] = {} /\ a \notin heap'
    BY DEF FreeFits
  <2>1. (d # c \/ i # n) /\ WasSettle(d, i)
    OBVIOUS
  <2>2. FreeFits(d, i) /\ FreeOnce(d, i, c, n)
    BY <2>1 DEF Blocks, WasSettle
  <2> QED
    BY <2>1, <2>2 DEF FreeFits, FreeOnce, WasSettle
<1>2. ASSUME NEW d \in Cpus, NEW i \in 1 .. Len(stack'[d]),
             NEW e \in Cpus, NEW j \in 1 .. Len(stack'[e])
      PROVE  FreeOnce(d, i, e, j)'
  <2> SUFFICES ASSUME stack'[d][i].op = "settle", stack'[e][j].op = "settle", d # e \/ i # j
               PROVE  stack'[d][i].free \cap stack'[e][j].free = {}
    BY DEF FreeOnce
  <2>1. WasSettle(d, i) /\ WasSettle(e, j)
    OBVIOUS
  <2>2. FreeOnce(d, i, e, j)
    BY <2>1 DEF Blocks, WasSettle
  <2> QED
    BY <2>1, <2>2 DEF FreeOnce, WasSettle
<1> QED
  BY <1>1, <1>2 DEF Blocks

(* Steps that put no settle on a stack.                                     *)
LEMMA SameSettles ==
  ASSUME SameStacks
  PROVE  \A d \in Cpus : \A i \in 1 .. Len(stack'[d]) : stack'[d][i].op = "settle" => WasSettle(d, i)
  BY SameKind DEF SameStacks, KeepsAll, Keeps, WasSettle

LEMMA GrewSettles ==
  ASSUME TypeOK, NEW c \in Cpus, NEW g, Grew(c, g)
  PROVE  \A d \in Cpus : \A i \in 1 .. Len(stack'[d]) :
           stack'[d][i].op = "settle" =>
             \/ d = c /\ i = Len(stack[c]) + 1 /\ stack'[d][i] = g
             \/ WasSettle(d, i)
<1> SUFFICES ASSUME NEW d \in Cpus, NEW i \in 1 .. Len(stack'[d]), stack'[d][i].op = "settle"
             PROVE  \/ d = c /\ i = Len(stack[c]) + 1 /\ stack'[d][i] = g
                    \/ WasSettle(d, i)
  OBVIOUS
<1>1. Len(stack[c]) \in Nat
  BY StackType
<1>2. CASE i \in 1 .. Len(stack[d])
  <2>1. Same(stack[d][i], stack'[d][i])
    BY <1>2 DEF Grew, KeepsAll, Keeps
  <2> QED
    BY <1>2, <2>1, SameKind DEF WasSettle
<1>3. CASE i \notin 1 .. Len(stack[d])
  BY <1>1, <1>3 DEF Grew, KeepsAll
<1> QED
  BY <1>2, <1>3

LEMMA LostSettles ==
  ASSUME TypeOK, NEW c \in Cpus, Lost(c), Len(stack[c]) > 0,
         \A d \in Cpus \ {c} : KeepsAll(d)
  PROVE  \A d \in Cpus : \A i \in 1 .. Len(stack'[d]) :
           stack'[d][i].op = "settle" => (d # c \/ i # Len(stack[c])) /\ WasSettle(d, i)
<1> SUFFICES ASSUME NEW d \in Cpus, NEW i \in 1 .. Len(stack'[d]), stack'[d][i].op = "settle"
             PROVE  (d # c \/ i # Len(stack[c])) /\ WasSettle(d, i)
  OBVIOUS
<1>1. Len(stack[c]) \in Nat
  BY StackType
<1>2. i \in 1 .. Len(stack[d]) /\ Same(stack[d][i], stack'[d][i]) /\ (d # c \/ i # Len(stack[c]))
  BY <1>1 DEF Lost, KeepsAll, Keeps
<1> QED
  BY <1>2, SameKind DEF WasSettle

-----------------------------------------------------------------------------
(* What the steps do to the stacks.                                         *)

LEMMA TopFacts ==
  ASSUME TypeOK, NEW c \in Cpus, NEW o, At(c, o)
  PROVE  /\ Len(stack[c]) > 0 /\ Len(stack[c]) \in 1 .. Len(stack[c])
         /\ Top(c) \in Frames /\ Top(c) = stack[c][Len(stack[c])] /\ Top(c).op = o
<1>1. stack[c] \in Seq(Frames) /\ stack[c] # <<>> /\ Top(c).op = o
  BY DEF TypeOK, At, InUser
<1>2. Len(stack[c]) > 0 /\ Len(stack[c]) \in 1 .. Len(stack[c])
  BY <1>1
<1> QED
  BY <1>1, <1>2, StackType DEF Top

LEMMA SelfKeeps ==
  ASSUME TypeOK, NEW d \in Cpus, stack'[d] = stack[d]
  PROVE  KeepsAll(d)
  BY StackType, SameSelf DEF KeepsAll, Keeps

LEMMA BelowFacts ==
  ASSUME TypeOK, NEW c \in Cpus, Len(stack[c]) > 0
  PROVE  /\ Below(c) \in Seq(Frames) /\ Len(Below(c)) = Len(stack[c]) - 1
         /\ \A i \in 1 .. Len(stack[c]) - 1 : Below(c)[i] = stack[c][i]
<1>1. PICK s : s = stack[c] /\ s \in Seq(Frames)
  BY StackType
<1>2. PICK b : b = SubSeq(s, 1, Len(s) - 1)
  OBVIOUS
<1>3. b \in Seq(Frames) /\ Len(b) = Len(s) - 1 /\ \A i \in 1 .. Len(s) - 1 : b[i] = s[i]
  BY <1>1, <1>2, TopGone
<1>4. b = Below(c)
  BY <1>1, <1>2 DEF Below
<1> QED
  BY <1>1, <1>3, <1>4

(* ... with one or two frames put in place of the top.                      *)
Put(c, f) == Below(c) \o <<f>>
Put2(c, f, g) == Below(c) \o <<f, g>>

LEMMA ReplacedTop ==
  ASSUME TypeOK, NEW c \in Cpus, NEW n \in Nat, Len(stack[c]) = n + 1, NEW f \in Frames
  PROVE  /\ Put(c, f) \in Seq(Frames) /\ Len(Put(c, f)) = n + 1
         /\ Put(c, f)[n + 1] = f
         /\ \A i \in 1 .. n : Put(c, f)[i] = stack[c][i]
<1>1. PICK b : b = Below(c)
  OBVIOUS
<1>2. b \in Seq(Frames) /\ Len(b) = n /\ \A i \in 1 .. n : b[i] = stack[c][i]
  <2>1. Len(stack[c]) > 0 /\ Len(stack[c]) - 1 = n
    OBVIOUS
  <2> QED
    BY <1>1, <2>1, BelowFacts
<1>3. PICK r : r = <<f>>
  OBVIOUS
<1>4. r \in Seq(Frames) /\ Len(r) = 1 /\ r[1] = f
  BY <1>3
<1>5. PICK t : t = Put(c, f)
  OBVIOUS
<1>6. t = b \o r
  BY <1>1, <1>3, <1>5 DEF Put
<1>7. /\ t \in Seq(Frames) /\ Len(t) = Len(b) + Len(r)
      /\ \A i \in 1 .. Len(b) + Len(r) : t[i] = IF i <= Len(b) THEN b[i] ELSE r[i - Len(b)]
  BY <1>2, <1>4, <1>6, ConcatProperties
<1>8. /\ Len(t) = n + 1
      /\ \A i \in 1 .. n + 1 : t[i] = IF i <= n THEN b[i] ELSE r[i - n]
  BY <1>2, <1>4, <1>7
<1>9. PICK j : j = n + 1
  OBVIOUS
<1>10. j \in 1 .. n + 1 /\ ~(j <= n) /\ j - n = 1
  BY <1>9
<1>11. t[j] = f
  BY <1>4, <1>8, <1>10
<1>12. \A i \in 1 .. n : t[i] = stack[c][i]
  BY <1>2, <1>8
<1> QED
  BY <1>5, <1>7, <1>8, <1>9, <1>11, <1>12

LEMMA ReplacedTopPushed ==
  ASSUME TypeOK, NEW c \in Cpus, NEW n \in Nat, Len(stack[c]) = n + 1, NEW f \in Frames, NEW g \in Frames
  PROVE  /\ Put2(c, f, g) \in Seq(Frames) /\ Len(Put2(c, f, g)) = n + 2
         /\ Put2(c, f, g)[n + 1] = f /\ Put2(c, f, g)[n + 2] = g
         /\ \A i \in 1 .. n : Put2(c, f, g)[i] = stack[c][i]
<1>1. PICK b : b = Below(c)
  OBVIOUS
<1>2. b \in Seq(Frames) /\ Len(b) = n /\ \A i \in 1 .. n : b[i] = stack[c][i]
  <2>1. Len(stack[c]) > 0 /\ Len(stack[c]) - 1 = n
    OBVIOUS
  <2> QED
    BY <1>1, <2>1, BelowFacts
<1>3. PICK r : r = <<f, g>>
  OBVIOUS
<1>4. r \in Seq(Frames) /\ Len(r) = 2 /\ r[1] = f /\ r[2] = g
  BY <1>3
<1>5. PICK t : t = Put2(c, f, g)
  OBVIOUS
<1>6. t = b \o r
  BY <1>1, <1>3, <1>5 DEF Put2
<1>7. /\ t \in Seq(Frames) /\ Len(t) = Len(b) + Len(r)
      /\ \A i \in 1 .. Len(b) + Len(r) : t[i] = IF i <= Len(b) THEN b[i] ELSE r[i - Len(b)]
  BY <1>2, <1>4, <1>6, ConcatProperties
<1>8. /\ Len(t) = n + 2
      /\ \A i \in 1 .. n + 2 : t[i] = IF i <= n THEN b[i] ELSE r[i - n]
  BY <1>2, <1>4, <1>7
<1>9. PICK j, k : j = n + 1 /\ k = n + 2
  OBVIOUS
<1>10. j \in 1 .. n + 2 /\ ~(j <= n) /\ j - n = 1 /\ k \in 1 .. n + 2 /\ ~(k <= n) /\ k - n = 2
  BY <1>9
<1>11. t[j] = f /\ t[k] = g
  BY <1>4, <1>8, <1>10
<1>12. \A i \in 1 .. n : t[i] = stack[c][i]
  BY <1>2, <1>8
<1> QED
  BY <1>5, <1>7, <1>8, <1>9, <1>11, <1>12

(* CPU c has frames.                                                        *)
LEMMA HasTop ==
  ASSUME TypeOK, NEW c \in Cpus, Len(stack[c]) > 0
  PROVE  \E n \in Nat : Len(stack[c]) = n + 1 /\ Top(c) = stack[c][n + 1]
<1>1. Len(stack[c]) \in Nat
  BY StackType
<1>2. PICK n : n = Len(stack[c]) - 1
  OBVIOUS
<1>3. n \in Nat /\ Len(stack[c]) = n + 1
  BY <1>1, <1>2
<1> QED
  BY <1>3 DEF Top

LEMMA ReplacedStacks ==
  ASSUME TypeOK, NEW c \in Cpus, Len(stack[c]) > 0, NEW f \in Frames, Same(Top(c), f),
         stack' = ReplaceTop(c, <<f>>)
  PROVE  SameStacks /\ stack' \in [Cpus -> Seq(Frames)]
<1>1. PICK t : t = Put(c, f)
  OBVIOUS
<1>2. PICK n \in Nat : Len(stack[c]) = n + 1 /\ Top(c) = stack[c][n + 1]
  BY HasTop
<1>3. t \in Seq(Frames) /\ Len(t) = n + 1 /\ t[n + 1] = f /\ \A i \in 1 .. n : t[i] = stack[c][i]
  BY <1>1, <1>2, ReplacedTop
<1>4. stack' = [stack EXCEPT ![c] = t] /\ stack \in [Cpus -> Seq(Frames)]
  BY <1>1 DEF ReplaceTop, Put, TypeOK
<1>5. stack' \in [Cpus -> Seq(Frames)] /\ stack'[c] = t /\ \A d \in Cpus \ {c} : stack'[d] = stack[d]
  BY <1>3, <1>4
<1>6. ASSUME NEW i \in 1 .. n + 1
      PROVE  Keeps(c, i)
  <2>1. CASE i = n + 1
    BY <1>2, <1>3, <1>5, <2>1 DEF Keeps
  <2>2. CASE i \in 1 .. n
    <3>1. stack'[c][i] = stack[c][i] /\ stack[c][i] \in Frames
      BY <1>2, <1>3, <1>5, <2>2, StackType
    <3> QED
      BY <3>1, SameSelf DEF Keeps
  <2> QED
    BY <2>1, <2>2
<1>7. KeepsAll(c)
  BY <1>2, <1>3, <1>5, <1>6 DEF KeepsAll
<1> QED
  BY <1>5, <1>7, SelfKeeps DEF SameStacks

(* The new stack of CPU c, frame by frame.                                  *)
LEMMA GrownStacks ==
  ASSUME TypeOK, NEW c \in Cpus, NEW m \in Nat, Len(stack[c]) = m,
         NEW t \in Seq(Frames), NEW g, stack' = [stack EXCEPT ![c] = t],
         Len(t) = m + 1, t[m + 1] = g,
         \A i \in 1 .. m : Same(stack[c][i], t[i])
  PROVE  Grew(c, g) /\ stack' \in [Cpus -> Seq(Frames)]
<1>1. /\ stack' \in [Cpus -> Seq(Frames)] /\ stack'[c] = t
      /\ \A d \in Cpus \ {c} : stack'[d] = stack[d]
  BY DEF TypeOK
<1> QED
  BY <1>1, SelfKeeps DEF Grew, Keeps

LEMMA PushedStacks ==
  ASSUME TypeOK, NEW c \in Cpus, Len(stack[c]) > 0, NEW f \in Frames, Same(Top(c), f),
         NEW g \in Frames,
         \/ stack' = [stack EXCEPT ![c] = Append(Below(c) \o <<f>>, g)]
         \/ stack' = ReplaceTop(c, <<f, g>>)
  PROVE  Grew(c, g) /\ stack' \in [Cpus -> Seq(Frames)]
<1>1. PICK n \in Nat : Len(stack[c]) = n + 1 /\ Top(c) = stack[c][n + 1]
  BY HasTop
<1>2. PICK t : /\ stack' = [stack EXCEPT ![c] = t] /\ t \in Seq(Frames)
               /\ Len(t) = n + 2 /\ t[n + 1] = f /\ t[n + 2] = g
               /\ \A i \in 1 .. n : t[i] = stack[c][i]
  <2>1. CASE stack' = ReplaceTop(c, <<f, g>>)
    <3>1. PICK t : t = Put2(c, f, g)
      OBVIOUS
    <3>2. stack' = [stack EXCEPT ![c] = t]
      BY <2>1, <3>1 DEF ReplaceTop, Put2
    <3>3. /\ t \in Seq(Frames) /\ Len(t) = n + 2 /\ t[n + 1] = f /\ t[n + 2] = g
          /\ \A i \in 1 .. n : t[i] = stack[c][i]
      BY <1>1, <3>1, ReplacedTopPushed
    <3> QED
      BY <3>2, <3>3
  <2>2. CASE stack' = [stack EXCEPT ![c] = Append(Below(c) \o <<f>>, g)]
    <3>1. PICK s : s = Put(c, f)
      OBVIOUS
    <3>2. /\ s \in Seq(Frames) /\ Len(s) = n + 1 /\ s[n + 1] = f
          /\ \A i \in 1 .. n : s[i] = stack[c][i]
      BY <1>1, <3>1, ReplacedTop
    <3>3. PICK t : t = Append(s, g)
      OBVIOUS
    <3>4. /\ t \in Seq(Frames) /\ Len(t) = n + 2 /\ t[n + 2] = g
          /\ \A i \in 1 .. n + 1 : t[i] = s[i]
      BY <3>2, <3>3, Pushed
    <3>5. stack' = [stack EXCEPT ![c] = t]
      BY <2>2, <3>1, <3>3 DEF Put
    <3>6. t[n + 1] = f /\ \A i \in 1 .. n : t[i] = stack[c][i]
      BY <3>2, <3>4
    <3> QED
      BY <3>4, <3>5, <3>6
  <2> QED
    BY <2>1, <2>2
<1>3. ASSUME NEW i \in 1 .. n + 1
      PROVE  Same(stack[c][i], t[i])
  <2>1. CASE i = n + 1
    BY <1>1, <1>2, <2>1
  <2>2. CASE i \in 1 .. n
    <3>1. stack[c][i] \in Frames /\ t[i] = stack[c][i]
      BY <1>1, <1>2, <2>2, StackType
    <3> QED
      BY <3>1, SameSelf
  <2> QED
    BY <2>1, <2>2
<1>4. PICK m \in Nat : m = n + 1
  OBVIOUS
<1>5. Len(stack[c]) = m /\ Len(t) = m + 1 /\ t[m + 1] = g /\ \A i \in 1 .. m : Same(stack[c][i], t[i])
  BY <1>1, <1>2, <1>3, <1>4
<1> QED
  BY <1>2, <1>5, GrownStacks

LEMMA EnteredStacks ==
  ASSUME TypeOK, NEW c \in Cpus, InUser(c), NEW g \in Frames,
         \/ stack' = [stack EXCEPT ![c] = <<g>>]
         \/ stack' = [stack EXCEPT ![c] = Append(<<>>, g)]
  PROVE  Len(stack[c]) = 0 /\ Grew(c, g) /\ stack' \in [Cpus -> Seq(Frames)]
<1>1. Len(stack[c]) = 0
  BY DEF InUser
<1>2. PICK t : t = <<g>> /\ stack' = [stack EXCEPT ![c] = t]
  <2>1. Append(<<>>, g) = <<g>>
    OBVIOUS
  <2> QED
    BY <2>1
<1>3. t \in Seq(Frames) /\ Len(t) = 0 + 1 /\ t[0 + 1] = g
  BY <1>2
<1>4. \A i \in 1 .. 0 : Same(stack[c][i], t[i])
  OBVIOUS
<1>5. PICK m \in Nat : m = 0
  OBVIOUS
<1>6. Len(stack[c]) = m /\ Len(t) = m + 1 /\ t[m + 1] = g /\ \A i \in 1 .. m : Same(stack[c][i], t[i])
  BY <1>1, <1>3, <1>4, <1>5
<1>7. Grew(c, g) /\ stack' \in [Cpus -> Seq(Frames)]
  BY <1>2, <1>3, <1>6, GrownStacks
<1> QED
  BY <1>1, <1>7

LEMMA PoppedStack ==
  ASSUME TypeOK, NEW c \in Cpus, Len(stack[c]) > 0, NEW t, t = Below(c) \o <<>>, stack'[c] = t
  PROVE  /\ Lost(c) /\ t \in Seq(Frames)
         /\ Len(t) = Len(stack[c]) - 1 /\ \A i \in 1 .. Len(stack[c]) - 1 : t[i] = stack[c][i]
<1>1. PICK b : b = Below(c)
  OBVIOUS
<1>2. /\ b \in Seq(Frames) /\ Len(b) = Len(stack[c]) - 1
      /\ \A i \in 1 .. Len(stack[c]) - 1 : b[i] = stack[c][i]
  BY <1>1, BelowFacts
<1>3. t = b
  BY <1>1, <1>2, ConcatEmptySeq
<1>4. ASSUME NEW i \in 1 .. Len(stack[c]) - 1
      PROVE  Keeps(c, i)
  <2>1. stack'[c][i] = stack[c][i] /\ stack[c][i] \in Frames
    BY <1>2, <1>3, StackType
  <2> QED
    BY <2>1, SameSelf DEF Keeps
<1> QED
  BY <1>2, <1>3, <1>4 DEF Lost

LEMMA PoppedStacks ==
  ASSUME TypeOK, NEW c \in Cpus, Len(stack[c]) > 0, stack' = ReplaceTop(c, <<>>)
  PROVE  Shrank(c) /\ stack' \in [Cpus -> Seq(Frames)]
<1>1. PICK t : t = Below(c) \o <<>> /\ stack' = [stack EXCEPT ![c] = t]
  BY DEF ReplaceTop
<1>2. stack'[c] = t /\ \A d \in Cpus \ {c} : stack'[d] = stack[d]
  BY <1>1 DEF TypeOK
<1>3. Lost(c) /\ t \in Seq(Frames)
  BY <1>1, <1>2, PoppedStack
<1> QED
  BY <1>1, <1>2, <1>3, SelfKeeps DEF Shrank, TypeOK

-----------------------------------------------------------------------------
(* Every step keeps the invariant of calls.                                 *)

LEMMA TypeKept ==
  ASSUME TypeOK, stack' \in [Cpus -> Seq(Frames)], slot' \in [Cpus -> Pointers \cup {Null}],
         ipi' \in [Cpus -> BOOLEAN], window' \in [Cpus -> SUBSET Areas],
         UNCHANGED <<holds, above, heap>>, calls' \in 0 .. MaxCalls
  PROVE  TypeOK'
  BY DEF TypeOK

LEMMA Types ==
  ASSUME TypeOK
  PROVE  /\ stack \in [Cpus -> Seq(Frames)] /\ slot \in [Cpus -> Pointers \cup {Null}]
         /\ ipi \in [Cpus -> BOOLEAN] /\ window \in [Cpus -> SUBSET Areas]
         /\ holds \in [Areas -> SUBSET Holders]
         /\ above \in [Areas -> [Holders -> SUBSET Holders]]
         /\ heap \subseteq Areas /\ (\A a \in heap : holds[a] = {})
         /\ calls \in 0 .. MaxCalls
  BY DEF TypeOK

Alternatives(p, o) ==
  \/ p \in Posting /\ o \in Posting
  \/ p \in Waiting /\ o \in Waiting
  \/ p \in Serving /\ o \in Serving

LEMMA Reopped ==
  ASSUME NEW t \in Frames, NEW o, Alternatives(t.op, o), NEW f, f = [t EXCEPT !.op = o]
  PROVE  f \in Frames /\ Same(t, f)
<1>1. CASE t.op \in Calling /\ o \in Calling
  <2>1. t \in CallFrames
    BY <1>1, FrameKinds
  <2>2. f \in CallFrames /\ f.op = o /\ f.dst = t.dst /\ f.fn = t.fn /\ f.done = t.done
    BY <1>1, <2>1 DEF CallFrames
  <2>3. f \in Frames
    BY <2>2, FramesOfKinds
  <2> QED
    BY <1>1, <2>2, <2>3, OpsDiffer DEF Same, Alternatives
<1>2. CASE t.op \in Serving /\ o \in Serving
  <2>1. t \in RunFrames
    BY <1>2, FrameKinds
  <2>2. f \in RunFrames /\ f.op = o /\ f.req = t.req /\ f.fn = t.fn
    BY <1>2, <2>1 DEF RunFrames
  <2>3. f \in Frames
    BY <2>2, FramesOfKinds
  <2> QED
    BY <1>2, <2>2, <2>3 DEF Same
<1> QED
  BY <1>1, <1>2, OpsDiffer DEF Alternatives

(* The frame on top goes on to its next line.                               *)
LEMMA ReopStep ==
  ASSUME CallInv, NEW c \in Cpus, NEW p, At(c, p), NEW o, Alternatives(p, o),
         stack' = ReplaceTop(c, <<[Top(c) EXCEPT !.op = o]>>),
         UNCHANGED <<slot, holds, above, heap, calls>>,
         ipi' \in [Cpus -> BOOLEAN], window' \in [Cpus -> SUBSET Areas]
  PROVE  CallInv' /\ SameStacks
<1> USE DEF CallInv
<1>1. Len(stack[c]) > 0 /\ Top(c) \in Frames /\ Top(c).op = p
  BY TopFacts
<1>2. PICK f : f = [Top(c) EXCEPT !.op = o]
  OBVIOUS
<1>3. f \in Frames /\ Same(Top(c), f)
  BY <1>1, <1>2, Reopped
<1>4. SameStacks /\ stack' \in [Cpus -> Seq(Frames)]
  BY <1>1, <1>2, <1>3, ReplacedStacks
<1>5. TypeOK'
  BY <1>4, Types, TypeKept
<1>6. Shaped'
  BY <1>4, SameShaped
<1>7. Requests'
  BY <1>4, SameQuiet, QuietRequests
<1>8. Blocks'
  BY <1>4, SameSettles, QuietBlocks
<1> QED
  BY <1>4, <1>5, <1>6, <1>7, <1>8

(* A CPU takes a request out of its slot, from user code or while it waits. *)
LEMMA TakenStep ==
  ASSUME CallInv, NEW c \in Cpus, NEW x, x = slot[c], x # Null,
         NEW g, g = RunFrame(x, stack[x[1]][x[2]].fn), Grew(c, g),
         Len(stack[c]) = 0 \/ stack[c][Len(stack[c])].op \in Calling,
         stack' \in [Cpus -> Seq(Frames)], slot' = Take(c),
         UNCHANGED <<window, holds, above, heap, calls>>, ipi' \in [Cpus -> BOOLEAN]
  PROVE  CallInv'
<1> USE DEF CallInv
<1>1. g.op \in Serving /\ g.op # "settle"
  BY DEF RunFrame, Serving
<1>2. slot' \in [Cpus -> Pointers \cup {Null}]
  BY Types DEF Take
<1>3. TypeOK'
  BY <1>2, Types, TypeKept
<1>4. Shaped'
  <2>1. Fits(c, g)
    BY <1>1 DEF Fits
  <2> QED
    BY <2>1, GrewShaped
<1>5. Requests'
  BY TakenRequests
<1>6. Blocks'
  <2>1. \A d \in Cpus : \A i \in 1 .. Len(stack'[d]) : stack'[d][i].op = "settle" => WasSettle(d, i)
    BY <1>1, GrewSettles, SMTT(30)
  <2> QED
    BY <2>1, QuietBlocks
<1> QED
  BY <1>3, <1>4, <1>5, <1>6

LEMMA RunFrameType ==
  ASSUME CallInv, NEW c \in Cpus, NEW x, x = slot[c], x # Null
  PROVE  RunFrame(x, stack[x[1]][x[2]].fn) \in Frames
<1>1. IsPosted(x[1], x[2], c) /\ x \in Pointers
  BY Types DEF CallInv, Requests, SlotFits
<1>2. PICK f : f = stack[x[1]][x[2]]
  OBVIOUS
<1>3. f \in Frames /\ f.op \in Calling
  BY <1>1, <1>2, StackType, OpsDiffer DEF IsPosted, CallInv
<1>4. f.fn \in {"kill", "flush"}
  BY <1>3, FrameKinds DEF CallFrames
<1>5. RunFrame(x, f.fn) \in RunFrames
  BY <1>1, <1>4 DEF RunFrame, RunFrames, Serving
<1> QED
  BY <1>2, <1>5, FramesOfKinds

(* ulmk_xcall_service in a posting or a waiting loop.                       *)
LEMMA ServiceStep ==
  ASSUME CallInv, NEW c \in Cpus, NEW p, At(c, p), NEW o, Alternatives(p, o), p \in Calling,
         Service(c, Below(c) \o <<[Top(c) EXCEPT !.op = o]>>),
         UNCHANGED <<ipi, memory, calls>>
  PROVE  CallInv'
<1>1. /\ ipi' \in [Cpus -> BOOLEAN] /\ window' \in [Cpus -> SUBSET Areas]
      /\ UNCHANGED <<window, holds, above, heap, calls>>
  BY Types DEF memory, CallInv
<1>2. CASE slot[c] = Null
  <2>1. UNCHANGED slot /\ stack' = ReplaceTop(c, <<[Top(c) EXCEPT !.op = o]>>)
    BY <1>2 DEF Service, ReplaceTop
  <2> QED
    BY <1>1, <2>1, ReopStep
<1>3. CASE slot[c] # Null
  <2>1. PICK x, f, g : /\ x = slot[c] /\ f = [Top(c) EXCEPT !.op = o]
                       /\ g = RunFrame(x, stack[x[1]][x[2]].fn)
    OBVIOUS
  <2>2. /\ Len(stack[c]) > 0 /\ Top(c) \in Frames /\ Top(c).op = p
        /\ Top(c) = stack[c][Len(stack[c])]
    BY TopFacts DEF CallInv
  <2>3. f \in Frames /\ Same(Top(c), f)
    BY <2>1, <2>2, Reopped
  <2>4. g \in Frames
    BY <1>3, <2>1, RunFrameType
  <2>5. slot' = Take(c) /\ stack' = [stack EXCEPT ![c] = Append(Below(c) \o <<f>>, g)]
    BY <1>3, <2>1 DEF Service
  <2>6. Grew(c, g) /\ stack' \in [Cpus -> Seq(Frames)]
    BY <2>2, <2>3, <2>4, <2>5, PushedStacks DEF CallInv
  <2> QED
    BY <1>1, <1>3, <2>1, <2>2, <2>5, <2>6, TakenStep
<1> QED
  BY <1>2, <1>3

LEMMA StillStacks ==
  ASSUME CallInv, UNCHANGED <<stack, slot>>,
         \A a \in Areas : holds[a] = {} /\ a \notin heap => holds'[a] = {} /\ a \notin heap'
  PROVE  Shaped' /\ Requests' /\ Blocks'
<1>1. SameStacks
  BY SelfKeeps DEF CallInv, SameStacks
<1> QED
  BY <1>1, SameShaped, SameQuiet, QuietRequests, SameSettles, QuietBlocks DEF CallInv

LEMMA IpiStep ==
  ASSUME CallInv, NEW c \in Cpus, IpiFromIsr(c)
  PROVE  CallInv'
<1>1. /\ ipi' \in [Cpus -> BOOLEAN] /\ window' \in [Cpus -> SUBSET Areas]
      /\ UNCHANGED <<window, holds, above, heap, calls>>
  BY Types DEF memory, CallInv, IpiFromIsr
<1>2. CASE slot[c] = Null
  <2>1. UNCHANGED slot /\ stack' = [stack EXCEPT ![c] = <<>>] /\ stack[c] = <<>>
    BY <1>2 DEF Service, IpiFromIsr, InUser
  <2>2. stack' = stack
    BY <2>1, Types DEF CallInv
  <2>3. TypeOK'
    BY <1>1, <2>1, <2>2, Types, TypeKept DEF CallInv
  <2>4. Shaped' /\ Requests' /\ Blocks'
    BY <1>1, <2>1, <2>2, StillStacks
  <2> QED
    BY <2>3, <2>4 DEF CallInv
<1>3. CASE slot[c] # Null
  <2>1. PICK x, g : x = slot[c] /\ g = RunFrame(x, stack[x[1]][x[2]].fn)
    OBVIOUS
  <2>2. g \in Frames
    BY <1>3, <2>1, RunFrameType
  <2>3. slot' = Take(c) /\ stack' = [stack EXCEPT ![c] = Append(<<>>, g)] /\ InUser(c)
    BY <1>3, <2>1 DEF Service, IpiFromIsr
  <2>4. Len(stack[c]) = 0 /\ Grew(c, g) /\ stack' \in [Cpus -> Seq(Frames)]
    BY <2>2, <2>3, EnteredStacks DEF CallInv
  <2> QED
    BY <1>1, <1>3, <2>1, <2>3, <2>4, TakenStep
<1> QED
  BY <1>2, <1>3

LEMMA PostStep ==
  ASSUME CallInv, NEW c \in Cpus, Post(c)
  PROVE  CallInv'
<1>1. /\ ipi' \in [Cpus -> BOOLEAN] /\ window' \in [Cpus -> SUBSET Areas]
      /\ UNCHANGED <<ipi, window, holds, above, heap, calls>>
  BY Types DEF memory, CallInv, Post
<1>2. CASE slot[Top(c).dst] # Null
  <2>1. /\ UNCHANGED slot /\ At(c, "post")
        /\ stack' = ReplaceTop(c, <<[Top(c) EXCEPT !.op = "relieve"]>>)
    BY <1>2 DEF Post
  <2>2. Alternatives("post", "relieve")
    BY DEF Alternatives, Posting
  <2> QED
    BY <1>1, <2>1, <2>2, ReopStep
<1>3. CASE slot[Top(c).dst] = Null
  <2>1. PICK n \in Nat : n = Len(stack[c]) /\ n \in 1 .. Len(stack[c]) /\ Top(c) = stack[c][n]
    BY StackType, TopFacts DEF CallInv, Post
  <2>2. PICK t \in CallFrames : t = Top(c) /\ t.op = "post"
    BY TopFacts, FrameKinds DEF CallInv, Post, Calling, Posting
  <2>3. PICK d \in Cpus : d = t.dst
    BY <2>2 DEF CallFrames
  <2>4. PICK f : f = [t EXCEPT !.op = "ipi"]
    OBVIOUS
  <2>5. f \in CallFrames /\ f.op = "ipi" /\ f.dst = d /\ f.fn = t.fn /\ f.done = t.done
    BY <2>2, <2>3, <2>4 DEF CallFrames, Calling, Waiting
  <2>6. /\ slot[d] = Null /\ slot' = [slot EXCEPT ![d] = <<c, n>>]
        /\ stack' = ReplaceTop(c, <<f>>)
    BY <1>3, <2>1, <2>2, <2>3, <2>4 DEF Post
  <2>7. f \in Frames
    BY <2>5, FramesOfKinds
  <2>8. PICK k \in Nat : n = k + 1 /\ Len(stack[c]) = k + 1
    <3>1. PICK k : k = n - 1
      OBVIOUS
    <3> QED
      BY <2>1, <3>1
  <2>9. PICK s : s = Put(c, f)
    OBVIOUS
  <2>10. /\ s \in Seq(Frames) /\ Len(s) = k + 1 /\ s[k + 1] = f
         /\ \A i \in 1 .. k : s[i] = stack[c][i]
    BY <2>7, <2>8, <2>9, ReplacedTop DEF CallInv
  <2>11. /\ stack' \in [Cpus -> Seq(Frames)] /\ stack'[c] = s
         /\ \A e \in Cpus \ {c} : stack'[e] = stack[e]
    BY <2>6, <2>9, <2>10, Types DEF ReplaceTop, Put, CallInv
  <2>12. stack'[c][n] = f /\ Len(stack'[c]) = Len(stack[c])
    BY <2>8, <2>10, <2>11
  <2>13. AllBut(c, n)
    <3>1. ASSUME NEW i \in 1 .. Len(stack[c]), i # n
          PROVE  Keeps(c, i)
      <4>1. i \in 1 .. k
        BY <2>8, <3>1
      <4>2. stack'[c][i] = stack[c][i] /\ stack[c][i] \in Frames
        BY <2>10, <2>11, <4>1, StackType DEF CallInv
      <4> QED
        BY <4>2, SameSelf DEF Keeps
    <3>2. \A e \in Cpus \ {c} : KeepsAll(e)
      BY <2>11, SelfKeeps DEF CallInv
    <3> QED
      BY <2>12, <3>1, <3>2 DEF AllBut, KeepsAll
  <2>14. ~t.done /\ t.op \in Posting /\ f.op \in Waiting
    <3>1. t.op \in Posting /\ f.op \in Waiting
      BY <2>2, <2>5 DEF Posting, Waiting
    <3>2. CallShape(c, n)
      BY <2>1 DEF CallInv, Shaped
    <3> QED
      BY <2>1, <2>2, <3>1, <3>2, OpsDiffer DEF CallShape
  <2>15. PutInSlot(c, n, d)
    BY <2>1, <2>2, <2>3, <2>5, <2>6, <2>12, <2>14 DEF PutInSlot
  <2>16. TypeOK'
    <3>1. slot' \in [Cpus -> Pointers \cup {Null}]
      BY <2>1, <2>6, Types DEF CallInv, Pointers
    <3> QED
      BY <1>1, <2>11, <3>1, Types, TypeKept DEF CallInv
  <2>17. Requests'
    BY <2>1, <2>13, <2>15, PutRequests DEF CallInv
  <2>18. Blocks'
    <3>1. ASSUME NEW e \in Cpus, NEW i \in 1 .. Len(stack'[e]), stack'[e][i].op = "settle"
          PROVE  WasSettle(e, i)
      <4>1. e # c \/ i # n
        BY <2>5, <2>12, <3>1
      <4>2. i \in 1 .. Len(stack[e]) /\ Same(stack[e][i], stack'[e][i])
        BY <2>13, <4>1 DEF AllBut, Keeps
      <4> QED
        BY <3>1, <4>2, SameKind DEF WasSettle
    <3> QED
      BY <1>1, <3>1, QuietBlocks DEF CallInv
  <2>19. Shaped'
    <3>1. ASSUME NEW e \in Cpus, e # c
          PROVE  LikesAll(e)
      BY <2>13, <3>1, KeepsLikes DEF AllBut, LikesAll
    <3>2. \A e \in Cpus \ {c} : \A i \in 1 .. Len(stack'[e]) :
            CallShape(e, i)' /\ RunShape(e, i)' /\ SettleShape(e, i)'
      BY <3>1, CpuShaped DEF CallInv
    <3>3. ASSUME NEW i \in 1 .. Len(stack'[c])
          PROVE  CallShape(c, i)' /\ RunShape(c, i)' /\ SettleShape(c, i)'
      <4>1. CallShape(c, i) /\ RunShape(c, i) /\ SettleShape(c, i) /\ i \in Nat \ {0}
        BY <2>12, StackType DEF CallInv, Shaped
      <4>2. CASE i # n
        <5>1. i < n /\ i \in 1 .. n /\ n = Len(stack[c])
          BY <2>1, <2>12, <4>2
        <5>2. Likes(c, i) /\ (i > 1 => Likes(c, i - 1)) /\ (i > 1 => Likes(c, 1))
          BY <2>13, <5>1, KeepsLikes DEF AllBut
        <5> QED
          BY <2>12, <4>1, <5>2, FrameShaped
      <4>3. CASE i = n
        <5>1. /\ f.op \in Calling /\ f.op \notin Serving /\ f.op # "settle" /\ f.op \notin Posting
              /\ t.op \in Calling
          BY <2>14, OpsDiffer
        <5>2. d # c /\ (n = 1 \/ (n = 2 /\ stack[c][1].op = "settle"))
          BY <2>1, <2>2, <2>3, <4>1, <4>3, <5>1 DEF CallShape
        <5>3. n = 2 => stack'[c][1] = stack[c][1]
          BY <2>8, <2>10, <2>11
        <5> QED
          BY <2>5, <2>12, <4>3, <5>1, <5>2, <5>3 DEF CallShape, RunShape, SettleShape
      <4> QED
        BY <4>2, <4>3
    <3> QED
      BY <3>2, <3>3 DEF Shaped
  <2> QED
    BY <2>16, <2>17, <2>18, <2>19 DEF CallInv
<1> QED
  BY <1>2, <1>3

LEMMA WaitCheckStep ==
  ASSUME CallInv, NEW c \in Cpus, WaitCheck(c)
  PROVE  CallInv'
<1>1. /\ ipi' \in [Cpus -> BOOLEAN] /\ window' \in [Cpus -> SUBSET Areas]
      /\ UNCHANGED <<slot, ipi, window, holds, above, heap, calls>> /\ At(c, "check")
  BY Types DEF memory, CallInv, WaitCheck
<1>2. CASE ~Top(c).done
  <2>1. stack' = ReplaceTop(c, <<[Top(c) EXCEPT !.op = "serve"]>>)
    BY <1>2 DEF WaitCheck
  <2>2. Alternatives("check", "serve")
    BY DEF Alternatives, Waiting
  <2> QED
    BY <1>1, <2>1, <2>2, ReopStep
<1>3. CASE Top(c).done
  <2>1. stack' = ReplaceTop(c, <<>>)
    BY <1>3 DEF WaitCheck
  <2>2. Len(stack[c]) > 0 /\ Top(c).op = "check"
    BY <1>1, TopFacts DEF CallInv
  <2>3. Shrank(c) /\ stack' \in [Cpus -> Seq(Frames)]
    BY <2>1, <2>2, PoppedStacks DEF CallInv
  <2>4. ~Matters(Top(c))
    BY <1>3, <2>2 DEF Matters, Serving
  <2>5. Lost(c) /\ (\A d \in Cpus \ {c} : KeepsAll(d)) /\ \A d \in Cpus \ {c} : LikesAll(d)
    BY <2>3, KeepsLikes DEF Shrank, KeepsAll, LikesAll
  <2>6. TypeOK'
    BY <1>1, <2>3, Types, TypeKept DEF CallInv
  <2>7. Shaped'
    BY <2>2, <2>5, ShrankShaped DEF CallInv
  <2>8. Requests'
    BY <1>1, <2>2, <2>3, <2>4, ShrankQuiet, QuietRequests DEF CallInv
  <2>9. Blocks'
    BY <1>1, <2>2, <2>5, LostSettles, QuietBlocks DEF CallInv
  <2> QED
    BY <2>6, <2>7, <2>8, <2>9 DEF CallInv
<1> QED
  BY <1>2, <1>3

(* The frames that stay are as they were, but for frame j of CPU d.         *)
Unmoved(d, j) ==
  \A e \in Cpus : \A i \in 1 .. Len(stack'[e]) :
    e # d \/ i # j => i \in 1 .. Len(stack[e]) /\ stack'[e][i] = stack[e][i]

(* Finish, frame by frame.                                                  *)
LEMMA FinishAnswers ==
  ASSUME CallInv, NEW c \in Cpus, Finish(c)
  PROVE  /\ \E d, j : Answers(c, d, j) /\ IsPosted(d, j, c) /\ Unmoved(d, j)
         /\ stack' \in [Cpus -> Seq(Frames)]
<1>1. At(c, "ran") /\ Len(stack[c]) > 0 /\ Top(c).op \in Serving
  BY TopFacts DEF Finish, CallInv, Serving
<1>2. PICK n \in Nat : n = Len(stack[c]) /\ n \in 1 .. Len(stack[c]) /\ Top(c) = stack[c][n]
  BY <1>1, StackType, TopFacts DEF CallInv
<1>3. PICK x : x = Top(c).req
  OBVIOUS
<1>4. PICK d, j : x = <<d, j>> /\ x[1] = d /\ x[2] = j
  <2>1. x = <<x[1], x[2]>>
    BY <1>1, <1>2, <1>3, PointerType DEF CallInv
  <2> QED
    BY <2>1
<1>5. IsPosted(d, j, c)
  BY ZenonT(30), <1>1, <1>2, <1>3, <1>4, ServedIsPosted DEF CallInv
<1>6. d \in Cpus /\ j \in 1 .. Len(stack[d]) /\ d # c
  <2>1. d \in Cpus /\ j \in 1 .. Len(stack[d]) /\ stack[d][j].op \in Calling /\ stack[d][j].dst = c
    BY <1>5, OpsDiffer DEF IsPosted
  <2>2. CallShape(d, j)
    BY <2>1 DEF CallInv, Shaped
  <2> QED
    BY <2>1, <2>2 DEF CallShape
<1>7. PICK t : t = Below(c) \o <<>>
  OBVIOUS
<1>8. PICK f : f = [stack[d][j] EXCEPT !.done = TRUE]
  OBVIOUS
<1>9. PICK s : s = [stack[d] EXCEPT ![j] = f]
  OBVIOUS
<1>10. stack' = [[stack EXCEPT ![c] = t] EXCEPT ![d] = s]
  <2>1. PICK r : r = ReplaceTop(c, <<>>)
    OBVIOUS
  <2>2. r = [stack EXCEPT ![c] = t]
    BY <1>7, <2>1 DEF ReplaceTop
  <2>3. r[d] = stack[d]
    BY <1>6, <2>2, Types DEF CallInv
  <2>4. stack' = [r EXCEPT ![d] = [r[d] EXCEPT ![j] = [r[d][j] EXCEPT !.done = TRUE]]]
    BY <1>3, <1>4, <2>1 DEF Finish
  <2>5. [r[d] EXCEPT ![j] = [r[d][j] EXCEPT !.done = TRUE]] = s
    BY <1>8, <1>9, <2>3
  <2> QED
    BY <2>2, <2>4, <2>5
<1>11. stack'[c] = t /\ stack'[d] = s /\ \A e \in Cpus \ {c, d} : stack'[e] = stack[e]
  BY <1>6, <1>10, Types DEF CallInv
<1>12. Lost(c) /\ t \in Seq(Frames)
  BY <1>1, <1>7, <1>11, PoppedStack DEF CallInv
<1>13. f \in Frames /\ f.op = stack[d][j].op /\ f.dst = stack[d][j].dst /\ f.done = TRUE
  <2>1. stack[d][j] \in CallFrames
    BY <1>5, <1>6, StackType, FrameKinds, OpsDiffer DEF CallInv, IsPosted
  <2>2. f \in CallFrames /\ f.op = stack[d][j].op /\ f.dst = stack[d][j].dst /\ f.done = TRUE
    BY <1>8, <2>1 DEF CallFrames
  <2> QED
    BY <2>2, FramesOfKinds
<1>14. /\ s \in Seq(Frames) /\ Len(s) = Len(stack[d]) /\ s[j] = f
       /\ \A i \in 1 .. Len(stack[d]) : i # j => s[i] = stack[d][i]
  <2>1. PICK q : q = stack[d] /\ q \in Seq(Frames) /\ j \in 1 .. Len(q)
    BY <1>6, StackType DEF CallInv
  <2>2. s = [q EXCEPT ![j] = f] /\ f \in Frames
    BY <1>9, <1>13, <2>1
  <2>3. s \in Seq(Frames) /\ Len(s) = Len(q) /\ s[j] = f /\ \A i \in 1 .. Len(q) : i # j => s[i] = q[i]
    BY <2>1, <2>2
  <2> QED
    BY <2>1, <2>3
<1>15. stack' \in [Cpus -> Seq(Frames)]
  BY <1>6, <1>10, <1>12, <1>14, Types DEF CallInv
<1>16. ASSUME NEW e \in Cpus \ {c}
       PROVE  /\ Len(stack'[e]) = Len(stack[e])
              /\ \A i \in 1 .. Len(stack[e]) : e # d \/ i # j => Keeps(e, i)
  <2>1. CASE e = d
    <3>1. ASSUME NEW i \in 1 .. Len(stack[d]), i # j
          PROVE  Keeps(d, i)
      <4>1. stack'[d][i] = stack[d][i] /\ stack[d][i] \in Frames
        BY <1>6, <1>11, <1>14, <3>1, StackType DEF CallInv
      <4> QED
        BY <4>1, SameSelf DEF Keeps
    <3> QED
      BY <1>11, <1>14, <2>1, <3>1
  <2>2. CASE e # d
    BY <1>11, <2>2, SelfKeeps DEF CallInv, KeepsAll
  <2> QED
    BY <2>1, <2>2
<1>17. Answers(c, d, j)
  BY <1>1, <1>3, <1>4, <1>6, <1>11, <1>12, <1>13, <1>14, <1>16 DEF Answers
<1>18. Unmoved(d, j)
  <2> SUFFICES ASSUME NEW e \in Cpus, NEW i \in 1 .. Len(stack'[e]), e # d \/ i # j
               PROVE  i \in 1 .. Len(stack[e]) /\ stack'[e][i] = stack[e][i]
    BY DEF Unmoved
  <2>1. CASE e = c
    <3>1. /\ Len(t) = Len(stack[c]) - 1 /\ Len(stack[c]) \in Nat
          /\ \A k \in 1 .. Len(stack[c]) - 1 : t[k] = stack[c][k]
      BY <1>1, <1>7, <1>11, PoppedStack, StackType DEF CallInv
    <3>2. i \in 1 .. Len(stack[c]) - 1 /\ i \in 1 .. Len(stack[c])
      BY <1>11, <2>1, <3>1
    <3> QED
      BY <1>11, <2>1, <3>1, <3>2
  <2>2. CASE e = d
    BY <1>11, <1>14, <2>2
  <2>3. CASE e \notin {c, d}
    BY <1>11, <2>3
  <2> QED
    BY <2>1, <2>2, <2>3
<1> QED
  BY <1>5, <1>15, <1>17, <1>18

LEMMA FinishStep ==
  ASSUME CallInv, NEW c \in Cpus, Finish(c)
  PROVE  CallInv'
<1>1. /\ ipi' \in [Cpus -> BOOLEAN] /\ window' \in [Cpus -> SUBSET Areas]
      /\ UNCHANGED <<slot, ipi, window, holds, above, heap, calls>>
  BY Types DEF memory, CallInv, Finish
<1>2. PICK d, j : Answers(c, d, j) /\ IsPosted(d, j, c)
  BY FinishAnswers
<1>3. stack' \in [Cpus -> Seq(Frames)]
  BY FinishAnswers
<1>4. TypeOK'
  BY <1>1, <1>3, Types, TypeKept DEF CallInv
<1>5. Shaped' /\ Requests'
  BY <1>1, <1>2, AnswersShaped, AnswersRequests DEF CallInv
<1>6. ASSUME NEW e \in Cpus, NEW i \in 1 .. Len(stack'[e]), stack'[e][i].op = "settle"
      PROVE  WasSettle(e, i)
  <2>1. e # d \/ i # j
    BY <1>2, <1>6, OpsDiffer DEF Answers, IsPosted
  <2>2. i \in 1 .. Len(stack[e]) /\ Keeps(e, i)
    <3>1. Len(stack[c]) \in Nat
      BY StackType DEF CallInv
    <3>2. CASE e = c
      BY <1>2, <3>1, <3>2 DEF Answers, Lost
    <3>3. CASE e # c
      BY <1>2, <2>1, <3>3 DEF Answers
    <3> QED
      BY <3>2, <3>3
  <2> QED
    BY <1>6, <2>2, SameKind DEF Keeps, WasSettle
<1>7. Blocks'
  BY <1>1, <1>6, QuietBlocks DEF CallInv
<1> QED
  BY <1>4, <1>5, <1>7 DEF CallInv

LEMMA CallFrameFacts ==
  ASSUME NEW d \in Cpus, NEW n \in {"kill", "flush"}, NEW g, g = CallFrame(d, n)
  PROVE  /\ g \in Frames /\ g.op \in Posting /\ g.op # "settle" /\ g.dst = d /\ g.fn = n /\ ~g.done
         /\ ~Matters(g)
<1>1. g.op = "post" /\ g.dst = d /\ g.fn = n /\ g.done = FALSE
  BY DEF CallFrame
<1>2. g \in CallFrames
  BY DEF CallFrame, CallFrames, Calling, Posting
<1>3. g.op \in Posting
  BY <1>1 DEF Posting
<1> QED
  BY <1>1, <1>2, <1>3, FramesOfKinds, OpsDiffer DEF Matters

LEMMA SettleFrameFacts ==
  ASSUME NEW S \in SUBSET Cpus, NEW F \in SUBSET Areas, NEW g, g = SettleFrame(S, F)
  PROVE  g \in Frames /\ g.op = "settle" /\ g.todo = S /\ g.free = F /\ ~Matters(g)
<1>1. g.op = "settle" /\ g.todo = S /\ g.free = F
  BY DEF SettleFrame
<1>2. g \in SettleFrames
  BY DEF SettleFrame, SettleFrames
<1> QED
  BY <1>1, <1>2, FramesOfKinds, OpsDiffer DEF Matters

(* A settle takes CPU d off its mask and calls it.                          *)
SettleCalls(c, d) ==
  /\ At(c, "settle") /\ d \in Top(c).todo
  /\ stack' = ReplaceTop(c, <<[Top(c) EXCEPT !.todo = @ \ {d}], CallFrame(d, "flush")>>)
  /\ UNCHANGED <<slot, ipi, memory, calls>>

LEMMA SettleCallsStacks ==
  ASSUME CallInv, NEW c \in Cpus, NEW d, SettleCalls(c, d)
  PROVE  /\ d \in Cpus /\ d # c /\ Len(stack[c]) = 1
         /\ Grew(c, CallFrame(d, "flush")) /\ stack' \in [Cpus -> Seq(Frames)]
         /\ Top(c) = stack[c][1] /\ stack'[c][1].free = stack[c][1].free
         /\ stack'[c][1].todo = stack[c][1].todo \ {d}
<1>1. PICK n \in Nat : n = Len(stack[c]) /\ n \in 1 .. Len(stack[c]) /\ Top(c) = stack[c][n]
  BY StackType, TopFacts DEF CallInv, SettleCalls
<1>2. PICK t \in SettleFrames : t = Top(c) /\ t.op = "settle"
  BY TopFacts, FrameKinds DEF CallInv, SettleCalls
<1>3. SettleShape(c, n)
  BY <1>1 DEF CallInv, Shaped
<1>4. d \in t.todo /\ d \in Cpus /\ d # c
  BY <1>1, <1>2, <1>3 DEF SettleCalls, SettleFrames, SettleShape
<1>5. n = 1
  BY <1>1, <1>2, <1>3, <1>4 DEF SettleShape
<1>6. PICK f : f = [t EXCEPT !.todo = t.todo \ {d}]
  OBVIOUS
<1>7. f \in SettleFrames /\ f.op = "settle" /\ f.free = t.free /\ f.todo = t.todo \ {d}
  BY <1>2, <1>6 DEF SettleFrames
<1>8. f \in Frames /\ Same(t, f)
  BY <1>2, <1>7, FramesOfKinds DEF Same
<1>9. PICK g : g = CallFrame(d, "flush")
  OBVIOUS
<1>10. g \in Frames
  BY <1>4, <1>9, CallFrameFacts
<1>11. stack' = ReplaceTop(c, <<f, g>>)
  BY <1>2, <1>6, <1>9 DEF SettleCalls
<1>12. Grew(c, g) /\ stack' \in [Cpus -> Seq(Frames)]
  <2>1. Len(stack[c]) > 0 /\ Same(Top(c), f)
    BY <1>1, <1>2, <1>8
  <2> QED
    BY <1>8, <1>10, <1>11, <2>1, PushedStacks DEF CallInv
<1>13. stack'[c][1] = f
  <2>1. PICK m \in Nat : m = 0
    OBVIOUS
  <2>2. Len(stack[c]) = m + 1
    BY <1>1, <1>5, <2>1
  <2>3. Put2(c, f, g)[m + 1] = f
    BY <1>8, <1>10, <2>2, ReplacedTopPushed DEF CallInv
  <2>4. stack'[c] = Put2(c, f, g)
    BY <1>11, Types DEF ReplaceTop, Put2, CallInv
  <2> QED
    BY <2>1, <2>3, <2>4
<1>14. /\ Top(c) = stack[c][1] /\ stack'[c][1].free = stack[c][1].free
       /\ stack'[c][1].todo = stack[c][1].todo \ {d}
  BY <1>1, <1>2, <1>5, <1>7, <1>13
<1> QED
  BY <1>1, <1>4, <1>5, <1>9, <1>12, <1>14

LEMMA SettleCallsStep ==
  ASSUME CallInv, NEW c \in Cpus, NEW d, SettleCalls(c, d)
  PROVE  CallInv'
<1>1. PICK g : g = CallFrame(d, "flush")
  OBVIOUS
<1>2. d \in Cpus /\ d # c /\ Len(stack[c]) = 1 /\ Grew(c, g) /\ stack' \in [Cpus -> Seq(Frames)]
  BY <1>1, SettleCallsStacks
<1>3. g.op \in Posting /\ g.op # "settle" /\ g.dst = d /\ ~g.done /\ ~Matters(g)
  BY <1>1, <1>2, CallFrameFacts
<1>4. stack[c][1].op = "settle"
  BY <1>2, TopFacts DEF SettleCalls, CallInv
<1>5. UNCHANGED <<slot, ipi, window, holds, above, heap, calls>>
  BY DEF SettleCalls, memory
<1>6. TypeOK'
  BY <1>2, <1>5, Types, TypeKept DEF CallInv
<1>7. Shaped'
  <2>1. Fits(c, g)
    BY <1>2, <1>3, <1>4 DEF Fits
  <2> QED
    BY <1>2, <2>1, GrewShaped DEF CallInv
<1>8. Requests'
  BY <1>2, <1>3, <1>5, GrewQuiet, QuietRequests DEF CallInv
<1>9. Blocks'
  BY <1>2, <1>3, <1>5, GrewSettles, QuietBlocks DEF CallInv
<1> QED
  BY <1>6, <1>7, <1>8, <1>9 DEF CallInv

(* A settle with no CPU left on its mask frees its blocks.                  *)
SettleFrees(c) ==
  /\ At(c, "settle") /\ Top(c).todo = {}
  /\ stack' = ReplaceTop(c, <<>>) /\ heap' = heap \cup Top(c).free
  /\ UNCHANGED <<slot, ipi, window, holds, above, calls>>

LEMMA SettleCases ==
  ASSUME NEW c, Settle(c)
  PROVE  SettleFrees(c) \/ \E d : SettleCalls(c, d)
  BY DEF Settle, SettleFrees, SettleCalls, memory

LEMMA SettleFreesStep ==
  ASSUME CallInv, NEW c \in Cpus, SettleFrees(c)
  PROVE  CallInv'
<1>1. PICK n \in Nat : /\ n = Len(stack[c]) /\ n \in 1 .. Len(stack[c]) /\ Top(c) = stack[c][n]
                       /\ Top(c).op = "settle"
  BY StackType, TopFacts DEF CallInv, SettleFrees
<1>2. Shrank(c) /\ stack' \in [Cpus -> Seq(Frames)]
  BY <1>1, PoppedStacks DEF CallInv, SettleFrees
<1>3. Lost(c) /\ (\A d \in Cpus \ {c} : KeepsAll(d)) /\ \A d \in Cpus \ {c} : LikesAll(d)
  BY <1>2, KeepsLikes DEF Shrank, KeepsAll, LikesAll
<1>4. UNCHANGED <<slot, ipi, window, holds, above, calls>> /\ heap' = heap \cup stack[c][n].free
  BY <1>1 DEF SettleFrees
<1>5. TypeOK'
  <2>1. stack[c][n].free \subseteq Areas
    BY <1>1, FreeType DEF CallInv
  <2>2. \A a \in stack[c][n].free : holds[a] = {}
    BY <1>1 DEF CallInv, Blocks, FreeFits
  <2>3. heap' \subseteq Areas /\ \A a \in heap' : holds[a] = {}
    BY <1>4, <2>1, <2>2, Types DEF CallInv
  <2> QED
    BY <1>2, <1>4, <2>3, Types DEF CallInv, TypeOK
<1>6. Shaped'
  BY <1>1, <1>3, ShrankShaped DEF CallInv
<1>7. Requests'
  <2>1. ~Matters(Top(c))
    BY <1>1, OpsDiffer DEF Matters
  <2> QED
    BY <1>1, <1>2, <1>4, <2>1, ShrankQuiet, QuietRequests DEF CallInv
<1>8. Blocks'
  <2>1. \A d \in Cpus : \A i \in 1 .. Len(stack'[d]) :
          stack'[d][i].op = "settle" => (d # c \/ i # n) /\ WasSettle(d, i)
    BY <1>1, <1>3, LostSettles DEF CallInv
  <2> QED
    BY <1>1, <1>4, <2>1, FreedBlocks DEF CallInv
<1> QED
  BY <1>5, <1>6, <1>7, <1>8 DEF CallInv

(* Threads lose an area.                                                    *)
LEMMA LoseFacts ==
  ASSUME TypeOK, NEW a \in Areas, NEW G, Lose(a, G)
  PROVE  /\ holds' \in [Areas -> SUBSET Holders]
         /\ above' \in [Areas -> [Holders -> SUBSET Holders]]
         /\ holds'[a] = holds[a] \ G /\ \A b \in Areas \ {a} : holds'[b] = holds[b]
         /\ Retired(a, G) \subseteq {a}
         /\ \A b \in Retired(a, G) : b = a /\ holds'[a] = {}
<1>1. /\ holds' = [holds EXCEPT ![a] = holds[a] \ G]
      /\ above' = [above EXCEPT ![a] = [h \in Holders |-> IF h \in G THEN {} ELSE above[a][h] \ G]]
  BY DEF Lose
<1>2. /\ holds' \in [Areas -> SUBSET Holders]
      /\ holds'[a] = holds[a] \ G /\ \A b \in Areas \ {a} : holds'[b] = holds[b]
  BY <1>1, Types
<1>3. above' \in [Areas -> [Holders -> SUBSET Holders]]
  <2>1. PICK r : r = [h \in Holders |-> IF h \in G THEN {} ELSE above[a][h] \ G]
    OBVIOUS
  <2>2. r \in [Holders -> SUBSET Holders]
    BY <2>1, Types
  <2> QED
    BY <1>1, <2>1, <2>2, Types
<1>4. Retired(a, G) \subseteq {a} /\ \A b \in Retired(a, G) : b = a /\ holds[a] \subseteq G
  BY DEF Retired
<1> QED
  BY <1>2, <1>3, <1>4

(* ... and the CPU that sees to it settles.                                 *)
LEMMA LosingStep ==
  ASSUME CallInv, NEW c \in Cpus, NEW a \in Areas, NEW G, holds[a] # {}, Lose(a, G),
         NEW S \in SUBSET Cpus, NEW g, g = SettleFrame(S, Retired(a, G)), Grew(c, g), Fits(c, g),
         stack' \in [Cpus -> Seq(Frames)], UNCHANGED <<slot, ipi, heap>>,
         window' \in [Cpus -> SUBSET Areas], calls' \in 0 .. MaxCalls
  PROVE  CallInv'
<1>1. /\ holds' \in [Areas -> SUBSET Holders]
      /\ above' \in [Areas -> [Holders -> SUBSET Holders]]
      /\ holds'[a] = holds[a] \ G /\ \A b \in Areas \ {a} : holds'[b] = holds[b]
      /\ Retired(a, G) \subseteq {a}
      /\ \A b \in Retired(a, G) : b = a /\ holds'[a] = {}
  BY LoseFacts DEF CallInv
<1>2. g.op = "settle" /\ g.free = Retired(a, G) /\ ~Matters(g)
  <2>1. Retired(a, G) \in SUBSET Areas
    BY <1>1
  <2> QED
    BY <2>1, SettleFrameFacts
<1>3. a \notin heap
  BY Types DEF CallInv
<1>4. TypeOK'
  <2>1. heap' \subseteq Areas /\ \A b \in heap' : holds'[b] = {}
    BY <1>1, <1>3, Types DEF CallInv
  <2> QED
    BY <1>1, <2>1, Types DEF TypeOK, CallInv
<1>5. Shaped'
  BY GrewShaped DEF CallInv
<1>6. Requests'
  BY <1>2, GrewQuiet, QuietRequests DEF CallInv
<1>7. Blocks'
  <2>1. PICK m : m = Len(stack[c]) + 1
    OBVIOUS
  <2>2. OnlySettle(c, m)
    BY <2>1, GrewSettles DEF CallInv, OnlySettle
  <2>3. stack'[c][m].free = Retired(a, G)
    BY <1>2, <2>1 DEF Grew
  <2>4. stack'[c][m].free \subseteq Areas /\ NewlyFree(stack'[c][m].free)
    BY <1>1, <1>3, <2>3 DEF NewlyFree
  <2>5. \A b \in Areas : holds[b] = {} /\ b \notin heap => holds'[b] = {} /\ b \notin heap'
    BY <1>1
  <2> QED
    BY <2>2, <2>4, <2>5, GrewBlocks DEF CallInv
<1> QED
  BY <1>4, <1>5, <1>6, <1>7 DEF CallInv

LEMMA CountedType ==
  ASSUME TypeOK, NEW c, Counted(c)
  PROVE  calls' \in 0 .. MaxCalls /\ InUser(c)
  BY CpusAssumption, Types DEF Counted

(* A settle entered from user code.                                         *)
LEMMA EnteredSettle ==
  ASSUME CallInv, NEW c \in Cpus, InUser(c), NEW a \in Areas, NEW G, holds[a] # {}, Lose(a, G),
         NEW S \in SUBSET Cpus, c \notin S,
         NEW g, g = SettleFrame(S, Retired(a, G)),
         \/ stack' = [stack EXCEPT ![c] = <<g>>]
         \/ stack' = [stack EXCEPT ![c] = Append(<<>>, g)],
         UNCHANGED <<slot, ipi, heap>>,
         window' \in [Cpus -> SUBSET Areas], calls' \in 0 .. MaxCalls
  PROVE  CallInv' /\ Len(stack[c]) = 0 /\ Grew(c, g)
<1>1. Retired(a, G) \in SUBSET Areas
  BY DEF Retired
<1>2. g \in Frames /\ g.op = "settle" /\ g.todo = S
  BY <1>1, SettleFrameFacts
<1>3. Len(stack[c]) = 0 /\ Grew(c, g) /\ stack' \in [Cpus -> Seq(Frames)]
  BY <1>2, EnteredStacks DEF CallInv
<1>4. Fits(c, g)
  BY <1>2, <1>3 DEF Fits
<1>5. CallInv'
  BY <1>3, <1>4, LosingStep
<1> QED
  BY <1>3, <1>5

LEMMA ReapStep ==
  ASSUME CallInv, NEW c \in Cpus, NEW a \in Areas, Reap(c, a)
  PROVE  CallInv' /\ Len(stack[c]) = 0 /\ Grew(c, SettleFrame({}, Retired(a, {c})))
<1>1. PICK g, G, S : G = {c} /\ S = {} /\ g = SettleFrame(S, Retired(a, G))
  OBVIOUS
<1>2. calls' \in 0 .. MaxCalls /\ InUser(c)
  BY CountedType DEF CallInv, Reap
<1>3. window' \in [Cpus -> SUBSET Areas] /\ UNCHANGED <<slot, ipi, heap>> /\ holds[a] # {}
  BY Types DEF CallInv, Reap
<1>4. Lose(a, G) /\ stack' = [stack EXCEPT ![c] = <<g>>] /\ S \in SUBSET Cpus /\ c \notin S
  BY <1>1 DEF Reap
<1>5. CallInv' /\ Len(stack[c]) = 0 /\ Grew(c, g)
  BY <1>1, <1>2, <1>3, <1>4, EnteredSettle
<1> QED
  BY <1>1, <1>5

LEMMA KillHereStep ==
  ASSUME CallInv, NEW c \in Cpus, NEW a \in Areas, KillHere(c, a)
  PROVE  CallInv' /\ Len(stack[c]) = 0 /\ Grew(c, SettleFrame({}, Retired(a, {Parked})))
<1>1. PICK g, G, S : G = {Parked} /\ S = {} /\ g = SettleFrame(S, Retired(a, G))
  OBVIOUS
<1>2. calls' \in 0 .. MaxCalls /\ InUser(c)
  BY CountedType DEF CallInv, KillHere
<1>3. window' \in [Cpus -> SUBSET Areas] /\ UNCHANGED <<slot, ipi, heap>> /\ holds[a] # {}
  BY Types DEF CallInv, KillHere, KillParked
<1>4. Lose(a, G) /\ stack' = [stack EXCEPT ![c] = Append(<<>>, g)] /\ S \in SUBSET Cpus /\ c \notin S
  BY <1>1 DEF KillHere, KillParked
<1>5. CallInv' /\ Len(stack[c]) = 0 /\ Grew(c, g)
  BY <1>1, <1>2, <1>3, <1>4, EnteredSettle
<1> QED
  BY <1>1, <1>5

(* What Drop(c, a) does to the area of thread t.                            *)
Derived(a, t) == {h \in holds[a] : h = t \/ t \in above[a][h]}

Drops(c, a, t) ==
  /\ Counted(c) /\ t \in holds[a]
  /\ Lose(a, Derived(a, t))
  /\ window' = IF c \in Derived(a, t) THEN [window EXCEPT ![c] = {}] ELSE window
  /\ stack' = [stack EXCEPT ![c] =
                 <<SettleFrame(Shootdown(c, Derived(a, t)), Retired(a, Derived(a, t)))>>]
  /\ UNCHANGED <<slot, ipi, heap>>

LEMMA DropDrops ==
  ASSUME NEW c, NEW a, Drop(c, a)
  PROVE  \E t : Drops(c, a, t)
  BY DEF Drop, Drops, Derived

LEMMA DropStep ==
  ASSUME CallInv, NEW c \in Cpus, NEW a \in Areas, NEW t, Drops(c, a, t)
  PROVE  /\ CallInv' /\ Len(stack[c]) = 0
         /\ Grew(c, SettleFrame(Shootdown(c, Derived(a, t)), Retired(a, Derived(a, t))))
<1>1. PICK g, G, S : /\ G = Derived(a, t) /\ S = Shootdown(c, G)
                     /\ g = SettleFrame(S, Retired(a, G))
  OBVIOUS
<1>2. calls' \in 0 .. MaxCalls /\ InUser(c)
  BY CountedType DEF CallInv, Drops
<1>3. window' \in [Cpus -> SUBSET Areas] /\ UNCHANGED <<slot, ipi, heap>> /\ holds[a] # {}
  BY Types DEF CallInv, Drops
<1>4. Lose(a, G) /\ stack' = [stack EXCEPT ![c] = <<g>>]
  BY <1>1 DEF Drops
<1>5. S \in SUBSET Cpus /\ c \notin S
  BY <1>1 DEF Shootdown
<1>6. CallInv' /\ Len(stack[c]) = 0 /\ Grew(c, g)
  BY <1>1, <1>2, <1>3, <1>4, <1>5, EnteredSettle
<1> QED
  BY <1>1, <1>6

(* A served kill: it settles on top of the frame that serves it.            *)
RunKills(c, a) ==
  /\ At(c, "run") /\ Top(c).fn = "kill"
  /\ KillParked(c, Below(c) \o <<[Top(c) EXCEPT !.op = "ran"]>>, a)
  /\ UNCHANGED calls

RunKillsNone(c) ==
  /\ At(c, "run") /\ Top(c).fn = "kill"
  /\ KillHoldingNone(c, Below(c) \o <<[Top(c) EXCEPT !.op = "ran"]>>)
  /\ UNCHANGED calls

LEMMA RunKillCases ==
  ASSUME NEW c, NEW D, RunKill(c, D)
  PROVE  RunKillsNone(c) \/ \E a \in D : RunKills(c, a)
  BY DEF RunKill, RunKills, RunKillsNone

LEMMA RanFrame ==
  ASSUME TypeOK, NEW c \in Cpus, At(c, "run"), NEW f, f = [Top(c) EXCEPT !.op = "ran"]
  PROVE  f \in Frames /\ Same(Top(c), f) /\ Alternatives("run", "ran")
<1>1. Alternatives("run", "ran")
  BY DEF Alternatives, Serving
<1>2. Top(c) \in Frames /\ Top(c).op = "run"
  BY TopFacts
<1>3. PICK t \in Frames : t = Top(c)
  BY <1>2
<1>4. f \in Frames /\ Same(t, f)
  BY <1>1, <1>2, <1>3, Reopped
<1> QED
  BY <1>1, <1>3, <1>4

LEMMA RunKillsStep ==
  ASSUME CallInv, NEW c \in Cpus, NEW a \in Areas, RunKills(c, a)
  PROVE  CallInv' /\ Grew(c, SettleFrame({}, Retired(a, {Parked})))
<1>1. PICK g, G, S : G = {Parked} /\ S = {} /\ g = SettleFrame(S, Retired(a, G))
  OBVIOUS
<1>2. PICK f : f = [Top(c) EXCEPT !.op = "ran"]
  OBVIOUS
<1>3. f \in Frames /\ Same(Top(c), f)
  BY <1>2, RanFrame DEF CallInv, RunKills
<1>4. S \in SUBSET Cpus /\ Retired(a, G) \in SUBSET Areas /\ Lose(a, G) /\ holds[a] # {}
  BY <1>1 DEF RunKills, KillParked, Retired
<1>5. g \in Frames /\ g.op = "settle" /\ g.todo = {}
  <2>1. PICK F \in SUBSET Areas : F = Retired(a, G)
    BY <1>4
  <2>2. g = SettleFrame(S, F)
    BY <1>1, <2>1
  <2>3. g \in Frames /\ g.op = "settle" /\ g.todo = S
    BY <1>4, <2>2, SettleFrameFacts
  <2> QED
    BY <1>1, <2>3
<1>6. Len(stack[c]) > 0 /\ stack[c][Len(stack[c])].op \in Serving
  BY TopFacts DEF CallInv, RunKills, Serving
<1>7. stack' = [stack EXCEPT ![c] = Append(Below(c) \o <<f>>, g)]
  BY <1>1, <1>2 DEF RunKills, KillParked
<1>8. Grew(c, g) /\ stack' \in [Cpus -> Seq(Frames)]
  BY <1>3, <1>5, <1>6, <1>7, PushedStacks DEF CallInv
<1>9. Fits(c, g)
  BY <1>5, <1>6 DEF Fits
<1>10. /\ window' \in [Cpus -> SUBSET Areas] /\ UNCHANGED <<slot, ipi, heap>>
       /\ calls' \in 0 .. MaxCalls
  BY Types DEF CallInv, RunKills, KillParked
<1>11. CallInv'
  BY <1>1, <1>4, <1>8, <1>9, <1>10, LosingStep
<1> QED
  BY <1>1, <1>8, <1>11

(* The steps that only take the top frame to its next line.                 *)
LEMMA ReopSteps ==
  ASSUME CallInv, NEW c \in Cpus, SendIpi(c) \/ RunFlush(c) \/ RunKillsNone(c)
  PROVE  CallInv' /\ SameStacks
<1>1. CASE SendIpi(c)
  <2>1. Alternatives("ipi", "serve")
    BY DEF Alternatives, Waiting
  <2>2. /\ ipi' \in [Cpus -> BOOLEAN] /\ window' \in [Cpus -> SUBSET Areas]
        /\ UNCHANGED <<slot, holds, above, heap, calls>> /\ At(c, "ipi")
        /\ stack' = ReplaceTop(c, <<[Top(c) EXCEPT !.op = "serve"]>>)
    BY <1>1, Types DEF SendIpi, memory, CallInv
  <2> QED
    BY <2>1, <2>2, ReopStep
<1>2. CASE RunFlush(c)
  <2>1. Alternatives("run", "ran")
    BY DEF Alternatives, Serving
  <2>2. /\ ipi' \in [Cpus -> BOOLEAN] /\ window' \in [Cpus -> SUBSET Areas]
        /\ UNCHANGED <<slot, holds, above, heap, calls>> /\ At(c, "run")
        /\ stack' = ReplaceTop(c, <<[Top(c) EXCEPT !.op = "ran"]>>)
    BY <1>2, Types DEF RunFlush, CallInv
  <2> QED
    BY <2>1, <2>2, ReopStep
<1>3. CASE RunKillsNone(c)
  <2>1. Alternatives("run", "ran")
    BY DEF Alternatives, Serving
  <2>2. /\ ipi' \in [Cpus -> BOOLEAN] /\ window' \in [Cpus -> SUBSET Areas]
        /\ UNCHANGED <<slot, holds, above, heap, calls>> /\ At(c, "run")
        /\ stack' = ReplaceTop(c, <<[Top(c) EXCEPT !.op = "ran"]>>)
    BY <1>3, Types DEF RunKillsNone, KillHoldingNone, memory, CallInv, ReplaceTop
  <2> QED
    BY <2>1, <2>2, ReopStep
<1> QED
  BY <1>1, <1>2, <1>3

LEMMA ServiceSteps ==
  ASSUME CallInv, NEW c \in Cpus, Relieve(c) \/ WaitServe(c)
  PROVE  CallInv'
<1>1. CASE Relieve(c)
  <2>1. Alternatives("relieve", "post") /\ "relieve" \in Calling
    BY DEF Alternatives, Posting, Calling
  <2> QED
    BY <1>1, <2>1, ServiceStep DEF Relieve
<1>2. CASE WaitServe(c)
  <2>1. Alternatives("serve", "check") /\ "serve" \in Calling
    BY DEF Alternatives, Waiting, Calling
  <2> QED
    BY <1>2, <2>1, ServiceStep DEF WaitServe
<1> QED
  BY <1>1, <1>2

LEMMA KillRemoteStep ==
  ASSUME CallInv, NEW c \in Cpus, KillRemote(c)
  PROVE  CallInv' /\ Len(stack[c]) = 0 /\ \E d \in Cpus : Grew(c, CallFrame(d, "kill"))
<1>1. PICK d \in Cpus \ {c} : stack' = [stack EXCEPT ![c] = <<CallFrame(d, "kill")>>]
  BY DEF KillRemote
<1>2. PICK g : g = CallFrame(d, "kill")
  OBVIOUS
<1>3. /\ g \in Frames /\ g.op \in Posting /\ g.op # "settle" /\ g.dst = d /\ ~g.done
      /\ ~Matters(g)
  BY <1>1, <1>2, CallFrameFacts
<1>4. calls' \in 0 .. MaxCalls /\ InUser(c)
  BY CountedType DEF CallInv, KillRemote
<1>5. Len(stack[c]) = 0 /\ Grew(c, g) /\ stack' \in [Cpus -> Seq(Frames)]
  BY <1>1, <1>2, <1>3, <1>4, EnteredStacks DEF CallInv
<1>6. UNCHANGED <<slot, ipi, window, holds, above, heap>>
  BY DEF KillRemote, memory
<1>7. TypeOK'
  BY <1>4, <1>5, <1>6, Types, TypeKept DEF CallInv
<1>8. Shaped'
  <2>1. Fits(c, g)
    BY <1>1, <1>3, <1>5 DEF Fits
  <2> QED
    BY <1>5, <2>1, GrewShaped DEF CallInv
<1>9. Requests'
  BY <1>3, <1>5, <1>6, GrewQuiet, QuietRequests DEF CallInv
<1>10. Blocks'
  BY <1>3, <1>5, <1>6, GrewSettles, QuietBlocks DEF CallInv
<1> QED
  BY <1>1, <1>2, <1>5, <1>7, <1>8, <1>9, <1>10 DEF CallInv

(* The steps that leave stacks and slots alone.                             *)
LEMMA MemoryStep ==
  ASSUME CallInv, NEW c \in Cpus, NEW a \in Areas, Map(c, a) \/ Grant(c, a) \/ MemFault(c, a)
  PROVE  CallInv'
<1>1. UNCHANGED <<slot, ipi, stack, calls>>
  BY DEF Map, Grant, MemFault
<1>2. TypeOK' /\ \A b \in Areas : holds[b] = {} /\ b \notin heap => holds'[b] = {} /\ b \notin heap'
  <2>1. CASE Map(c, a)
    <3>1. /\ holds' = [holds EXCEPT ![a] = {c}] /\ heap' = heap \ {a} /\ a \in heap
          /\ UNCHANGED <<window, above>>
      BY <2>1 DEF Map
    <3>2. /\ holds' \in [Areas -> SUBSET Holders] /\ \A b \in Areas \ {a} : holds'[b] = holds[b]
          /\ heap' \subseteq Areas /\ \A b \in heap' : holds'[b] = {}
      BY <3>1, Types DEF CallInv, Holders
    <3> QED
      BY <1>1, <3>1, <3>2, Types DEF CallInv, TypeOK
  <2>2. CASE Grant(c, a)
    <3>1. PICK h \in Holders \ holds[a] :
             /\ holds' = [holds EXCEPT ![a] = holds[a] \cup {h}]
             /\ above' = [above EXCEPT ![a] = [above[a] EXCEPT ![h] = above[a][h] \cup above[a][c] \cup {c}]]
      BY <2>2 DEF Grant
    <3>2. UNCHANGED <<window, heap>> /\ c \in holds[a]
      BY <2>2 DEF Grant
    <3>3. a \notin heap
      BY <3>2, Types DEF CallInv
    <3>4. /\ holds' \in [Areas -> SUBSET Holders] /\ \A b \in Areas \ {a} : holds'[b] = holds[b]
          /\ heap' \subseteq Areas /\ \A b \in heap' : holds'[b] = {}
      BY <3>1, <3>2, <3>3, Types DEF CallInv
    <3>5. above' \in [Areas -> [Holders -> SUBSET Holders]]
      <4>1. PICK r : r = [above[a] EXCEPT ![h] = above[a][h] \cup above[a][c] \cup {c}]
        OBVIOUS
      <4>2. r \in [Holders -> SUBSET Holders]
        BY <4>1, Types DEF CallInv, Holders
      <4> QED
        BY <3>1, <4>1, <4>2, Types DEF CallInv
    <3> QED
      BY <1>1, <3>2, <3>4, <3>5, Types DEF CallInv, TypeOK
  <2>3. CASE MemFault(c, a)
    <3>1. UNCHANGED <<holds, above, heap>> /\ window' \in [Cpus -> SUBSET Areas]
      BY <2>3, Types DEF CallInv, MemFault
    <3> QED
      BY <1>1, <3>1, Types, TypeKept DEF CallInv
  <2> QED
    BY <2>1, <2>2, <2>3
<1> QED
  BY <1>1, <1>2, StillStacks DEF CallInv

LEMMA CallStutter ==
  ASSUME CallInv, UNCHANGED vars
  PROVE  CallInv'
<1>1. UNCHANGED <<slot, ipi, stack, window, holds, above, heap, calls>>
  BY DEF vars
<1>2. TypeOK'
  BY <1>1, Types, TypeKept DEF CallInv
<1> QED
  BY <1>1, <1>2, StillStacks DEF CallInv

LEMMA InitCallInv == Init => CallInv
<1> SUFFICES ASSUME Init PROVE CallInv
  OBVIOUS
<1>1. TypeOK
  BY CpusAssumption DEF Init, TypeOK, Holders
<1>2. \A c \in Cpus : Len(stack[c]) = 0 /\ slot[c] = Null
  BY DEF Init
<1> QED
  BY <1>1, <1>2 DEF CallInv, Shaped, Requests, SlotFits, Blocks

LEMMA CallInvStep ==
  ASSUME CallInv, [Next]_vars
  PROVE  CallInv'
<1>1. ASSUME NEW c \in Cpus, KernelStep(c, Areas)
      PROVE  CallInv'
  BY <1>1, IpiStep, FinishStep, PostStep, ServiceSteps, ReopSteps, WaitCheckStep, SettleCases,
     SettleFreesStep, SettleCallsStep, RunKillCases, RunKillsStep DEF KernelStep
<1>2. ASSUME NEW c \in Cpus, UserStep(c, Areas)
      PROVE  CallInv'
  BY <1>2, KillRemoteStep, KillHereStep, ReapStep, DropDrops, DropStep, MemoryStep DEF UserStep
<1> QED
  BY <1>1, <1>2, CallStutter DEF Next, UserLoop

-----------------------------------------------------------------------------
(* What the invariant says of the sets that RequestInOnePlace counts.       *)

LEMMA PositionOf ==
  ASSUME NEW x
  PROVE  x \in UNION {{c} \X (1 .. Len(stack[c])) : c \in Cpus}
           <=> \E c \in Cpus : \E i \in 1 .. Len(stack[c]) : x = <<c, i>>
  OBVIOUS

LEMMA RunnerOf ==
  ASSUME TypeOK, Requests, NEW x, NEW y \in Running(x)
  PROVE  \E c \in Cpus : \E i \in 1 .. Len(stack[c]) :
           /\ y = <<c, i>> /\ stack[c][i].op \in Serving /\ stack[c][i].req = x
           /\ x = <<x[1], x[2]>> /\ IsPosted(x[1], x[2], c) /\ slot[c] # x
<1>1. PICK c \in Cpus : \E i \in 1 .. Len(stack[c]) : y = <<c, i>>
  BY PositionOf DEF Running
<1>2. PICK i \in 1 .. Len(stack[c]) : y = <<c, i>>
  BY <1>1
<1>3. stack[c][i].op \in Serving /\ stack[c][i].req = x
  BY <1>2 DEF Running, Serving
<1>4. x = <<x[1], x[2]>>
  BY <1>3, PointerType
<1>5. IsPosted(x[1], x[2], c) /\ slot[c] # x
  BY <1>3, <1>4, ServedIsPosted
<1> QED
  BY <1>2, <1>3, <1>4, <1>5

LEMMA SlotOf ==
  ASSUME TypeOK, Requests, NEW x, x # Null, NEW c \in InSlot(x)
  PROVE  c \in Cpus /\ slot[c] = x /\ IsPosted(x[1], x[2], c)
  BY DEF InSlot, Requests, SlotFits

LEMMA OnePlace ==
  ASSUME CallInv, NEW d \in Cpus, NEW j \in 1 .. Len(stack[d]), stack[d][j].op \in Waiting,
         NEW x, x = <<d, j>>
  PROVE  /\ Cardinality(Running(x)) + Cardinality(InSlot(x)) = IF stack[d][j].done THEN 0 ELSE 1
         /\ InSlot(x) \subseteq {stack[d][j].dst}
         /\ \A y \in Running(x) : y[1] = stack[d][j].dst
<1>1. x # Null /\ x[1] = d /\ x[2] = j
  BY CpusAssumption, StackType DEF CallInv
<1>2. \A c \in InSlot(x) : c \in Cpus /\ slot[c] = x /\ IsPosted(d, j, c)
  BY <1>1, SlotOf DEF CallInv
<1>3. \A y \in Running(x) : \E c \in Cpus : \E i \in 1 .. Len(stack[c]) :
        /\ y = <<c, i>> /\ stack[c][i].op \in Serving /\ stack[c][i].req = x
        /\ IsPosted(d, j, c) /\ slot[c] # x
  BY <1>1, RunnerOf DEF CallInv
<1>4. InSlot(x) \subseteq {stack[d][j].dst} /\ \A y \in Running(x) : y[1] = stack[d][j].dst
  BY <1>2, <1>3 DEF IsPosted
<1>5. CASE stack[d][j].done
  <2>1. InSlot(x) = {} /\ Running(x) = {}
    BY <1>2, <1>3, <1>5 DEF IsPosted
  <2> QED
    <3>1. Cardinality(InSlot(x)) = 0 /\ Cardinality(Running(x)) = 0
      BY <2>1, FS_EmptySet
    <3> QED
      BY <1>4, <1>5, <3>1
<1>6. CASE ~stack[d][j].done
  <2>1. PICK e : e = stack[d][j].dst
    OBVIOUS
  <2>2. e \in Cpus
    <3>1. PICK f \in Frames : f = stack[d][j]
      BY StackType DEF CallInv
    <3>2. f \in CallFrames
      BY <3>1, FrameKinds, OpsDiffer
    <3> QED
      BY <2>1, <3>1, <3>2 DEF CallFrames
  <2>3. \/ slot[e] = x
        \/ \E k \in 1 .. Len(stack[e]) : stack[e][k].op \in Serving /\ stack[e][k].req = x
    BY <1>6, <2>1 DEF CallInv, Requests, Awaited
  <2>4. CASE slot[e] = x
    <3>1. InSlot(x) = {e}
      BY <1>4, <2>1, <2>2, <2>4 DEF InSlot
    <3>2. Running(x) = {}
      BY <1>3, <2>1, <2>4 DEF IsPosted
    <3>3. Cardinality(InSlot(x)) = 1 /\ Cardinality(Running(x)) = 0
      BY <3>1, <3>2, FS_EmptySet, FS_Singleton
    <3> QED
      BY <1>4, <1>6, <3>3
  <2>5. ASSUME NEW k \in 1 .. Len(stack[e]), stack[e][k].op \in Serving, stack[e][k].req = x
        PROVE  Cardinality(Running(x)) + Cardinality(InSlot(x)) = 1
    <3>1. <<e, k>> \in Running(x)
      <4>1. PICK z : z = <<e, k>>
        OBVIOUS
      <4>2. z \in UNION {{c} \X (1 .. Len(stack[c])) : c \in Cpus}
        BY <2>2, <2>5, <4>1, PositionOf
      <4>3. z[1] = e /\ z[2] = k
        BY <4>1
      <4> QED
        BY <2>5, <4>1, <4>2, <4>3 DEF Running, Serving
    <3>2. ASSUME NEW y \in Running(x)
          PROVE  y = <<e, k>>
      <4>1. PICK c \in Cpus : \E i \in 1 .. Len(stack[c]) :
              /\ y = <<c, i>> /\ stack[c][i].op \in Serving /\ stack[c][i].req = x
              /\ IsPosted(d, j, c)
        BY <1>3
      <4>2. c = e
        BY <2>1, <4>1 DEF IsPosted
      <4>3. PICK i \in 1 .. Len(stack[e]) :
              y = <<e, i>> /\ stack[e][i].op \in Serving /\ stack[e][i].req = x
        BY <4>1, <4>2
      <4>4. RunsOnce(e, i, k)
        BY <2>2, <2>5 DEF CallInv, Requests
      <4> QED
        BY <2>5, <4>3, <4>4 DEF RunsOnce
    <3>3. Running(x) = {<<e, k>>}
      BY <3>1, <3>2
    <3>4. InSlot(x) = {}
      <4>1. slot[e] # x
        BY <1>1, <2>2, <2>5, RunnerOf, ServedIsPosted DEF CallInv
      <4> QED
        BY <1>4, <2>1, <4>1 DEF InSlot
    <3>5. Cardinality(InSlot(x)) = 0 /\ Cardinality(Running(x)) = 1
      BY <3>3, <3>4, FS_EmptySet, FS_Singleton
    <3> QED
      BY <3>5
  <2> QED
    BY <1>4, <1>6, <2>3, <2>4, <2>5
<1> QED
  BY <1>5, <1>6

LEMMA CallInvNests == CallInv => RequestsNest
<1> SUFFICES ASSUME CallInv PROVE RequestsNest
  OBVIOUS
<1>1. \A d, j, c : IsPosted(d, j, c) => <<d, j>> \in Posted
  <2> SUFFICES ASSUME NEW d, NEW j, NEW c, IsPosted(d, j, c) PROVE <<d, j>> \in Posted
    OBVIOUS
  <2>1. PICK z : z = <<d, j>>
    OBVIOUS
  <2>2. z \in UNION {{e} \X (1 .. Len(stack[e])) : e \in Cpus}
    BY <2>1, PositionOf DEF IsPosted
  <2>3. z[1] = d /\ z[2] = j
    BY <2>1
  <2> QED
    BY <2>1, <2>2, <2>3 DEF Posted, IsPosted
<1>2. ASSUME NEW x \in Posted
      PROVE  LET f == stack[x[1]][x[2]]
             IN  /\ Cardinality(Running(x)) + Cardinality(InSlot(x)) = IF f.done THEN 0 ELSE 1
                 /\ InSlot(x) \subseteq {f.dst}
                 /\ \A y \in Running(x) : y[1] = f.dst
  <2>1. PICK d \in Cpus : \E j \in 1 .. Len(stack[d]) : x = <<d, j>>
    BY PositionOf DEF Posted
  <2>2. PICK j \in 1 .. Len(stack[d]) : x = <<d, j>>
    BY <2>1
  <2>3. stack[d][j].op \in Waiting /\ x[1] = d /\ x[2] = j
    BY <2>2 DEF Posted
  <2> QED
    BY <2>2, <2>3, OnePlace
<1>3. ASSUME NEW c \in Cpus, slot[c] # Null
      PROVE  slot[c] \in Posted
  <2>1. IsPosted(slot[c][1], slot[c][2], c)
    BY <1>3 DEF CallInv, Requests, SlotFits
  <2>2. slot[c] \in Pointers
    BY <1>3, Types DEF CallInv
  <2>3. slot[c] = <<slot[c][1], slot[c][2]>>
    BY <2>2 DEF Pointers
  <2> QED
    BY <1>1, <2>1, <2>3
<1>4. ASSUME NEW c \in Cpus, NEW i \in DOMAIN stack[c], stack[c][i].op \in {"run", "ran"}
      PROVE  stack[c][i].req \in Posted
  <2>1. i \in 1 .. Len(stack[c]) /\ stack[c][i].op \in Serving
    BY <1>4, StackType DEF CallInv, Serving
  <2>2. PICK d, j : stack[c][i].req = <<d, j>>
    BY <2>1, PointerType DEF CallInv
  <2>3. IsPosted(d, j, c)
    BY <2>1, <2>2, ServedIsPosted DEF CallInv
  <2> QED
    BY <1>1, <2>2, <2>3
<1>5. DepthBounded
  <2> SUFFICES ASSUME NEW c \in Cpus PROVE Len(stack[c]) <= 4
    BY DEF DepthBounded
  <2>1. PICK n \in Nat : n = Len(stack[c])
    BY StackType DEF CallInv
  <2>2. CASE n > 0
    <3>1. n \in 1 .. Len(stack[c])
      BY <2>1, <2>2
    <3>2. CallShape(c, n) /\ RunShape(c, n) /\ SettleShape(c, n)
      BY <3>1 DEF CallInv, Shaped
    <3>3. stack[c][n].op \in Calling \/ stack[c][n].op \in Serving \/ stack[c][n].op = "settle"
      BY <3>1, StackType, FrameKinds DEF CallInv
    <3> QED
      BY <2>1, <3>2, <3>3 DEF CallShape, RunShape, SettleShape
  <2> QED
    BY <2>1, <2>2
<1> QED
  BY <1>2, <1>3, <1>4, <1>5 DEF CallInv, RequestsNest, RequestInOnePlace

LEMMA SettledIsNext ==
  ASSUME [SettledNext]_vars
  PROVE  [Next]_vars
<1>1. Settled \subseteq Areas
  BY DEF Settled
<1>2. ASSUME NEW c \in Cpus, KernelStep(c, Settled)
      PROVE  KernelStep(c, Areas)
  BY <1>1, <1>2 DEF KernelStep, RunKill
<1>3. ASSUME NEW c \in Cpus, UserStep(c, Settled)
      PROVE  UserStep(c, Areas)
  BY <1>1, <1>3 DEF UserStep
<1> QED
  BY <1>2, <1>3 DEF SettledNext, Next

-----------------------------------------------------------------------------
(* The inductive invariant of the calls, whatever programs do.              *)
THEOREM CallInvariant == Spec => []CallInv
<1>1. Init => CallInv
  BY InitCallInv
<1>2. CallInv /\ [Next]_vars => CallInv'
  BY CallInvStep
<1> QED
  BY <1>1, <1>2, PTL DEF Spec

(* A request that is not done is in its target's slot or served there, once,*)
(* one that is done is in neither, and stacks of calls and services are no  *)
(* deeper than four (ulmk_xcall_call, ulmk_xcall_service): for any number of*)
(* CPUs and calls.                                                          *)
THEOREM RequestsCorrect == Spec => []RequestsNest
<1>1. CallInv => RequestsNest
  BY CallInvNests
<1> QED
  BY <1>1, CallInvariant, PTL

-----------------------------------------------------------------------------
(* Whoever reaches a block about to be freed is flushed before.             *)

LEMMA UnflushedKept ==
  ASSUME NEW d, NEW i, NEW e, Unflushed(d, i, e),
         i \in 1 .. Len(stack'[d]), stack'[d][i].op \in Calling,
         stack'[d][i].dst = stack[d][i].dst, stack'[d][i].fn = stack[d][i].fn,
         stack'[d][i].done = stack[d][i].done,
         \A k \in 1 .. Len(stack'[e]) : stack'[e][k].op = "ran" => stack'[e][k].req # <<d, i>>
  PROVE  Unflushed(d, i, e)'
  BY DEF Unflushed

(* A settle keeps its blocks, and calls the CPUs it takes off its mask.     *)
SettleKept(d, i) ==
  /\ WasSettle(d, i)
  /\ \A e \in stack[d][i].todo : e \in stack'[d][i].todo \/ Unflushed(d, i + 1, e)'

SettlesKept ==
  \A d \in Cpus : \A i \in 1 .. Len(stack'[d]) :
    stack'[d][i].op = "settle" => SettleKept(d, i) \/ Covers(d, i)'

(* A flush is asked for until the windows are gone.                         *)
FlushesKept ==
  \A d \in Cpus, i \in Nat, e \in Cpus :
    Unflushed(d, i, e) /\ window'[e] # {} => Unflushed(d, i, e)'

WindowsShrink == \A e \in Cpus : window'[e] \subseteq window[e]

LEMMA CoversKept ==
  ASSUME TypeOK, AllCovered, SettlesKept, FlushesKept, WindowsShrink,
         heap' \subseteq heap \/ FreedUnreachable',
         \A d \in Cpus : Len(stack'[d]) \in Nat
  PROVE  AllCovered'
<1>1. FreedUnreachable'
  BY DEF AllCovered, FreedUnreachable, WindowsShrink
<1>2. ASSUME NEW d \in Cpus, NEW i \in 1 .. Len(stack'[d])
      PROVE  Covers(d, i)'
  <2> SUFFICES ASSUME stack'[d][i].op = "settle", SettleKept(d, i),
                      NEW a \in stack'[d][i].free, NEW e \in Cpus, a \in window'[e]
               PROVE  e \in stack'[d][i].todo \/ Unflushed(d, i + 1, e)'
    BY DEF Covers, SettlesKept
  <2>1. /\ i \in 1 .. Len(stack[d]) /\ stack[d][i].op = "settle" /\ a \in stack[d][i].free
        /\ a \in window[e] /\ window'[e] # {}
    BY DEF SettleKept, WasSettle, WindowsShrink
  <2>2. e \in stack[d][i].todo \/ Unflushed(d, i + 1, e)
    BY <2>1 DEF AllCovered, Covers
  <2>3. i + 1 \in Nat
    OBVIOUS
  <2> QED
    BY <2>1, <2>2, <2>3 DEF SettleKept, FlushesKept
<1> QED
  BY <1>1, <1>2 DEF AllCovered

(* The steps that change CPU c's top frame, number n, and what is above it. *)
Beneath(c, n) ==
  /\ \A d \in Cpus \ {c} : stack'[d] = stack[d]
  /\ \A i \in 1 .. n : i < n => stack'[c][i] = stack[c][i]
  /\ Len(stack'[c]) \in Nat /\ Len(stack'[c]) + 1 \in {n, n + 1, n + 2}

Goes(f, g) ==
  \/ /\ f.op \in Calling /\ g.op \in Calling
     /\ g.dst = f.dst /\ g.fn = f.fn /\ g.done = f.done
  \/ f.op \in Serving /\ g.op \in Serving /\ g.req = f.req /\ g.fn = f.fn

TopGoes(c, n) ==
  n > 0 =>
    \/ /\ Len(stack'[c]) >= n /\ Goes(stack[c][n], stack'[c][n])
       /\ stack'[c][n].op = "ran" => stack[c][n].op = "ran" \/ window'[c] = {} \/ stack[c][n].fn = "kill"
    \/ Len(stack'[c]) < n /\ (stack[c][n].op \in Calling => stack[c][n].done)

NewCovered(c, n) ==
  Len(stack'[c]) = n + 1 =>
    /\ stack'[c][n + 1].op # "ran"
    /\ stack'[c][n + 1].op = "settle" => Covers(c, n + 1)'

LEMMA TopCovered ==
  ASSUME CallInv, AllCovered, NEW c \in Cpus, NEW n \in Nat, n = Len(stack[c]),
         Beneath(c, n), TopGoes(c, n), NewCovered(c, n), WindowsShrink,
         heap' \subseteq heap \/ FreedUnreachable'
  PROVE  AllCovered'
<1>1. /\ \A d \in Cpus \ {c} : stack'[d] = stack[d]
      /\ \A i \in 1 .. n : i < n => stack'[c][i] = stack[c][i]
      /\ Len(stack'[c]) \in Nat /\ Len(stack'[c]) + 1 \in {n, n + 1, n + 2}
  BY DEF Beneath
<1>2. \A d \in Cpus : Len(stack'[d]) \in Nat
  BY <1>1, StackType DEF CallInv
<1>3. ASSUME NEW i \in 1 .. Len(stack'[c])
      PROVE  \/ i < n /\ i \in 1 .. n /\ stack'[c][i] = stack[c][i]
             \/ i = n /\ n > 0 /\ Len(stack'[c]) >= n /\ Goes(stack[c][n], stack'[c][n])
             \/ i = n + 1 /\ Len(stack'[c]) = n + 1
  <2>1. i \in Nat /\ i >= 1 /\ i <= Len(stack'[c])
    BY <1>1
  <2>2. CASE i < n
    BY <1>1, <2>1, <2>2
  <2>3. CASE i = n
    <3>1. n > 0 /\ Len(stack'[c]) >= n /\ ~(Len(stack'[c]) < n)
      BY <1>1, <2>1, <2>3
    <3> QED
      BY <2>3, <3>1 DEF TopGoes
  <2>4. CASE i > n
    BY <1>1, <2>1, <2>4
  <2> QED
    BY <2>1, <2>2, <2>3, <2>4
<1>4. SettlesKept
  <2> SUFFICES ASSUME NEW d \in Cpus, NEW i \in 1 .. Len(stack'[d]), stack'[d][i].op = "settle"
               PROVE  SettleKept(d, i) \/ Covers(d, i)'
    BY DEF SettlesKept
  <2>1. ASSUME stack'[d][i] = stack[d][i], i \in 1 .. Len(stack[d])
        PROVE  SettleKept(d, i)
    BY <2>1 DEF SettleKept, WasSettle
  <2>2. CASE d # c
    BY <1>1, <2>1, <2>2
  <2>3. CASE d = c
    <3>1. CASE i = n + 1 /\ Len(stack'[c]) = n + 1
      BY <2>3, <3>1 DEF NewCovered
    <3>2. CASE i < n /\ i \in 1 .. n /\ stack'[c][i] = stack[c][i]
      BY <2>1, <2>3, <3>2
    <3>3. ~(i = n /\ Goes(stack[c][n], stack'[c][n]))
      BY <2>3, OpsDiffer DEF Goes
    <3> QED
      BY <1>3, <2>3, <3>1, <3>2, <3>3
  <2> QED
    BY <2>2, <2>3
<1>5. FlushesKept
  <2> SUFFICES ASSUME NEW d \in Cpus, NEW i \in Nat, NEW e \in Cpus, Unflushed(d, i, e), window'[e] # {}
               PROVE  Unflushed(d, i, e)'
    BY DEF FlushesKept
  <2>1. i \in 1 .. Len(stack[d]) /\ stack[d][i].op \in Calling /\ ~stack[d][i].done
    BY DEF Unflushed
  <2>2. /\ i \in 1 .. Len(stack'[d]) /\ stack'[d][i].op \in Calling
        /\ stack'[d][i].dst = stack[d][i].dst /\ stack'[d][i].fn = stack[d][i].fn
        /\ stack'[d][i].done = stack[d][i].done
    <3>1. CASE d # c
      BY <1>1, <2>1, <3>1
    <3>2. CASE d = c /\ i < n
      <4>1. stack'[c][i] = stack[c][i] /\ i \in 1 .. Len(stack'[c])
        BY <1>1, <2>1, <3>2
      <4> QED
        BY <2>1, <3>2, <4>1
    <3>3. CASE d = c /\ i = n
      <4>1. n > 0 /\ Len(stack'[c]) >= n /\ Goes(stack[c][n], stack'[c][n])
        BY <2>1, <3>3 DEF TopGoes
      <4>2. n \in 1 .. Len(stack'[c])
        BY <1>1, <4>1
      <4>3. stack[c][n].op \notin Serving
        BY <2>1, <3>3, OpsDiffer
      <4> QED
        BY <3>3, <4>1, <4>2, <4>3 DEF Goes
    <3> QED
      BY <2>1, <3>1, <3>2, <3>3
  <2>3. ASSUME NEW k \in 1 .. Len(stack'[e]), stack'[e][k].op = "ran"
        PROVE  stack'[e][k].req # <<d, i>>
    <3>1. \A m \in 1 .. Len(stack[e]) : stack[e][m].op = "ran" => stack[e][m].req # <<d, i>>
      BY DEF Unflushed
    <3>2. CASE e # c
      BY <1>1, <2>3, <3>1, <3>2
    <3>3. CASE e = c /\ k < n /\ k \in 1 .. n /\ stack'[c][k] = stack[c][k]
      BY <2>3, <3>1, <3>3
    <3>4. CASE e = c /\ k = n + 1 /\ Len(stack'[c]) = n + 1
      BY <2>3, <3>4 DEF NewCovered
    <3>5. CASE e = c /\ k = n /\ n > 0 /\ Len(stack'[c]) >= n /\ Goes(stack[c][n], stack'[c][n])
      <4>1. stack'[c][n].op \in Serving /\ stack'[c][n].op \notin Calling
        BY <2>3, <3>5, OpsDiffer DEF Serving
      <4>2. /\ stack[c][n].op \in Serving /\ stack'[c][n].req = stack[c][n].req
            /\ n \in 1 .. Len(stack[c])
        BY <3>5, <4>1 DEF Goes
      <4>3. stack[c][n].op = "ran" \/ stack[c][n].fn = "kill"
        BY <2>3, <3>5 DEF TopGoes
      <4>4. CASE stack[c][n].op = "ran"
        BY <3>1, <3>5, <4>2, <4>4
      <4>5. CASE stack[c][n].fn = "kill"
        <5>1. stack[c][n].req = <<d, i>> => stack[c][n].fn = stack[d][i].fn
          BY <4>2, ServedIsPosted DEF CallInv
        <5>2. stack[d][i].fn = "flush"
          BY DEF Unflushed
        <5> QED
          BY <3>5, <4>2, <4>5, <5>1, <5>2
      <4> QED
        BY <4>3, <4>4, <4>5
    <3> QED
      BY <1>3, <2>3, <3>2, <3>3, <3>4, <3>5
  <2> QED
    BY <2>2, <2>3, UnflushedKept
<1> QED
  BY <1>2, <1>4, <1>5, CoversKept DEF CallInv

LEMMA GoesOn ==
  ASSUME NEW t \in Frames, NEW o, NEW f, f = [t EXCEPT !.op = o],
         \/ t.op \in Calling /\ o \in Calling
         \/ t.op \in Serving /\ o \in Serving
  PROVE  f \in Frames /\ f.op = o /\ Goes(t, f)
<1>1. CASE t.op \in Calling /\ o \in Calling
  <2>1. t \in CallFrames
    BY <1>1, FrameKinds
  <2>2. f \in CallFrames /\ f.op = o /\ f.dst = t.dst /\ f.fn = t.fn /\ f.done = t.done
    BY <1>1, <2>1 DEF CallFrames
  <2> QED
    BY <1>1, <2>2, FramesOfKinds DEF Goes
<1>2. CASE t.op \in Serving /\ o \in Serving
  <2>1. t \in RunFrames
    BY <1>2, FrameKinds
  <2>2. f \in RunFrames /\ f.op = o /\ f.req = t.req /\ f.fn = t.fn
    BY <1>2, <2>1 DEF RunFrames
  <2> QED
    BY <1>2, <2>2, FramesOfKinds DEF Goes
<1> QED
  BY <1>1, <1>2

(* The top frame goes on; nothing comes above it.                           *)
LEMMA ReopCovered ==
  ASSUME CallInv, AllCovered, NEW c \in Cpus, Len(stack[c]) > 0, NEW f \in Frames,
         Goes(Top(c), f), f.op = "ran" => window'[c] = {} \/ Top(c).fn = "kill",
         stack' = ReplaceTop(c, <<f>>), WindowsShrink, heap' \subseteq heap
  PROVE  AllCovered'
<1>1. PICK n \in Nat : Len(stack[c]) = n + 1 /\ Top(c) = stack[c][n + 1]
  BY HasTop DEF CallInv
<1>2. PICK t : t = Put(c, f)
  OBVIOUS
<1>3. t \in Seq(Frames) /\ Len(t) = n + 1 /\ t[n + 1] = f /\ \A i \in 1 .. n : t[i] = stack[c][i]
  BY <1>1, <1>2, ReplacedTop DEF CallInv
<1>4. stack'[c] = t /\ \A d \in Cpus \ {c} : stack'[d] = stack[d]
  BY <1>2, Types DEF ReplaceTop, Put, CallInv
<1>5. PICK m \in Nat : m = n + 1
  OBVIOUS
<1>6. m = Len(stack[c]) /\ Top(c) = stack[c][m] /\ Len(stack'[c]) = m /\ stack'[c][m] = f
  BY <1>1, <1>3, <1>4, <1>5
<1>7. Beneath(c, m)
  BY <1>3, <1>4, <1>5, <1>6 DEF Beneath
<1>8. TopGoes(c, m)
  BY <1>6 DEF TopGoes
<1>9. NewCovered(c, m)
  BY <1>6 DEF NewCovered
<1> QED
  BY <1>6, <1>7, <1>8, <1>9, TopCovered

(* The top frame goes on, and g comes above it.                             *)
LEMMA PushCovered ==
  ASSUME CallInv, AllCovered, NEW c \in Cpus, Len(stack[c]) > 0, NEW f \in Frames, NEW g \in Frames,
         Goes(Top(c), f), f.op = "ran" => window'[c] = {} \/ Top(c).fn = "kill",
         NEW k \in Nat, k = Len(stack[c]) + 1,
         g.op # "ran", g.op = "settle" => Covers(c, k)',
         stack' = [stack EXCEPT ![c] = Append(Below(c) \o <<f>>, g)],
         WindowsShrink, heap' \subseteq heap
  PROVE  AllCovered'
<1>1. PICK n \in Nat : Len(stack[c]) = n + 1 /\ Top(c) = stack[c][n + 1]
  BY HasTop DEF CallInv
<1>2. PICK s, t : s = Put(c, f) /\ t = Append(s, g)
  OBVIOUS
<1>3. s \in Seq(Frames) /\ Len(s) = n + 1 /\ s[n + 1] = f /\ \A i \in 1 .. n : s[i] = stack[c][i]
  BY <1>1, <1>2, ReplacedTop DEF CallInv
<1>4. t \in Seq(Frames) /\ Len(t) = n + 2 /\ t[n + 2] = g /\ \A i \in 1 .. n + 1 : t[i] = s[i]
  BY <1>2, <1>3, Pushed
<1>5. stack'[c] = t /\ \A d \in Cpus \ {c} : stack'[d] = stack[d]
  BY <1>2, Types DEF Put, CallInv
<1>6. PICK m \in Nat : m = n + 1
  OBVIOUS
<1>7. /\ m = Len(stack[c]) /\ Top(c) = stack[c][m] /\ Len(stack'[c]) = m + 1
      /\ stack'[c][m] = f /\ stack'[c][m + 1] = g
  BY SMTT(30), <1>1, <1>3, <1>4, <1>5, <1>6
<1>8. Beneath(c, m)
  <2>1. ASSUME NEW i \in 1 .. m, i < m
        PROVE  stack'[c][i] = stack[c][i]
    <3>1. i \in 1 .. n /\ i \in 1 .. n + 1
      BY <1>6, <2>1
    <3>2. t[i] = s[i] /\ s[i] = stack[c][i]
      BY <1>3, <1>4, <3>1
    <3> QED
      BY <1>5, <3>2
  <2>2. Len(stack'[c]) \in Nat /\ Len(stack'[c]) + 1 = m + 2
    BY <1>7
  <2> QED
    BY <1>5, <2>1, <2>2 DEF Beneath
<1>9. TopGoes(c, m)
  BY <1>7 DEF TopGoes
<1>10. NewCovered(c, m)
  <2>1. k = m + 1
    BY <1>7
  <2> QED
    BY <1>7, <2>1 DEF NewCovered
<1> QED
  BY <1>7, <1>8, <1>9, <1>10, TopCovered

(* CPU c enters the kernel.                                                 *)
LEMMA EnterCovered ==
  ASSUME CallInv, AllCovered, NEW c \in Cpus, InUser(c), NEW g \in Frames,
         g.op # "ran", g.op = "settle" => Covers(c, 1)',
         \/ stack' = [stack EXCEPT ![c] = <<g>>]
         \/ stack' = [stack EXCEPT ![c] = Append(<<>>, g)],
         WindowsShrink, heap' \subseteq heap
  PROVE  AllCovered'
<1>1. stack'[c] = <<g>> /\ \A d \in Cpus \ {c} : stack'[d] = stack[d]
  <2>1. Append(<<>>, g) = <<g>>
    OBVIOUS
  <2> QED
    BY <2>1, Types DEF CallInv
<1>2. PICK m \in Nat : m = 0
  OBVIOUS
<1>3. m = Len(stack[c]) /\ Len(stack'[c]) = m + 1 /\ stack'[c][m + 1] = g
  BY <1>1, <1>2 DEF InUser
<1>4. Beneath(c, m) /\ TopGoes(c, m)
  BY <1>1, <1>2, <1>3 DEF Beneath, TopGoes
<1>5. NewCovered(c, m)
  BY <1>2, <1>3 DEF NewCovered
<1> QED
  BY <1>3, <1>4, <1>5, TopCovered

(* CPU c returns from its top frame.                                        *)
LEMMA PopCovered ==
  ASSUME CallInv, NEW c \in Cpus, Len(stack[c]) > 0, stack' = ReplaceTop(c, <<>>),
         Top(c).op \in Calling => Top(c).done
  PROVE  Beneath(c, Len(stack[c])) /\ TopGoes(c, Len(stack[c])) /\ NewCovered(c, Len(stack[c]))
<1>1. PICK b : b = Below(c)
  OBVIOUS
<1>2. /\ b \in Seq(Frames) /\ Len(b) = Len(stack[c]) - 1
      /\ \A i \in 1 .. Len(stack[c]) - 1 : b[i] = stack[c][i]
  BY <1>1, BelowFacts DEF CallInv
<1>3. b \o <<>> = b
  BY <1>2, ConcatEmptySeq
<1>4. stack'[c] = b /\ \A d \in Cpus \ {c} : stack'[d] = stack[d]
  BY <1>1, <1>3, Types DEF ReplaceTop, CallInv
<1>5. PICK n \in Nat : Len(stack[c]) = n + 1 /\ Top(c) = stack[c][n + 1]
  BY HasTop DEF CallInv
<1>6. Len(stack'[c]) = n
  BY <1>2, <1>4, <1>5
<1>7. Beneath(c, n + 1) /\ TopGoes(c, n + 1) /\ NewCovered(c, n + 1)
  BY <1>2, <1>4, <1>5, <1>6 DEF Beneath, TopGoes, NewCovered
<1> QED
  BY <1>5, <1>7

LEMMA ReopCoveredSteps ==
  ASSUME CallInv, AllCovered, NEW c \in Cpus, NEW p, At(c, p), NEW o,
         \/ p \in Calling /\ o \in Calling
         \/ p = "run" /\ o = "ran",
         o = "ran" => window'[c] = {} \/ Top(c).fn = "kill",
         stack' = ReplaceTop(c, <<[Top(c) EXCEPT !.op = o]>>), WindowsShrink, heap' = heap
  PROVE  AllCovered'
<1>1. Len(stack[c]) > 0 /\ Top(c) \in Frames /\ Top(c).op = p
  BY TopFacts DEF CallInv
<1>2. PICK f, t : t = Top(c) /\ f = [t EXCEPT !.op = o]
  OBVIOUS
<1>3. f \in Frames /\ f.op = o /\ Goes(t, f)
  BY <1>1, <1>2, GoesOn DEF Serving
<1>4. stack' = ReplaceTop(c, <<f>>) /\ Goes(Top(c), f)
  BY <1>2, <1>3
<1> QED
  BY <1>1, <1>3, <1>4, ReopCovered

LEMMA StillCovered ==
  ASSUME CallInv, AllCovered, UNCHANGED stack, heap' \subseteq heap,
         \A e \in Cpus : \A a \in window'[e] : a \in window[e] \/ holds[a] # {}
  PROVE  AllCovered'
<1>1. FreedUnreachable'
  BY Types DEF CallInv, AllCovered, FreedUnreachable
<1>2. ASSUME NEW d \in Cpus, NEW i \in 1 .. Len(stack'[d])
      PROVE  Covers(d, i)'
  <2> SUFFICES ASSUME stack'[d][i].op = "settle",
                      NEW a \in stack'[d][i].free, NEW e \in Cpus, a \in window'[e]
               PROVE  e \in stack'[d][i].todo \/ Unflushed(d, i + 1, e)'
    BY DEF Covers
  <2>1. i \in 1 .. Len(stack[d]) /\ stack[d][i].op = "settle" /\ a \in stack[d][i].free
    OBVIOUS
  <2>2. a \in window[e]
    BY <2>1 DEF CallInv, Blocks, FreeFits
  <2>3. e \in stack[d][i].todo \/ Unflushed(d, i + 1, e)
    BY <2>1, <2>2 DEF AllCovered, Covers
  <2>4. Unflushed(d, i + 1, e) => Unflushed(d, i + 1, e)'
    BY DEF Unflushed
  <2> QED
    BY <2>3, <2>4
<1> QED
  BY <1>1, <1>2 DEF AllCovered

LEMMA ServiceCovered ==
  ASSUME CallInv, AllCovered, NEW c \in Cpus, NEW p, At(c, p), p \in Calling, NEW o \in Calling,
         Service(c, Below(c) \o <<[Top(c) EXCEPT !.op = o]>>), UNCHANGED <<window, heap>>
  PROVE  AllCovered'
<1>1. WindowsShrink /\ o # "ran"
  BY OpsDiffer DEF WindowsShrink, Serving
<1>2. CASE slot[c] = Null
  <2>1. stack' = ReplaceTop(c, <<[Top(c) EXCEPT !.op = o]>>)
    BY <1>2 DEF Service, ReplaceTop
  <2> QED
    BY <1>1, <2>1, ReopCoveredSteps
<1>3. CASE slot[c] # Null
  <2>1. PICK x, f, t, g : /\ x = slot[c] /\ t = Top(c) /\ f = [t EXCEPT !.op = o]
                          /\ g = RunFrame(x, stack[x[1]][x[2]].fn)
    OBVIOUS
  <2>2. Len(stack[c]) > 0 /\ t \in Frames /\ t.op = p
    BY <2>1, TopFacts DEF CallInv
  <2>3. f \in Frames /\ f.op = o /\ Goes(t, f)
    BY <2>1, <2>2, GoesOn
  <2>4. g \in Frames /\ g.op = "run"
    BY <1>3, <2>1, RunFrameType DEF RunFrame
  <2>5. stack' = [stack EXCEPT ![c] = Append(Below(c) \o <<f>>, g)] /\ Goes(Top(c), f)
    BY <1>3, <2>1, <2>3 DEF Service
  <2>6. PICK k \in Nat : k = Len(stack[c]) + 1
    BY StackType DEF CallInv
  <2> QED
    BY <1>1, <2>2, <2>3, <2>4, <2>5, <2>6, PushCovered
<1> QED
  BY <1>2, <1>3

LEMMA CallsCovered ==
  ASSUME CallInv, AllCovered, NEW c \in Cpus,
         Post(c) \/ Relieve(c) \/ SendIpi(c) \/ WaitServe(c) \/ WaitCheck(c)
  PROVE  AllCovered'
<1>1. UNCHANGED <<window, heap>> /\ WindowsShrink
  BY DEF Post, Relieve, SendIpi, WaitServe, WaitCheck, memory, WindowsShrink
<1>2. /\ {"post", "relieve", "ipi", "serve", "check"} \subseteq Calling
      /\ "ran" \notin Calling
  BY DEF Calling, Posting, Waiting
<1>3. CASE Post(c)
  <2>1. PICK o : o \in {"ipi", "relieve"} /\ stack' = ReplaceTop(c, <<[Top(c) EXCEPT !.op = o]>>)
    BY <1>3 DEF Post
  <2>2. At(c, "post") /\ "post" \in Calling /\ o \in Calling /\ o # "ran"
    BY <1>2, <1>3, <2>1 DEF Post
  <2> QED
    BY <1>1, <2>1, <2>2, ReopCoveredSteps
<1>4. CASE Relieve(c)
  BY <1>1, <1>2, <1>4, ServiceCovered DEF Relieve
<1>5. CASE SendIpi(c)
  BY <1>1, <1>2, <1>5, ReopCoveredSteps DEF SendIpi
<1>6. CASE WaitServe(c)
  BY <1>1, <1>2, <1>6, ServiceCovered DEF WaitServe
<1>7. CASE WaitCheck(c) /\ ~Top(c).done
  BY <1>1, <1>2, <1>7, ReopCoveredSteps DEF WaitCheck
<1>8. CASE WaitCheck(c) /\ Top(c).done
  <2>1. PICK n \in Nat : n = Len(stack[c]) /\ n > 0
    BY <1>8, StackType, TopFacts DEF CallInv, WaitCheck
  <2>2. stack' = ReplaceTop(c, <<>>)
    BY <1>8 DEF WaitCheck
  <2>3. Beneath(c, n) /\ TopGoes(c, n) /\ NewCovered(c, n)
    BY <1>8, <2>1, <2>2, PopCovered
  <2> QED
    BY <1>1, <2>1, <2>3, TopCovered
<1> QED
  BY <1>3, <1>4, <1>5, <1>6, <1>7, <1>8

LEMMA IpiCovered ==
  ASSUME CallInv, AllCovered, NEW c \in Cpus, IpiFromIsr(c)
  PROVE  AllCovered'
<1>1. UNCHANGED <<window, heap>> /\ WindowsShrink /\ InUser(c)
  BY DEF IpiFromIsr, memory, WindowsShrink
<1>2. CASE slot[c] = Null
  <2>1. stack' = [stack EXCEPT ![c] = <<>>] /\ stack[c] = <<>>
    BY <1>2 DEF Service, IpiFromIsr, InUser
  <2>2. stack' = stack
    BY <2>1, Types DEF CallInv
  <2> QED
    BY <1>1, <2>2, StillCovered
<1>3. CASE slot[c] # Null
  <2>1. PICK x, g : x = slot[c] /\ g = RunFrame(x, stack[x[1]][x[2]].fn)
    OBVIOUS
  <2>2. g \in Frames /\ g.op = "run"
    BY <1>3, <2>1, RunFrameType DEF RunFrame
  <2>3. stack' = [stack EXCEPT ![c] = Append(<<>>, g)]
    BY <1>3, <2>1 DEF Service, IpiFromIsr
  <2> QED
    BY <1>1, <2>2, <2>3, EnterCovered
<1> QED
  BY <1>2, <1>3

LEMMA RunsCovered ==
  ASSUME CallInv, AllCovered, NEW c \in Cpus, RunFlush(c) \/ RunKillsNone(c)
  PROVE  AllCovered'
<1>1. CASE RunFlush(c)
  <2>1. window'[c] = {} /\ WindowsShrink
    BY <1>1, Types DEF RunFlush, WindowsShrink, CallInv
  <2> QED
    BY <1>1, <2>1, ReopCoveredSteps DEF RunFlush
<1>2. CASE RunKillsNone(c)
  <2>1. /\ UNCHANGED heap /\ WindowsShrink /\ At(c, "run") /\ Top(c).fn = "kill"
        /\ stack' = ReplaceTop(c, <<[Top(c) EXCEPT !.op = "ran"]>>)
    BY <1>2 DEF RunKillsNone, KillHoldingNone, WindowsShrink, memory, ReplaceTop
  <2> QED
    BY <2>1, ReopCoveredSteps
<1> QED
  BY <1>1, <1>2

LEMMA MemoryCovered ==
  ASSUME CallInv, AllCovered, NEW c \in Cpus, NEW a \in Areas,
         Map(c, a) \/ Grant(c, a) \/ MemFault(c, a)
  PROVE  AllCovered'
<1>1. UNCHANGED stack /\ heap' \subseteq heap
  BY DEF Map, Grant, MemFault
<1>2. \A e \in Cpus : \A b \in window'[e] : b \in window[e] \/ holds[b] # {}
  <2>1. CASE Map(c, a) \/ Grant(c, a)
    <3>1. UNCHANGED window
      BY <2>1 DEF Map, Grant
    <3> QED
      BY <3>1
  <2>2. CASE MemFault(c, a)
    <3>1. window' = [window EXCEPT ![c] = window[c] \cup {a}] /\ c \in holds[a]
      BY <2>2 DEF MemFault
    <3>2. window \in [Cpus -> SUBSET Areas]
      BY Types DEF CallInv
    <3> QED
      BY <3>1, <3>2
  <2> QED
    BY <2>1, <2>2
<1> QED
  BY <1>1, <1>2, StillCovered

(* A new settle: only CPUs whose thread holds the area reach it, the others *)
(* having been flushed before (Settled).                                    *)
LEMMA LosingCovered ==
  ASSUME NEW c, NEW k, NEW a \in Settled, NEW G, NEW S,
         stack'[c][k] = SettleFrame(S, Retired(a, G)), WindowsShrink,
         \A e \in Cpus : e \in G /\ e \notin S => a \notin window'[e]
  PROVE  Covers(c, k)'
<1>1. stack'[c][k].free = Retired(a, G) /\ stack'[c][k].todo = S
  BY DEF SettleFrame
<1> SUFFICES ASSUME NEW b \in Retired(a, G), NEW e \in Cpus, b \in window'[e]
             PROVE  e \in S
  BY <1>1 DEF Covers
<1>2. b = a /\ holds[a] \subseteq G
  BY DEF Retired
<1>3. a \in window[e]
  BY <1>2 DEF WindowsShrink
<1>4. e \in holds[a]
  BY <1>3 DEF Settled
<1> QED
  BY <1>2, <1>4

LEMMA EnteredCovered ==
  ASSUME CallInv, AllCovered, NEW c \in Cpus, InUser(c), NEW a \in Settled, NEW G,
         NEW S \in SUBSET Cpus, NEW g, g = SettleFrame(S, Retired(a, G)),
         \/ stack' = [stack EXCEPT ![c] = <<g>>]
         \/ stack' = [stack EXCEPT ![c] = Append(<<>>, g)],
         WindowsShrink, heap' = heap,
         \A e \in Cpus : e \in G /\ e \notin S => a \notin window'[e]
  PROVE  AllCovered'
<1>1. Retired(a, G) \in SUBSET Areas
  BY DEF Retired, Settled
<1>2. g \in Frames /\ g.op = "settle"
  BY <1>1, SettleFrameFacts
<1>3. stack'[c][1] = g
  <2>1. Append(<<>>, g) = <<g>>
    OBVIOUS
  <2>2. stack'[c] = <<g>>
    BY <2>1, Types DEF CallInv
  <2> QED
    BY <2>2
<1>4. Covers(c, 1)'
  BY <1>3, LosingCovered
<1> QED
  BY <1>2, <1>4, EnterCovered

LEMMA DeathsCovered ==
  ASSUME CallInv, AllCovered, NEW c \in Cpus, NEW a \in Settled, KillHere(c, a) \/ Reap(c, a)
  PROVE  AllCovered'
<1>1. CASE KillHere(c, a)
  <2>1. PICK g, G, S : G = {Parked} /\ S = {} /\ g = SettleFrame(S, Retired(a, G))
    OBVIOUS
  <2>2. /\ InUser(c) /\ WindowsShrink /\ heap' = heap /\ S \in SUBSET Cpus
        /\ stack' = [stack EXCEPT ![c] = Append(<<>>, g)]
    BY <1>1, <2>1 DEF KillHere, Counted, KillParked, WindowsShrink
  <2>3. \A e \in Cpus : e \in G /\ e \notin S => a \notin window'[e]
    BY <2>1, CpusAssumption
  <2> QED
    BY <2>1, <2>2, <2>3, EnteredCovered
<1>2. CASE Reap(c, a)
  <2>1. PICK g, G, S : G = {c} /\ S = {} /\ g = SettleFrame(S, Retired(a, G))
    OBVIOUS
  <2>2. /\ InUser(c) /\ heap' = heap /\ S \in SUBSET Cpus
        /\ stack' = [stack EXCEPT ![c] = <<g>>]
    BY <1>2, <2>1 DEF Reap, Counted
  <2>3. WindowsShrink /\ window'[c] = {}
    BY <1>2, Types DEF Reap, WindowsShrink, CallInv
  <2>4. \A e \in Cpus : e \in G /\ e \notin S => a \notin window'[e]
    BY <2>1, <2>3
  <2> QED
    BY <2>1, <2>2, <2>3, <2>4, EnteredCovered
<1> QED
  BY <1>1, <1>2

LEMMA DropCovered ==
  ASSUME CallInv, AllCovered, NEW c \in Cpus, NEW a \in Settled, NEW t, Drops(c, a, t)
  PROVE  AllCovered'
<1>1. PICK g, G, S : /\ G = Derived(a, t) /\ S = Shootdown(c, G)
                     /\ g = SettleFrame(S, Retired(a, G))
  OBVIOUS
<1>2. InUser(c) /\ heap' = heap /\ stack' = [stack EXCEPT ![c] = <<g>>]
  BY <1>1 DEF Drops, Counted
<1>3. S \in SUBSET Cpus /\ \A e \in Cpus : e \in G /\ e \notin S => e = c
  BY <1>1 DEF Shootdown
<1>4. WindowsShrink /\ (c \in G => window'[c] = {})
  BY <1>1, Types DEF Drops, WindowsShrink, CallInv
<1>5. \A e \in Cpus : e \in G /\ e \notin S => a \notin window'[e]
  BY <1>3, <1>4
<1> QED
  BY <1>1, <1>2, <1>3, <1>4, <1>5, EnteredCovered

LEMMA RunKillsCovered ==
  ASSUME CallInv, AllCovered, NEW c \in Cpus, NEW a \in Settled, RunKills(c, a)
  PROVE  AllCovered'
<1>1. PICK g, G, S : G = {Parked} /\ S = {} /\ g = SettleFrame(S, Retired(a, G))
  OBVIOUS
<1>2. PICK t, f : t = Top(c) /\ f = [t EXCEPT !.op = "ran"]
  OBVIOUS
<1>3. Len(stack[c]) > 0 /\ t \in Frames /\ t.op = "run" /\ t.fn = "kill"
  BY <1>2, TopFacts DEF CallInv, RunKills
<1>4. f \in Frames /\ Goes(Top(c), f)
  BY <1>2, <1>3, GoesOn DEF Serving
<1>5. /\ WindowsShrink /\ heap' = heap /\ S \in SUBSET Cpus
      /\ stack' = [stack EXCEPT ![c] = Append(Below(c) \o <<f>>, g)]
  BY <1>1, <1>2 DEF RunKills, KillParked, WindowsShrink
<1>6. g \in Frames /\ g.op = "settle" /\ g.op # "ran"
  <2>1. PICK F \in SUBSET Areas : F = Retired(a, G)
    BY DEF Retired, Settled
  <2>2. g = SettleFrame(S, F)
    BY <1>1, <2>1
  <2> QED
    BY <1>5, <2>2, SettleFrameFacts
<1>7. PICK k \in Nat : k = Len(stack[c]) + 1
  BY StackType DEF CallInv
<1>8. stack'[c][k] = g
  BY <1>1, <1>7, RunKillsStep DEF Grew, Settled
<1>9. \A e \in Cpus : e \in G /\ e \notin S => a \notin window'[e]
  BY <1>1, CpusAssumption
<1>10. Covers(c, k)'
  BY <1>1, <1>5, <1>8, <1>9, LosingCovered
<1> QED
  BY <1>2, <1>3, <1>4, <1>5, <1>6, <1>7, <1>10, PushCovered

LEMMA KillRemoteCovered ==
  ASSUME CallInv, AllCovered, NEW c \in Cpus, KillRemote(c)
  PROVE  AllCovered'
<1>1. PICK d \in Cpus \ {c} : stack' = [stack EXCEPT ![c] = <<CallFrame(d, "kill")>>]
  BY DEF KillRemote
<1>2. PICK g : g = CallFrame(d, "kill")
  OBVIOUS
<1>3. g \in Frames /\ g.op = "post"
  BY <1>1, <1>2, CallFrameFacts DEF CallFrame
<1>4. WindowsShrink /\ heap' = heap /\ InUser(c)
  BY DEF KillRemote, Counted, memory, WindowsShrink
<1> QED
  BY <1>1, <1>2, <1>3, <1>4, EnterCovered

(* Nobody reaches the blocks of a settle with no CPU left to call.          *)
LEMMA SettleFreesCovered ==
  ASSUME CallInv, AllCovered, NEW c \in Cpus, SettleFrees(c)
  PROVE  AllCovered'
<1>1. PICK n \in Nat : /\ n = Len(stack[c]) /\ n \in 1 .. Len(stack[c]) /\ Top(c) = stack[c][n]
                       /\ Top(c).op = "settle"
  BY StackType, TopFacts DEF CallInv, SettleFrees
<1>2. Beneath(c, n) /\ TopGoes(c, n) /\ NewCovered(c, n)
  BY <1>1, PopCovered, OpsDiffer DEF SettleFrees
<1>3. WindowsShrink
  BY DEF SettleFrees, WindowsShrink
<1>4. \A e \in Cpus : ~Unflushed(c, n + 1, e)
  BY <1>1 DEF Unflushed
<1>5. \A a \in Top(c).free, e \in Cpus : a \notin window[e]
  BY <1>1, <1>4 DEF AllCovered, Covers, SettleFrees
<1>6. FreedUnreachable'
  BY <1>5 DEF FreedUnreachable, AllCovered, SettleFrees
<1> QED
  BY <1>1, <1>2, <1>3, <1>6, TopCovered

(* The CPU that leaves the mask is called.                                  *)
LEMMA SettleCallsCovered ==
  ASSUME CallInv, AllCovered, NEW c \in Cpus, NEW d, SettleCalls(c, d)
  PROVE  AllCovered'
<1>1. PICK g : g = CallFrame(d, "flush")
  OBVIOUS
<1>2. /\ d \in Cpus /\ d # c /\ Len(stack[c]) = 1 /\ Grew(c, g)
      /\ stack' \in [Cpus -> Seq(Frames)]
      /\ Top(c) = stack[c][1] /\ stack'[c][1].free = stack[c][1].free
      /\ stack'[c][1].todo = stack[c][1].todo \ {d}
  BY <1>1, SettleCallsStacks
<1>3. g.op \in Calling /\ g.op # "settle" /\ g.op # "ran" /\ g.dst = d /\ g.fn = "flush" /\ ~g.done
  BY <1>1, <1>2, CallFrameFacts, OpsDiffer DEF Serving
<1>4. Len(stack'[c]) = 2 /\ stack'[c][2] = g
  BY <1>2 DEF Grew
<1>5. stack[c][1].op = "settle" /\ stack'[c][1].op = "settle"
  <2>1. stack[c][1].op = "settle"
    BY <1>2, TopFacts DEF SettleCalls, CallInv
  <2>2. Same(stack[c][1], stack'[c][1])
    BY <1>2 DEF Grew, Keeps
  <2> QED
    BY <2>1, <2>2, SameKind
<1>6. \A e \in Cpus \ {c} : stack'[e] = stack[e]
  BY Types DEF SettleCalls, ReplaceTop, CallInv
<1>7. Unflushed(c, 2, d)'
  <2>1. ASSUME NEW k \in 1 .. Len(stack[d]), stack[d][k].op = "ran", stack[d][k].req = <<c, 2>>
        PROVE  FALSE
    <3>1. stack[d][k].op \in Serving
      BY <2>1 DEF Serving
    <3>2. IsPosted(c, 2, d)
      BY <1>2, <2>1, <3>1, ServedIsPosted DEF CallInv
    <3> QED
      BY <1>2, <3>2 DEF IsPosted
  <2>2. stack'[d] = stack[d]
    BY <1>2, <1>6
  <2> QED
    BY <1>3, <1>4, <2>1, <2>2 DEF Unflushed
<1>8. SettlesKept
  <2> SUFFICES ASSUME NEW e \in Cpus, NEW i \in 1 .. Len(stack'[e]), stack'[e][i].op = "settle"
               PROVE  SettleKept(e, i)
    BY DEF SettlesKept
  <2>1. CASE e # c
    BY <1>6, <2>1 DEF SettleKept, WasSettle
  <2>2. CASE e = c
    <3>1. i = 1
      BY <1>3, <1>4, <2>2
    <3>2. WasSettle(c, 1)
      BY <1>2, <1>5 DEF WasSettle
    <3>3. \A b \in stack[c][1].todo : b \in stack'[c][1].todo \/ b = d
      BY <1>2
    <3>4. \A b \in stack[c][1].todo : b \in stack'[c][1].todo \/ Unflushed(c, 1 + 1, b)'
      BY <1>7, <3>3
    <3> QED
      BY <2>2, <3>1, <3>2, <3>4 DEF SettleKept
  <2> QED
    BY <2>1, <2>2
<1>9. FlushesKept
  <2> SUFFICES ASSUME NEW b \in Cpus, NEW i \in Nat, NEW e \in Cpus, Unflushed(b, i, e)
               PROVE  Unflushed(b, i, e)'
    BY DEF FlushesKept
  <2>1. i \in 1 .. Len(stack[b]) /\ stack[b][i].op \in Calling
    BY DEF Unflushed
  <2>2. b # c
    BY <1>2, <1>5, <2>1, OpsDiffer
  <2>3. stack'[b] = stack[b]
    BY <1>6, <2>2
  <2>4. ASSUME NEW k \in 1 .. Len(stack'[e]), stack'[e][k].op = "ran"
        PROVE  stack'[e][k].req # <<b, i>>
    <3>1. e # c
      BY <1>3, <1>4, <1>5, <2>4
    <3> QED
      BY <1>6, <2>4, <3>1 DEF Unflushed
  <2> QED
    BY <2>1, <2>3, <2>4, UnflushedKept
<1>10. WindowsShrink /\ heap' = heap
  BY DEF SettleCalls, memory, WindowsShrink
<1>11. \A e \in Cpus : Len(stack'[e]) \in Nat
  BY <1>2
<1> QED
  BY <1>8, <1>9, <1>10, <1>11, CoversKept DEF CallInv

(* The request of a CPU that has been flushed is done.                      *)
LEMMA FinishCovered ==
  ASSUME CallInv, AllCovered, NEW c \in Cpus, Finish(c)
  PROVE  AllCovered'
<1>1. stack' \in [Cpus -> Seq(Frames)]
  BY FinishAnswers
<1>2. PICK d, j : Answers(c, d, j) /\ IsPosted(d, j, c) /\ Unmoved(d, j)
  BY FinishAnswers
<1>3. PICK n \in Nat : /\ n = Len(stack[c]) /\ n \in 1 .. Len(stack[c])
                       /\ stack[c][n].op = "ran" /\ Len(stack'[c]) = n - 1
                       /\ stack[c][n].req = <<d, j>>
  <2>1. PICK n \in Nat : /\ n = Len(stack[c]) /\ n \in 1 .. Len(stack[c])
                         /\ Top(c) = stack[c][n] /\ Top(c).op = "ran"
    BY StackType, TopFacts DEF CallInv, Finish
  <2> QED
    BY <1>2, <2>1 DEF Answers, Lost
<1>4. d \in Cpus /\ d # c /\ Len(stack'[d]) = Len(stack[d]) /\ stack'[d][j].op \in Waiting
  BY <1>2 DEF Answers, IsPosted
<1>5. \A e \in Cpus \ {c} : Len(stack'[e]) = Len(stack[e])
  BY <1>2 DEF Answers
<1>6. stack'[d][j].op # "settle" /\ stack'[d][j].op # "ran"
  BY <1>4, OpsDiffer DEF Serving
<1>7. \A e \in Cpus : \A i \in 1 .. Len(stack'[e]) :
        e # d \/ i # j => i \in 1 .. Len(stack[e]) /\ stack'[e][i] = stack[e][i]
  BY <1>2 DEF Unmoved
<1>8. SettlesKept
  <2> SUFFICES ASSUME NEW e \in Cpus, NEW i \in 1 .. Len(stack'[e]), stack'[e][i].op = "settle"
               PROVE  SettleKept(e, i)
    BY DEF SettlesKept
  <2>1. e # d \/ i # j
    BY <1>6
  <2> QED
    BY <1>7, <2>1 DEF SettleKept, WasSettle
<1>9. FlushesKept
  <2> SUFFICES ASSUME NEW b \in Cpus, NEW i \in Nat, NEW e \in Cpus, Unflushed(b, i, e)
               PROVE  Unflushed(b, i, e)'
    BY DEF FlushesKept
  <2>1. /\ i \in 1 .. Len(stack[b]) /\ stack[b][i].op \in Calling /\ stack[b][i].dst = e
        /\ \A k \in 1 .. Len(stack[e]) : stack[e][k].op = "ran" => stack[e][k].req # <<b, i>>
    BY DEF Unflushed
  <2>2. b # d \/ i # j
    <3> SUFFICES ASSUME b = d, i = j PROVE FALSE
      OBVIOUS
    <3>1. e = c
      BY <1>2, <2>1 DEF IsPosted
    <3> QED
      BY <1>3, <2>1, <3>1
  <2>3. i \in 1 .. Len(stack'[b])
    <3>1. CASE b # c
      BY <1>5, <2>1, <3>1
    <3>2. CASE b = c
      <4>1. i # n
        BY <1>3, <2>1, <3>2, OpsDiffer DEF Serving
      <4> QED
        BY <1>3, <2>1, <3>2, <4>1
    <3> QED
      BY <3>1, <3>2
  <2>4. stack'[b][i] = stack[b][i]
    BY <1>7, <2>2, <2>3
  <2>5. ASSUME NEW k \in 1 .. Len(stack'[e]), stack'[e][k].op = "ran"
        PROVE  stack'[e][k].req # <<b, i>>
    <3>1. e # d \/ k # j
      BY <1>6, <2>5
    <3>2. k \in 1 .. Len(stack[e]) /\ stack'[e][k] = stack[e][k]
      BY <1>7, <3>1
    <3> QED
      BY <2>1, <2>5, <3>2
  <2> QED
    BY <2>1, <2>3, <2>4, <2>5, UnflushedKept
<1>10. WindowsShrink /\ heap' = heap
  BY DEF Finish, memory, WindowsShrink
<1>11. \A e \in Cpus : Len(stack'[e]) \in Nat
  BY <1>1
<1> QED
  BY <1>8, <1>9, <1>10, <1>11, CoversKept DEF CallInv

LEMMA InitAllCovered == Init => AllCovered
<1> SUFFICES ASSUME Init PROVE AllCovered
  OBVIOUS
<1>1. \A c \in Cpus : Len(stack[c]) = 0 /\ window[c] = {}
  BY DEF Init
<1> QED
  BY <1>1 DEF AllCovered, FreedUnreachable

LEMMA AllCoveredStep ==
  ASSUME CallInv, AllCovered, [SettledNext]_vars
  PROVE  AllCovered'
<1>1. ASSUME NEW c \in Cpus, KernelStep(c, Settled)
      PROVE  AllCovered'
  BY <1>1, IpiCovered, FinishCovered, CallsCovered, RunsCovered, SettleCases, SettleFreesCovered,
     SettleCallsCovered, RunKillCases, RunKillsCovered DEF KernelStep
<1>2. ASSUME NEW c \in Cpus, UserStep(c, Settled)
      PROVE  AllCovered'
  BY <1>2, KillRemoteCovered, DeathsCovered, DropDrops, DropCovered, MemoryCovered DEF UserStep
<1>3. CASE UNCHANGED vars
  <2>1. UNCHANGED <<stack, window, heap>>
    BY <1>3 DEF vars
  <2> QED
    BY <2>1, StillCovered
<1> QED
  BY <1>1, <1>2, <1>3 DEF SettledNext, UserLoop

-----------------------------------------------------------------------------
(* A block goes back to the heap only when no CPU can reach it through its  *)
(* windows (mem_settle, ulmk_kern_area_dropped), however calls nest and     *)
(* requests are served meanwhile, when programs drop an area only once its  *)
(* last drop is settled; for any number of CPUs, areas and calls.           *)
THEOREM BlocksUnreachable == SettledSpec => []FreedUnreachable
<1>1. Init => CallInv /\ AllCovered
  BY InitCallInv, InitAllCovered
<1>2. CallInv /\ AllCovered /\ [SettledNext]_vars => (CallInv /\ AllCovered)'
  BY SettledIsNext, CallInvStep, AllCoveredStep
<1>3. CallInv /\ AllCovered => FreedUnreachable
  BY DEF AllCovered
<1> QED
  BY <1>1, <1>2, <1>3, PTL DEF SettledSpec
=============================================================================
