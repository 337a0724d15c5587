---------------------------- MODULE KernelProofs ----------------------------
(***************************************************************************)
(* Type correctness of Kernel for every program, and its safety core for   *)
(* every program that neither suspends threads nor answers a call that no  *)
(* server has received (CoreSpec), for any threads, endpoints,             *)
(* notifications and priorities.                                           *)
(*                                                                         *)
(* The inductive invariant says, next to the properties themselves, where  *)
(* a thread can be: a READY thread is on the run queue and nowhere else, a *)
(* queue or a waiter slot names only threads blocked there, the thread in  *)
(* user code is RUNNING.  So the thread that makes a system call is on no  *)
(* list, and the thread that an event wakes is on none of the others.      *)
(*                                                                         *)
(* The parts after it add what a wait leaves in a TCB, MCKernel's remote   *)
(* procedure calls, and callers of servers that die.                       *)
(***************************************************************************)
EXTENDS MCKernel, SequenceTheorems, WellFoundedInduction, TLAPS

-----------------------------------------------------------------------------
(* The operators of RunQueue, for any set of threads and any number of      *)
(* priorities.                                                              *)

(* sys_dlist_remove of a node from a list leaves a list.                    *)
LEMMA UnlinkType ==
  ASSUME NEW S, NEW s \in Seq(S), NEW t
  PROVE  Unlink(s, t) \in Seq(S)
<1>1. CASE \E i \in DOMAIN s : s[i] = t
  <2> DEFINE k == CHOOSE i \in DOMAIN s : s[i] = t
             u == [j \in 1 .. Len(s) - 1 |-> IF j < k THEN s[j] ELSE s[j + 1]]
  <2>1. k \in 1 .. Len(s) /\ Len(s) \in Nat
    BY <1>1
  <2>2. u \in [1 .. Len(s) - 1 -> S]
    <3> SUFFICES ASSUME NEW j \in 1 .. Len(s) - 1
                 PROVE  s[j] \in S /\ s[j + 1] \in S
      OBVIOUS
    <3> j \in 1 .. Len(s) /\ j + 1 \in 1 .. Len(s)
      BY <2>1
    <3> QED
      BY ElementOfSeq
  <2>3. Len(s) - 1 \in Nat
    BY <2>1
  <2>4. u \in Seq(S)
    BY <2>2, <2>3, IsASeq
  <2> QED
    BY <1>1, <2>4 DEF Unlink
<1>2. CASE ~ \E i \in DOMAIN s : s[i] = t
  BY <1>2 DEF Unlink
<1> QED
  BY <1>1, <1>2

(* A non-empty set of priorities has a lowest one, so the first set bit of  *)
(* a bitmap is a priority whose bit is set.                                 *)
LEMMA MinPrio ==
  ASSUME NEW B \in SUBSET Prio, B # {}
  PROVE  Min(B) \in B /\ \A p \in B : Min(B) <= p
<1>1. B \subseteq Nat
  BY MaxPrioAssumption DEF Prio
<1> DEFINE R == {ss \in Nat \X Nat : ss[1] < ss[2]}
<1>2. IsWellFoundedOn(R, Nat)
  BY NatLessThanWellFounded, Zenon DEF OpToRel
<1>3. PICK x \in B : \A y \in B : ~ (<<y, x>> \in R)
  <2> HIDE DEF R
  <2> QED
    BY <1>1, <1>2, WFMin
<1>4. \A y \in B : x <= y
  <2> SUFFICES ASSUME NEW y \in B, y < x
               PROVE  FALSE
    BY <1>1
  <2>1. <<y, x>> \in Nat \X Nat /\ <<y, x>>[1] < <<y, x>>[2]
    BY <1>1
  <2>2. <<y, x>> \in R
    BY <2>1
  <2> QED
    BY <1>3, <2>2
<1> QED
  BY <1>4 DEF Min

LEMMA RqFirstType ==
  ASSUME NEW q \in RqType
  PROVE  RqFirst(q) \in Prio
<1>1. q.bitmap \in SUBSET Prio /\ MaxPrio \in Prio
  BY MaxPrioAssumption DEF RqType, Prio
<1> QED
  BY <1>1, MinPrio DEF RqFirst

LEMMA RqNextType ==
  ASSUME NEW q \in RqType, NEW none
  PROVE  RqNext(q, none) \in AllThreads \cup {none}
<1>1. q.level[RqFirst(q)] \in Seq(AllThreads)
  BY RqFirstType DEF RqType
<1> HIDE DEF AllThreads
<1>2. q.level[RqFirst(q)] # <<>> => Head(q.level[RqFirst(q)]) \in AllThreads
  BY <1>1, HeadTailProperties
<1> QED
  BY <1>2 DEF RqNext

(* The four operations of the class turn a run queue into a run queue.      *)
LEMMA RqEnqueueType ==
  ASSUME NEW q \in RqType, NEW t \in AllThreads, NEW p \in Prio
  PROVE  RqEnqueue(q, t, p) \in RqType
<1>1. q.level[p] \in Seq(AllThreads)
  BY DEF RqType
<1>2. Append(q.level[p], t) \in Seq(AllThreads)
  BY <1>1, AppendProperties
<1> QED
  BY <1>2 DEF RqEnqueue, RqType

LEMMA RqDequeueType ==
  ASSUME NEW q \in RqType, NEW t \in AllThreads, NEW p \in Prio
  PROVE  RqDequeue(q, t, p) \in RqType
<1>1. \A x \in Prio : Unlink(q.level[x], t) \in Seq(AllThreads)
  BY UnlinkType DEF RqType
<1> QED
  BY <1>1 DEF RqDequeue, RqType

LEMMA RqPopType ==
  ASSUME NEW q \in RqType
  PROVE  RqPop(q) \in RqType
<1> DEFINE p == RqFirst(q)
<1>1. p \in Prio
  BY RqFirstType
<1>2. q.level[p] \in Seq(AllThreads)
  BY <1>1 DEF RqType
<1>3. q.level[p] # <<>> => Tail(q.level[p]) \in Seq(AllThreads)
  BY <1>2, HeadTailProperties
<1> HIDE DEF p
<1>4. q.level[p] # <<>> =>
        [level  |-> [q.level EXCEPT ![p] = Tail(@)],
         bitmap |-> IF Tail(q.level[p]) = <<>> THEN q.bitmap \ {p}
                                               ELSE q.bitmap] \in RqType
  BY <1>1, <1>3 DEF RqType
<1> QED
  BY <1>4 DEF RqPop, p

-----------------------------------------------------------------------------
(* Lists without repetition: what append, take from the head and unlink do  *)
(* to the set of linked threads.                                            *)

LEMMA AppendRange ==
  ASSUME NEW S, NEW s \in Seq(S), NEW t \in S, IsInjective(s), t \notin Range(s)
  PROVE  /\ Range(Append(s, t)) = Range(s) \cup {t}
         /\ IsInjective(Append(s, t))
         /\ Append(s, t) # <<>>
<1>1. /\ Append(s, t) \in Seq(S)
      /\ Len(s) \in Nat
      /\ Len(Append(s, t)) = Len(s) + 1
      /\ DOMAIN s = 1 .. Len(s)
      /\ DOMAIN Append(s, t) = 1 .. Len(s) + 1
      /\ \A i \in 1 .. Len(s) : Append(s, t)[i] = s[i]
      /\ Append(s, t)[Len(s) + 1] = t
  BY AppendProperties, LenProperties
<1>2. Append(s, t) # <<>>
  BY AppendProperties
<1> DEFINE a == Append(s, t)
<1> HIDE DEF a
<1>3. \A i \in DOMAIN a : i \in DOMAIN s \/ i = Len(s) + 1
  BY <1>1 DEF a
<1>4. DOMAIN s \subseteq DOMAIN a /\ Len(s) + 1 \in DOMAIN a
  BY <1>1 DEF a
<1>5. Range(a) = Range(s) \cup {t}
  BY <1>1, <1>3, <1>4 DEF Range, a
<1>6. IsInjective(a)
  <2> SUFFICES ASSUME NEW i \in DOMAIN a, NEW j \in DOMAIN a, a[i] = a[j]
               PROVE  i = j
    BY DEF IsInjective
  <2>1. \A k \in DOMAIN s : a[k] = s[k] /\ s[k] # t
    BY <1>1 DEF Range, a
  <2>2. a[Len(s) + 1] = t
    BY <1>1 DEF a
  <2> QED
    BY <1>3, <2>1, <2>2 DEF IsInjective
<1> QED
  BY <1>2, <1>5, <1>6 DEF a

LEMMA TailRange ==
  ASSUME NEW S, NEW s \in Seq(S), s # <<>>, IsInjective(s)
  PROVE  /\ Range(Tail(s)) = Range(s) \ {Head(s)}
         /\ IsInjective(Tail(s))
         /\ Head(s) \in Range(s)
<1> DEFINE u == Tail(s)
<1>1. /\ Len(s) \in Nat \ {0}
      /\ DOMAIN s = 1 .. Len(s)
      /\ DOMAIN u = 1 .. Len(s) - 1
      /\ \A i \in 1 .. Len(s) - 1 : u[i] = s[i + 1]
      /\ Head(s) = s[1]
  BY HeadTailProperties, LenProperties, EmptySeq
<1> HIDE DEF u
<1>2. \A i \in DOMAIN u : i + 1 \in DOMAIN s /\ i + 1 # 1
  BY <1>1
<1>3. \A i \in DOMAIN s : i # 1 => i - 1 \in DOMAIN u /\ u[i - 1] = s[i]
  BY <1>1
<1>4. 1 \in DOMAIN s
  BY <1>1
<1>5. Range(u) = Range(s) \ {s[1]}
  <2>1. ASSUME NEW i \in DOMAIN u
        PROVE  u[i] \in Range(s) /\ u[i] # s[1]
    BY <1>1, <1>2, <1>4 DEF Range, IsInjective
  <2>2. ASSUME NEW i \in DOMAIN s, s[i] # s[1]
        PROVE  s[i] \in Range(u)
    BY <1>3, <2>2 DEF Range
  <2> QED
    BY <2>1, <2>2 DEF Range
<1>6. IsInjective(u)
  BY <1>1, <1>2 DEF IsInjective
<1> QED
  BY <1>1, <1>4, <1>5, <1>6 DEF u, Range

LEMMA UnlinkRange ==
  ASSUME NEW S, NEW s \in Seq(S), NEW t, IsInjective(s)
  PROVE  /\ Range(Unlink(s, t)) = Range(s) \ {t}
         /\ IsInjective(Unlink(s, t))
<1>1. CASE \E i \in DOMAIN s : s[i] = t
  <2> DEFINE k == CHOOSE i \in DOMAIN s : s[i] = t
             u == [j \in 1 .. Len(s) - 1 |-> IF j < k THEN s[j] ELSE s[j + 1]]
  <2>1. k \in DOMAIN s /\ s[k] = t
    BY <1>1
  <2>2. Len(s) \in Nat /\ DOMAIN s = 1 .. Len(s)
    BY LenProperties
  <2>3. Unlink(s, t) = u
    BY <1>1 DEF Unlink
  <2> HIDE DEF k
  <2>4. \A j \in DOMAIN u : /\ j < k => j \in DOMAIN s /\ j # k /\ u[j] = s[j]
                            /\ ~(j < k) => j + 1 \in DOMAIN s /\ j + 1 # k
                                           /\ u[j] = s[j + 1]
    BY <2>1, <2>2
  <2>5. \A i \in DOMAIN s : /\ i < k => i \in DOMAIN u /\ u[i] = s[i]
                            /\ i > k => i - 1 \in DOMAIN u /\ u[i - 1] = s[i]
    BY <2>1, <2>2
  <2>6. \A i \in DOMAIN s : i = k \/ i < k \/ i > k
    BY <2>1, <2>2
  <2>7. DOMAIN u \subseteq Nat /\ k \in Nat
    BY <2>1, <2>2
  <2> HIDE DEF u
  <2>8. Range(u) \subseteq Range(s) \ {t}
    <3> SUFFICES ASSUME NEW j \in DOMAIN u
                 PROVE  u[j] \in Range(s) /\ u[j] # t
      BY DEF Range
    <3> QED
      BY <2>1, <2>4 DEF Range, IsInjective
  <2>9. Range(s) \ {t} \subseteq Range(u)
    <3> SUFFICES ASSUME NEW i \in DOMAIN s, s[i] # t
                 PROVE  s[i] \in Range(u)
      BY DEF Range
    <3> QED
      BY <2>1, <2>5, <2>6 DEF Range
  <2>10. IsInjective(u)
    <3> SUFFICES ASSUME NEW i \in DOMAIN u, NEW j \in DOMAIN u, u[i] = u[j]
                 PROVE  i = j
      BY DEF IsInjective
    <3> QED
      BY <2>4, <2>7 DEF IsInjective
  <2> QED
    BY <2>3, <2>8, <2>9, <2>10
<1>2. CASE ~ \E i \in DOMAIN s : s[i] = t
  BY <1>2 DEF Unlink, Range
<1> QED
  BY <1>1, <1>2

LEMMA EmptyListRange == Range(<<>>) = {} /\ IsInjective(<<>>)
  BY EmptySeq DEF Range, IsInjective

LEMMA EmptyRange ==
  ASSUME NEW S, NEW s \in Seq(S)
  PROVE  s = <<>> <=> Range(s) = {}
<1>1. Len(s) \in Nat /\ DOMAIN s = 1 .. Len(s) /\ (s = <<>> <=> Len(s) = 0)
  BY LenProperties, EmptySeq
<1>2. DOMAIN <<>> = {}
  BY EmptySeq
<1>3. Len(s) # 0 => 1 \in DOMAIN s
  BY <1>1
<1> QED
  BY <1>1, <1>2, <1>3 DEF Range, IsInjective

-----------------------------------------------------------------------------
(* The run queue q fits the priorities pr and the states st: what the       *)
(* class and its callers must keep (RunQueueMatchesStates in Kernel).       *)
RqMatches(q, pr, st) ==
  /\ RqConsistent(q, pr)
  /\ \A t \in AllThreads : RqLinked(q, t) <=> st[t] = "READY"

(* The same in terms of the sets of linked threads.                         *)
RqLevelFits(q, pr, st, p) ==
  /\ p \in q.bitmap <=> Range(q.level[p]) # {}
  /\ \A t \in AllThreads :
       t \in Range(q.level[p]) <=> st[t] = "READY" /\ pr[t] = p
  /\ IsInjective(q.level[p])
RqFits(q, pr, st) == \A p \in Prio : RqLevelFits(q, pr, st, p)

LEMMA RqLevelRange ==
  ASSUME NEW q \in RqType, NEW p \in Prio
  PROVE  /\ q.level[p] \in Seq(AllThreads)
         /\ Range(q.level[p]) \subseteq AllThreads
         /\ q.level[p] = <<>> <=> Range(q.level[p]) = {}
<1>1. q.level[p] \in Seq(AllThreads)
  BY DEF RqType
<1>2. Range(q.level[p]) \subseteq AllThreads
  <2> HIDE DEF AllThreads
  <2>1. \A i \in DOMAIN q.level[p] : q.level[p][i] \in AllThreads
    BY <1>1, LenProperties, ElementOfSeq
  <2> QED
    BY <2>1 DEF Range
<1> QED
  BY <1>1, <1>2, EmptyRange

LEMMA RqMatchesFits ==
  ASSUME NEW q \in RqType, NEW pr \in [AllThreads -> Prio], NEW st
  PROVE  RqMatches(q, pr, st) <=> RqFits(q, pr, st)
<1>1. \A p \in Prio : /\ Range(q.level[p]) \subseteq AllThreads
                      /\ q.level[p] = <<>> <=> Range(q.level[p]) = {}
  BY RqLevelRange
<1>2. \A p \in Prio : (\A i \in DOMAIN q.level[p] : pr[q.level[p][i]] = p)
                      <=> (\A t \in Range(q.level[p]) : pr[t] = p)
  BY DEF Range
<1>3. ASSUME RqMatches(q, pr, st)
      PROVE  RqFits(q, pr, st)
  BY <1>1, <1>2, <1>3 DEF RqMatches, RqFits, RqLevelFits, RqConsistent, RqLinked
<1>4. ASSUME RqFits(q, pr, st)
      PROVE  RqMatches(q, pr, st)
  BY <1>1, <1>2, <1>4 DEF RqMatches, RqFits, RqLevelFits, RqConsistent, RqLinked
<1> QED
  BY <1>3, <1>4

(* Priorities of threads that are not READY and changes between other       *)
(* states do not concern the queue.                                         *)
LEMMA RqMatchesOthers ==
  ASSUME NEW q \in RqType, NEW pr \in [AllThreads -> Prio],
         NEW pr2 \in [AllThreads -> Prio], NEW st, NEW st2,
         RqMatches(q, pr, st),
         \A t \in AllThreads :
           /\ st2[t] = "READY" <=> st[t] = "READY"
           /\ st[t] = "READY" => pr2[t] = pr[t]
  PROVE  RqMatches(q, pr2, st2)
<1>1. RqFits(q, pr, st)
  BY RqMatchesFits
<1>2. RqFits(q, pr2, st2)
  BY <1>1 DEF RqFits, RqLevelFits
<1> QED
  BY <1>2, RqMatchesFits

(* Dequeue of a thread that is on no list does nothing.                     *)
LEMMA RqDequeueUnlinked ==
  ASSUME NEW q, NEW pr, NEW st, NEW t \in AllThreads, NEW p,
         RqMatches(q, pr, st), st[t] # "READY"
  PROVE  RqDequeue(q, t, p) = q
  BY DEF RqMatches, RqDequeue

(* Enqueue, dequeue and pick keep the queue in step with the states.        *)
LEMMA RqEnqueueMatches ==
  ASSUME NEW q \in RqType, NEW pr \in [AllThreads -> Prio], NEW st, NEW st2,
         NEW t \in AllThreads, RqMatches(q, pr, st), st[t] # "READY",
         st2[t] = "READY",
         \A x \in AllThreads \ {t} : st2[x] = "READY" <=> st[x] = "READY"
  PROVE  RqMatches(RqEnqueue(q, t, pr[t]), pr, st2)
<1> DEFINE p == pr[t]
           r == [level  |-> [q.level EXCEPT ![p] = Append(@, t)],
                 bitmap |-> q.bitmap \cup {p}]
<1>1. RqFits(q, pr, st) /\ p \in Prio
  BY RqMatchesFits
<1>2. RqEnqueue(q, t, p) = r
  BY DEF RqMatches, RqEnqueue
<1>3. r \in RqType
  BY <1>1, <1>2, RqEnqueueType
<1>4. /\ t \notin Range(q.level[p]) /\ IsInjective(q.level[p])
      /\ q.level[p] \in Seq(AllThreads)
  BY <1>1, RqLevelRange DEF RqFits, RqLevelFits
<1>5. /\ Range(Append(q.level[p], t)) = Range(q.level[p]) \cup {t}
      /\ IsInjective(Append(q.level[p], t))
  BY <1>4, AppendRange
<1>6. /\ r.level[p] = Append(q.level[p], t)
      /\ \A x \in Prio \ {p} : r.level[x] = q.level[x]
      /\ r.bitmap = q.bitmap \cup {p}
  BY <1>1 DEF RqType
<1> HIDE DEF r
<1>7. RqFits(r, pr, st2)
  <2> SUFFICES ASSUME NEW x \in Prio
               PROVE  RqLevelFits(r, pr, st2, x)
    BY DEF RqFits
  <2>1. RqLevelFits(q, pr, st, x)
    BY <1>1 DEF RqFits
  <2>2. CASE x = p
    BY <1>5, <1>6, <2>1, <2>2 DEF RqLevelFits
  <2>3. CASE x # p
    <3>1. r.level[x] = q.level[x] /\ (x \in r.bitmap <=> x \in q.bitmap)
      BY <1>6, <2>3
    <3> QED
      BY <2>1, <2>3, <3>1 DEF RqLevelFits
  <2> QED
    BY <2>2, <2>3
<1> QED
  BY <1>2, <1>3, <1>7, RqMatchesFits

LEMMA RqDequeueMatches ==
  ASSUME NEW q \in RqType, NEW pr \in [AllThreads -> Prio], NEW st, NEW st2,
         NEW t \in AllThreads, RqMatches(q, pr, st),
         st2[t] # "READY",
         \A x \in AllThreads \ {t} : st2[x] = "READY" <=> st[x] = "READY"
  PROVE  RqMatches(RqDequeue(q, t, pr[t]), pr, st2)
<1>1. CASE st[t] # "READY"
  BY <1>1, RqDequeueUnlinked, RqMatchesOthers
<1>2. CASE st[t] = "READY"
  <2> DEFINE p  == pr[t]
             lv == [x \in Prio |-> Unlink(q.level[x], t)]
             r  == [level  |-> lv,
                    bitmap |-> IF lv[p] = <<>> THEN q.bitmap \ {p} ELSE q.bitmap]
  <2>1. RqFits(q, pr, st) /\ p \in Prio
    BY RqMatchesFits
  <2>2. RqDequeue(q, t, p) = r
    BY <1>2 DEF RqMatches, RqDequeue
  <2>3. r \in RqType
    BY <2>1, <2>2, RqDequeueType
  <2>4. \A x \in Prio : /\ Range(lv[x]) = Range(q.level[x]) \ {t}
                        /\ IsInjective(lv[x])
    BY <2>1, RqLevelRange, UnlinkRange DEF RqFits, RqLevelFits
  <2>5. r.level = lv /\ (lv[p] = <<>> <=> Range(lv[p]) = {})
    BY <2>1, <2>3, RqLevelRange
  <2>6. r.bitmap = IF lv[p] = <<>> THEN q.bitmap \ {p} ELSE q.bitmap
    OBVIOUS
  <2> HIDE DEF lv, r
  <2>7. RqFits(r, pr, st2)
    <3> SUFFICES ASSUME NEW x \in Prio
                 PROVE  RqLevelFits(r, pr, st2, x)
      BY DEF RqFits
    <3>1. RqLevelFits(q, pr, st, x)
      BY <2>1 DEF RqFits
    <3>2. CASE x = p
      <4>1. x \in q.bitmap
        BY <1>2, <3>1, <3>2 DEF RqLevelFits
      <4> QED
        BY SMTT(30), <2>4, <2>5, <2>6, <3>1, <3>2, <4>1 DEF RqLevelFits
    <3>3. CASE x # p
      <4>1. t \notin Range(q.level[x])
        BY <3>1, <3>3 DEF RqLevelFits
      <4>2. Range(r.level[x]) = Range(q.level[x]) /\ IsInjective(r.level[x])
        BY <2>4, <2>5, <4>1
      <4>3. x \in r.bitmap <=> x \in q.bitmap
        BY <2>6, <3>3
      <4> QED
        BY <3>1, <3>3, <4>2, <4>3 DEF RqLevelFits
    <3> QED
      BY <3>2, <3>3
  <2> QED
    BY <2>2, <2>3, <2>7, RqMatchesFits
<1> QED
  BY <1>1, <1>2

(* pick_next returns NULL only if nothing is READY; otherwise it takes a    *)
(* READY thread of the best priority off the queue.                         *)
LEMMA RqPopMatches ==
  ASSUME NEW q \in RqType, NEW pr \in [AllThreads -> Prio], NEW st, NEW none,
         RqMatches(q, pr, st), none \notin AllThreads
  PROVE  /\ RqNext(q, none) = none =>
              RqPop(q) = q /\ \A t \in AllThreads : st[t] # "READY"
         /\ RqNext(q, none) # none =>
              /\ RqNext(q, none) \in AllThreads
              /\ st[RqNext(q, none)] = "READY"
              /\ \A t \in AllThreads :
                   st[t] = "READY" => pr[RqNext(q, none)] <= pr[t]
              /\ \A st2 :
                   /\ st2[RqNext(q, none)] # "READY"
                   /\ \A x \in AllThreads \ {RqNext(q, none)} :
                        st2[x] = "READY" <=> st[x] = "READY"
                   => RqMatches(RqPop(q), pr, st2)
<1> DEFINE p == RqFirst(q)
           s == q.level[p]
<1>1. RqFits(q, pr, st) /\ p \in Prio
  BY RqMatchesFits, RqFirstType
<1>2. s \in Seq(AllThreads) /\ (s = <<>> <=> Range(s) = {})
  BY <1>1, RqLevelRange
<1>3. CASE s = <<>>
  <2>1. p \notin q.bitmap
    BY <1>1, <1>2, <1>3 DEF RqFits, RqLevelFits
  <2>2. q.bitmap \in SUBSET Prio
    BY DEF RqType
  <2>3. q.bitmap = {}
    BY <2>1, <2>2, MinPrio DEF RqFirst
  <2>4. \A t \in AllThreads : st[t] # "READY"
    BY <1>1, <2>3 DEF RqFits, RqLevelFits
  <2>5. RqNext(q, none) = none /\ RqPop(q) = q
    BY <1>3 DEF RqNext, RqPop
  <2> QED
    BY <2>4, <2>5
<1>4. CASE s # <<>>
  <2> DEFINE h == Head(s)
             r == [level  |-> [q.level EXCEPT ![p] = Tail(@)],
                   bitmap |-> IF Tail(q.level[p]) = <<>> THEN q.bitmap \ {p}
                                                         ELSE q.bitmap]
  <2>1. IsInjective(s)
    BY <1>1 DEF RqFits, RqLevelFits
  <2>2. /\ h \in Range(s)
        /\ Range(Tail(s)) = Range(s) \ {h}
        /\ IsInjective(Tail(s))
    BY <1>2, <1>4, <2>1, TailRange
  <2>3. RqNext(q, none) = h /\ RqPop(q) = r
    BY <1>4 DEF RqNext, RqPop
  <2>4. h \in AllThreads
    BY <1>1, <2>2, RqLevelRange
  <2>5. st[h] = "READY" /\ pr[h] = p
    BY <1>1, <2>2, <2>4 DEF RqFits, RqLevelFits
  <2>6. \A t \in AllThreads : st[t] = "READY" => p <= pr[t]
    <3> SUFFICES ASSUME NEW t \in AllThreads, st[t] = "READY"
                 PROVE  p <= pr[t]
      OBVIOUS
    <3>1. pr[t] \in q.bitmap
      BY <1>1 DEF RqFits, RqLevelFits
    <3>2. q.bitmap \in SUBSET Prio /\ q.bitmap # {}
      BY <3>1 DEF RqType
    <3> QED
      BY <3>1, <3>2, MinPrio DEF RqFirst
  <2>7. r \in RqType
    BY <2>3, RqPopType
  <2>8. /\ r.level[p] = Tail(s)
        /\ \A x \in Prio \ {p} : r.level[x] = q.level[x]
        /\ r.bitmap = IF Tail(s) = <<>> THEN q.bitmap \ {p} ELSE q.bitmap
    BY <1>1 DEF RqType
  <2>9. Tail(s) = <<>> <=> Range(Tail(s)) = {}
    BY ZenonT(30), <1>1, <2>7, <2>8, RqLevelRange
  <2> HIDE DEF r, p, s, h
  <2>10. ASSUME NEW st2, st2[h] # "READY",
                \A x \in AllThreads \ {h} : st2[x] = "READY" <=> st[x] = "READY"
         PROVE  RqMatches(r, pr, st2)
    <3>1. RqFits(r, pr, st2)
      <4> SUFFICES ASSUME NEW x \in Prio
                   PROVE  RqLevelFits(r, pr, st2, x)
        BY DEF RqFits
      <4>1. RqLevelFits(q, pr, st, x)
        BY <1>1 DEF RqFits
      <4>2. CASE x = p
        <5>1. x \in q.bitmap
          BY <2>2, <4>1, <4>2 DEF RqLevelFits, s
        <5> QED
          BY <2>2, <2>5, <2>8, <2>9, <2>10, <4>1, <4>2, <5>1 DEF RqLevelFits, s
      <4>3. CASE x # p
        <5>1. r.level[x] = q.level[x] /\ (x \in r.bitmap <=> x \in q.bitmap)
          BY <2>8, <4>3
        <5> QED
          BY <2>5, <2>10, <4>1, <4>3, <5>1 DEF RqLevelFits
      <4> QED
        BY <4>2, <4>3
    <3> QED
      BY <2>7, <3>1, RqMatchesFits
  <2> QED
    BY <2>3, <2>4, <2>5, <2>6, <2>10
<1> QED
  BY <1>3, <1>4

-----------------------------------------------------------------------------
(* Types.                                                                   *)

(* The second half of ep_reply_recv and the loop of ep_destroy run on a     *)
(* real endpoint: what type correctness of the queues needs in addition.    *)
ArgIsEndpoint == phase \in {"recv", "destroy"} => arg \in Eps

TypeInv == TypeOK /\ ArgIsEndpoint

USE DEF sched, ep, notif, prios, block, resume, ghost,
        TypeOK, TcbType, WaitType, ObjectType, CpuType, HistoryType

LEMMA QueueTypes ==
  ASSUME NEW q \in [Eps -> Seq(AllThreads)], NEW e \in Eps
  PROVE  /\ q[e] # <<>> => /\ Head(q[e]) \in AllThreads
                           /\ PopHead(q, e) \in [Eps -> Seq(AllThreads)]
         /\ \A t \in AllThreads :
              /\ IpcEnqueueTail(q, e, t) \in [Eps -> Seq(AllThreads)]
              /\ UnlinkIpc(q, t) \in [Eps -> Seq(AllThreads)]
<1>1. q[e] # <<>> => Head(q[e]) \in AllThreads /\ Tail(q[e]) \in Seq(AllThreads)
  BY HeadTailProperties
<1>2. \A t \in AllThreads : Append(q[e], t) \in Seq(AllThreads)
  BY AppendProperties
<1>3. \A t \in AllThreads, x \in Eps : Unlink(q[x], t) \in Seq(AllThreads)
  BY UnlinkType
<1> QED
  BY <1>1, <1>2, <1>3 DEF PopHead, IpcEnqueueTail, UnlinkIpc

(* A handler's return leaves the CPU in the "syscall" phase with a code in  *)
(* the return register.                                                     *)
LEMMA ReturnType ==
  ASSUME TypeInv, NEW name \in Ops, NEW r \in Codes, Return(name, r)
  PROVE  /\ op' \in [AllThreads -> Ops]
         /\ ret' \in [AllThreads -> Codes]
         /\ phase' \in Phases \ {"recv", "destroy"}
  BY DEF TypeInv, Return, Phases

LEMMA ReturnOnlyType ==
  ASSUME TypeInv, NEW name \in Ops, NEW r \in Codes, ReturnOnly(name, r)
  PROVE  TypeInv'
<1>1. /\ op' \in [AllThreads -> Ops]
      /\ ret' \in [AllThreads -> Codes]
      /\ phase' \in Phases \ {"recv", "destroy"}
  BY ReturnType DEF ReturnOnly
<1> QED
  BY <1>1 DEF TypeInv, ArgIsEndpoint, ReturnOnly

LEMMA CorruptType ==
  ASSUME TypeInv, Corrupt
  PROVE  TypeInv'
  BY DEF TypeInv, ArgIsEndpoint, Corrupt, Phases

LEMMA InheritedType ==
  ASSUME TypeOK, NEW s \in AllThreads, NEW c \in AllThreads
  PROVE  Inherited(s, c) \in Prio
  BY DEF Inherited

LEMMA DropWaiterType ==
  ASSUME TypeOK, NEW t \in AllThreads
  PROVE  DropWaiter(t) \in [Notifs -> AllThreads \cup {Null}]
  BY DEF DropWaiter

LEMMA DisarmType ==
  ASSUME TypeOK, NEW t \in AllThreads
  PROVE  Disarm(t) \in [AllThreads -> Timers]
  BY DEF Disarm, Timers

LEMMA FreedType ==
  ASSUME TypeOK, NEW d
  PROVE  /\ FreedTimers(d) \in [AllThreads -> Timers]
         /\ FreedRegs(d) \in [AllThreads -> BOOLEAN]
<1>1. FreedTimers(d) \in [AllThreads -> Timers]
  BY DEF FreedTimers, Timers
<1>2. FreedRegs(d) \in [AllThreads -> BOOLEAN]
  BY Zenon DEF FreedRegs
<1> QED
  BY <1>1, <1>2

(* Taking the running thread off the run queue, and putting a woken one on. *)
LEMMA RqBlockType ==
  ASSUME TypeOK
  PROVE  RqDequeue(rq, current, prio[current]) \in RqType
  BY RqDequeueType

LEMMA RqWakeType ==
  ASSUME TypeOK, NEW t \in AllThreads
  PROVE  RqEnqueue(rq, t, prio[t]) \in RqType
  BY RqEnqueueType

-----------------------------------------------------------------------------
(* Endpoint operations preserve the types.                                  *)

LEMMA EpCreateType ==
  ASSUME TypeInv, NEW e \in Eps, EpCreate(e)
  PROVE  TypeInv'
<1>1. "ep_create" \in Ops /\ "OK" \in Codes /\ <<>> \in Seq(AllThreads)
  BY DEF Ops, Codes
<1>2. /\ op' \in [AllThreads -> Ops]
      /\ ret' \in [AllThreads -> Codes]
      /\ phase' \in Phases \ {"recv", "destroy"}
  BY <1>1, ReturnType DEF EpCreate
<1> QED
  BY <1>1, <1>2 DEF TypeInv, ArgIsEndpoint, EpCreate

LEMMA EpCallQueueType ==
  ASSUME TypeInv, NEW e \in Eps, NEW cb \in {"none", "call"}, EpCallQueue(e, cb)
  PROVE  TypeInv'
<1>1. CASE Corrupt
  BY <1>1, CorruptType
<1>2. CASE CallerQueues(e, cb)
  <2>1. sendQ' \in [Eps -> Seq(AllThreads)]
    BY <1>2, QueueTypes DEF TypeInv, CallerQueues
  <2>2. rq' \in RqType
    BY <1>2, RqBlockType DEF TypeInv, CallerQueues
  <2> USE <1>2 DEF TypeInv, CallerQueues, CallerBlocks, Return
  <2>a. TcbType'
    BY DEF States, Timers, Ops, Codes
  <2>b. WaitType'
    BY DEF Reasons, Codes, Outptrs
  <2>c. ObjectType'
    BY <2>1
  <2>d. CpuType' /\ ArgIsEndpoint'
    BY <2>2 DEF Phases, ArgIsEndpoint
  <2>e. HistoryType'
    OBVIOUS
  <2> QED
    BY <2>a, <2>b, <2>c, <2>d, <2>e
<1> QED
  BY <1>1, <1>2, Zenon DEF EpCallQueue

LEMMA EpCallDeliverType ==
  ASSUME TypeInv, NEW e \in Eps, NEW cb \in {"none", "call"}, EpCallDeliver(e, cb)
  PROVE  TypeInv'
<1> DEFINE srv == Head(recvQ[e])
           p == Inherited(srv, current)
<1>1. srv \in AllThreads /\ p \in Prio /\ recvQ' \in [Eps -> Seq(AllThreads)]
  BY QueueTypes, InheritedType DEF TypeInv, EpCallDeliver
<1>2. waiter' \in [Notifs -> AllThreads \cup {Null}]
  BY <1>1, DropWaiterType DEF TypeInv, EpCallDeliver
<1>3. rq' \in RqType
  BY <1>1, RqEnqueueType, RqDequeueType DEF TypeInv, EpCallDeliver
<1>4. needsResched' \in BOOLEAN
  BY Zenon DEF EpCallDeliver
<1> HIDE DEF srv, p
<1> USE <1>1 DEF TypeInv, EpCallDeliver, CallerBlocks, Return, srv, p
<1>a. TcbType'
  BY DEF States, Timers, Ops, Codes
<1>b. WaitType'
  BY DEF Reasons, Codes, Outptrs
<1>c. ObjectType'
  BY <1>2
<1>d. CpuType' /\ ArgIsEndpoint'
  BY <1>3, <1>4 DEF Phases, ArgIsEndpoint
<1>e. HistoryType'
  OBVIOUS
<1> QED
  BY <1>a, <1>b, <1>c, <1>d, <1>e
LEMMA RecvTakeType ==
  ASSUME TypeInv, NEW e \in Eps, NEW name \in Ops, RecvTake(e, name)
  PROVE  TypeInv'
<1> DEFINE caller == Head(sendQ[e])
<1>1. caller \in AllThreads /\ sendQ' \in [Eps -> Seq(AllThreads)]
  BY QueueTypes DEF TypeInv, RecvTake
<1>2. Inherited(current, caller) \in Prio
  BY <1>1, InheritedType DEF TypeInv
<1> HIDE DEF caller
<1>3. TcbType'
  BY <1>2 DEF TypeInv, RecvTake, Return, Codes, caller
<1>4. WaitType'
  BY <1>1 DEF TypeInv, RecvTake, caller
<1>5. ObjectType' /\ CpuType' /\ ArgIsEndpoint'
  BY <1>1 DEF TypeInv, RecvTake, Return, Phases, ArgIsEndpoint
<1>6. HistoryType'
  BY <1>1 DEF TypeInv, RecvTake, caller
<1> QED
  BY <1>3, <1>4, <1>5, <1>6 DEF TypeInv

LEMMA RecvBlockType ==
  ASSUME TypeInv, NEW e \in Eps, NEW name \in Ops, RecvBlock(e, name)
  PROVE  TypeInv'
<1>1. CASE Corrupt
  BY <1>1, CorruptType
<1>2. CASE ReceiverQueues(e, name)
  <2>1. recvQ' \in [Eps -> Seq(AllThreads)]
    BY <1>2, QueueTypes DEF TypeInv, ReceiverQueues
  <2>2. rq' \in RqType
    BY <1>2, RqBlockType DEF TypeInv, ReceiverQueues
  <2> USE <1>2 DEF TypeInv, ReceiverQueues, Return
  <2>3. TcbType'
    BY DEF States, Codes
  <2>4. WaitType'
    BY DEF Reasons, Codes, Outptrs
  <2>5. ObjectType' /\ CpuType' /\ ArgIsEndpoint' /\ HistoryType'
    BY <2>1, <2>2 DEF Phases, ArgIsEndpoint
  <2> QED
    BY <2>3, <2>4, <2>5
<1> QED
  BY <1>1, <1>2, Zenon DEF RecvBlock

LEMMA EpRecvType ==
  ASSUME TypeInv, NEW e \in Eps, EpRecv(e)
  PROVE  TypeInv'
<1>1. "ep_recv" \in Ops /\ "EINVAL" \in Codes
  BY DEF Ops, Codes
<1> QED
  BY <1>1, RecvTakeType, RecvBlockType, ReturnOnlyType DEF EpRecv

(* The part of ep_reply that wakes the caller.                              *)
LEMMA ReplyToType ==
  ASSUME TypeInv, NEW c \in AllThreads, ReplyTo(c)
  PROVE  /\ prio' \in [AllThreads -> Prio]
         /\ saved' \in [AllThreads -> Prio]
         /\ state' \in [AllThreads -> States]
         /\ timer' \in [AllThreads -> Timers]
         /\ reason' \in [AllThreads -> Reasons]
         /\ blockedEp' \in [AllThreads -> Eps \cup {Null}]
         /\ outptr' \in [AllThreads -> SUBSET Outptrs]
         /\ UNCHANGED <<blockedNotif, waitMask, status, wakeRet>>
         /\ rq' \in RqType
         /\ needsResched' \in BOOLEAN
<1>1. prio' \in [AllThreads -> Prio] /\ saved' \in [AllThreads -> Prio]
  BY DEF TypeInv, ReplyTo, RestorePrio
<1>2. state' \in [AllThreads -> States] /\ timer' \in [AllThreads -> Timers]
  BY DisarmType DEF TypeInv, ReplyTo, States
<1>3. /\ reason' \in [AllThreads -> Reasons]
      /\ blockedEp' \in [AllThreads -> Eps \cup {Null}]
      /\ outptr' \in [AllThreads -> SUBSET Outptrs]
      /\ UNCHANGED <<blockedNotif, waitMask, status, wakeRet>>
  BY DEF TypeInv, ReplyTo, Reasons
<1>4. rq' \in RqType
  BY <1>1, RqEnqueueType DEF TypeInv, ReplyTo
<1>5. needsResched' \in BOOLEAN
  BY Zenon DEF ReplyTo
<1> QED
  BY <1>1, <1>2, <1>3, <1>4, <1>5

LEMMA EpReplyType ==
  ASSUME TypeInv, NEW c \in Threads, EpReply(c)
  PROVE  TypeInv'
<1>1. owed' \in [AllThreads -> SUBSET AllThreads] /\ c \in AllThreads
  BY DEF TypeInv, EpReply, AllThreads
<1>2. CASE ReplyTo(c) /\ Return("ep_reply", "OK")
  BY <1>1, <1>2, ReplyToType DEF TypeInv, EpReply, Return, Ops, Codes, Phases,
     ArgIsEndpoint
<1>3. CASE /\ Return("ep_reply", "EINVAL")
           /\ UNCHANGED <<rq, needsResched, prios, block, resume, timer>>
  BY <1>1, <1>3 DEF TypeInv, EpReply, Return, Ops, Codes, Phases, ArgIsEndpoint
<1> QED
  BY <1>2, <1>3, Zenon DEF EpReply

LEMMA EpReplyRecvType ==
  ASSUME TypeInv, NEW e \in Eps, NEW c \in Threads \cup {Null}, EpReplyRecv(e, c)
  PROVE  TypeInv'
<1>1. owed' \in [AllThreads -> SUBSET AllThreads]
  BY DEF TypeInv, EpReplyRecv
<1>2. CASE c # Null /\ ReplyTo(c)
  <2>1. c \in AllThreads
    BY <1>2 DEF AllThreads
  <2> QED
    BY <1>1, <1>2, <2>1, ReplyToType DEF TypeInv, EpReplyRecv, Phases,
       ArgIsEndpoint
<1>3. CASE UNCHANGED <<rq, needsResched, prios, block, resume, timer>>
  BY <1>1, <1>3 DEF TypeInv, EpReplyRecv, Phases, ArgIsEndpoint
<1> QED
  BY <1>2, <1>3, Zenon DEF EpReplyRecv

LEMMA EpReplyRecvTailType ==
  ASSUME TypeInv, EpReplyRecvTail
  PROVE  TypeInv'
<1>1. arg \in Eps
  BY DEF TypeInv, ArgIsEndpoint, EpReplyRecvTail
<1>2. "ep_reply_recv" \in Ops /\ "EINVAL" \in Codes
  BY DEF Ops, Codes
<1> QED
  BY <1>1, <1>2, RecvTakeType, RecvBlockType, ReturnOnlyType DEF EpReplyRecvTail

LEMMA EpRecvOrNotifType ==
  ASSUME TypeInv, NEW e \in Eps, NEW n \in Notifs, NEW m \in Masks,
         EpRecvOrNotif(e, n, m)
  PROVE  TypeInv'
<1>1. "ep_recv_or_notif" \in Ops /\ {"EINVAL", "NOTIFIED", "OK"} \subseteq Codes
  BY DEF Ops, Codes
<1>2. CASE RecvOrNotifBits(e, n, m)
  BY <1>1, <1>2 DEF TypeInv, RecvOrNotifBits, Return, Phases, ArgIsEndpoint
<1>3. CASE RecvTake(e, "ep_recv_or_notif")
  BY <1>1, <1>3, RecvTakeType
<1>4. CASE ReceiverWaits(e, n, m)
  <2>1. recvQ' \in [Eps -> Seq(AllThreads)]
    BY <1>4, QueueTypes DEF TypeInv, ReceiverWaits
  <2>2. rq' \in RqType
    BY <1>4, RqBlockType DEF TypeInv, ReceiverWaits
  <2> USE <1>4 DEF TypeInv, ReceiverWaits, Return
  <2>3. TcbType'
    BY <1>1 DEF States
  <2>4. WaitType'
    BY <1>1 DEF Reasons, Outptrs, Masks
  <2>5. ObjectType' /\ CpuType' /\ ArgIsEndpoint' /\ HistoryType'
    BY <2>1, <2>2 DEF Phases, ArgIsEndpoint
  <2> QED
    BY <2>3, <2>4, <2>5
<1>5. CASE ReturnOnly("ep_recv_or_notif", "EINVAL")
  BY <1>1, <1>5, ReturnOnlyType
<1>6. CASE Corrupt
  BY <1>6, CorruptType
<1> QED
  BY <1>2, <1>3, <1>4, <1>5, <1>6, Zenon DEF EpRecvOrNotif, RecvOrNotifBlock

LEMMA EpDestroyType ==
  ASSUME TypeInv, NEW e \in Eps, EpDestroy(e)
  PROVE  TypeInv'
<1>1. "ep_destroy" \in Ops /\ "EINVAL" \in Codes
  BY DEF Ops, Codes
<1>2. CASE ReturnOnly("ep_destroy", "EINVAL")
  BY <1>1, <1>2, ReturnOnlyType
<1>3. CASE ~ReturnOnly("ep_destroy", "EINVAL")
  BY <1>3 DEF TypeInv, EpDestroy, Phases, ArgIsEndpoint
<1> QED
  BY <1>2, <1>3

LEMMA DestroyWakeType ==
  ASSUME TypeInv, NEW t \in AllThreads, DestroyWake(t),
         sendQ' \in [Eps -> Seq(AllThreads)], recvQ' \in [Eps -> Seq(AllThreads)]
  PROVE  TypeInv'
<1>1. waiter' \in [Notifs -> AllThreads \cup {Null}]
  BY DropWaiterType DEF TypeInv, DestroyWake
<1>2. rq' \in RqType
  BY RqWakeType DEF TypeInv, DestroyWake
<1>3. needsResched' \in BOOLEAN
  BY Zenon DEF DestroyWake
<1>4. TcbType'
  BY DisarmType DEF TypeInv, DestroyWake, States
<1>5. WaitType'
  BY DEF TypeInv, DestroyWake, Reasons, Codes
<1>6. ObjectType' /\ CpuType' /\ ArgIsEndpoint' /\ HistoryType'
  BY <1>1, <1>2, <1>3 DEF TypeInv, DestroyWake, ArgIsEndpoint
<1> QED
  BY <1>4, <1>5, <1>6 DEF TypeInv

LEMMA EpDestroyNextType ==
  ASSUME TypeInv, EpDestroyNext
  PROVE  TypeInv'
<1>1. arg \in Eps /\ "ep_destroy" \in Ops /\ "OK" \in Codes
  BY DEF TypeInv, ArgIsEndpoint, EpDestroyNext, Ops, Codes
<1>2. CASE sendQ[arg] # <<>>
  <2>1. sendQ' = PopHead(sendQ, arg) /\ DestroyWake(Head(sendQ[arg])) /\ UNCHANGED recvQ
    BY <1>2, Zenon DEF EpDestroyNext
  <2>2. Head(sendQ[arg]) \in AllThreads /\ sendQ' \in [Eps -> Seq(AllThreads)]
    BY <1>1, <1>2, <2>1, QueueTypes DEF TypeInv
  <2>3. recvQ' \in [Eps -> Seq(AllThreads)]
    BY <2>1 DEF TypeInv
  <2> QED
    BY <2>1, <2>2, <2>3, DestroyWakeType
<1>3. CASE sendQ[arg] = <<>> /\ recvQ[arg] # <<>>
  <2>1. recvQ' = PopHead(recvQ, arg) /\ DestroyWake(Head(recvQ[arg])) /\ UNCHANGED sendQ
    BY <1>3, Zenon DEF EpDestroyNext
  <2>2. Head(recvQ[arg]) \in AllThreads /\ recvQ' \in [Eps -> Seq(AllThreads)]
    BY <1>1, <1>3, <2>1, QueueTypes DEF TypeInv
  <2>3. sendQ' \in [Eps -> Seq(AllThreads)]
    BY <2>1 DEF TypeInv
  <2> QED
    BY <2>1, <2>2, <2>3, DestroyWakeType
<1>4. CASE sendQ[arg] = <<>> /\ recvQ[arg] = <<>>
  BY <1>1, <1>4, ReturnOnlyType DEF EpDestroyNext
<1> QED
  BY <1>2, <1>3, <1>4

-----------------------------------------------------------------------------
(* Notification operations preserve the types.                              *)

LEMMA NotifCreateType ==
  ASSUME TypeInv, NEW n \in Notifs, NotifCreate(n)
  PROVE  TypeInv'
<1>1. "notif_create" \in Ops /\ "OK" \in Codes
  BY DEF Ops, Codes
<1> QED
  BY <1>1 DEF TypeInv, NotifCreate, Return, Phases, ArgIsEndpoint

LEMMA SignalType ==
  ASSUME TypeInv, NEW n \in Notifs, NEW b \in Masks, Signal(n, b)
  PROVE  /\ state' \in [AllThreads -> States]
         /\ timer' \in [AllThreads -> Timers]
         /\ WaitType'
         /\ ObjectType'
         /\ HistoryType'
         /\ rq' \in RqType
         /\ needsResched' \in BOOLEAN
         /\ UNCHANGED <<prio, saved, registered, current, dead, arg>>
<1>1. CASE SignalPost(n, b)
  BY <1>1 DEF TypeInv, Signal, SignalPost, Masks
<1>2. CASE SignalWake(n, b)
  <2> DEFINE w == waiter[n]
  <2>1. w \in AllThreads
    BY <1>2 DEF TypeInv, SignalWake, SignalWakes
  <2>2. bits' \in [Notifs -> SUBSET Bits] /\ waiter' \in [Notifs -> AllThreads \cup {Null}]
    BY <1>2 DEF TypeInv, SignalWake, Masks
  <2>3. rq' \in RqType
    BY <1>2, <2>1, RqWakeType DEF TypeInv, SignalWake
  <2>4. needsResched' \in BOOLEAN
    BY <1>2, Zenon DEF SignalWake
  <2>5. state' \in [AllThreads -> States] /\ timer' \in [AllThreads -> Timers]
    BY <1>2, <2>1, DisarmType DEF TypeInv, SignalWake, States
  <2>6. reason' \in [AllThreads -> Reasons] /\ UNCHANGED <<waitMask, status>>
    BY <1>2, <2>1 DEF TypeInv, SignalWake, Reasons
  <2>7. /\ recvQ' \in [Eps -> Seq(AllThreads)]
        /\ sendQ' \in [Eps -> Seq(AllThreads)]
        /\ blockedEp' \in [AllThreads -> Eps \cup {Null}]
        /\ blockedNotif' \in [AllThreads -> Notifs \cup {Null}]
        /\ outptr' \in [AllThreads -> SUBSET Outptrs]
        /\ wakeRet' \in [AllThreads -> BOOLEAN]
    <3>1. \A e \in Eps : /\ Unlink(recvQ[e], w) \in Seq(AllThreads)
                        /\ Unlink(sendQ[e], w) \in Seq(AllThreads)
      BY UnlinkType DEF TypeInv
    <3>2. LeaveBoth(w) \/ LeaveNotif(w)
      BY <1>2 DEF SignalWake
    <3>3. CASE LeaveBoth(w)
      BY <2>1, <3>1, <3>3 DEF TypeInv, LeaveBoth, UnlinkIpc
    <3>4. CASE LeaveNotif(w)
      BY <2>1, <3>4 DEF TypeInv, LeaveNotif
    <3> QED
      BY <3>2, <3>3, <3>4
  <2>8. ObjectType' /\ HistoryType' /\ WaitType'
    BY <2>2, <2>6, <2>7 DEF TypeInv, Signal
  <2> QED
    BY <2>3, <2>4, <2>5, <2>8 DEF Signal
<1> QED
  BY <1>1, <1>2 DEF Signal

LEMMA NotifSignalType ==
  ASSUME TypeInv, NEW n \in Notifs, NEW b \in Masks, NotifSignal(n, b)
  PROVE  TypeInv'
<1>1. "notif_signal" \in Ops /\ {"EINVAL", "OK"} \subseteq Codes
  BY DEF Ops, Codes
<1>2. CASE Signal(n, b) /\ Return("notif_signal", "OK")
  BY <1>1, <1>2, SignalType, ReturnType DEF TypeInv, ArgIsEndpoint
<1>3. CASE ReturnOnly("notif_signal", "EINVAL")
  BY <1>1, <1>3, ReturnOnlyType
<1> QED
  BY <1>2, <1>3, Zenon DEF NotifSignal

LEMMA IrqDispatchType ==
  ASSUME TypeInv, NEW n \in Notifs, NEW b \in Masks, IrqDispatch(n, b)
  PROVE  TypeInv'
<1>1. Signal(n, b)
  BY DEF IrqDispatch
<1> QED
  BY <1>1, SignalType DEF TypeInv, ArgIsEndpoint, IrqDispatch, Phases

LEMMA NotifWaitTakeType ==
  ASSUME TypeInv, NEW n \in Notifs, NEW m \in Masks, NotifWaitTake(n, m)
  PROVE  TypeInv'
<1>1. "notif_wait" \in Ops /\ "OK" \in Codes
  BY DEF Ops, Codes
<1> QED
  BY <1>1 DEF TypeInv, NotifWaitTake, Return, Phases, ArgIsEndpoint

LEMMA NotifWaitBlockType ==
  ASSUME TypeInv, NEW n \in Notifs, NEW m \in Masks, NEW cb \in {"none", "wait"},
         NotifWaitBlock(n, m, cb)
  PROVE  TypeInv'
<1>1. "notif_wait" \in Ops /\ "OK" \in Codes
  BY DEF Ops, Codes
<1>2. rq' \in RqType
  BY RqBlockType DEF TypeInv, NotifWaitBlock
<1> USE DEF TypeInv, NotifWaitBlock, Return
<1>3. TcbType'
  BY <1>1 DEF States, Timers
<1>4. WaitType'
  BY <1>1 DEF Reasons, Outptrs, Masks
<1>5. ObjectType' /\ CpuType' /\ ArgIsEndpoint' /\ HistoryType'
  BY <1>2 DEF Phases, ArgIsEndpoint
<1> QED
  BY <1>3, <1>4, <1>5

LEMMA NotifPollType ==
  ASSUME TypeInv, NEW n \in Notifs, NEW m \in Masks, NotifPoll(n, m)
  PROVE  TypeInv'
<1>1. "notif_poll" \in Ops /\ "OK" \in Codes
  BY DEF Ops, Codes
<1> QED
  BY <1>1 DEF TypeInv, NotifPoll, Return, Phases, ArgIsEndpoint

LEMMA DestroyWakesWaiterType ==
  ASSUME TypeInv, NEW w \in AllThreads, DestroyWakesWaiter(w)
  PROVE  /\ state' \in [AllThreads -> States]
         /\ timer' \in [AllThreads -> Timers]
         /\ recvQ' \in [Eps -> Seq(AllThreads)]
         /\ sendQ' \in [Eps -> Seq(AllThreads)]
         /\ reason' \in [AllThreads -> Reasons]
         /\ status' \in [AllThreads -> Codes]
         /\ blockedEp' \in [AllThreads -> Eps \cup {Null}]
         /\ blockedNotif' \in [AllThreads -> Notifs \cup {Null}]
         /\ waitMask' = waitMask
         /\ rq' \in RqType
         /\ needsResched' \in BOOLEAN
<1>1. recvQ' \in [Eps -> Seq(AllThreads)] /\ sendQ' \in [Eps -> Seq(AllThreads)]
  <2>1. \A e \in Eps : /\ Unlink(recvQ[e], w) \in Seq(AllThreads)
                      /\ Unlink(sendQ[e], w) \in Seq(AllThreads)
    BY UnlinkType DEF TypeInv
  <2> QED
    BY <2>1 DEF TypeInv, DestroyWakesWaiter, UnlinkIpc
<1>2. rq' \in RqType
  BY RqWakeType DEF TypeInv, DestroyWakesWaiter
<1>3. needsResched' \in BOOLEAN
  BY Zenon DEF DestroyWakesWaiter
<1>4. state' \in [AllThreads -> States] /\ timer' \in [AllThreads -> Timers]
  BY DisarmType DEF TypeInv, DestroyWakesWaiter, States
<1>5. /\ reason' \in [AllThreads -> Reasons]
      /\ status' \in [AllThreads -> Codes]
      /\ blockedEp' \in [AllThreads -> Eps \cup {Null}]
      /\ blockedNotif' \in [AllThreads -> Notifs \cup {Null}]
      /\ waitMask' = waitMask
  BY DEF TypeInv, DestroyWakesWaiter, Reasons, Codes
<1> QED
  BY <1>1, <1>2, <1>3, <1>4, <1>5

LEMMA NotifDestroyType ==
  ASSUME TypeInv, NEW n \in Notifs, NotifDestroy(n)
  PROVE  TypeInv'
<1>1. "notif_destroy" \in Ops /\ {"EINVAL", "OK"} \subseteq Codes
  BY DEF Ops, Codes
<1>2. CASE ReturnOnly("notif_destroy", "EINVAL")
  BY <1>1, <1>2, ReturnOnlyType
<1>3. CASE ntActive[n]
  <2>1. /\ ntActive' = [ntActive EXCEPT ![n] = FALSE]
        /\ waiter' = [waiter EXCEPT ![n] = Null]
        /\ \/ /\ waiter[n] = Null
              /\ UNCHANGED <<block, timer, sendQ, recvQ, rq, needsResched>>
           \/ waiter[n] # Null /\ DestroyWakesWaiter(waiter[n])
        /\ Return("notif_destroy", "OK")
        /\ UNCHANGED <<epActive, bits, prios, resume, ghost, current, dead,
                       registered, ipcSender, arg>>
    BY <1>3, Zenon DEF NotifDestroy
  <2>2. CASE waiter[n] = Null
    BY <1>1, <2>1, <2>2, ReturnType DEF TypeInv, ArgIsEndpoint
  <2>3. CASE waiter[n] # Null
    <3>1. waiter[n] \in AllThreads /\ DestroyWakesWaiter(waiter[n])
      BY <2>1, <2>3 DEF TypeInv
    <3> QED
      BY <1>1, <2>1, <3>1, DestroyWakesWaiterType, ReturnType
         DEF TypeInv, ArgIsEndpoint
  <2> QED
    BY <2>2, <2>3
<1> QED
  BY <1>2, <1>3, Zenon DEF NotifDestroy

-----------------------------------------------------------------------------
(* Timed waits preserve the types.                                          *)

LEMMA SleepType ==
  ASSUME TypeInv, NEW valid \in BOOLEAN, Sleep(valid)
  PROVE  TypeInv'
<1>1. "sleep" \in Ops /\ {"EINVAL", "OK"} \subseteq Codes
  BY DEF Ops, Codes
<1>2. CASE ReturnOnly("sleep", "EINVAL")
  BY <1>1, <1>2, ReturnOnlyType
<1>3. CASE SleepBlock
  <2>1. rq' \in RqType
    BY <1>3, RqBlockType DEF TypeInv, SleepBlock
  <2>2. TcbType'
    BY <1>1, <1>3 DEF TypeInv, SleepBlock, Return, States, Timers
  <2>3. WaitType'
    BY <1>1, <1>3 DEF TypeInv, SleepBlock, Reasons
  <2>4. ObjectType' /\ CpuType' /\ ArgIsEndpoint' /\ HistoryType'
    BY <1>3, <2>1 DEF TypeInv, SleepBlock, Return, Phases, ArgIsEndpoint
  <2> QED
    BY <2>2, <2>3, <2>4 DEF TypeInv
<1> QED
  BY <1>2, <1>3, Zenon DEF Sleep

LEMMA SleepCancelType ==
  ASSUME TypeInv, NEW t \in Threads, SleepCancel(t)
  PROVE  TypeInv'
<1>1. /\ "sleep_cancel" \in Ops /\ {"EINVAL", "OK", "ESRCH"} \subseteq Codes
      /\ t \in AllThreads
  BY DEF Ops, Codes, AllThreads
<1>2. CASE \/ ReturnOnly("sleep_cancel", "EINVAL")
           \/ ReturnOnly("sleep_cancel", "ESRCH")
  BY <1>1, <1>2, ReturnOnlyType
<1>3. CASE CancelSleep(t)
  <2> USE <1>3 DEF TypeInv, CancelSleep
  <2>1. rq' \in RqType
    BY <1>1, RqWakeType
  <2>2. TcbType'
    BY <1>1, DisarmType DEF Return, States
  <2>3. WaitType'
    BY <1>1 DEF Reasons, Codes
  <2>4. ObjectType' /\ CpuType' /\ ArgIsEndpoint' /\ HistoryType'
    BY <2>1 DEF Return, Phases, ArgIsEndpoint
  <2> QED
    BY <2>2, <2>3, <2>4
<1> QED
  BY <1>2, <1>3, Zenon DEF SleepCancel

LEMMA TimeoutWakesType ==
  ASSUME TypeInv, NEW t \in AllThreads, TimeoutWakes(t)
  PROVE  /\ state' \in [AllThreads -> States]
         /\ recvQ' \in [Eps -> Seq(AllThreads)]
         /\ sendQ' \in [Eps -> Seq(AllThreads)]
         /\ waiter' \in [Notifs -> AllThreads \cup {Null}]
         /\ reason' \in [AllThreads -> Reasons]
         /\ status' \in [AllThreads -> Codes]
         /\ blockedEp' \in [AllThreads -> Eps \cup {Null}]
         /\ blockedNotif' \in [AllThreads -> Notifs \cup {Null}]
         /\ UNCHANGED <<epActive, waitMask>>
         /\ rq' \in RqType
         /\ needsResched' \in BOOLEAN
<1>1. recvQ' \in [Eps -> Seq(AllThreads)] /\ sendQ' \in [Eps -> Seq(AllThreads)]
  <2>1. \A e \in Eps : /\ Unlink(recvQ[e], t) \in Seq(AllThreads)
                      /\ Unlink(sendQ[e], t) \in Seq(AllThreads)
    BY UnlinkType DEF TypeInv
  <2> QED
    BY <2>1 DEF TypeInv, TimeoutWakes, UnlinkIpc
<1>2. rq' \in RqType
  BY RqWakeType DEF TypeInv, TimeoutWakes
<1>3. needsResched' \in BOOLEAN
  BY Zenon DEF TimeoutWakes
<1>4. waiter' \in [Notifs -> AllThreads \cup {Null}]
  BY DropWaiterType DEF TypeInv, TimeoutWakes
<1>5. /\ blockedEp' \in [AllThreads -> Eps \cup {Null}]
      /\ blockedNotif' \in [AllThreads -> Notifs \cup {Null}]
  BY DEF TypeInv, TimeoutWakes
<1>6. /\ state' \in [AllThreads -> States]
      /\ reason' \in [AllThreads -> Reasons]
      /\ status' \in [AllThreads -> Codes]
      /\ UNCHANGED <<epActive, waitMask>>
  BY DEF TypeInv, TimeoutWakes, States, Reasons, Codes
<1> QED
  BY <1>1, <1>2, <1>3, <1>4, <1>5, <1>6

LEMMA TimerFireType ==
  ASSUME TypeInv, NEW t \in Threads, TimerFire(t)
  PROVE  TypeInv'
<1>1. timer' \in [AllThreads -> Timers] /\ phase' \in Phases /\ ArgIsEndpoint'
  BY DEF TypeInv, TimerFire, Timers, Phases, ArgIsEndpoint
<1>2. CASE TimeoutWakes(t)
  <2>1. t \in AllThreads
    BY DEF AllThreads
  <2> QED
    BY <1>1, <1>2, <2>1, TimeoutWakesType DEF TypeInv, TimerFire
<1>3. CASE UNCHANGED <<ep, block, waiter, rq, needsResched>>
  BY <1>1, <1>3 DEF TypeInv, TimerFire
<1> QED
  BY <1>2, <1>3, Zenon DEF TimerFire

-----------------------------------------------------------------------------
(* Thread operations preserve the types.                                    *)

LEMMA SpawnType ==
  ASSUME TypeInv, NEW t \in Threads, NEW p \in Prio, Spawn(t, p)
  PROVE  TypeInv'
<1>1. t \in AllThreads
  BY DEF AllThreads
<1>2. CASE Corrupt
  BY <1>2, CorruptType
<1>3. CASE ThreadInit(t, p)
  <2>1. rq' \in RqType
    BY <1>1, <1>3, RqEnqueueType DEF TypeInv, ThreadInit
  <2>2. needsResched' \in BOOLEAN
    BY <1>3, Zenon DEF ThreadInit
  <2>3. TcbType'
    BY <1>1, <1>3 DEF TypeInv, ThreadInit, States, Timers, Ops, Codes
  <2>4. WaitType'
    BY <1>1, <1>3 DEF TypeInv, ThreadInit, Reasons, Codes
  <2>5. ObjectType' /\ CpuType' /\ ArgIsEndpoint' /\ HistoryType'
    BY <1>1, <1>3, <2>1, <2>2 DEF TypeInv, ThreadInit, Phases, ArgIsEndpoint
  <2> QED
    BY <2>3, <2>4, <2>5 DEF TypeInv
<1> QED
  BY <1>2, <1>3, Zenon DEF Spawn

LEMMA YieldType ==
  ASSUME TypeInv, Yield
  PROVE  TypeInv'
<1>1. rq' \in RqType
  BY RqBlockType, RqEnqueueType DEF TypeInv, Yield
<1> QED
  BY <1>1 DEF TypeInv, Yield, Return, States, Ops, Codes, Phases, ArgIsEndpoint

LEMMA ExitType ==
  ASSUME TypeInv, Exit
  PROVE  TypeInv'
<1>1. rq' \in RqType
  BY RqBlockType DEF TypeInv, Exit
<1> QED
  BY <1>1, FreedType
     DEF TypeInv, Exit, Return, States, Ops, Codes, Phases, ArgIsEndpoint

LEMMA KillLocalType ==
  ASSUME TypeInv, NEW t \in AllThreads, KillLocal(t)
  PROVE  TypeInv'
<1> DEFINE c == ipcSender[t]
           peers == KillPeer(t)
           freed == IF t = current THEN dead ELSE t
<1>1. peers \subseteq AllThreads /\ (peers # {} => c \in AllThreads)
  BY DEF TypeInv, KillPeer
<1>2. /\ sendQ' \in [Eps -> Seq(AllThreads)]
      /\ recvQ' \in [Eps -> Seq(AllThreads)]
  <2>1. \A q \in [Eps -> Seq(AllThreads)] :
          /\ UnlinkIpc(q, t) \in [Eps -> Seq(AllThreads)]
          /\ \A e \in Eps : Unlink(q[e], c) \in Seq(AllThreads)
    BY UnlinkType DEF UnlinkIpc
  <2> DEFINE q1(q) == IF reason[t] \in {"CALL", "RECV", "OR_NOTIF"}
                         /\ blockedEp[t] # Null
                      THEN UnlinkIpc(q, t) ELSE q
             q2(q) == [e \in Eps |-> IF peers = {} THEN q1(q)[e]
                                     ELSE Unlink(q1(q)[e], c)]
  <2>2. sendQ' = q2(sendQ) /\ recvQ' = q2(recvQ)
    BY Zenon DEF KillLocal
  <2>3. \A q \in [Eps -> Seq(AllThreads)] : q1(q) \in [Eps -> Seq(AllThreads)]
    BY <2>1
  <2> HIDE DEF q1, peers, c
  <2>4. \A q \in [Eps -> Seq(AllThreads)] : q2(q) \in [Eps -> Seq(AllThreads)]
    BY <2>1, <2>3
  <2> QED
    BY <2>2, <2>4 DEF TypeInv
<1>3. waiter' \in [Notifs -> AllThreads \cup {Null}]
  BY DropWaiterType DEF TypeInv, KillLocal
<1>4. rq' \in RqType
  <2> DEFINE rq1 == IF peers = {} THEN rq ELSE RqEnqueue(rq, c, prio[c])
  <2>1. rq1 \in RqType
    BY <1>1, RqWakeType DEF TypeInv
  <2>2. rq' = RqDequeue(rq1, t, prio[t])
    BY Zenon DEF KillLocal
  <2> HIDE DEF rq1
  <2> QED
    BY <2>1, <2>2, RqDequeueType DEF TypeInv
<1>5. needsResched' \in BOOLEAN
  BY Zenon DEF KillLocal
<1>6. /\ registered' \in [AllThreads -> BOOLEAN]
      /\ timer' \in [AllThreads -> Timers]
  <2>1. registered' = FreedRegs(freed) /\ timer' = Put(FreedTimers(freed), peers \cup {t}, "none")
    BY Zenon DEF KillLocal
  <2> HIDE DEF freed, peers
  <2>2. /\ FreedRegs(freed) \in [AllThreads -> BOOLEAN]
        /\ FreedTimers(freed) \in [AllThreads -> Timers]
    BY FreedType DEF TypeInv
  <2>3. Put(FreedTimers(freed), peers \cup {t}, "none") \in [AllThreads -> Timers]
    BY <2>2 DEF Put, Timers
  <2> QED
    BY <2>1, <2>2, <2>3
<1> HIDE DEF freed, c
<1>7. TcbType'
  <2>1. state' \in [AllThreads -> States]
    BY DEF TypeInv, KillLocal, Put, States
  <2> QED
    BY <1>6, <2>1 DEF TypeInv, KillLocal, Return, Ops, Codes
<1>8. WaitType'
  <2>1. reason' \in [AllThreads -> Reasons] /\ status' \in [AllThreads -> Codes]
    BY DEF TypeInv, KillLocal, Put, Reasons, Codes
  <2>2. blockedEp' \in [AllThreads -> Eps \cup {Null}]
    BY DEF TypeInv, KillLocal, Put
  <2> QED
    BY <2>1, <2>2 DEF TypeInv, KillLocal
<1>9. ObjectType' /\ CpuType' /\ ArgIsEndpoint' /\ HistoryType'
  BY <1>2, <1>3, <1>4, <1>5 DEF TypeInv, KillLocal, Return, Phases, ArgIsEndpoint
<1> QED
  BY <1>7, <1>8, <1>9 DEF TypeInv

LEMMA KillType ==
  ASSUME TypeInv, NEW t \in Threads, Kill(t)
  PROVE  TypeInv'
<1>1. "kill" \in Ops /\ "ESRCH" \in Codes /\ t \in AllThreads
  BY DEF Ops, Codes, AllThreads
<1> QED
  BY <1>1, KillLocalType, ReturnOnlyType DEF Kill

LEMMA SuspendType ==
  ASSUME TypeInv, NEW t \in Threads, Suspend(t)
  PROVE  TypeInv'
<1>1. "suspend" \in Ops /\ {"OK", "ESRCH"} \subseteq Codes /\ t \in AllThreads
  BY DEF Ops, Codes, AllThreads
<1>2. CASE SuspendLive(t)
  <2>1. rq' \in RqType
    BY <1>1, <1>2, RqDequeueType DEF TypeInv, SuspendLive
  <2> QED
    BY <1>1, <1>2, <2>1 DEF TypeInv, SuspendLive, Return, States, Phases,
       ArgIsEndpoint
<1> QED
  BY <1>1, <1>2, ReturnOnlyType DEF Suspend

LEMMA ResumeType ==
  ASSUME TypeInv, NEW t \in Threads, Resume(t)
  PROVE  TypeInv'
<1>1. /\ "resume" \in Ops /\ {"OK", "ESRCH", "EINVAL"} \subseteq Codes
      /\ t \in AllThreads
  BY DEF Ops, Codes, AllThreads
<1>2. CASE ResumeSuspended(t)
  <2>1. rq' \in RqType
    BY <1>1, <1>2, RqWakeType DEF TypeInv, ResumeSuspended
  <2>2. needsResched' \in BOOLEAN
    BY <1>2, Zenon DEF ResumeSuspended
  <2> QED
    BY <1>1, <1>2, <2>1, <2>2 DEF TypeInv, ResumeSuspended, Return, States,
       Phases, ArgIsEndpoint
<1> QED
  BY <1>1, <1>2, ReturnOnlyType DEF Resume

LEMMA SetPrioType ==
  ASSUME TypeInv, NEW t \in Threads, NEW p \in Prio, SetPrio(t, p)
  PROVE  TypeInv'
<1>1. "set_prio" \in Ops /\ {"OK", "ESRCH"} \subseteq Codes /\ t \in AllThreads
  BY DEF Ops, Codes, AllThreads
<1>2. CASE SetPrioLive(t, p)
  <2>1. RqEnqueue(RqDequeue(rq, t, prio[t]), t, p) \in RqType
    BY <1>1, RqEnqueueType, RqDequeueType DEF TypeInv
  <2>2. rq' \in RqType
    BY <1>2, <2>1 DEF TypeInv, SetPrioLive
  <2>3. needsResched' \in BOOLEAN
    <3>1. (needsResched \/ Preempts(t, p, prio[current])) \in BOOLEAN
      BY Zenon
    <3> QED
      BY <1>2, <3>1 DEF TypeInv, SetPrioLive
  <2> QED
    BY <1>1, <1>2, <2>2, <2>3 DEF TypeInv, SetPrioLive, Return, Phases,
       ArgIsEndpoint
<1> QED
  BY <1>1, <1>2, ReturnOnlyType DEF SetPrio

-----------------------------------------------------------------------------
(* Trap exit preserves the types.                                           *)

LEMMA SwitchFromType ==
  ASSUME TypeInv, NEW q \in RqType, NEW st \in [AllThreads -> States],
         SwitchFrom(q, st)
  PROVE  /\ current' \in AllThreads
         /\ state' \in [AllThreads -> States]
         /\ rq' \in RqType
         /\ phase' \in {"user", "resolve"}
<1> DEFINE pick == RqNext(q, Null)
           next == IF pick = Null THEN Idle ELSE pick
<1>1. next \in AllThreads
  <2>1. pick \in AllThreads \cup {Null} /\ Idle \in AllThreads
    BY RqNextType DEF AllThreads
  <2> QED
    BY <2>1
<1>2. RqPop(q) \in RqType
  BY RqPopType
<1>3. /\ current' = next
      /\ state' = [st EXCEPT ![next] = "RUNNING"]
      /\ rq' = IF next = current THEN RqDequeue(RqPop(q), next, prio[next])
                                 ELSE RqPop(q)
      /\ phase' = AfterTrap(next)
  BY Zenon DEF SwitchFrom
<1> HIDE DEF next
<1>4. RqDequeue(RqPop(q), next, prio[next]) \in RqType
  BY <1>1, <1>2, RqDequeueType DEF TypeInv
<1> QED
  BY <1>1, <1>2, <1>3, <1>4 DEF States, AfterTrap

LEMMA TrapDispatchType ==
  ASSUME TypeInv, TrapDispatch
  PROVE  TypeInv'
<1>1. CASE DispatchStay
  BY <1>1 DEF TypeInv, TrapDispatch, DispatchStay, AfterTrap, Phases,
     ArgIsEndpoint
<1>2. CASE DispatchSwitch
  <2>1. SwitchFrom(rq, state)
    BY <1>2 DEF DispatchSwitch
  <2>2. /\ current' \in AllThreads
        /\ state' \in [AllThreads -> States]
        /\ rq' \in RqType
        /\ phase' \in {"user", "resolve"}
    BY <2>1, SwitchFromType DEF TypeInv
  <2>3. dead' \in AllThreads \cup {Null}
    BY <1>2 DEF TypeInv, DispatchSwitch
  <2>4. /\ registered' \in [AllThreads -> BOOLEAN]
        /\ timer' \in [AllThreads -> Timers]
    BY <1>2, FreedType DEF TypeInv, DispatchSwitch
  <2> QED
    BY <2>2, <2>3, <2>4 DEF TypeInv, TrapDispatch, Phases, ArgIsEndpoint
<1>3. CASE DispatchPreempt
  <2> DEFINE q == RqEnqueue(RqDequeue(rq, current, prio[current]),
                            current, prio[current])
             st == [state EXCEPT ![current] = "READY"]
  <2>1. q \in RqType
    BY RqBlockType, RqEnqueueType DEF TypeInv
  <2>2. st \in [AllThreads -> States]
    BY DEF TypeInv, States
  <2>3. SwitchFrom(q, st) /\ UNCHANGED <<registered, timer, dead>>
    BY <1>3 DEF DispatchPreempt
  <2> HIDE DEF q, st
  <2>4. /\ current' \in AllThreads
        /\ state' \in [AllThreads -> States]
        /\ rq' \in RqType
        /\ phase' \in {"user", "resolve"}
    BY <2>1, <2>2, <2>3, SwitchFromType
  <2> QED
    BY <2>3, <2>4 DEF TypeInv, TrapDispatch, Phases, ArgIsEndpoint
<1> QED
  BY <1>1, <1>2, <1>3 DEF TrapDispatch

LEMMA SyscallRetResolveType ==
  ASSUME TypeInv, SyscallRetResolve
  PROVE  TypeInv'
<1>1. TcbType'
  BY DEF TypeInv, SyscallRetResolve, Ops, Codes
<1>2. WaitType'
  BY DEF TypeInv, SyscallRetResolve, ResolvedPtrs, ResolvedWake, Codes
<1>3. ObjectType' /\ CpuType' /\ ArgIsEndpoint' /\ HistoryType'
  BY DEF TypeInv, SyscallRetResolve, Phases, ArgIsEndpoint
<1> QED
  BY <1>1, <1>2, <1>3 DEF TypeInv

-----------------------------------------------------------------------------
(* The boot state is well typed.                                            *)
LEMMA InitType == Init => TypeInv
<1> SUFFICES ASSUME Init
             PROVE  TypeInv
  OBVIOUS
<1>1. Root \in AllThreads /\ Idle \in AllThreads /\ 0 \in Prio /\ MaxPrio \in Prio
  BY RootAssumption, MaxPrioAssumption DEF AllThreads, Prio
<1>2. <<Idle>> \in Seq(AllThreads) /\ <<>> \in Seq(AllThreads)
  BY <1>1
<1>3. rq \in RqType
  BY <1>1, <1>2 DEF Init, RqType
<1>4. registered \in [AllThreads -> BOOLEAN]
  <2>1. registered = [t \in AllThreads |-> t \in {Root, Idle}]
    BY DEF Init
  <2>2. [t \in AllThreads |-> t \in {Root, Idle}] \in [AllThreads -> BOOLEAN]
    OBVIOUS
  <2> QED
    BY <2>1, <2>2
<1>5. TcbType
  BY <1>1, <1>4 DEF Init, States, Timers, Ops, Codes
<1>6. WaitType
  BY DEF Init, Reasons, Codes
<1>7. ObjectType /\ CpuType /\ ArgIsEndpoint /\ HistoryType
  BY <1>1, <1>2, <1>3 DEF Init, Phases, ArgIsEndpoint
<1> QED
  BY <1>5, <1>6, <1>7 DEF TypeInv

LEMMA SyscallType ==
  ASSUME TypeInv, Syscall
  PROVE  TypeInv'
<1>1. CASE \E e \in Eps :
             \/ EpCreate(e) \/ EpRecv(e) \/ EpDestroy(e)
             \/ \E cb \in {"none", "call"} : EpCallQueue(e, cb) \/ EpCallDeliver(e, cb)
             \/ \E n \in Notifs, m \in Masks : EpRecvOrNotif(e, n, m)
  BY <1>1, EpCreateType, EpRecvType, EpDestroyType, EpCallQueueType,
     EpCallDeliverType, EpRecvOrNotifType
<1>2. CASE \E n \in Notifs :
             \/ NotifCreate(n) \/ NotifDestroy(n)
             \/ \E m \in Masks :
                  \/ NotifSignal(n, m) \/ NotifWaitTake(n, m) \/ NotifPoll(n, m)
                  \/ \E cb \in {"none", "wait"} : NotifWaitBlock(n, m, cb)
  BY <1>2, NotifCreateType, NotifDestroyType, NotifSignalType,
     NotifWaitTakeType, NotifPollType, NotifWaitBlockType
<1>3. CASE \/ \E e \in Eps, valid \in BOOLEAN : EpCallRefused(e, valid)
           \/ \E n \in Notifs, valid \in BOOLEAN : NotifWaitRefused(n, valid)
  <2>1. "ep_call" \in Ops /\ "notif_wait" \in Ops /\ "EINVAL" \in Codes
    BY DEF Ops, Codes
  <2> QED
    BY <1>3, <2>1, ReturnOnlyType DEF EpCallRefused, NotifWaitRefused
<1>4. CASE \/ \E valid \in BOOLEAN : Sleep(valid)
           \/ \E t \in Threads : SleepCancel(t) \/ Kill(t)
           \/ \E t \in Threads, p \in Prio : Spawn(t, p) \/ SetPrio(t, p)
           \/ Yield \/ Exit
  BY <1>4, SleepType, SleepCancelType, KillType, SpawnType, SetPrioType,
     YieldType, ExitType
<1> QED
  BY <1>1, <1>2, <1>3, <1>4, Zenon DEF Syscall

LEMMA NextType ==
  ASSUME TypeInv, [Next]_vars
  PROVE  TypeInv'
<1>1. CASE Syscall
  BY <1>1, SyscallType
<1>2. CASE Replies(ReplySafe) \/ Replies(Threads)
  <2>1. ReplySafe \subseteq Threads
    BY DEF ReplySafe
  <2> QED
    BY <1>2, <2>1, EpReplyType, EpReplyRecvType DEF Replies
<1>3. CASE Interrupt
  BY <1>3, TimerFireType, IrqDispatchType DEF Interrupt
<1>4. CASE KernelStep
  BY <1>4, EpReplyRecvTailType, EpDestroyNextType, TrapDispatchType,
     SyscallRetResolveType DEF KernelStep
<1>5. CASE SuspendResume
  BY <1>5, SuspendType, ResumeType DEF SuspendResume
<1>6. CASE UNCHANGED vars
  BY <1>6 DEF TypeInv, ArgIsEndpoint, vars
<1> QED
  BY <1>1, <1>2, <1>3, <1>4, <1>5, <1>6 DEF Next, CoreNext, IdleLoop, Halted

(* Type correctness for any user program: whatever system calls the threads *)
(* make and whenever interrupts come, every TCB field, queue, notification  *)
(* and per-CPU variable keeps a value of its type.  In particular the CPU   *)
(* always runs a thread, and a queue or a waiter slot never names anything  *)
(* but a thread.                                                            *)
THEOREM TypeCorrect == Spec => []TypeOK
<1>1. Init => TypeInv
  BY InitType
<1>2. TypeInv /\ [Next]_vars => TypeInv'
  BY NextType
<1>3. TypeInv => TypeOK
  BY DEF TypeInv
<1> QED
  BY <1>1, <1>2, <1>3, PTL DEF Spec

HIDE DEF TypeOK, TcbType, WaitType, ObjectType, CpuType, HistoryType

-----------------------------------------------------------------------------
(* The inductive invariant.                                                 *)

CallersAt(e) ==
  {t \in AllThreads : /\ state[t] = "BLOCKED" /\ reason[t] = "CALL"
                      /\ blockedEp[t] = e /\ taken[t] = Null}

ReceiversAt(e) ==
  {t \in AllThreads : /\ state[t] = "BLOCKED"
                      /\ reason[t] \in {"RECV", "OR_NOTIF"}
                      /\ blockedEp[t] = e}

WaitersOn(n) ==
  {t \in AllThreads : /\ state[t] = "BLOCKED"
                      /\ reason[t] \in {"NOTIF", "OR_NOTIF"}
                      /\ blockedNotif[t] = n}

(* The wait queues and slots name only threads that wait there.             *)
QueuedAreBlocked ==
  \A e \in Eps :
    /\ IsInjective(sendQ[e]) /\ Range(sendQ[e]) \subseteq CallersAt(e)
    /\ IsInjective(recvQ[e]) /\ Range(recvQ[e]) \subseteq ReceiversAt(e)

SlotsAreBlocked ==
  \A n \in Notifs : ntActive[n] /\ waiter[n] # Null => waiter[n] \in WaitersOn(n)

WaitInv == QueuedAreBlocked /\ SlotsAreBlocked

(* A thread that can run waits for nothing, nothing is suspended, and the   *)
(* idle thread, which makes no system call, can always run.                 *)
RunnableWaitsForNothing ==
  /\ state[Idle] \in {"READY", "RUNNING"}
  /\ \A t \in AllThreads :
       /\ state[t] \in {"READY", "RUNNING"} => reason[t] = "NONE"
       /\ state[t] # "SUSPENDED"

RunsOnCpu ==
  /\ phase \in {"user", "recv", "resolve"} => state[current] = "RUNNING"
  /\ phase = "recv" => current # Idle

(* TCBs: a freed one is DEAD, a DEAD one is freed or the corpse.            *)
FreedIsDead == \A t \in AllThreads : ~registered[t] => state[t] = "DEAD"

CpuInv ==
  /\ RqMatches(rq, prio, state)
  /\ RunnableWaitsForNothing
  /\ RunsOnCpu
  /\ FreedIsDead
  /\ CorpseAccounted
  /\ ListsIntact

CoreInv == TypeInv /\ CpuInv /\ WaitInv

-----------------------------------------------------------------------------
(* Facts about states that satisfy the invariant.                           *)

LEMMA IdleNull == Null \notin AllThreads /\ Idle \in AllThreads /\ Idle \notin Threads
  BY NullAssumption, ThreadsAssumption DEF AllThreads

LEMMA TypeFacts ==
  ASSUME TypeInv
  PROVE  /\ state \in [AllThreads -> States] /\ reason \in [AllThreads -> Reasons]
         /\ prio \in [AllThreads -> Prio] /\ saved \in [AllThreads -> Prio]
         /\ rq \in RqType /\ current \in AllThreads
         /\ sendQ \in [Eps -> Seq(AllThreads)]
         /\ recvQ \in [Eps -> Seq(AllThreads)]
         /\ waiter \in [Notifs -> AllThreads \cup {Null}]
         /\ blockedEp \in [AllThreads -> Eps \cup {Null}]
         /\ blockedNotif \in [AllThreads -> Notifs \cup {Null}]
         /\ taken \in [AllThreads -> AllThreads \cup {Null}]
         /\ registered \in [AllThreads -> BOOLEAN]
         /\ ntActive \in [Notifs -> BOOLEAN]
         /\ timer \in [AllThreads -> Timers]
         /\ dead \in AllThreads \cup {Null}
         /\ ipcSender \in [AllThreads -> AllThreads \cup {Null}]
         /\ Threads \subseteq AllThreads
  BY DEF TypeInv, TypeOK, TcbType, WaitType, ObjectType, CpuType, HistoryType,
         AllThreads

LEMMA PrioType ==
  ASSUME TypeInv'
  PROVE  prio' \in [AllThreads -> Prio]
  BY DEF TypeInv, TypeOK, TcbType

(* A thread that is not BLOCKED is on no queue and in no slot.              *)
LEMMA UnblockedIsFree ==
  ASSUME CoreInv, NEW t \in AllThreads, state[t] # "BLOCKED"
  PROVE  /\ ~IpcLinked(t)
         /\ \A e \in Eps : t \notin Range(sendQ[e]) /\ t \notin Range(recvQ[e])
         /\ \A n \in Notifs : ntActive[n] => waiter[n] # t
<1>1. \A e \in Eps : t \notin Range(sendQ[e]) /\ t \notin Range(recvQ[e])
  BY DEF CoreInv, WaitInv, QueuedAreBlocked, CallersAt, ReceiversAt
<1>2. \A n \in Notifs : ntActive[n] => waiter[n] # t
  BY IdleNull DEF CoreInv, WaitInv, SlotsAreBlocked, WaitersOn
<1> QED
  BY <1>1, <1>2 DEF IpcLinked

(* The thread that makes a system call is on no list at all.                *)
LEMMA CallerIsFree ==
  ASSUME CoreInv, phase \in {"user", "recv"}
  PROVE  /\ current \in AllThreads
         /\ state[current] = "RUNNING" /\ reason[current] = "NONE"
         /\ registered[current] /\ dead # current
         /\ ~IpcLinked(current)
         /\ \A e \in Eps :
              current \notin Range(sendQ[e]) /\ current \notin Range(recvQ[e])
         /\ \A n \in Notifs : ntActive[n] => waiter[n] # current
         /\ RqDequeue(rq, current, prio[current]) = rq
<1>1. current \in AllThreads /\ state[current] = "RUNNING"
  BY TypeFacts DEF CoreInv, CpuInv, RunsOnCpu
<1>2. reason[current] = "NONE"
  BY <1>1 DEF CoreInv, CpuInv, RunnableWaitsForNothing
<1>3. registered[current]
  BY <1>1 DEF CoreInv, CpuInv, FreedIsDead
<1>4. dead # current
  BY <1>1, IdleNull DEF CoreInv, CpuInv, CorpseAccounted
<1>5. RqDequeue(rq, current, prio[current]) = rq
  <2>1. RqMatches(rq, prio, state) /\ state[current] # "READY"
    BY <1>1 DEF CoreInv, CpuInv
  <2> QED
    BY <1>1, <2>1, RqDequeueUnlinked, ZenonT(30)
<1>6. /\ ~IpcLinked(current)
      /\ \A e \in Eps : current \notin Range(sendQ[e]) /\ current \notin Range(recvQ[e])
      /\ \A n \in Notifs : ntActive[n] => waiter[n] # current
  BY <1>1, UnblockedIsFree
<1> QED
  BY <1>1, <1>2, <1>3, <1>4, <1>5, <1>6

(* A caller that may be answered is blocked in its call.                    *)
LEMMA AnswerableIsBlocked ==
  ASSUME CoreInv, NEW c \in AllThreads, CanReply(c)
  PROVE  state[c] = "BLOCKED" /\ reason[c] = "CALL"
<1>1. state[c] # "DEAD" /\ reason[c] = "CALL"
  BY DEF CanReply, Alive
<1>2. state[c] \in States /\ state[c] # "SUSPENDED"
      /\ state[c] \notin {"READY", "RUNNING"}
  BY <1>1, TypeFacts DEF CoreInv, CpuInv, RunnableWaitsForNothing
<1> QED
  BY <1>1, <1>2 DEF States

(* What the queue operations do to the sets of queued threads.              *)
Queues == {q \in [Eps -> Seq(AllThreads)] : \A x \in Eps : IsInjective(q[x])}

LEMMA UnlinkOps ==
  ASSUME NEW q \in Queues, NEW t \in AllThreads
  PROVE  \A x \in Eps : /\ IsInjective(UnlinkIpc(q, t)[x])
                        /\ Range(UnlinkIpc(q, t)[x]) = Range(q[x]) \ {t}
  BY UnlinkRange DEF UnlinkIpc, Queues

LEMMA PopOps ==
  ASSUME NEW q \in Queues, NEW e \in Eps, q[e] # <<>>
  PROVE  /\ Head(q[e]) \in Range(q[e])
         /\ Head(q[e]) \in AllThreads
         /\ \A x \in Eps : /\ IsInjective(PopHead(q, e)[x])
                           /\ Range(PopHead(q, e)[x]) \subseteq Range(q[x])
         /\ Head(q[e]) \notin Range(PopHead(q, e)[e])
<1>1. /\ Range(Tail(q[e])) = Range(q[e]) \ {Head(q[e])}
      /\ IsInjective(Tail(q[e]))
      /\ Head(q[e]) \in Range(q[e])
  BY TailRange DEF Queues
<1>2. /\ PopHead(q, e)[e] = Tail(q[e])
      /\ \A x \in Eps \ {e} : PopHead(q, e)[x] = q[x]
  BY DEF PopHead, Queues
<1>3. Head(q[e]) \in AllThreads
  BY QueueTypes DEF Queues
<1> QED
  BY <1>1, <1>2, <1>3 DEF Queues

LEMMA AppendOps ==
  ASSUME NEW q \in Queues, NEW e \in Eps, NEW t \in AllThreads, t \notin Range(q[e])
  PROVE  \A x \in Eps :
           /\ IsInjective(IpcEnqueueTail(q, e, t)[x])
           /\ Range(IpcEnqueueTail(q, e, t)[x]) =
                IF x = e THEN Range(q[e]) \cup {t} ELSE Range(q[x])
<1>1. /\ Range(Append(q[e], t)) = Range(q[e]) \cup {t}
      /\ IsInjective(Append(q[e], t))
  BY AppendRange DEF Queues
<1>2. /\ IpcEnqueueTail(q, e, t)[e] = Append(q[e], t)
      /\ \A x \in Eps \ {e} : IpcEnqueueTail(q, e, t)[x] = q[x]
  BY DEF IpcEnqueueTail, Queues
<1> QED
  BY <1>1, <1>2 DEF Queues

LEMMA AreQueues ==
  ASSUME CoreInv
  PROVE  sendQ \in Queues /\ recvQ \in Queues
  BY TypeFacts DEF CoreInv, WaitInv, QueuedAreBlocked, Queues

-----------------------------------------------------------------------------
(* The shapes of steps.                                                     *)

(* Only threads of W change what they wait for.                             *)
OthersWait(W) ==
  \A t \in AllThreads \ W :
    /\ state'[t] = state[t] /\ reason'[t] = reason[t]
    /\ blockedEp'[t] = blockedEp[t] /\ taken'[t] = taken[t]
    /\ blockedNotif'[t] = blockedNotif[t]

(* What is still queued is either an old entry outside W or a thread that   *)
(* now waits there.                                                         *)
SendersStep(W) ==
  \A e \in Eps :
    /\ IsInjective(sendQ'[e])
    /\ Range(sendQ'[e]) \subseteq (Range(sendQ[e]) \ W) \cup CallersAt(e)'

ReceiversStep(W) ==
  \A e \in Eps :
    /\ IsInjective(recvQ'[e])
    /\ Range(recvQ'[e]) \subseteq (Range(recvQ[e]) \ W) \cup ReceiversAt(e)'

SlotsStep(W) ==
  \A n \in Notifs : ntActive'[n] /\ waiter'[n] # Null =>
    \/ ntActive[n] /\ waiter'[n] = waiter[n] /\ waiter[n] \notin W
    \/ waiter'[n] \in WaitersOn(n)'

LEMMA WaitFrame ==
  ASSUME CoreInv, NEW W \in SUBSET AllThreads,
         OthersWait(W), SendersStep(W), ReceiversStep(W), SlotsStep(W)
  PROVE  WaitInv'
<1> USE DEF OthersWait
<1>1. ASSUME NEW e \in Eps, NEW t \in Range(sendQ'[e])
      PROVE  t \in CallersAt(e)'
  BY <1>1 DEF CoreInv, WaitInv, QueuedAreBlocked, CallersAt, SendersStep
<1>2. ASSUME NEW e \in Eps, NEW t \in Range(recvQ'[e])
      PROVE  t \in ReceiversAt(e)'
  BY <1>2 DEF CoreInv, WaitInv, QueuedAreBlocked, ReceiversAt, ReceiversStep
<1>3. QueuedAreBlocked'
  BY <1>1, <1>2 DEF QueuedAreBlocked, SendersStep, ReceiversStep
<1>4. SlotsAreBlocked'
  <2> SUFFICES ASSUME NEW n \in Notifs, ntActive'[n], waiter'[n] # Null
               PROVE  waiter'[n] \in WaitersOn(n)'
    BY DEF SlotsAreBlocked
  <2> QED
    BY DEF CoreInv, WaitInv, SlotsAreBlocked, WaitersOn, SlotsStep
<1> QED
  BY <1>3, <1>4 DEF WaitInv

(* A queue without the threads of W stays, or is emptied.                   *)
LEMMA SendersKept ==
  ASSUME CoreInv, NEW W, \A t \in W, e \in Eps : t \notin Range(sendQ[e]),
         \A e \in Eps : sendQ'[e] = sendQ[e] \/ sendQ'[e] = <<>>
  PROVE  SendersStep(W)
  BY EmptyListRange DEF CoreInv, WaitInv, QueuedAreBlocked, SendersStep

LEMMA ReceiversKept ==
  ASSUME CoreInv, NEW W, \A t \in W, e \in Eps : t \notin Range(recvQ[e]),
         \A e \in Eps : recvQ'[e] = recvQ[e] \/ recvQ'[e] = <<>>
  PROVE  ReceiversStep(W)
  BY EmptyListRange DEF CoreInv, WaitInv, QueuedAreBlocked, ReceiversStep

LEMMA SlotsKept ==
  ASSUME CoreInv, NEW W, \A t \in W, n \in Notifs : ntActive[n] => waiter[n] # t,
         UNCHANGED <<ntActive, waiter>>
  PROVE  SlotsStep(W)
  BY DEF SlotsStep

(* The thread t is appended to, taken from the head of, or unlinked from    *)
(* the queues.                                                              *)
LEMMA SenderAppended ==
  ASSUME CoreInv, NEW e \in Eps, NEW t \in AllThreads,
         \A x \in Eps : t \notin Range(sendQ[x]),
         sendQ' = IpcEnqueueTail(sendQ, e, t), t \in CallersAt(e)'
  PROVE  SendersStep({t})
<1>1. sendQ \in Queues
  BY AreQueues
<1>2. \A x \in Eps :
        /\ IsInjective(IpcEnqueueTail(sendQ, e, t)[x])
        /\ Range(IpcEnqueueTail(sendQ, e, t)[x]) =
             IF x = e THEN Range(sendQ[e]) \cup {t} ELSE Range(sendQ[x])
  BY <1>1, AppendOps
<1> QED
  BY <1>2 DEF SendersStep

LEMMA ReceiverAppended ==
  ASSUME CoreInv, NEW e \in Eps, NEW t \in AllThreads,
         \A x \in Eps : t \notin Range(recvQ[x]),
         recvQ' = IpcEnqueueTail(recvQ, e, t), t \in ReceiversAt(e)'
  PROVE  ReceiversStep({t})
<1>1. recvQ \in Queues
  BY AreQueues
<1>2. \A x \in Eps :
        /\ IsInjective(IpcEnqueueTail(recvQ, e, t)[x])
        /\ Range(IpcEnqueueTail(recvQ, e, t)[x]) =
             IF x = e THEN Range(recvQ[e]) \cup {t} ELSE Range(recvQ[x])
  BY <1>1, AppendOps
<1> QED
  BY <1>2 DEF ReceiversStep

LEMMA SenderPopped ==
  ASSUME CoreInv, NEW e \in Eps, sendQ[e] # <<>>, sendQ' = PopHead(sendQ, e)
  PROVE  /\ Head(sendQ[e]) \in CallersAt(e)
         /\ \A x \in Eps : Head(sendQ[e]) \notin Range(recvQ[x])
         /\ SendersStep({Head(sendQ[e])})
<1> DEFINE h == Head(sendQ[e])
<1>1. sendQ \in Queues
  BY AreQueues
<1>2. /\ h \in Range(sendQ[e]) /\ h \in AllThreads
      /\ \A x \in Eps : /\ IsInjective(PopHead(sendQ, e)[x])
                        /\ Range(PopHead(sendQ, e)[x]) \subseteq Range(sendQ[x])
      /\ h \notin Range(PopHead(sendQ, e)[e])
  BY <1>1, PopOps
<1> HIDE DEF h
<1>3. h \in CallersAt(e)
  BY <1>2 DEF CoreInv, WaitInv, QueuedAreBlocked
<1>4. \A x \in Eps : h \notin Range(recvQ[x])
  BY <1>3 DEF CoreInv, WaitInv, QueuedAreBlocked, CallersAt, ReceiversAt
<1>5. \A x \in Eps \ {e} : h \notin Range(sendQ[x])
  BY <1>3 DEF CoreInv, WaitInv, QueuedAreBlocked, CallersAt
<1>6. SendersStep({h})
  BY <1>2, <1>5 DEF SendersStep
<1> QED
  BY <1>3, <1>4, <1>6 DEF h

LEMMA ReceiverPopped ==
  ASSUME CoreInv, NEW e \in Eps, recvQ[e] # <<>>, recvQ' = PopHead(recvQ, e)
  PROVE  /\ Head(recvQ[e]) \in ReceiversAt(e)
         /\ \A x \in Eps : Head(recvQ[e]) \notin Range(sendQ[x])
         /\ ReceiversStep({Head(recvQ[e])})
<1> DEFINE h == Head(recvQ[e])
<1>1. recvQ \in Queues
  BY AreQueues
<1>2. /\ h \in Range(recvQ[e]) /\ h \in AllThreads
      /\ \A x \in Eps : /\ IsInjective(PopHead(recvQ, e)[x])
                        /\ Range(PopHead(recvQ, e)[x]) \subseteq Range(recvQ[x])
      /\ h \notin Range(PopHead(recvQ, e)[e])
  BY <1>1, PopOps
<1> HIDE DEF h
<1>3. h \in ReceiversAt(e)
  BY <1>2 DEF CoreInv, WaitInv, QueuedAreBlocked
<1>4. \A x \in Eps : h \notin Range(sendQ[x])
  BY <1>3 DEF CoreInv, WaitInv, QueuedAreBlocked, CallersAt, ReceiversAt
<1>5. \A x \in Eps \ {e} : h \notin Range(recvQ[x])
  BY <1>3 DEF CoreInv, WaitInv, QueuedAreBlocked, ReceiversAt
<1>6. ReceiversStep({h})
  BY <1>2, <1>5 DEF ReceiversStep
<1> QED
  BY <1>3, <1>4, <1>6 DEF h

LEMMA Unlinked ==
  ASSUME CoreInv, NEW t \in AllThreads
  PROVE  /\ sendQ' = UnlinkIpc(sendQ, t) => SendersStep({t})
         /\ recvQ' = UnlinkIpc(recvQ, t) => ReceiversStep({t})
<1>1. sendQ \in Queues /\ recvQ \in Queues
  BY AreQueues
<1>2. \A x \in Eps : /\ IsInjective(UnlinkIpc(sendQ, t)[x])
                     /\ Range(UnlinkIpc(sendQ, t)[x]) = Range(sendQ[x]) \ {t}
                     /\ IsInjective(UnlinkIpc(recvQ, t)[x])
                     /\ Range(UnlinkIpc(recvQ, t)[x]) = Range(recvQ[x]) \ {t}
  BY <1>1, UnlinkOps
<1> QED
  BY <1>2 DEF SendersStep, ReceiversStep

(* clear_server_block takes t out of every slot.                            *)
LEMMA WaiterDropped ==
  ASSUME CoreInv, NEW t \in AllThreads, waiter' = DropWaiter(t), UNCHANGED ntActive
  PROVE  SlotsStep({t})
<1> SUFFICES ASSUME NEW n \in Notifs, ntActive[n], waiter'[n] # Null
             PROVE  waiter'[n] = waiter[n] /\ waiter[n] # t
  BY DEF SlotsStep
<1>1. waiter'[n] = waiter[n]
  BY DEF DropWaiter
<1>2. waiter[n] = t => blockedNotif[t] = n
  BY <1>1 DEF CoreInv, WaitInv, SlotsAreBlocked, WaitersOn
<1> QED
  BY <1>1, <1>2 DEF DropWaiter

(* The running thread, which is not idle, blocks in a system call.          *)
LEMMA CpuBlocks ==
  ASSUME CoreInv, TypeInv', phase \in {"user", "recv"}, current # Idle, NEW r,
         state' = [state EXCEPT ![current] = "BLOCKED"],
         reason' = [reason EXCEPT ![current] = r],
         UNCHANGED prio, rq' = rq, phase' = "syscall",
         UNCHANGED <<registered, dead, current>>
  PROVE  CpuInv'
<1>1. /\ state \in [AllThreads -> States] /\ reason \in [AllThreads -> Reasons]
      /\ rq \in RqType /\ prio \in [AllThreads -> Prio]
      /\ prio' \in [AllThreads -> Prio] /\ current \in AllThreads
      /\ state[current] = "RUNNING"
  BY TypeFacts, PrioType, CallerIsFree DEF CoreInv
<1>2. RqMatches(rq, prio, state)'
  <2>1. \A t \in AllThreads : /\ state'[t] = "READY" <=> state[t] = "READY"
                              /\ state[t] = "READY" => prio'[t] = prio[t]
    BY <1>1
  <2>2. RqMatches(rq, prio', state')
    BY <1>1, <2>1, RqMatchesOthers DEF CoreInv, CpuInv
  <2> QED
    BY <2>2
<1>3. RunnableWaitsForNothing'
  BY <1>1 DEF CoreInv, CpuInv, RunnableWaitsForNothing
<1>4. RunsOnCpu' /\ ListsIntact'
  BY <1>1 DEF RunsOnCpu, ListsIntact
<1>5. FreedIsDead' /\ CorpseAccounted'
  BY <1>1, IdleNull, TypeFacts DEF CoreInv, CpuInv, FreedIsDead, CorpseAccounted
<1> QED
  BY <1>2, <1>3, <1>4, <1>5 DEF CpuInv

(* A blocked thread is made READY and enqueued; the running thread may      *)
(* block in the same step.                                                  *)
LEMMA CpuWakes ==
  ASSUME CoreInv, TypeInv', NEW t \in AllThreads, state[t] = "BLOCKED",
         state'[t] = "READY", reason'[t] = "NONE",
         \A x \in AllThreads \ {t} :
           \/ state'[x] = state[x] /\ reason'[x] = reason[x]
           \/ /\ x = current /\ state[x] = "RUNNING" /\ state'[x] = "BLOCKED"
              /\ phase' = "syscall" /\ x # Idle,
         \A x \in AllThreads : state[x] = "READY" => prio'[x] = prio[x],
         rq' = RqEnqueue(rq, t, prio'[t]),
         \/ phase' \in {"syscall", "destroy", "isr"}
         \/ phase' = "recv" /\ state[current] = "RUNNING" /\ current # Idle,
         UNCHANGED <<registered, dead, current>>
  PROVE  CpuInv'
<1>1. /\ state \in [AllThreads -> States] /\ reason \in [AllThreads -> Reasons]
      /\ rq \in RqType /\ prio \in [AllThreads -> Prio]
      /\ prio' \in [AllThreads -> Prio] /\ current \in AllThreads
  BY TypeFacts, PrioType DEF CoreInv
<1>2. RqMatches(rq, prio, state)'
  <2>1. RqMatches(rq, prio', state)
    BY <1>1, RqMatchesOthers DEF CoreInv, CpuInv
  <2>2. \A x \in AllThreads \ {t} : state'[x] = "READY" <=> state[x] = "READY"
    BY <1>1
  <2> QED
    BY <1>1, <2>1, <2>2, RqEnqueueMatches
<1>3. RunnableWaitsForNothing'
  BY <1>1, IdleNull DEF CoreInv, CpuInv, RunnableWaitsForNothing
<1>4. RunsOnCpu' /\ ListsIntact'
  BY <1>1 DEF RunsOnCpu, ListsIntact
<1>5. FreedIsDead' /\ CorpseAccounted'
  BY <1>1, IdleNull, TypeFacts DEF CoreInv, CpuInv, FreedIsDead, CorpseAccounted
<1> QED
  BY <1>2, <1>3, <1>4, <1>5 DEF CpuInv

(* Nothing changes that the CPU part of the invariant speaks of.            *)
LEMMA CpuQuiet ==
  ASSUME CoreInv, TypeInv', UNCHANGED <<state, reason, rq, registered, dead, current>>,
         \A t \in AllThreads : state[t] = "READY" => prio'[t] = prio[t],
         phase' # "corrupt",
         phase' \in {"user", "recv", "resolve"} => state[current] = "RUNNING",
         phase' = "recv" => current # Idle
  PROVE  CpuInv'
<1>1. /\ rq \in RqType /\ prio \in [AllThreads -> Prio]
      /\ prio' \in [AllThreads -> Prio]
  BY TypeFacts, PrioType DEF CoreInv
<1>2. RqMatches(rq, prio', state)
  BY <1>1, RqMatchesOthers DEF CoreInv, CpuInv
<1>3. RqMatches(rq, prio, state)'
  BY <1>2
<1>4. RunnableWaitsForNothing' /\ RunsOnCpu' /\ ListsIntact'
  BY DEF CoreInv, CpuInv, RunnableWaitsForNothing, RunsOnCpu, ListsIntact
<1>5. FreedIsDead' /\ CorpseAccounted'
  BY DEF CoreInv, CpuInv, FreedIsDead, CorpseAccounted
<1> QED
  BY <1>3, <1>4, <1>5 DEF CpuInv

LEMMA WaitQuiet ==
  ASSUME CoreInv,
         UNCHANGED <<state, reason, blockedEp, blockedNotif, taken, sendQ,
                     recvQ, ntActive, waiter>>
  PROVE  WaitInv'
<1>1. OthersWait({})
  BY DEF OthersWait
<1>2. SendersStep({}) /\ ReceiversStep({}) /\ SlotsStep({})
  BY SendersKept, ReceiversKept, SlotsKept
<1> QED
  BY <1>1, <1>2, WaitFrame

(* A thread that is not blocked can change without disturbing the waits.    *)
LEMMA WaitUnblocked ==
  ASSUME CoreInv, NEW t \in AllThreads, state[t] # "BLOCKED", OthersWait({t}),
         UNCHANGED <<sendQ, recvQ, ntActive, waiter>>
  PROVE  WaitInv'
<1>1. /\ \A e \in Eps : t \notin Range(sendQ[e]) /\ t \notin Range(recvQ[e])
      /\ \A n \in Notifs : ntActive[n] => waiter[n] # t
  BY UnblockedIsFree
<1>2. SendersStep({t}) /\ ReceiversStep({t}) /\ SlotsStep({t})
  BY <1>1, SendersKept, ReceiversKept, SlotsKept
<1> QED
  BY <1>2, WaitFrame

-----------------------------------------------------------------------------
(* Endpoint operations preserve the invariant.                              *)

LEMMA ReturnOnlyCore ==
  ASSUME CoreInv, TypeInv', NEW name, NEW r, ReturnOnly(name, r)
  PROVE  CpuInv' /\ WaitInv'
<1>1. CpuInv'
  BY CpuQuiet DEF ReturnOnly, Return
<1>2. WaitInv'
  BY WaitQuiet DEF ReturnOnly
<1> QED
  BY <1>1, <1>2

LEMMA EpCreateCore ==
  ASSUME CoreInv, TypeInv', NEW e \in Eps, EpCreate(e)
  PROVE  CpuInv' /\ WaitInv'
<1>1. CpuInv'
  BY CpuQuiet DEF EpCreate, Return
<1>2. \A x \in Eps : /\ sendQ'[x] = sendQ[x] \/ sendQ'[x] = <<>>
                     /\ recvQ'[x] = recvQ[x] \/ recvQ'[x] = <<>>
  BY TypeFacts DEF CoreInv, EpCreate
<1>3. SendersStep({}) /\ ReceiversStep({}) /\ SlotsStep({})
  BY <1>2, SendersKept, ReceiversKept, SlotsKept DEF EpCreate
<1>4. OthersWait({})
  BY DEF EpCreate, OthersWait
<1> QED
  BY <1>1, <1>3, <1>4, WaitFrame

LEMMA EpCallQueueCore ==
  ASSUME CoreInv, TypeInv', NEW e \in Eps, NEW cb, EpCallQueue(e, cb)
  PROVE  CpuInv' /\ WaitInv'
<1>1. phase = "user"
  BY DEF EpCallQueue, InUser
<1>2. CallerQueues(e, cb) /\ current \in AllThreads
  BY <1>1, CallerIsFree DEF EpCallQueue
<1>3. CpuInv'
  BY <1>1, <1>2, CallerIsFree, CpuBlocks
     DEF EpCallQueue, InUser, CallerQueues, CallerBlocks, Return
<1>4. current \in CallersAt(e)'
  BY <1>2, TypeFacts DEF CoreInv, CallersAt, CallerQueues
<1>5. SendersStep({current})
  BY <1>1, <1>2, <1>4, CallerIsFree, SenderAppended DEF CallerQueues
<1>6. ReceiversStep({current}) /\ SlotsStep({current})
  BY <1>1, <1>2, CallerIsFree, ReceiversKept, SlotsKept
     DEF CallerQueues, CallerBlocks
<1>7. OthersWait({current})
  BY <1>2, TypeFacts DEF CoreInv, CallerQueues, OthersWait
<1> QED
  BY <1>2, <1>3, <1>5, <1>6, <1>7, WaitFrame

(* The running thread is on no queue: it may change as well.                *)
LEMMA CallerToo ==
  ASSUME CoreInv, phase \in {"user", "recv"}, NEW W,
         SendersStep(W), ReceiversStep(W), SlotsStep(W)
  PROVE  /\ SendersStep(W \cup {current})
         /\ ReceiversStep(W \cup {current})
         /\ SlotsStep(W \cup {current})
<1>1. /\ \A e \in Eps : current \notin Range(sendQ[e]) /\ current \notin Range(recvQ[e])
      /\ \A n \in Notifs : ntActive[n] => waiter[n] # current
  BY CallerIsFree
<1> QED
  BY <1>1 DEF SendersStep, ReceiversStep, SlotsStep

LEMMA EpCallDeliverCore ==
  ASSUME CoreInv, TypeInv', NEW e \in Eps, NEW cb, EpCallDeliver(e, cb)
  PROVE  CpuInv' /\ WaitInv'
<1> DEFINE srv == Head(recvQ[e])
<1>1. phase = "user" /\ recvQ[e] # <<>> /\ recvQ' = PopHead(recvQ, e)
  BY DEF EpCallDeliver, InUser
<1>2. srv \in ReceiversAt(e) /\ ReceiversStep({srv})
      /\ \A x \in Eps : srv \notin Range(sendQ[x])
  BY <1>1, ReceiverPopped
<1> HIDE DEF srv
<1>3. srv \in AllThreads /\ state[srv] = "BLOCKED"
  BY <1>2 DEF ReceiversAt
<1>4. /\ current \in AllThreads /\ state[current] = "RUNNING"
      /\ srv # current /\ current # Idle
  BY <1>1, <1>3, CallerIsFree DEF EpCallDeliver, InUser
<1>5. rq' = RqEnqueue(rq, srv, prio'[srv])
  BY <1>1, <1>3, CallerIsFree, TypeFacts DEF CoreInv, EpCallDeliver, srv
<1>6. /\ state' = [state EXCEPT ![current] = "BLOCKED", ![srv] = "READY"]
      /\ reason' = [reason EXCEPT ![current] = "CALL", ![srv] = "NONE"]
      /\ blockedEp' = [blockedEp EXCEPT ![current] = e, ![srv] = Null]
      /\ blockedNotif' = [blockedNotif EXCEPT ![srv] = Null]
      /\ taken' = [taken EXCEPT ![current] = srv]
      /\ prio' = [prio EXCEPT ![srv] = Inherited(srv, current)]
      /\ waiter' = DropWaiter(srv) /\ sendQ' = sendQ
      /\ phase' = "syscall"
      /\ UNCHANGED <<registered, dead, current, ntActive>>
  BY DEF EpCallDeliver, CallerBlocks, Return, srv
<1>7. \A x \in AllThreads : state[x] = "READY" => prio'[x] = prio[x]
  BY <1>3, <1>6, TypeFacts DEF CoreInv
<1>8. /\ state'[srv] = "READY" /\ reason'[srv] = "NONE"
      /\ \A x \in AllThreads \ {srv} :
           \/ state'[x] = state[x] /\ reason'[x] = reason[x]
           \/ /\ x = current /\ state[x] = "RUNNING" /\ state'[x] = "BLOCKED"
              /\ phase' = "syscall" /\ x # Idle
  BY <1>3, <1>4, <1>6, TypeFacts DEF CoreInv
<1>9. CpuInv'
  BY <1>3, <1>5, <1>6, <1>7, <1>8, CpuWakes
<1>10. SendersStep({srv}) /\ SlotsStep({srv})
  BY <1>2, <1>3, <1>6, SendersKept, WaiterDropped
<1>11. OthersWait({srv} \cup {current})
  BY <1>6, TypeFacts DEF CoreInv, OthersWait
<1> QED
  BY <1>1, <1>2, <1>3, <1>4, <1>9, <1>10, <1>11, CallerToo, WaitFrame

LEMMA RecvTakeCore ==
  ASSUME CoreInv, TypeInv', phase \in {"user", "recv"}, NEW e \in Eps, NEW name,
         RecvTake(e, name)
  PROVE  CpuInv' /\ WaitInv'
<1> DEFINE caller == Head(sendQ[e])
<1>1. sendQ[e] # <<>> /\ sendQ' = PopHead(sendQ, e)
  BY DEF RecvTake
<1>2. caller \in CallersAt(e) /\ SendersStep({caller})
      /\ \A x \in Eps : caller \notin Range(recvQ[x])
  BY <1>1, SenderPopped
<1> HIDE DEF caller
<1>3. /\ taken' = [taken EXCEPT ![caller] = current]
      /\ prio' = [prio EXCEPT ![current] = Inherited(current, caller)]
      /\ UNCHANGED <<state, reason, blockedEp, blockedNotif, recvQ, ntActive,
                     waiter, rq, registered, dead, current>>
      /\ phase' = "syscall"
  BY DEF RecvTake, Return, caller
<1>4. \A x \in AllThreads : state[x] = "READY" => prio'[x] = prio[x]
  BY <1>3, CallerIsFree, TypeFacts DEF CoreInv
<1>5. CpuInv'
  BY <1>3, <1>4, CpuQuiet
<1>6. caller \in AllThreads /\ \A n \in Notifs : ntActive[n] => waiter[n] # caller
  BY <1>2, IdleNull DEF CallersAt, CoreInv, WaitInv, SlotsAreBlocked, WaitersOn
<1>7. ReceiversStep({caller}) /\ SlotsStep({caller})
  BY <1>2, <1>3, <1>6, ReceiversKept, SlotsKept
<1>8. OthersWait({caller})
  BY <1>3, TypeFacts DEF CoreInv, OthersWait
<1> QED
  BY <1>2, <1>5, <1>6, <1>7, <1>8, WaitFrame

LEMMA RecvBlockCore ==
  ASSUME CoreInv, TypeInv', phase \in {"user", "recv"}, current # Idle,
         NEW e \in Eps, NEW name, RecvBlock(e, name)
  PROVE  CpuInv' /\ WaitInv'
<1>1. ReceiverQueues(e, name) /\ current \in AllThreads
  BY CallerIsFree DEF RecvBlock
<1>2. CpuInv'
  BY <1>1, CallerIsFree, CpuBlocks DEF ReceiverQueues, Return
<1>3. current \in ReceiversAt(e)'
  BY <1>1, TypeFacts DEF CoreInv, ReceiversAt, ReceiverQueues
<1>4. ReceiversStep({current})
  BY <1>1, <1>3, CallerIsFree, ReceiverAppended DEF ReceiverQueues
<1>5. SendersStep({current}) /\ SlotsStep({current})
  BY <1>1, CallerIsFree, SendersKept, SlotsKept DEF ReceiverQueues
<1>6. OthersWait({current})
  BY <1>1, TypeFacts DEF CoreInv, ReceiverQueues, OthersWait
<1> QED
  BY <1>1, <1>2, <1>4, <1>5, <1>6, WaitFrame

LEMMA EpRecvCore ==
  ASSUME CoreInv, TypeInv', NEW e \in Eps, EpRecv(e)
  PROVE  CpuInv' /\ WaitInv'
<1>1. phase \in {"user", "recv"} /\ current # Idle
  BY DEF EpRecv, InUser
<1> QED
  BY <1>1, RecvTakeCore, RecvBlockCore, ReturnOnlyCore DEF EpRecv

LEMMA EpReplyRecvTailCore ==
  ASSUME CoreInv, TypeInv', EpReplyRecvTail
  PROVE  CpuInv' /\ WaitInv'
<1>1. phase \in {"user", "recv"} /\ arg \in Eps /\ current # Idle
  BY DEF EpReplyRecvTail, CoreInv, TypeInv, ArgIsEndpoint, CpuInv, RunsOnCpu
<1> QED
  BY <1>1, RecvTakeCore, RecvBlockCore, ReturnOnlyCore DEF EpReplyRecvTail

(* The answer to a received call wakes a caller that is on no queue.        *)
LEMMA ReplyToCore ==
  ASSUME CoreInv, TypeInv', InUser, phase' \in {"syscall", "recv"},
         NEW c \in ReplySafe, CanReply(c), ReplyTo(c),
         UNCHANGED <<ep, notif, registered, current, dead, taken>>
  PROVE  CpuInv' /\ WaitInv'
<1>1. c \in AllThreads /\ taken[c] # Null /\ state[c] = "BLOCKED" /\ reason[c] = "CALL"
  BY AnswerableIsBlocked, TypeFacts DEF ReplySafe, CoreInv, CanReply
<1>2. current \in AllThreads /\ state[current] = "RUNNING" /\ current # Idle
  BY CallerIsFree DEF InUser
<1>3. /\ \A e \in Eps : c \notin Range(sendQ[e]) /\ c \notin Range(recvQ[e])
      /\ \A n \in Notifs : ntActive[n] => waiter[n] # c
  BY <1>1, IdleNull DEF CoreInv, WaitInv, QueuedAreBlocked, SlotsAreBlocked,
       CallersAt, ReceiversAt, WaitersOn
<1>4. /\ state' = [state EXCEPT ![c] = "READY"]
      /\ reason' = [reason EXCEPT ![c] = "NONE"]
      /\ blockedEp' = [blockedEp EXCEPT ![c] = Null]
      /\ prio' = [prio EXCEPT ![current] = saved[current]]
      /\ rq' = RqEnqueue(rq, c, prio'[c])
      /\ UNCHANGED blockedNotif
  BY DEF ReplyTo, RestorePrio
<1>5. \A x \in AllThreads : state[x] = "READY" => prio'[x] = prio[x]
  BY <1>2, <1>4, TypeFacts DEF CoreInv
<1>6. /\ state'[c] = "READY" /\ reason'[c] = "NONE"
      /\ \A x \in AllThreads \ {c} : state'[x] = state[x] /\ reason'[x] = reason[x]
  BY <1>1, <1>4, TypeFacts DEF CoreInv
<1>7. CpuInv'
  BY <1>1, <1>2, <1>4, <1>5, <1>6, CpuWakes
<1>8. SendersStep({c}) /\ ReceiversStep({c}) /\ SlotsStep({c})
  BY <1>3, SendersKept, ReceiversKept, SlotsKept
<1>9. OthersWait({c})
  BY <1>4, TypeFacts DEF CoreInv, OthersWait
<1> QED
  BY <1>1, <1>7, <1>8, <1>9, WaitFrame

LEMMA EpReplyCore ==
  ASSUME CoreInv, TypeInv', NEW c \in ReplySafe, EpReply(c)
  PROVE  CpuInv' /\ WaitInv'
<1>1. InUser /\ phase' = "syscall"
  BY DEF EpReply, Return
<1>2. CASE CanReply(c) /\ ReplyTo(c)
  BY <1>1, <1>2, ReplyToCore DEF EpReply
<1>3. CASE ~CanReply(c)
  BY <1>1, <1>3, CpuQuiet, WaitQuiet DEF EpReply
<1> QED
  BY <1>2, <1>3 DEF EpReply

LEMMA EpReplyRecvCore ==
  ASSUME CoreInv, TypeInv', NEW e \in Eps, NEW c \in ReplySafe \cup {Null},
         EpReplyRecv(e, c)
  PROVE  CpuInv' /\ WaitInv'
<1>1. InUser /\ phase' = "recv"
  BY DEF EpReplyRecv
<1>a. state[current] = "RUNNING" /\ current # Idle
  BY <1>1, CallerIsFree DEF InUser
<1>2. CASE c # Null /\ CanReply(c) /\ ReplyTo(c)
  BY <1>1, <1>2, ReplyToCore DEF EpReplyRecv
<1>3. CASE UNCHANGED <<rq, needsResched, prios, block, resume, timer>>
  BY <1>1, <1>a, <1>3, CpuQuiet, WaitQuiet DEF EpReplyRecv
<1> QED
  BY <1>2, <1>3 DEF EpReplyRecv

LEMMA ReceiverWaitsCore ==
  ASSUME CoreInv, TypeInv', InUser, NEW e \in Eps, NEW n \in Notifs, NEW m,
         ReceiverWaits(e, n, m)
  PROVE  CpuInv' /\ WaitInv'
<1>1. phase = "user" /\ current \in AllThreads /\ current # Idle
  BY CallerIsFree DEF InUser
<1>2. CpuInv'
  BY <1>1, CallerIsFree, CpuBlocks DEF ReceiverWaits, Return
<1>3. current \in ReceiversAt(e)' /\ current \in WaitersOn(n)'
  BY <1>1, TypeFacts DEF CoreInv, ReceiversAt, WaitersOn, ReceiverWaits
<1>4. ReceiversStep({current})
  BY <1>1, <1>3, CallerIsFree, ReceiverAppended DEF ReceiverWaits
<1>5. SendersStep({current})
  BY <1>1, CallerIsFree, SendersKept DEF ReceiverWaits
<1>6. SlotsStep({current})
  <2>1. /\ waiter'[n] = current /\ ntActive' = ntActive
        /\ \A x \in Notifs \ {n} : waiter'[x] = waiter[x]
    BY TypeFacts DEF CoreInv, ReceiverWaits
  <2> QED
    BY <1>1, <1>3, <2>1, CallerIsFree DEF SlotsStep
<1>7. OthersWait({current})
  BY <1>1, TypeFacts DEF CoreInv, ReceiverWaits, OthersWait
<1> QED
  BY <1>1, <1>2, <1>4, <1>5, <1>6, <1>7, WaitFrame

LEMMA EpRecvOrNotifCore ==
  ASSUME CoreInv, TypeInv', NEW e \in Eps, NEW n \in Notifs, NEW m,
         EpRecvOrNotif(e, n, m)
  PROVE  CpuInv' /\ WaitInv'
<1>1. InUser /\ phase = "user"
  BY DEF EpRecvOrNotif, InUser
<1>2. CASE RecvOrNotifBits(e, n, m)
  BY <1>2, CpuQuiet, WaitQuiet DEF RecvOrNotifBits, Return
<1>3. CASE RecvTake(e, "ep_recv_or_notif")
  BY <1>1, <1>3, RecvTakeCore
<1>4. CASE RecvOrNotifBlock(e, n, m)
  BY <1>1, <1>4, CallerIsFree, ReceiverWaitsCore DEF RecvOrNotifBlock
<1>5. CASE ReturnOnly("ep_recv_or_notif", "EINVAL")
  BY <1>5, ReturnOnlyCore
<1> QED
  BY <1>2, <1>3, <1>4, <1>5 DEF EpRecvOrNotif

LEMMA EpDestroyCore ==
  ASSUME CoreInv, TypeInv', NEW e \in Eps, EpDestroy(e)
  PROVE  CpuInv' /\ WaitInv'
<1>1. CASE phase' = "destroy" /\
           UNCHANGED <<sched, sendQ, recvQ, notif, prios, block, resume, ghost,
                       registered, timer, ipcSender, op, ret>>
  BY <1>1, CpuQuiet, WaitQuiet
<1>2. CASE ReturnOnly("ep_destroy", "EINVAL")
  BY <1>2, ReturnOnlyCore
<1> QED
  BY <1>1, <1>2 DEF EpDestroy

(* A thread t woken from a wait: what every wake path leaves behind.        *)
LEMMA WakeCore ==
  ASSUME CoreInv, TypeInv', NEW t \in AllThreads, state[t] = "BLOCKED",
         state' = [state EXCEPT ![t] = "READY"],
         reason' = [reason EXCEPT ![t] = "NONE"],
         blockedEp' \in {blockedEp, [blockedEp EXCEPT ![t] = Null]},
         blockedNotif' \in {blockedNotif, [blockedNotif EXCEPT ![t] = Null]},
         rq' = RqEnqueue(rq, t, prio[t]),
         phase' \in {"syscall", "destroy", "isr"},
         UNCHANGED <<prio, taken, registered, dead, current>>,
         SendersStep({t}), ReceiversStep({t}), SlotsStep({t})
  PROVE  CpuInv' /\ WaitInv'
<1>1. /\ state'[t] = "READY" /\ reason'[t] = "NONE"
      /\ \A x \in AllThreads \ {t} : state'[x] = state[x] /\ reason'[x] = reason[x]
  BY TypeFacts DEF CoreInv
<1>2. rq' = RqEnqueue(rq, t, prio'[t])
  OBVIOUS
<1>3. CpuInv'
  BY <1>1, <1>2, CpuWakes
<1>4. OthersWait({t})
  BY <1>1, TypeFacts DEF CoreInv, OthersWait
<1> QED
  BY <1>3, <1>4, WaitFrame

LEMMA EpDestroyNextCore ==
  ASSUME CoreInv, TypeInv', EpDestroyNext
  PROVE  CpuInv' /\ WaitInv'
<1>1. phase = "destroy" /\ arg \in Eps
  BY DEF EpDestroyNext, CoreInv, TypeInv, ArgIsEndpoint
<1>2. CASE /\ sendQ[arg] # <<>> /\ sendQ' = PopHead(sendQ, arg)
           /\ DestroyWake(Head(sendQ[arg])) /\ UNCHANGED recvQ
  <2> DEFINE t == Head(sendQ[arg])
  <2>1. t \in CallersAt(arg) /\ SendersStep({t})
        /\ \A x \in Eps : t \notin Range(recvQ[x])
    BY <1>1, <1>2, SenderPopped
  <2>2. DestroyWake(t)
    BY <1>2
  <2> HIDE DEF t
  <2>3. t \in AllThreads /\ state[t] = "BLOCKED"
    BY <2>1 DEF CallersAt
  <2>4. ReceiversStep({t}) /\ SlotsStep({t})
    BY <1>2, <2>1, <2>2, <2>3, ReceiversKept, WaiterDropped DEF DestroyWake
  <2> QED
    BY <1>1, <2>1, <2>2, <2>3, <2>4, WakeCore DEF DestroyWake
<1>3. CASE /\ recvQ[arg] # <<>> /\ recvQ' = PopHead(recvQ, arg)
           /\ DestroyWake(Head(recvQ[arg])) /\ UNCHANGED sendQ
  <2> DEFINE t == Head(recvQ[arg])
  <2>1. t \in ReceiversAt(arg) /\ ReceiversStep({t})
        /\ \A x \in Eps : t \notin Range(sendQ[x])
    BY <1>1, <1>3, ReceiverPopped
  <2>2. DestroyWake(t)
    BY <1>3
  <2> HIDE DEF t
  <2>3. t \in AllThreads /\ state[t] = "BLOCKED"
    BY <2>1 DEF ReceiversAt
  <2>4. SendersStep({t}) /\ SlotsStep({t})
    BY <1>3, <2>1, <2>2, <2>3, SendersKept, WaiterDropped DEF DestroyWake
  <2> QED
    BY <1>1, <2>1, <2>2, <2>3, <2>4, WakeCore DEF DestroyWake
<1>4. CASE ReturnOnly("ep_destroy", "OK")
  BY <1>4, ReturnOnlyCore
<1> QED
  BY <1>2, <1>3, <1>4 DEF EpDestroyNext

-----------------------------------------------------------------------------
(* Notification operations preserve the invariant.                          *)

LEMMA NotifCreateCore ==
  ASSUME CoreInv, TypeInv', NEW n \in Notifs, NotifCreate(n)
  PROVE  CpuInv' /\ WaitInv'
<1>1. CpuInv'
  BY CpuQuiet DEF NotifCreate, Return
<1>2. SlotsStep({})
  BY TypeFacts DEF CoreInv, NotifCreate, SlotsStep
<1>3. SendersStep({}) /\ ReceiversStep({})
  BY SendersKept, ReceiversKept DEF NotifCreate
<1>4. OthersWait({})
  BY DEF NotifCreate, OthersWait
<1> QED
  BY <1>1, <1>2, <1>3, <1>4, WaitFrame

(* What is known of the thread in an active waiter slot.                    *)
LEMMA SlotFacts ==
  ASSUME CoreInv, NEW n \in Notifs, ntActive[n], waiter[n] # Null
  PROVE  /\ waiter[n] \in AllThreads /\ state[waiter[n]] = "BLOCKED"
         /\ reason[waiter[n]] \in {"NOTIF", "OR_NOTIF"}
         /\ \A e \in Eps : waiter[n] \notin Range(sendQ[e])
         /\ reason[waiter[n]] # "OR_NOTIF" \/ blockedEp[waiter[n]] = Null =>
              \A e \in Eps : waiter[n] \notin Range(recvQ[e])
         /\ \A x \in Notifs \ {n} : ntActive[x] => waiter[x] # waiter[n]
<1>1. waiter[n] \in WaitersOn(n)
  BY DEF CoreInv, WaitInv, SlotsAreBlocked
<1>2. Null \notin Eps
  BY NullAssumption
<1>3. \A e \in Eps : waiter[n] \notin Range(sendQ[e])
  BY <1>1 DEF CoreInv, WaitInv, QueuedAreBlocked, CallersAt, WaitersOn
<1>4. reason[waiter[n]] # "OR_NOTIF" \/ blockedEp[waiter[n]] = Null =>
              \A e \in Eps : waiter[n] \notin Range(recvQ[e])
  BY <1>1, <1>2 DEF CoreInv, WaitInv, QueuedAreBlocked, ReceiversAt, WaitersOn
<1>5. \A x \in Notifs \ {n} : ntActive[x] => waiter[x] # waiter[n]
  BY <1>1 DEF CoreInv, WaitInv, SlotsAreBlocked, WaitersOn
<1> QED
  BY <1>1, <1>3, <1>4, <1>5 DEF WaitersOn

(* The waiter of n leaves its slot, and n may become inactive.              *)
LEMMA SlotCleared ==
  ASSUME CoreInv, NEW n \in Notifs, ntActive[n], waiter[n] # Null,
         waiter' = [waiter EXCEPT ![n] = Null],
         ntActive' \in {ntActive, [ntActive EXCEPT ![n] = FALSE]}
  PROVE  SlotsStep({waiter[n]})
<1>1. /\ waiter'[n] = Null
      /\ \A x \in Notifs \ {n} : waiter'[x] = waiter[x] /\ ntActive'[x] = ntActive[x]
  BY TypeFacts DEF CoreInv
<1> QED
  BY <1>1, SlotFacts DEF SlotsStep

LEMMA SignalCore ==
  ASSUME CoreInv, TypeInv', NEW n \in Notifs, NEW b, ntActive[n], Signal(n, b),
         phase' \in {"syscall", "isr"}
  PROVE  CpuInv' /\ WaitInv'
<1>1. CASE SignalPost(n, b)
  BY <1>1, CpuQuiet, WaitQuiet DEF Signal, SignalPost
<1>2. CASE SignalWake(n, b)
  <2> DEFINE w == waiter[n]
  <2>1. waiter[n] # Null
    BY <1>2 DEF SignalWake, SignalWakes
  <2>2. /\ w \in AllThreads /\ state[w] = "BLOCKED"
        /\ \A e \in Eps : w \notin Range(sendQ[e])
        /\ reason[w] # "OR_NOTIF" \/ blockedEp[w] = Null =>
              \A e \in Eps : w \notin Range(recvQ[e])
    BY <2>1, SlotFacts
  <2>3. /\ state' = [state EXCEPT ![w] = "READY"]
        /\ reason' = [reason EXCEPT ![w] = "NONE"]
        /\ rq' = RqEnqueue(rq, w, prio[w])
        /\ waiter' = [waiter EXCEPT ![n] = Null]
        /\ UNCHANGED <<prio, taken, registered, dead, current, ntActive>>
        /\ LeaveBoth(w) \/ LeaveNotif(w)
    BY <1>2 DEF Signal, SignalWake
  <2>4. SlotsStep({w})
    BY <2>1, <2>3, SlotCleared
  <2> HIDE DEF w
  <2>5. SendersStep({w})
    BY <2>2, <2>3, SendersKept, Unlinked DEF LeaveBoth, LeaveNotif
  <2>6. ReceiversStep({w})
    BY <2>2, <2>3, ReceiversKept, Unlinked DEF LeaveBoth, LeaveNotif
  <2>7. /\ blockedEp' \in {blockedEp, [blockedEp EXCEPT ![w] = Null]}
        /\ blockedNotif' \in {blockedNotif, [blockedNotif EXCEPT ![w] = Null]}
    BY <2>3 DEF LeaveBoth, LeaveNotif
  <2> QED
    BY <2>2, <2>3, <2>4, <2>5, <2>6, <2>7, WakeCore
<1> QED
  BY <1>1, <1>2 DEF Signal

LEMMA NotifSignalCore ==
  ASSUME CoreInv, TypeInv', NEW n \in Notifs, NEW b, NotifSignal(n, b)
  PROVE  CpuInv' /\ WaitInv'
  BY SignalCore, ReturnOnlyCore DEF NotifSignal, Return

LEMMA IrqDispatchCore ==
  ASSUME CoreInv, TypeInv', NEW n \in Notifs, NEW b, IrqDispatch(n, b)
  PROVE  CpuInv' /\ WaitInv'
  BY SignalCore DEF IrqDispatch

LEMMA NotifWaitTakeCore ==
  ASSUME CoreInv, TypeInv', NEW n \in Notifs, NEW m,
         NotifWaitTake(n, m) \/ NotifPoll(n, m)
  PROVE  CpuInv' /\ WaitInv'
<1>1. CpuInv'
  BY CpuQuiet DEF NotifWaitTake, NotifPoll, Return
<1>2. WaitInv'
  BY WaitQuiet DEF NotifWaitTake, NotifPoll
<1> QED
  BY <1>1, <1>2

LEMMA NotifWaitBlockCore ==
  ASSUME CoreInv, TypeInv', NEW n \in Notifs, NEW m, NEW cb, NotifWaitBlock(n, m, cb)
  PROVE  CpuInv' /\ WaitInv'
<1>1. phase = "user" /\ current \in AllThreads
  BY CallerIsFree DEF NotifWaitBlock, InUser
<1>2. CpuInv'
  BY <1>1, CallerIsFree, CpuBlocks DEF NotifWaitBlock, InUser, Return
<1>3. current \in WaitersOn(n)'
  BY <1>1, TypeFacts DEF CoreInv, WaitersOn, NotifWaitBlock
<1>4. SendersStep({current}) /\ ReceiversStep({current})
  BY <1>1, CallerIsFree, SendersKept, ReceiversKept DEF NotifWaitBlock
<1>5. SlotsStep({current})
  <2>1. /\ waiter'[n] = current /\ ntActive' = ntActive
        /\ \A x \in Notifs \ {n} : waiter'[x] = waiter[x]
    BY TypeFacts DEF CoreInv, NotifWaitBlock
  <2> QED
    BY <1>1, <1>3, <2>1, CallerIsFree DEF SlotsStep
<1>6. OthersWait({current})
  BY <1>1, TypeFacts DEF CoreInv, NotifWaitBlock, OthersWait
<1> QED
  BY <1>1, <1>2, <1>4, <1>5, <1>6, WaitFrame

LEMMA NotifDestroyCore ==
  ASSUME CoreInv, TypeInv', NEW n \in Notifs, NotifDestroy(n)
  PROVE  CpuInv' /\ WaitInv'
<1>1. CASE ReturnOnly("notif_destroy", "EINVAL")
  BY <1>1, ReturnOnlyCore
<1>2. CASE ntActive[n] /\ waiter[n] = Null
  <2>1. /\ ntActive' = [ntActive EXCEPT ![n] = FALSE]
        /\ waiter' = [waiter EXCEPT ![n] = Null]
        /\ phase' = "syscall"
        /\ UNCHANGED <<block, timer, sendQ, recvQ, rq, prio, taken, current,
                       dead, registered>>
    BY <1>2 DEF NotifDestroy, ReturnOnly, Return
  <2>2. CpuInv'
    BY <2>1, CpuQuiet
  <2>3. SlotsStep({})
    BY <2>1, TypeFacts DEF CoreInv, SlotsStep
  <2>4. SendersStep({}) /\ ReceiversStep({}) /\ OthersWait({})
    BY <2>1, SendersKept, ReceiversKept DEF OthersWait
  <2> QED
    BY <2>2, <2>3, <2>4, WaitFrame
<1>3. CASE ntActive[n] /\ waiter[n] # Null
  <2> DEFINE w == waiter[n]
  <2>1. /\ ntActive' = [ntActive EXCEPT ![n] = FALSE]
        /\ waiter' = [waiter EXCEPT ![n] = Null]
        /\ DestroyWakesWaiter(w) /\ phase' = "syscall"
        /\ UNCHANGED <<prio, taken, current, dead, registered>>
    BY <1>3 DEF NotifDestroy, ReturnOnly, Return
  <2>2. /\ w \in AllThreads /\ state[w] = "BLOCKED"
        /\ \A e \in Eps : w \notin Range(sendQ[e])
        /\ reason[w] # "OR_NOTIF" \/ blockedEp[w] = Null =>
              \A e \in Eps : w \notin Range(recvQ[e])
    BY <1>3, SlotFacts
  <2>3. SlotsStep({w})
    BY <1>3, <2>1, SlotCleared
  <2> HIDE DEF w
  <2>4. SendersStep({w})
    BY <2>1, <2>2, SendersKept, Unlinked DEF DestroyWakesWaiter
  <2>5. ReceiversStep({w})
    BY <2>1, <2>2, ReceiversKept, Unlinked DEF DestroyWakesWaiter
  <2> QED
    BY <2>1, <2>2, <2>3, <2>4, <2>5, WakeCore DEF DestroyWakesWaiter
<1> QED
  BY <1>1, <1>2, <1>3 DEF NotifDestroy

-----------------------------------------------------------------------------
(* Timed waits preserve the invariant.                                      *)

LEMMA SleepCore ==
  ASSUME CoreInv, TypeInv', NEW valid, Sleep(valid)
  PROVE  CpuInv' /\ WaitInv'
<1>1. phase = "user" /\ current \in AllThreads /\ current # Idle
  BY CallerIsFree DEF Sleep, InUser
<1>2. CASE SleepBlock
  <2>1. CpuInv'
    BY <1>1, <1>2, CallerIsFree, CpuBlocks DEF SleepBlock, Return
  <2>2. OthersWait({current})
    BY <1>2, TypeFacts DEF CoreInv, SleepBlock, OthersWait
  <2>3. state[current] # "BLOCKED"
    BY <1>1, CallerIsFree
  <2> QED
    BY <1>1, <1>2, <2>1, <2>2, <2>3, WaitUnblocked DEF SleepBlock
<1>3. CASE ReturnOnly("sleep", "EINVAL")
  BY <1>3, ReturnOnlyCore
<1> QED
  BY <1>2, <1>3 DEF Sleep

(* A sleeping thread is on no queue and in no slot.                         *)
LEMMA SleeperIsFree ==
  ASSUME CoreInv, NEW t \in AllThreads, reason[t] = "SLEEP"
  PROVE  /\ \A e \in Eps : t \notin Range(sendQ[e]) /\ t \notin Range(recvQ[e])
         /\ \A n \in Notifs : ntActive[n] => waiter[n] # t
  BY IdleNull DEF CoreInv, WaitInv, QueuedAreBlocked, SlotsAreBlocked,
       CallersAt, ReceiversAt, WaitersOn

LEMMA SleepCancelCore ==
  ASSUME CoreInv, TypeInv', NEW t \in Threads, SleepCancel(t)
  PROVE  CpuInv' /\ WaitInv'
<1>1. t \in AllThreads
  BY DEF AllThreads
<1>2. CASE Sleeping(t) /\ CancelSleep(t)
  <2>1. SendersStep({t}) /\ ReceiversStep({t}) /\ SlotsStep({t})
    BY <1>1, <1>2, SleeperIsFree, SendersKept, ReceiversKept, SlotsKept
       DEF Sleeping, CancelSleep
  <2> QED
    BY <1>1, <1>2, <2>1, WakeCore DEF Sleeping, CancelSleep, Return
<1>3. CASE \E r : ReturnOnly("sleep_cancel", r)
  BY <1>3, ReturnOnlyCore
<1> QED
  BY <1>2, <1>3 DEF SleepCancel

LEMMA TimerFireCore ==
  ASSUME CoreInv, TypeInv', NEW t \in Threads, TimerFire(t)
  PROVE  CpuInv' /\ WaitInv'
<1>1. t \in AllThreads
  BY DEF AllThreads
<1>2. CASE ~CallbackApplies(t)
  BY <1>2, CpuQuiet, WaitQuiet DEF TimerFire
<1>3. CASE CallbackApplies(t) /\ TimeoutWakes(t)
  <2>1. /\ state' = [state EXCEPT ![t] = "READY"]
        /\ reason' = [reason EXCEPT ![t] = "NONE"]
        /\ blockedEp' \in {blockedEp, [blockedEp EXCEPT ![t] = Null]}
        /\ blockedNotif' \in {blockedNotif, [blockedNotif EXCEPT ![t] = Null]}
        /\ rq' = RqEnqueue(rq, t, prio[t])
        /\ phase' = "isr"
        /\ UNCHANGED <<prio, taken, registered, dead, current, ntActive>>
    BY <1>3 DEF TimerFire, TimeoutWakes
  <2>2. state[t] = "BLOCKED"
    BY <1>3 DEF CallbackApplies
  <2>3. timer[t] \in {"call", "wait", "sleep"}
    BY <1>1, TypeFacts DEF CoreInv, TimerFire, Timers
  <2>4. CASE timer[t] = "call"
    <3>1. reason[t] = "CALL"
      BY <1>3, <2>4 DEF CallbackApplies
    <3>2. \A n \in Notifs : ntActive[n] => waiter[n] # t
      BY <1>1, <3>1, IdleNull DEF CoreInv, WaitInv, SlotsAreBlocked, WaitersOn
    <3>3. SlotsStep({t})
      BY <1>3, <2>1, <2>4, <3>2, SlotsKept DEF TimeoutWakes
    <3>4. blockedEp[t] = Null =>
            \A e \in Eps : t \notin Range(sendQ[e]) /\ t \notin Range(recvQ[e])
      BY NullAssumption DEF CoreInv, WaitInv, QueuedAreBlocked, CallersAt,
           ReceiversAt
    <3>5. SendersStep({t}) /\ ReceiversStep({t})
      BY <1>1, <1>3, <2>4, <3>4, SendersKept, ReceiversKept, Unlinked
         DEF TimeoutWakes
    <3> QED
      BY <1>1, <2>1, <2>2, <3>3, <3>5, WakeCore
  <2>5. CASE timer[t] = "wait"
    <3>1. reason[t] = "NOTIF"
      BY <1>3, <2>5 DEF CallbackApplies
    <3>2. \A e \in Eps : t \notin Range(sendQ[e]) /\ t \notin Range(recvQ[e])
      BY <3>1 DEF CoreInv, WaitInv, QueuedAreBlocked, CallersAt, ReceiversAt
    <3>3. SendersStep({t}) /\ ReceiversStep({t})
      BY <1>3, <2>5, <3>2, SendersKept, ReceiversKept DEF TimeoutWakes
    <3>4. SlotsStep({t})
      BY <1>1, <1>3, <2>1, <2>5, WaiterDropped DEF TimeoutWakes
    <3> QED
      BY <1>1, <2>1, <2>2, <3>3, <3>4, WakeCore
  <2>6. CASE timer[t] = "sleep"
    <3>1. reason[t] = "SLEEP"
      BY <1>3, <2>6 DEF CallbackApplies
    <3>2. SendersStep({t}) /\ ReceiversStep({t}) /\ SlotsStep({t})
      BY <1>1, <1>3, <2>1, <2>6, <3>1, SleeperIsFree, SendersKept,
         ReceiversKept, SlotsKept DEF TimeoutWakes
    <3> QED
      BY <1>1, <2>1, <2>2, <3>2, WakeCore
  <2> QED
    BY <2>3, <2>4, <2>5, <2>6
<1> QED
  BY <1>2, <1>3 DEF TimerFire

-----------------------------------------------------------------------------
(* Thread operations preserve the invariant.                                *)

LEMMA SpawnCore ==
  ASSUME CoreInv, TypeInv', NEW t \in Threads, NEW p \in Prio, Spawn(t, p)
  PROVE  CpuInv' /\ WaitInv'
<1>1. t \in AllThreads /\ ~registered[t] /\ state[t] = "DEAD"
  BY DEF Spawn, AllThreads, CoreInv, CpuInv, FreedIsDead
<1>2. ThreadInit(t, p)
  BY <1>1, UnblockedIsFree DEF Spawn
<1>3. /\ state' = [state EXCEPT ![t] = "READY"]
      /\ reason' = [reason EXCEPT ![t] = "NONE"]
      /\ prio' = [prio EXCEPT ![t] = p]
      /\ registered' = [registered EXCEPT ![t] = TRUE]
      /\ rq' = RqEnqueue(rq, t, p)
      /\ phase' = "syscall"
      /\ UNCHANGED <<dead, current, sendQ, recvQ, ntActive, waiter>>
  BY <1>2 DEF ThreadInit
<1>4. /\ state \in [AllThreads -> States] /\ reason \in [AllThreads -> Reasons]
      /\ rq \in RqType /\ prio \in [AllThreads -> Prio]
      /\ prio' \in [AllThreads -> Prio] /\ prio'[t] = p
  BY <1>1, <1>3, TypeFacts, PrioType DEF CoreInv
<1>5. RqMatches(rq', prio', state')
  <2>1. RqMatches(rq, prio', state)
    <3>1. \A x \in AllThreads : state[x] = "READY" => prio'[x] = prio[x]
      BY <1>1, <1>3, <1>4
    <3> QED
      BY <1>4, <3>1, RqMatchesOthers DEF CoreInv, CpuInv
  <2>2. /\ state'[t] = "READY"
        /\ \A x \in AllThreads \ {t} : state'[x] = "READY" <=> state[x] = "READY"
    BY <1>1, <1>3, <1>4
  <2> QED
    BY <1>1, <1>3, <1>4, <2>1, <2>2, RqEnqueueMatches
<1>6. RunnableWaitsForNothing'
  BY <1>1, <1>3, <1>4, IdleNull DEF CoreInv, CpuInv, RunnableWaitsForNothing
<1>7. RunsOnCpu' /\ ListsIntact'
  BY <1>3 DEF RunsOnCpu, ListsIntact
<1>8. FreedIsDead'
  BY <1>1, <1>3, <1>4, TypeFacts DEF CoreInv, CpuInv, FreedIsDead
<1>9. CorpseAccounted'
  BY <1>1, <1>3, <1>4, TypeFacts, IdleNull DEF CoreInv, CpuInv, CorpseAccounted
<1>10. OthersWait({t})
  BY <1>2, TypeFacts DEF CoreInv, ThreadInit, OthersWait
<1>11. WaitInv'
  BY <1>1, <1>3, <1>10, WaitUnblocked
<1> QED
  BY <1>5, <1>6, <1>7, <1>8, <1>9, <1>11 DEF CpuInv

LEMMA YieldCore ==
  ASSUME CoreInv, TypeInv', Yield
  PROVE  CpuInv' /\ WaitInv'
<1>1. /\ phase = "user" /\ current \in AllThreads /\ state[current] = "RUNNING"
      /\ reason[current] = "NONE"
  BY CallerIsFree DEF Yield, InUser
<1>2. /\ state' = [state EXCEPT ![current] = "READY"]
      /\ rq' = RqEnqueue(rq, current, prio[current])
      /\ phase' = "syscall"
      /\ UNCHANGED <<reason, prio, registered, dead, current>>
  BY <1>1, CallerIsFree DEF Yield, Return
<1>3. /\ state \in [AllThreads -> States] /\ rq \in RqType
      /\ prio \in [AllThreads -> Prio]
  BY TypeFacts DEF CoreInv
<1>4. RqMatches(rq', prio', state')
  <2>1. /\ state'[current] = "READY"
        /\ \A x \in AllThreads \ {current} :
             state'[x] = "READY" <=> state[x] = "READY"
    BY <1>1, <1>2, <1>3
  <2> QED
    BY <1>1, <1>2, <1>3, <2>1, RqEnqueueMatches DEF CoreInv, CpuInv
<1>5. RunnableWaitsForNothing'
  BY <1>1, <1>2, <1>3, IdleNull DEF CoreInv, CpuInv, RunnableWaitsForNothing
<1>6. RunsOnCpu' /\ ListsIntact'
  BY <1>2 DEF RunsOnCpu, ListsIntact
<1>7. FreedIsDead' /\ CorpseAccounted'
  BY <1>1, <1>2, <1>3, TypeFacts, IdleNull
     DEF CoreInv, CpuInv, FreedIsDead, CorpseAccounted
<1>8. OthersWait({current})
  BY TypeFacts DEF CoreInv, Yield, OthersWait
<1>9. WaitInv'
  BY <1>1, <1>8, WaitUnblocked DEF Yield
<1> QED
  BY <1>4, <1>5, <1>6, <1>7, <1>9 DEF CpuInv

LEMMA SetPrioCore ==
  ASSUME CoreInv, TypeInv', NEW t \in Threads, NEW p \in Prio, SetPrio(t, p)
  PROVE  CpuInv' /\ WaitInv'
<1>1. t \in AllThreads
  BY DEF AllThreads
<1>2. CASE ReturnOnly("set_prio", "ESRCH")
  BY <1>2, ReturnOnlyCore
<1>3. CASE SetPrioLive(t, p)
  <2>1. /\ prio' = [prio EXCEPT ![t] = p]
        /\ phase' = "syscall"
        /\ UNCHANGED <<state, reason, registered, dead, current>>
    BY <1>3 DEF SetPrioLive, Return
  <2>2. WaitInv'
    BY <1>3, WaitQuiet DEF SetPrioLive
  <2>3. /\ state \in [AllThreads -> States] /\ rq \in RqType
        /\ prio \in [AllThreads -> Prio] /\ prio' \in [AllThreads -> Prio]
        /\ prio'[t] = p /\ prio[t] \in Prio
    BY <1>1, <2>1, TypeFacts, PrioType DEF CoreInv
  <2>4. CASE state[t] # "READY"
    <3>1. rq' = rq
      BY <1>3, <2>4 DEF SetPrioLive
    <3>2. \A x \in AllThreads : state[x] = "READY" => prio'[x] = prio[x]
      BY <2>1, <2>3, <2>4
    <3>3. CpuInv'
      BY <2>1, <3>1, <3>2, CpuQuiet
    <3> QED
      BY <2>2, <3>3
  <2>5. CASE state[t] = "READY"
    <3> DEFINE q  == RqDequeue(rq, t, prio[t])
               st == [state EXCEPT ![t] = "BLOCKED"]
    <3>1. rq' = RqEnqueue(q, t, prio'[t])
      BY <1>3, <2>3, <2>5 DEF SetPrioLive
    <3>2. q \in RqType
      BY <1>1, <2>3, RqDequeueType
    <3>3. /\ st[t] # "READY"
          /\ \A x \in AllThreads \ {t} : st[x] = "READY" <=> state[x] = "READY"
          /\ \A x \in AllThreads : st[x] = "READY" => prio'[x] = prio[x]
      BY <1>1, <2>1, <2>3
    <3> HIDE DEF st
    <3>4. RqMatches(q, prio, st)
      BY <1>1, <2>3, <3>3, RqDequeueMatches DEF CoreInv, CpuInv
    <3> HIDE DEF q
    <3>5. RqMatches(q, prio', st)
      BY <2>3, <3>2, <3>3, <3>4, RqMatchesOthers
    <3>6. RqMatches(rq', prio', state')
      BY <1>1, <2>1, <2>3, <2>5, <3>1, <3>2, <3>3, <3>5, RqEnqueueMatches
    <3>7. RunnableWaitsForNothing' /\ RunsOnCpu' /\ ListsIntact'
      BY <2>1 DEF CoreInv, CpuInv, RunnableWaitsForNothing, RunsOnCpu, ListsIntact
    <3>8. FreedIsDead' /\ CorpseAccounted'
      BY <2>1 DEF CoreInv, CpuInv, FreedIsDead, CorpseAccounted
    <3> QED
      BY <2>2, <3>6, <3>7, <3>8 DEF CpuInv
  <2> QED
    BY <2>4, <2>5
<1> QED
  BY <1>2, <1>3 DEF SetPrio

(* The caller becomes the corpse, the previous corpse is freed.             *)
LEMMA ExitCore ==
  ASSUME CoreInv, TypeInv', Exit
  PROVE  CpuInv' /\ WaitInv'
<1>1. /\ phase = "user" /\ current \in AllThreads /\ current # Idle
      /\ state[current] = "RUNNING" /\ registered[current] /\ dead # current
  BY CallerIsFree DEF Exit, InUser
<1>2. /\ state' = [state EXCEPT ![current] = "DEAD"]
      /\ rq' = rq /\ dead' = current /\ phase' = "syscall"
      /\ registered' = [x \in AllThreads |-> x # dead /\ registered[x]]
      /\ UNCHANGED <<reason, prio, current>>
  BY <1>1, CallerIsFree DEF Exit, Return, FreedRegs
<1>3. /\ state \in [AllThreads -> States] /\ rq \in RqType
      /\ prio \in [AllThreads -> Prio]
      /\ \A x \in AllThreads : state'[x] = IF x = current THEN "DEAD" ELSE state[x]
  BY <1>2, TypeFacts DEF CoreInv
<1>4. RqMatches(rq', prio', state')
  BY <1>1, <1>2, <1>3, RqMatchesOthers DEF CoreInv, CpuInv
<1>5. RunnableWaitsForNothing'
  BY <1>1, <1>2, <1>3, IdleNull DEF CoreInv, CpuInv, RunnableWaitsForNothing
<1>6. RunsOnCpu' /\ ListsIntact'
  BY <1>2 DEF RunsOnCpu, ListsIntact
<1>7. FreedIsDead'
  <2> SUFFICES ASSUME NEW x \in AllThreads, ~registered'[x]
               PROVE  state'[x] = "DEAD"
    BY DEF FreedIsDead
  <2>1. x = dead \/ ~registered[x]
    BY <1>2
  <2>2. state[x] = "DEAD"
    BY <2>1, IdleNull DEF CoreInv, CpuInv, FreedIsDead, CorpseAccounted
  <2> QED
    BY <1>3, <2>2
<1>8. CorpseAccounted'
  <2>1. ASSUME NEW x \in Threads, registered'[x], state'[x] = "DEAD"
        PROVE  x = current
    <3>1. x \in AllThreads /\ x # dead /\ registered[x]
      BY <1>2, <2>1 DEF AllThreads
    <3>2. x # current => state[x] = "DEAD"
      BY <1>3, <2>1, <3>1
    <3> QED
      BY <3>1, <3>2 DEF CoreInv, CpuInv, CorpseAccounted
  <2>2. registered'[current] /\ state'[current] = "DEAD"
    BY <1>1, <1>2, <1>3
  <2> QED
    BY <1>2, <2>1, <2>2 DEF CorpseAccounted
<1>9. OthersWait({current})
  BY <1>3 DEF Exit, OthersWait
<1>10. WaitInv'
  BY <1>1, <1>9, WaitUnblocked DEF Exit
<1> QED
  BY <1>4, <1>5, <1>6, <1>7, <1>8, <1>10 DEF CpuInv

(* The queues after a kill of t with the peers P, which is {} or {c}.       *)
KillUnlink(q, t, P, c) ==
  LET q1 == IF reason[t] \in {"CALL", "RECV", "OR_NOTIF"} /\ blockedEp[t] # Null
            THEN UnlinkIpc(q, t) ELSE q
  IN  [e \in Eps |-> IF P = {} THEN q1[e] ELSE Unlink(q1[e], c)]

(* A thread that a kill does not unlink is on none of the queues.           *)
KillLeaves(q, t) ==
  reason[t] \notin {"CALL", "RECV", "OR_NOTIF"} \/ blockedEp[t] = Null =>
    \A e \in Eps : t \notin Range(q[e])

KillPeers(P, c) == P # {} => P = {c} /\ c \in AllThreads

LEMMA KillUnlinks ==
  ASSUME CoreInv, NEW q \in Queues, NEW t \in AllThreads, NEW P, NEW c,
         KillPeers(P, c), KillLeaves(q, t)
  PROVE  \A e \in Eps :
           /\ IsInjective(KillUnlink(q, t, P, c)[e])
           /\ Range(KillUnlink(q, t, P, c)[e]) = Range(q[e]) \ ({t} \cup P)
<1> DEFINE q1 == IF reason[t] \in {"CALL", "RECV", "OR_NOTIF"} /\ blockedEp[t] # Null
                 THEN UnlinkIpc(q, t) ELSE q
<1>1. q1 \in [Eps -> Seq(AllThreads)]
  <2>1. q \in [Eps -> Seq(AllThreads)]
    BY DEF Queues
  <2>2. UnlinkIpc(q, t) \in [Eps -> Seq(AllThreads)]
    <3>1. \A e \in Eps : Unlink(q[e], t) \in Seq(AllThreads)
      BY <2>1, UnlinkType
    <3> QED
      BY <3>1 DEF UnlinkIpc
  <2> QED
    BY <2>1, <2>2
<1>2. \A e \in Eps : IsInjective(q1[e]) /\ Range(q1[e]) = Range(q[e]) \ {t}
  <2>1. \A e \in Eps : /\ IsInjective(UnlinkIpc(q, t)[e])
                       /\ Range(UnlinkIpc(q, t)[e]) = Range(q[e]) \ {t}
    BY UnlinkOps
  <2>2. \A e \in Eps : IsInjective(q[e])
    BY DEF Queues
  <2>3. CASE reason[t] \in {"CALL", "RECV", "OR_NOTIF"} /\ blockedEp[t] # Null
    <3>1. q1 = UnlinkIpc(q, t)
      BY <2>3
    <3> HIDE DEF q1
    <3> QED
      BY <2>1, <3>1
  <2>4. CASE ~(reason[t] \in {"CALL", "RECV", "OR_NOTIF"} /\ blockedEp[t] # Null)
    <3>1. q1 = q
      BY <2>4
    <3>2. \A e \in Eps : t \notin Range(q[e])
      BY <2>4 DEF KillLeaves
    <3> HIDE DEF q1
    <3> QED
      BY <2>2, <3>1, <3>2
  <2> QED
    BY <2>3, <2>4
<1>3. KillUnlink(q, t, P, c) =
        [e \in Eps |-> IF P = {} THEN q1[e] ELSE Unlink(q1[e], c)]
  BY DEF KillUnlink
<1> HIDE DEF q1
<1> SUFFICES ASSUME NEW e \in Eps
             PROVE  /\ IsInjective(KillUnlink(q, t, P, c)[e])
                    /\ Range(KillUnlink(q, t, P, c)[e]) =
                         Range(q[e]) \ ({t} \cup P)
  OBVIOUS
<1>4. CASE P = {}
  BY <1>2, <1>3, <1>4
<1>5. CASE P # {}
  <2> P = {c} /\ c \in AllThreads
    BY <1>5 DEF KillPeers
  <2>1. KillUnlink(q, t, P, c)[e] = Unlink(q1[e], c)
    BY <1>3, <1>5
  <2>2. /\ IsInjective(Unlink(q1[e], c))
        /\ Range(Unlink(q1[e], c)) = Range(q1[e]) \ {c}
    BY <1>1, <1>2, UnlinkRange
  <2> QED
    BY <1>2, <1>5, <2>1, <2>2
<1> QED
  BY <1>4, <1>5

LEMMA KillPeerFacts ==
  ASSUME CoreInv, NEW t \in AllThreads
  PROVE  \/ KillPeer(t) = {}
         \/ /\ KillPeer(t) = {ipcSender[t]} /\ ipcSender[t] \in AllThreads
            /\ state[ipcSender[t]] = "BLOCKED" /\ reason[ipcSender[t]] = "CALL"
<1>1. ipcSender[t] # Null => ipcSender[t] \in AllThreads
  BY TypeFacts DEF CoreInv
<1> QED
  BY <1>1 DEF KillPeer

LEMMA KillLocalCore ==
  ASSUME CoreInv, TypeInv', NEW t \in Threads, Alive(t), InUser, KillLocal(t)
  PROVE  CpuInv' /\ WaitInv'
<1> DEFINE c == ipcSender[t]
           P == KillPeer(t)
           freed == IF t = current THEN dead ELSE t
           state1 == Put(state, P, "READY")
           rq1 == IF P = {} THEN rq ELSE RqEnqueue(rq, c, prio[c])
<1>1. t \in AllThreads /\ t # Idle /\ state[t] # "DEAD" /\ registered[t]
  BY IdleNull DEF Alive, AllThreads
<1>2. P # {} =>
        P = {c} /\ c \in AllThreads /\ state[c] = "BLOCKED" /\ reason[c] = "CALL"
  BY <1>1, KillPeerFacts
<1>3. /\ sendQ' = KillUnlink(sendQ, t, P, c)
      /\ recvQ' = KillUnlink(recvQ, t, P, c)
  BY DEF KillLocal, KillUnlink
<1>4. /\ state' = [state1 EXCEPT ![t] = "DEAD"]
      /\ reason' = Put(reason, P, "NONE")
      /\ rq' = RqDequeue(rq1, t, prio[t])
      /\ dead' = IF t = current THEN t ELSE dead
      /\ registered' = [x \in AllThreads |-> x # freed /\ registered[x]]
      /\ phase' = "syscall"
      /\ waiter' = DropWaiter(t)
      /\ UNCHANGED <<prio, current, ntActive, taken>>
  BY DEF KillLocal, Return, FreedRegs
<1>5. /\ blockedNotif' = [blockedNotif EXCEPT ![t] = Null]
      /\ blockedEp' = Put(blockedEp, P \cup
                          (IF reason[t] \in {"CALL", "RECV", "OR_NOTIF"}
                           THEN {t} ELSE {}), Null)
  BY DEF KillLocal
<1> HIDE DEF P, c, rq1
<1>6. /\ state \in [AllThreads -> States] /\ reason \in [AllThreads -> Reasons]
      /\ rq \in RqType /\ prio \in [AllThreads -> Prio]
      /\ blockedEp \in [AllThreads -> Eps \cup {Null}]
      /\ blockedNotif \in [AllThreads -> Notifs \cup {Null}]
      /\ current \in AllThreads /\ state[current] = "RUNNING"
  BY TypeFacts, CallerIsFree DEF CoreInv, InUser
<1>7. \A x \in AllThreads : state1[x] = IF x \in P THEN "READY" ELSE state[x]
  BY <1>6 DEF Put
<1>8. \A x \in AllThreads :
        /\ state'[x] = IF x = t THEN "DEAD"
                       ELSE IF x \in P THEN "READY" ELSE state[x]
        /\ reason'[x] = IF x \in P THEN "NONE" ELSE reason[x]
  BY <1>4, <1>6 DEF Put
<1>9. rq1 \in RqType /\ RqMatches(rq1, prio, state1)
  <2>1. CASE P = {}
    <3>1. state1 = state
      BY <1>6, <2>1 DEF Put
    <3> QED
      BY <1>6, <2>1, <3>1 DEF rq1, CoreInv, CpuInv
  <2>2. CASE P = {c} /\ c \in AllThreads /\ state[c] = "BLOCKED"
    <3>1. /\ state1[c] = "READY"
          /\ \A x \in AllThreads \ {c} : state1[x] = "READY" <=> state[x] = "READY"
      BY <1>7, <2>2
    <3> HIDE DEF state1
    <3>2. rq1 = RqEnqueue(rq, c, prio[c])
      BY <2>2 DEF rq1
    <3> QED
      BY <1>6, <2>2, <3>1, <3>2, RqEnqueueType, RqEnqueueMatches DEF CoreInv, CpuInv
  <2> QED
    BY <1>2, <2>1, <2>2
<1>10. RqMatches(rq', prio', state')
  <2>1. /\ state'[t] # "READY"
        /\ \A x \in AllThreads \ {t} : state'[x] = "READY" <=> state1[x] = "READY"
    BY <1>1, <1>7, <1>8
  <2> HIDE DEF state1
  <2> QED
    BY <1>1, <1>4, <1>6, <1>9, <2>1, RqDequeueMatches
<1> HIDE DEF state1
<1>11. RunnableWaitsForNothing'
  BY <1>1, <1>2, <1>8, IdleNull DEF CoreInv, CpuInv, RunnableWaitsForNothing
<1>12. RunsOnCpu' /\ ListsIntact'
  BY <1>4 DEF RunsOnCpu, ListsIntact
<1>13. \A x \in AllThreads : state[x] = "DEAD" => state'[x] = "DEAD" /\ x \notin P
  BY <1>2, <1>8
<1>14. dead # Null => /\ dead \in AllThreads /\ dead # t
                      /\ registered[dead] /\ state[dead] = "DEAD"
  BY <1>1, TypeFacts DEF CoreInv, CpuInv, CorpseAccounted
<1>15. FreedIsDead'
  <2> SUFFICES ASSUME NEW x \in AllThreads, ~registered'[x]
               PROVE  state'[x] = "DEAD"
    BY DEF FreedIsDead
  <2>1. x = freed \/ ~registered[x]
    BY <1>4
  <2>2. x = t \/ state[x] = "DEAD"
    BY <1>14, <2>1, IdleNull DEF CoreInv, CpuInv, FreedIsDead
  <2> QED
    BY <1>1, <1>8, <1>13, <2>2
<1>16. CorpseAccounted'
  <2>1. ASSUME NEW x \in Threads, registered'[x], state'[x] = "DEAD"
        PROVE  x = dead'
    <3>1. x \in AllThreads /\ x # freed /\ registered[x]
      BY <1>4, <2>1 DEF AllThreads
    <3>2. x # t => state[x] = "DEAD"
      BY <1>8, <2>1, <3>1
    <3>3. x # t => x = dead
      BY <3>1, <3>2 DEF CoreInv, CpuInv, CorpseAccounted
    <3> QED
      BY <1>4, <3>1, <3>3
  <2>2. ASSUME dead' # Null
        PROVE  registered'[dead'] /\ state'[dead'] = "DEAD"
    BY <1>1, <1>4, <1>8, <1>13, <1>14, <2>2
  <2> QED
    BY <2>1, <2>2 DEF CorpseAccounted
<1>17. CpuInv'
  BY <1>10, <1>11, <1>12, <1>15, <1>16 DEF CpuInv
<1>18. OthersWait({t} \cup P)
  BY <1>4, <1>5, <1>6, <1>8 DEF OthersWait, Put
<1>19. KillLeaves(sendQ, t) /\ KillLeaves(recvQ, t) /\ KillPeers(P, c)
  BY <1>2, NullAssumption
     DEF CoreInv, WaitInv, QueuedAreBlocked, CallersAt, ReceiversAt, KillLeaves, KillPeers
<1>20. sendQ \in Queues /\ recvQ \in Queues
  BY AreQueues
<1>21. SendersStep({t} \cup P) /\ ReceiversStep({t} \cup P)
  <2>1. \A e \in Eps : /\ IsInjective(sendQ'[e])
                       /\ Range(sendQ'[e]) = Range(sendQ[e]) \ ({t} \cup P)
    BY <1>1, <1>3, <1>19, <1>20, KillUnlinks
  <2>2. \A e \in Eps : /\ IsInjective(recvQ'[e])
                       /\ Range(recvQ'[e]) = Range(recvQ[e]) \ ({t} \cup P)
    BY <1>1, <1>3, <1>19, <1>20, KillUnlinks
  <2> QED
    BY <2>1, <2>2 DEF SendersStep, ReceiversStep
<1>22. SlotsStep({t} \cup P)
  <2>1. SlotsStep({t})
    BY <1>1, <1>4, WaiterDropped
  <2>2. \A x \in P, n \in Notifs : ntActive[n] => waiter[n] # x
    BY <1>2, IdleNull DEF CoreInv, WaitInv, SlotsAreBlocked, WaitersOn
  <2> QED
    BY <2>1, <2>2 DEF SlotsStep
<1>23. {t} \cup P \in SUBSET AllThreads
  BY <1>1, <1>2
<1> QED
  BY <1>17, <1>18, <1>21, <1>22, <1>23, WaitFrame

LEMMA KillCore ==
  ASSUME CoreInv, TypeInv', NEW t \in Threads, Kill(t)
  PROVE  CpuInv' /\ WaitInv'
  BY KillLocalCore, ReturnOnlyCore DEF Kill

-----------------------------------------------------------------------------
(* Trap exit preserves the invariant.                                       *)

(* The switch takes a READY thread of the best priority off the queue, or   *)
(* idle if nothing is READY; the dequeue of a switch to oneself does        *)
(* nothing.                                                                 *)
LEMMA SwitchCore ==
  ASSUME CoreInv, NEW q \in RqType, NEW st \in [AllThreads -> States],
         RqMatches(q, prio, st), st[Idle] \in {"READY", "RUNNING"},
         SwitchFrom(q, st), UNCHANGED prio
  PROVE  /\ current' \in AllThreads
         /\ st[current'] \in {"READY", "RUNNING"}
         /\ state' = [st EXCEPT ![current'] = "RUNNING"]
         /\ RqMatches(rq', prio', state')
         /\ \A t \in AllThreads : state'[t] = "READY" => prio'[current'] <= prio'[t]
         /\ phase' \in {"user", "resolve"}
<1> DEFINE pick == RqNext(q, Null)
           next == IF pick = Null THEN Idle ELSE pick
<1>1. /\ current' = next
      /\ state' = [st EXCEPT ![next] = "RUNNING"]
      /\ rq' = IF next = current THEN RqDequeue(RqPop(q), next, prio[next])
                                 ELSE RqPop(q)
      /\ phase' = AfterTrap(next)
  BY Zenon DEF SwitchFrom
<1>2. prio \in [AllThreads -> Prio] /\ Null \notin AllThreads /\ Idle \in AllThreads
  BY TypeFacts, IdleNull DEF CoreInv
<1>3. /\ pick = Null => RqPop(q) = q /\ \A t \in AllThreads : st[t] # "READY"
      /\ pick # Null =>
           /\ pick \in AllThreads /\ st[pick] = "READY"
           /\ \A t \in AllThreads : st[t] = "READY" => prio[pick] <= prio[t]
           /\ \A st2 : /\ st2[pick] # "READY"
                       /\ \A x \in AllThreads \ {pick} :
                            st2[x] = "READY" <=> st[x] = "READY"
                       => RqMatches(RqPop(q), prio, st2)
  BY <1>2, RqPopMatches
<1> HIDE DEF pick
<1>4. /\ next \in AllThreads /\ st[next] \in {"READY", "RUNNING"}
      /\ \A t \in AllThreads : st[t] = "READY" => prio[next] <= prio[t]
  BY <1>2, <1>3
<1>5. RqMatches(RqPop(q), prio, state')
  <2>1. CASE pick = Null
    <3>1. \A t \in AllThreads : state'[t] = "READY" <=> st[t] = "READY"
      BY <1>1, <1>3, <1>4, <2>1
    <3>2. RqMatches(q, prio, state')
      BY <1>2, <3>1, RqMatchesOthers
    <3> QED
      BY <1>3, <2>1, <3>2
  <2>2. CASE pick # Null
    <3>1. /\ state'[pick] # "READY"
          /\ \A x \in AllThreads \ {pick} : state'[x] = "READY" <=> st[x] = "READY"
      BY <1>1, <1>3, <1>4, <2>2
    <3> QED
      BY <1>3, <2>2, <3>1
  <2> QED
    BY <2>1, <2>2
<1> HIDE DEF next
<1>6. state'[next] = "RUNNING"
  BY <1>1, <1>4
<1>7. RqDequeue(RqPop(q), next, prio[next]) = RqPop(q)
  BY <1>4, <1>5, <1>6, RqDequeueUnlinked
<1>8. RqMatches(rq', prio', state')
  BY <1>1, <1>5, <1>7
<1>9. \A t \in AllThreads : state'[t] = "READY" => st[t] = "READY"
  BY <1>1, <1>4
<1> QED
  BY <1>1, <1>4, <1>8, <1>9 DEF AfterTrap

(* No list changes, and no thread starts or stops to wait.                  *)
LEMMA DispatchWait ==
  ASSUME CoreInv,
         \A t \in AllThreads : state[t] = "BLOCKED" => state'[t] = "BLOCKED",
         UNCHANGED <<ep, notif, reason, blockedEp, blockedNotif, taken>>
  PROVE  WaitInv'
  BY DEF CoreInv, WaitInv, QueuedAreBlocked, SlotsAreBlocked, CallersAt,
         ReceiversAt, WaitersOn

LEMMA DispatchStayCore ==
  ASSUME CoreInv, TypeInv', TrapDispatch, DispatchStay
  PROVE  CpuInv' /\ WaitInv'
<1>1. /\ state[current] = "RUNNING" /\ phase' \in {"user", "resolve"}
      /\ UNCHANGED <<state, reason, prio, rq, registered, dead, current>>
  BY DEF TrapDispatch, DispatchStay, StaysOnCpu, AfterTrap
<1>2. CpuInv'
  BY <1>1, CpuQuiet
<1>3. WaitInv'
  BY <1>1, DispatchWait DEF TrapDispatch
<1> QED
  BY <1>2, <1>3

LEMMA DispatchSwitchCore ==
  ASSUME CoreInv, TypeInv', TrapDispatch, DispatchSwitch
  PROVE  CpuInv' /\ WaitInv'
<1>1. /\ state \in [AllThreads -> States] /\ rq \in RqType
      /\ state[Idle] \in {"READY", "RUNNING"}
      /\ RqMatches(rq, prio, state)
  BY TypeFacts DEF CoreInv, CpuInv, RunnableWaitsForNothing
<1>2. SwitchFrom(rq, state) /\ UNCHANGED <<prio, reason>>
  BY DEF TrapDispatch, DispatchSwitch
<1>3. /\ current' \in AllThreads
      /\ state[current'] \in {"READY", "RUNNING"}
      /\ state' = [state EXCEPT ![current'] = "RUNNING"]
      /\ RqMatches(rq', prio', state')
      /\ phase' \in {"user", "resolve"}
  BY <1>1, <1>2, SwitchCore
<1>4. \A t \in AllThreads :
        /\ state[t] = "DEAD" <=> state'[t] = "DEAD"
        /\ state[t] = "BLOCKED" => state'[t] = "BLOCKED"
        /\ state[t] # "SUSPENDED" => state'[t] # "SUSPENDED"
        /\ state'[t] \in {"READY", "RUNNING"} => state[t] \in {"READY", "RUNNING"}
  BY <1>1, <1>3
<1>5. RunnableWaitsForNothing' /\ RunsOnCpu' /\ ListsIntact'
  BY <1>1, <1>2, <1>3, <1>4, IdleNull
     DEF CoreInv, CpuInv, RunnableWaitsForNothing, RunsOnCpu, ListsIntact
<1>6. /\ \A x \in AllThreads : registered'[x] <=> x # Corpse /\ registered[x]
      /\ dead' = IF Corpse = Null THEN dead ELSE Null
  BY DEF DispatchSwitch, FreedRegs
<1>7. Corpse # Null => Corpse = dead
  BY DEF Corpse
<1>8. dead # Null => dead \in AllThreads /\ registered[dead] /\ state[dead] = "DEAD"
  BY TypeFacts DEF CoreInv, CpuInv, CorpseAccounted
<1>9. FreedIsDead'
  <2> SUFFICES ASSUME NEW x \in AllThreads, ~registered'[x]
               PROVE  state'[x] = "DEAD"
    BY DEF FreedIsDead
  <2> QED
    BY <1>4, <1>6, <1>7, <1>8, IdleNull DEF CoreInv, CpuInv, FreedIsDead
<1>10. CorpseAccounted'
  <2>1. ASSUME NEW x \in Threads, registered'[x], state'[x] = "DEAD"
        PROVE  x = dead'
    <3>1. x \in AllThreads /\ x # Corpse /\ registered[x] /\ state[x] = "DEAD"
      BY <1>4, <1>6, <2>1 DEF AllThreads
    <3>2. x = dead
      BY <3>1 DEF CoreInv, CpuInv, CorpseAccounted
    <3> QED
      BY <1>6, <1>7, <3>1, <3>2
  <2>2. ASSUME dead' # Null
        PROVE  registered'[dead'] /\ state'[dead'] = "DEAD"
    BY <1>4, <1>6, <1>8, <2>2
  <2> QED
    BY <2>1, <2>2 DEF CorpseAccounted
<1>11. WaitInv'
  BY <1>4, DispatchWait DEF TrapDispatch
<1> QED
  BY <1>3, <1>5, <1>9, <1>10, <1>11 DEF CpuInv

LEMMA DispatchPreemptCore ==
  ASSUME CoreInv, TypeInv', TrapDispatch, DispatchPreempt
  PROVE  CpuInv' /\ WaitInv'
<1> DEFINE q  == RqEnqueue(rq, current, prio[current])
           st == [state EXCEPT ![current] = "READY"]
<1>1. /\ state \in [AllThreads -> States] /\ rq \in RqType /\ current \in AllThreads
      /\ prio \in [AllThreads -> Prio]
      /\ state[Idle] \in {"READY", "RUNNING"} /\ state[current] = "RUNNING"
      /\ RqMatches(rq, prio, state)
  BY TypeFacts DEF CoreInv, CpuInv, RunnableWaitsForNothing, DispatchPreempt
<1>2. RqDequeue(rq, current, prio[current]) = rq
  BY <1>1, RqDequeueUnlinked
<1>3. SwitchFrom(q, st) /\ UNCHANGED <<prio, reason, registered, dead>>
  BY <1>2 DEF TrapDispatch, DispatchPreempt
<1>4. q \in RqType /\ st \in [AllThreads -> States]
  BY <1>1, RqEnqueueType DEF States
<1>5. /\ st[Idle] \in {"READY", "RUNNING"} /\ st[current] = "READY"
      /\ \A x \in AllThreads \ {current} : st[x] = state[x]
  BY <1>1, IdleNull
<1> HIDE DEF st
<1>6. RqMatches(q, prio, st)
  BY <1>1, <1>5, RqEnqueueMatches
<1> HIDE DEF q
<1>7. /\ current' \in AllThreads
      /\ st[current'] \in {"READY", "RUNNING"}
      /\ state' = [st EXCEPT ![current'] = "RUNNING"]
      /\ RqMatches(rq', prio', state')
      /\ phase' \in {"user", "resolve"}
  BY <1>3, <1>4, <1>5, <1>6, SwitchCore
<1>8. \A t \in AllThreads :
        /\ state[t] = "DEAD" <=> state'[t] = "DEAD"
        /\ state[t] = "BLOCKED" => state'[t] = "BLOCKED"
        /\ state[t] # "SUSPENDED" => state'[t] # "SUSPENDED"
        /\ state'[t] \in {"READY", "RUNNING"} => state[t] \in {"READY", "RUNNING"}
  BY <1>1, <1>4, <1>5, <1>7
<1>9. state'[current'] = "RUNNING" /\ state'[Idle] \in {"READY", "RUNNING"}
  BY <1>4, <1>5, <1>7, IdleNull
<1>10. RunnableWaitsForNothing' /\ RunsOnCpu' /\ ListsIntact'
  BY <1>3, <1>7, <1>8, <1>9
     DEF CoreInv, CpuInv, RunnableWaitsForNothing, RunsOnCpu, ListsIntact
<1>11. FreedIsDead' /\ CorpseAccounted'
  BY <1>3, <1>8, TypeFacts DEF CoreInv, CpuInv, FreedIsDead, CorpseAccounted
<1>12. WaitInv'
  BY <1>8, DispatchWait DEF TrapDispatch
<1> QED
  BY <1>7, <1>10, <1>11, <1>12 DEF CpuInv

LEMMA TrapDispatchCore ==
  ASSUME CoreInv, TypeInv', TrapDispatch
  PROVE  CpuInv' /\ WaitInv'
  BY DispatchStayCore, DispatchSwitchCore, DispatchPreemptCore DEF TrapDispatch

LEMMA SyscallRetResolveCore ==
  ASSUME CoreInv, TypeInv', SyscallRetResolve
  PROVE  CpuInv' /\ WaitInv'
<1>1. current \in AllThreads /\ state[current] = "RUNNING"
  BY TypeFacts DEF CoreInv, CpuInv, RunsOnCpu, SyscallRetResolve
<1>2. CpuInv'
  BY <1>1, CpuQuiet DEF SyscallRetResolve
<1>3. OthersWait({current})
  BY TypeFacts DEF CoreInv, OthersWait, SyscallRetResolve
<1>4. WaitInv'
  BY <1>1, <1>3, WaitUnblocked DEF SyscallRetResolve
<1> QED
  BY <1>2, <1>4

-----------------------------------------------------------------------------
(* The boot state satisfies the invariant.                                  *)
LEMMA InitCore == Init => CoreInv
<1> SUFFICES ASSUME Init
             PROVE  CoreInv
  OBVIOUS
<1>1. TypeInv
  BY InitType
<1>2. /\ Root \in Threads /\ Root \in AllThreads /\ Root # Idle
      /\ Idle \in AllThreads /\ MaxPrio \in Prio
  BY RootAssumption, MaxPrioAssumption, IdleNull DEF AllThreads, Prio
<1>3. /\ prio \in [AllThreads -> Prio] /\ rq \in RqType
      /\ \A p \in Prio : /\ rq.level[p] = IF p = MaxPrio THEN <<Idle>> ELSE <<>>
                         /\ p \in rq.bitmap <=> p = MaxPrio
      /\ \A t \in AllThreads :
           /\ state[t] = "READY" <=> t = Idle
           /\ state[t] = "RUNNING" <=> t = Root
           /\ state[t] \in {"READY", "RUNNING", "DEAD"}
      /\ prio[Idle] = MaxPrio
  BY <1>1, <1>2, TypeFacts DEF Init
<1>4. Range(<<Idle>>) = {Idle} /\ IsInjective(<<Idle>>)
  BY DEF Range, IsInjective
<1>5. RqMatches(rq, prio, state)
  <2>1. RqFits(rq, prio, state)
    BY <1>2, <1>3, <1>4, EmptyListRange DEF RqFits, RqLevelFits
  <2> QED
    BY <1>3, <2>1, RqMatchesFits
<1>6. RunnableWaitsForNothing /\ RunsOnCpu /\ ListsIntact
  BY <1>2, <1>3 DEF Init, RunnableWaitsForNothing, RunsOnCpu, ListsIntact
<1>7. FreedIsDead /\ CorpseAccounted
  BY <1>2 DEF Init, FreedIsDead, CorpseAccounted, AllThreads
<1>8. WaitInv
  BY EmptyListRange DEF Init, WaitInv, QueuedAreBlocked, SlotsAreBlocked
<1> QED
  BY <1>1, <1>5, <1>6, <1>7, <1>8 DEF CoreInv, CpuInv

LEMMA SyscallCore ==
  ASSUME CoreInv, TypeInv', Syscall
  PROVE  CpuInv' /\ WaitInv'
<1>1. CASE \E e \in Eps :
             \/ EpCreate(e) \/ EpRecv(e) \/ EpDestroy(e)
             \/ \E cb \in {"none", "call"} : EpCallQueue(e, cb) \/ EpCallDeliver(e, cb)
             \/ \E n \in Notifs, m \in Masks : EpRecvOrNotif(e, n, m)
  BY <1>1, EpCreateCore, EpRecvCore, EpDestroyCore, EpCallQueueCore,
     EpCallDeliverCore, EpRecvOrNotifCore
<1>2. CASE \E n \in Notifs :
             \/ NotifCreate(n) \/ NotifDestroy(n)
             \/ \E m \in Masks :
                  \/ NotifSignal(n, m) \/ NotifWaitTake(n, m) \/ NotifPoll(n, m)
                  \/ \E cb \in {"none", "wait"} : NotifWaitBlock(n, m, cb)
  BY <1>2, NotifCreateCore, NotifDestroyCore, NotifSignalCore,
     NotifWaitTakeCore, NotifWaitBlockCore
<1>3. CASE \/ \E e \in Eps, valid \in BOOLEAN : EpCallRefused(e, valid)
           \/ \E n \in Notifs, valid \in BOOLEAN : NotifWaitRefused(n, valid)
  BY <1>3, ReturnOnlyCore DEF EpCallRefused, NotifWaitRefused
<1>4. CASE \/ \E valid \in BOOLEAN : Sleep(valid)
           \/ \E t \in Threads : SleepCancel(t) \/ Kill(t)
           \/ \E t \in Threads, p \in Prio : Spawn(t, p) \/ SetPrio(t, p)
           \/ Yield \/ Exit
  BY <1>4, SleepCore, SleepCancelCore, KillCore, SpawnCore, SetPrioCore,
     YieldCore, ExitCore
<1> QED
  BY <1>1, <1>2, <1>3, <1>4, Zenon DEF Syscall

LEMMA CoreNextCore ==
  ASSUME CoreInv, [CoreNext]_vars
  PROVE  CoreInv'
<1>1. TypeInv'
  BY NextType DEF CoreInv, Next
<1>2. CASE Syscall
  BY <1>1, <1>2, SyscallCore DEF CoreInv
<1>3. CASE Replies(ReplySafe)
  <2>1. ReplySafe \subseteq Threads
    BY DEF ReplySafe
  <2>2. CpuInv' /\ WaitInv'
    BY <1>1, <1>3, <2>1, EpReplyCore, EpReplyRecvCore DEF Replies
  <2> QED
    BY <1>1, <2>2 DEF CoreInv
<1>4. CASE Interrupt
  BY <1>1, <1>4, TimerFireCore, IrqDispatchCore DEF CoreInv, Interrupt
<1>5. CASE KernelStep
  BY <1>1, <1>5, EpReplyRecvTailCore, EpDestroyNextCore, TrapDispatchCore,
     SyscallRetResolveCore DEF CoreInv, KernelStep
<1>6. CASE UNCHANGED vars
  <2>1. UNCHANGED <<state, reason, prio, rq, registered, dead, current, phase>>
    BY <1>6 DEF vars
  <2>2. CpuInv'
    BY <1>1, <2>1, CpuQuiet DEF CoreInv, CpuInv, RunsOnCpu, ListsIntact
  <2>3. WaitInv'
    BY <1>6, WaitQuiet DEF vars
  <2> QED
    BY <1>1, <2>2, <2>3 DEF CoreInv
<1> QED
  BY <1>2, <1>3, <1>4, <1>5, <1>6 DEF CoreNext, IdleLoop

(* The inductive invariant: READY threads are on the run queue and nowhere  *)
(* else, queues and slots name only threads blocked there, the thread in    *)
(* user code is RUNNING, freed threads are DEAD.                            *)
THEOREM CoreInvariant == CoreSpec => []CoreInv
<1>1. Init => CoreInv
  BY InitCore
<1>2. CoreInv /\ [CoreNext]_vars => CoreInv'
  BY CoreNextCore
<1> QED
  BY <1>1, <1>2, PTL DEF CoreSpec

-----------------------------------------------------------------------------
(* The queue and the states agree at every handler boundary: a READY thread *)
(* is linked exactly once, on the list of its present priority, and nothing *)
(* else is linked, whatever handlers do to th->priority, th->state and the  *)
(* lists between them.  No thread that could run is ever lost by bitmap_rt. *)
THEOREM RunQueueCorrect == CoreSpec => []RunQueueMatchesStates
<1>1. CoreInv => RunQueueMatchesStates
  BY DEF CoreInv, CpuInv, RqMatches, RunQueueMatchesStates
<1> QED
  BY <1>1, CoreInvariant, PTL

(* Every wake path (delivery, timeout, destroy, kill) takes the woken thread*)
(* out of the waiter slot of its notification, so that a slot always names a*)
(* thread blocked there.                                                    *)
THEOREM WaitersBlocked == CoreSpec => []WaiterIsBlocked
<1>1. CoreInv => WaiterIsBlocked
  BY DEF CoreInv, WaitInv, SlotsAreBlocked, WaitersOn, WaiterIsBlocked
<1> QED
  BY <1>1, CoreInvariant, PTL

(* No handler appends a thread whose ipc_node is still on a queue, and no   *)
(* TCB is reused while it is: the endpoint queues stay lists.               *)
THEOREM QueuesIntact == CoreSpec => []ListsIntact
<1>1. CoreInv => ListsIntact
  BY DEF CoreInv, CpuInv
<1> QED
  BY <1>1, CoreInvariant, PTL

(* Every dead thread is freed or is the one corpse kept in cpu->dead_thread:*)
(* no TCB is leaked or freed twice by exit, kill and the reap at a switch.  *)
THEOREM CorpsesAccounted == CoreSpec => []CorpseAccounted
<1>1. CoreInv => CorpseAccounted
  BY DEF CoreInv, CpuInv
<1> QED
  BY <1>1, CoreInvariant, PTL
-----------------------------------------------------------------------------
(* Who holds the CPU: only the trap exit gives it to a thread, always to a  *)
(* best one, and no step frees the stack it runs on.                        *)

OnlyCurrentRuns == \A t \in AllThreads : state[t] = "RUNNING" => t = current

BestRuns ==
  phase \in {"user", "resolve"} =>
    \A t \in AllThreads : state[t] = "READY" => prio[current] <= prio[t]

RunInv == CoreInv /\ OnlyCurrentRuns /\ BestRuns

(* What every handler and interrupt keeps: the CPU stays with its thread,   *)
(* nobody else becomes RUNNING, the trap exit is still to come and the      *)
(* current thread's TCB stays.                                              *)
HandlerStep ==
  /\ current' = current
  /\ phase' \notin {"user", "resolve"}
  /\ \A t \in AllThreads : state'[t] = "RUNNING" => state[t] = "RUNNING"
  /\ registered[current] => registered'[current]

USE DEF HandlerStep

LEMMA ReturnOnlyKeeps ==
  ASSUME NEW name, NEW r, ReturnOnly(name, r)
  PROVE  HandlerStep
  BY DEF ReturnOnly, Return

LEMMA CorruptKeeps ==
  ASSUME Corrupt
  PROVE  HandlerStep
  BY DEF Corrupt

(* A step that writes one or two entries of state, none of them RUNNING.    *)
LEMMA WriteKeeps ==
  ASSUME TypeInv, NEW t \in AllThreads, NEW v, v # "RUNNING",
         state' = [state EXCEPT ![t] = v] \/ UNCHANGED state,
         UNCHANGED <<current, registered>>,
         phase' \in {"syscall", "recv", "destroy", "isr"}
  PROVE  HandlerStep
  BY TypeFacts

LEMMA RecvTakeKeeps ==
  ASSUME NEW e, NEW name, RecvTake(e, name)
  PROVE  HandlerStep
  BY DEF RecvTake, Return

LEMMA RecvBlockKeeps ==
  ASSUME TypeInv, NEW e, NEW name, RecvBlock(e, name)
  PROVE  HandlerStep
<1>1. current \in AllThreads
  BY TypeFacts
<1> QED
  BY <1>1, CorruptKeeps, WriteKeeps DEF RecvBlock, ReceiverQueues, Return

LEMMA EndpointKeeps ==
  ASSUME TypeInv, NEW e \in Eps,
         \/ EpCreate(e) \/ EpRecv(e) \/ EpDestroy(e)
         \/ \E cb \in {"none", "call"} : EpCallQueue(e, cb) \/ EpCallDeliver(e, cb)
         \/ \E n \in Notifs, m \in Masks : EpRecvOrNotif(e, n, m)
  PROVE  HandlerStep
<1>1. current \in AllThreads
  BY TypeFacts
<1>2. CASE EpCreate(e)
  BY <1>1, <1>2 DEF EpCreate, Return
<1>3. CASE EpRecv(e)
  BY <1>3, RecvTakeKeeps, RecvBlockKeeps, ReturnOnlyKeeps DEF EpRecv
<1>4. CASE EpDestroy(e)
  BY <1>4, ReturnOnlyKeeps DEF EpDestroy
<1>5. ASSUME NEW cb, EpCallQueue(e, cb)
      PROVE  HandlerStep
  BY <1>1, <1>5, CorruptKeeps, WriteKeeps
     DEF EpCallQueue, CallerQueues, CallerBlocks, Return
<1>6. ASSUME NEW cb, EpCallDeliver(e, cb)
      PROVE  HandlerStep
  <2>1. Head(recvQ[e]) \in AllThreads
    BY <1>6, QueueTypes, TypeFacts DEF EpCallDeliver
  <2>2. /\ state' = [state EXCEPT ![current] = "BLOCKED", ![Head(recvQ[e])] = "READY"]
        /\ UNCHANGED <<current, registered>>
        /\ phase' = "syscall"
    BY <1>6 DEF EpCallDeliver, CallerBlocks, Return
  <2> QED
    BY <1>1, <2>1, <2>2, TypeFacts
<1>7. ASSUME NEW n, NEW m, EpRecvOrNotif(e, n, m)
      PROVE  HandlerStep
  <2>1. CASE RecvOrNotifBits(e, n, m)
    BY <1>1, <2>1 DEF RecvOrNotifBits, Return
  <2>2. CASE RecvTake(e, "ep_recv_or_notif")
    BY <2>2, RecvTakeKeeps
  <2>3. CASE RecvOrNotifBlock(e, n, m)
    BY ZenonT(30), <1>1, <2>3, CorruptKeeps, WriteKeeps DEF RecvOrNotifBlock, ReceiverWaits, Return
  <2>4. CASE ReturnOnly("ep_recv_or_notif", "EINVAL")
    BY <2>4, ReturnOnlyKeeps
  <2> QED
    BY <1>7, <2>1, <2>2, <2>3, <2>4 DEF EpRecvOrNotif
<1> QED
  BY <1>2, <1>3, <1>4, <1>5, <1>6, <1>7

LEMMA ReplyKeeps ==
  ASSUME TypeInv, NEW C \in SUBSET Threads, Replies(C)
  PROVE  HandlerStep
<1>1. Threads \subseteq AllThreads
  BY DEF AllThreads
<1>2. ASSUME NEW c \in C, EpReply(c)
      PROVE  HandlerStep
  BY SMTT(30), <1>1, <1>2, WriteKeeps DEF EpReply, ReplyTo, Return
<1>3. ASSUME NEW e \in Eps, NEW c \in C \cup {Null}, EpReplyRecv(e, c)
      PROVE  HandlerStep
  <2>1. CASE c # Null /\ CanReply(c) /\ ReplyTo(c)
    BY <1>1, <1>3, <2>1, WriteKeeps DEF EpReplyRecv, ReplyTo
  <2>2. CASE UNCHANGED <<rq, needsResched, prios, block, resume, timer>>
    BY <1>3, <2>2 DEF EpReplyRecv
  <2> QED
    BY <1>3, <2>1, <2>2 DEF EpReplyRecv
<1> QED
  BY <1>2, <1>3 DEF Replies

LEMMA EpDestroyNextKeeps ==
  ASSUME TypeInv, EpDestroyNext
  PROVE  HandlerStep
<1>1. arg \in Eps /\ phase = "destroy"
  BY DEF EpDestroyNext, TypeInv, ArgIsEndpoint
<1>2. ASSUME NEW t \in AllThreads, DestroyWake(t)
      PROVE  HandlerStep
  BY <1>1, <1>2, WriteKeeps DEF DestroyWake
<1>3. /\ sendQ[arg] # <<>> => Head(sendQ[arg]) \in AllThreads
      /\ recvQ[arg] # <<>> => Head(recvQ[arg]) \in AllThreads
  BY <1>1, QueueTypes, TypeFacts
<1> QED
  BY <1>2, <1>3, ReturnOnlyKeeps DEF EpDestroyNext

LEMMA SignalKeeps ==
  ASSUME TypeInv, NEW n \in Notifs, NEW b, Signal(n, b),
         phase' \in {"syscall", "isr"}
  PROVE  HandlerStep
<1>1. CASE SignalPost(n, b)
  BY <1>1 DEF Signal, SignalPost
<1>2. CASE SignalWake(n, b)
  <2>1. waiter[n] \in AllThreads
    BY <1>2, TypeFacts DEF SignalWake, SignalWakes
  <2> QED
    BY <1>2, <2>1, WriteKeeps DEF Signal, SignalWake
<1> QED
  BY <1>1, <1>2 DEF Signal

LEMMA NotificationKeeps ==
  ASSUME TypeInv, NEW n \in Notifs,
         \/ NotifCreate(n) \/ NotifDestroy(n)
         \/ \E m \in Masks :
              \/ NotifSignal(n, m) \/ NotifWaitTake(n, m) \/ NotifPoll(n, m)
              \/ \E cb \in {"none", "wait"} : NotifWaitBlock(n, m, cb)
              \/ IrqDispatch(n, m)
  PROVE  HandlerStep
<1>1. current \in AllThreads
  BY TypeFacts
<1>2. CASE NotifCreate(n)
  BY <1>2 DEF NotifCreate, Return
<1>3. CASE NotifDestroy(n)
  <2>1. CASE ReturnOnly("notif_destroy", "EINVAL")
    BY <2>1, ReturnOnlyKeeps
  <2>2. CASE waiter[n] = Null /\ UNCHANGED block /\ phase' = "syscall"
             /\ UNCHANGED <<current, registered>>
    BY <2>2
  <2>3. CASE waiter[n] # Null /\ DestroyWakesWaiter(waiter[n])
             /\ phase' = "syscall" /\ UNCHANGED <<current, registered>>
    <3>1. waiter[n] \in AllThreads
      BY <2>3, TypeFacts
    <3> QED
      BY <2>3, <3>1, WriteKeeps DEF DestroyWakesWaiter
  <2> QED
    BY <1>3, <2>1, <2>2, <2>3 DEF NotifDestroy, Return
<1>4. ASSUME NEW m, NotifSignal(n, m)
      PROVE  HandlerStep
  BY <1>4, SignalKeeps, ReturnOnlyKeeps DEF NotifSignal, Return
<1>5. ASSUME NEW m, NotifWaitTake(n, m) \/ NotifPoll(n, m)
      PROVE  HandlerStep
  BY <1>5 DEF NotifWaitTake, NotifPoll, Return
<1>6. ASSUME NEW m, NEW cb, NotifWaitBlock(n, m, cb)
      PROVE  HandlerStep
  BY <1>1, <1>6, WriteKeeps DEF NotifWaitBlock, Return
<1>7. ASSUME NEW m, IrqDispatch(n, m)
      PROVE  HandlerStep
  BY <1>7, SignalKeeps DEF IrqDispatch
<1> QED
  BY <1>2, <1>3, <1>4, <1>5, <1>6, <1>7

LEMMA TimeKeeps ==
  ASSUME TypeInv,
         \/ \E valid \in BOOLEAN : Sleep(valid)
         \/ \E t \in Threads : SleepCancel(t) \/ TimerFire(t)
  PROVE  HandlerStep
<1>1. current \in AllThreads /\ Threads \subseteq AllThreads
  BY TypeFacts
<1>2. ASSUME NEW valid, Sleep(valid)
      PROVE  HandlerStep
  BY <1>1, <1>2, WriteKeeps, ReturnOnlyKeeps DEF Sleep, SleepBlock, Return
<1>3. ASSUME NEW t \in Threads, SleepCancel(t)
      PROVE  HandlerStep
  BY <1>1, <1>3, WriteKeeps, ReturnOnlyKeeps DEF SleepCancel, CancelSleep, Return
<1>4. ASSUME NEW t \in Threads, TimerFire(t)
      PROVE  HandlerStep
  <2>1. state' = [state EXCEPT ![t] = "READY"] \/ UNCHANGED state
    BY <1>4 DEF TimerFire, TimeoutWakes
  <2>2. phase' = "isr" /\ UNCHANGED <<current, registered>>
    BY <1>4 DEF TimerFire
  <2> QED
    BY <1>1, <2>1, <2>2, WriteKeeps
<1> QED
  BY <1>2, <1>3, <1>4

(* exit and kill free a corpse or another thread, never the current one.    *)
LEMMA ThreadKeeps ==
  ASSUME CoreInv,
         \/ \E t \in Threads : Kill(t)
         \/ \E t \in Threads, p \in Prio : Spawn(t, p) \/ SetPrio(t, p)
         \/ Yield \/ Exit
  PROVE  HandlerStep
<1>1. /\ current \in AllThreads /\ Threads \subseteq AllThreads
      /\ state \in [AllThreads -> States]
      /\ registered \in [AllThreads -> BOOLEAN] /\ TypeInv
  BY TypeFacts DEF CoreInv
<1>2. CASE Yield
  BY <1>1, <1>2, WriteKeeps DEF Yield, Return
<1>3. CASE Exit
  <2>1. dead # current
    BY <1>3, CallerIsFree DEF Exit, InUser
  <2>2. /\ state' = [state EXCEPT ![current] = "DEAD"]
        /\ registered' = FreedRegs(dead)
        /\ phase' = "syscall" /\ UNCHANGED current
    BY <1>3 DEF Exit, Return
  <2> QED
    BY <1>1, <2>1, <2>2 DEF FreedRegs
<1>4. ASSUME NEW t \in Threads, NEW p \in Prio, SetPrio(t, p)
      PROVE  HandlerStep
  BY <1>4, ReturnOnlyKeeps DEF SetPrio, SetPrioLive, Return
<1>5. ASSUME NEW t \in Threads, NEW p \in Prio, Spawn(t, p)
      PROVE  HandlerStep
  <2>1. CASE Corrupt
    BY <2>1, CorruptKeeps
  <2>2. CASE ThreadInit(t, p)
    <3>1. /\ state' = [state EXCEPT ![t] = "READY"]
          /\ registered' = [registered EXCEPT ![t] = TRUE]
          /\ phase' = "syscall" /\ UNCHANGED current
      BY <2>2 DEF ThreadInit
    <3> QED
      BY <1>1, <3>1
  <2> QED
    BY <1>5, <2>1, <2>2 DEF Spawn
<1>6. ASSUME NEW t \in Threads, Kill(t)
      PROVE  HandlerStep
  <2>1. CASE ReturnOnly("kill", "ESRCH")
    BY <2>1, ReturnOnlyKeeps
  <2>2. CASE KillLocal(t)
    <3>1. dead # current
      BY <1>6, CallerIsFree DEF Kill, InUser
    <3>2. /\ state' = [Put(state, KillPeer(t), "READY") EXCEPT ![t] = "DEAD"]
          /\ registered' = FreedRegs(IF t = current THEN dead ELSE t)
          /\ phase' = "syscall" /\ UNCHANGED current
      BY <2>2 DEF KillLocal, Return
    <3>3. registered[current] => registered'[current]
      BY <1>1, <3>1, <3>2 DEF FreedRegs
    <3>4. \A x \in AllThreads : state'[x] = "RUNNING" => state[x] = "RUNNING"
      BY <1>1, <3>2 DEF Put
    <3> QED
      BY <3>2, <3>3, <3>4
  <2> QED
    BY <1>6, <2>1, <2>2 DEF Kill
<1> QED
  BY <1>2, <1>3, <1>4, <1>5, <1>6

(* Every step is a handler step, a trap exit, the return to user code, or   *)
(* nothing.                                                                 *)
LEMMA StepKinds ==
  ASSUME CoreInv, [CoreNext]_vars
  PROVE  HandlerStep \/ TrapDispatch \/ SyscallRetResolve \/ UNCHANGED vars
<1>1. TypeInv
  BY DEF CoreInv
<1>2. CASE Syscall
  <2>1. CASE \E e \in Eps :
               \/ EpCreate(e) \/ EpRecv(e) \/ EpDestroy(e)
               \/ \E cb \in {"none", "call"} : EpCallQueue(e, cb) \/ EpCallDeliver(e, cb)
               \/ \E n \in Notifs, m \in Masks : EpRecvOrNotif(e, n, m)
    BY <1>1, <2>1, EndpointKeeps
  <2>2. CASE \E n \in Notifs :
               \/ NotifCreate(n) \/ NotifDestroy(n)
               \/ \E m \in Masks :
                    \/ NotifSignal(n, m) \/ NotifWaitTake(n, m) \/ NotifPoll(n, m)
                    \/ \E cb \in {"none", "wait"} : NotifWaitBlock(n, m, cb)
    BY <1>1, <2>2, NotificationKeeps
  <2>3. CASE \/ \E e \in Eps, valid \in BOOLEAN : EpCallRefused(e, valid)
             \/ \E n \in Notifs, valid \in BOOLEAN : NotifWaitRefused(n, valid)
    BY <2>3, ReturnOnlyKeeps DEF EpCallRefused, NotifWaitRefused
  <2>4. CASE \/ \E valid \in BOOLEAN : Sleep(valid)
             \/ \E t \in Threads : SleepCancel(t) \/ Kill(t)
             \/ \E t \in Threads, p \in Prio : Spawn(t, p) \/ SetPrio(t, p)
             \/ Yield \/ Exit
    BY <1>1, <2>4, TimeKeeps, ThreadKeeps
  <2> QED
    BY <1>2, <2>1, <2>2, <2>3, <2>4, Zenon DEF Syscall
<1>3. CASE Replies(ReplySafe)
  <2>1. ReplySafe \in SUBSET Threads
    BY DEF ReplySafe
  <2> QED
    BY <1>1, <1>3, <2>1, ReplyKeeps
<1>4. CASE Interrupt
  BY <1>1, <1>4, TimeKeeps, NotificationKeeps DEF Interrupt
<1>5. CASE KernelStep
  <2>1. CASE EpReplyRecvTail
    BY <1>1, <2>1, RecvTakeKeeps, RecvBlockKeeps, ReturnOnlyKeeps DEF EpReplyRecvTail
  <2> QED
    BY <1>1, <1>5, <2>1, EpDestroyNextKeeps DEF KernelStep
<1> QED
  BY <1>2, <1>3, <1>4, <1>5 DEF CoreNext, IdleLoop

-----------------------------------------------------------------------------
(* The trap exit gives the CPU to a best thread.                            *)

LEMMA TrapDispatchRuns ==
  ASSUME RunInv, TrapDispatch
  PROVE  OnlyCurrentRuns' /\ BestRuns'
<1>1. /\ state \in [AllThreads -> States] /\ rq \in RqType /\ current \in AllThreads
      /\ prio \in [AllThreads -> Prio]
      /\ state[Idle] \in {"READY", "RUNNING"}
      /\ RqMatches(rq, prio, state) /\ CoreInv
  BY TypeFacts DEF RunInv, CoreInv, CpuInv, RunnableWaitsForNothing
<1>2. UNCHANGED prio
  BY DEF TrapDispatch
<1>3. CASE DispatchStay
  <2> DEFINE next == RqNext(rq, Null)
  <2>1. /\ state[current] = "RUNNING" /\ UNCHANGED <<state, current>>
        /\ next \notin {Null, current} => prio[next] >= prio[current]
    BY <1>3 DEF DispatchStay, StaysOnCpu
  <2>2. /\ next = Null => \A t \in AllThreads : state[t] # "READY"
        /\ next # Null =>
             /\ next \in AllThreads /\ state[next] = "READY"
             /\ \A t \in AllThreads : state[t] = "READY" => prio[next] <= prio[t]
    BY <1>1, IdleNull, RqPopMatches
  <2> HIDE DEF next
  <2>3. \A t \in AllThreads : state[t] = "READY" => prio[current] <= prio[t]
    <3> SUFFICES ASSUME NEW t \in AllThreads, state[t] = "READY"
                 PROVE  prio[current] <= prio[t]
      OBVIOUS
    <3>1. next \in AllThreads /\ prio[next] >= prio[current] /\ prio[next] <= prio[t]
      BY <2>1, <2>2
    <3>2. prio[next] \in Nat /\ prio[t] \in Nat /\ prio[current] \in Nat
      BY <1>1, <3>1, MaxPrioAssumption DEF Prio
    <3> QED
      BY <3>1, <3>2
  <2> QED
    BY <1>2, <2>1, <2>3 DEF RunInv, OnlyCurrentRuns, BestRuns
<1>4. CASE DispatchSwitch
  <2>1. SwitchFrom(rq, state) /\ state[current] # "RUNNING"
    BY <1>4 DEF DispatchSwitch
  <2>2. /\ current' \in AllThreads
        /\ state' = [state EXCEPT ![current'] = "RUNNING"]
        /\ \A t \in AllThreads : state'[t] = "READY" => prio'[current'] <= prio'[t]
    BY <1>1, <1>2, <2>1, SwitchCore
  <2> QED
    BY <1>1, <2>1, <2>2 DEF RunInv, OnlyCurrentRuns, BestRuns
<1>5. CASE DispatchPreempt
  <2> DEFINE q  == RqEnqueue(rq, current, prio[current])
             st == [state EXCEPT ![current] = "READY"]
  <2>1. state[current] = "RUNNING"
    BY <1>5 DEF DispatchPreempt
  <2>2. SwitchFrom(q, st)
    BY <1>1, <1>5, <2>1, RqDequeueUnlinked DEF DispatchPreempt
  <2>3. q \in RqType /\ st \in [AllThreads -> States]
    BY <1>1, RqEnqueueType DEF States
  <2>4. /\ st[Idle] \in {"READY", "RUNNING"} /\ st[current] = "READY"
        /\ \A x \in AllThreads \ {current} : st[x] = state[x]
    BY <1>1, IdleNull
  <2> HIDE DEF st
  <2>5. RqMatches(q, prio, st)
    BY <1>1, <2>1, <2>4, RqEnqueueMatches
  <2> HIDE DEF q
  <2>6. /\ current' \in AllThreads
        /\ state' = [st EXCEPT ![current'] = "RUNNING"]
        /\ \A t \in AllThreads : state'[t] = "READY" => prio'[current'] <= prio'[t]
    BY <1>1, <1>2, <2>2, <2>3, <2>4, <2>5, SwitchCore
  <2>7. \A t \in AllThreads : st[t] # "RUNNING"
    BY <2>4 DEF RunInv, OnlyCurrentRuns
  <2> QED
    BY <2>3, <2>6, <2>7 DEF OnlyCurrentRuns, BestRuns
<1> QED
  BY <1>3, <1>4, <1>5 DEF TrapDispatch

LEMMA RunStep ==
  ASSUME RunInv, [CoreNext]_vars
  PROVE  RunInv'
<1>1. CoreInv'
  BY CoreNextCore DEF RunInv
<1>2. CASE HandlerStep
  BY <1>1, <1>2 DEF RunInv, OnlyCurrentRuns, BestRuns
<1>3. CASE TrapDispatch
  BY <1>1, <1>3, TrapDispatchRuns DEF RunInv
<1>4. CASE SyscallRetResolve
  BY <1>1, <1>4 DEF RunInv, OnlyCurrentRuns, BestRuns, SyscallRetResolve
<1>5. CASE UNCHANGED vars
  BY <1>1, <1>5 DEF RunInv, OnlyCurrentRuns, BestRuns, vars
<1> QED
  BY <1>2, <1>3, <1>4, <1>5, StepKinds DEF RunInv

LEMMA InitRuns == Init => RunInv
<1> SUFFICES ASSUME Init
             PROVE  RunInv
  OBVIOUS
<1>1. Root \in AllThreads /\ \A t \in AllThreads : prio[t] \in Nat
  BY RootAssumption, MaxPrioAssumption DEF Init, AllThreads
<1> QED
  BY <1>1, InitCore DEF Init, RunInv, OnlyCurrentRuns, BestRuns

(* Strict priority scheduling: when user code runs, its thread is the only  *)
(* RUNNING one and no READY thread has a higher priority, whatever the trap *)
(* did to priorities or to the queue.                                       *)
THEOREM SchedulesByPriority == CoreSpec => []StrictPriority
<1>1. RunInv /\ [CoreNext]_vars => RunInv'
  BY RunStep
<1>2. RunInv => StrictPriority
  BY DEF RunInv, CoreInv, CpuInv, RunsOnCpu, OnlyCurrentRuns, BestRuns, StrictPriority
<1> QED
  BY <1>1, <1>2, InitRuns, PTL DEF CoreSpec

(* No step frees the TCB and the stack the CPU is running on: exit, a kill  *)
(* of oneself and a fatal fault leave them to a later switch.               *)
THEOREM RunningStackKept == CoreSpec => RunningStackNotFreed
<1>1. ASSUME CoreInv, [CoreNext]_vars
      PROVE  [\A t \in AllThreads : registered[t] /\ ~registered'[t] => t # current]_vars
  <2>1. CASE HandlerStep
    BY <2>1
  <2>2. CASE TrapDispatch
    <3>1. current # Corpse
      BY <1>1, TypeFacts, IdleNull DEF CoreInv, Corpse
    <3> QED
      BY <2>2, <3>1 DEF TrapDispatch, DispatchStay, DispatchSwitch, DispatchPreempt, FreedRegs
  <2>3. CASE SyscallRetResolve
    BY <2>3 DEF SyscallRetResolve
  <2> QED
    BY <1>1, <2>1, <2>2, <2>3, StepKinds
<1> QED
  BY <1>1, CoreInvariant, PTL DEF CoreSpec, RunningStackNotFreed

-----------------------------------------------------------------------------
(***************************************************************************)
(* What a wait leaves in a TCB, for the programs of CoreSpec.  The seven    *)
(* fields a blocking call writes (timeout, status, wake result, user        *)
(* pointers, ...) are cleared by many different wake paths; here each path  *)
(* is shown to clear what its wait wrote.                                   *)
(*                                                                          *)
(* The inductive invariant is about one thread at a time (Settled), plus    *)
(* two facts that make it inductive: a destroyed endpoint has empty queues  *)
(* before its slot is used again, and a thread in user code is inside of    *)
(* no system call.                                                          *)
(***************************************************************************)

PointersOf(r) ==
  CASE r = "CALL" -> {"msg"}
    [] r = "RECV" -> {"msg", "sender"}
    [] r = "NOTIF" -> {"bits"}
    [] r = "OR_NOTIF" -> {"rn"}
    [] OTHER -> {}

(* A thread blocks inside a system call and nothing has ended its wait.     *)
WaitIsOpen(t) ==
  state[t] = "BLOCKED" =>
    /\ op[t] # "none" /\ status[t] = "OK"
    /\ op[t] = "ep_call" => reason[t] = "CALL"

(* Outside of system calls no result is left over.                          *)
ResultsConsumed(t) == op[t] = "none" => status[t] = "OK" /\ ~wakeRet[t]

TimerServesWait(t) == timer[t] # "none" => CallbackApplies(t)

PointersServeWait(t) ==
  state[t] # "DEAD" /\ status[t] = "OK" => outptr[t] = PointersOf(reason[t])

AnsweredIfOver(t) ==
  /\ op[t] = "ep_call" /\ ret[t] = "OK" /\ status[t] = "OK"
  /\ state[t] \in {"READY", "RUNNING"}
  => taken[t] # Null

MustBeLinked(t) ==
  /\ state[t] = "BLOCKED"
  /\ reason[t] \in {"RECV", "OR_NOTIF"} \/ (reason[t] = "CALL" /\ taken[t] = Null)

Settled(t) ==
  /\ WaitIsOpen(t) /\ ResultsConsumed(t) /\ TimerServesWait(t)
  /\ PointersServeWait(t) /\ AnsweredIfOver(t)
  /\ MustBeLinked(t) => IpcLinked(t)

Empty(e) == Range(sendQ[e]) = {} /\ Range(recvQ[e]) = {}

ClosedIsEmpty ==
  \A e \in Eps : ~epActive[e] /\ ~(phase = "destroy" /\ arg = e) => Empty(e)

DestroyedIsClosed == phase = "destroy" => ~epActive[arg]

UserHasNoCall == phase \in {"user", "recv", "destroy"} => op[current] = "none"

FitInv ==
  /\ \A t \in AllThreads : Settled(t)
  /\ ClosedIsEmpty /\ DestroyedIsClosed /\ UserHasNoCall

USE DEF sched, ep, notif, prios, block, resume, ghost

-----------------------------------------------------------------------------
(* The shapes of steps.                                                     *)

LEMMA FieldTypes ==
  ASSUME TypeInv
  PROVE  /\ op \in [AllThreads -> Ops] /\ ret \in [AllThreads -> Codes]
         /\ status \in [AllThreads -> Codes] /\ wakeRet \in [AllThreads -> BOOLEAN]
         /\ outptr \in [AllThreads -> SUBSET Outptrs]
         /\ epActive \in [Eps -> BOOLEAN]
         /\ phase \in Phases
  BY DEF TypeInv, TypeOK, TcbType, WaitType, ObjectType, CpuType

LEMMA PointerValues ==
  /\ PointersOf("NONE") = {} /\ PointersOf("SLEEP") = {}
  /\ PointersOf("CALL") = {"msg"} /\ PointersOf("RECV") = {"msg", "sender"}
  /\ PointersOf("NOTIF") = {"bits"} /\ PointersOf("OR_NOTIF") = {"rn"}
  BY Zenon DEF PointersOf

LEMMA CallbackMeans ==
  ASSUME NEW t
  PROVE  /\ timer[t] = "call" => (CallbackApplies(t) <=> state[t] = "BLOCKED" /\ reason[t] = "CALL")
         /\ timer[t] = "wait" => (CallbackApplies(t) <=> state[t] = "BLOCKED" /\ reason[t] = "NOTIF")
         /\ timer[t] = "sleep" => (CallbackApplies(t) <=> Sleeping(t))
         /\ CallbackApplies(t) => state[t] = "BLOCKED"
  BY Zenon DEF CallbackApplies, Sleeping

(* What a thread that has just blocked needs for its timer to be right.     *)
LEMMA TimerArmed ==
  ASSUME NEW c,
         \/ timer'[c] = "none"
         \/ /\ state'[c] = "BLOCKED"
            /\ \/ timer'[c] = "call" /\ reason'[c] = "CALL"
               \/ timer'[c] = "wait" /\ reason'[c] = "NOTIF"
               \/ timer'[c] = "sleep" /\ reason'[c] = "SLEEP"
  PROVE  TimerServesWait(c)'
  BY Zenon DEF TimerServesWait, CallbackApplies

(* Nothing that Settled reads changes for t.                                *)
Same(t) ==
  /\ state'[t] = state[t] /\ reason'[t] = reason[t] /\ timer'[t] = timer[t]
  /\ status'[t] = status[t] /\ wakeRet'[t] = wakeRet[t] /\ outptr'[t] = outptr[t]
  /\ op'[t] = op[t] /\ ret'[t] = ret[t] /\ taken'[t] = taken[t]

OthersSame(W) == \A t \in AllThreads \ W : Same(t)

(* Only threads of W leave a queue.                                         *)
LinksKept(W) ==
  \A e \in Eps : /\ Range(sendQ[e]) \ W \subseteq Range(sendQ'[e])
                 /\ Range(recvQ[e]) \ W \subseteq Range(recvQ'[e])

(* Only an active endpoint gets a waiter, and none is deactivated.          *)
OpenOrKept ==
  \A e \in Eps :
    \/ epActive'[e]
    \/ /\ ~epActive[e]
       /\ Range(sendQ'[e]) \subseteq Range(sendQ[e])
       /\ Range(recvQ'[e]) \subseteq Range(recvQ[e])

LEMMA SettledFrame ==
  ASSUME FitInv, NEW W \in SUBSET AllThreads, OthersSame(W), LinksKept(W),
         \A t \in W : Settled(t)'
  PROVE  \A t \in AllThreads : Settled(t)'
<1> SUFFICES ASSUME NEW t \in AllThreads \ W
             PROVE  Settled(t)'
  OBVIOUS
<1>1. Settled(t) /\ Same(t)
  BY DEF FitInv, OthersSame
<1>2. IpcLinked(t) => IpcLinked(t)'
  BY DEF IpcLinked, LinksKept
<1>3. CallbackApplies(t) => CallbackApplies(t)'
  BY <1>1 DEF Same, CallbackApplies
<1> QED
  BY <1>1, <1>2, <1>3 DEF Same, Settled, WaitIsOpen, ResultsConsumed,
     TimerServesWait, PointersServeWait, AnsweredIfOver, MustBeLinked

LEMMA FitFrame ==
  ASSUME FitInv, NEW W \in SUBSET AllThreads, OthersSame(W), LinksKept(W),
         \A t \in W : Settled(t)', OpenOrKept,
         phase # "destroy", phase' # "destroy",
         phase' \in {"user", "recv"} => op'[current'] = "none"
  PROVE  FitInv'
<1>1. \A t \in AllThreads : Settled(t)'
  BY SettledFrame
<1>2. ClosedIsEmpty'
  BY DEF FitInv, ClosedIsEmpty, OpenOrKept, Empty
<1>3. DestroyedIsClosed' /\ UserHasNoCall'
  BY DEF DestroyedIsClosed, UserHasNoCall
<1> QED
  BY <1>1, <1>2, <1>3 DEF FitInv

(* The queues do not change.                                                *)
LEMMA QueuesQuiet ==
  ASSUME UNCHANGED <<sendQ, recvQ>>
  PROVE  /\ \A W : LinksKept(W)
         /\ UNCHANGED epActive => OpenOrKept
<1>1. OpenOrKept \/ ~UNCHANGED epActive
  BY DEF OpenOrKept
<1> QED
  BY <1>1 DEF LinksKept

(* What the thread that makes a system call brings along.                   *)
LEMMA CallerIsClean ==
  ASSUME CoreInv, FitInv, phase \in {"user", "recv"}
  PROVE  /\ current \in AllThreads /\ state[current] = "RUNNING"
         /\ reason[current] = "NONE" /\ op[current] = "none"
         /\ status[current] = "OK" /\ ~wakeRet[current]
         /\ timer[current] = "none" /\ outptr[current] = {}
<1>1. current \in AllThreads /\ state[current] = "RUNNING" /\ reason[current] = "NONE"
  BY CallerIsFree
<1>2. op[current] = "none" /\ Settled(current)
  BY <1>1 DEF FitInv, UserHasNoCall
<1> QED
  BY <1>1, <1>2, CallbackMeans, PointerValues DEF Settled, ResultsConsumed,
     TimerServesWait, PointersServeWait

(* It returns at once.                                                      *)
LEMMA CallerReturns ==
  ASSUME CoreInv, TypeInv, FitInv, phase \in {"user", "recv"}, NEW name, NEW r,
         name # "none", name = "ep_call" => r # "OK", Return(name, r),
         NEW c, c = current, state'[c] \in {"RUNNING", "READY"},
         reason'[c] = reason[c], timer'[c] = timer[c], status'[c] = status[c],
         outptr'[c] = outptr[c]
  PROVE  Settled(c)'
<1>1. op'[c] = name /\ ret'[c] = r
  BY CallerIsClean, FieldTypes DEF Return
<1> QED
  BY ZenonT(30), <1>1, CallerIsClean, PointerValues DEF Settled, WaitIsOpen, ResultsConsumed,
     TimerServesWait, PointersServeWait, AnsweredIfOver, MustBeLinked

(* It blocks.                                                               *)
LEMMA CallerWaits ==
  ASSUME CoreInv, TypeInv, FitInv, phase \in {"user", "recv"}, NEW name, NEW r,
         name # "none", Return(name, r),
         NEW c, c = current, state'[c] = "BLOCKED", status'[c] = "OK",
         outptr'[c] = PointersOf(reason'[c]),
         TimerServesWait(c)', MustBeLinked(c)' => IpcLinked(c)',
         name = "ep_call" => reason'[c] = "CALL"
  PROVE  Settled(c)'
<1>1. op'[c] = name /\ ret'[c] = r
  BY CallerIsClean, FieldTypes DEF Return
<1> QED
  BY <1>1 DEF Settled, WaitIsOpen, ResultsConsumed, PointersServeWait, AnsweredIfOver

(* A blocked thread is woken: with an error, or with its pointers dropped.  *)
LEMMA WokenSettles ==
  ASSUME FitInv, NEW t \in AllThreads, state[t] = "BLOCKED",
         state'[t] = "READY", reason'[t] = "NONE", timer'[t] = "none",
         op'[t] = op[t], ret'[t] = ret[t], taken'[t] = taken[t],
         \/ status'[t] # "OK"
         \/ /\ outptr'[t] = {}
            /\ reason[t] = "CALL" => taken[t] # Null
  PROVE  Settled(t)'
<1>1. op[t] # "none" /\ (op[t] = "ep_call" => reason[t] = "CALL")
  BY DEF FitInv, Settled, WaitIsOpen
<1> QED
  BY <1>1, PointerValues DEF Settled, WaitIsOpen, ResultsConsumed,
     TimerServesWait, PointersServeWait, AnsweredIfOver, MustBeLinked

LEMMA PopKeeps ==
  ASSUME NEW q \in Queues, NEW e \in Eps, q[e] # <<>>
  PROVE  \A x \in Eps : /\ Range(q[x]) \ {Head(q[e])} \subseteq Range(PopHead(q, e)[x])
                        /\ Range(PopHead(q, e)[x]) \subseteq Range(q[x])
<1>1. Range(Tail(q[e])) = Range(q[e]) \ {Head(q[e])}
  BY TailRange DEF Queues
<1>2. /\ PopHead(q, e)[e] = Tail(q[e])
      /\ \A x \in Eps \ {e} : PopHead(q, e)[x] = q[x]
  BY DEF PopHead, Queues
<1> QED
  BY <1>1, <1>2

LEMMA AppendKeeps ==
  ASSUME NEW q \in Queues, NEW e \in Eps, NEW t \in AllThreads, t \notin Range(q[e]),
         NEW r, r = IpcEnqueueTail(q, e, t)
  PROVE  /\ t \in Range(r[e])
         /\ \A x \in Eps : /\ Range(q[x]) \subseteq Range(r[x])
                           /\ x # e => Range(r[x]) = Range(q[x])
<1>1. \A x \in Eps :
        /\ IsInjective(IpcEnqueueTail(q, e, t)[x])
        /\ Range(IpcEnqueueTail(q, e, t)[x]) =
             IF x = e THEN Range(q[e]) \cup {t} ELSE Range(q[x])
  BY AppendOps
<1> QED
  BY <1>1

-----------------------------------------------------------------------------
(* Endpoint operations keep the invariant.                                  *)

LEMMA ReturnOnlyFit ==
  ASSUME CoreInv, FitInv, phase \in {"user", "recv"}, NEW name, NEW r,
         name # "none", name = "ep_call" => r # "OK", ReturnOnly(name, r)
  PROVE  FitInv'
<1>1. TypeInv /\ Return(name, r)
  BY DEF CoreInv, ReturnOnly
<1>2. PICK c : c = current
  OBVIOUS
<1>3. c \in AllThreads /\ state[c] = "RUNNING"
  BY <1>2, CallerIsClean
<1>4. Settled(c)'
  BY <1>1, <1>2, <1>3, CallerReturns DEF ReturnOnly
<1>5. OthersSame({c})
  BY <1>1, <1>2, FieldTypes DEF ReturnOnly, Return, OthersSame, Same
<1>6. LinksKept({c}) /\ OpenOrKept
  BY QueuesQuiet DEF ReturnOnly
<1> QED
  BY <1>1, <1>3, <1>4, <1>5, <1>6, FitFrame DEF Return

LEMMA EpCreateFit ==
  ASSUME CoreInv, FitInv, NEW e \in Eps, EpCreate(e)
  PROVE  FitInv'
<1>1. TypeInv /\ Return("ep_create", "OK") /\ phase = "user"
  BY DEF CoreInv, EpCreate, InUser
<1>2. PICK c : c = current
  OBVIOUS
<1>3. c \in AllThreads /\ state[c] = "RUNNING"
  BY <1>1, <1>2, CallerIsClean
<1>4. Settled(c)'
  BY <1>1, <1>2, <1>3, CallerReturns DEF EpCreate
<1>5. OthersSame({c})
  BY <1>1, <1>2, FieldTypes DEF EpCreate, Return, OthersSame, Same
<1>6. Empty(e)
  BY <1>1 DEF EpCreate, FitInv, ClosedIsEmpty
<1>7. /\ epActive'[e] /\ \A x \in Eps \ {e} : /\ epActive'[x] = epActive[x]
                                              /\ sendQ'[x] = sendQ[x]
                                              /\ recvQ'[x] = recvQ[x]
  BY <1>1, FieldTypes, TypeFacts DEF EpCreate
<1>8. LinksKept({c}) /\ OpenOrKept
  BY <1>6, <1>7 DEF LinksKept, OpenOrKept, Empty
<1> QED
  BY <1>1, <1>3, <1>4, <1>5, <1>8, FitFrame DEF Return

LEMMA EpCallQueueFit ==
  ASSUME CoreInv, FitInv, NEW e \in Eps, NEW cb \in {"none", "call"}, EpCallQueue(e, cb)
  PROVE  FitInv'
<1>1. TypeInv /\ phase = "user" /\ CallerQueues(e, cb)
  BY CallerIsFree DEF CoreInv, EpCallQueue, InUser
<1>2. PICK c : c = current
  OBVIOUS
<1>3. /\ c \in AllThreads /\ outptr[c] = {} /\ timer[c] = "none"
      /\ \A x \in Eps : c \notin Range(sendQ[x])
  BY <1>1, <1>2, CallerIsClean, CallerIsFree
<1>a. /\ Return("ep_call", "OK") /\ epActive[e]
      /\ state'[c] = "BLOCKED" /\ reason'[c] = "CALL" /\ status'[c] = "OK"
      /\ UNCHANGED <<recvQ, epActive>>
  BY <1>1, <1>2, <1>3, TypeFacts, FieldTypes DEF EpCallQueue, CallerQueues, CallerBlocks
<1>b. timer'[c] \in {"none", "call"}
  BY <1>1, <1>2, <1>3, TypeFacts DEF CallerQueues, CallerBlocks
<1>c. outptr'[c] = {"msg"}
  BY <1>1, <1>2, <1>3, FieldTypes DEF CallerQueues
<1>4. /\ Return("ep_call", "OK") /\ epActive[e]
      /\ state'[c] = "BLOCKED" /\ reason'[c] = "CALL" /\ status'[c] = "OK"
      /\ outptr'[c] = {"msg"} /\ timer'[c] \in {"none", "call"}
      /\ UNCHANGED <<recvQ, epActive>>
  BY <1>a, <1>b, <1>c
<1>5. /\ c \in Range(sendQ'[e])
      /\ \A x \in Eps : /\ Range(sendQ[x]) \subseteq Range(sendQ'[x])
                        /\ x # e => Range(sendQ'[x]) = Range(sendQ[x])
  <2>1. sendQ' = IpcEnqueueTail(sendQ, e, c) /\ sendQ \in Queues
    BY <1>1, <1>2, AreQueues DEF CallerQueues
  <2> QED
    BY <1>3, <2>1, AppendKeeps
<1>6. IpcLinked(c)'
  BY <1>5 DEF IpcLinked
<1>7. TimerServesWait(c)'
  BY <1>4, TimerArmed
<1>8. Settled(c)'
  BY <1>1, <1>2, <1>4, <1>6, <1>7, PointerValues, CallerWaits
<1>9. OthersSame({c})
  BY <1>1, <1>2, FieldTypes, TypeFacts
     DEF CallerQueues, CallerBlocks, Return, OthersSame, Same
<1>10. LinksKept({c}) /\ OpenOrKept
  BY <1>4, <1>5, <1>1, FieldTypes DEF LinksKept, OpenOrKept
<1> QED
  BY <1>1, <1>3, <1>4, <1>8, <1>9, <1>10, FitFrame DEF Return

(* Rendezvous: the receiver's wait ends, the caller's begins in its hands.  *)
LEMMA EpCallDeliverFit ==
  ASSUME CoreInv, FitInv, NEW e \in Eps, NEW cb \in {"none", "call"}, EpCallDeliver(e, cb)
  PROVE  FitInv'
<1>1. TypeInv /\ phase = "user" /\ recvQ[e] # <<>> /\ recvQ' = PopHead(recvQ, e)
  BY DEF CoreInv, EpCallDeliver, InUser
<1>2. PICK c, srv : c = current /\ srv = Head(recvQ[e])
  OBVIOUS
<1>3. srv \in ReceiversAt(e)
  BY <1>1, <1>2, ReceiverPopped
<1>4. c \in AllThreads /\ outptr[c] = {} /\ timer[c] = "none" /\ state[c] = "RUNNING"
  BY <1>1, <1>2, CallerIsClean
<1>5. /\ srv \in AllThreads /\ srv # c /\ state[srv] = "BLOCKED"
      /\ reason[srv] \in {"RECV", "OR_NOTIF"}
  BY <1>3, <1>4 DEF ReceiversAt
<1>6. /\ Return("ep_call", "OK") /\ CallerBlocks(e, cb)
      /\ state' = [state EXCEPT ![c] = "BLOCKED", ![srv] = "READY"]
      /\ reason' = [reason EXCEPT ![c] = "CALL", ![srv] = "NONE"]
      /\ status' = [status EXCEPT ![c] = "OK"]
      /\ outptr' = [outptr EXCEPT ![c] = @ \cup {"msg"},
                                  ![srv] = @ \ {"msg", "sender", "rn"}]
      /\ taken' = [taken EXCEPT ![c] = srv]
      /\ timer' = (IF cb = "none" THEN timer ELSE [timer EXCEPT ![c] = cb])
      /\ UNCHANGED <<wakeRet, sendQ, epActive>>
  BY <1>2 DEF EpCallDeliver, CallerBlocks
<1>7. /\ op' = [op EXCEPT ![c] = "ep_call"] /\ ret' = [ret EXCEPT ![c] = "OK"]
      /\ phase' = "syscall"
  BY <1>2, <1>6 DEF Return
<1>8. Settled(srv) /\ status[srv] = "OK"
  BY <1>5 DEF FitInv, Settled, WaitIsOpen
<1>9. outptr[srv] \in {{"msg", "sender"}, {"rn"}}
  BY <1>5, <1>8, PointerValues DEF Settled, PointersServeWait
<1>10. timer[srv] = "none"
  <2>1. timer[srv] # "none" => CallbackApplies(srv)
    BY <1>8 DEF Settled, TimerServesWait
  <2>2. timer[srv] \in Timers
    BY <1>1, <1>5, TypeFacts
  <2> QED
    BY <1>5, <2>1, <2>2, CallbackMeans DEF Timers, Sleeping
<1>11. outptr'[srv] = {} /\ outptr'[c] = {"msg"}
  BY <1>1, <1>4, <1>5, <1>6, <1>9, FieldTypes
<1>12. timer'[srv] = "none" /\ timer'[c] \in {"none", "call"}
  BY <1>1, <1>4, <1>5, <1>6, <1>10, TypeFacts
<1>13. /\ state'[c] = "BLOCKED" /\ reason'[c] = "CALL" /\ status'[c] = "OK"
       /\ taken'[c] = srv
       /\ state'[srv] = "READY" /\ reason'[srv] = "NONE"
       /\ op'[srv] = op[srv] /\ ret'[srv] = ret[srv] /\ taken'[srv] = taken[srv]
  BY <1>1, <1>4, <1>5, <1>6, <1>7, TypeFacts, FieldTypes
<1>14. Settled(srv)'
  BY <1>5, <1>11, <1>12, <1>13, WokenSettles
<1>15. Settled(c)'
  <2>1. TimerServesWait(c)'
    BY <1>12, <1>13, TimerArmed
  <2>2. ~MustBeLinked(c)'
    BY <1>5, <1>13, IdleNull DEF MustBeLinked
  <2> QED
    BY ZenonT(30), <1>1, <1>2, <1>6, <1>11, <1>13, <2>1, <2>2, PointerValues, CallerWaits
<1>16. OthersSame({c, srv})
  BY <1>1, <1>4, <1>5, <1>6, <1>7, FieldTypes, TypeFacts DEF OthersSame, Same
<1>17. LinksKept({c, srv}) /\ OpenOrKept
  <2>1. \A x \in Eps : /\ Range(recvQ[x]) \ {srv} \subseteq Range(recvQ'[x])
                      /\ Range(recvQ'[x]) \subseteq Range(recvQ[x])
    BY <1>1, <1>2, AreQueues, PopKeeps
  <2> QED
    BY <1>1, <1>6, <2>1, FieldTypes DEF LinksKept, OpenOrKept
<1> QED
  BY <1>1, <1>4, <1>5, <1>7, <1>14, <1>15, <1>16, <1>17, FitFrame

LEMMA RecvTakeFit ==
  ASSUME CoreInv, FitInv, phase \in {"user", "recv"}, NEW e \in Eps, NEW name,
         name \notin {"none", "ep_call"}, RecvTake(e, name)
  PROVE  FitInv'
<1>1. TypeInv /\ sendQ[e] # <<>> /\ sendQ' = PopHead(sendQ, e) /\ Return(name, "OK")
  BY DEF CoreInv, RecvTake
<1>2. PICK c, caller : c = current /\ caller = Head(sendQ[e])
  OBVIOUS
<1>3. caller \in CallersAt(e)
  BY <1>1, <1>2, SenderPopped
<1>4. c \in AllThreads /\ state[c] = "RUNNING"
  BY <1>2, CallerIsClean
<1>5. caller \in AllThreads /\ caller # c /\ state[caller] = "BLOCKED" /\ reason[caller] = "CALL"
  BY <1>3, <1>4 DEF CallersAt
<1>6. /\ taken' = [taken EXCEPT ![caller] = c]
      /\ op' = [op EXCEPT ![c] = name] /\ ret' = [ret EXCEPT ![c] = "OK"]
      /\ phase' = "syscall"
      /\ UNCHANGED <<state, reason, status, timer, wakeRet, outptr, recvQ, epActive>>
  BY <1>2 DEF RecvTake, Return
<1>7. Settled(c)'
  BY <1>1, <1>2, <1>4, <1>6, CallerReturns
<1>8. Settled(caller)'
  <2>1. Settled(caller) /\ status[caller] = "OK"
    BY <1>5 DEF FitInv, Settled, WaitIsOpen
  <2>2. /\ taken'[caller] = c /\ op'[caller] = op[caller] /\ ret'[caller] = ret[caller]
    BY <1>1, <1>4, <1>5, <1>6, TypeFacts, FieldTypes
  <2>3. ~MustBeLinked(caller)'
    BY <1>4, <1>5, <1>6, <2>2, IdleNull DEF MustBeLinked
  <2>4. CallbackApplies(caller) => CallbackApplies(caller)'
    BY <1>6 DEF CallbackApplies
  <2> QED
    BY <1>5, <1>6, <2>1, <2>2, <2>3, <2>4 DEF Settled, WaitIsOpen, ResultsConsumed,
       TimerServesWait, PointersServeWait, AnsweredIfOver
<1>9. OthersSame({c, caller})
  BY <1>1, <1>4, <1>5, <1>6, FieldTypes, TypeFacts DEF OthersSame, Same
<1>10. LinksKept({c, caller}) /\ OpenOrKept
  <2>1. \A x \in Eps : /\ Range(sendQ[x]) \ {caller} \subseteq Range(sendQ'[x])
                      /\ Range(sendQ'[x]) \subseteq Range(sendQ[x])
    BY <1>1, <1>2, AreQueues, PopKeeps
  <2> QED
    BY <1>1, <1>6, <2>1, FieldTypes DEF LinksKept, OpenOrKept
<1> QED
  BY <1>1, <1>4, <1>5, <1>6, <1>7, <1>8, <1>9, <1>10, FitFrame

(* The running thread joins the receivers of e.                             *)
LEMMA ReceiverFit ==
  ASSUME CoreInv, FitInv, phase \in {"user", "recv"}, NEW e \in Eps, epActive[e],
         NEW name, name \notin {"none", "ep_call"}, Return(name, "OK"),
         recvQ' = IpcEnqueueTail(recvQ, e, current),
         state' = [state EXCEPT ![current] = "BLOCKED"],
         NEW r \in {"RECV", "OR_NOTIF"}, reason' = [reason EXCEPT ![current] = r],
         status' = [status EXCEPT ![current] = "OK"],
         NEW o, outptr' = [outptr EXCEPT ![current] = o], o = PointersOf(r),
         UNCHANGED <<sendQ, epActive, timer, taken, wakeRet>>
  PROVE  FitInv'
<1>1. TypeInv
  BY DEF CoreInv
<1>2. PICK c : c = current
  OBVIOUS
<1>3. c \in AllThreads /\ timer[c] = "none" /\ \A x \in Eps : c \notin Range(recvQ[x])
  BY <1>2, CallerIsClean, CallerIsFree
<1>4. /\ state'[c] = "BLOCKED" /\ reason'[c] = r /\ status'[c] = "OK"
      /\ outptr'[c] = PointersOf(reason'[c]) /\ timer'[c] = "none"
  BY <1>1, <1>2, <1>3, TypeFacts, FieldTypes
<1>5. /\ c \in Range(recvQ'[e])
      /\ \A x \in Eps : /\ Range(recvQ[x]) \subseteq Range(recvQ'[x])
                        /\ x # e => Range(recvQ'[x]) = Range(recvQ[x])
  <2>1. recvQ' = IpcEnqueueTail(recvQ, e, c) /\ recvQ \in Queues
    BY <1>2, AreQueues
  <2> QED
    BY <1>3, <2>1, AppendKeeps
<1>6. IpcLinked(c)'
  BY <1>5 DEF IpcLinked
<1>7. TimerServesWait(c)'
  BY <1>4, TimerArmed
<1>8. Settled(c)'
  BY <1>1, <1>2, <1>4, <1>6, <1>7, CallerWaits
<1>9. OthersSame({c})
  BY <1>1, <1>2, <1>3, FieldTypes, TypeFacts DEF Return, OthersSame, Same
<1>10. LinksKept({c}) /\ OpenOrKept
  BY <1>5, <1>1, FieldTypes DEF LinksKept, OpenOrKept
<1> QED
  BY <1>1, <1>3, <1>8, <1>9, <1>10, FitFrame DEF Return

LEMMA RecvBlockFit ==
  ASSUME CoreInv, FitInv, phase \in {"user", "recv"}, NEW e \in Eps, NEW name,
         name \notin {"none", "ep_call"}, RecvBlock(e, name)
  PROVE  FitInv'
<1>1. ReceiverQueues(e, name) /\ epActive[e]
  BY CallerIsFree DEF RecvBlock
<1>2. outptr[current] \cup {"msg", "sender"} = PointersOf("RECV")
  BY CallerIsClean, PointerValues
<1> QED
  BY <1>1, <1>2, ReceiverFit DEF ReceiverQueues

LEMMA EpRecvFit ==
  ASSUME CoreInv, FitInv, NEW e \in Eps, EpRecv(e)
  PROVE  FitInv'
<1>1. phase = "user"
  BY DEF EpRecv, InUser
<1> QED
  BY <1>1, RecvTakeFit, RecvBlockFit, ReturnOnlyFit DEF EpRecv

LEMMA EpReplyRecvTailFit ==
  ASSUME CoreInv, FitInv, EpReplyRecvTail
  PROVE  FitInv'
<1>1. phase = "recv" /\ arg \in Eps
  BY DEF EpReplyRecvTail, CoreInv, TypeInv, ArgIsEndpoint
<1> QED
  BY <1>1, RecvTakeFit, RecvBlockFit, ReturnOnlyFit DEF EpReplyRecvTail

LEMMA EpRecvOrNotifFit ==
  ASSUME CoreInv, FitInv, NEW e \in Eps, NEW n \in Notifs, NEW m, EpRecvOrNotif(e, n, m)
  PROVE  FitInv'
<1>1. phase = "user"
  BY DEF EpRecvOrNotif, InUser
<1>2. CASE RecvOrNotifBits(e, n, m)
  <2>1. TypeInv /\ Return("ep_recv_or_notif", "NOTIFIED")
    BY <1>2 DEF CoreInv, RecvOrNotifBits
  <2>2. PICK c : c = current
    OBVIOUS
  <2>3. c \in AllThreads /\ state[c] = "RUNNING"
    BY <1>1, <2>2, CallerIsClean
  <2>4. Settled(c)'
    BY <1>1, <1>2, <2>1, <2>2, <2>3, CallerReturns DEF RecvOrNotifBits
  <2>5. OthersSame({c})
    BY <1>2, <2>1, <2>2, FieldTypes DEF RecvOrNotifBits, Return, OthersSame, Same
  <2>6. LinksKept({c}) /\ OpenOrKept
    BY <1>2, QueuesQuiet DEF RecvOrNotifBits
  <2> QED
    BY <1>1, <2>1, <2>3, <2>4, <2>5, <2>6, FitFrame DEF Return
<1>3. CASE RecvTake(e, "ep_recv_or_notif")
  BY <1>1, <1>3, RecvTakeFit
<1>4. CASE epActive[e] /\ RecvOrNotifBlock(e, n, m)
  <2>1. ReceiverWaits(e, n, m)
    BY <1>1, <1>4, CallerIsFree DEF RecvOrNotifBlock
  <2>2. (outptr[current] \ {"msg", "sender"}) \cup {"rn"} = PointersOf("OR_NOTIF")
    BY <1>1, CallerIsClean, PointerValues
  <2> QED
    BY <1>1, <1>4, <2>1, <2>2, ReceiverFit DEF ReceiverWaits
<1>5. CASE ReturnOnly("ep_recv_or_notif", "EINVAL")
  BY <1>1, <1>5, ReturnOnlyFit
<1> QED
  BY <1>2, <1>3, <1>4, <1>5 DEF EpRecvOrNotif

(* What ep_reply does to the caller it answers; current may return as well. *)
LEMMA ReplyToFit ==
  ASSUME CoreInv, FitInv, InUser, NEW c \in ReplySafe, CanReply(c), ReplyTo(c),
         UNCHANGED <<ep, taken, current>>,
         \/ phase' = "recv" /\ UNCHANGED <<op, ret>>
         \/ Return("ep_reply", "OK")
  PROVE  FitInv'
<1>1. TypeInv /\ phase = "user"
  BY DEF CoreInv, InUser
<1>2. PICK s : s = current
  OBVIOUS
<1>3. s \in AllThreads /\ state[s] = "RUNNING" /\ op[s] = "none"
  BY <1>1, <1>2, CallerIsClean
<1>4. /\ c \in AllThreads /\ c # s /\ taken[c] # Null
      /\ state[c] = "BLOCKED" /\ reason[c] = "CALL"
  BY <1>1, <1>3, AnswerableIsBlocked, TypeFacts DEF ReplySafe, CanReply
<1>5. /\ state' = [state EXCEPT ![c] = "READY"]
      /\ reason' = [reason EXCEPT ![c] = "NONE"]
      /\ outptr' = [outptr EXCEPT ![c] = @ \ {"msg"}]
      /\ timer' = [timer EXCEPT ![c] = "none"]
      /\ UNCHANGED <<status, wakeRet>>
  BY DEF ReplyTo, Disarm
<1>6. \A t \in AllThreads \ {s} : op'[t] = op[t] /\ ret'[t] = ret[t]
  BY <1>1, <1>2, FieldTypes DEF Return
<1>7. outptr[c] = {"msg"}
  BY <1>4, PointerValues DEF FitInv, Settled, WaitIsOpen, PointersServeWait
<1>8. /\ state'[c] = "READY" /\ reason'[c] = "NONE" /\ timer'[c] = "none"
      /\ outptr'[c] = {}
  BY <1>1, <1>4, <1>5, <1>7, TypeFacts, FieldTypes
<1>9. Settled(c)'
  BY <1>4, <1>6, <1>8, WokenSettles
<1>10. OthersSame({c, s})
  BY <1>1, <1>4, <1>5, <1>6, FieldTypes, TypeFacts DEF OthersSame, Same
<1>11. /\ state'[s] = state[s] /\ reason'[s] = reason[s] /\ timer'[s] = timer[s]
       /\ status'[s] = status[s] /\ outptr'[s] = outptr[s]
       /\ wakeRet'[s] = wakeRet[s] /\ taken'[s] = taken[s]
  BY <1>1, <1>3, <1>4, <1>5, FieldTypes, TypeFacts
<1>12. LinksKept({c, s}) /\ LinksKept({c}) /\ OpenOrKept
  BY QueuesQuiet
<1>13. CASE Return("ep_reply", "OK")
  <2>1. Settled(s)'
    BY <1>1, <1>2, <1>3, <1>11, <1>13, CallerReturns
  <2> QED
    BY <1>1, <1>3, <1>4, <1>9, <1>10, <1>12, <1>13, <2>1, FitFrame DEF Return
<1>14. CASE phase' = "recv" /\ UNCHANGED <<op, ret>>
  <2>1. OthersSame({c})
    BY <1>10, <1>11, <1>14 DEF OthersSame, Same
  <2> QED
    BY <1>1, <1>2, <1>3, <1>4, <1>9, <1>12, <1>14, <2>1, FitFrame
<1> QED
  BY <1>13, <1>14

LEMMA EpReplyFit ==
  ASSUME CoreInv, FitInv, NEW c \in ReplySafe, EpReply(c)
  PROVE  FitInv'
<1>1. InUser /\ phase = "user" /\ TypeInv
  BY DEF EpReply, InUser, CoreInv
<1>2. CASE CanReply(c) /\ ReplyTo(c) /\ Return("ep_reply", "OK")
  BY <1>1, <1>2, ReplyToFit DEF EpReply
<1>3. CASE /\ Return("ep_reply", "EINVAL")
           /\ UNCHANGED <<rq, needsResched, prios, block, resume, timer>>
  <2>1. PICK s : s = current
    OBVIOUS
  <2>2. s \in AllThreads /\ state[s] = "RUNNING"
    BY <1>1, <2>1, CallerIsClean
  <2>3. Settled(s)'
    BY <1>1, <1>3, <2>1, <2>2, CallerReturns
  <2>4. OthersSame({s})
    BY <1>1, <1>3, <2>1, FieldTypes DEF EpReply, Return, OthersSame, Same
  <2>5. LinksKept({s}) /\ OpenOrKept
    BY QueuesQuiet DEF EpReply
  <2> QED
    BY <1>1, <1>3, <2>2, <2>3, <2>4, <2>5, FitFrame DEF Return
<1> QED
  BY <1>2, <1>3 DEF EpReply

LEMMA EpReplyRecvFit ==
  ASSUME CoreInv, FitInv, NEW e \in Eps, NEW c \in ReplySafe \cup {Null},
         EpReplyRecv(e, c)
  PROVE  FitInv'
<1>1. InUser /\ phase = "user" /\ phase' = "recv"
  BY DEF EpReplyRecv, InUser
<1>2. CASE c # Null /\ CanReply(c) /\ ReplyTo(c)
  BY <1>1, <1>2, ReplyToFit DEF EpReplyRecv
<1>3. CASE UNCHANGED <<rq, needsResched, prios, block, resume, timer>>
  <2>1. OthersSame({})
    BY <1>3 DEF EpReplyRecv, OthersSame, Same
  <2>2. LinksKept({}) /\ OpenOrKept
    BY QueuesQuiet DEF EpReplyRecv
  <2>3. op'[current'] = "none"
    BY <1>1, CallerIsClean DEF EpReplyRecv
  <2> QED
    BY <1>1, <2>1, <2>2, <2>3, FitFrame
<1> QED
  BY <1>2, <1>3 DEF EpReplyRecv

LEMMA EpDestroyFit ==
  ASSUME CoreInv, FitInv, NEW e \in Eps, EpDestroy(e)
  PROVE  FitInv'
<1>1. phase = "user" /\ TypeInv
  BY DEF EpDestroy, InUser, CoreInv
<1>2. CASE /\ epActive' = [epActive EXCEPT ![e] = FALSE]
           /\ phase' = "destroy" /\ arg' = e
           /\ UNCHANGED <<sched, sendQ, recvQ, notif, prios, block, resume, ghost,
                          registered, timer, ipcSender, op, ret>>
  <2>1. OthersSame({}) /\ LinksKept({})
    BY <1>2, QueuesQuiet DEF OthersSame, Same
  <2>2. \A t \in AllThreads : Settled(t)'
    BY <2>1, SettledFrame
  <2>3. /\ ~epActive'[e] /\ \A x \in Eps \ {e} : epActive'[x] = epActive[x]
    BY <1>1, <1>2, FieldTypes
  <2>4. ClosedIsEmpty' /\ DestroyedIsClosed' /\ UserHasNoCall'
    BY <1>1, <1>2, <2>3 DEF FitInv, ClosedIsEmpty, Empty, DestroyedIsClosed, UserHasNoCall
  <2> QED
    BY <2>2, <2>4 DEF FitInv
<1>3. CASE ReturnOnly("ep_destroy", "EINVAL")
  BY <1>1, <1>3, ReturnOnlyFit
<1> QED
  BY <1>2, <1>3 DEF EpDestroy

(* One turn of the loop of ep_destroy.                                      *)
LEMMA DestroyWakeFit ==
  ASSUME CoreInv, FitInv, phase = "destroy", arg \in Eps,
         NEW t \in AllThreads, state[t] = "BLOCKED", DestroyWake(t), LinksKept({t}),
         \A x \in Eps : /\ Range(sendQ'[x]) \subseteq Range(sendQ[x])
                        /\ Range(recvQ'[x]) \subseteq Range(recvQ[x])
  PROVE  FitInv'
<1>1. TypeInv
  BY DEF CoreInv
<1>2. /\ state' = [state EXCEPT ![t] = "READY"]
      /\ reason' = [reason EXCEPT ![t] = "NONE"]
      /\ status' = [status EXCEPT ![t] = "EINVAL"]
      /\ timer' = [timer EXCEPT ![t] = "none"]
      /\ UNCHANGED <<outptr, wakeRet, op, ret, taken, epActive, phase, arg, current>>
  BY DEF DestroyWake, Disarm
<1>3. /\ state'[t] = "READY" /\ reason'[t] = "NONE" /\ status'[t] = "EINVAL"
      /\ timer'[t] = "none"
  BY <1>1, <1>2, TypeFacts, FieldTypes
<1>4. Settled(t)'
  BY <1>2, <1>3, WokenSettles
<1>5. OthersSame({t})
  BY <1>1, <1>2, TypeFacts, FieldTypes DEF OthersSame, Same
<1>6. \A x \in AllThreads : Settled(x)'
  BY <1>4, <1>5, SettledFrame
<1>7. ClosedIsEmpty' /\ DestroyedIsClosed' /\ UserHasNoCall'
  BY <1>2 DEF FitInv, ClosedIsEmpty, Empty, DestroyedIsClosed, UserHasNoCall
<1> QED
  BY <1>6, <1>7 DEF FitInv

LEMMA EpDestroyNextFit ==
  ASSUME CoreInv, FitInv, EpDestroyNext
  PROVE  FitInv'
<1>1. TypeInv /\ phase = "destroy" /\ arg \in Eps
  BY DEF EpDestroyNext, CoreInv, TypeInv, ArgIsEndpoint
<1>2. CASE /\ sendQ[arg] # <<>> /\ sendQ' = PopHead(sendQ, arg)
           /\ DestroyWake(Head(sendQ[arg])) /\ UNCHANGED recvQ
  <2>1. PICK t : t = Head(sendQ[arg])
    OBVIOUS
  <2>2. t \in AllThreads /\ state[t] = "BLOCKED" /\ DestroyWake(t)
    BY <1>1, <1>2, <2>1, SenderPopped DEF CallersAt
  <2>3. \A x \in Eps : /\ Range(sendQ[x]) \ {t} \subseteq Range(sendQ'[x])
                       /\ Range(sendQ'[x]) \subseteq Range(sendQ[x])
    BY <1>1, <1>2, <2>1, AreQueues, PopKeeps
  <2>4. LinksKept({t})
    BY <1>2, <2>3 DEF LinksKept
  <2> QED
    BY <1>1, <1>2, <2>2, <2>3, <2>4, DestroyWakeFit
<1>3. CASE /\ recvQ[arg] # <<>> /\ recvQ' = PopHead(recvQ, arg)
           /\ DestroyWake(Head(recvQ[arg])) /\ UNCHANGED sendQ
  <2>1. PICK t : t = Head(recvQ[arg])
    OBVIOUS
  <2>2. t \in AllThreads /\ state[t] = "BLOCKED" /\ DestroyWake(t)
    BY <1>1, <1>3, <2>1, ReceiverPopped DEF ReceiversAt
  <2>3. \A x \in Eps : /\ Range(recvQ[x]) \ {t} \subseteq Range(recvQ'[x])
                       /\ Range(recvQ'[x]) \subseteq Range(recvQ[x])
    BY <1>1, <1>3, <2>1, AreQueues, PopKeeps
  <2>4. LinksKept({t})
    BY <1>3, <2>3 DEF LinksKept
  <2> QED
    BY <1>1, <1>3, <2>2, <2>3, <2>4, DestroyWakeFit
<1>4. CASE sendQ[arg] = <<>> /\ recvQ[arg] = <<>> /\ ReturnOnly("ep_destroy", "OK")
  <2>1. PICK c : c = current
    OBVIOUS
  <2>2. c \in AllThreads /\ op[c] = "none" /\ Settled(c)
    BY <1>1, <2>1, TypeFacts DEF FitInv, UserHasNoCall
  <2>3. op'[c] = "ep_destroy" /\ phase' = "syscall"
    BY <1>1, <1>4, <2>1, <2>2, FieldTypes DEF ReturnOnly, Return
  <2>4. CallbackApplies(c) => CallbackApplies(c)'
    BY <1>4 DEF ReturnOnly, CallbackApplies
  <2>5. IpcLinked(c) => IpcLinked(c)'
    BY <1>4 DEF ReturnOnly, IpcLinked
  <2>6. Settled(c)'
    BY <1>4, <2>2, <2>3, <2>4, <2>5 DEF ReturnOnly, Settled, WaitIsOpen, ResultsConsumed,
       TimerServesWait, PointersServeWait, AnsweredIfOver, MustBeLinked
  <2>7. OthersSame({c}) /\ LinksKept({c})
    BY <1>1, <1>4, <2>1, QueuesQuiet, FieldTypes DEF ReturnOnly, Return, OthersSame, Same
  <2>8. \A x \in AllThreads : Settled(x)'
    BY <2>2, <2>6, <2>7, SettledFrame
  <2>9. ClosedIsEmpty' /\ DestroyedIsClosed' /\ UserHasNoCall'
    BY <1>1, <1>4, <2>3, EmptyListRange
       DEF ReturnOnly, FitInv, ClosedIsEmpty, Empty, DestroyedIsClosed, UserHasNoCall
  <2> QED
    BY <2>8, <2>9 DEF FitInv
<1> QED
  BY <1>2, <1>3, <1>4 DEF EpDestroyNext

-----------------------------------------------------------------------------
(* Notification operations keep the invariant.                              *)

(* A call that returns at once and touches no thread but its own.           *)
LEMMA QuietFit ==
  ASSUME CoreInv, FitInv, phase = "user", NEW name, NEW r,
         name \notin {"none", "ep_call"}, Return(name, r),
         UNCHANGED <<state, reason, timer, status, wakeRet, outptr, taken, ep>>
  PROVE  FitInv'
<1>1. TypeInv
  BY DEF CoreInv
<1>2. PICK c : c = current
  OBVIOUS
<1>3. c \in AllThreads /\ state[c] = "RUNNING"
  BY <1>2, CallerIsClean
<1>4. Settled(c)'
  BY <1>1, <1>2, <1>3, CallerReturns
<1>5. OthersSame({c})
  BY <1>1, <1>2, FieldTypes DEF Return, OthersSame, Same
<1>6. LinksKept({c}) /\ OpenOrKept
  BY QueuesQuiet
<1> QED
  BY <1>1, <1>3, <1>4, <1>5, <1>6, FitFrame DEF Return

(* One blocked thread t is woken, by a system call of another thread or by  *)
(* an interrupt.                                                            *)
LEMMA WakeFit ==
  ASSUME CoreInv, FitInv, NEW t \in AllThreads, state[t] = "BLOCKED",
         state' = [state EXCEPT ![t] = "READY"],
         reason' = [reason EXCEPT ![t] = "NONE"],
         timer' = [timer EXCEPT ![t] = "none"],
         \/ status'[t] # "OK"
         \/ outptr'[t] = {} /\ (reason[t] = "CALL" => taken[t] # Null),
         \A x \in AllThreads \ {t} : /\ status'[x] = status[x]
                                     /\ outptr'[x] = outptr[x]
                                     /\ wakeRet'[x] = wakeRet[x],
         UNCHANGED <<taken, epActive, current>>,
         LinksKept({t}),
         \A x \in Eps : /\ Range(sendQ'[x]) \subseteq Range(sendQ[x])
                        /\ Range(recvQ'[x]) \subseteq Range(recvQ[x]),
         \/ phase \in {"user", "isr"} /\ phase' = "isr" /\ UNCHANGED <<op, ret>>
         \/ phase = "user" /\ \E name, r : /\ name \notin {"none", "ep_call"}
                                           /\ Return(name, r)
  PROVE  FitInv'
<1>1. TypeInv
  BY DEF CoreInv
<1>2. PICK c : c = current
  OBVIOUS
<1>3. c \in AllThreads
  BY <1>1, <1>2, TypeFacts
<1>4. /\ state'[t] = "READY" /\ reason'[t] = "NONE" /\ timer'[t] = "none"
      /\ \A x \in AllThreads \ {t} :
           state'[x] = state[x] /\ reason'[x] = reason[x] /\ timer'[x] = timer[x]
  BY <1>1, TypeFacts
<1>5. OpenOrKept
  BY <1>1, FieldTypes DEF OpenOrKept
<1>6. CASE phase \in {"user", "isr"} /\ phase' = "isr" /\ UNCHANGED <<op, ret>>
  <2>1. Settled(t)'
    BY <1>4, <1>6, WokenSettles
  <2>2. OthersSame({t})
    BY <1>4, <1>6 DEF OthersSame, Same
  <2> QED
    BY <1>5, <1>6, <2>1, <2>2, FitFrame
<1>7. ASSUME phase = "user", NEW name, NEW r, name \notin {"none", "ep_call"},
             Return(name, r)
      PROVE  FitInv'
  <2>1. state[c] = "RUNNING" /\ c # t
    BY <1>2, <1>7, CallerIsClean
  <2>2. \A x \in AllThreads \ {c} : op'[x] = op[x] /\ ret'[x] = ret[x]
    BY <1>1, <1>2, <1>7, FieldTypes DEF Return
  <2>3. Settled(t)'
    BY <1>4, <2>1, <2>2, WokenSettles
  <2>4. Settled(c)'
    BY <1>1, <1>2, <1>3, <1>4, <1>7, <2>1, CallerReturns
  <2>5. OthersSame({t, c}) /\ LinksKept({t, c})
    BY <1>4, <2>2 DEF OthersSame, Same, LinksKept
  <2> QED
    BY <1>3, <1>5, <1>7, <2>3, <2>4, <2>5, FitFrame DEF Return
<1> QED
  BY <1>6, <1>7

LEMMA UnlinkKeeps ==
  ASSUME CoreInv, NEW t \in AllThreads,
         sendQ' \in {sendQ, UnlinkIpc(sendQ, t)}, recvQ' \in {recvQ, UnlinkIpc(recvQ, t)}
  PROVE  /\ LinksKept({t})
         /\ \A x \in Eps : /\ Range(sendQ'[x]) \subseteq Range(sendQ[x])
                           /\ Range(recvQ'[x]) \subseteq Range(recvQ[x])
<1>1. \A x \in Eps : /\ Range(UnlinkIpc(sendQ, t)[x]) = Range(sendQ[x]) \ {t}
                     /\ Range(UnlinkIpc(recvQ, t)[x]) = Range(recvQ[x]) \ {t}
  BY AreQueues, UnlinkOps
<1> QED
  BY <1>1 DEF LinksKept

LEMMA SignalFit ==
  ASSUME CoreInv, FitInv, NEW n \in Notifs, NEW b, ntActive[n], Signal(n, b),
         \/ phase \in {"user", "isr"} /\ phase' = "isr" /\ UNCHANGED <<op, ret>>
         \/ phase = "user" /\ Return("notif_signal", "OK")
  PROVE  FitInv'
<1>1. TypeInv
  BY DEF CoreInv
<1>2. CASE SignalPost(n, b)
  <2>1. UNCHANGED <<state, reason, timer, status, wakeRet, outptr, taken, ep>>
    BY <1>2 DEF Signal, SignalPost
  <2>2. CASE phase = "user" /\ Return("notif_signal", "OK")
    BY <2>1, <2>2, QuietFit
  <2>3. CASE phase \in {"user", "isr"} /\ phase' = "isr" /\ UNCHANGED <<op, ret>>
    <3>1. OthersSame({}) /\ LinksKept({}) /\ OpenOrKept
      BY <2>1, <2>3, QueuesQuiet DEF OthersSame, Same
    <3> QED
      BY <2>3, <3>1, FitFrame
  <2> QED
    BY <2>2, <2>3
<1>3. CASE SignalWake(n, b)
  <2>1. PICK w : w = waiter[n]
    OBVIOUS
  <2>2. w # Null
    BY <1>3, <2>1 DEF SignalWake, SignalWakes
  <2>3. w \in AllThreads /\ state[w] = "BLOCKED" /\ reason[w] \in {"NOTIF", "OR_NOTIF"}
    BY <2>1, <2>2, SlotFacts
  <2>4. /\ state' = [state EXCEPT ![w] = "READY"]
        /\ reason' = [reason EXCEPT ![w] = "NONE"]
        /\ timer' = [timer EXCEPT ![w] = "none"]
        /\ LeaveBoth(w) \/ LeaveNotif(w)
        /\ UNCHANGED <<status, taken, epActive, current>>
    BY <1>3, <2>1 DEF Signal, SignalWake, Disarm
  <2>5. outptr[w] = PointersOf(reason[w])
    BY <2>3 DEF FitInv, Settled, WaitIsOpen, PointersServeWait
  <2>6. /\ outptr'[w] = {}
        /\ \A x \in AllThreads \ {w} : outptr'[x] = outptr[x] /\ wakeRet'[x] = wakeRet[x]
    BY <1>1, <2>3, <2>4, <2>5, PointerValues, FieldTypes DEF LeaveBoth, LeaveNotif
  <2>7. sendQ' \in {sendQ, UnlinkIpc(sendQ, w)} /\ recvQ' \in {recvQ, UnlinkIpc(recvQ, w)}
    BY <2>4 DEF LeaveBoth, LeaveNotif
  <2>8. /\ LinksKept({w})
        /\ \A x \in Eps : /\ Range(sendQ'[x]) \subseteq Range(sendQ[x])
                          /\ Range(recvQ'[x]) \subseteq Range(recvQ[x])
    BY <2>3, <2>7, UnlinkKeeps
  <2> QED
    BY <2>3, <2>4, <2>6, <2>8, WakeFit
<1> QED
  BY <1>2, <1>3 DEF Signal

LEMMA NotifCallsFit ==
  ASSUME CoreInv, FitInv, NEW n \in Notifs, NEW m,
         \/ NotifCreate(n) \/ NotifSignal(n, m) \/ NotifWaitTake(n, m) \/ NotifPoll(n, m)
         \/ IrqDispatch(n, m)
  PROVE  FitInv'
<1>1. CASE NotifCreate(n) \/ NotifWaitTake(n, m) \/ NotifPoll(n, m)
  BY <1>1, QuietFit DEF NotifCreate, NotifWaitTake, NotifPoll, InUser
<1>2. CASE NotifSignal(n, m)
  BY <1>2, SignalFit, ReturnOnlyFit DEF NotifSignal, InUser
<1>3. CASE IrqDispatch(n, m)
  BY <1>3, SignalFit DEF IrqDispatch
<1> QED
  BY <1>1, <1>2, <1>3

LEMMA NotifWaitBlockFit ==
  ASSUME CoreInv, FitInv, NEW n \in Notifs, NEW m, NEW cb \in {"none", "wait"},
         NotifWaitBlock(n, m, cb)
  PROVE  FitInv'
<1>1. TypeInv /\ phase = "user" /\ Return("notif_wait", "OK")
  BY DEF CoreInv, NotifWaitBlock, InUser
<1>2. PICK c : c = current
  OBVIOUS
<1>3. c \in AllThreads /\ outptr[c] = {} /\ timer[c] = "none"
  BY <1>1, <1>2, CallerIsClean
<1>4. state'[c] = "BLOCKED" /\ reason'[c] = "NOTIF" /\ status'[c] = "OK"
  BY <1>1, <1>2, <1>3, TypeFacts, FieldTypes DEF NotifWaitBlock
<1>5. outptr'[c] = {"bits"}
  BY <1>1, <1>2, <1>3, FieldTypes DEF NotifWaitBlock
<1>6. timer'[c] \in {"none", "wait"}
  BY <1>1, <1>2, <1>3, TypeFacts DEF NotifWaitBlock
<1>7. TimerServesWait(c)' /\ ~MustBeLinked(c)'
  BY <1>4, <1>6, TimerArmed DEF MustBeLinked
<1>8. Settled(c)'
  BY <1>1, <1>2, <1>4, <1>5, <1>7, PointerValues, CallerWaits
<1>9. OthersSame({c})
  BY <1>1, <1>2, <1>3, FieldTypes, TypeFacts DEF NotifWaitBlock, Return, OthersSame, Same
<1>10. LinksKept({c}) /\ OpenOrKept
  BY QueuesQuiet DEF NotifWaitBlock
<1> QED
  BY <1>1, <1>3, <1>8, <1>9, <1>10, FitFrame DEF Return

LEMMA NotifDestroyFit ==
  ASSUME CoreInv, FitInv, NEW n \in Notifs, NotifDestroy(n)
  PROVE  FitInv'
<1>1. TypeInv /\ phase = "user"
  BY DEF CoreInv, NotifDestroy, InUser
<1>2. CASE ReturnOnly("notif_destroy", "EINVAL")
  BY <1>1, <1>2, ReturnOnlyFit
<1>3. CASE ntActive[n] /\ waiter[n] = Null
  <2>1. /\ Return("notif_destroy", "OK")
        /\ UNCHANGED <<state, reason, timer, status, wakeRet, outptr, taken, ep>>
    BY <1>3 DEF NotifDestroy, ReturnOnly
  <2> QED
    BY <1>1, <2>1, QuietFit
<1>4. CASE ntActive[n] /\ waiter[n] # Null
  <2>1. PICK w : w = waiter[n]
    OBVIOUS
  <2>2. w \in AllThreads /\ state[w] = "BLOCKED"
    BY <1>4, <2>1, SlotFacts
  <2>3. /\ DestroyWakesWaiter(w) /\ Return("notif_destroy", "OK")
        /\ UNCHANGED <<outptr, wakeRet, taken, epActive, current>>
    BY <1>4, <2>1 DEF NotifDestroy, ReturnOnly
  <2>4. /\ state' = [state EXCEPT ![w] = "READY"]
        /\ reason' = [reason EXCEPT ![w] = "NONE"]
        /\ timer' = [timer EXCEPT ![w] = "none"]
        /\ status' = [status EXCEPT ![w] = "EINVAL"]
        /\ sendQ' \in {sendQ, UnlinkIpc(sendQ, w)}
        /\ recvQ' \in {recvQ, UnlinkIpc(recvQ, w)}
    BY <2>3 DEF DestroyWakesWaiter, Disarm
  <2>5. status'[w] # "OK" /\ \A x \in AllThreads \ {w} : status'[x] = status[x]
    BY <1>1, <2>2, <2>4, FieldTypes
  <2>6. /\ LinksKept({w})
        /\ \A x \in Eps : /\ Range(sendQ'[x]) \subseteq Range(sendQ[x])
                          /\ Range(recvQ'[x]) \subseteq Range(recvQ[x])
    BY <2>2, <2>4, UnlinkKeeps
  <2> QED
    BY <1>1, <2>2, <2>3, <2>4, <2>5, <2>6, WakeFit
<1> QED
  BY <1>2, <1>3, <1>4 DEF NotifDestroy

-----------------------------------------------------------------------------
(* Timed waits and threads.                                                 *)

LEMMA SleepFit ==
  ASSUME CoreInv, FitInv, NEW valid, Sleep(valid)
  PROVE  FitInv'
<1>1. TypeInv /\ phase = "user"
  BY DEF CoreInv, Sleep, InUser
<1>2. CASE SleepBlock
  <2>1. PICK c : c = current
    OBVIOUS
  <2>2. c \in AllThreads /\ outptr[c] = {}
    BY <1>1, <2>1, CallerIsClean
  <2>3. /\ state'[c] = "BLOCKED" /\ reason'[c] = "SLEEP" /\ status'[c] = "OK"
        /\ timer'[c] = "sleep" /\ outptr'[c] = {} /\ Return("sleep", "OK")
    BY <1>1, <1>2, <2>1, <2>2, TypeFacts, FieldTypes DEF SleepBlock
  <2>4. TimerServesWait(c)' /\ ~MustBeLinked(c)'
    BY <2>3, TimerArmed DEF MustBeLinked
  <2>5. Settled(c)'
    BY <1>1, <2>1, <2>3, <2>4, PointerValues, CallerWaits
  <2>6. OthersSame({c})
    BY <1>1, <1>2, <2>1, <2>2, FieldTypes, TypeFacts DEF SleepBlock, Return, OthersSame, Same
  <2>7. LinksKept({c}) /\ OpenOrKept
    BY <1>2, QueuesQuiet DEF SleepBlock
  <2> QED
    BY <1>1, <2>2, <2>3, <2>5, <2>6, <2>7, FitFrame DEF Return
<1>3. CASE ReturnOnly("sleep", "EINVAL")
  BY <1>1, <1>3, ReturnOnlyFit
<1> QED
  BY <1>2, <1>3 DEF Sleep

LEMMA SleepCancelFit ==
  ASSUME CoreInv, FitInv, NEW t \in Threads, SleepCancel(t)
  PROVE  FitInv'
<1>1. TypeInv /\ phase = "user" /\ t \in AllThreads
  BY DEF CoreInv, SleepCancel, InUser, AllThreads
<1>2. CASE Sleeping(t) /\ CancelSleep(t)
  <2>1. /\ state' = [state EXCEPT ![t] = "READY"]
        /\ reason' = [reason EXCEPT ![t] = "NONE"]
        /\ timer' = [timer EXCEPT ![t] = "none"]
        /\ status' = [status EXCEPT ![t] = "ECANCELED"]
        /\ Return("sleep_cancel", "OK")
        /\ UNCHANGED <<outptr, wakeRet, taken, ep, current>>
    BY <1>2 DEF CancelSleep, Disarm
  <2>2. status'[t] # "OK" /\ \A x \in AllThreads \ {t} : status'[x] = status[x]
    BY <1>1, <2>1, FieldTypes
  <2>3. /\ LinksKept({t})
        /\ \A x \in Eps : /\ Range(sendQ'[x]) \subseteq Range(sendQ[x])
                          /\ Range(recvQ'[x]) \subseteq Range(recvQ[x])
    BY <2>1, QueuesQuiet
  <2> QED
    BY <1>1, <1>2, <2>1, <2>2, <2>3, WakeFit DEF Sleeping
<1>3. CASE \E r : ReturnOnly("sleep_cancel", r)
  BY <1>1, <1>3, ReturnOnlyFit
<1> QED
  BY <1>2, <1>3 DEF SleepCancel

LEMMA TimerFireFit ==
  ASSUME CoreInv, FitInv, NEW t \in Threads, TimerFire(t)
  PROVE  FitInv'
<1>1. TypeInv /\ t \in AllThreads /\ timer[t] # "none" /\ phase \in {"user", "isr"}
  BY DEF CoreInv, TimerFire, AllThreads
<1>2. CallbackApplies(t) /\ state[t] = "BLOCKED"
  BY <1>1, CallbackMeans DEF FitInv, Settled, TimerServesWait
<1>3. TimeoutWakes(t)
  BY <1>2 DEF TimerFire
<1>4. /\ state' = [state EXCEPT ![t] = "READY"]
      /\ reason' = [reason EXCEPT ![t] = "NONE"]
      /\ timer' = [timer EXCEPT ![t] = "none"]
      /\ status' = [status EXCEPT ![t] = IF timer[t] = "sleep" THEN "OK" ELSE "ETIMEOUT"]
      /\ sendQ' \in {sendQ, UnlinkIpc(sendQ, t)}
      /\ recvQ' \in {recvQ, UnlinkIpc(recvQ, t)}
      /\ phase' = "isr"
      /\ UNCHANGED <<outptr, wakeRet, taken, epActive, current, op, ret>>
  BY <1>3 DEF TimerFire, TimeoutWakes
<1>5. \A x \in AllThreads \ {t} : status'[x] = status[x]
  BY <1>1, <1>4, FieldTypes
<1>6. \/ status'[t] # "OK"
      \/ outptr'[t] = {} /\ (reason[t] = "CALL" => taken[t] # Null)
  <2>1. CASE timer[t] # "sleep"
    BY <1>1, <1>4, <2>1, FieldTypes
  <2>2. CASE timer[t] = "sleep"
    <3>1. reason[t] = "SLEEP"
      BY <1>2, <2>2, CallbackMeans DEF Sleeping
    <3>2. outptr[t] = {}
      BY <1>1, <1>2, <3>1, PointerValues DEF FitInv, Settled, WaitIsOpen, PointersServeWait
    <3> QED
      BY <1>4, <3>1, <3>2
  <2> QED
    BY <2>1, <2>2
<1>7. /\ LinksKept({t})
      /\ \A x \in Eps : /\ Range(sendQ'[x]) \subseteq Range(sendQ[x])
                        /\ Range(recvQ'[x]) \subseteq Range(recvQ[x])
  BY <1>1, <1>4, UnlinkKeeps
<1> QED
  BY <1>1, <1>2, <1>4, <1>5, <1>6, <1>7, WakeFit

LEMMA SpawnFit ==
  ASSUME CoreInv, FitInv, NEW t \in Threads, NEW p \in Prio, Spawn(t, p)
  PROVE  FitInv'
<1>1. TypeInv /\ phase = "user" /\ t \in AllThreads
  BY DEF CoreInv, Spawn, InUser, AllThreads
<1>2. PICK c : c = current
  OBVIOUS
<1>3. c \in AllThreads /\ state[c] = "RUNNING"
  BY <1>1, <1>2, CallerIsClean
<1>4. state[t] = "DEAD"
  BY <1>1 DEF Spawn, CoreInv, CpuInv, FreedIsDead
<1>5. ThreadInit(t, p) /\ t # c
  BY <1>1, <1>3, <1>4, UnblockedIsFree DEF Spawn
<1>6. /\ state' = [state EXCEPT ![t] = "READY"]
      /\ reason' = [reason EXCEPT ![t] = "NONE"]
      /\ timer' = [timer EXCEPT ![t] = "none"]
      /\ status' = [status EXCEPT ![t] = "OK"]
      /\ wakeRet' = [wakeRet EXCEPT ![t] = FALSE]
      /\ outptr' = [outptr EXCEPT ![t] = {}]
      /\ taken' = [taken EXCEPT ![t] = Null]
      /\ op' = [op EXCEPT ![t] = "none", ![c] = "spawn"]
      /\ ret' = [ret EXCEPT ![t] = "OK", ![c] = "OK"]
      /\ phase' = "syscall"
      /\ UNCHANGED ep
  BY <1>2, <1>5 DEF ThreadInit
<1>7. /\ state'[t] = "READY" /\ reason'[t] = "NONE" /\ timer'[t] = "none"
      /\ status'[t] = "OK" /\ wakeRet'[t] = FALSE /\ outptr'[t] = {} /\ op'[t] = "none"
      /\ op'[c] = "spawn"
      /\ state'[c] = state[c] /\ reason'[c] = reason[c] /\ timer'[c] = timer[c]
      /\ status'[c] = status[c] /\ outptr'[c] = outptr[c]
  BY <1>1, <1>3, <1>5, <1>6, TypeFacts, FieldTypes
<1>8. Settled(t)'
  BY <1>7, PointerValues DEF Settled, WaitIsOpen, ResultsConsumed, TimerServesWait,
     PointersServeWait, AnsweredIfOver, MustBeLinked
<1>9. Settled(c)'
  <2>1. /\ state'[c] = "RUNNING" /\ reason'[c] = "NONE" /\ timer'[c] = "none" /\ outptr'[c] = {}
        /\ op'[c] = "spawn"
    BY <1>1, <1>2, <1>3, <1>7, CallerIsClean
  <2> QED
    BY <2>1, PointerValues, ZenonT(30) DEF Settled, WaitIsOpen, ResultsConsumed, TimerServesWait,
       PointersServeWait, AnsweredIfOver, MustBeLinked
<1>10. OthersSame({t, c})
  BY <1>1, <1>3, <1>6, FieldTypes, TypeFacts DEF OthersSame, Same
<1>11. LinksKept({t, c}) /\ OpenOrKept
  BY <1>6, QueuesQuiet
<1> QED
  BY <1>1, <1>3, <1>6, <1>8, <1>9, <1>10, <1>11, FitFrame

LEMMA SetPrioFit ==
  ASSUME CoreInv, FitInv, NEW t \in Threads, NEW p \in Prio, SetPrio(t, p)
  PROVE  FitInv'
<1>1. phase = "user"
  BY DEF SetPrio, InUser
<1> QED
  BY <1>1, ReturnOnlyFit, QuietFit DEF SetPrio, SetPrioLive

LEMMA YieldFit ==
  ASSUME CoreInv, FitInv, Yield
  PROVE  FitInv'
<1>1. TypeInv /\ phase = "user" /\ Return("yield", "OK")
  BY DEF CoreInv, Yield, InUser
<1>2. PICK c : c = current
  OBVIOUS
<1>3. c \in AllThreads
  BY <1>1, <1>2, CallerIsClean
<1>4. state'[c] = "READY"
  BY <1>1, <1>2, <1>3, TypeFacts DEF Yield
<1>5. Settled(c)'
  BY <1>1, <1>2, <1>4, CallerReturns DEF Yield
<1>6. OthersSame({c})
  BY <1>1, <1>2, <1>3, FieldTypes, TypeFacts DEF Yield, Return, OthersSame, Same
<1>7. LinksKept({c}) /\ OpenOrKept
  BY QueuesQuiet DEF Yield
<1> QED
  BY <1>1, <1>3, <1>5, <1>6, <1>7, FitFrame DEF Return

(* A DEAD thread that is inside of a call and has no timer is settled.      *)
LEMMA DeadSettles ==
  ASSUME NEW t, state'[t] = "DEAD", timer'[t] = "none",
         op'[t] = "none" => status'[t] = "OK" /\ ~wakeRet'[t]
  PROVE  Settled(t)'
  BY DEF Settled, WaitIsOpen, ResultsConsumed, TimerServesWait,
     PointersServeWait, AnsweredIfOver, MustBeLinked

(* The timer of a corpse is disarmed already.                               *)
LEMMA FreedTimersSame ==
  ASSUME CoreInv, FitInv, NEW d, d \in AllThreads => state[d] # "BLOCKED"
  PROVE  FreedTimers(d) = timer
<1>1. timer \in [AllThreads -> Timers]
  BY TypeFacts DEF CoreInv
<1>2. d \in AllThreads => timer[d] = "none"
  BY CallbackMeans DEF FitInv, Settled, TimerServesWait
<1> QED
  BY <1>1, <1>2 DEF FreedTimers

LEMMA ExitFit ==
  ASSUME CoreInv, FitInv, Exit
  PROVE  FitInv'
<1>1. TypeInv /\ phase = "user" /\ Return("exit", "OK")
  BY DEF CoreInv, Exit, InUser
<1>2. PICK c : c = current
  OBVIOUS
<1>3. c \in AllThreads /\ timer[c] = "none"
  BY <1>1, <1>2, CallerIsClean
<1>4. dead \in AllThreads => state[dead] # "BLOCKED"
  BY IdleNull DEF CoreInv, CpuInv, CorpseAccounted
<1>5. UNCHANGED timer
  BY <1>4, FreedTimersSame DEF Exit
<1>6. state'[c] = "DEAD" /\ op'[c] = "exit"
  BY <1>1, <1>2, <1>3, TypeFacts, FieldTypes DEF Exit, Return
<1>7. Settled(c)'
  BY <1>3, <1>5, <1>6, DeadSettles
<1>8. OthersSame({c})
  BY <1>1, <1>2, <1>3, <1>5, FieldTypes, TypeFacts DEF Exit, Return, OthersSame, Same
<1>9. LinksKept({c}) /\ OpenOrKept
  BY QueuesQuiet DEF Exit
<1> QED
  BY <1>1, <1>3, <1>7, <1>8, <1>9, FitFrame DEF Return

(* The victim, the caller it holds and the killer are settled.              *)
LEMMA KillFit ==
  ASSUME CoreInv, FitInv, NEW t \in Threads, Kill(t)
  PROVE  FitInv'
<1>1. TypeInv /\ phase = "user" /\ t \in AllThreads
  BY DEF CoreInv, Kill, InUser, AllThreads
<1>2. CASE ReturnOnly("kill", "ESRCH")
  BY <1>1, <1>2, ReturnOnlyFit
<1>3. CASE Alive(t) /\ KillLocal(t)
  <2>1. PICK c, k, P : c = ipcSender[t] /\ k = current /\ P = KillPeer(t)
    OBVIOUS
  <2>2. P # {} => P = {c} /\ c \in AllThreads /\ state[c] = "BLOCKED" /\ reason[c] = "CALL"
    BY <1>1, <2>1, KillPeerFacts
  <2>3. k \in AllThreads /\ state[k] = "RUNNING" /\ k \notin P
    BY <1>1, <2>1, <2>2, CallerIsClean
  <2>4. state[t] # "DEAD" /\ dead # t
    BY <1>3, IdleNull DEF Alive, CoreInv, CpuInv, CorpseAccounted
  <2>5. /\ sendQ' = KillUnlink(sendQ, t, P, c)
        /\ recvQ' = KillUnlink(recvQ, t, P, c)
    BY <1>3, <2>1 DEF KillLocal, KillUnlink
  <2>6. /\ state' = [Put(state, P, "READY") EXCEPT ![t] = "DEAD"]
        /\ reason' = Put(reason, P, "NONE")
        /\ status' = Put(status, P, "ESRCH")
        /\ timer' = Put(FreedTimers(IF t = k THEN dead ELSE t), P \cup {t}, "none")
        /\ Return("kill", "OK")
        /\ UNCHANGED <<outptr, wakeRet, taken, epActive>>
    BY <1>3, <2>1 DEF KillLocal
  <2>7. \A x \in AllThreads :
          /\ state'[x] = IF x = t THEN "DEAD" ELSE IF x \in P THEN "READY" ELSE state[x]
          /\ reason'[x] = IF x \in P THEN "NONE" ELSE reason[x]
          /\ status'[x] = IF x \in P THEN "ESRCH" ELSE status[x]
    BY <1>1, <2>6, TypeFacts, FieldTypes DEF Put
  <2>8. \A x \in AllThreads : timer'[x] = IF x \in P \cup {t} THEN "none" ELSE timer[x]
    <3>1. dead \in AllThreads => state[dead] # "BLOCKED"
      BY IdleNull DEF CoreInv, CpuInv, CorpseAccounted
    <3>2. FreedTimers(dead) = timer
      BY <3>1, FreedTimersSame
    <3>3. DOMAIN FreedTimers(t) = AllThreads /\ DOMAIN timer = AllThreads
          /\ \A x \in AllThreads \ {t} : FreedTimers(t)[x] = timer[x]
      BY <1>1, TypeFacts DEF FreedTimers
    <3>4. CASE t = k
      BY <2>6, <3>2, <3>3, <3>4 DEF Put
    <3>5. CASE t # k
      BY <2>6, <3>3, <3>5 DEF Put
    <3> QED
      BY <3>4, <3>5
  <2>9. /\ \A x \in AllThreads \ {k} : op'[x] = op[x] /\ ret'[x] = ret[x]
        /\ op'[k] = "kill" /\ phase' = "syscall"
    BY <1>1, <2>1, <2>3, <2>6, FieldTypes DEF Return
  <2>10. Settled(t)'
    <3>1. t # k /\ op[t] = "none" => status[t] = "OK" /\ ~wakeRet[t] /\ t \notin P
      BY <1>1, <2>2 DEF FitInv, Settled, ResultsConsumed, WaitIsOpen
    <3> QED
      BY <1>1, <2>6, <2>7, <2>8, <2>9, <3>1, DeadSettles
  <2>11. k # t => Settled(k)'
    BY <1>1, <2>1, <2>3, <2>6, <2>7, <2>8, CallerReturns
  <2>12. ASSUME NEW x \in P, x # t
         PROVE  Settled(x)'
    <3>1. x \in AllThreads /\ state[x] = "BLOCKED" /\ x # k
      BY <2>2, <2>3, <2>12
    <3>2. /\ state'[x] = "READY" /\ reason'[x] = "NONE" /\ status'[x] = "ESRCH"
          /\ timer'[x] = "none"
      BY <2>7, <2>8, <2>12, <3>1
    <3>3. op'[x] = op[x] /\ ret'[x] = ret[x] /\ taken'[x] = taken[x]
      BY <2>6, <2>9, <3>1
    <3>4. status'[x] # "OK"
      BY <3>2
    <3> QED
      BY <3>1, <3>2, <3>3, <3>4, WokenSettles
  <2>13. OthersSame({t, k} \cup P)
    BY <2>6, <2>7, <2>8, <2>9 DEF OthersSame, Same
  <2>14. KillLeaves(sendQ, t) /\ KillLeaves(recvQ, t) /\ KillPeers(P, c)
    BY <2>2, NullAssumption
     DEF CoreInv, WaitInv, QueuedAreBlocked, CallersAt, ReceiversAt, KillLeaves, KillPeers
  <2>15. /\ \A e \in Eps : /\ IsInjective(sendQ'[e])
                           /\ Range(sendQ'[e]) = Range(sendQ[e]) \ ({t} \cup P)
         /\ \A e \in Eps : /\ IsInjective(recvQ'[e])
                           /\ Range(recvQ'[e]) = Range(recvQ[e]) \ ({t} \cup P)
    <3>1. sendQ \in Queues /\ recvQ \in Queues
      BY AreQueues
    <3>2. \A e \in Eps : /\ IsInjective(KillUnlink(sendQ, t, P, c)[e])
                         /\ Range(KillUnlink(sendQ, t, P, c)[e]) = Range(sendQ[e]) \ ({t} \cup P)
      BY <1>1, <2>14, <3>1, KillUnlinks
    <3>3. \A e \in Eps : /\ IsInjective(KillUnlink(recvQ, t, P, c)[e])
                         /\ Range(KillUnlink(recvQ, t, P, c)[e]) = Range(recvQ[e]) \ ({t} \cup P)
      BY <1>1, <2>14, <3>1, KillUnlinks
    <3> QED
      BY <2>5, <3>2, <3>3
  <2>16. LinksKept({t, k} \cup P) /\ OpenOrKept
    BY <1>1, <2>6, <2>15, FieldTypes DEF LinksKept, OpenOrKept
  <2>17. {t, k} \cup P \in SUBSET AllThreads
    BY <1>1, <2>2, <2>3
  <2> QED
    BY <1>1, <2>9, <2>10, <2>11, <2>12, <2>13, <2>16, <2>17, FitFrame
<1> QED
  BY <1>2, <1>3 DEF Kill

-----------------------------------------------------------------------------
(* Trap exit.                                                               *)

(* The dispatch moves threads between READY and RUNNING and nowhere else,   *)
(* and frees no timer that is on the wheel.                                 *)
LEMMA DispatchMoves ==
  ASSUME CoreInv, FitInv, TrapDispatch, NEW W,
         W = {t \in AllThreads : state[t] \in {"READY", "RUNNING"}}
  PROVE  /\ UNCHANGED timer
         /\ \A t \in W : state'[t] \in {"READY", "RUNNING"}
         /\ \A t \in AllThreads \ W : state'[t] = state[t]
<1>1. /\ TypeInv /\ phase \in {"syscall", "isr"}
      /\ UNCHANGED <<ep, reason, status, wakeRet, outptr, op, ret, taken>>
  BY DEF CoreInv, TrapDispatch, DispatchStay, DispatchSwitch, DispatchPreempt, AtTrapExit
<1>2. UNCHANGED timer
  <2>1. Corpse \in AllThreads => state[Corpse] # "BLOCKED"
    BY IdleNull DEF Corpse, CoreInv, CpuInv, CorpseAccounted
  <2> QED
    BY <2>1, FreedTimersSame DEF TrapDispatch, DispatchStay, DispatchSwitch, DispatchPreempt
<1>3. /\ \A t \in W : state'[t] \in {"READY", "RUNNING"}
      /\ \A t \in AllThreads \ W : state'[t] = state[t]
  <2>1. CASE DispatchStay
    BY <2>1 DEF DispatchStay
  <2>2. CASE DispatchSwitch
    <3>1. /\ current' \in AllThreads
          /\ state[current'] \in {"READY", "RUNNING"}
          /\ state' = [state EXCEPT ![current'] = "RUNNING"]
      <4>1. /\ rq \in RqType /\ state \in [AllThreads -> States]
            /\ RqMatches(rq, prio, state) /\ state[Idle] \in {"READY", "RUNNING"}
        BY <1>1, TypeFacts DEF CoreInv, CpuInv, RunnableWaitsForNothing
      <4> QED
        BY <2>2, <4>1, SwitchCore DEF TrapDispatch, DispatchSwitch
    <3> QED
      BY <1>1, <3>1, TypeFacts
  <2>3. CASE DispatchPreempt
    <3> DEFINE st == [state EXCEPT ![current] = "READY"]
               q  == RqEnqueue(rq, current, prio[current])
    <3>1. /\ state \in [AllThreads -> States] /\ rq \in RqType /\ current \in AllThreads
          /\ prio \in [AllThreads -> Prio]
          /\ state[Idle] \in {"READY", "RUNNING"} /\ state[current] = "RUNNING"
          /\ RqMatches(rq, prio, state)
      BY <2>3, TypeFacts DEF CoreInv, CpuInv, RunnableWaitsForNothing, DispatchPreempt
    <3>2. SwitchFrom(q, st) /\ UNCHANGED prio
      BY <2>3, <3>1, RqDequeueUnlinked DEF TrapDispatch, DispatchPreempt
    <3>3. q \in RqType /\ st \in [AllThreads -> States]
      BY <3>1, RqEnqueueType DEF States
    <3>4. /\ st[Idle] \in {"READY", "RUNNING"} /\ st[current] = "READY"
          /\ \A x \in AllThreads \ {current} : st[x] = state[x]
      BY <3>1, IdleNull
    <3> HIDE DEF st
    <3>5. RqMatches(q, prio, st)
      BY <3>1, <3>4, RqEnqueueMatches
    <3> HIDE DEF q
    <3>6. /\ current' \in AllThreads /\ st[current'] \in {"READY", "RUNNING"}
          /\ state' = [st EXCEPT ![current'] = "RUNNING"]
      BY <3>2, <3>3, <3>4, <3>5, SwitchCore
    <3> QED
      BY <3>1, <3>3, <3>4, <3>6
  <2> QED
    BY <2>1, <2>2, <2>3 DEF TrapDispatch
<1> QED
  BY <1>2, <1>3

LEMMA TrapDispatchFit ==
  ASSUME CoreInv, FitInv, TrapDispatch
  PROVE  FitInv'
<1>1. /\ TypeInv /\ phase \in {"syscall", "isr"}
      /\ UNCHANGED <<ep, reason, status, wakeRet, outptr, op, ret, taken>>
  BY DEF CoreInv, TrapDispatch, DispatchStay, DispatchSwitch, DispatchPreempt, AtTrapExit
<1>3. PICK W : W = {t \in AllThreads : state[t] \in {"READY", "RUNNING"}}
  OBVIOUS
<1>2. UNCHANGED timer
  BY <1>3, DispatchMoves
<1>4. /\ \A t \in W : state'[t] \in {"READY", "RUNNING"}
      /\ \A t \in AllThreads \ W : state'[t] = state[t]
  BY <1>3, DispatchMoves
<1>5. ASSUME NEW t \in W
      PROVE  Settled(t)'
  <2>1. Settled(t) /\ timer[t] = "none" /\ state'[t] \in {"READY", "RUNNING"}
    BY <1>3, <1>4, CallbackMeans DEF FitInv, Settled, TimerServesWait
  <2> QED
    BY <1>1, <1>2, <1>3, <2>1 DEF Settled, WaitIsOpen, ResultsConsumed, TimerServesWait,
       PointersServeWait, AnsweredIfOver, MustBeLinked
<1>6. OthersSame(W)
  BY <1>1, <1>2, <1>4 DEF OthersSame, Same
<1>7. LinksKept(W) /\ OpenOrKept
  BY <1>1, QueuesQuiet
<1>8. phase' = AfterTrap(current')
  BY DEF TrapDispatch, DispatchStay, DispatchSwitch, DispatchPreempt, SwitchFrom
<1>9. phase' # "destroy" /\ (phase' \in {"user", "recv"} => op'[current'] = "none")
  BY <1>1, <1>8 DEF AfterTrap
<1> QED
  BY <1>1, <1>3, <1>5, <1>6, <1>7, <1>9, FitFrame

LEMMA SyscallRetResolveFit ==
  ASSUME CoreInv, FitInv, SyscallRetResolve
  PROVE  FitInv'
<1>1. TypeInv /\ phase = "resolve" /\ phase' = "user" /\ UNCHANGED current
  BY DEF CoreInv, SyscallRetResolve
<1>2. PICK c : c = current
  OBVIOUS
<1>3. c \in AllThreads /\ state[c] = "RUNNING" /\ reason[c] = "NONE" /\ Settled(c)
  BY <1>1, <1>2, TypeFacts DEF CoreInv, CpuInv, RunsOnCpu, RunnableWaitsForNothing, FitInv
<1>4. timer[c] = "none" /\ (status[c] = "OK" => outptr[c] = {})
  BY <1>3, CallbackMeans, PointerValues DEF Settled, TimerServesWait, PointersServeWait
<1>5. /\ status'[c] = "OK" /\ wakeRet'[c] = FALSE /\ op'[c] = "none"
      /\ outptr'[c] = {} /\ timer'[c] = "none" /\ state'[c] = "RUNNING"
      /\ reason'[c] = "NONE"
  BY <1>1, <1>2, <1>3, <1>4, FieldTypes DEF SyscallRetResolve, ResolvedWake, ResolvedPtrs
<1>6. Settled(c)'
  BY <1>5, PointerValues DEF Settled, WaitIsOpen, ResultsConsumed, TimerServesWait,
     PointersServeWait, AnsweredIfOver, MustBeLinked
<1>7. OthersSame({c})
  BY <1>1, <1>2, <1>3, FieldTypes, TypeFacts
     DEF SyscallRetResolve, ResolvedWake, ResolvedPtrs, OthersSame, Same
<1>8. LinksKept({c}) /\ OpenOrKept
  BY QueuesQuiet DEF SyscallRetResolve
<1> QED
  BY <1>1, <1>2, <1>3, <1>5, <1>6, <1>7, <1>8, FitFrame

-----------------------------------------------------------------------------

LEMMA InitFit == Init => FitInv
<1> SUFFICES ASSUME Init
             PROVE  FitInv
  OBVIOUS
<1>1. ASSUME NEW t \in AllThreads
      PROVE  Settled(t)
  <2>1. /\ state[t] # "BLOCKED" /\ op[t] = "none" /\ status[t] = "OK" /\ ~wakeRet[t]
        /\ timer[t] = "none" /\ outptr[t] = {} /\ reason[t] = "NONE"
    BY DEF Init
  <2> QED
    BY <2>1, PointerValues DEF Settled, WaitIsOpen, ResultsConsumed, TimerServesWait,
       PointersServeWait, AnsweredIfOver, MustBeLinked
<1>2. \A e \in Eps : Empty(e)
  BY EmptyListRange DEF Init, Empty
<1>3. Root \in AllThreads
  BY RootAssumption DEF AllThreads
<1> QED
  BY <1>1, <1>2, <1>3 DEF Init, FitInv, ClosedIsEmpty, DestroyedIsClosed, UserHasNoCall

LEMMA SyscallFit ==
  ASSUME CoreInv, FitInv, Syscall
  PROVE  FitInv'
<1>1. CASE \E e \in Eps :
             \/ EpCreate(e) \/ EpRecv(e) \/ EpDestroy(e)
             \/ \E cb \in {"none", "call"} : EpCallQueue(e, cb) \/ EpCallDeliver(e, cb)
             \/ \E n \in Notifs, m \in Masks : EpRecvOrNotif(e, n, m)
  BY <1>1, EpCreateFit, EpRecvFit, EpDestroyFit, EpCallQueueFit, EpCallDeliverFit,
     EpRecvOrNotifFit
<1>2. CASE \E n \in Notifs :
             \/ NotifCreate(n) \/ NotifDestroy(n)
             \/ \E m \in Masks :
                  \/ NotifSignal(n, m) \/ NotifWaitTake(n, m) \/ NotifPoll(n, m)
                  \/ \E cb \in {"none", "wait"} : NotifWaitBlock(n, m, cb)
  BY <1>2, NotifCallsFit, NotifDestroyFit, NotifWaitBlockFit
<1>3. CASE \/ \E e \in Eps, valid \in BOOLEAN : EpCallRefused(e, valid)
           \/ \E n \in Notifs, valid \in BOOLEAN : NotifWaitRefused(n, valid)
  BY <1>3, ReturnOnlyFit DEF EpCallRefused, NotifWaitRefused, InUser
<1>4. CASE \/ \E valid \in BOOLEAN : Sleep(valid)
           \/ \E t \in Threads : SleepCancel(t) \/ Kill(t)
           \/ \E t \in Threads, p \in Prio : Spawn(t, p) \/ SetPrio(t, p)
           \/ Yield \/ Exit
  BY <1>4, SleepFit, SleepCancelFit, KillFit, SpawnFit, SetPrioFit, YieldFit, ExitFit
<1> QED
  BY <1>1, <1>2, <1>3, <1>4, Zenon DEF Syscall

LEMMA FitStep ==
  ASSUME CoreInv, FitInv, [CoreNext]_vars
  PROVE  FitInv'
<1>1. CASE Syscall
  BY <1>1, SyscallFit
<1>2. CASE Replies(ReplySafe)
  BY <1>2, EpReplyFit, EpReplyRecvFit DEF Replies
<1>3. CASE Interrupt
  BY <1>3, TimerFireFit, NotifCallsFit DEF Interrupt
<1>4. CASE KernelStep
  BY <1>4, EpReplyRecvTailFit, EpDestroyNextFit, TrapDispatchFit, SyscallRetResolveFit
     DEF KernelStep
<1>5. CASE UNCHANGED vars
  <2>1. OthersSame({}) /\ LinksKept({})
    BY <1>5, QueuesQuiet DEF vars, OthersSame, Same
  <2>2. \A t \in AllThreads : Settled(t)'
    BY <2>1, SettledFrame
  <2>3. ClosedIsEmpty' /\ DestroyedIsClosed' /\ UserHasNoCall'
    BY <1>5 DEF vars, FitInv, ClosedIsEmpty, Empty, DestroyedIsClosed, UserHasNoCall
  <2> QED
    BY <2>2, <2>3 DEF FitInv
<1> QED
  BY <1>1, <1>2, <1>3, <1>4, <1>5 DEF CoreNext, IdleLoop

(* The inductive invariant, on top of CoreInv.                              *)
THEOREM FitInvariant == CoreSpec => [](CoreInv /\ FitInv)
<1>1. Init => FitInv
  BY InitFit
<1>2. CoreInv /\ FitInv /\ [CoreNext]_vars => FitInv'
  BY FitStep
<1> QED
  BY <1>1, <1>2, CoreInvariant, PTL DEF CoreSpec

(* Endpoint queues hold exactly the threads that wait there: every caller   *)
(* no server has received and every receiver is on a queue, so a message or *)
(* a destroy can find it, and nobody else is.                               *)
THEOREM QueuesExact == CoreSpec => []QueuesMatchWaits
<1>1. CoreInv /\ FitInv => QueuesMatchWaits
  <2> SUFFICES ASSUME CoreInv, FitInv
               PROVE  QueuesMatchWaits
    OBVIOUS
  <2>1. Threads \subseteq AllThreads
    BY DEF AllThreads
  <2> QED
    BY <2>1 DEF CoreInv, WaitInv, QueuedAreBlocked, CallersAt, ReceiversAt, FitInv,
       Settled, MustBeLinked, QueuesMatchWaits
<1> QED
  BY <1>1, FitInvariant, PTL

(* No timeout outlives its wait: a timer on the wheel belongs to a thread   *)
(* still blocked in the wait it was armed for, whichever way waits end.     *)
THEOREM TimersOfWaits == CoreSpec => []TimerMatchesWait
<1>1. FitInv => TimerMatchesWait
  BY DEF FitInv, Settled, TimerServesWait, TimerMatchesWait
<1> QED
  BY <1>1, FitInvariant, PTL

(* What a wait left in the TCB ends with it: no user pointer is kept for a  *)
(* later delivery to write through, and no result for a later call.         *)
THEOREM WaitsLeaveNothing == CoreSpec => []NothingStale
<1>1. CoreInv /\ FitInv => NothingStale
  <2> SUFFICES ASSUME CoreInv, FitInv
               PROVE  NothingStale
    OBVIOUS
  <2>1. NoStalePointer
    BY Zenon DEF FitInv, Settled, PointersServeWait, PointersOf, NoStalePointer
  <2>2. current \in AllThreads
    BY TypeFacts DEF CoreInv
  <2>3. NoStaleResult
    BY <2>2 DEF FitInv, Settled, UserHasNoCall, ResultsConsumed, NoStaleResult
  <2> QED
    BY <2>1, <2>3 DEF NothingStale
<1> QED
  BY <1>1, FitInvariant, PTL

(* A call that returns success was received by a server and is over.        *)
THEOREM CallsReturnAnswered == CoreSpec => []CallReturnsAnswered
<1>1. CoreInv /\ FitInv => CallReturnsAnswered
  <2> SUFFICES ASSUME CoreInv, FitInv, phase = "resolve", op[current] = "ep_call",
                      Returned(current) = "OK", ret[current] = "OK"
               PROVE  taken[current] # Null /\ reason[current] = "NONE"
    BY DEF CallReturnsAnswered
  <2>1. /\ current \in AllThreads /\ state[current] = "RUNNING"
        /\ reason[current] = "NONE" /\ Settled(current)
    BY TypeFacts DEF CoreInv, CpuInv, RunsOnCpu, RunnableWaitsForNothing, FitInv
  <2>2. status[current] = "OK"
    BY DEF Returned
  <2> QED
    BY <2>1, <2>2 DEF Settled, AnsweredIfOver
<1> QED
  BY <1>1, FitInvariant, PTL

-----------------------------------------------------------------------------
(* Priority inheritance and the pairing of calls and answers, proved for    *)
(* the remote procedure calls of MCKernel (RpcSpec): any number of clients, *)
(* servers and backends, any objects, calls without timeouts.               *)
(*                                                                          *)
(* RpcInv relates the history variables to the TCB fields: a server has     *)
(* been handed exactly the callers that are blocked on it, at most one at a *)
(* time, and none while it receives; its priority is its own, or, with a    *)
(* request in hand, saved_prio is.  With it every step of RpcNext is a step *)
(* of CoreNext, so what is shown of CoreSpec holds here too.                *)

(* What s holds: the callers blocked on it, one at most, and the priority   *)
(* to go back to.                                                           *)
HoldsOwnCallers(s) ==
  /\ \A c \in AllThreads : c \in owed[s] <=> AwaitsAnswer(c, s)
  /\ \A c, d \in owed[s] : c = d
  /\ \A c \in owed[s] : prio[s] <= prio[c]
  /\ IF owed[s] = {} THEN prio[s] = base[s] ELSE saved[s] = base[s]

(* Who holds nothing: a thread that receives, the one between the two       *)
(* halves of ep_reply_recv, and one that does not exist.  Root serves       *)
(* nobody, and it alone exits.                                              *)
HoldsNothing(t) ==
  state[t] = "DEAD" \/ reason[t] \in {"RECV", "OR_NOTIF"} \/ t = Root
    => owed[t] = {}

(* No call has a timeout, only blocked threads wait, and Root never         *)
(* receives.                                                                *)
WaitsInRpc(t) ==
  /\ timer[t] \in {"none", "sleep"}
  /\ state[t] # "BLOCKED" => reason[t] = "NONE"
  /\ reason[t] \in {"RECV", "OR_NOTIF"} => t # Root

RpcInv ==
  /\ \A t \in AllThreads : HoldsOwnCallers(t) /\ HoldsNothing(t) /\ WaitsInRpc(t)
  /\ phase = "recv" => owed[current] = {} /\ current # Root /\ arg \in Eps

USE DEF sched, ep, notif, prios, block, resume, ghost

-----------------------------------------------------------------------------
(* The shapes of steps.                                                     *)

LEMMA HistoryTypes ==
  ASSUME TypeInv
  PROVE  /\ owed \in [AllThreads -> SUBSET AllThreads]
         /\ base \in [AllThreads -> Prio]
         /\ taken \in [AllThreads -> AllThreads \cup {Null}]
  BY DEF TypeInv, TypeOK, HistoryType

(* Nothing that concerns what s holds changes.                              *)
LEMMA HoldsFrame ==
  ASSUME TypeInv, RpcInv, NEW s \in AllThreads,
         owed'[s] = owed[s], prio'[s] = prio[s], saved'[s] = saved[s],
         base'[s] = base[s],
         \A c \in AllThreads : AwaitsAnswer(c, s)' <=> AwaitsAnswer(c, s),
         \A c \in owed[s] : prio'[c] = prio[c]
  PROVE  HoldsOwnCallers(s)'
<1>1. HoldsOwnCallers(s)
  BY DEF RpcInv
<1> QED
  BY <1>1 DEF HoldsOwnCallers

(* The step hands over no request, answers none and changes no priority.    *)
LEMMA RpcFrame ==
  ASSUME TypeInv, RpcInv, UNCHANGED <<prio, saved, base, owed>>,
         \A c, s \in AllThreads : AwaitsAnswer(c, s)' <=> AwaitsAnswer(c, s),
         \A t \in AllThreads : HoldsNothing(t)' /\ WaitsInRpc(t)',
         phase' = "recv" => owed[current'] = {} /\ current' # Root /\ arg' \in Eps
  PROVE  RpcInv'
<1>1. ASSUME NEW s \in AllThreads
      PROVE  HoldsOwnCallers(s)'
  BY HoldsFrame
<1> QED
  BY <1>1 DEF RpcInv

(* Threads stay where they were, or move between READY and RUNNING.         *)
Steady(t) ==
  /\ state'[t] = state[t] \/ {state[t], state'[t]} \subseteq {"READY", "RUNNING"}
  /\ reason'[t] = reason[t] /\ timer'[t] = timer[t]
  /\ state[t] = "BLOCKED" => taken'[t] = taken[t]

LEMMA RpcQuiet ==
  ASSUME TypeInv, RpcInv, UNCHANGED <<prio, saved, base, owed>>,
         \A t \in AllThreads : Steady(t), phase' # "recv"
  PROVE  RpcInv'
<1>1. ASSUME NEW c \in AllThreads, NEW s \in AllThreads
      PROVE  AwaitsAnswer(c, s)' <=> AwaitsAnswer(c, s)
  BY DEF AwaitsAnswer, Steady
<1>2. ASSUME NEW t \in AllThreads
      PROVE  HoldsNothing(t)' /\ WaitsInRpc(t)'
  BY DEF RpcInv, HoldsNothing, WaitsInRpc, Steady
<1> QED
  BY <1>1, <1>2, RpcFrame

(* Only thread k changes, to a state in which it waits for no answer.       *)
LEMMA RpcOne ==
  ASSUME TypeInv, RpcInv, UNCHANGED <<prio, saved, base, owed>>,
         NEW k \in AllThreads, \A t \in AllThreads \ {k} : Steady(t),
         \A s \in AllThreads : ~AwaitsAnswer(k, s) /\ ~AwaitsAnswer(k, s)',
         HoldsNothing(k)', WaitsInRpc(k)', phase' # "recv"
  PROVE  RpcInv'
<1>1. ASSUME NEW c \in AllThreads, NEW s \in AllThreads
      PROVE  AwaitsAnswer(c, s)' <=> AwaitsAnswer(c, s)
  BY DEF AwaitsAnswer, Steady
<1>2. ASSUME NEW t \in AllThreads
      PROVE  HoldsNothing(t)' /\ WaitsInRpc(t)'
  <2>1. CASE t = k
    BY <2>1
  <2>2. CASE t # k
    BY <2>2 DEF RpcInv, HoldsNothing, WaitsInRpc, Steady
  <2> QED
    BY <2>1, <2>2
<1> QED
  BY <1>1, <1>2, RpcFrame

-----------------------------------------------------------------------------
(* The steps of RpcNext keep the invariant.                                 *)

LEMMA ReturnOnlyRpc ==
  ASSUME TypeInv, RpcInv, NEW name, NEW r, ReturnOnly(name, r)
  PROVE  RpcInv'
<1>1. \A t \in AllThreads : Steady(t)
  BY DEF ReturnOnly, Steady
<1> QED
  BY <1>1, RpcQuiet DEF ReturnOnly, Return

LEMMA CreateRpc ==
  ASSUME TypeInv, RpcInv,
         (\E e \in Eps : EpCreate(e)) \/ (\E n \in Notifs : NotifCreate(n))
  PROVE  RpcInv'
<1>1. /\ UNCHANGED <<state, reason, timer, taken, prio, saved, base, owed>>
      /\ phase' = "syscall"
  BY DEF EpCreate, NotifCreate, Return
<1>2. \A t \in AllThreads : Steady(t)
  BY <1>1 DEF Steady
<1> QED
  BY <1>1, <1>2, RpcQuiet

LEMMA SpawnRpc ==
  ASSUME CoreInv, RpcInv, NEW t \in Threads, NEW p \in Prio, Spawn(t, p)
  PROVE  RpcInv'
<1>1. TypeInv /\ t \in AllThreads /\ state[t] = "DEAD" /\ t # Root
  BY DEF CoreInv, Spawn, AllThreads, CpuInv, FreedIsDead
<1>2. ThreadInit(t, p)
  BY <1>1, UnblockedIsFree DEF Spawn
<1>3. /\ state' = [state EXCEPT ![t] = "READY"]
      /\ reason' = [reason EXCEPT ![t] = "NONE"]
      /\ timer' = [timer EXCEPT ![t] = "none"]
      /\ prio' = [prio EXCEPT ![t] = p] /\ saved' = [saved EXCEPT ![t] = p]
      /\ base' = [base EXCEPT ![t] = p]
      /\ taken' = [taken EXCEPT ![t] = Null] /\ owed' = [owed EXCEPT ![t] = {}]
      /\ phase' = "syscall"
  BY <1>2 DEF ThreadInit
<1>4. /\ state'[t] = "READY" /\ reason'[t] = "NONE" /\ timer'[t] = "none"
      /\ prio'[t] = p /\ base'[t] = p /\ owed'[t] = {}
      /\ \A x \in AllThreads \ {t} :
           /\ Steady(x) /\ prio'[x] = prio[x] /\ saved'[x] = saved[x]
           /\ base'[x] = base[x] /\ owed'[x] = owed[x]
  BY <1>1, <1>3, TypeFacts, HistoryTypes DEF Steady
<1>5. \A c, s \in AllThreads : AwaitsAnswer(c, s)' <=> AwaitsAnswer(c, s)
  BY <1>1, <1>4 DEF AwaitsAnswer, Steady
<1>6. owed[t] = {} /\ \A s \in AllThreads : t \notin owed[s]
  BY <1>1 DEF RpcInv, HoldsNothing, HoldsOwnCallers, AwaitsAnswer
<1>7. ASSUME NEW s \in AllThreads
      PROVE  HoldsOwnCallers(s)'
  <2>1. CASE s = t
    <3>1. \A c \in AllThreads : ~AwaitsAnswer(c, t)'
      BY <1>1, <1>5, <1>6 DEF RpcInv, HoldsOwnCallers
    <3> QED
      BY <1>4, <2>1, <3>1 DEF HoldsOwnCallers
  <2>2. CASE s # t
    <3>1. \A c \in owed[s] : prio'[c] = prio[c]
      BY <1>1, <1>4, <1>6, HistoryTypes
    <3> QED
      BY <1>1, <1>4, <1>5, <2>2, <3>1, HoldsFrame
  <2> QED
    BY <2>1, <2>2
<1>8. ASSUME NEW s \in AllThreads
      PROVE  HoldsNothing(s)' /\ WaitsInRpc(s)'
  <2>1. CASE s = t
    BY <1>4, <2>1 DEF HoldsNothing, WaitsInRpc
  <2>2. CASE s # t
    BY <1>4, <2>2 DEF RpcInv, HoldsNothing, WaitsInRpc, Steady
  <2> QED
    BY <2>1, <2>2
<1> QED
  BY <1>3, <1>7, <1>8 DEF RpcInv

LEMMA ExitRpc ==
  ASSUME CoreInv, FitInv, RpcInv, current = Root, Exit
  PROVE  RpcInv'
<1>1. TypeInv /\ phase = "user" /\ phase' = "syscall"
  BY DEF CoreInv, Exit, InUser, Return
<1>2. PICK c : c = current
  OBVIOUS
<1>3. c \in AllThreads /\ state[c] = "RUNNING" /\ reason[c] = "NONE" /\ c = Root
  BY <1>1, <1>2, CallerIsClean
<1>4. UNCHANGED timer
  <2>1. dead \in AllThreads => state[dead] # "BLOCKED"
    BY IdleNull DEF CoreInv, CpuInv, CorpseAccounted
  <2> QED
    BY <2>1, FreedTimersSame DEF Exit
<1>5. /\ state' = [state EXCEPT ![c] = "DEAD"]
      /\ UNCHANGED <<prio, saved, base, owed, reason, taken>>
  BY <1>2 DEF Exit
<1>6. state'[c] = "DEAD" /\ \A t \in AllThreads \ {c} : Steady(t)
  BY <1>1, <1>3, <1>4, <1>5, TypeFacts DEF Steady
<1>7. owed[c] = {} /\ timer[c] \in {"none", "sleep"}
  BY <1>3 DEF RpcInv, HoldsNothing, WaitsInRpc
<1>8. HoldsNothing(c)' /\ WaitsInRpc(c)'
  BY <1>3, <1>4, <1>5, <1>6, <1>7 DEF HoldsNothing, WaitsInRpc
<1>9. \A s \in AllThreads : ~AwaitsAnswer(c, s) /\ ~AwaitsAnswer(c, s)'
  BY <1>3, <1>6 DEF AwaitsAnswer
<1> QED
  BY <1>1, <1>3, <1>5, <1>6, <1>8, <1>9, RpcOne

LEMMA EpCallQueueRpc ==
  ASSUME CoreInv, FitInv, RpcInv, NEW e \in Eps, EpCallQueue(e, "none")
  PROVE  RpcInv'
<1>1. TypeInv /\ phase = "user" /\ CallerQueues(e, "none")
  BY CallerIsFree DEF CoreInv, EpCallQueue, InUser
<1>2. PICK c : c = current
  OBVIOUS
<1>3. c \in AllThreads /\ state[c] = "RUNNING" /\ reason[c] = "NONE" /\ timer[c] = "none"
  BY <1>1, <1>2, CallerIsClean
<1>4. /\ state' = [state EXCEPT ![c] = "BLOCKED"]
      /\ reason' = [reason EXCEPT ![c] = "CALL"]
      /\ taken' = [taken EXCEPT ![c] = Null]
      /\ phase' = "syscall"
      /\ UNCHANGED <<timer, prio, saved, base, owed>>
  BY <1>1, <1>2 DEF CallerQueues, CallerBlocks, Return
<1>5. /\ state'[c] = "BLOCKED" /\ reason'[c] = "CALL" /\ taken'[c] = Null
      /\ \A t \in AllThreads \ {c} : Steady(t)
  BY <1>1, <1>3, <1>4, TypeFacts DEF Steady
<1>6. HoldsNothing(c)' /\ WaitsInRpc(c)'
  BY <1>3, <1>4, <1>5 DEF RpcInv, HoldsNothing, WaitsInRpc
<1>7. \A s \in AllThreads : ~AwaitsAnswer(c, s) /\ ~AwaitsAnswer(c, s)'
  BY <1>3, <1>5, IdleNull DEF AwaitsAnswer
<1> QED
  BY <1>1, <1>3, <1>4, <1>5, <1>6, <1>7, RpcOne

(* Thread s, which held nothing, is handed the request of c.                *)
LEMMA HandedOver ==
  ASSUME TypeInv, RpcInv, NEW c \in AllThreads, NEW s \in AllThreads, c # s,
         owed[s] = {}, \A x \in AllThreads : ~AwaitsAnswer(c, x) /\ ~AwaitsAnswer(s, x),
         state'[c] = "BLOCKED", reason'[c] = "CALL", taken'[c] = s, timer'[c] = "none",
         state'[s] \in {"READY", "RUNNING"}, reason'[s] = "NONE", timer'[s] = "none",
         s # Root, c = Root => owed[c] = {},
         saved' = [saved EXCEPT ![s] = prio[s]],
         prio' = [prio EXCEPT ![s] = Inherited(s, c)],
         owed' = [owed EXCEPT ![s] = @ \cup {c}], UNCHANGED base,
         \A t \in AllThreads \ {c, s} : Steady(t), phase' # "recv"
  PROVE  RpcInv'
<1>1. /\ owed'[s] = {c} /\ prio'[s] = Inherited(s, c) /\ prio'[c] = prio[c]
      /\ saved'[s] = prio[s] /\ base'[s] = base[s]
      /\ \A x \in AllThreads \ {s} : /\ owed'[x] = owed[x] /\ prio'[x] = prio[x]
                                     /\ saved'[x] = saved[x] /\ base'[x] = base[x]
  BY TypeFacts, HistoryTypes
<1>2. \A x \in AllThreads : s \notin owed[x] /\ c \notin owed[x]
  BY DEF RpcInv, HoldsOwnCallers
<1>3. \A d, x \in AllThreads : d # c => (AwaitsAnswer(d, x)' <=> AwaitsAnswer(d, x))
  BY DEF AwaitsAnswer, Steady
<1>4. \A x \in AllThreads : AwaitsAnswer(c, x)' <=> x = s
  BY DEF AwaitsAnswer
<1>5. HoldsOwnCallers(s)'
  <2>1. Inherited(s, c) <= prio[c] /\ base[s] = prio[s]
    BY TypeFacts DEF Inherited, Prio, RpcInv, HoldsOwnCallers
  <2>2. \A d \in AllThreads : ~AwaitsAnswer(d, s)
    BY DEF RpcInv, HoldsOwnCallers
  <2> QED
    BY <1>1, <1>3, <1>4, <2>1, <2>2 DEF HoldsOwnCallers
<1>6. ASSUME NEW x \in AllThreads, x # s
      PROVE  HoldsOwnCallers(x)'
  <2>1. \A d \in AllThreads : AwaitsAnswer(d, x)' <=> AwaitsAnswer(d, x)
    BY <1>3, <1>4, <1>6
  <2>2. \A d \in owed[x] : prio'[d] = prio[d]
    BY <1>1, <1>2, HistoryTypes
  <2> QED
    BY <1>1, <1>6, <2>1, <2>2, HoldsFrame
<1>7. ASSUME NEW x \in AllThreads
      PROVE  HoldsNothing(x)' /\ WaitsInRpc(x)'
  <2>1. CASE x \in {c, s}
    BY <1>1, <2>1 DEF HoldsNothing, WaitsInRpc
  <2>2. CASE x \notin {c, s}
    BY <1>1, <2>2 DEF RpcInv, HoldsNothing, WaitsInRpc, Steady
  <2> QED
    BY <2>1, <2>2
<1> QED
  BY <1>5, <1>6, <1>7 DEF RpcInv

LEMMA EpCallDeliverRpc ==
  ASSUME CoreInv, FitInv, RpcInv, NEW e \in Eps, EpCallDeliver(e, "none")
  PROVE  RpcInv'
<1>1. TypeInv /\ phase = "user" /\ recvQ[e] # <<>> /\ recvQ' = PopHead(recvQ, e)
  BY DEF CoreInv, EpCallDeliver, InUser
<1>2. PICK c, srv : c = current /\ srv = Head(recvQ[e])
  OBVIOUS
<1>3. srv \in ReceiversAt(e)
  BY <1>1, <1>2, ReceiverPopped
<1>4. /\ c \in AllThreads /\ timer[c] = "none" /\ state[c] = "RUNNING"
      /\ reason[c] = "NONE"
  BY <1>1, <1>2, CallerIsClean
<1>5. /\ srv \in AllThreads /\ srv # c /\ state[srv] = "BLOCKED"
      /\ reason[srv] \in {"RECV", "OR_NOTIF"}
  BY <1>3, <1>4 DEF ReceiversAt
<1>6. /\ state' = [state EXCEPT ![c] = "BLOCKED", ![srv] = "READY"]
      /\ reason' = [reason EXCEPT ![c] = "CALL", ![srv] = "NONE"]
      /\ saved' = [saved EXCEPT ![srv] = prio[srv]]
      /\ prio' = [prio EXCEPT ![srv] = Inherited(srv, c)]
      /\ taken' = [taken EXCEPT ![c] = srv]
      /\ owed' = [owed EXCEPT ![srv] = @ \cup {c}]
      /\ phase' = "syscall"
      /\ UNCHANGED <<timer, base>>
  BY <1>2 DEF EpCallDeliver, CallerBlocks, Return
<1>7. /\ state'[c] = "BLOCKED" /\ reason'[c] = "CALL" /\ taken'[c] = srv
      /\ state'[srv] = "READY" /\ reason'[srv] = "NONE"
      /\ \A t \in AllThreads \ {c, srv} : Steady(t)
  BY <1>1, <1>4, <1>5, <1>6, TypeFacts DEF Steady
<1>8. timer[srv] = "none"
  <2>1. timer[srv] # "none" => CallbackApplies(srv)
    BY <1>5 DEF FitInv, Settled, TimerServesWait
  <2>2. timer[srv] \in {"none", "sleep"}
    BY <1>5 DEF RpcInv, WaitsInRpc
  <2> QED
    BY <1>5, <2>1, <2>2, CallbackMeans DEF Sleeping
<1>9. owed[srv] = {} /\ srv # Root /\ (c = Root => owed[c] = {})
  BY <1>4, <1>5 DEF RpcInv, HoldsNothing, WaitsInRpc
<1>10. \A x \in AllThreads : ~AwaitsAnswer(c, x) /\ ~AwaitsAnswer(srv, x)
  BY <1>4, <1>5 DEF AwaitsAnswer
<1> QED
  BY <1>1, <1>4, <1>5, <1>6, <1>7, <1>8, <1>9, <1>10, HandedOver

LEMMA RecvTakeRpc ==
  ASSUME CoreInv, FitInv, RpcInv, phase \in {"user", "recv"}, NEW e \in Eps, NEW name,
         owed[current] = {}, current # Root, RecvTake(e, name)
  PROVE  RpcInv'
<1>1. TypeInv /\ sendQ[e] # <<>> /\ sendQ' = PopHead(sendQ, e)
  BY DEF CoreInv, RecvTake
<1>2. PICK s, c : s = current /\ c = Head(sendQ[e])
  OBVIOUS
<1>3. c \in CallersAt(e)
  BY <1>1, <1>2, SenderPopped
<1>4. /\ s \in AllThreads /\ timer[s] = "none" /\ state[s] = "RUNNING"
      /\ reason[s] = "NONE"
  BY <1>2, CallerIsClean
<1>5. /\ c \in AllThreads /\ c # s /\ state[c] = "BLOCKED" /\ reason[c] = "CALL"
      /\ taken[c] = Null
  BY <1>3, <1>4 DEF CallersAt
<1>6. /\ saved' = [saved EXCEPT ![s] = prio[s]]
      /\ prio' = [prio EXCEPT ![s] = Inherited(s, c)]
      /\ taken' = [taken EXCEPT ![c] = s]
      /\ owed' = [owed EXCEPT ![s] = @ \cup {c}]
      /\ phase' = "syscall"
      /\ UNCHANGED <<state, reason, timer, base>>
  BY <1>2 DEF RecvTake, Return
<1>7. taken'[c] = s /\ \A t \in AllThreads \ {c, s} : Steady(t)
  BY <1>1, <1>4, <1>5, <1>6, TypeFacts DEF Steady
<1>8. timer[c] = "none"
  <2>1. timer[c] # "none" => CallbackApplies(c)
    BY <1>5 DEF FitInv, Settled, TimerServesWait
  <2>2. timer[c] \in {"none", "sleep"}
    BY <1>5 DEF RpcInv, WaitsInRpc
  <2> QED
    BY <1>5, <2>1, <2>2, CallbackMeans DEF Sleeping
<1>9. owed[s] = {} /\ s # Root /\ (c = Root => owed[c] = {})
  BY <1>2, <1>5 DEF RpcInv, HoldsNothing
<1>10. \A x \in AllThreads : ~AwaitsAnswer(c, x) /\ ~AwaitsAnswer(s, x)
  BY <1>4, <1>5, IdleNull DEF AwaitsAnswer
<1> QED
  BY <1>1, <1>4, <1>5, <1>6, <1>7, <1>8, <1>9, <1>10, HandedOver

LEMMA RecvBlockRpc ==
  ASSUME CoreInv, FitInv, RpcInv, phase \in {"user", "recv"}, NEW e \in Eps, NEW name,
         owed[current] = {}, current # Root, RecvBlock(e, name)
  PROVE  RpcInv'
<1>1. TypeInv /\ ReceiverQueues(e, name)
  BY CallerIsFree DEF CoreInv, RecvBlock
<1>2. PICK c : c = current
  OBVIOUS
<1>3. c \in AllThreads /\ state[c] = "RUNNING" /\ timer[c] = "none"
  BY <1>2, CallerIsClean
<1>4. /\ state' = [state EXCEPT ![c] = "BLOCKED"]
      /\ reason' = [reason EXCEPT ![c] = "RECV"]
      /\ phase' = "syscall"
      /\ UNCHANGED <<timer, prio, saved, base, owed, taken>>
  BY <1>1, <1>2 DEF ReceiverQueues, Return
<1>5. /\ state'[c] = "BLOCKED" /\ reason'[c] = "RECV"
      /\ \A t \in AllThreads \ {c} : Steady(t)
  BY <1>1, <1>3, <1>4, TypeFacts DEF Steady
<1>6. HoldsNothing(c)' /\ WaitsInRpc(c)'
  BY <1>2, <1>3, <1>4, <1>5 DEF HoldsNothing, WaitsInRpc
<1>7. \A s \in AllThreads : ~AwaitsAnswer(c, s) /\ ~AwaitsAnswer(c, s)'
  BY <1>3, <1>5 DEF AwaitsAnswer
<1> QED
  BY <1>1, <1>3, <1>4, <1>5, <1>6, <1>7, RpcOne

(* ep_recv and the second half of ep_reply_recv.                            *)
LEMMA ReceiveRpc ==
  ASSUME CoreInv, FitInv, RpcInv, phase \in {"user", "recv"}, NEW e \in Eps, NEW name,
         owed[current] = {}, current # Root,
         RecvTake(e, name) \/ RecvBlock(e, name) \/ ReturnOnly(name, "EINVAL")
  PROVE  RpcInv'
<1>1. TypeInv
  BY DEF CoreInv
<1> QED
  BY <1>1, RecvTakeRpc, RecvBlockRpc, ReturnOnlyRpc

(* The server s, which is not c, answers the one request it holds.          *)
LEMMA AnsweredRpc ==
  ASSUME CoreInv, FitInv, RpcInv, phase = "user", NEW c \in owed[current],
         CanReply(c), ReplyTo(c), UNCHANGED <<taken, base, current>>,
         owed' = [owed EXCEPT ![current] = @ \ {c}],
         phase' = "recv" => current # Root /\ arg' \in Eps
  PROVE  RpcInv' /\ owed'[current] = {}
<1>1. TypeInv
  BY DEF CoreInv
<1>2. PICK s : s = current
  OBVIOUS
<1>3. s \in AllThreads /\ state[s] = "RUNNING"
  BY <1>2, CallerIsClean
<1>4. /\ c \in AllThreads /\ c # s /\ AwaitsAnswer(c, s) /\ owed[s] = {c}
      /\ saved[s] = base[s]
  BY <1>1, <1>2, <1>3, HistoryTypes DEF RpcInv, HoldsOwnCallers, AwaitsAnswer
<1>5. /\ prio' = [prio EXCEPT ![s] = saved[s]]
      /\ state' = [state EXCEPT ![c] = "READY"]
      /\ reason' = [reason EXCEPT ![c] = "NONE"]
      /\ timer' = [timer EXCEPT ![c] = "none"]
      /\ owed' = [owed EXCEPT ![s] = @ \ {c}]
      /\ UNCHANGED <<saved, base, taken>>
  BY <1>2 DEF ReplyTo, RestorePrio, Disarm
<1>6. /\ state'[c] = "READY" /\ reason'[c] = "NONE" /\ timer'[c] = "none"
      /\ owed'[s] = {} /\ prio'[s] = base[s]
      /\ \A x \in AllThreads \ {c} : Steady(x)
      /\ \A x \in AllThreads \ {s} : owed'[x] = owed[x] /\ prio'[x] = prio[x]
  BY <1>1, <1>3, <1>4, <1>5, TypeFacts, HistoryTypes DEF Steady
<1>7. \A d, x \in AllThreads : AwaitsAnswer(d, x)' <=> (AwaitsAnswer(d, x) /\ d # c)
  BY <1>6 DEF AwaitsAnswer, Steady
<1>8. \A x \in AllThreads : AwaitsAnswer(c, x) => x = s
  BY <1>4 DEF AwaitsAnswer
<1>9. ASSUME NEW x \in AllThreads
      PROVE  HoldsOwnCallers(x)'
  <2>1. CASE x = s
    <3>1. \A d \in AllThreads : ~AwaitsAnswer(d, s)'
      BY <1>3, <1>4, <1>7 DEF RpcInv, HoldsOwnCallers
    <3> QED
      BY <1>5, <1>6, <2>1, <3>1 DEF HoldsOwnCallers
  <2>2. CASE x # s
    <3>1. \A d \in AllThreads : AwaitsAnswer(d, x)' <=> AwaitsAnswer(d, x)
      BY <1>7, <1>8, <2>2
    <3>2. \A d \in owed[x] : prio'[d] = prio[d]
      <4>1. s \notin owed[x]
        BY <1>3 DEF RpcInv, HoldsOwnCallers, AwaitsAnswer
      <4> QED
        BY <1>1, <1>6, <4>1, HistoryTypes
    <3> QED
      BY <1>1, <1>5, <1>6, <2>2, <3>1, <3>2, HoldsFrame
  <2> QED
    BY <2>1, <2>2
<1>10. ASSUME NEW x \in AllThreads
       PROVE  HoldsNothing(x)' /\ WaitsInRpc(x)'
  <2>1. owed[x] = {} => owed'[x] = {}
    BY <1>6
  <2>2. x # c => HoldsNothing(x)' /\ WaitsInRpc(x)'
    BY <1>6, <2>1 DEF RpcInv, HoldsNothing, WaitsInRpc, Steady
  <2>3. HoldsNothing(c)' /\ WaitsInRpc(c)'
    BY <1>4, <1>6 DEF RpcInv, HoldsNothing, WaitsInRpc
  <2> QED
    BY <2>2, <2>3
<1> QED
  BY <1>2, <1>6, <1>9, <1>10 DEF RpcInv

(* A held request is one that ep_reply_impl answers.                        *)
LEMMA HeldIsAnswerable ==
  ASSUME CoreInv, RpcInv, NEW c \in owed[current]
  PROVE  c \in Threads /\ CanReply(c) /\ taken[c] = current /\ c \in ReplySafe
<1>1. TypeInv /\ current \in AllThreads
  BY TypeFacts DEF CoreInv
<1>2. c \in AllThreads /\ AwaitsAnswer(c, current)
  BY <1>1, HistoryTypes DEF RpcInv, HoldsOwnCallers
<1>3. c # Idle /\ registered[c] /\ c # Null
  BY <1>2, IdleNull DEF AwaitsAnswer, CoreInv, CpuInv, RunnableWaitsForNothing, FreedIsDead
<1> QED
  BY <1>1, <1>2, <1>3, IdleNull DEF AwaitsAnswer, CanReply, Alive, ReplySafe, AllThreads

LEMMA ReplyRpc ==
  ASSUME CoreInv, FitInv, RpcInv, NEW e \in Eps, current # Root, NEW c \in owed[current],
         EpReply(c) \/ EpReplyRecv(e, c)
  PROVE  RpcInv'
<1>1. phase = "user" /\ CanReply(c)
  BY HeldIsAnswerable DEF EpReply, EpReplyRecv, InUser
<1>2. /\ ReplyTo(c) /\ UNCHANGED <<taken, base, current>>
      /\ owed' = [owed EXCEPT ![current] = @ \ {c}]
      /\ phase' = "recv" => arg' \in Eps
  BY <1>1, HeldIsAnswerable, IdleNull DEF EpReply, EpReplyRecv, Return, AllThreads
<1> QED
  BY <1>1, <1>2, AnsweredRpc

LEMMA SleepRpc ==
  ASSUME CoreInv, FitInv, RpcInv, Sleep(TRUE)
  PROVE  RpcInv'
<1>1. TypeInv /\ SleepBlock /\ phase = "user"
  BY DEF CoreInv, Sleep, InUser
<1>2. PICK c : c = current
  OBVIOUS
<1>3. c \in AllThreads /\ state[c] = "RUNNING"
  BY <1>1, <1>2, CallerIsClean
<1>4. /\ state' = [state EXCEPT ![c] = "BLOCKED"]
      /\ reason' = [reason EXCEPT ![c] = "SLEEP"]
      /\ timer' = [timer EXCEPT ![c] = "sleep"]
      /\ phase' = "syscall"
      /\ UNCHANGED <<prio, saved, base, owed, taken>>
  BY <1>1, <1>2 DEF SleepBlock, Return
<1>5. /\ state'[c] = "BLOCKED" /\ reason'[c] = "SLEEP" /\ timer'[c] = "sleep"
      /\ \A t \in AllThreads \ {c} : Steady(t)
  BY <1>1, <1>3, <1>4, TypeFacts DEF Steady
<1>6. HoldsNothing(c)' /\ WaitsInRpc(c)'
  BY <1>3, <1>4, <1>5 DEF RpcInv, HoldsNothing, WaitsInRpc
<1>7. \A s \in AllThreads : ~AwaitsAnswer(c, s) /\ ~AwaitsAnswer(c, s)'
  BY <1>3, <1>5 DEF AwaitsAnswer
<1> QED
  BY <1>1, <1>3, <1>4, <1>5, <1>6, <1>7, RpcOne

(* Only sleeps expire.                                                      *)
LEMMA TimerFireRpc ==
  ASSUME CoreInv, FitInv, RpcInv, NEW t \in AllThreads, TimerFire(t)
  PROVE  RpcInv' /\ reason[t] = "SLEEP"
<1>1. TypeInv /\ timer[t] = "sleep"
  BY DEF CoreInv, TimerFire, RpcInv, WaitsInRpc
<1>2. CallbackApplies(t) /\ state[t] = "BLOCKED" /\ reason[t] = "SLEEP"
  BY <1>1, CallbackMeans DEF FitInv, Settled, TimerServesWait, Sleeping
<1>3. /\ state' = [state EXCEPT ![t] = "READY"]
      /\ reason' = [reason EXCEPT ![t] = "NONE"]
      /\ timer' = [timer EXCEPT ![t] = "none"]
      /\ phase' = "isr"
      /\ UNCHANGED <<prio, saved, base, owed, taken>>
  BY <1>2 DEF TimerFire, TimeoutWakes
<1>4. /\ state'[t] = "READY" /\ reason'[t] = "NONE" /\ timer'[t] = "none"
      /\ \A x \in AllThreads \ {t} : Steady(x)
  BY <1>1, <1>3, TypeFacts DEF Steady
<1>5. HoldsNothing(t)' /\ WaitsInRpc(t)'
  BY <1>3, <1>4 DEF RpcInv, HoldsNothing, WaitsInRpc
<1>6. \A s \in AllThreads : ~AwaitsAnswer(t, s) /\ ~AwaitsAnswer(t, s)'
  BY <1>2, <1>4 DEF AwaitsAnswer
<1> QED
  BY <1>1, <1>2, <1>3, <1>4, <1>5, <1>6, RpcOne

LEMMA TrapDispatchRpc ==
  ASSUME CoreInv, FitInv, RpcInv, TrapDispatch
  PROVE  RpcInv'
<1>1. TypeInv /\ UNCHANGED <<prio, saved, base, owed, taken, reason>>
  BY DEF CoreInv, TrapDispatch
<1>2. PICK W : W = {t \in AllThreads : state[t] \in {"READY", "RUNNING"}}
  OBVIOUS
<1>3. /\ UNCHANGED timer
      /\ \A t \in W : state'[t] \in {"READY", "RUNNING"}
      /\ \A t \in AllThreads \ W : state'[t] = state[t]
  BY <1>2, DispatchMoves
<1>4. \A t \in AllThreads : Steady(t)
  BY <1>1, <1>2, <1>3 DEF Steady
<1>5. phase' # "recv"
  BY DEF TrapDispatch, DispatchStay, DispatchSwitch, DispatchPreempt, SwitchFrom, AfterTrap
<1> QED
  BY <1>1, <1>4, <1>5, RpcQuiet

LEMMA SyscallRetResolveRpc ==
  ASSUME CoreInv, RpcInv, SyscallRetResolve
  PROVE  RpcInv'
<1>1. TypeInv /\ current \in AllThreads /\ state[current] = "RUNNING"
  BY TypeFacts DEF CoreInv, CpuInv, RunsOnCpu, SyscallRetResolve
<1>2. /\ taken' = [taken EXCEPT ![current] = Null] /\ phase' = "user"
      /\ UNCHANGED <<prio, saved, base, owed, state, reason, timer>>
  BY DEF SyscallRetResolve
<1>3. \A t \in AllThreads : Steady(t)
  BY <1>1, <1>2, TypeFacts DEF Steady
<1> QED
  BY <1>1, <1>2, <1>3, RpcQuiet

-----------------------------------------------------------------------------
(* The theorems.                                                            *)

LEMMA InitRpc == Init => RpcInv
<1> SUFFICES ASSUME Init
             PROVE  RpcInv
  OBVIOUS
<1>1. ASSUME NEW t \in AllThreads
      PROVE  HoldsOwnCallers(t) /\ HoldsNothing(t) /\ WaitsInRpc(t)
  <2>1. /\ owed[t] = {} /\ timer[t] = "none" /\ base[t] = prio[t] /\ reason[t] = "NONE"
        /\ \A c \in AllThreads : reason[c] = "NONE"
    BY DEF Init
  <2> QED
    BY <2>1 DEF HoldsOwnCallers, HoldsNothing, WaitsInRpc, AwaitsAnswer
<1> QED
  BY <1>1 DEF RpcInv, Init

LEMMA WorkloadFacts ==
  /\ Workers \subseteq Threads /\ Clients \subseteq Threads
  /\ Root \notin Servers /\ Root \notin Backends
  /\ Front \in Eps /\ (Back # Null \/ Backends # {} => Back \in Eps)
  /\ \A t : SpawnPrio(t) \in Prio
<1>1. 1 \in Prio /\ 2 \in Prio /\ 3 \in Prio
  BY WorkloadAssumption DEF Prio
<1> QED
  BY <1>1, WorkloadAssumption DEF Clients, SpawnPrio

(* A server's step is one of these.                                         *)
LEMMA ServeCases ==
  ASSUME Serve
  PROVE  /\ current # Root
         /\ \/ \E e \in Eps : owed[current] = {} /\ EpRecv(e)
            \/ \E e \in Eps, c \in owed[current] : EpReply(c) \/ EpReplyRecv(e, c)
            \/ \E e \in Eps : Call(e, "none")
<1>1. current # Root
  BY WorkloadFacts DEF Serve
<1>2. \A e \in Eps : ServeOn(e) =>
        \/ owed[current] = {} /\ EpRecv(e)
        \/ \E c \in owed[current] : EpReply(c) \/ EpReplyRecv(e, c)
  BY DEF ServeOn
<1>3. (\E e \in Eps : ServeOn(e)) \/ (\E e \in Eps : Call(e, "none"))
  BY WorkloadFacts DEF Serve
<1> QED
  BY <1>1, <1>2, <1>3

(* A program that only answers what it was handed is a program of CoreSpec. *)
LEMMA RpcIsCore ==
  ASSUME CoreInv, RpcInv, [RpcNext]_vars
  PROVE  [CoreNext]_vars
<1>1. CASE Boot(Workers)
  <2>1. Syscall
    BY <1>1, WorkloadFacts DEF Boot, Syscall
  <2> QED
    BY <2>1 DEF CoreNext
<1>2. CASE Serve
  <2>1. ASSUME NEW e \in Eps, EpRecv(e) \/ Call(e, "none")
        PROVE  Syscall
    BY <2>1 DEF Syscall, Call
  <2>2. ASSUME NEW e \in Eps, NEW c \in owed[current], EpReply(c) \/ EpReplyRecv(e, c)
        PROVE  Replies(ReplySafe)
    BY <2>2, HeldIsAnswerable DEF Replies
  <2> QED
    BY <1>2, <2>1, <2>2, ServeCases DEF CoreNext
<1>3. CASE Call(Front, "none") \/ Sleep(TRUE)
  <2>1. Syscall
    BY <1>3, WorkloadFacts DEF Call, Syscall
  <2> QED
    BY <2>1 DEF CoreNext
<1>4. CASE \E t \in Clients : TimerFire(t)
  BY <1>4, WorkloadFacts DEF CoreNext, Interrupt
<1>5. CASE RpcKernel \/ IdleLoop
  BY <1>5 DEF RpcKernel, CoreNext, KernelStep
<1>6. CASE UNCHANGED vars
  BY <1>6
<1> QED
  BY <1>1, <1>2, <1>3, <1>4, <1>5, <1>6 DEF RpcNext, RpcProgram

LEMMA RpcStep ==
  ASSUME CoreInv, FitInv, RpcInv, [RpcNext]_vars
  PROVE  RpcInv'
<1>1. TypeInv
  BY DEF CoreInv
<1>2. CASE Boot(Workers)
  BY <1>1, <1>2, WorkloadFacts, CreateRpc, SpawnRpc, ExitRpc DEF Boot
<1>3. ASSUME NEW e \in Eps, Call(e, "none")
      PROVE  RpcInv'
  BY <1>3, EpCallQueueRpc, EpCallDeliverRpc DEF Call
<1>4. CASE Serve
  <2>1. ASSUME NEW e \in Eps, owed[current] = {}, current # Root, EpRecv(e)
        PROVE  RpcInv'
    BY <2>1, ReceiveRpc DEF EpRecv, InUser
  <2> QED
    BY <1>3, <1>4, <2>1, ServeCases, ReplyRpc
<1>5. CASE Call(Front, "none") \/ Sleep(TRUE)
  BY <1>3, <1>5, SleepRpc, WorkloadFacts
<1>6. CASE \E t \in Clients : TimerFire(t)
  BY <1>6, WorkloadFacts, TimerFireRpc DEF AllThreads
<1>7. CASE EpReplyRecvTail
  <2>1. owed[current] = {} /\ current # Root /\ arg \in Eps /\ phase = "recv"
    BY <1>7 DEF EpReplyRecvTail, RpcInv
  <2> QED
    BY <1>7, <2>1, ReceiveRpc DEF EpReplyRecvTail
<1>8. CASE TrapDispatch \/ SyscallRetResolve
  BY <1>8, TrapDispatchRpc, SyscallRetResolveRpc
<1>9. CASE UNCHANGED vars
  BY <1>9 DEF vars, RpcInv, HoldsOwnCallers, HoldsNothing, WaitsInRpc, AwaitsAnswer
<1> QED
  BY <1>2, <1>4, <1>5, <1>6, <1>7, <1>8, <1>9
     DEF RpcNext, RpcProgram, RpcKernel, IdleLoop

(* A step of RpcNext that ends a call with success is the answer of the     *)
(* thread that received it.                                                 *)
LEMMA OnlyHolderAnswers ==
  ASSUME CoreInv, FitInv, RpcInv, [RpcNext]_vars, NEW c \in Threads,
         reason[c] = "CALL", reason'[c] = "NONE"
  PROVE  taken[c] = current
<1>1. TypeInv /\ c \in AllThreads /\ state[c] = "BLOCKED"
  BY DEF CoreInv, AllThreads, RpcInv, WaitsInRpc
<1>2. reason \in [AllThreads -> Reasons] /\ current \in AllThreads
  BY <1>1, TypeFacts
<1>3. UNCHANGED reason => FALSE
  OBVIOUS
<1>4. ASSUME NEW d \in AllThreads, NEW r, reason' = [reason EXCEPT ![d] = r]
      PROVE  d = c
  BY <1>1, <1>2, <1>4
<1>5. phase \in {"user", "recv"} => reason[current] = "NONE"
  BY CallerIsFree
<1>6. CASE Boot(Workers)
  <2>1. ASSUME NEW t \in Workers, Spawn(t, SpawnPrio(t))
        PROVE  FALSE
    <3>1. t \in AllThreads /\ state[t] = "DEAD"
      BY <2>1, WorkloadFacts DEF Spawn, CoreInv, CpuInv, FreedIsDead, AllThreads
    <3>2. reason' = [reason EXCEPT ![t] = "NONE"] \/ UNCHANGED reason
      BY <2>1 DEF Spawn, ThreadInit, Corrupt
    <3> QED
      BY <1>1, <1>3, <1>4, <3>1, <3>2
  <2> QED
    BY <1>3, <1>6, <2>1 DEF Boot, EpCreate, NotifCreate, Exit
<1>7. ASSUME NEW e \in Eps, Call(e, "none")
      PROVE  FALSE
  <2>1. phase = "user"
    BY <1>7 DEF Call, EpCallQueue, EpCallDeliver, InUser
  <2>2. CASE EpCallQueue(e, "none")
    BY <1>2, <1>3, <1>4, <1>5, <2>1, <2>2 DEF EpCallQueue, CallerQueues, Corrupt
  <2>3. CASE EpCallDeliver(e, "none")
    <3>1. /\ recvQ[e] # <<>> /\ recvQ' = PopHead(recvQ, e)
          /\ reason' = [reason EXCEPT ![current] = "CALL", ![Head(recvQ[e])] = "NONE"]
      BY <2>3 DEF EpCallDeliver
    <3>2. Head(recvQ[e]) \in AllThreads /\ reason[Head(recvQ[e])] # "CALL"
      BY <3>1, ReceiverPopped DEF ReceiversAt
    <3> QED
      BY <1>1, <1>2, <1>5, <2>1, <3>1, <3>2
  <2> QED
    BY <1>7, <2>2, <2>3 DEF Call
<1>8. ASSUME NEW e \in Eps, NEW name, phase \in {"user", "recv"},
             RecvTake(e, name) \/ RecvBlock(e, name) \/ ReturnOnly(name, "EINVAL")
      PROVE  FALSE
  BY <1>2, <1>3, <1>4, <1>5, <1>8
     DEF RecvTake, RecvBlock, ReceiverQueues, Corrupt, ReturnOnly
<1>9. ASSUME NEW e \in Eps, NEW d \in owed[current], EpReply(d) \/ EpReplyRecv(e, d)
      PROVE  taken[c] = current
  <2>1. d \in AllThreads /\ taken[d] = current
    BY <1>9, HeldIsAnswerable DEF AllThreads
  <2>2. reason' = [reason EXCEPT ![d] = "NONE"] \/ UNCHANGED reason
    BY <1>9 DEF EpReply, EpReplyRecv, ReplyTo
  <2> QED
    BY <1>3, <1>4, <2>1, <2>2
<1>10. CASE Serve
  BY <1>7, <1>8, <1>9, <1>10, ServeCases DEF EpRecv, InUser
<1>11. CASE Sleep(TRUE)
  BY <1>2, <1>4, <1>5, <1>11 DEF Sleep, SleepBlock, InUser
<1>12. CASE \E t \in Clients : TimerFire(t)
  <2>1. PICK t \in AllThreads : TimerFire(t)
    BY <1>12, WorkloadFacts DEF AllThreads
  <2>2. reason[t] = "SLEEP"
    BY <2>1, TimerFireRpc
  <2>3. reason' = [reason EXCEPT ![t] = "NONE"] \/ UNCHANGED reason
    BY <2>1 DEF TimerFire, TimeoutWakes
  <2> QED
    BY <1>3, <1>4, <2>2, <2>3
<1>13. CASE EpReplyRecvTail
  BY <1>8, <1>13 DEF EpReplyRecvTail, RpcInv
<1>14. CASE TrapDispatch \/ SyscallRetResolve \/ UNCHANGED vars
  BY <1>3, <1>14 DEF TrapDispatch, SyscallRetResolve, vars
<1> QED
  BY <1>6, <1>7, <1>10, <1>11, <1>12, <1>13, <1>14, WorkloadFacts
     DEF RpcNext, RpcProgram, RpcKernel, IdleLoop

(* The three inductive invariants hold together.                            *)
THEOREM RpcInvariant == RpcSpec => [](CoreInv /\ FitInv /\ RpcInv)
<1>1. RpcSpec => Init /\ [][RpcNext]_vars
  BY PTL DEF RpcSpec
<1>2. Init => CoreInv /\ FitInv /\ RpcInv
  BY InitCore, InitFit, InitRpc
<1>3. (CoreInv /\ FitInv /\ RpcInv) /\ [RpcNext]_vars => (CoreInv /\ FitInv /\ RpcInv)'
  BY RpcIsCore, CoreNextCore, FitStep, RpcStep
<1> QED
  BY <1>1, <1>2, <1>3, PTL

(* Programs that answer only what they were handed are programs of CoreSpec,*)
(* so every theorem about CoreSpec is one about them.                       *)
THEOREM RpcImplementsCore == RpcSpec => CoreSpec
<1>1. RpcSpec => Init /\ [][RpcNext]_vars
  BY PTL DEF RpcSpec
<1>2. (CoreInv /\ FitInv /\ RpcInv) /\ [RpcNext]_vars => [CoreNext]_vars
  BY RpcIsCore
<1> QED
  BY <1>1, <1>2, RpcInvariant, PTL DEF CoreSpec

(* Priority inheritance gives what it must and takes it back: a server runs *)
(* at least at the priority of the caller it holds, through any chain of    *)
(* servers, and at its own again once it holds none (apply_prio_inherit and *)
(* the restore in ep_reply).                                                *)
THEOREM InheritanceCorrect == RpcSpec => []InheritanceExact
<1>1. CoreInv /\ RpcInv => InheritanceExact
  <2> SUFFICES ASSUME CoreInv, RpcInv
               PROVE  InheritanceExact
    OBVIOUS
  <2>1. TypeInv /\ Threads \subseteq AllThreads
    BY DEF CoreInv, AllThreads
  <2>2. ServerInherits
    <3> SUFFICES ASSUME NEW c \in Threads, state[c] = "BLOCKED", reason[c] = "CALL",
                        taken[c] # Null
                 PROVE  prio[taken[c]] <= prio[c]
      BY DEF ServerInherits
    <3>1. taken[c] \in AllThreads /\ c \in AllThreads
      BY <2>1, HistoryTypes
    <3>2. c \in owed[taken[c]] /\ HoldsOwnCallers(taken[c])
      BY <3>1 DEF RpcInv, HoldsOwnCallers, AwaitsAnswer
    <3> QED
      BY <3>2 DEF HoldsOwnCallers
  <2>3. PriorityRestored
    BY <2>1 DEF PriorityRestored, RpcInv, HoldsOwnCallers
  <2> QED
    BY <2>2, <2>3 DEF InheritanceExact
<1> QED
  BY <1>1, RpcInvariant, PTL

(* Calls and answers pair up: a call that returns success was received, and *)
(* only the thread that received it ended it.                               *)
THEOREM CallsPaired == RpcSpec => CallsAnswered
<1>1. RpcSpec => Init /\ [][RpcNext]_vars
  BY PTL DEF RpcSpec
<1>2. (CoreInv /\ FitInv /\ RpcInv) /\ [RpcNext]_vars
        => [\A c \in Threads :
              reason[c] = "CALL" /\ reason'[c] = "NONE" /\ status'[c] = "OK"
                => taken[c] = current]_vars
  BY OnlyHolderAnswers
<1>3. RpcSpec => ReplyEndsOwnCall
  BY <1>1, <1>2, RpcInvariant, PTL DEF ReplyEndsOwnCall
<1>4. RpcSpec => []CallReturnsAnswered
  BY RpcImplementsCore, CallsReturnAnswered, PTL
<1> QED
  BY <1>3, <1>4, PTL DEF CallsAnswered

-----------------------------------------------------------------------------
(* Callers of servers that die.                                             *)
(*                                                                          *)
(* thread_kill_local finds the caller of a dying server through ipc_sender. *)
(* With one request at a time (DutySpec) that is the caller that waits: the *)
(* invariant says so of every caller that has been received, and that its   *)
(* server is alive and not receiving again.                                 *)

Remembered(c, s) ==
  state[s] # "DEAD" /\ reason[s] \notin {"RECV", "OR_NOTIF"} /\ ipcSender[s] = c

HoldInv ==
  /\ \A c, s \in AllThreads : AwaitsAnswer(c, s) => Remembered(c, s)
  /\ phase = "recv" => \A c \in AllThreads : ~AwaitsAnswer(c, current)

(* Thread t starts no wait for an answer, neither dies nor receives, and    *)
(* keeps its caller.                                                        *)
Undisturbed(t) ==
  /\ state'[t] = "BLOCKED" /\ reason'[t] = "CALL"
       => state[t] = "BLOCKED" /\ reason[t] = "CALL" /\ taken'[t] = taken[t]
  /\ state[t] # "DEAD" => state'[t] # "DEAD" /\ ipcSender'[t] = ipcSender[t]
  /\ reason'[t] \in {"RECV", "OR_NOTIF"} => reason[t] \in {"RECV", "OR_NOTIF"}

LEMMA HoldQuiet ==
  ASSUME HoldInv, \A t \in AllThreads : Undisturbed(t), phase' # "recv"
  PROVE  HoldInv'
<1> SUFFICES ASSUME NEW c \in AllThreads, NEW s \in AllThreads, AwaitsAnswer(c, s)'
             PROVE  Remembered(c, s)'
  BY DEF HoldInv
<1>1. AwaitsAnswer(c, s)
  BY DEF AwaitsAnswer, Undisturbed
<1>2. Remembered(c, s) /\ Undisturbed(s)
  BY <1>1 DEF HoldInv
<1> QED
  BY <1>2 DEF Remembered, Undisturbed

(* At most thread x moves: it is woken, or it blocks for something else.    *)
LEMMA HoldMove ==
  ASSUME TypeInv, HoldInv, NEW x \in AllThreads, phase' # "recv",
         UNCHANGED <<taken, ipcSender>>,
         \/ UNCHANGED <<state, reason>>
         \/ \E st \in {"READY", "BLOCKED"}, why \in {"NONE", "NOTIF", "SLEEP"} :
              /\ state' = [state EXCEPT ![x] = st]
              /\ reason' = [reason EXCEPT ![x] = why]
  PROVE  HoldInv'
<1>1. state \in [AllThreads -> States] /\ reason \in [AllThreads -> Reasons]
  BY TypeFacts
<1>2. CASE UNCHANGED <<state, reason>>
  BY <1>2, HoldQuiet DEF Undisturbed
<1>3. ASSUME NEW st \in {"READY", "BLOCKED"}, NEW why \in {"NONE", "NOTIF", "SLEEP"},
             state' = [state EXCEPT ![x] = st], reason' = [reason EXCEPT ![x] = why]
      PROVE  HoldInv'
  <2>1. state'[x] = st /\ reason'[x] = why
    BY <1>1, <1>3
  <2>2. \A t \in AllThreads \ {x} : state'[t] = state[t] /\ reason'[t] = reason[t]
    BY <1>1, <1>3
  <2>3. \A t \in AllThreads : Undisturbed(t)
    BY <2>1, <2>2 DEF Undisturbed
  <2> QED
    BY <2>3, HoldQuiet
<1> QED
  BY <1>2, <1>3

LEMMA ReturnOnlyHold ==
  ASSUME HoldInv, NEW name, NEW r, ReturnOnly(name, r)
  PROVE  HoldInv'
<1>1. UNCHANGED <<state, reason, taken, ipcSender>> /\ phase' # "recv"
  BY DEF ReturnOnly, Return
<1> QED
  BY <1>1, HoldQuiet DEF Undisturbed

-----------------------------------------------------------------------------
(* The steps of DutyNext keep it.                                           *)

(* Calls that neither send nor receive a request.                           *)
LEMMA NotifHold ==
  ASSUME CoreInv, HoldInv, NEW n \in Notifs,
         \/ NotifCreate(n) \/ NotifDestroy(n)
         \/ \E valid \in BOOLEAN : NotifWaitRefused(n, valid)
         \/ \E m \in Masks : \/ NotifSignal(n, m) \/ NotifWaitTake(n, m) \/ NotifPoll(n, m)
                             \/ IrqDispatch(n, m)
                             \/ \E cb \in {"none", "wait"} : NotifWaitBlock(n, m, cb)
  PROVE  HoldInv'
<1>1. TypeInv /\ current \in AllThreads /\ (waiter[n] # Null => waiter[n] \in AllThreads)
  BY TypeFacts DEF CoreInv, TypeInv
<1>2. CASE \/ NotifCreate(n)
           \/ \E m \in Masks : NotifWaitTake(n, m) \/ NotifPoll(n, m)
  <2>1. UNCHANGED <<state, reason, taken, ipcSender>> /\ phase' # "recv"
    BY <1>2 DEF NotifCreate, NotifWaitTake, NotifPoll, Return
  <2> QED
    BY <2>1, HoldQuiet DEF Undisturbed
<1>3. CASE \E m \in Masks, cb \in {"none", "wait"} : NotifWaitBlock(n, m, cb)
  <2>1. /\ state' = [state EXCEPT ![current] = "BLOCKED"]
        /\ reason' = [reason EXCEPT ![current] = "NOTIF"]
        /\ UNCHANGED <<taken, ipcSender>> /\ phase' # "recv"
    BY <1>3 DEF NotifWaitBlock, Return
  <2> QED
    BY <1>1, <2>1, HoldMove
<1>4. ASSUME NEW m \in Masks, Signal(n, m), phase' # "recv"
      PROVE  HoldInv'
  <2>1. UNCHANGED <<taken, ipcSender>>
    BY <1>4 DEF Signal
  <2>2. CASE SignalPost(n, m)
    BY <1>1, <1>4, <2>1, <2>2, HoldMove DEF SignalPost
  <2>3. CASE SignalWake(n, m)
    <3>1. PICK w : w = waiter[n]
      OBVIOUS
    <3>2. /\ w # Null
          /\ state' = [state EXCEPT ![w] = "READY"]
          /\ reason' = [reason EXCEPT ![w] = "NONE"]
      BY <2>3, <3>1 DEF SignalWake, SignalWakes
    <3> QED
      BY <1>1, <1>4, <2>1, <3>1, <3>2, HoldMove
  <2> QED
    BY <1>4, <2>2, <2>3 DEF Signal
<1>5. CASE \E m \in Masks : NotifSignal(n, m) \/ IrqDispatch(n, m)
  BY <1>4, <1>5, ReturnOnlyHold DEF NotifSignal, IrqDispatch, Return
<1>6. CASE NotifDestroy(n)
  <2>1. CASE ReturnOnly("notif_destroy", "EINVAL")
    BY <2>1, ReturnOnlyHold
  <2>2. CASE ~ReturnOnly("notif_destroy", "EINVAL")
    <3>1. PICK w : w = waiter[n]
      OBVIOUS
    <3>2. /\ UNCHANGED <<taken, ipcSender>> /\ phase' # "recv"
          /\ \/ UNCHANGED <<state, reason>>
             \/ /\ w # Null
                /\ state' = [state EXCEPT ![w] = "READY"]
                /\ reason' = [reason EXCEPT ![w] = "NONE"]
      BY <1>6, <2>2, <3>1 DEF NotifDestroy, DestroyWakesWaiter, Return
    <3> QED
      BY <1>1, <3>1, <3>2, HoldMove
  <2> QED
    BY <2>1, <2>2
<1>7. CASE \E valid \in BOOLEAN : NotifWaitRefused(n, valid)
  BY <1>7, ReturnOnlyHold DEF NotifWaitRefused
<1> QED
  BY <1>2, <1>3, <1>5, <1>6, <1>7

LEMMA TimedHold ==
  ASSUME CoreInv, HoldInv, NEW t \in Threads,
         SleepCancel(t) \/ TimerFire(t) \/ \E valid \in BOOLEAN : Sleep(valid)
  PROVE  HoldInv'
<1>1. TypeInv /\ current \in AllThreads /\ t \in AllThreads
  BY TypeFacts DEF CoreInv, AllThreads
<1>2. CASE SleepCancel(t)
  <2>1. CASE CancelSleep(t)
    <3>1. /\ state' = [state EXCEPT ![t] = "READY"]
          /\ reason' = [reason EXCEPT ![t] = "NONE"]
          /\ UNCHANGED <<taken, ipcSender>> /\ phase' # "recv"
      BY <2>1 DEF CancelSleep, Return
    <3> QED
      BY <1>1, <3>1, HoldMove
  <2> QED
    BY <1>2, <2>1, ReturnOnlyHold DEF SleepCancel
<1>3. CASE TimerFire(t)
  <2>1. /\ UNCHANGED <<taken, ipcSender>> /\ phase' # "recv"
        /\ \/ UNCHANGED <<state, reason>>
           \/ /\ state' = [state EXCEPT ![t] = "READY"]
              /\ reason' = [reason EXCEPT ![t] = "NONE"]
    BY <1>3 DEF TimerFire, TimeoutWakes
  <2> QED
    BY <1>1, <2>1, HoldMove
<1>4. CASE \E valid \in BOOLEAN : Sleep(valid)
  <2>1. CASE SleepBlock
    <3>1. /\ state' = [state EXCEPT ![current] = "BLOCKED"]
          /\ reason' = [reason EXCEPT ![current] = "SLEEP"]
          /\ UNCHANGED <<taken, ipcSender>> /\ phase' # "recv"
      BY <2>1 DEF SleepBlock, Return
    <3> QED
      BY <1>1, <3>1, HoldMove
  <2> QED
    BY <1>4, <2>1, ReturnOnlyHold DEF Sleep
<1> QED
  BY <1>2, <1>3, <1>4

LEMMA ObjectHold ==
  ASSUME CoreInv, HoldInv, NEW e \in Eps,
         EpCreate(e) \/ EpDestroy(e) \/ \E valid \in BOOLEAN : EpCallRefused(e, valid)
  PROVE  HoldInv'
<1>1. UNCHANGED <<state, reason, taken, ipcSender>> /\ phase' # "recv"
  BY DEF EpCreate, EpDestroy, EpCallRefused, ReturnOnly, Return
<1> QED
  BY <1>1, HoldQuiet DEF Undisturbed

LEMMA DestroyLoopHold ==
  ASSUME CoreInv, HoldInv, EpDestroyNext
  PROVE  HoldInv'
<1>1. TypeInv /\ arg \in Eps
  BY DEF CoreInv, TypeInv, ArgIsEndpoint, EpDestroyNext
<1>2. ASSUME NEW t \in AllThreads, DestroyWake(t)
      PROVE  HoldInv'
  <2>1. /\ state' = [state EXCEPT ![t] = "READY"]
        /\ reason' = [reason EXCEPT ![t] = "NONE"]
        /\ UNCHANGED <<taken, ipcSender, phase>>
    BY <1>2 DEF DestroyWake
  <2>2. phase' # "recv"
    BY <2>1 DEF EpDestroyNext
  <2> QED
    BY <1>1, <2>1, <2>2, HoldMove
<1>3. /\ sendQ[arg] # <<>> => Head(sendQ[arg]) \in AllThreads
      /\ recvQ[arg] # <<>> => Head(recvQ[arg]) \in AllThreads
  BY <1>1, TypeFacts, HeadTailProperties
<1> QED
  BY <1>2, <1>3, ReturnOnlyHold DEF EpDestroyNext

(* A call that queues: the caller, which holds nothing, forgets its sender. *)
LEMMA CallQueueHold ==
  ASSUME CoreInv, HoldInv, NEW e \in Eps, NEW cb, EpCallQueue(e, cb),
         \A c \in AllThreads : ~AwaitsAnswer(c, current)
  PROVE  HoldInv'
<1>1. TypeInv /\ phase = "user" /\ CallerQueues(e, cb)
  BY CallerIsFree DEF CoreInv, EpCallQueue, InUser
<1>2. PICK k : k = current
  OBVIOUS
<1>3. k \in AllThreads /\ state[k] = "RUNNING" /\ reason[k] = "NONE"
  BY <1>1, <1>2, CallerIsFree
<1>4. /\ state' = [state EXCEPT ![k] = "BLOCKED"]
      /\ reason' = [reason EXCEPT ![k] = "CALL"]
      /\ taken' = [taken EXCEPT ![k] = Null]
      /\ ipcSender' = [ipcSender EXCEPT ![k] = Null]
      /\ phase' = "syscall"
  BY <1>1, <1>2 DEF CallerQueues, CallerBlocks, Return
<1>5. /\ taken'[k] = Null
      /\ \A t \in AllThreads \ {k} : /\ state'[t] = state[t] /\ reason'[t] = reason[t]
                                     /\ taken'[t] = taken[t] /\ ipcSender'[t] = ipcSender[t]
  BY <1>1, <1>3, <1>4, TypeFacts, HistoryTypes
<1>6. ASSUME NEW c \in AllThreads, NEW s \in AllThreads, AwaitsAnswer(c, s)'
      PROVE  Remembered(c, s)'
  <2>1. c # k
    BY <1>5, <1>6, IdleNull DEF AwaitsAnswer
  <2>2. AwaitsAnswer(c, s)
    BY <1>5, <1>6, <2>1 DEF AwaitsAnswer
  <2>3. s # k /\ Remembered(c, s)
    BY <1>2, <2>2 DEF HoldInv
  <2> QED
    BY <1>5, <2>3 DEF Remembered
<1> QED
  BY <1>4, <1>6 DEF HoldInv

(* Thread s, for which nobody waits, is handed the request of c.            *)
LEMMA HandedHold ==
  ASSUME HoldInv, NEW c \in AllThreads, NEW s \in AllThreads, c # s, phase' # "recv",
         \A d \in AllThreads : ~AwaitsAnswer(d, s),
         ~(state[c] = "BLOCKED" /\ reason[c] = "CALL" /\ taken[c] # Null),
         taken'[c] = s, ipcSender'[s] = c,
         state'[s] \in {"READY", "RUNNING"}, reason'[s] = "NONE",
         state'[c] = "BLOCKED", reason'[c] = "CALL",
         \A x \in AllThreads : ~AwaitsAnswer(x, c) \/ ipcSender'[c] = ipcSender[c],
         \A t \in AllThreads \ {c, s} :
           /\ state'[t] = state[t] /\ reason'[t] = reason[t]
           /\ taken'[t] = taken[t] /\ ipcSender'[t] = ipcSender[t]
  PROVE  HoldInv'
<1> SUFFICES ASSUME NEW d \in AllThreads, NEW x \in AllThreads, AwaitsAnswer(d, x)'
             PROVE  Remembered(d, x)'
  BY DEF HoldInv
<1>1. CASE d = c
  BY <1>1 DEF AwaitsAnswer, Remembered
<1>2. CASE d # c
  <2>1. d # s
    BY DEF AwaitsAnswer
  <2>2. AwaitsAnswer(d, x)
    BY <1>2, <2>1 DEF AwaitsAnswer
  <2>3. x # s /\ Remembered(d, x)
    BY <2>2 DEF HoldInv
  <2>4. CASE x = c
    BY <2>2, <2>3, <2>4 DEF Remembered
  <2>5. CASE x # c
    BY <2>3, <2>5 DEF Remembered
  <2> QED
    BY <2>4, <2>5
<1> QED
  BY <1>1, <1>2

LEMMA CallDeliverHold ==
  ASSUME CoreInv, HoldInv, NEW e \in Eps, NEW cb, EpCallDeliver(e, cb),
         \A c \in AllThreads : ~AwaitsAnswer(c, current)
  PROVE  HoldInv'
<1>1. TypeInv /\ phase = "user" /\ recvQ[e] # <<>> /\ recvQ' = PopHead(recvQ, e)
  BY DEF CoreInv, EpCallDeliver, InUser
<1>2. PICK c, s : c = current /\ s = Head(recvQ[e])
  OBVIOUS
<1>3. c \in AllThreads /\ state[c] = "RUNNING" /\ reason[c] = "NONE"
  BY <1>1, <1>2, CallerIsFree
<1>4. s \in AllThreads /\ state[s] = "BLOCKED" /\ reason[s] \in {"RECV", "OR_NOTIF"}
  BY <1>1, <1>2, ReceiverPopped DEF ReceiversAt
<1>5. /\ state' = [state EXCEPT ![c] = "BLOCKED", ![s] = "READY"]
      /\ reason' = [reason EXCEPT ![c] = "CALL", ![s] = "NONE"]
      /\ taken' = [taken EXCEPT ![c] = s]
      /\ ipcSender' = [ipcSender EXCEPT ![c] = Null, ![s] = c]
      /\ phase' = "syscall"
  BY <1>2 DEF EpCallDeliver, CallerBlocks, Return
<1>6. \A d \in AllThreads : ~AwaitsAnswer(d, s) /\ ~AwaitsAnswer(d, c)
  BY <1>2, <1>3, <1>4 DEF HoldInv, Remembered
<1>7. /\ c # s /\ taken'[c] = s /\ ipcSender'[s] = c
      /\ state'[c] = "BLOCKED" /\ reason'[c] = "CALL" /\ state'[s] = "READY" /\ reason'[s] = "NONE"
      /\ \A t \in AllThreads \ {c, s} :
           /\ state'[t] = state[t] /\ reason'[t] = reason[t]
           /\ taken'[t] = taken[t] /\ ipcSender'[t] = ipcSender[t]
  BY <1>1, <1>3, <1>4, <1>5, TypeFacts, HistoryTypes
<1> QED
  BY <1>3, <1>4, <1>5, <1>6, <1>7, HandedHold

LEMMA RecvTakeHold ==
  ASSUME CoreInv, HoldInv, phase \in {"user", "recv"}, NEW e \in Eps, NEW name,
         \A c \in AllThreads : ~AwaitsAnswer(c, current), RecvTake(e, name)
  PROVE  HoldInv'
<1>1. TypeInv /\ sendQ[e] # <<>> /\ sendQ' = PopHead(sendQ, e)
  BY DEF CoreInv, RecvTake
<1>2. PICK s, c : s = current /\ c = Head(sendQ[e])
  OBVIOUS
<1>3. s \in AllThreads /\ state[s] = "RUNNING" /\ reason[s] = "NONE"
  BY <1>2, CallerIsFree
<1>4. /\ c \in AllThreads /\ c # s /\ state[c] = "BLOCKED" /\ reason[c] = "CALL"
      /\ taken[c] = Null
  BY <1>1, <1>2, <1>3, SenderPopped DEF CallersAt
<1>5. /\ taken' = [taken EXCEPT ![c] = s] /\ ipcSender' = [ipcSender EXCEPT ![s] = c]
      /\ phase' = "syscall" /\ UNCHANGED <<state, reason>>
  BY <1>2 DEF RecvTake, Return
<1>6. /\ taken'[c] = s /\ ipcSender'[s] = c /\ ipcSender'[c] = ipcSender[c]
      /\ \A t \in AllThreads \ {c, s} : taken'[t] = taken[t] /\ ipcSender'[t] = ipcSender[t]
  BY <1>1, <1>3, <1>4, <1>5, TypeFacts, HistoryTypes
<1> QED
  BY <1>2, <1>3, <1>4, <1>5, <1>6, HandedHold

(* The caller starts to receive; nobody waits for it.                       *)
LEMMA ReceiverHold ==
  ASSUME CoreInv, HoldInv, phase \in {"user", "recv"}, NEW why,
         \A c \in AllThreads : ~AwaitsAnswer(c, current), why # "CALL",
         state' = [state EXCEPT ![current] = "BLOCKED"],
         reason' = [reason EXCEPT ![current] = why],
         ipcSender' \in {ipcSender, [ipcSender EXCEPT ![current] = Null]},
         UNCHANGED taken, phase' # "recv"
  PROVE  HoldInv'
<1>1. TypeInv /\ current \in AllThreads
  BY CallerIsFree DEF CoreInv
<1>2. /\ reason'[current] = why
      /\ \A t \in AllThreads \ {current} : /\ state'[t] = state[t] /\ reason'[t] = reason[t]
                                           /\ ipcSender'[t] = ipcSender[t]
  BY <1>1, TypeFacts
<1> SUFFICES ASSUME NEW c \in AllThreads, NEW s \in AllThreads, AwaitsAnswer(c, s)'
             PROVE  Remembered(c, s)'
  BY DEF HoldInv
<1>3. AwaitsAnswer(c, s)
  BY <1>2 DEF AwaitsAnswer
<1>4. s # current /\ Remembered(c, s)
  BY <1>3 DEF HoldInv
<1> QED
  BY <1>2, <1>4 DEF Remembered

LEMMA ReceiveHold ==
  ASSUME CoreInv, HoldInv, phase \in {"user", "recv"}, NEW e \in Eps, NEW name,
         \A c \in AllThreads : ~AwaitsAnswer(c, current),
         RecvTake(e, name) \/ RecvBlock(e, name) \/ ReturnOnly(name, "EINVAL")
  PROVE  HoldInv'
<1>1. CASE RecvBlock(e, name)
  <2>1. ReceiverQueues(e, name)
    BY <1>1, CallerIsFree DEF RecvBlock
  <2>2. /\ state' = [state EXCEPT ![current] = "BLOCKED"]
        /\ reason' = [reason EXCEPT ![current] = "RECV"]
        /\ UNCHANGED <<taken, ipcSender>> /\ phase' # "recv"
    BY <2>1 DEF ReceiverQueues, Return
  <2> QED
    BY <2>2, ReceiverHold
<1> QED
  BY <1>1, RecvTakeHold, ReturnOnlyHold

LEMMA RecvOrNotifHold ==
  ASSUME CoreInv, HoldInv, NEW e \in Eps, NEW n \in Notifs, NEW m, EpRecvOrNotif(e, n, m),
         \A c \in AllThreads : ~AwaitsAnswer(c, current)
  PROVE  HoldInv'
<1>1. phase = "user"
  BY DEF EpRecvOrNotif, InUser
<1>2. CASE RecvOrNotifBits(e, n, m)
  <2>1. UNCHANGED <<state, reason, taken, ipcSender>> /\ phase' # "recv"
    BY <1>2 DEF RecvOrNotifBits, Return
  <2> QED
    BY <2>1, HoldQuiet DEF Undisturbed
<1>3. CASE RecvOrNotifBlock(e, n, m)
  <2>1. ReceiverWaits(e, n, m)
    BY <1>1, <1>3, CallerIsFree DEF RecvOrNotifBlock
  <2>2. /\ state' = [state EXCEPT ![current] = "BLOCKED"]
        /\ reason' = [reason EXCEPT ![current] = "OR_NOTIF"]
        /\ ipcSender' = [ipcSender EXCEPT ![current] = Null]
        /\ UNCHANGED taken /\ phase' # "recv"
    BY <2>1 DEF ReceiverWaits, Return
  <2> QED
    BY <1>1, <2>2, ReceiverHold
<1> QED
  BY <1>1, <1>2, <1>3, RecvTakeHold, ReturnOnlyHold DEF EpRecvOrNotif

(* A reply ends a wait; it does not touch ipc_sender.                       *)
LEMMA ReplyHold ==
  ASSUME CoreInv, HoldInv, NEW c \in Threads, EpReply(c)
  PROVE  HoldInv'
<1>1. TypeInv /\ c \in AllThreads
  BY DEF CoreInv, AllThreads
<1>2. /\ UNCHANGED <<taken, ipcSender>> /\ phase' # "recv"
      /\ \/ UNCHANGED <<state, reason>>
         \/ /\ state' = [state EXCEPT ![c] = "READY"]
            /\ reason' = [reason EXCEPT ![c] = "NONE"]
  BY DEF EpReply, ReplyTo, Return
<1> QED
  BY <1>1, <1>2, HoldMove

LEMMA ReplyRecvHold ==
  ASSUME CoreInv, HoldInv, NEW e \in Eps, NEW c \in Threads \cup {Null}, EpReplyRecv(e, c),
         \A d \in AllThreads \ {c} : ~AwaitsAnswer(d, current)
  PROVE  HoldInv'
<1>1. TypeInv /\ phase = "user" /\ UNCHANGED <<taken, ipcSender, current>>
  BY DEF CoreInv, EpReplyRecv, InUser
<1>2. PICK k : k = current
  OBVIOUS
<1>3. k \in AllThreads /\ Threads \subseteq AllThreads
  BY <1>1, <1>2, CallerIsFree DEF AllThreads
<1>4. CASE c # Null /\ CanReply(c) /\ ReplyTo(c)
  <2>1. /\ state' = [state EXCEPT ![c] = "READY"]
        /\ reason' = [reason EXCEPT ![c] = "NONE"]
    BY <1>4 DEF ReplyTo
  <2>2. /\ c \in AllThreads /\ state'[c] = "READY" /\ reason'[c] = "NONE"
        /\ \A t \in AllThreads \ {c} : state'[t] = state[t] /\ reason'[t] = reason[t]
    BY <1>1, <1>3, <1>4, <2>1, TypeFacts
  <2>3. \A d, s \in AllThreads : AwaitsAnswer(d, s)' => AwaitsAnswer(d, s) /\ d # c
    BY <1>1, <2>2 DEF AwaitsAnswer
  <2>4. \A s \in AllThreads : state[s] # "DEAD" => state'[s] # "DEAD"
    BY <2>2
  <2>5. \A s \in AllThreads : reason'[s] \in {"RECV", "OR_NOTIF"} => reason'[s] = reason[s]
    BY <2>2
  <2>6. \A d, s \in AllThreads : AwaitsAnswer(d, s)' => Remembered(d, s)'
    BY <1>1, <2>3, <2>4, <2>5 DEF HoldInv, Remembered
  <2>7. \A d \in AllThreads : ~AwaitsAnswer(d, k)'
    BY <1>2, <1>3, <2>3
  <2> QED
    BY <1>1, <1>2, <2>6, <2>7 DEF HoldInv
<1>5. CASE /\ c = Null \/ ~CanReply(c)
           /\ UNCHANGED <<rq, needsResched, prios, block, resume, timer>>
  <2>1. UNCHANGED <<state, reason>>
    BY <1>5
  <2>2. \A d \in AllThreads : ~AwaitsAnswer(d, current)
    <3>1. c \in Threads /\ state[c] = "BLOCKED" => registered[c] /\ c # Null
      BY <1>3, IdleNull DEF CoreInv, CpuInv, FreedIsDead
    <3>2. c \in Threads => ~AwaitsAnswer(c, current)
      BY <1>5, <3>1 DEF AwaitsAnswer, CanReply, Alive
    <3> QED
      BY <3>2, IdleNull
  <2> QED
    BY <1>1, <2>1, <2>2 DEF HoldInv, AwaitsAnswer, Remembered
<1> QED
  BY <1>4, <1>5 DEF EpReplyRecv

-----------------------------------------------------------------------------
(* Threads and the trap exit.                                               *)

LEMMA ThreadHold ==
  ASSUME CoreInv, HoldInv, NEW t \in Threads, NEW p \in Prio,
         Spawn(t, p) \/ SetPrio(t, p) \/ Yield
  PROVE  HoldInv'
<1>1. TypeInv /\ t \in AllThreads /\ phase = "user" /\ current \in AllThreads
  BY TypeFacts DEF CoreInv, AllThreads, Spawn, SetPrio, Yield, InUser
<1>2. CASE Spawn(t, p)
  <2>1. state[t] = "DEAD" /\ ThreadInit(t, p)
    BY <1>1, <1>2, UnblockedIsFree DEF Spawn, CoreInv, CpuInv, FreedIsDead
  <2>2. /\ state' = [state EXCEPT ![t] = "READY"]
        /\ reason' = [reason EXCEPT ![t] = "NONE"]
        /\ taken' = [taken EXCEPT ![t] = Null]
        /\ ipcSender' = [ipcSender EXCEPT ![t] = Null]
        /\ phase' = "syscall"
    BY <2>1 DEF ThreadInit
  <2>3. /\ state'[t] = "READY" /\ reason'[t] = "NONE"
        /\ \A x \in AllThreads \ {t} : /\ state'[x] = state[x] /\ reason'[x] = reason[x]
                                       /\ taken'[x] = taken[x] /\ ipcSender'[x] = ipcSender[x]
    BY <1>1, <2>2, TypeFacts, HistoryTypes
  <2>4. \A x \in AllThreads : Undisturbed(x)
    BY <2>1, <2>3 DEF Undisturbed
  <2> QED
    BY <2>2, <2>4, HoldQuiet
<1>3. CASE SetPrio(t, p)
  <2>1. UNCHANGED <<state, reason, taken, ipcSender>> /\ phase' # "recv"
    BY <1>3 DEF SetPrio, SetPrioLive, ReturnOnly, Return
  <2> QED
    BY <2>1, HoldQuiet DEF Undisturbed
<1>4. CASE Yield
  <2>1. /\ state' = [state EXCEPT ![current] = "READY"]
        /\ phase' = "syscall" /\ UNCHANGED <<reason, taken, ipcSender>>
    BY <1>4 DEF Yield, Return
  <2>2. /\ state'[current] = "READY"
        /\ \A x \in AllThreads \ {current} : state'[x] = state[x]
    BY <1>1, <2>1, TypeFacts
  <2>3. \A x \in AllThreads : Undisturbed(x)
    BY <2>1, <2>2 DEF Undisturbed
  <2> QED
    BY <2>1, <2>3, HoldQuiet
<1> QED
  BY <1>2, <1>3, <1>4

(* Who exits holds nothing.                                                 *)
LEMMA ExitHold ==
  ASSUME CoreInv, HoldInv, Exit, \A c \in AllThreads : ~AwaitsAnswer(c, current)
  PROVE  HoldInv'
<1>1. TypeInv /\ current \in AllThreads
  BY TypeFacts DEF CoreInv
<1>2. /\ state' = [state EXCEPT ![current] = "DEAD"]
      /\ phase' = "syscall" /\ UNCHANGED <<reason, taken, ipcSender>>
  BY DEF Exit, Return
<1>3. state'[current] = "DEAD" /\ \A x \in AllThreads \ {current} : state'[x] = state[x]
  BY <1>1, <1>2, TypeFacts
<1> SUFFICES ASSUME NEW c \in AllThreads, NEW s \in AllThreads, AwaitsAnswer(c, s)'
             PROVE  Remembered(c, s)'
  BY <1>2 DEF HoldInv
<1>4. AwaitsAnswer(c, s)
  BY <1>2, <1>3 DEF AwaitsAnswer
<1>5. s # current /\ Remembered(c, s)
  BY <1>4 DEF HoldInv
<1> QED
  BY <1>2, <1>3, <1>5 DEF Remembered

(* Who is killed takes along the wait of the caller it remembers.           *)
LEMMA KillHold ==
  ASSUME CoreInv, HoldInv, NEW t \in Threads, Kill(t)
  PROVE  HoldInv'
<1>1. TypeInv /\ t \in AllThreads
  BY DEF CoreInv, AllThreads
<1>2. CASE ReturnOnly("kill", "ESRCH")
  BY <1>2, ReturnOnlyHold
<1>3. CASE Alive(t) /\ KillLocal(t)
  <2>1. PICK P : P = KillPeer(t)
    OBVIOUS
  <2>2. P # {} => P = {ipcSender[t]} /\ ipcSender[t] \in AllThreads
    BY <1>1, <2>1, KillPeerFacts
  <2>3. /\ state' = [Put(state, P, "READY") EXCEPT ![t] = "DEAD"]
        /\ reason' = Put(reason, P, "NONE")
        /\ ipcSender' = [ipcSender EXCEPT ![t] = Null]
        /\ phase' = "syscall" /\ UNCHANGED taken
    BY <1>3, <2>1 DEF KillLocal, Return
  <2>4. \A x \in AllThreads :
          /\ state'[x] = IF x = t THEN "DEAD" ELSE IF x \in P THEN "READY" ELSE state[x]
          /\ reason'[x] = IF x \in P THEN "NONE" ELSE reason[x]
          /\ x # t => ipcSender'[x] = ipcSender[x]
    BY <1>1, <2>3, TypeFacts DEF Put
  <2> SUFFICES ASSUME NEW c \in AllThreads, NEW s \in AllThreads, AwaitsAnswer(c, s)'
               PROVE  Remembered(c, s)'
    BY <2>3 DEF HoldInv
  <2>5. AwaitsAnswer(c, s) /\ c \notin P
    BY <2>3, <2>4 DEF AwaitsAnswer
  <2>6. Remembered(c, s)
    BY <2>5 DEF HoldInv
  <2>7. s # t
    <3>1. c # Null /\ registered[c]
      BY <2>5, IdleNull DEF AwaitsAnswer, CoreInv, CpuInv, FreedIsDead
    <3>2. s = t => ipcSender[t] = c /\ c \in KillPeer(t)
      BY <2>5, <2>6, <3>1 DEF Remembered, KillPeer, Alive, AwaitsAnswer
    <3> QED
      BY <2>1, <2>5, <3>2
  <2> QED
    BY <2>4, <2>6, <2>7 DEF Remembered
<1> QED
  BY <1>2, <1>3 DEF Kill

LEMMA TrapExitHold ==
  ASSUME CoreInv, FitInv, HoldInv, TrapDispatch \/ SyscallRetResolve
  PROVE  HoldInv'
<1>1. TypeInv
  BY DEF CoreInv
<1>2. CASE TrapDispatch
  <2>1. UNCHANGED <<taken, reason, ipcSender>>
    BY <1>2 DEF TrapDispatch
  <2>2. \A t \in AllThreads : IF state[t] \in {"READY", "RUNNING"}
                              THEN state'[t] \in {"READY", "RUNNING"} ELSE state'[t] = state[t]
    <3>1. PICK W : W = {t \in AllThreads : state[t] \in {"READY", "RUNNING"}}
      OBVIOUS
    <3> QED
      BY <1>2, <3>1, DispatchMoves
  <2>3. phase' # "recv"
    BY <1>2 DEF TrapDispatch, DispatchStay, DispatchSwitch, DispatchPreempt, SwitchFrom, AfterTrap
  <2> QED
    BY <2>1, <2>2, <2>3, HoldQuiet DEF Undisturbed
<1>3. CASE SyscallRetResolve
  <2>1. current \in AllThreads /\ state[current] = "RUNNING"
    BY <1>1, <1>3, TypeFacts DEF CoreInv, CpuInv, RunsOnCpu, SyscallRetResolve
  <2>2. /\ taken' = [taken EXCEPT ![current] = Null] /\ phase' = "user"
        /\ UNCHANGED <<state, reason, ipcSender>>
    BY <1>3 DEF SyscallRetResolve
  <2>3. \A t \in AllThreads \ {current} : taken'[t] = taken[t]
    BY <1>1, <2>1, <2>2, HistoryTypes
  <2> QED
    BY <2>1, <2>2, <2>3, HoldQuiet DEF Undisturbed
<1> QED
  BY <1>2, <1>3

-----------------------------------------------------------------------------
(* The theorem.                                                             *)

(* The calls that need AnswersFirst show their name in op.                  *)
LEMMA DutyCalls ==
  ASSUME CoreInv, AnswersFirst, NEW e \in Eps,
         \/ EpRecv(e)
         \/ \E cb \in {"none", "call"} : EpCallQueue(e, cb) \/ EpCallDeliver(e, cb)
         \/ \E n \in Notifs, m \in Masks : EpRecvOrNotif(e, n, m)
  PROVE  phase = "user" /\ \A c \in AllThreads : ~AwaitsAnswer(c, current)
<1>1. phase = "user"
  BY DEF EpRecv, EpCallQueue, EpCallDeliver, EpRecvOrNotif, InUser
<1>2. TypeInv /\ current \in AllThreads /\ ~IpcLinked(current)
  BY <1>1, CallerIsFree DEF CoreInv
<1>3. \E name \in {"ep_call", "ep_recv", "ep_recv_or_notif"} : \E r : Return(name, r)
  <2>1. CASE EpRecv(e)
    BY <1>2, <2>1 DEF EpRecv, RecvTake, RecvBlock, ReceiverQueues, ReturnOnly
  <2>2. CASE \E cb \in {"none", "call"} : EpCallQueue(e, cb) \/ EpCallDeliver(e, cb)
    BY <1>2, <2>2 DEF EpCallQueue, CallerQueues, EpCallDeliver, CallerBlocks
  <2>3. CASE \E n \in Notifs, m \in Masks : EpRecvOrNotif(e, n, m)
    BY <1>2, <2>3 DEF EpRecvOrNotif, RecvOrNotifBits, RecvTake, RecvOrNotifBlock,
       ReceiverWaits, ReturnOnly
  <2> QED
    BY <2>1, <2>2, <2>3
<1>4. op'[current] \in {"ep_call", "ep_recv", "ep_recv_or_notif"}
  BY <1>2, <1>3, FieldTypes DEF Return
<1> QED
  BY <1>1, <1>4 DEF AnswersFirst

LEMMA DutySyscall ==
  ASSUME CoreInv, HoldInv, Syscall, AnswersFirst
  PROVE  HoldInv'
<1>1. CASE \E e \in Eps :
             \/ EpCreate(e) \/ EpDestroy(e)
             \/ \E valid \in BOOLEAN : EpCallRefused(e, valid)
  BY <1>1, ObjectHold
<1>2. CASE \E e \in Eps :
             \/ EpRecv(e)
             \/ \E cb \in {"none", "call"} : EpCallQueue(e, cb) \/ EpCallDeliver(e, cb)
             \/ \E n \in Notifs, m \in Masks : EpRecvOrNotif(e, n, m)
  <2>1. PICK e \in Eps :
          \/ EpRecv(e)
          \/ \E cb \in {"none", "call"} : EpCallQueue(e, cb) \/ EpCallDeliver(e, cb)
          \/ \E n \in Notifs, m \in Masks : EpRecvOrNotif(e, n, m)
    BY <1>2
  <2>2. phase = "user" /\ \A c \in AllThreads : ~AwaitsAnswer(c, current)
    BY <2>1, DutyCalls
  <2>3. EpRecv(e) => HoldInv'
    BY <2>2, ReceiveHold DEF EpRecv
  <2> QED
    BY <2>1, <2>2, <2>3, CallQueueHold, CallDeliverHold, RecvOrNotifHold
<1>3. CASE \E n \in Notifs :
             \/ NotifCreate(n) \/ NotifDestroy(n)
             \/ \E valid \in BOOLEAN : NotifWaitRefused(n, valid)
             \/ \E m \in Masks :
                  \/ NotifSignal(n, m) \/ NotifWaitTake(n, m) \/ NotifPoll(n, m)
                  \/ \E cb \in {"none", "wait"} : NotifWaitBlock(n, m, cb)
  BY <1>3, NotifHold
<1>4. CASE \/ \E valid \in BOOLEAN : Sleep(valid)
           \/ \E t \in Threads : SleepCancel(t) \/ Kill(t)
  BY <1>4, RootAssumption, TimedHold, KillHold
<1>5. CASE Yield \/ \E t \in Threads, p \in Prio : Spawn(t, p) \/ SetPrio(t, p)
  <2>1. 0 \in Prio
    BY MaxPrioAssumption DEF Prio
  <2> QED
    BY <1>5, <2>1, RootAssumption, ThreadHold
<1>6. CASE Exit
  <2>1. op'[current] = "exit"
    BY <1>6, TypeFacts, FieldTypes DEF CoreInv, Exit, Return
  <2>2. \A c \in AllThreads : ~AwaitsAnswer(c, current)
    BY <2>1 DEF AnswersFirst
  <2> QED
    BY <1>6, <2>2, ExitHold
<1> QED
  BY <1>1, <1>2, <1>3, <1>4, <1>5, <1>6, Zenon DEF Syscall

LEMMA DutyStep ==
  ASSUME CoreInv, FitInv, HoldInv, [DutyNext]_vars
  PROVE  HoldInv' /\ [CoreNext]_vars
<1>1. ReplySafe \subseteq Threads
  BY DEF ReplySafe
<1>2. CASE Duties
  <2>1. CASE Syscall /\ AnswersFirst
    BY <2>1, DutySyscall DEF CoreNext
  <2>2. CASE \E c \in ReplySafe : EpReply(c)
    BY <1>1, <2>2, ReplyHold DEF CoreNext, Replies
  <2>3. CASE \E e \in Eps, c \in ReplySafe \cup {Null} :
               EpReplyRecv(e, c) /\ \A d \in AllThreads \ {c} : ~AwaitsAnswer(d, current)
    BY <1>1, <2>3, ReplyRecvHold DEF CoreNext, Replies
  <2> QED
    BY <1>2, <2>1, <2>2, <2>3 DEF Duties
<1>3. CASE Interrupt
  BY <1>3, TimedHold, NotifHold DEF Interrupt, CoreNext
<1>4. CASE KernelStep
  <2>1. CASE EpReplyRecvTail
    <3>1. phase = "recv" /\ arg \in Eps /\ \A c \in AllThreads : ~AwaitsAnswer(c, current)
      BY <2>1 DEF EpReplyRecvTail, CoreInv, TypeInv, ArgIsEndpoint, HoldInv
    <3> QED
      BY <1>4, <2>1, <3>1, ReceiveHold DEF EpReplyRecvTail, CoreNext
  <2> QED
    BY <1>4, <2>1, DestroyLoopHold, TrapExitHold DEF KernelStep, CoreNext
<1>5. CASE IdleLoop \/ UNCHANGED vars
  BY <1>5 DEF IdleLoop, vars, HoldInv, AwaitsAnswer, Remembered, CoreNext
<1> QED
  BY <1>2, <1>3, <1>4, <1>5 DEF DutyNext

LEMMA InitHold == Init => HoldInv
<1> SUFFICES ASSUME Init
             PROVE  HoldInv
  OBVIOUS
<1>1. phase = "user" /\ \A t \in AllThreads : reason[t] = "NONE"
  BY DEF Init
<1> QED
  BY <1>1 DEF HoldInv, AwaitsAnswer

(* No caller is left waiting for a dead server, whoever kills whom, times   *)
(* out or is spawned again, as long as a thread with a request in hand      *)
(* answers it before it receives, calls or exits (thread_kill_local, which  *)
(* finds one caller through ipc_sender).                                    *)
THEOREM NobodyOrphaned == DutySpec => []NoOrphanedCaller
<1>1. Init => CoreInv /\ FitInv /\ HoldInv
  BY InitCore, InitFit, InitHold
<1>2. CoreInv /\ FitInv /\ HoldInv /\ [DutyNext]_vars => CoreInv' /\ FitInv' /\ HoldInv'
  BY DutyStep, CoreNextCore, FitStep
<1>3. CoreInv /\ HoldInv => NoOrphanedCaller
  <2> SUFFICES ASSUME CoreInv, HoldInv, NEW c \in Threads,
                      state[c] = "BLOCKED", reason[c] = "CALL", taken[c] # Null
               PROVE  state[taken[c]] # "DEAD"
    BY DEF NoOrphanedCaller
  <2>1. c \in AllThreads /\ taken[c] \in AllThreads
    BY HistoryTypes DEF CoreInv, AllThreads
  <2>2. AwaitsAnswer(c, taken[c])
    BY DEF AwaitsAnswer
  <2> QED
    BY <2>1, <2>2 DEF HoldInv, Remembered
<1> QED
  BY <1>1, <1>2, <1>3, PTL DEF DutySpec
=============================================================================
