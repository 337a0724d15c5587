------------------------------ MODULE RunQueue ------------------------------
(***************************************************************************)
(* The bitmap_rt scheduling class of one CPU (kernel/sched/bitmap_rt.c).   *)
(*                                                                         *)
(* A run queue is a record: `level' holds one FIFO list per priority and   *)
(* `bitmap' the set of priorities whose bit is set.  The two are updated   *)
(* separately by the code, so the model keeps both: a stale bit, or a      *)
(* thread on a list other than the one its priority names, is a state the  *)
(* operators can express.  The operators are pure; Kernel applies them.    *)
(***************************************************************************)
EXTENDS Naturals, Sequences, FiniteSetsExt, DList

CONSTANTS
  Threads,      \* TCB slots of root and of the spawned threads
  Idle,         \* the idle thread, which no system call can name
  MaxPrio       \* lowest priority (255 in the code), the idle thread's

ASSUME ThreadsAssumption == Idle \notin Threads
ASSUME MaxPrioAssumption == MaxPrio \in Nat

AllThreads == Threads \cup {Idle}
Prio == 0 .. MaxPrio

RqType == [level : [Prio -> Seq(AllThreads)], bitmap : SUBSET Prio]

(* sys_dnode_is_linked(&t->sched_node)                                      *)
RqLinked(q, t) == \E p \in Prio : t \in Range(q.level[p])

(* Lowest set bit, or 255 when the bitmap is empty.                         *)
RqFirstHighest(q) == IF q.bitmap = {} THEN MaxPrio ELSE Max(q.bitmap)
RqFirst(q) == IF q.bitmap = {} THEN MaxPrio ELSE Min(q.bitmap)

(* Append at the tail of level p unless t is already on some list.          *)
RqEnqueue(q, t, p) ==
  IF RqLinked(q, t) THEN q
  ELSE [level  |-> [q.level EXCEPT ![p] = Append(@, t)],
        bitmap |-> q.bitmap \cup {p}]

(* Mutant: the thread stays linked.                                         *)
RqDequeueForgotten(q, t, p) == q

(* Take t off whichever list holds it.  The bit cleared is the one of       *)
(* t->priority, p, whether or not that is the list t was on.                *)
RqDequeue(q, t, p) ==
  IF ~RqLinked(q, t) THEN q
  ELSE LET lv == [x \in Prio |-> Unlink(q.level[x], t)]
       IN  [level  |-> lv,
            bitmap |-> IF lv[p] = <<>> THEN q.bitmap \ {p} ELSE q.bitmap]

(* pick_next and peek_next look at one level only: the first set bit's.     *)
(* An empty level there means NULL; sched_switch_to turns NULL into idle.   *)
RqNext(q, none) ==
  IF q.level[RqFirst(q)] = <<>> THEN none ELSE Head(q.level[RqFirst(q)])

RqPopKeepsBit(q) ==
  [q EXCEPT !.level = [@ EXCEPT ![RqFirst(q)] = IF @ = <<>> THEN @ ELSE Tail(@)]]
RqPop(q) ==
  LET p == RqFirst(q)
  IN  IF q.level[p] = <<>> THEN q
      ELSE [level  |-> [q.level EXCEPT ![p] = Tail(@)],
            bitmap |-> IF Tail(q.level[p]) = <<>> THEN q.bitmap \ {p}
                                                  ELSE q.bitmap]

(* What the class must keep: every list entry is on the list of its thread's*)
(* priority, once, and a bit is set exactly for the non-empty lists.        *)
RqConsistent(q, prio) ==
  /\ \A p \in Prio :
        /\ p \in q.bitmap <=> q.level[p] # <<>>
        /\ \A i \in DOMAIN q.level[p] : prio[q.level[p][i]] = p
        /\ IsInjective(q.level[p])
=============================================================================
