------------------------------- MODULE XCall -------------------------------
(***************************************************************************)
(* Cross-CPU calls (kernel/sched/xcall.c) and what they are used for: a    *)
(* thread is killed on its own CPU (kernel/thread/thread.c), and a CPU     *)
(* whose running thread lost a memory area is flushed before the area's    *)
(* block is freed (mem_settle, kernel/mem/mem.c).                          *)
(*                                                                         *)
(* `stack' is each CPU's kernel stack: one frame per ulmk_xcall that has   *)
(* not returned, per request being served and per mem_settle in progress.  *)
(* A request lives in its caller's frame, so the pointer to it is the CPU  *)
(* and the position of that frame.  One step is one critical section of a  *)
(* slot lock.  All CPUs are online; results are left out.                  *)
(*                                                                         *)
(* An area is a heap block; `holds' says which threads have it, or an alias*)
(* granted from it, in their set: the thread each CPU runs, named by its   *)
(* CPU, and one that is not running (Parked).  Context switches are left   *)
(* out: one only drops the CPU's windows.                                  *)
(***************************************************************************)
EXTENDS Naturals, Sequences, FiniteSets

CONSTANTS
  Cpus,         \* the CPUs
  Areas,        \* backed memory areas
  Parked,       \* a thread that is not running
  MaxCalls,     \* kills, drops and deaths there are in all
  Null          \* NULL

ASSUME CpusAssumption ==
  IsFiniteSet(Cpus) /\ Parked \notin Cpus /\ MaxCalls \in Nat /\ Null \notin Cpus \X Nat

Holders == Cpus \cup {Parked}

VARIABLES
  slot,         \* pc->xcall
  ipi,          \* an IPI is pending
  stack,        \* the kernel stack, oldest frame first
  window,       \* areas the CPU can reach through its MPU
  holds,        \* the threads that have the area in their set
  above,        \* for each of them, those it was derived from
  heap,         \* areas whose block is free
  calls         \* kills, drops and deaths still to come

vars == <<slot, ipi, stack, window, holds, above, heap, calls>>
memory == <<window, holds, above, heap>>

Pointers == Cpus \X Nat

(* "post": trying to fill the target's slot; "relieve": about to serve its  *)
(* own because that failed; "ipi": about to send the IPI; "serve", "check": *)
(* the two halves of the wait loop.                                         *)
Posting == {"post", "relieve"}
Waiting == {"ipi", "serve", "check"}
CallFrame(d, f)   == [op |-> "post", dst |-> d, fn |-> f, done |-> FALSE]
RunFrame(x, f)    == [op |-> "run", req |-> x, fn |-> f]
SettleFrame(S, F) == [op |-> "settle", todo |-> S, free |-> F]
Frames ==
       [op : Posting \cup Waiting, dst : Cpus, fn : {"kill", "flush"}, done : BOOLEAN]
  \cup [op : {"run", "ran"}, req : Pointers, fn : {"kill", "flush"}]
  \cup [op : {"settle"}, todo : SUBSET Cpus, free : SUBSET Areas]

(* Slots hold requests, frames are of one of the three kinds, and no thread *)
(* has an area in its set whose block is free.                              *)
TypeOK ==
  /\ slot \in [Cpus -> Pointers \cup {Null}]
  /\ ipi \in [Cpus -> BOOLEAN]
  /\ stack \in [Cpus -> Seq(Frames)]
  /\ window \in [Cpus -> SUBSET Areas]
  /\ holds \in [Areas -> SUBSET Holders]
  /\ above \in [Areas -> [Holders -> SUBSET Holders]]
  /\ heap \in SUBSET {a \in Areas : holds[a] = {}}
  /\ calls \in 0 .. MaxCalls

Init ==
  /\ slot = [c \in Cpus |-> Null]
  /\ ipi = [c \in Cpus |-> FALSE]
  /\ stack = [c \in Cpus |-> <<>>]
  /\ window = [c \in Cpus |-> {}]
  /\ holds = [a \in Areas |-> {}]
  /\ above = [a \in Areas |-> [h \in Holders |-> {}]]
  /\ heap = Areas
  /\ calls = MaxCalls

-----------------------------------------------------------------------------
InUser(c) == stack[c] = <<>>
Top(c)    == stack[c][Len(stack[c])]
At(c, o)  == ~InUser(c) /\ Top(c).op = o
Below(c)  == SubSeq(stack[c], 1, Len(stack[c]) - 1)
ReplaceTop(c, fs) == [stack EXCEPT ![c] = Below(c) \o fs]

(* ulmk_xcall_service, first half: take the request out of the CPU's slot.  *)
(* fs is what the serving loop leaves of its own frame.                     *)
TakeKeepsSlot(c) == slot
Take(c) == [slot EXCEPT ![c] = Null]

Service(c, fs) ==
  \/ /\ slot[c] = Null
     /\ stack' = [stack EXCEPT ![c] = fs]
     /\ UNCHANGED slot
  \/ /\ slot[c] # Null
     /\ slot' = Take(c)
     /\ LET x == slot[c]
        IN stack' = [stack EXCEPT ![c] =
                       Append(fs, RunFrame(x, stack[x[1]][x[2]].fn))]

(* The second half: publish the result in the caller's frame.               *)
Finish(c) ==
  /\ At(c, "ran")
  /\ LET x == Top(c).req
     IN stack' = [ReplaceTop(c, <<>>) EXCEPT ![x[1]][x[2]].done = TRUE]
  /\ UNCHANGED <<slot, ipi, memory, calls>>

(* ulmk_kern_ipi_from_isr: taken once the CPU runs with interrupts on.      *)
IpiFromIsr(c) ==
  /\ InUser(c) /\ ipi[c]
  /\ ipi' = [ipi EXCEPT ![c] = FALSE]
  /\ Service(c, <<>>)
  /\ UNCHANGED <<memory, calls>>

(* ulmk_xcall: the posting loop.                                            *)
Post(c) ==
  /\ At(c, "post")
  /\ \/ /\ slot[Top(c).dst] = Null
        /\ slot' = [slot EXCEPT ![Top(c).dst] = <<c, Len(stack[c])>>]
        /\ stack' = ReplaceTop(c, <<[Top(c) EXCEPT !.op = "ipi"]>>)
     \/ /\ slot[Top(c).dst] # Null
        /\ stack' = ReplaceTop(c, <<[Top(c) EXCEPT !.op = "relieve"]>>)
        /\ UNCHANGED slot
  /\ UNCHANGED <<ipi, memory, calls>>

Relieve(c) ==
  /\ At(c, "relieve")
  /\ Service(c, Below(c) \o <<[Top(c) EXCEPT !.op = "post"]>>)
  /\ UNCHANGED <<ipi, memory, calls>>

SendIpi(c) ==
  /\ At(c, "ipi")
  /\ ipi' = [ipi EXCEPT ![Top(c).dst] = TRUE]
  /\ stack' = ReplaceTop(c, <<[Top(c) EXCEPT !.op = "serve"]>>)
  /\ UNCHANGED <<slot, memory, calls>>

(* ulmk_xcall: the wait loop.                                               *)
WaitServeNothing(c) ==
  /\ At(c, "serve")
  /\ stack' = ReplaceTop(c, <<[Top(c) EXCEPT !.op = "check"]>>)
  /\ UNCHANGED <<slot, ipi, memory, calls>>
WaitServe(c) ==
  /\ At(c, "serve")
  /\ Service(c, Below(c) \o <<[Top(c) EXCEPT !.op = "check"]>>)
  /\ UNCHANGED <<ipi, memory, calls>>

WaitCheck(c) ==
  /\ At(c, "check")
  /\ stack' = ReplaceTop(c, IF Top(c).done THEN <<>>
                            ELSE <<[Top(c) EXCEPT !.op = "serve"]>>)
  /\ UNCHANGED <<slot, ipi, memory, calls>>

-----------------------------------------------------------------------------
(* ulmk_kern_area_dropped, for the threads G that lose an area: the CPU's   *)
(* own window goes at once, the other CPUs that run one are shot down.      *)
ShootdownNone(c, G) == {}
Shootdown(c, G) == (G \cap Cpus) \ {c}

(* The threads G lose area a.  An orphaned record between two others, or    *)
(* above them, only passes on what is derived from it (set_release).        *)
Lose(a, G) ==
  /\ holds' = [holds EXCEPT ![a] = @ \ G]
  /\ above' = [above EXCEPT ![a] =
                 [h \in Holders |-> IF h \in G THEN {} ELSE @[h] \ G]]

(* release_up: the block goes with the last area that refers to it.         *)
Retired(a, G) == IF holds[a] \subseteq G THEN {a} ELSE {}

(* mem_settle: flush the CPUs of the mask in turn, then free the blocks     *)
(* that were on the list when it began.  The code goes up in CPU number.    *)
Settle(c) ==
  /\ At(c, "settle")
  /\ \/ /\ Top(c).todo # {}
        /\ \E d \in Top(c).todo :
             stack' = ReplaceTop(c, <<[Top(c) EXCEPT !.todo = @ \ {d}],
                                      CallFrame(d, "flush")>>)
        /\ UNCHANGED heap
     \/ /\ Top(c).todo = {}
        /\ stack' = ReplaceTop(c, <<>>)
        /\ heap' = heap \cup Top(c).free
  /\ UNCHANGED <<slot, ipi, window, holds, above, calls>>

(* mpu_flush_xcall                                                          *)
RunFlush(c) ==
  /\ At(c, "run") /\ Top(c).fn = "flush"
  /\ window' = [window EXCEPT ![c] = {}]
  /\ stack' = ReplaceTop(c, <<[Top(c) EXCEPT !.op = "ran"]>>)
  /\ UNCHANGED <<slot, ipi, holds, above, heap, calls>>

(* thread_kill_local on CPU c, which keeps fs.  A thread that is not running*)
(* is freed and its area released: nothing of it is live.  The running one, *)
(* or one without areas, loses nothing here; the former is left to Reap.    *)
KillParked(c, fs, a) ==
  /\ Parked \in holds[a]
  /\ Lose(a, {Parked})
  /\ stack' = [stack EXCEPT ![c] = Append(fs, SettleFrame({}, Retired(a, {Parked})))]
  /\ UNCHANGED <<slot, ipi, window, heap>>

KillHoldingNone(c, fs) ==
  /\ stack' = [stack EXCEPT ![c] = fs]
  /\ UNCHANGED <<slot, ipi, memory>>

RunKill(c, D) ==
  /\ At(c, "run") /\ Top(c).fn = "kill"
  /\ LET fs == Below(c) \o <<[Top(c) EXCEPT !.op = "ran"]>>
     IN  (\E a \in D : KillParked(c, fs, a)) \/ KillHoldingNone(c, fs)
  /\ UNCHANGED calls

-----------------------------------------------------------------------------
(* System calls.                                                            *)
Counted(c) == InUser(c) /\ calls > 0 /\ calls' = calls - 1

KillRemote(c) ==
  /\ Counted(c)
  /\ \E d \in Cpus \ {c} :
       stack' = [stack EXCEPT ![c] = <<CallFrame(d, "kill")>>]
  /\ UNCHANGED <<slot, ipi, memory>>

KillHere(c, a) == Counted(c) /\ KillParked(c, <<>>, a)

(* sched_reap_dead: the running thread exited or was killed, the switch     *)
(* dropped the CPU's windows, and its TCB is freed with its area.           *)
Reap(c, a) ==
  /\ Counted(c) /\ c \in holds[a]
  /\ Lose(a, {c})
  /\ window' = [window EXCEPT ![c] = {}]
  /\ stack' = [stack EXCEPT ![c] = <<SettleFrame({}, Retired(a, {c}))>>]
  /\ UNCHANGED <<slot, ipi, heap>>

(* mem_unmap of the thread's own area, mem_revoke of one derived from it;   *)
(* everything derived goes along (ulmk_area_revoke).                        *)
Drop(c, a) ==
  /\ Counted(c)
  /\ \E t \in holds[a] :
       LET G == {h \in holds[a] : h = t \/ t \in above[a][h]}
       IN  /\ t = c \/ c \in above[a][t]
           /\ Lose(a, G)
           /\ window' = IF c \in G THEN [window EXCEPT ![c] = {}] ELSE window
           /\ stack' = [stack EXCEPT ![c] =
                          <<SettleFrame(Shootdown(c, G), Retired(a, G))>>]
  /\ UNCHANGED <<slot, ipi, heap>>

(* mem_map; mem_grant, to a thread that does not have the area yet.         *)
Map(c, a) ==
  /\ InUser(c) /\ a \in heap
  /\ holds' = [holds EXCEPT ![a] = {c}]
  /\ heap' = heap \ {a}
  /\ UNCHANGED <<slot, ipi, stack, window, above, calls>>

Grant(c, a) ==
  /\ InUser(c) /\ c \in holds[a]
  /\ \E h \in Holders \ holds[a] :
       /\ holds' = [holds EXCEPT ![a] = @ \cup {h}]
       /\ above' = [above EXCEPT ![a][h] = @ \cup above[a][c] \cup {c}]
  /\ UNCHANGED <<slot, ipi, stack, window, heap, calls>>

(* ulmk_kern_mem_fault: the running thread touches an area of its set.      *)
MemFault(c, a) ==
  /\ InUser(c) /\ c \in holds[a]
  /\ window' = [window EXCEPT ![c] = @ \cup {a}]
  /\ UNCHANGED <<slot, ipi, stack, holds, above, heap, calls>>

(* What a CPU does in the kernel, and what user programs make it do.  Kills,*)
(* deaths and drops are restricted to areas of D.                           *)
KernelStep(c, D) ==
  \/ IpiFromIsr(c) \/ Finish(c)
  \/ Post(c) \/ Relieve(c) \/ SendIpi(c) \/ WaitServe(c) \/ WaitCheck(c)
  \/ Settle(c) \/ RunFlush(c) \/ RunKill(c, D)

UserStep(c, D) ==
  \/ KillRemote(c)
  \/ \E a \in D : KillHere(c, a) \/ Reap(c, a) \/ Drop(c, a)
  \/ \E a \in Areas : Map(c, a) \/ Grant(c, a) \/ MemFault(c, a)

(* Every CPU is back in user code, with nothing to ask of the kernel.       *)
UserLoop == (\A c \in Cpus : InUser(c)) /\ UNCHANGED vars

(* The areas no CPU still reaches without holding them: no earlier drop of  *)
(* them waits for a flush.                                                  *)
Settled == {a \in Areas : \A c \in Cpus : a \in window[c] => c \in holds[a]}

(* Programs that drop an area only when the last drop of it is settled, and *)
(* programs that may drop it at any time.                                   *)
SettledNext ==
  (\E c \in Cpus : KernelStep(c, Settled) \/ UserStep(c, Settled)) \/ UserLoop
Next == (\E c \in Cpus : KernelStep(c, Areas) \/ UserStep(c, Areas)) \/ UserLoop

(* Each CPU keeps executing the kernel code it is in, and takes the IPIs    *)
(* that are pending once it is back in user code.                           *)
SettledSpec ==
  Init /\ [][SettledNext]_vars /\ \A c \in Cpus : WF_vars(KernelStep(c, Settled))

Spec == Init /\ [][Next]_vars

-----------------------------------------------------------------------------
Posted == {x \in UNION {{c} \X (1 .. Len(stack[c])) : c \in Cpus} :
             stack[x[1]][x[2]].op \in Waiting}
Running(x) == {y \in UNION {{c} \X (1 .. Len(stack[c])) : c \in Cpus} :
                 /\ stack[y[1]][y[2]].op \in {"run", "ran"}
                 /\ stack[y[1]][y[2]].req = x}
InSlot(x) == {c \in Cpus : slot[c] = x}

(* "The request lives on the caller's kernel stack and is only touched      *)
(* under the target's slot lock, so the caller may return as soon as it     *)
(* sees it done": a request that is not done is in its target's slot or     *)
(* being run there, in exactly one of the two and once; one that is done is *)
(* in neither, and no slot or service refers to a frame that is gone.       *)
RequestInOnePlace ==
  /\ \A x \in Posted :
       LET f == stack[x[1]][x[2]]
       IN  /\ Cardinality(Running(x)) + Cardinality(InSlot(x)) = IF f.done THEN 0 ELSE 1
           /\ InSlot(x) \subseteq {f.dst}
           /\ \A y \in Running(x) : y[1] = f.dst
  /\ \A c \in Cpus : slot[c] # Null => slot[c] \in Posted
  /\ \A c \in Cpus : \A i \in DOMAIN stack[c] :
       stack[c][i].op \in {"run", "ran"}
         => stack[c][i].req \in Posted

(* Waiting CPUs serve requests, so frames pile up on the kernel stack, but  *)
(* never more than the four of a settle that waits for a flush and serves a *)
(* kill that settles: what a request runs calls no other CPU.               *)
DepthBounded == \A c \in Cpus : Len(stack[c]) <= 4

(* Requests are neither lost, run twice nor left dangling, and nest no      *)
(* deeper than the kernel stack allows (ulmk_xcall_call, ulmk_xcall_service).*)
RequestsNest == TypeOK /\ RequestInOnePlace /\ DepthBounded

(* "Their blocks are freed only once no CPU can still reach them through a  *)
(* live window" (ulmk_percpu.h), although requests served while a settle    *)
(* waits may drop and free other areas.                                     *)
FreedUnreachable == \A c \in Cpus : window[c] \cap heap = {}

(* "Two CPUs calling each other would otherwise spin forever": every call   *)
(* returns, however the CPUs call and nest.                                 *)
CallsReturn == \A c \in Cpus : stack[c] # <<>> ~> stack[c] = <<>>
=============================================================================
