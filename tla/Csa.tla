-------------------------------- MODULE Csa --------------------------------
(***************************************************************************)
(* Thread contexts on TriCore: chains of context save areas, frames that   *)
(* the hardware pushes on calls, traps and interrupts and pops on returns. *)
(* arch/tricore/arch.c, ctx_switch.S and vectors.S fabricate, switch and   *)
(* reclaim them; kernel/thread/thread.c and kernel/sched/sched.c say when. *)
(*                                                                         *)
(* Each CPU has a pool of its own, and a thread never leaves its CPU.      *)
(* Interrupts are off in the kernel.  C functions that have returned by    *)
(* the next step leave no frame; those between a trap and a switch inside  *)
(* it leave one for all.  What else a frame holds is left out.             *)
(***************************************************************************)
EXTENDS Naturals, Sequences, FiniteSets

CONSTANTS
  Cpus, Threads,   \* no thread is 0
  CpuOf,       \* th->cpu
  Idle,        \* CPU -> its idle thread
  Root,        \* the first user thread, on the CPU it is created on
  Pool,        \* CPU -> the frames of its pool, in order; no frame is 0
  MaxDepth     \* thread -> how deep its program nests calls

Frames == UNION {{Pool[c][i] : i \in DOMAIN Pool[c]} : c \in Cpus}

VARIABLES
  link,        \* word 0 of a frame: the next of its chain, 0 at the end
  lower,       \* frames that hold a lower context (UL = 0)
  fcx, pcxi,   \* the registers of each CPU: free list and live chain
  ctx,         \* th->ctx.pcxi
  fabricated,  \* th->ctx_ready
  exists,      \* threads with a TCB
  current, corpse,  \* pc->current; pc->dead_for_cleanup, 0 if none
  preempt,     \* the thread g_preempt_old_ctx belongs to, 0 if no switch is staged
  mode,        \* what the CPU executes
  resumes,     \* where a switched-out thread goes on
  depth        \* calls its program is in

vars == <<link, lower, fcx, pcxi, ctx, fabricated, exists, current, corpse, preempt, mode, resumes, depth>>

-----------------------------------------------------------------------------
(* The machine as CPU c sees it.                                            *)
M(c) == [link |-> link, lower |-> lower, fcx |-> fcx[c], pcxi |-> pcxi[c]]
Become(c, m) ==
  /\ link' = m.link /\ lower' = m.lower
  /\ fcx' = [fcx EXCEPT ![c] = m.fcx] /\ pcxi' = [pcxi EXCEPT ![c] = m.pcxi]

(* CALL, a trap or an interrupt saves the upper context, SVLCX the lower;   *)
(* RET, RFE and RSLCX restore one.                                          *)
Upper(m) == [m EXCEPT !.link[m.fcx] = m.pcxi, !.lower = @ \ {m.fcx}, !.fcx = m.link[m.fcx], !.pcxi = m.fcx]
Svlcx(m) == [Upper(m) EXCEPT !.lower = @ \cup {m.fcx}]
Pop(m) == [m EXCEPT !.link[m.pcxi] = m.fcx, !.fcx = m.pcxi, !.pcxi = m.link[m.pcxi]]

(* The frames of a chain, by following its links.                           *)
RECURSIVE Walk(_, _, _)
Walk(lnk, at, seen) == IF at \in seen \cup {0} THEN seen ELSE Walk(lnk, lnk[at], seen \cup {at})
Chain(lnk, head) == Walk(lnk, head, {})

(* Take a frame off the free list and fill in its word 0.                   *)
csa_alloc(m, next) == [m EXCEPT !.link[m.fcx] = next, !.fcx = m.link[m.fcx]]

(* An upper context at the end of the chain, a lower one before it, which   *)
(* the saved pcxi then names: m.link[m.fcx], the second frame.              *)
ulmk_arch_ctx_init(m) ==
  [csa_alloc(csa_alloc(m, 0), m.fcx) EXCEPT !.lower = (@ \ {m.fcx}) \cup {m.link[m.fcx]}]

(* Splice the whole chain onto the free list.                               *)
ulmk_arch_ctx_free(m, head) ==
  IF head = 0 THEN m
  ELSE LET tail == CHOOSE x \in Chain(m.link, head) : m.link[x] = 0
       IN  [m EXCEPT !.link[tail] = m.fcx, !.fcx = head]

-----------------------------------------------------------------------------
(* startup.S and secondary.S link the pools; ulmk_sched_start lets the root *)
(* thread or the idle thread run.  The frames of the start-up context and   *)
(* of the stopped boot code are never used again: Pool is without them.     *)
First(c) == IF c = CpuOf[Root] THEN Root ELSE Idle[c]

Init ==
  /\ link = [x \in Frames |-> CHOOSE y \in Frames \cup {0} :
               \E c \in Cpus : \E i \in DOMAIN Pool[c] :
                 x = Pool[c][i] /\ y = IF i = Len(Pool[c]) THEN 0 ELSE Pool[c][i + 1]]
  /\ lower = {}
  /\ fcx = [c \in Cpus |-> Pool[c][1]] /\ pcxi = [c \in Cpus |-> 0]
  /\ ctx = [t \in Threads |-> 0]
  /\ exists = {Idle[c] : c \in Cpus} \cup {Root} /\ fabricated = {First(c) : c \in Cpus}
  /\ current = [c \in Cpus |-> First(c)] /\ corpse = [c \in Cpus |-> 0] /\ preempt = [c \in Cpus |-> 0]
  /\ mode = [c \in Cpus |-> "user"]
  /\ resumes = [t \in Threads |-> "user"] /\ depth = [t \in Threads |-> 0]

(* User code calls and returns.                                             *)
UserCall(c) ==
  /\ mode[c] = "user" /\ depth[current[c]] < MaxDepth[current[c]]
  /\ Become(c, Upper(M(c)))
  /\ depth' = [depth EXCEPT ![current[c]] = @ + 1]
  /\ UNCHANGED <<ctx, fabricated, exists, current, corpse, preempt, mode, resumes>>

UserReturn(c) ==
  /\ mode[c] = "user" /\ depth[current[c]] > 0
  /\ Become(c, Pop(M(c)))
  /\ depth' = [depth EXCEPT ![current[c]] = @ - 1]
  /\ UNCHANGED <<ctx, fabricated, exists, current, corpse, preempt, mode, resumes>>

(* _trap_class6; _arch_generic_preempt_isr and its call of the handler.     *)
Syscall(c) ==
  /\ mode[c] = "user" /\ current[c] # Idle[c]
  /\ Become(c, Upper(M(c)))
  /\ mode' = [mode EXCEPT ![c] = "syscall"]
  /\ UNCHANGED <<ctx, fabricated, exists, current, corpse, preempt, resumes, depth>>

Interrupt(c) ==
  /\ mode[c] = "user"
  /\ Become(c, Upper(Svlcx(Upper(M(c)))))
  /\ mode' = [mode EXCEPT ![c] = "isr"]
  /\ UNCHANGED <<ctx, fabricated, exists, current, corpse, preempt, resumes, depth>>

(* The handler had nothing to switch to.                                    *)
SyscallReturn(c) ==
  /\ mode[c] \in {"syscall", "resumed"} /\ corpse[c] # current[c]
  /\ Become(c, Pop(M(c)))
  /\ mode' = [mode EXCEPT ![c] = "user"]
  /\ UNCHANGED <<ctx, fabricated, exists, current, corpse, preempt, resumes, depth>>

IsrReturn(c) ==
  /\ mode[c] \in {"isr", "resumed_isr"} /\ corpse[c] # current[c]
  /\ Become(c, Pop(Pop(Pop(M(c)))))
  /\ mode' = [mode EXCEPT ![c] = "user"]
  /\ UNCHANGED <<ctx, fabricated, exists, current, corpse, preempt, resumes, depth>>

-----------------------------------------------------------------------------
\* Mutant: made by whichever CPU creates the thread.
FabricatedHere(c, t) == TRUE

(* "Some arches (TriCore CSA/FCX) must fabricate on the affinity CPU": only *)
(* there is the context made by ulmk_thread_init.                           *)
Fabricates(c, t) == CpuOf[t] = c

(* ulmk_kern_thread_spawn; the second disjunct gives the thread up when its *)
(* areas cannot be inherited.                                               *)
Spawn(c, t) ==
  /\ mode[c] = "syscall" /\ corpse[c] # current[c] /\ t \notin exists
  /\ LET made == IF Fabricates(c, t) THEN ulmk_arch_ctx_init(M(c)) ELSE M(c)
         head == IF Fabricates(c, t) THEN link[fcx[c]] ELSE 0
     IN  \/ /\ Become(c, made)
            /\ ctx' = [ctx EXCEPT ![t] = head]
            /\ exists' = exists \cup {t}
            /\ fabricated' = IF Fabricates(c, t) THEN fabricated \cup {t} ELSE fabricated \ {t}
            /\ resumes' = [resumes EXCEPT ![t] = "user"] /\ depth' = [depth EXCEPT ![t] = 0]
         \/ /\ Become(c, ulmk_arch_ctx_free(made, head))
            /\ ctx' = [ctx EXCEPT ![t] = 0]
            /\ UNCHANGED <<exists, fabricated, resumes, depth>>
  /\ UNCHANGED <<current, corpse, preempt, mode>>

(* thread_kill_local of a thread that is not on the CPU.  A remote kill     *)
(* comes here through a cross-CPU call, in an interrupt or while the CPU    *)
(* waits for a call of its own.                                             *)
Kill(c, t) ==
  /\ mode[c] \in {"syscall", "isr"} /\ corpse[c] # current[c]
  /\ t \in exists \ {current[c], corpse[c], Idle[c]} /\ CpuOf[t] = c
  /\ Become(c, ulmk_arch_ctx_free(M(c), ctx[t]))
  /\ ctx' = [ctx EXCEPT ![t] = 0]
  /\ exists' = exists \ {t}
  /\ UNCHANGED <<fabricated, current, corpse, preempt, mode, resumes, depth>>

(* The corpse before is gone by the time another is left: its chain and TCB *)
(* are freed (ulmk_sched_set_dead_for_cleanup, sched_reap_dead).  One step: *)
(* ulmk_thread_free asks other CPUs only to drop windows of a thread that   *)
(* runs there (ulmk_kern_area_dropped), and a corpse ran here.              *)
Reaped(c, m) == IF corpse[c] = 0 THEN m ELSE ulmk_arch_ctx_free(m, ctx[corpse[c]])

(* ulmk_kern_exit, and the kill of the running thread: it still executes.   *)
Die(c) ==
  /\ mode[c] \in {"syscall", "isr"} /\ current[c] \notin {Idle[c], corpse[c]}
  /\ Become(c, Reaped(c, M(c)))
  /\ ctx' = [t \in Threads |-> IF t = corpse[c] THEN 0 ELSE ctx[t]]
  /\ exists' = exists \ {corpse[c]}
  /\ corpse' = [corpse EXCEPT ![c] = current[c]]
  /\ UNCHANGED <<fabricated, current, preempt, mode, resumes, depth>>

-----------------------------------------------------------------------------
(* RSLCX and RFE of the context of thread t, which ulmk_thread_ensure_ctx   *)
(* makes first if its CPU has not yet.                                      *)
ensure_ctx(m, t) == IF t \in fabricated THEN m ELSE ulmk_arch_ctx_init(m)
CtxOf(m, t) == IF t \in fabricated THEN ctx[t] ELSE m.link[m.fcx]
Restore(m, head) == Pop(Pop([m EXCEPT !.pcxi = head]))

(* ulmk_sched_trap_dispatch and ulmk_arch_ctx_switch: a thread that blocks, *)
(* yields or is dead saves its context from within the kernel.  So does, in *)
(* an interrupt too, one that another CPU suspended while it ran; it goes   *)
(* on inside the handler.  Only a thread that does not yield has an earlier *)
(* corpse reaped.                                                           *)
Switch(c, next, yields) ==
  /\ mode[c] \in {"syscall", "isr"}
  /\ next \in exists \ {current[c], corpse[c]} /\ CpuOf[next] = c
  /\ current[c] = corpse[c] => ~yields
  /\ mode[c] = "isr" => ~yields /\ current[c] # Idle[c]
  /\ LET old   == current[c]
         reaps == ~yields /\ corpse[c] \notin {0, old}
         m1    == ensure_ctx(IF reaps THEN Reaped(c, M(c)) ELSE M(c), next)
         head  == CtxOf(IF reaps THEN Reaped(c, M(c)) ELSE M(c), next)
         m2    == Svlcx(Upper(m1))
     IN  /\ Become(c, Restore(m2, head))
         /\ ctx' = [t \in Threads |-> CASE t = old -> m2.pcxi
                                        [] t = next -> head
                                        [] t = corpse[c] /\ reaps -> 0
                                        [] OTHER -> ctx[t]]
         /\ exists' = IF reaps THEN exists \ {corpse[c]} ELSE exists
         /\ corpse' = IF reaps THEN [corpse EXCEPT ![c] = 0] ELSE corpse
         /\ fabricated' = fabricated \cup {next}
         /\ current' = [current EXCEPT ![c] = next]
         /\ resumes' = [resumes EXCEPT ![old] = IF mode[c] = "isr" THEN "resumed_isr" ELSE "resumed"]
         /\ mode' = [mode EXCEPT ![c] = resumes[next]]
  /\ UNCHANGED <<preempt, depth>>

(* Preemption by an interrupt: the dispatch stages the switch and names the *)
(* new thread current; the vector code saves and restores after the handler *)
(* has returned.                                                            *)
Stage(c, next) ==
  /\ mode[c] = "isr" /\ corpse[c] # current[c]
  /\ next \in exists \ {current[c], corpse[c]} /\ CpuOf[next] = c
  /\ Become(c, ensure_ctx(M(c), next))
  /\ ctx' = [ctx EXCEPT ![next] = CtxOf(M(c), next)]
  /\ fabricated' = fabricated \cup {next}
  /\ preempt' = [preempt EXCEPT ![c] = current[c]]
  /\ current' = [current EXCEPT ![c] = next]
  /\ mode' = [mode EXCEPT ![c] = "staged"]
  /\ UNCHANGED <<exists, corpse, resumes, depth>>

Preempt(c) ==
  /\ mode[c] = "staged"
  /\ LET m == Pop(M(c))
     IN  /\ Become(c, Restore(m, ctx[current[c]]))
         /\ ctx' = [ctx EXCEPT ![preempt[c]] = m.pcxi]
  /\ resumes' = [resumes EXCEPT ![preempt[c]] = "user"]
  /\ preempt' = [preempt EXCEPT ![c] = 0]
  /\ mode' = [mode EXCEPT ![c] = resumes[current[c]]]
  /\ UNCHANGED <<fabricated, exists, current, corpse, depth>>

-----------------------------------------------------------------------------
Next == \E c \in Cpus :
  \/ UserCall(c) \/ UserReturn(c)
  \/ Syscall(c) \/ SyscallReturn(c) \/ Interrupt(c) \/ IsrReturn(c)
  \/ Die(c) \/ Preempt(c)
  \/ \E t \in Threads : Spawn(c, t) \/ Kill(c, t) \/ Stage(c, t)
  \/ \E t \in Threads, yields \in BOOLEAN : Switch(c, t, yields)

Spec == Init /\ [][Next]_vars

-----------------------------------------------------------------------------
(* Threads of CPU c whose context is saved, not live.                       *)
Saved(c) == {t \in exists : CpuOf[t] = c /\ t # (IF mode[c] = "staged" THEN preempt[c] ELSE current[c])}

\* "The chain must not be live on CPU" (ulmk_arch_ctx_free), "must fabricate
\* on the affinity CPU" (ulmk_thread_init): every frame of a CPU's pool is in
\* one place, on its free list, its live chain or the chain of one saved
\* thread of its own.  None leaks and none is shared, however threads are
\* created, preempted, killed and reaped.
EveryFrameOnce ==
  \A c \in Cpus :
    LET heads  == {<<"free", fcx[c]>>, <<"live", pcxi[c]>>} \cup {<<t, ctx[t]>> : t \in Saved(c)}
        of(h)  == Chain(link, h[2])
    IN  /\ UNION {of(h) : h \in heads} = {Pool[c][i] : i \in DOMAIN Pool[c]}
        /\ \A h, g \in heads : h # g => of(h) \cap of(g) = {}

\* A saved context starts with a lower and an upper context, whichever of the
\* two switches saved it or ulmk_arch_ctx_init made it, so that the RSLCX and
\* RFE of either switch restore it without a context type trap; and its frames
\* are those of the kernel and of the calls its program is in.
ContextsRestorable ==
  \A c \in Cpus : \A t \in Saved(c) : t \in fabricated =>
    /\ ctx[t] \in lower /\ link[ctx[t]] \notin lower \cup {0}
    /\ t # corpse[c] =>
         Cardinality(Chain(link, ctx[t])) =
           depth[t] + CASE resumes[t] = "user" -> 2 [] resumes[t] = "resumed" -> 3 [] OTHER -> 5
=============================================================================
