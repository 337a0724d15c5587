------------------------------- MODULE MCPools -------------------------------
(***************************************************************************)
(* The kernel's two pools: the heap, on 1100 bytes, at most seven blocks;  *)
(* and the context frames of a two-CPU TriCore, with a root thread that    *)
(* calls one deep, one more thread beside it and one on the other CPU.     *)
(* The pools share nothing, so a behaviour is of one of them.              *)
(***************************************************************************)
EXTENDS Tlsf, TLC

CONSTANTS c1, c2, i1, i2, root, peer, far

VARIABLES pool, link, lower, fcx, pcxi, ctx, fabricated, exists, current, corpse, preempt, mode, resumes, depth
csaVars == <<link, lower, fcx, pcxi, ctx, fabricated, exists, current, corpse, preempt, mode, resumes, depth>>

\* Enough frames that no chain finds its pool empty.
C == INSTANCE Csa WITH
  Cpus <- {c1, c2}, Threads <- {i1, i2, root, peer, far}, Root <- root,
  CpuOf <- (i1 :> c1) @@ (root :> c1) @@ (peer :> c1) @@ (i2 :> c2) @@ (far :> c2),
  Idle <- (c1 :> i1) @@ (c2 :> i2),
  Pool <- (c1 :> [i \in 1 .. 16 |-> i]) @@ (c2 :> [i \in 1 .. 11 |-> 20 + i]),
  MaxDepth <- [t \in {i1, i2, root, peer, far} |-> IF t = root THEN 1 ELSE 0]

PoolInit == pool \in {"heap", "frames"} /\ Init /\ C!Init

PoolSpec ==
  /\ PoolInit
  /\ [][\/ pool = "heap" /\ Next /\ UNCHANGED <<pool, csaVars>>
        \/ pool = "frames" /\ C!Next /\ UNCHANGED <<pool, vars>>]_<<pool, vars, csaVars>>

\* Frames of one CPU are alike.  Where each is in one place, two states whose
\* chains agree in length, and in the kind of every frame that is in use, are
\* one; a frame on the free list is written before it is read.
RECURSIVE Kinds(_, _)
Kinds(at, n) == IF at = 0 \/ n = 0 THEN <<>> ELSE <<at \in lower>> \o Kinds(link[at], n - 1)
Shape(head) == Kinds(head, Cardinality(DOMAIN link))
Shapes(c) == <<Cardinality(C!Chain(link, fcx[c])), Shape(pcxi[c]), [t \in C!Saved(c) |-> Shape(ctx[t])]>>
View == <<pool, vars, fabricated, exists, current, corpse, preempt, mode, resumes, depth,
          IF pool = "heap" THEN <<>> ELSE <<C!EveryFrameOnce, Shapes(c1), Shapes(c2)>>>>

\* Every context frame is on the free list, the live chain or one saved chain
\* of its own CPU, and whatever made or saved a context, either switch can
\* restore it (csa_alloc, ulmk_arch_ctx_init, ulmk_arch_ctx_free,
\* ulmk_arch_ctx_switch, _arch_generic_preempt_isr).
FramesSound == C!EveryFrameOnce /\ C!ContextsRestorable
=============================================================================
