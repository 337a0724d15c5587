------------------------------- MODULE MCSmp -------------------------------
(***************************************************************************)
(* Two CPUs: Root on the first, an urgent and a lax thread on the second,  *)
(* on each of the three kinds of board.                                    *)
(***************************************************************************)
EXTENDS Smp, TLC

CONSTANTS c0, c1, r, h, l

MCCpuOf == (r :> c0) @@ (h :> c1) @@ (l :> c1)
MCPrio == (r :> 1) @@ (h :> 1) @@ (l :> 2)

\* RISC-V with a CLINT; RISC-V with the board's tick and start; TriCore.
Clint == [handshake |-> FALSE, ticks |-> {c0, c1}]
BoardTick == [handshake |-> TRUE, ticks |-> {c0}]
TriCore == [handshake |-> TRUE, ticks |-> {c0, c1}]
MCBoards == {Clint, BoardTick, TriCore}

\* LocalSpec with these programs.
WaitNext == LocalNext({l}, {h}, {l})
WaitSpec == Init /\ [][WaitNext]_vars

\* Root calls servers on the other CPU.
CallNext == \E c \in Cpus : CpuStep(c) \/ CallStep(c, {r})
CallSpec == Init /\ [][CallNext]_vars

TimedNext == \E c \in Cpus : CpuStep(c) \/ TimedStep(c)
TimedSpec == Init /\ [][TimedNext]_vars
=============================================================================
