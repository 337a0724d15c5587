------------------------------- MODULE MCIrq -------------------------------
(* A device on a fixed line, one dynamic line and the CLINT's interrupts.    *)
EXTENDS Irq, TLC

\* Interrupt 1 always belongs to line 11; 2 is the software interrupt, line 14,
\* or whatever configure hands out.
MCWiring == {<<1, 11>>, <<2, Soft>>, <<2, 14>>}

\* A driver that registers the timer's compare register.
MCTickWiring == {<<1, 11>>, <<2, Timer>>}

\* Notifications are interchangeable.
Symmetry == Permutations(Notifs)
=============================================================================
