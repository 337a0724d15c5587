----------------------------- MODULE Protection -----------------------------
(***************************************************************************)
(* What the kernel relies on from the protection unit of a CPU, whatever    *)
(* the port (ulmk_arch_mpu_switch, _flush and _load in ulmk_arch.h): beyond *)
(* the static user map a running thread reaches its stack, always, and of   *)
(* the windows loaded for it since it was switched in or flushed some, the  *)
(* latest one certainly.                                                    *)
(***************************************************************************)
EXTENDS Integers

CONSTANTS Threads, Nil   \* user threads; Nil is running in the kernel

VARIABLES
  who,    \* the running user thread, or Nil
  stack,  \* the <<address, right>> pairs of its stack
  may,    \* windows loaded since it came in or was flushed: sets of such pairs
  reach   \* pairs it can use beyond the static map

Bounds == /\ reach' \subseteq stack' \cup UNION may'
          /\ stack' \subseteq reach'

Init == who = Nil /\ stack = {} /\ may = {} /\ reach = {}

\* Another thread starts with no window; to the kernel there is nothing to reach.
Switch(t) == /\ who' = t
             /\ may' = IF t # Nil /\ t = who THEN may ELSE {}
             /\ t \in {who, Nil} => stack' = IF t = Nil THEN {} ELSE stack
             /\ Bounds

Flush == who' = who /\ stack' = stack /\ may' = {} /\ Bounds

Load(w) == /\ who # Nil
           /\ who' = who /\ stack' = stack
           /\ may' = may \cup {w} /\ w \subseteq reach' /\ Bounds

Next == \/ \E t \in Threads \cup {Nil} : Switch(t)
        \/ Flush
        \/ \E w \in may' : Load(w)

Spec == Init /\ [][Next]_<<who, stack, may, reach>>
=============================================================================
