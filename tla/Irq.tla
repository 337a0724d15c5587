-------------------------------- MODULE Irq --------------------------------
(***************************************************************************)
(* Interrupt bindings (kernel/irq/irq.c) over the interrupt controllers of *)
(* the ports: RISC-V PLIC and CLIC, both with the CLINT (arch/riscv/irq*.c),*)
(* the Arm NVIC (arch/arm/irq.c) and the TriCore service request nodes     *)
(* (arch/tricore/arch.c).  There are two PLICs: one that does what its     *)
(* specification says, and QEMU's, which the repository's boards have.     *)
(*                                                                         *)
(* `hw' is the controller with the tables the port keeps about it; the     *)
(* operators on it are the port's functions, composed in the order the     *)
(* kernel calls them.  A device drives its line while it wants service.    *)
(* Kernel code runs with interrupts off, so an interrupt handler is only   *)
(* cut short by the callback it runs, and by other CPUs.                   *)
(***************************************************************************)
EXTENDS Naturals, FiniteSets, FiniteSetsExt

CONSTANTS
  Cpus, Threads, Nil,
  Drivers,     \* threads of driver privilege
  Holders,     \* threads that hold ULMK_CAP_IRQ
  Ports,       \* controllers to check: subset of {"plic", "plic_qemu", "clic", "nvic", "src"}
  Srpns,       \* interrupt numbers, 0 excluded
  Fixed,       \* lines of devices
  Soft, Timer, \* the CLINT's interrupts, lines too: MSIP0 and MTIMECMP0
  First, Last, \* dynamic lines handed out by configure: First .. Last
  Wiring,      \* <<srpn, line>> pairs drivers register
  Slots,       \* 1 .. ULMK_CONFIG_MAX_IRQ_BINDINGS
  Notifs,      \* heap blocks for notification objects
  Polite       \* drivers destroy no bound notification, lend none that is owned, detach before they exit

Clint == {Soft, Timer}

ASSUME IrqAssumption ==
  /\ Srpns \subseteq Nat \ {0} /\ Slots \subseteq Nat \ {0}
  /\ First \in Nat /\ Last \in Nat /\ First <= Last + 1
  /\ Wiring \subseteq Srpns \X (Fixed \cup Clint)
  /\ Holders \cup Drivers \subseteq Threads
  /\ Ports \subseteq {"plic", "plic_qemu", "clic", "nvic", "src"}

Lines == Fixed \cup Clint \cup First .. Last

VARIABLES
  port,    \* the build
  table,   \* irq_table
  notifs,  \* live notification objects
  alive,   \* threads that have not died
  high,    \* lines their device drives
  hw,      \* controller state and port tables
  isr,     \* per CPU: the interrupt being handled, or Nil
  gate,    \* per CPU: in_irq_attach
  owed,    \* history: the line last signalled for an srpn and not yet answered by its driver
  lost     \* history: threads that will never run again although nobody killed them

vars == <<port, table, notifs, alive, high, hw, isr, gate, owed, lost>>

Bindings ==
  [srpn: Srpns, notif: Notifs, enabled: BOOLEAN, attach: BOOLEAN, owner: Threads \cup {Nil}, owned: BOOLEAN]

\* All that a handler keeps: its line, the srpns still to be served, the slot
\* whose callback runs (0: none) and the thread it interrupted.
Handlers == [line: Lines, todo: SUBSET Srpns, slot: Slots \cup {0}, cur: Threads \cup {Nil}]

ASSUME NilAssumption == Nil \notin Bindings \cup Handlers \cup Lines

Plic == port \in {"plic", "plic_qemu"}
Riscv == Plic \/ port = "clic"

TypeOK ==
  /\ port \in Ports
  /\ table \in [Slots -> Bindings \cup {Nil}]
  /\ notifs \subseteq Notifs /\ alive \subseteq Threads /\ high \subseteq Fixed \cup First .. Last
  /\ hw \in [en: SUBSET Lines, latch: SUBSET Lines, busy: SUBSET Lines,
             route: [Srpns -> Lines \cup {Nil}], back: [Lines -> Srpns \cup {0}], next: First .. Last + 1]
  /\ isr \in [Cpus -> Handlers \cup {Nil}]
  /\ gate \in [Cpus -> BOOLEAN]
  /\ owed \in [Srpns -> Lines \cup {Nil}]
  /\ lost \subseteq Threads

\* ulmk_arch_tick_init: the compare register is armed and its interrupt open.
TickInit == IF Riscv THEN {Timer} ELSE {}

Init ==
  /\ port \in Ports
  /\ table = [i \in Slots |-> Nil]
  /\ notifs = {} /\ alive = Threads /\ high = {}
  /\ hw = [en |-> TickInit, latch |-> TickInit, busy |-> {},
           route |-> [s \in Srpns |-> Nil], back |-> [l \in Lines |-> 0], next |-> First]
  /\ isr = [c \in Cpus |-> Nil]
  /\ gate = [c \in Cpus |-> FALSE]
  /\ owed = [s \in Srpns |-> Nil]
  /\ lost = {}

-----------------------------------------------------------------------------
(***************************************************************************)
(* The ports' functions.  Each takes the controller h to what it is after.  *)
(***************************************************************************)

\* RISC-V PLIC: a line is claimed when its interrupt is taken and interrupts
\* again once it is completed.  By the PLIC specification the completion of a
\* line that is not enabled is ignored; QEMU's PLIC takes it.  An address whose
\* bits give line 0 registers the next free line, just as PlicConfigure does.
\* A line with no srpn falls back on its number.
PlicRegister(h, s, l) == [h EXCEPT !.route[s] = l, !.back[l] = s]
PlicConfigure(h, s) == [PlicRegister(h, s, h.next) EXCEPT !.next = @ + 1]
PlicClaim(h, l) == [h EXCEPT !.busy = @ \cup {l}]
PlicComplete(h, l) == IF port = "plic_qemu" \/ l \in h.en THEN [h EXCEPT !.busy = @ \ {l}] ELSE h
PlicAck(h, s) == PlicComplete(h, h.route[s])
PlicTargets(h, l) == IF h.back[l] = 0 THEN {l} ELSE {h.back[l]}

\* RISC-V CLINT: the software interrupt, dispatched to every srpn that
\* registered it, and the timer interrupt.  Enabling drops what is pending;
\* acknowledging the timer moves its compare register to the end of time.
ClintRegister(h, s, l) == [h EXCEPT !.route[s] = l]
ClintAck(h, l) == [h EXCEPT !.latch = @ \ {l}]
ClintEnable(h, l) == [ClintAck(h, l) EXCEPT !.en = @ \cup {l}]
ClintTargets(h) == {s \in Srpns : h.route[s] = Soft}

\* RISC-V CLIC: the srpns of a line are searched, there is no reverse table.
ClicRegister(h, s, l) == [h EXCEPT !.route[s] = l]
ClicAck(h, s) == [h EXCEPT !.latch = @ \ {h.route[s]}]
ClicTargets(h, l) == {s \in Srpns : h.route[s] = l}

\* Arm NVIC: the dispatch masks the line of the srpn it finds, whatever the
\* kernel does next; the ack opens it again.
NvicRegister(h, s, l) == [h EXCEPT !.route[s] = l, !.back[l] = s]
NvicAck(h, s) == IF h.route[s] = Nil THEN h
                 ELSE [h EXCEPT !.latch = @ \ {h.route[s]}, !.en = @ \cup {h.route[s]}]
NvicEntered(h, l) ==
  [h EXCEPT !.latch = @ \ {l}, !.en = IF h.back[l] = 0 THEN @ ELSE @ \ {h.route[h.back[l]]}]

\* TriCore service request nodes: the number is written into the node, a
\* dynamic one is written whole and so disabled.
NodeRegister(h, s, l) == [h EXCEPT !.route[s] = l, !.back[l] = s]
NodeConfigure(h, s) == [NodeRegister(h, s, h.next) EXCEPT !.next = @ + 1, !.en = @ \ {h.next}]
NodeAck(h, s) == [h EXCEPT !.latch = @ \ {h.route[s]}]

\* ulmk_arch_irq_src_register, _configure, _enable, _disable and _ack of the
\* build; RISC-V asks first whether the srpn is a CLINT binding.  Configuring
\* gives the CLIC no line and the NVIC no new one.
Register(h, s, l) ==
  IF l \in Clint THEN ClintRegister(h, s, l)
  ELSE CASE Plic          -> PlicRegister(h, s, l)
         [] port = "clic" -> ClicRegister(h, s, l)
         [] port = "nvic" -> NvicRegister(h, s, l)
         [] OTHER         -> NodeRegister(h, s, l)

Configure(h, s) == CASE Plic         -> PlicConfigure(h, s)
                     [] port = "src" -> NodeConfigure(h, s)
                     [] OTHER        -> h

SrcEnable(h, s) ==
  CASE h.route[s] = Nil                  -> h
    [] h.route[s] \in Clint              -> ClintEnable(h, h.route[s])
    [] h.route[s] \notin Clint \cup {Nil} -> [h EXCEPT !.en = @ \cup {h.route[s]}]

SrcDisable(h, s) == [h EXCEPT !.en = @ \ {h.route[s]}]

SrcAck(h, s) ==
  IF h.route[s] \in Clint THEN ClintAck(h, h.route[s])
  ELSE CASE Plic          -> PlicAck(h, s)
         [] port = "clic" -> ClicAck(h, s)
         [] port = "nvic" -> NvicAck(h, s)
         [] OTHER         -> NodeAck(h, s)

\* The controller (external).  A service request node latches the edge, the
\* NVIC latches and follows the level, the others follow the level.
Pending(h, l) == l \in h.latch \/ (port # "src" /\ l \in high)
Takes(h, l) == l \in h.en /\ l \notin h.busy /\ Pending(h, l)

\* The controller as a handler finds it, and the srpns the line goes to
\* (riscv_irq_handle_interrupt, _arm_irq_dispatch, _arch_generic_isr_handler).
Entered(h, l) ==
  IF l = Soft THEN h
  ELSE CASE Plic          -> PlicClaim(h, l)
         [] port = "clic" -> h
         [] port = "nvic" -> NvicEntered(h, l)
         [] OTHER         -> [h EXCEPT !.latch = @ \ {l}]

Targets(h, l) ==
  Srpns \cap IF l = Soft THEN ClintTargets(h)
             ELSE CASE port = "clic" -> ClicTargets(h, l)
                    [] Plic          -> PlicTargets(h, l)
                    [] OTHER         -> {h.back[l]}

\* After the kernel handled srpn s: the CLINT and the CLIC acknowledge.
Served(h, s) == IF h.route[s] \in Clint \/ port = "clic" THEN SrcAck(h, s) ELSE h

\* Leaving the interrupt.
Left(h, l) == IF Plic /\ l # Soft THEN PlicComplete(h, l) ELSE h

-----------------------------------------------------------------------------
(* System calls. *)

\* REQUIRE_DRIVER, and REQUIRE_CAP where the call asks for the capability.
Privileged(t, cap) == t \in Drivers /\ (cap => t \in Holders)

\* Mutant: no gate around a callback.
RoutedAlways(c, t, cap) == Privileged(t, cap)

\* What the router lets through: no call from inside a callback.
Routed(c, t, cap) == ~gate[c] /\ Privileged(t, cap)

\* Thread t runs on CPU c, or its interrupt handler runs a callback that makes
\* the call.
Caller(c, t) == t \in alive \ lost /\ IF isr[c] = Nil THEN TRUE ELSE isr[c].slot # 0

InUse == {i \in Slots : table[i] # Nil}
BySrpn(s) == {i \in InUse : table[i].srpn = s}
FreeSlots == Slots \ InUse
MaskedAndAcked(s) == SrcAck(SrcDisable(hw, s), s)
Entry(s, n, t) ==
  [srpn |-> s, notif |-> n, enabled |-> FALSE, attach |-> t # Nil, owner |-> t, owned |-> t # Nil]

\* Bound of the model: dynamic lines are handed out while there are some.  The
\* code does not check, no line comes back, and past the end of its table the
\* number of a new line is written into what lies behind.
LinesLeft == hw.next <= Last

\* ulmk_irq_binding_add: the first free slot; then the source is set up, by
\* its line (the _hw calls) or dynamically.
Add(s, n, t, l) ==
  /\ BySrpn(s) = {} /\ FreeSlots # {}
  /\ \/ l # Nil /\ <<s, l>> \in Wiring /\ (l \in Clint => Riscv) /\ hw' = Register(hw, s, l)
     \/ l = Nil /\ LinesLeft /\ hw' = Configure(hw, s)
  /\ table' = [table EXCEPT ![Min(FreeSlots)] = Entry(s, n, t)]

\* ulmk_kern_irq_bind, ulmk_kern_irq_bind_hw.
Bind(c, t, s, n, l) ==
  /\ Caller(c, t) /\ Routed(c, t, TRUE)
  /\ n \in notifs
  /\ Polite => \A i \in InUse : table[i].owned => table[i].notif # n
  /\ Add(s, n, Nil, l)
  /\ UNCHANGED <<port, notifs, alive, high, isr, gate, owed, lost>>

\* ulmk_kern_irq_attach, ulmk_kern_irq_attach_hw: the binding's notification
\* is its own.
Attach(c, t, s, l) ==
  /\ Caller(c, t) /\ Routed(c, t, TRUE)
  /\ \E n \in Notifs \ notifs : Add(s, n, t, l) /\ notifs' = notifs \cup {n}
  /\ UNCHANGED <<port, alive, high, isr, gate, owed, lost>>

\* The slot is cleared and an owned notification destroyed, if it still exists.
Removed(i) ==
  /\ table' = [table EXCEPT ![i] = Nil]
  /\ notifs' = IF table[i].owned THEN notifs \ {table[i].notif} ELSE notifs

\* ulmk_kern_irq_detach.
Detach(c, t, s) ==
  /\ Caller(c, t) /\ Routed(c, t, TRUE)
  /\ \E i \in BySrpn(s) : table[i].attach /\ Removed(i)
  /\ hw' = MaskedAndAcked(s)
  /\ owed' = [owed EXCEPT ![s] = Nil]
  /\ UNCHANGED <<port, alive, high, isr, gate, lost>>

Enabled(s, on) ==
  /\ BySrpn(s) # {}
  /\ table' = [i \in Slots |-> IF i \in BySrpn(s) THEN [table[i] EXCEPT !.enabled = on] ELSE table[i]]

\* ulmk_kern_irq_enable.
Enable(c, t, s) ==
  /\ Caller(c, t) /\ Routed(c, t, FALSE)
  /\ Enabled(s, TRUE)
  /\ hw' = SrcEnable(hw, s)
  /\ owed' = [owed EXCEPT ![s] = Nil]
  /\ UNCHANGED <<port, notifs, alive, high, isr, gate, lost>>

\* ulmk_kern_irq_disable.
Disable(c, t, s) ==
  /\ Caller(c, t) /\ Routed(c, t, FALSE)
  /\ Enabled(s, FALSE)
  /\ hw' = MaskedAndAcked(s)
  /\ owed' = [owed EXCEPT ![s] = Nil]
  /\ UNCHANGED <<port, notifs, alive, high, isr, gate, lost>>

\* Mutant: the line is left masked.
AckOnly(c, t, s) ==
  /\ Caller(c, t) /\ Routed(c, t, FALSE)
  /\ BySrpn(s) # {}
  /\ hw' = SrcAck(hw, s)
  /\ owed' = [owed EXCEPT ![s] = Nil]
  /\ UNCHANGED <<port, table, notifs, alive, high, isr, gate, lost>>

\* ulmk_kern_irq_ack: opens again what the dispatch masked.
Ack(c, t, s) ==
  /\ Caller(c, t) /\ Routed(c, t, FALSE)
  /\ \E i \in BySrpn(s) :
       hw' = IF table[i].enabled /\ ~table[i].attach THEN SrcEnable(SrcAck(hw, s), s) ELSE SrcAck(hw, s)
  /\ owed' = [owed EXCEPT ![s] = Nil]
  /\ UNCHANGED <<port, table, notifs, alive, high, isr, gate, lost>>

-----------------------------------------------------------------------------
(* Interrupts. *)

\* CPU c takes a pending line while it runs thread t (Nil: idle).  The timer's
\* is the kernel's tick, which looks at no binding and arms its compare register
\* again: a step that changes nothing here.
TakeInterrupt(c, t, l) ==
  /\ isr[c] = Nil /\ l # Timer /\ Takes(hw, l)
  /\ hw' = Entered(hw, l)
  /\ isr' = [isr EXCEPT ![c] = [line |-> l, todo |-> Targets(hw, l), slot |-> 0, cur |-> t]]
  /\ UNCHANGED <<port, table, notifs, alive, high, gate, owed, lost>>

\* The srpn a handler serves next: the tables are searched upwards.
Serving(c, s) == isr[c] # Nil /\ isr[c].slot = 0 /\ isr[c].todo # {} /\ s = Min(isr[c].todo)
Done(c, s) == isr' = [isr EXCEPT ![c].todo = @ \ {s}, ![c].slot = 0]

\* ulmk_kern_irq_dispatch of an srpn that is not bound or not enabled.
DispatchNone(c, s) ==
  /\ Serving(c, s)
  /\ \A i \in BySrpn(s) : ~table[i].enabled
  /\ hw' = Served(hw, s)
  /\ Done(c, s)
  /\ UNCHANGED <<port, table, notifs, alive, high, gate, owed, lost>>

\* Mutant: the source is left open.
DispatchUnmasked(c, s) ==
  /\ Serving(c, s)
  /\ \E i \in BySrpn(s) : table[i].enabled /\ ~table[i].attach
  /\ hw' = Served(hw, s)
  /\ owed' = [owed EXCEPT ![s] = isr[c].line]
  /\ Done(c, s)
  /\ UNCHANGED <<port, table, notifs, alive, high, gate, lost>>

\* ulmk_kern_irq_dispatch, threaded delivery: mask the source and signal.
DispatchThreaded(c, s) ==
  /\ Serving(c, s)
  /\ \E i \in BySrpn(s) : table[i].enabled /\ ~table[i].attach
  /\ hw' = Served(SrcDisable(hw, s), s)
  /\ owed' = [owed EXCEPT ![s] = isr[c].line]
  /\ Done(c, s)
  /\ UNCHANGED <<port, table, notifs, alive, high, gate, lost>>

\* ulmk_kern_irq_dispatch of an attached callback: up to the call.
DispatchAttached(c, s) ==
  /\ Serving(c, s)
  /\ \E i \in BySrpn(s) :
       /\ table[i].enabled /\ table[i].attach
       /\ isr' = [isr EXCEPT ![c].slot = i]
  /\ gate' = [gate EXCEPT ![c] = TRUE]
  /\ UNCHANGED <<port, table, notifs, alive, high, hw, owed, lost>>

InCallback(c, s) == isr[c] # Nil /\ isr[c].slot # 0 /\ s = Min(isr[c].todo)

\* The callback served its device and returned; on TRUE the kernel
\* acknowledges and signals, on FALSE the callback has opened the line itself.
CallbackReturn(c, s, notify) ==
  /\ InCallback(c, s)
  /\ gate' = [gate EXCEPT ![c] = FALSE]
  /\ high' = high \ {isr[c].line}
  /\ hw' = Served(IF notify THEN SrcAck(hw, s)
                  ELSE [hw EXCEPT !.en = IF port = "nvic" THEN @ \cup {isr[c].line} ELSE @], s)
  /\ Done(c, s)
  /\ UNCHANGED <<port, table, notifs, alive, owed, lost>>

\* ulmk_kern_irq_attach_fault: the handler is left for good.  The interrupted
\* thread is switched away from inside it without being made ready.
CallbackFault(c, s) ==
  /\ InCallback(c, s)
  /\ gate' = [gate EXCEPT ![c] = FALSE]
  /\ \E i \in BySrpn(s) : Removed(i) /\ alive' = alive \ {table[i].owner}
  /\ hw' = MaskedAndAcked(s)
  /\ owed' = [owed EXCEPT ![s] = Nil]
  /\ isr' = [isr EXCEPT ![c] = Nil]
  /\ lost' = (lost \cup {isr[c].cur}) \cap (alive' \ {Nil})
  /\ UNCHANGED <<port, high>>

\* All srpns of the line are served: back to the interrupted thread, or to a
\* better one.
LeaveInterrupt(c) ==
  /\ isr[c] # Nil /\ isr[c].todo = {}
  /\ hw' = Left(hw, isr[c].line)
  /\ isr' = [isr EXCEPT ![c] = Nil]
  /\ UNCHANGED <<port, table, notifs, alive, high, gate, owed, lost>>

-----------------------------------------------------------------------------
(* Devices and programs. *)

\* A device asks for service; the NVIC and the service request node latch it.
Raise(l) ==
  /\ l \notin high
  /\ high' = high \cup {l}
  /\ hw' = [hw EXCEPT !.latch = IF port \in {"nvic", "src"} THEN @ \cup {l} ELSE @]
  /\ UNCHANGED <<port, table, notifs, alive, isr, gate, owed, lost>>

\* Software raises the CLINT interrupt.
RaiseSoft ==
  /\ Riscv /\ Soft \notin hw.latch
  /\ hw' = [hw EXCEPT !.latch = @ \cup {Soft}]
  /\ UNCHANGED <<port, table, notifs, alive, high, isr, gate, owed, lost>>

\* The driver thread was signalled and serves the device.
Serve(s) ==
  /\ owed[s] # Nil /\ owed[s] \in high
  /\ \E c \in Cpus : isr[c] = Nil
  /\ high' = high \ {owed[s]}
  /\ UNCHANGED <<port, table, notifs, alive, hw, isr, gate, owed, lost>>

Unused(n) == \A i \in InUse : table[i].notif # n

CreateNotif(c, t, n) ==
  /\ Caller(c, t) /\ ~gate[c] /\ n \notin notifs
  /\ notifs' = notifs \cup {n}
  /\ UNCHANGED <<port, table, alive, high, hw, isr, gate, owed, lost>>

DestroyNotif(c, t, n) ==
  /\ Caller(c, t) /\ ~gate[c] /\ n \in notifs
  /\ Polite => Unused(n)
  /\ notifs' = notifs \ {n}
  /\ UNCHANGED <<port, table, alive, high, hw, isr, gate, owed, lost>>

\* A thread ends; the bindings it owns stay.
Exit(c, t) ==
  /\ Caller(c, t) /\ ~gate[c]
  /\ Polite => \A i \in InUse : table[i].owner # t
  /\ alive' = alive \ {t}
  /\ UNCHANGED <<port, table, notifs, high, hw, isr, gate, owed, lost>>

-----------------------------------------------------------------------------
Next ==
  \/ \E c \in Cpus, t \in Threads :
       \/ \E s \in Srpns :
            \/ \E l \in Fixed \cup Clint \cup {Nil} : Attach(c, t, s, l) \/ \E n \in Notifs : Bind(c, t, s, n, l)
            \/ Detach(c, t, s) \/ Enable(c, t, s) \/ Disable(c, t, s) \/ Ack(c, t, s)
       \/ \E n \in Notifs : CreateNotif(c, t, n) \/ DestroyNotif(c, t, n)
       \/ Exit(c, t)
  \/ \E c \in Cpus :
       \/ \E l \in Lines, t \in (alive \ lost) \cup {Nil} : TakeInterrupt(c, t, l)
       \/ \E s \in Srpns :
            \/ DispatchNone(c, s) \/ DispatchThreaded(c, s) \/ DispatchAttached(c, s)
            \/ \E notify \in BOOLEAN : CallbackReturn(c, s, notify)
            \/ CallbackFault(c, s)
       \/ LeaveInterrupt(c)
  \/ \E l \in Fixed \cup First .. Last : Raise(l)
  \/ RaiseSoft
  \/ \E s \in Srpns : Serve(s)

Spec == Init /\ [][Next]_vars

-----------------------------------------------------------------------------
Binding(s) == table[CHOOSE i \in BySrpn(s) : TRUE]
HandledNow(l) == \E c \in Cpus : isr[c] # Nil /\ isr[c].line = l

\* A line whose notification was signalled does not interrupt again before the
\* driver answered, however long its device keeps asking: otherwise the
\* handler would starve the thread that could serve it.
NoStorm == \A s \in Srpns : owed[s] # Nil => ~Takes(hw, owed[s])

\* What the comment in ulmk_kern_irq_dispatch promises ("Mask it and let
\* ulmk_irq_ack() from the server reopen it."): when a device asks and its
\* binding is enabled, either the driver has been signalled and not answered
\* yet, or the line is being handled, or the controller will interrupt.
SourceReopened ==
  \A s \in Srpns :
    LET l == hw.route[s] IN
    BySrpn(s) # {} /\ l \in high => (Binding(s).enabled => owed[s] # Nil \/ HandledNow(l) \/ Takes(hw, l))

\* No interrupt is lost.  (Not so for a service request node, which latches
\* edges only: one that comes between service and ack is cleared by the ack.
\* Nor for a PLIC that ignores the completion of a line the kernel has masked.)
NoLostInterrupt == port \notin {"src", "plic"} => SourceReopened

\* The tick is the kernel's ("Kernel owns MTIP", riscv_clint_dispatch): no
\* driver closes or disarms it.
KernelOwnsTick == Riscv => Timer \in hw.en \cap hw.latch

\* The kernel uses a binding's entry again after the callback returns: it is
\* still there, with its notification; while the callback runs, and only then, system calls are refused on that CPU.
CallbackKeepsBinding ==
  \A c \in Cpus :
    LET running == isr[c] # Nil /\ isr[c].slot # 0 IN
    /\ gate[c] = running
    /\ running => /\ table[isr[c].slot] # Nil
                  /\ table[isr[c].slot].srpn \in isr[c].todo
                  /\ table[isr[c].slot].notif \in notifs

\* An interrupt number has one binding, the notification of a binding exists,
\* and one that belongs to a binding is not shared with another that would
\* destroy it.
BindingsDistinct ==
  \A i, j \in InUse :
    /\ table[i].notif \in notifs
    /\ i # j => /\ table[i].srpn # table[j].srpn
                /\ ~(table[i].owned /\ table[j].owned /\ table[i].notif = table[j].notif)

\* The binding table stays sound, while callbacks run out of it too
\* (ulmk_irq_dispatch, irq_binding_clear).
BindingsSound == TypeOK /\ BindingsDistinct /\ CallbackKeepsBinding

\* A fault in a callback takes nobody with it but the thread that attached it.
FaultKillsOnlyOwner == lost = {}
=============================================================================
