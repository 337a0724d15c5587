# ulmk: TLA+ models, TLC runs and TLAPS proofs

ulmk is a small real-time microkernel for MCUs: threads with 256 strict
priorities, synchronous endpoints with priority inheritance, notification
objects, timed waits on a timing wheel, memory areas enforced by an MPU or MMU,
optional SMP. This directory models its core in TLA+, checks the models with TLC
and proves theorems about them with TLAPS. `PROJECT.json` lists components, runs,
mutants, the map from definitions to source lines, findings, hazards and theorems.

    tlc -workers 2 -config rpc.cfg MCKernel      # a run
    tlapm KernelProofs.tla                       # the proofs of a module

## Inventory

| component | state | operations | talks to |
|---|---|---|---|
| Run queue, `kernel/sched/bitmap_rt.c` | per CPU: 256 FIFO lists and a bitmap | enqueue, dequeue, pick_next, peek_next | called by every handler that wakes or blocks a thread |
| Trap-exit scheduler, `kernel/sched/sched.c`, `kernel/kernel_main.c` | per CPU: current, needs_resched, dead_for_cleanup | trap_dispatch, switch, deferred reap, return-value resolution | run queue, threads |
| Endpoints, `kernel/ipc/ep.c` | per endpoint: active, send queue, receive queue; per thread: ipc_node, ipc_sender, saved_prio, blocked_ep | create, call, call_timeout, recv, reply, reply_recv, recv_or_notif, destroy | scheduler, notifications (one wait on both), timers |
| Notifications, `kernel/notif/notif.c` | per object: bits, one waiter slot; per thread: blocked_notif, wait mask | create, signal (threads and ISRs), wait, wait_timeout, poll, destroy | endpoints, scheduler, timers |
| Timed waits, `kernel/time/sleep.c` | per thread: one timeout node | sleep, cancel, arm, disarm, three callbacks | timer wheel, endpoints, notifications |
| Timer wheel, `kernel/time/timer_wheel.c` | per CPU: clk, 5x64 buckets, pending bits | add, cancel, tick | calls the callbacks, which call back into it |
| Threads, `kernel/thread/thread.c` | TCBs: state, reason, priority, block_status, user pointers | spawn, exit, kill, yield, suspend, resume, set_prio, TCB free | everything above, memory areas |
| Cross-CPU calls, `kernel/sched/xcall.c` | per CPU: one request slot under a spinlock | call (post, IPI, wait while serving), service | kill, shootdown |
| Memory areas, `kernel/mem/area.c`, `kernel/mem/mem.c` | per thread: set of areas in derivation trees; per CPU: live windows, retired list, shootdown mask | map, unmap, grant, revoke, inherit, fault, release, settle | heap, protection unit, cross-CPU calls |
| Protection units, `arch/riscv/mpu_pmp.c`, `mmu_sv32.c`, `arch/arm/mpu_v7m.c`, `mpu_v8m.c`, `arch/tricore/arch.c` | region slots or page tables, the pinned list they were built for, windows in use | init, switch, flush, load | areas (a fault loads a window), scheduler (switch) |
| TLSF heap, `kernel/mem/tlsf.c` | block chain, free lists by size class, two levels of bitmaps | alloc, aligned alloc, free | all object creation, map |
| TriCore contexts, `arch/tricore/arch.c`, `ctx_switch.S`, `vectors.S` | per CPU: free list and live chain of context frames; per thread: saved chain | fabricate, switch, staged preemption, reclaim | threads, scheduler |
| Interrupt bindings, `kernel/irq/irq.c`, `arch/*/irq*.c` | binding table; controller enables, claims, latches, line tables | bind, attach, detach, enable, disable, ack, dispatch, callback fault | notifications, router (gate around callbacks) |
| SMP, `arch/*/smp.c`, `sched.c`, `kernel_main.c` | released, armed, online; pending and deferred IPIs | bring-up, mark and kick, IPI, remote wake | endpoints, notifications, timers under their locks |
| Device manager, `components/ulmk_device_manager` | registry of names, one pending path; per client handle: server and cached grant | register, lookup, open, close, read, write, ioctl, info, submit, wait, serve | a user-space server over endpoints, areas |
| Arch start-up, boards, printk, build, examples | hardware | - | - |

What is hard here, and what a correct kernel keeps:

- *Wakes race.* A blocked thread can be ended by a message, a signal, a timer, a
  cancel, a destroy or a kill. Each path must take it off every other list it is
  on (send or receive queue, waiter slot, wheel), or a later event hits a thread
  that has gone on (`QueuesMatchWaits`, `WaiterIsBlocked`, `TimerMatchesWait`,
  `NoStalePointer`, `NoStaleResult`, `ListsIntact`).
- *Separate copies of one fact.* Lists, bitmap, `th->state` and `th->priority`
  change one by one (`RunQueueMatchesStates`), while inheritance and set_prio move
  priorities between a wake and the trap exit (`StrictPriority`).
- *Rendezvous over several calls.* Inheritance and its undo, replies that come
  late, servers that die in the middle (`ServerInherits`, `PriorityRestored`,
  `CallReturnsAnswered`, `ReplyEndsOwnCall`, `NoOrphanedCaller`).
- *Memory of the dead.* The stack in use must not be freed, a corpse not lost or
  freed twice (`RunningStackNotFreed`, `CorpseAccounted`).
- *Progress.* FIFO queues serve every caller (`QueuedCallReceived`), a timed wait's
  timer stays applicable and is not skipped (`TimerMatchesWait`, `FiresInTime`),
  cross-CPU calls return (`CallsReturn`).
- *Arithmetic at edges.* Rounding in a wheel without cascading (`NeverEarly`,
  `FiresInTime`).
- *CPUs waiting for CPUs.* Requests on foreign stacks, nesting, blocks freed
  under live windows (`RequestInOnePlace`, `DepthBounded`, `FreedUnreachable`).
- *Two CPUs between two locks.* What a handler does after an unlock meets what the
  other CPU did in between (`ReadyIsQueued`, `TimerOfWait`, `WakeNoticed`).
- *Ownership of memory.* Rights and lifetimes along derivations (`DerivationSound`,
  `BackingExact`, `OnlyAncestorsRevoke`, `SetsDisjoint`), and hardware that must
  forget what a thread lost (`WindowsAuthorised`, `UnitsKept`, `TablesMatch`,
  `CacheCoherent`), yet not refuse what it has
  (`NoLegalAccessRefused`) and never show the kernel (`KernelRamHidden`).
- *Pools.* Splits, merges and rounding in the heap (`ChainIntact`, `NoFreeNeighbours`,
  `ListsMatchBlocks`, `SearchFits`, `KeepsPromise`), context frames that are used by
  hardware while the kernel relinks them (`EveryFrameOnce`, `ContextsRestorable`).
- *Masking protocols.* Dispatch, kernel and driver all mask and open a line
  (`NoStorm`, `NoLostInterrupt`), and user callbacks run inside the handler
  (`CallbackKeepsBinding`, `BindingsDistinct`).
- *Protocols of several calls between programs.* Registration, cached grants, counts
  squeezed into message words (`PublishedAsAsked`, `GrantsTracked`,
  `ServerMayTouch`, `TransferHonest`).

## Modules

| module | models |
|---|---|
| `DList` | removal from the intrusive list of `list.h` |
| `RunQueue` | the bitmap_rt class, as pure operators on a record of lists and bitmap |
| `Kernel` | threads, endpoints, notifications, timed waits and trap exit of one CPU |
| `MCKernel`, `MCWorkloads` | user programs (workloads) that drive `Kernel`, and the properties that belong to them |
| `TimerWheel`, `MCTimerWheel` | the wheel, with callbacks that use it |
| `XCall`, `MCXCall` | cross-CPU calls, remote kill, area grants and window shootdown on several CPUs |
| `Smp`, `MCSmp` | bring-up, blocking and waking on several CPUs, cut at the locks |
| `Area`, `MCArea` | area sets with addresses, rights and derivation, and one CPU's live window |
| `Protection` | abstract: what the kernel relies on from a protection unit |
| `MpuSlots`, `Sv32`, `MCProtection` | the five units, each shown to implement `Protection` |
| `Irq`, `MCIrq` | bindings over the four interrupt controllers, the PLIC in two variants |
| `Heap` | abstract: what the heap promises |
| `Tlsf`, `Csa`, `MCPools` | the heap, shown to implement `Heap`; the context frames of TriCore |
| `Device`, `MCDevice` | registry, serve loop and client library of the device manager |
| `KernelProofs` | lemmas on the scheduling class; type correctness and the inductive invariant of `Kernel`: queues, waits and corpses; strict priority and the stack in use; what a wait leaves in a TCB; for the rpc programs priority inheritance and the pairing of calls and replies; callers of servers that die |
| `TimerWheelProofs` | no timeout early or missed, for a wheel of any size |
| `XCallProofs` | requests on several kernel stacks, and freed blocks out of every window |
| `IrqProofs` | the binding table and the masking protocol on the four controllers |
| `SmpProofs` | wakes and timed waits between any number of CPUs |
| `AreaProofs` | the forest of areas, its backing blocks, the windows of the running thread and who may take an area back |
| `ProtectionProofs` | what each slot of a protection unit holds; kernel RAM hidden, no legal access refused, `Protection` implemented by the slot units |
| `DeviceProofs` | registry, grants and transfer counts of the device manager |

**Kernel.** Interrupts are masked from trap entry to trap exit, so a handler is
one action. Its loops and tail calls are separate steps only where it helps
reading (`ep_destroy`'s loop, the receive half of `ep_reply_recv`): no other
action is enabled in those phases. `phase` follows the CPU: user code, end of a system call, inside an
ISR, and "resolve", where the resumed thread's return value is put together. A
trap is therefore: handler (phase "syscall" or "isr") - `TrapDispatch` -
`SyscallRetResolve` if the thread now on the CPU was inside a system call. Each
TCB field the code reads back is a variable, with the field's name where possible.
Message words are left out; which user pointers the kernel holds is kept. `taken`,
`owed` and `base` are history that no action's guard or assignment of other
variables reads in `Kernel`; workloads read `owed` as the program's own knowledge
of which caller it must answer. Appending a list node that is linked, or reusing a
TCB that is, would corrupt the C lists: the action `Corrupt` stops the model there
and `ListsIntact` says it does not happen. `CoreNext` leaves out two things
programs may do and the kernel does not protect itself against, both reported as
findings: suspending threads, and replying to a call nobody received.

**TimerWheel.** `clk` is kept modulo the outer level's turn and `to->expires` as the
distance `due` still to go, so the state space is finite without a bound on time.
A tick collects the current bucket of every level on whose edge the clock stands,
and then `ExpireList` runs one callback per step, each free to add or cancel any
timeout, those collected and not yet run included.

**XCall.** `stack` is each CPU's kernel stack: a frame per call in progress, per
request being served and per `mem_settle`. Requests are pointers into the caller's
frame, as in C. One step is one critical section of a slot lock. An area is a heap
block, `holds` the threads with it or an alias of it in their set, `above` the
derivation order, `window` what each CPU's MPU lets through. Each CPU's running
thread is named by its CPU; one further thread is not running.

**Smp.** What a handler does under one lock is one step; the calls it makes after
the unlock are left in `todo[c]` and run one by one, so the other CPU may act between
any two of them. `board` chooses how secondaries are started (with or without a ready
handshake) and which CPUs get a tick: on boards with one tick all timers sit on the
wheel of CPU 0. In `LocalStep` endpoint calls and timed waits are ended by the
thread's own CPU, everything else by any; `CallStep` and `TimedStep` lift this, and
meet handlers that touch the caller again after the unlock.

**Area.** The tree of areas of all threads, with granule addresses and rights. `build`
is the window rule of a port (power of two or range, smallest window, alignment).
`live` is what one CPU's protection unit lets through; a fault loads a window, and
everything that takes an area away flushes. `rec` is the pool of area records, so
running out of them is reached.

**Protection, MpuSlots, Sv32.** `Protection` is what the kernel relies on: beyond the
static map the running thread reaches its stack and some of the windows loaded for
it, the last one among them, and nothing an earlier thread had. `MpuSlots` is the four
slot units as one model over a record that says which slots are fixed; `Sv32` is
the page tables with their level-2 pool, the ring of dynamic pages, and the TLB as
the entries a hart may have cached. The mapping is the instance `Unit` in each: the
running thread, its stack, what was loaded (`loaded`, history) and what the slots or
the tables let through. `UnitsKept` checks it.

**Irq.** `hw` is the controller (enabled, pending, in service or latched lines, and the
port's table from interrupt numbers to lines); the port functions are operators on it
and `port` chooses among them. There are two PLICs. The RISC-V specification says that a
completion is ignored when its source is not enabled for the target ("plic"); QEMU's PLIC,
on which the repository's boards run, takes it ("plic_qemu"). The kernel masks a
threaded line before the port completes it, and the driver's ack completes before it
enables (`irq.c:405`, `irq_plic.c:166`, `irq.c:314` and `321`), so the difference
matters: `NoLostInterrupt` is claimed for the second only and `v_plic` shows the first.
`Register` is the line an address stands for; an address whose bits give 0 takes the next
dynamic line, as configure does (`irq_plic.c:74`). These are counted up and never come
back, unchecked in the code; `LinesLeft` is the model's bound. A registered
line may be one that configure also hands out: the model allows it, the run's wiring and
`WiredOnce` do not. The CLINT has two sources, the software interrupt, which drivers
share in the run, and the compare register of the tick, which only `v_tick` wires.
A handler that runs a user callback is cut
there: `isr[c]` keeps what is left, `gate[c]` refuses system calls meanwhile.
`Polite` is what the kernel leaves to drivers: destroy no bound notification, lend no
owned one, detach before exit.

**Heap, Tlsf.** `Tlsf` keeps the physical chain of blocks, the free list of every size
class and the two bitmaps apart, as the code does, with its byte offsets and
rounding. `Heap` promises disjoint, long enough, aligned blocks that stay put;
`KeepsPromise` is the refinement. Sums are `uint32_t` in the code and wrap: `Word` is the
number of their values, 2^32 there. The requests of `pools` stay below it. A request for a
stack of more than 1 GB, which `stack_alloc` (`thread.c:273-279`) rounds to 2 GB and
aligns to as much, wraps the size searched for (`tlsf.c:346`); `v_wrap` shows it with a
smaller word. Above 2 GB the doubling in `stack_alloc` does not end, which is not
modelled.

**Csa.** A TriCore thread's context is a chain of frames which the hardware pushes and
pops on every call and trap. Each CPU owns a pool. A switch stores the chain, an
interrupt's preemption is staged and done by the last instruction sequence of the
handler, a new thread's frames are filled in by hand, and a dead one's are put back
while the hardware goes on using the list. Inside a handler the kernel switches at once
when the interrupted thread has been killed or suspended meanwhile, from the other CPU too
(`sched.c:244-247`, `thread.c:457`); a suspended one later goes on within the handler's frames.
The reap is one step. `ulmk_thread_free` could wait for another CPU, and serve a kill
meanwhile with `dead_for_cleanup` still set, only in `mem_settle`, which waits only
if the death dropped an area of a thread that was current on another CPU
(`ulmk_kern_area_dropped`, `mem.c:40-52`). A corpse is reaped by the CPU it died on, with
one exception, a fault in a callback whose owner lives on another CPU
(`irq.c:350-356`), which is not modelled on several CPUs; `XCall` models settling.

**Device.** Registry, serve loop and client library talk through blocking calls only,
so `req` and `ans` are all of the transport. Lengths are real numbers of bytes where a
word is cut to 16 bits or a message to 20 bytes. A read or write of 0 bytes makes no call;
submit and wait of 0 bytes send a null address without the inline flag, and the server
passes its handler no buffer. `Careful` is what the library leaves to
clients: open closed handles only, unmap no buffer that a handle has granted.

## Runs

Passing:

| run | checks | instance |
|---|---|---|
| `rpc` | queues, inheritance and undo, rendezvous, strict priority; every queued caller is received | 3 clients of 3 priorities, 1 server, 1 backend, 2 endpoints, sleeps |
| `handlers` | types, timers, waiter slots, pointers, results, run queue, lists, TCBs, stacks, suspension | 4 threads, 3 worker priorities, 1 endpoint, 1 notification, 1 bit; two workloads: every blocking call, and exit, kill, spawn, suspend, resume, set_prio |
| `wheel` | never early, never a granule late | 3 levels x 4 buckets, factor 2, 2 timeouts of 3, 7 or 12 ticks |
| `xcall` | requests, stack depth, freed blocks | 3 CPUs, 1 area, 2 kills, drops or deaths |
| `xcall_live` | calls return | 2 CPUs, 1 area, 4 kills, drops or deaths |
| `smp` | no wake lost, no CPU left uninformed, timers belong to waits | 2 CPUs, 3 threads, 3 boards |
| `areas` | disjoint sets, derivation, blocks, windows, who may revoke | 3 threads, 3 records, 6 granules of heap, 3 window rules |
| `protection` | five units implement `Protection`; kernel RAM reached only through a thread's own mapping of it, no legal access refused | 40 granules or 12 pages, 3 threads, one of which has mapped part of kernel RAM, 4 level-2 tables |
| `irq` | no storm, no lost interrupt, callbacks and bindings | 1 CPU, 2 threads, 2 numbers, 4 controllers, the PLIC in two variants |
| `pools` | heap structure and promise; context frames | 1100 bytes, 3 sizes, 3 alignments; 2 CPUs, 5 threads, 27 frames |
| `device` | publication, grants, buffers, counts | 2 clients, 2 servers, 2 paths, 0, 20 and 21 bytes |

Why these bounds. Every way two waits can interfere in `Kernel` involves a waiting
thread, an event and at most one more thread; the first workload of `handlers` has
workers, interrupts and timers, and is exhaustive. Inheritance needs a chain client -
server - backend and a rival of another priority, which `rpc` has; three worker
priorities leave room for one above, one equal and one below. Kill and reuse need
a corpse and a second death before its reap, which the second workload gives. The wheel keeps
the code's relation of level size to factor (the size is the square of the
factor); `Requests` has for each level the last delta that is clear of its end, 12 being
also the longest timeout, and the clock takes every phase. All other deltas and wheels
are left to the theorems `NothingEarly` and `NothingLate`. Cross calls need a caller, a target
and a third CPU that occupies slots; deeper nesting is excluded by `DepthBounded`.
`MaxCalls` bounds how often programs ask, `MaxPrio` is 4 instead of 255. `smp` has a
waker on one CPU and two threads on the other, one urgent and one lax, so that a
wake may or may not preempt. Three area records make a chain of two derivations, or
two branches, and fill the pool. The slot counts of `protection` are below the
hardware's, with more areas than slots, so that eviction happens; two level-2 tables
are left over for three threads. The sizes of `pools` hit three size classes and the
alignments the three cases of the aligned split; seven blocks let a free one meet
free neighbours on both sides. Frames suffice for every chain there: an empty pool is
a trap that stops the machine. `irq` has one CPU, because the
binding table is not locked against a second one (`v_detach` below). In `device` 20 bytes fit a
message, 21 need a grant, and 0 is sent by submit and wait only. Deadlock is not checked in `irq` and `device`, where
programs may stop.

Symmetry and views. `wheel`, `xcall`, `areas` and `irq` permute timeouts, CPUs, threads
and notifications, which no definition tells apart. `pools` compares states by the `VIEW` of `MCPools`:
frames of one CPU are interchangeable, a free frame is written before it is read, so
two states in which each frame is in one place and whose chains agree in length and
in kind behave alike; the truth of `EveryFrameOnce` is part of the view, so that a
state that breaks it is never taken for one that does not.

Refinement. `KeepsPromise` (`Tlsf` implements `Heap`) and `UnitsKept` (`MpuSlots` and
`Sv32` implement `Protection`) are checked as properties of `pools` and `protection`; for the slot units the second is also
proved, with any slot counts, maps and windows.

Properties that a reader would check together are one conjunction of named parts:
`InheritanceExact` (`ServerInherits`, `PriorityRestored`), `CallsAnswered`
(`CallReturnsAnswered`, `ReplyEndsOwnCall`), `NothingStale` (`NoStalePointer`,
`NoStaleResult`), `NeverLate` (`FiresInTime`), `RequestsNest` (`RequestInOnePlace`,
`DepthBounded`), `HeapIntact` (`ChainIntact`, `NoFreeNeighbours`, `ListsMatchBlocks`,
`SearchFits`), `FramesSound` (`EveryFrameOnce`, `ContextsRestorable`), `AreasSound`
(`SetsDisjoint`, `DerivationSound`), `TablesSound` (`TablesMatch`, `CacheCoherent`),
`BindingsSound` (`BindingsDistinct`, `CallbackKeepsBinding`), `BuffersGranted`
(`ServerMayTouch`, `GrantsTracked`), `QueuesFollowStates` (`ReadyIsQueued`); the
module's `TypeOK`, where it has one, is part of them.

Fairness. `rpc`: the CPU keeps executing (weak fairness of programs and kernel
code together). A tick lasts longer than a system call, so a server that is given
the CPU again and again gets to make its call although every single chance could
be cut short by an interrupt (strong fairness of each server's receive and
answer); that a server answers rather than calls its backend for ever is its
program's duty. `xcall_live`: each CPU keeps executing the kernel code it is in
and takes a pending IPI once back in user code. The slot lock is not fair and a
CPU could lose every race for it against an endless stream of callers, so calls
are bounded there and nothing is claimed beyond.

Violations. The following configurations state what a document or a comment of the
repository says, and TLC shows the code doing otherwise. `v_smp_call` is a run of
`PROJECT.json`, with the quotation in its finding; the others are run the same way,
`tlc -config <name>.cfg <module>`.

| configuration | module, property | the code's behaviour | what is said of it |
|---|---|---|---|
| `v_smp_call` | `MCSmp`, `ReadyIsQueued` | a server on another CPU answers between the caller's unlock and its dequeue; the caller is READY and on no queue (`ep.c:299`) | `docs/api_spec.md:332` |
| `v_smp_timed` | `MCSmp`, `TimerOfWait` | the wait ends on another CPU before its timer is armed; the timer stays (`notif.c:317`) | the comment there |
| `v_wheel` | `MCTimerWheel`, `NeverEarly` | a delta in the last granule of a level wraps round and fires early (`timer_wheel.c:67`) | comment, `timer_wheel.c:61` |
| `v_suspend` | `MCKernel`, `SuspendHolds` | a suspended thread that was blocked runs again without a resume | `docs/api_spec.md:276` |
| `v_late_reply` | `MCKernel`, `CallReturnsAnswered` | a reply to a timed-out call completes the caller's next call (`ep.c:482`) | the call's contract |
| `v_kill` | `MCKernel`, `KillReleasesOwnCaller` | killing a server ends a call made to another server (`thread.c:393`) | comment, `thread.c:390` |
| `v_shootdown` | `MCXCall`, `FreedUnreachable` | overlapping drops of one area free its block under a live window (`mem.c:91`) | `ulmk_percpu.h:48` |
| `v_attach_fault` | `MCIrq`, `FaultKillsOnlyOwner` | a fault in an attached callback also ends the thread that was interrupted | `docs/api_spec.md:652` |
| `v_plic` | `MCIrq`, `SourceReopened` | on a PLIC as specified, both completions of a masked line are ignored and the line stays in service (`irq_plic.c:166`, `irq.c:314`) | comment, `irq.c:403` |
| `v_tick` | `MCIrq`, `KernelOwnsTick` | a driver that binds the compare register MTIMECMP0 stops the tick when it acknowledges or disables (`irq_clint.c:43-93`) | comment, `irq_clint.c:101` |
| `v_detach` | `MCIrq`, `CallbackKeepsBinding` | a detach on another CPU clears the binding whose callback runs, and the dispatch reads it again (`irq.c:390`) | dispatch's use of `b` |
| `v_interior` | `MCDevice`, `ServerMayTouch` | an address inside an area is not granted, and the server is sent it all the same | comment, `client.c:33` |
| `v_wrap` | `MCPools`, `KeepsPromise` | with words of 10 bits a request for 512 bytes, aligned to 512, is given a block of 324 (`tlsf.c:346`) | comment, `tlsf.c:345` |
| `v_long` | `MCDevice`, `TransferHonest` | the count of a transfer of 64 KiB or more is cut (`client.c:215`) | the returned count |

The passing runs exclude these situations by what programs do, never by changing
the kernel: `rpc` has no timed calls, `wheel` no delta that close to a level's end
(`ClearDeltas`), `xcall` no second drop before the first is settled
(`SettledNext`), `handlers` no suspend of blocked threads (`Unblocked`), `smp` no
endpoint call or timed wait across CPUs (`LocalStep`), `device` no interior address
and no transfer of that length, `irq` no driver of the tick's compare register, `pools` no
request whose sum wraps. The one thing about hardware is that `NoLostInterrupt` leaves out the PLIC as
specified. The same goes for
behaviour the models also show and no run is spent on: a reply refused because its
call timed out leaves the server at the inherited priority (`ep.c:482`); destroying
an endpoint strands a caller already received (`ep.c:667`); a second waiter on a
notification hides the first (`notif.c:223`); a server that exits or faults
strands its caller (`thread.c:255`; in `handlers` servers leave by kill only), and so
does the kill of one that holds two calls (`thread.c:393`); the expiry of a sleep
rotates equal priorities (`sleep.c:81`); queueing behind a busy server lends it no
priority (`ep.c:112`); a destroyed notification leaves its binding behind
(`irq.c:366`); on TriCore an edge between service and ack is cleared by the ack
(`tricore/arch.c:976`); bind and detach, often enough, run past the tables of dynamic lines
(`irq_plic.c:57`); a driver may map any address as a peripheral or shared memory,
kernel RAM included (`mem.c:158-161`), and then reaches it; and two clients that register at once replace each other's
pending path (`registry.c:203`), which the registry answers with an error.

Each property has a mutant in `PROJECT.json`: a plausible bug in one mapped
definition under which its run fails. Mutants are defined next to the definition
they change, with a suffix saying how.

## Proofs

Assumptions on constants, each named in the module that declares them: the idle thread
is not among the others, the number of priorities is a natural number, root is a
thread, NULL is no object (`Kernel`); the timeouts of a wheel are finitely many, and its
granularities, which are powers of 2, are positive and divide the coarsest
(`TimerWheel`; a fact of arithmetic, assumed because the provers have no theory of
exponentiation and no induction, and evaluated by TLC on every run of the wheel); the
workers of a workload are threads other than root and its endpoints exist (`MCKernel`); the CPUs are finitely many, NULL is no
pointer to a request (`XCall`); the CPUs are finitely many (each is started once), CPU 0
is one of them and runs root first, every other CPU has a tick or is waited for, NULL is
neither a thread nor a timeout's callback (`Smp`); interrupt numbers and slots are positive, drivers wire
numbers to lines of devices or of the CLINT, NULL is no binding, handler or line (`Irq`); lengths and
addresses are natural numbers, addresses not 0, NULL is no handle, frame or grant (`Device`); records are
finitely many and numbered, lengths are natural and addresses whole numbers, the
protection unit has at least one dynamic window, a port's largest window and alignment
are multiples of its smallest window (as in each `arch_config.h`), NULL and the idle
thread are not among the threads (`Area`). For `MpuSlots`: a board's static slots are
different ones, two at least are free, only PMP spends one on a lower bound and only
TriCore has a stack slot and code ranges (`PortAssumption`); the linker script puts text,
flash, user RAM and peripherals off kernel RAM, for text and peripherals also once rounded
on the units that round them, and user RAM of a PMP without a top-of-range pair is a power of two and aligned,
in every case no larger than one region can be (`MapAssumption`); a stack is linked into user RAM, on v8-M possibly
inside the peripherals, or is a heap block off kernel RAM as `stack_alloc` (`thread.c:271`) rounds it
(`StackAssumption`); the windows of a thread are disjoint, which is what `AreasStaySound`
proves of its areas, cut as `ulmk_area_window` does, off the static map, where no fault asks
for one, and off its stack (`WindowAssumption`). They may lie on kernel RAM. TLC evaluates these
on `protection`. The sets of threads, endpoints, notifications,
bits, shared areas, interrupt numbers, clients and servers are arbitrary, infinite ones
included.

| theorem | specification and hypotheses | property |
|---|---|---|
| `TypeCorrect` (`KernelProofs`) | `Spec`: any program | `TypeOK` |
| `RunQueueCorrect` | `CoreSpec` | `RunQueueMatchesStates`: no READY thread is lost or misplaced |
| `WaitersBlocked` | `CoreSpec` | `WaiterIsBlocked`: a waiter slot names a thread blocked there |
| `QueuesIntact` | `CoreSpec` | `ListsIntact`: no linked node is appended, no linked TCB reused |
| `CorpsesAccounted` | `CoreSpec` | `CorpseAccounted`: a dead TCB is freed or is the one corpse |
| `SchedulesByPriority` | `CoreSpec` | `StrictPriority`: user code runs only on the best thread |
| `RunningStackKept` | `CoreSpec` | `RunningStackNotFreed`: the stack in use is never freed |
| `QueuesExact` | `CoreSpec` | `QueuesMatchWaits`: on an IPC queue exactly if waiting there |
| `TimersOfWaits` | `CoreSpec` | `TimerMatchesWait`: an armed timer belongs to the present wait |
| `WaitsLeaveNothing` | `CoreSpec` | `NothingStale`: no pointer or result outlives its wait |
| `CallsReturnAnswered` | `CoreSpec` | `CallReturnsAnswered`: a call that returns OK was received and answered |
| `RpcImplementsCore` | `RpcSpec` | `CoreSpec`: the rpc programs keep within it |
| `InheritanceCorrect` | `RpcSpec` | `InheritanceExact`: a server gets its caller's priority and gives it back |
| `CallsPaired` | `RpcSpec` | `CallsAnswered`: only who received a call ends it |
| `NobodyOrphaned` | `DutySpec` | `NoOrphanedCaller`: no caller waits for a dead server |
| `NothingEarly` | `TimerWheel!Spec`, `AllClear` | `NeverEarly`: nothing fires before its requested time |
| `NothingLate` | `TimerWheel!Spec`, `AllClear` | `NeverLate`: nothing waits a granule past it |
| `RequestsCorrect` | `XCall!Spec` | `RequestsNest`: a request is in one place, and its frame lives |
| `BlocksUnreachable` | `SettledSpec` | `FreedUnreachable`: no CPU's window reaches a freed block |
| `NoWakeLost` | `LocalSpec`, endpoint threads share a CPU | `QueuesFollowStates`: a READY thread is queued or about to be, a RUNNING one is current |
| `WakesNoticed` | `LocalSpec`, endpoint threads share a CPU | `WakeNoticed`: a CPU below a more urgent thread has been or will be told |
| `TimersFollowWaits` | `LocalSpec`, endpoint threads share a CPU | `TimerOfWait`: a timeout has its wait, a timed wait its timeout |
| `TypeCorrect` (`IrqProofs`) | `Irq!Spec` | `TypeOK` |
| `TableSound` | `Irq!Spec`, `OneCpu`, `Polite` | `BindingsSound` |
| `SignalledLinesQuiet` | `Irq!Spec`, `OneCpu`, `WiredOnce` | `NoStorm`: a signalled line is masked until answered |
| `InterruptsArrive` | `Irq!Spec`, `OneCpu`, `WiredOnce` | `NoLostInterrupt`: an enabled binding's line is open or about to be; not for service request nodes, nor a PLIC that ignores completions of masked lines |
| `AreasStaySound` | `Area!Spec` | `AreasSound`: areas of a thread are disjoint, derived ones within their origin |
| `BackingsExact` | `Area!Spec` | `BackingExact`: a heap block is taken exactly while one origin stands for it |
| `WindowsStayAuthorised` | `Area!Spec` | `WindowsAuthorised`: live windows lie in areas the running thread holds |
| `OnlyAncestorsTakeBack` | `Area!Spec` | `OnlyAncestorsRevoke`: only its holder or an ancestor's ends an area |
| `KernelHidden` | `MpuSlots!Spec` | `KernelRamHidden`: user mode gets at kernel RAM only with the rights of an area the running thread mapped there itself |
| `NothingRefused` | `MpuSlots!Spec` | `NoFalseViolation`: a window is refused only if all of it is live (the slot part of `NoLegalAccessRefused`) |
| `UnitImplemented` | `MpuSlots!Spec` | `KeepsUnit`: `Protection` (the slot part of `UnitsKept`) |
| `RegistryCorrect` | `Device!Spec` | `PublishedAsAsked` |
| `GrantsCorrect` | `Device!Spec`, `CarefulClients` | `BuffersGranted` |
| `TransfersHonest` | `Device!Spec`, `ShortTransfers` | `TransferHonest` |

`CoreInvariant`, `FitInvariant`, `RpcInvariant`, `CallInvariant`, `SmpInvariant`,
`AreaInvariant`, `SlotInvariant` and `WheelInvariant` state the inductive invariants these rest on.

**Run queue.** `KernelProofs` begins with lemmas on the scheduling class. Their first half
is about types: removing a node from a list (`Unlink`) leaves a list of the other
threads, a non-empty bitmap has a lowest set bit, enqueue, dequeue, pick and peek stay
within their types. The second half is about `RqMatches(q, pr, st)`, "exactly the READY
threads are linked, once, on the list of their priority": enqueue and dequeue keep
it for the changed state, a pick takes a READY thread of the best priority, and a
pick of NULL means that nothing is READY. The lemmas reason about the sets of linked
threads (`RqFits`) instead of list positions, so the provers need no induction.

**Types.** `KernelProofs` then proves `TypeCorrect`, `Spec => []TypeOK`, for every
program: any system call with any argument at any time. The inductive invariant is
`TypeInv == TypeOK /\ ArgIsEndpoint`. The second part is needed because the receive
half of `ep_reply_recv` and the loop of `ep_destroy` use the endpoint kept in `arg`,
which `TypeOK` alone would allow to be NULL there. There is one lemma per action.

**Threads and queues.** The other theorems on `Kernel` are about `CoreSpec`: all system
calls, interrupts and timeouts with any arguments, except suspend and resume and except
a reply to a thread whose present call no server has received. Outside it the invariant
fails: a suspended thread stays linked where it waited, and a reply to an unreceived
call makes a thread READY that is still queued. The configurations `v_suspend` and
`v_late_reply` show what programs then see.

The inductive invariant there is `CoreInv`. None of the properties
is inductive alone, and they need each other. A system call appends its caller to a
queue without looking: that this is safe needs that the caller is on none, hence
that queues and slots name only BLOCKED threads (`QueuedAreBlocked`,
`SlotsAreBlocked`) and that the thread in user code is RUNNING (`RunsOnCpu`). An
event that wakes a thread enqueues it: the run queue stays exact because a queued or
waiting thread is BLOCKED, hence not READY. A woken caller is off every IPC queue
because a queued call is one that nobody has received (`taken` in `CallersAt`), the
place where `CoreSpec` excludes late replies. A reused TCB is on no list because a
freed one is DEAD (`FreedIsDead`), and `RunnableWaitsForNothing` keeps the reason of
a thread that runs at "NONE", so that a reply or a kill that tests the reason finds a
blocked thread. Each action has a lemma; shared frame lemmas (`WaitFrame`,
`CpuBlocks`, `CpuWakes`, `CpuQuiet`) reduce it to what the action touches.

Its last part adds that only the current thread is RUNNING and that it is a best one in
the phases that lead to user code. Every step is a handler step, which keeps the CPU
where it is and leaves the trap exit to come, or the trap exit, which picks by
`RqPopMatches`, or the return to user code, which changes neither.

**What waits leave behind.** `CoreInv` says who may be queued, not who must be, and
nothing of the fields a wait sets and its end must clear. `FitInv` adds, for every
thread, `Settled(t)`: a blocked thread is inside a
system call and nothing has ended its wait (`WaitIsOpen`), outside of system calls no
result is left over (`ResultsConsumed`), an armed timer serves the present wait
(`TimerServesWait`), the kernel keeps a user pointer only for a wait that will use it
(`PointersServeWait`), a call whose wait is over has its answer (`AnsweredIfOver`), and
a thread blocked on an endpoint, with its call not yet received, is linked. For the
loop of `ep_destroy` it needs that a closed endpoint has empty queues once the loop is
over (`ClosedIsEmpty`, `DestroyedIsClosed`).

**Inheritance.** A server's effective priority depends on what its clients do, so
`InheritanceExact` is a theorem of the rpc programs: servers answer each caller they
receive, and clients only call. `RpcInv` relates the history `owed` (the callers a
server holds) to the callers' own fields: a caller is held exactly while it is
blocked in a call taken by that server, there is one at most, and the saved priority is
the one to go back to (`HoldsOwnCallers`); who receives, and who does not exist, holds
nobody (`HoldsNothing`); no call has a timeout (`WaitsInRpc`). As a
held caller has been received, each step of these programs is one of `CoreNext`:
`RpcImplementsCore`.

**Callers of dead servers.** A dying server's caller is found through `ipc_sender`, which
remembers one caller and is overwritten or cleared when its thread receives or calls again.
`NobodyOrphaned` is therefore about `DutySpec` (`MCKernel`): any threads and calls of
`CoreSpec`, kills, timeouts, notifications and reused TCBs included, except that a thread with a
request in hand answers it before it receives, calls or exits. `HoldInv` says that the
server of every received and unanswered caller is alive, is not receiving and has that caller
in `ipc_sender`, and that between the two halves of `ep_reply_recv` nobody waits for the
current thread; it needs `CoreInv` and `FitInv`, by which a blocked caller that was received
is on no queue and its reason is the one the kill path tests. The duty cannot be dropped:
with three threads TLC finds a server that exits while it holds a request and leaves its
caller waiting.

**Cross-CPU calls.** `CallInv` is `TypeOK`, the shape of a stack (`Shaped`: at most a
settle, its call, one request served on top of it and what that starts), where requests
are (`Requests`: a slot or a serving frame points to a frame that waits, each such frame
is pointed to once) and blocks (`Blocks`: a block to be freed is held by nobody, free in
no heap and on one list). The shape is what makes it inductive: a pointer into a stack
stays valid because only the top frame returns, and a frame that waits is below the one
that serves. `BlocksUnreachable` adds `AllCovered`: a CPU whose window still has a block
that is to be freed has yet to be asked to flush, or was asked and has not run it. It is
about `SettledSpec`, programs that drop an area only when an earlier drop of it has
settled; `v_shootdown` shows what goes wrong otherwise.

**Wakes between CPUs.** `SmpProofs` is about `LocalSpec`: any CPUs, placement,
priorities and boards, any threads as clients, servers and sleepers, as long as clients
and servers share a CPU and timed waits are ended by their own CPU. Without this
`v_smp_call` and `v_smp_timed` break the properties. What a CPU has left to do is in
`todo[c]`, so `SmpInv` has to say what each such step still finds when it runs, after any
steps of other CPUs. `Lined` is the order of these steps: an enqueue is followed by its
mark, marks end in the trap exit, what must come first comes first. `Booting` and
`AllStarted` are bring-up: where the board waits, nobody is spawned before every secondary
is online. `QueueingFits`, `WakingFits` and `TimingFits` have one condition for each kind
of step: a thread to be enqueued is READY, on no queue, announced by no other CPU and
picked by nobody; a picked one is READY and of that CPU; a thread to be dequeued is blocked
in a call of its own CPU; one whose timeout is to be armed is still in that wait, one whose
timeout expires still waits, one whose timeout is to be disarmed is READY. `Hosting` and
`Placed` relate current threads, queues and states; `Waits`, `Receivers` and `Timers`
relate reasons, the notification's slot, the endpoint's queue and the wheels. `Noticed`
strengthens `WakeNoticed`, which speaks of CPUs in user code only, to a CPU that has
picked and not switched yet, and to the one that will run after bring-up. Steps that share a shape
share a lemma: those that move nothing (`QuietKeeps`), those that start a thread
(`RunKeeps`), those that wake one (`WakeKeeps`), those on timeouts (`TimeoutKeeps`) and
those that enter the kernel (`CallKeeps`).

**Interrupts.** On one CPU a system call that the router lets through finds no
interrupt in progress (`Quiet`), which is why the table may be changed without a lock.
With a second CPU the binding can be taken from under a running callback (`v_detach`),
hence `OneCpu`. `TableInv` says that a number has one binding and that a running
callback is that of the number being served, while the gate is closed. `LineInv` says
that route and reverse table agree (`Routes`), that only routed lines are open and only
routed numbers are being served (`EnRouted`, `TodoRouted`), that a claimed line is being
handled (`BusyHandled`; on the PLIC as specified it would not be, hence its exception in
`NoLostInterrupt`), and for each number that its line is masked while its driver
owes an answer and open, or about to be opened, otherwise (`SrpnFits`). Two drivers that
wire one line to two numbers, or on the NVIC one number to two lines, mask and open it
against each other: `WiredOnce` excludes that. The routes are then injective, and
a step about one number leaves the lines of all others alone (`Touches`, `OthersKept`),
so each action's lemma is about one number. `Polite` is what drivers owe the kernel:
they destroy no bound notification, lend none that the kernel owns and detach before they
exit.

**Timer wheel.** Clock and bucket determine when a timeout fires: at the next clock value
that is a multiple of the level's granularity and whose quotient is the bucket's index
modulo the number of buckets. The invariant (`OnTime`) names the distance f to that tick
and says that f is at most a turn of the level, not before the expiry, less than a
granule after it, and that the bucket's pending bit is set; `Drains` says that what a tick
collected is due and on its list once, although callbacks move and cancel what is still
on it. A tick shortens f by one and empties the bucket exactly when f becomes 0
(`EmptiedNow`), also where the clock wraps (`ClockWraps`, which is where the granularities
must nest); an add establishes the invariant because rounding up loses less than a granule
(`RoundsUp`). This last step needs `AllClear`: no delta lies within a granule of the end
of its level, where the rounded bucket may be a whole turn ahead (`v_wheel`). The products
and remainders are confined to lemmas on six named relations, which the steps then use
without expanding them. The result of `wheel` thus does not rest on its 3 levels of 4 buckets
or its three deltas.

**Memory areas.** `AreaProofs` is about every sequence of mappings, grants, revocations,
spawns, deaths, switches and faults, on every port. `AreaInv` says that the records are a
forest (`Forest`: an unused record is blank, a derived one has a used parent with its range
and its rights and owns no block, no record is its own ancestor, areas of a thread are
disjoint, owners of blocks are too), that a record without a holder is kept only for its
children (`NoOrphan`), that holders exist, that the blocks taken are those of the owning
records, that the CPU runs a thread that exists with its own or no layout (`CpuInv`), and
`WindowsAuthorised`. The forest is what the properties lack by themselves: that a block is
freed once rests on the parent of each alias being there, and that a revocation reaches
only what was derived rests on there being no cycle. A handler changes the records in one
of two ways, and each keeps the forest: a mapping, a grant or a spawn fills blank records
whose parents were used before (`Grows`); a revocation or a death blanks records and takes
out holders and leaves nothing without its parent (`Sheds`). Ancestors and released
records are least closed sets in the model, so a step shows that a set is closed, where a
recursion would need an induction. A spawn that runs out of records while it inherits gives
back the records exactly as they were. That a window lies within its area
(ulmk_area_window) is proved for both window rules from the rounding lemmas on `Down` and
`Up`.

**Protection units.** `ProtectionProofs` is about the four slot units, PMP, v7-M, v8-M and
TriCore, with any numbers of slots, memory maps, stacks and windows that satisfy the
assumptions above. `SlotInv` says what each slot holds: the static map is where the board
wants it (`MapInPlace`), the stack is where this unit's layout puts it, if it needs a slot at
all (`OwnLayout`), and each dynamic slot is off or holds one window loaded for the running
thread, no window twice (`OwnWindows`). None of the properties is inductive without all
three: the slot below a top-of-range slot is its lower bound and must never be given to a
window, a slot kept from an earlier thread would show its memory, and on v8-M two regions over
one address fault, so that a window loaded twice would refuse a legal access. A load into a
full unit replaces a slot in turn; that the turn always ends on one is a counting argument
(`RankExists`). `CoverCovers` and `CoverExact` say what rounding to a power of two does to a
region: it never loses an address, and of a naturally aligned one it adds none.
`StaticOffKernel` concludes that no static region reaches kernel RAM as the unit encodes it:
user RAM of a PMP is a pair or exact, the rest is rounded where the linker script leaves room. Who gets at an
address then depends only on the kinds of region that hit it (`HitKinds`), which is all that
`KernelHidden` and `NothingRefused` need. For the refinement, `UnitBounds` says that the
running thread has its stack and beyond the static map at most the stack and the windows
loaded, `LoadedReached` that a load leaves its window reached; each step is then a step of
`Protection`.

**Device manager.** `Fits` says which request, answer and handle go with the function a
client is in, and proves `PublishedAsAsked` for all clients and paths. `Tracked` adds
that the grant noted in a handle is the one the server has; it holds for clients that
open closed handles only, unmap no granted buffer and pass static data or the base of an
area (`CarefulClients`; `v_interior` shows a buffer inside an area). `Honest` says that
what is decoded from an answer is what the server did, for lengths below 65536, which is
where the flag bits of a reply's first word begin (`ShortTransfers`; `v_long` shows a
longer one). Empty transfers carry no address, which is why real ones are assumed not to be 0.

The hypotheses are satisfiable: the runs `wheel`, `smp`, `irq`, `areas`, `protection` and
`device` are instances of them.

Only model-checked: liveness (fairness and ENABLED are beyond the prover);
`SuspendHolds` and everything else about programs that suspend; the
heap, `Csa` and `Sv32` (`HeapIntact`, `FramesSound`, `TablesSound`, the page-table part of
`NoLegalAccessRefused` and of `UnitsKept`, and `KeepsPromise`). What the heap has free, the
frames on a list of `Csa` and a page table of `Sv32` are folds or recursions over data, whose
value for every input takes an induction the provers cannot do.

## Not modelled

Message contents and user-buffer checks; capability delegation between threads; the
router's static privilege table, apart from the interrupt calls (the same test per
call, without state) and the WCET counters; register save areas and vector tables of
RISC-V and Arm, whose contexts are one fixed block per thread; the FIFO class, a stub
no board selects; caches; boot, boards, printk, tracing and the build system.
`components` gives the reason for each. Allocation failure appears in `Kernel` as "no
object left", in `Area` as "no record left".

## Plan

1. Done: `RunQueue`, `Kernel`, `TimerWheel`, `XCall`; type correctness of `Kernel` and
   the safety core of `CoreSpec`.
2. Done: `Smp`, `Area`, `Protection` with its five units, `Irq`, `Heap` with `Tlsf`,
   `Csa`, `Device`.
3. Done: theorems on what waits leave behind, on inheritance and on paired calls.
4. Done: theorems on `XCall` for any number of CPUs, on `Irq` for any drivers, on
   `Device` for any clients and servers, and on `TimerWheel` for any size.
5. Done: theorems on `Smp` for any CPUs and boards.
6. Done: theorems on `Area` for any threads, ranges and ports, on callers of servers
   that die, and on the slot units of `MpuSlots`, their refinement included.
7. Open: an abstract endpoint (a set of outstanding calls) refined by `Kernel`.
