-------------------------------- MODULE Smp --------------------------------
(***************************************************************************)
(* Blocking and waking on several CPUs, from their bring-up on.            *)
(*                                                                         *)
(* A handler's critical section is one step: what it does under the ipc or *)
(* thread lock.  What it does after the unlock (queue operations, timers,  *)
(* IPIs) it leaves in todo[c], one step each, so that every other CPU may  *)
(* run between any two of them.  Interrupts are off in the kernel, so a    *)
(* CPU is interrupted only when its todo is empty.                         *)
(*                                                                         *)
(* A run queue is the set of its threads: which of several threads of one  *)
(* priority is picked is left open.  Priorities are fixed (inheritance is  *)
(* Kernel's).  There is one notification, of one bit, and one endpoint.    *)
(***************************************************************************)
EXTENDS Naturals, Sequences, FiniteSets

CONSTANTS
  Cpus, Cpu0,
  Threads,
  Root,     \* the thread CPU 0 starts with; it spawns the others
  CpuOf,    \* th->cpu, the permanent affinity
  Prio,     \* th->priority, small is urgent
  Boards,   \* [handshake: start_secondary waits, ticks: CPUs that get a tick]
  Idle, Null

ASSUME SmpAssumption ==
  /\ IsFiniteSet(Cpus) /\ Cpu0 \in Cpus
  /\ CpuOf \in [Threads -> Cpus] /\ Prio \in [Threads -> 0 .. 254]
  /\ Root \in Threads /\ CpuOf[Root] = Cpu0
  /\ Idle \notin Threads /\ Null \notin Threads \cup {Idle, "sleep", "notif"}
  /\ \A b \in Boards : Cpu0 \in b.ticks /\ (b.handshake \/ b.ticks = Cpus)

VARIABLES
  board,
  released, ready,             \* g_secondary_release, g_secondary_armed
  online, current, needs,      \* the per-CPU records
  deferred,                    \* ipi_pending
  ipi,                         \* CPUs with an inter-processor interrupt raised
  todo,                        \* what the CPU's handler has left to do
  state, reason, rq,           \* th->state, th->blocked_reason; the queued threads
  timed,                       \* the wait has a timeout (history)
  cb, armed,                   \* th->timeout.cb; the timeouts on a wheel
  bit, waiter,                 \* the notification
  sendQ, recvQ, owes           \* the endpoint; whom a server has to answer

cpuVars == <<released, ready, online, current, needs, deferred, ipi>>
waitVars == <<reason, timed>>
timerVars == <<cb, armed>>
objVars == <<bit, waiter, sendQ, recvQ, owes>>
vars == <<board, cpuVars, todo, state, rq, waitVars, timerVars, objVars>>

S(op, x) == [op |-> op, x |-> x]
Nothing(op) == S(op, Null)

(* ulmk_sched_trap_dispatch, at the end of every trap.  Its kick follows at *)
(* once on the one handlers end with, which it therefore stands for too.    *)
Exit == <<Nothing("kick"), Nothing("sample")>>

(* ulmk_sched_enqueue, outside the lock and as the end of a locked section. *)
Enqueue(t) == <<S("enqueue", t), S("mark", t)>>

Urgency(x) == IF x = Idle THEN 255 ELSE Prio[x]
Queued(Q, c) == {t \in Q : CpuOf[t] = c}

(* What pick_next may return on CPU c; the idle thread is always there.     *)
Tops(Q, c) ==
  IF Queued(Q, c) = {} THEN {Idle}
  ELSE {t \in Queued(Q, c) : \A u \in Queued(Q, c) : Prio[t] <= Prio[u]}
Running(x) == IF x = Idle THEN state ELSE [state EXCEPT ![x] = "RUNNING"]

(* The CPU whose wheel a timeout of t is on: ulmk_arch_timer_wheel_cpu.     *)
WheelOf(t) == IF CpuOf[t] \in board.ticks THEN CpuOf[t] ELSE Cpu0

-----------------------------------------------------------------------------
(* Bring-up.                                                                *)
Init ==
  /\ board \in Boards
  /\ released = {} /\ ready = {} /\ online = {Cpu0}
  /\ current = [c \in Cpus |-> Null]
  /\ needs = [c \in Cpus |-> FALSE] /\ deferred = [c \in Cpus |-> {}] /\ ipi = {}
  /\ \E order \in [1 .. Cardinality(Cpus) - 1 -> Cpus \ {Cpu0}] :
       /\ \A c \in Cpus \ {Cpu0} : \E i \in DOMAIN order : order[i] = c
       /\ todo = [c \in Cpus |->
            IF c = Cpu0 THEN [i \in DOMAIN order |-> S("release", order[i])] \o <<Nothing("first")>>
                        ELSE <<Nothing("park")>>]
  /\ state = [t \in Threads |-> IF t = Root THEN "READY" ELSE "NEW"] /\ rq = {Root}
  /\ reason = [t \in Threads |-> "none"] /\ timed = [t \in Threads |-> FALSE]
  /\ cb = [t \in Threads |-> Null] /\ armed = {}
  /\ bit = FALSE /\ waiter = Null
  /\ sendQ = <<>> /\ recvQ = <<>> /\ owes = [t \in Threads |-> Null]

Step(c, op) == todo[c] # <<>> /\ Head(todo[c]).op = op
Arg(c) == Head(todo[c]).x
Then(c, steps) == todo' = [todo EXCEPT ![c] = steps \o Tail(@)]

(* ulmk_arch_start_secondary, on a board with and without the wait for the  *)
(* secondary; ulmk_arch_smp_park on the secondary.                          *)
Release(c) ==
  /\ Step(c, "release")
  /\ released' = released \cup {Arg(c)}
  /\ Then(c, IF board.handshake THEN <<S("await", Arg(c))>> ELSE <<>>)
  /\ UNCHANGED <<board, ready, online, current, needs, deferred, ipi, state, rq, waitVars, timerVars, objVars>>

Await(c) ==
  /\ Step(c, "await") /\ Arg(c) \in ready
  /\ Then(c, <<>>)
  /\ UNCHANGED <<board, cpuVars, state, rq, waitVars, timerVars, objVars>>

Park(c) ==
  /\ Step(c, "park") /\ c \in released
  /\ Then(c, <<Nothing("first")>>)
  /\ UNCHANGED <<board, cpuVars, state, rq, waitVars, timerVars, objVars>>

(* ulmk_sched_start: pick, publish current, go online, tell CPU 0; the      *)
(* first context switch lets interrupts in.                                 *)
First(c) ==
  /\ Step(c, "first")
  /\ \E t \in Tops(rq, c) :
       /\ rq' = rq \ {t}
       /\ Then(c, <<S("publish", t), Nothing("online")>>
                   \o IF c = Cpu0 THEN <<>> ELSE <<Nothing("ready")>>)
  /\ UNCHANGED <<board, cpuVars, state, waitVars, timerVars, objVars>>

Publish(c) ==
  /\ Step(c, "publish")
  /\ current' = [current EXCEPT ![c] = Arg(c)]
  /\ state' = Running(Arg(c))
  /\ Then(c, <<>>)
  /\ UNCHANGED <<board, released, ready, online, needs, deferred, ipi, rq, waitVars, timerVars, objVars>>

Online(c) ==
  /\ Step(c, "online")
  /\ online' = online \cup {c}
  /\ Then(c, <<>>)
  /\ UNCHANGED <<board, released, ready, current, needs, deferred, ipi, state, rq, waitVars, timerVars, objVars>>

Ready(c) ==
  /\ Step(c, "ready")
  /\ ready' = ready \cup {c}
  /\ Then(c, <<>>)
  /\ UNCHANGED <<board, released, online, current, needs, deferred, ipi, state, rq, waitVars, timerVars, objVars>>

-----------------------------------------------------------------------------
(* What handlers do after the unlock.                                       *)
StepEnqueue(c) ==
  /\ Step(c, "enqueue")
  /\ rq' = rq \cup {Arg(c)} /\ state' = [state EXCEPT ![Arg(c)] = "READY"]
  /\ Then(c, <<>>)
  /\ UNCHANGED <<board, cpuVars, waitVars, timerVars, objVars>>

StepDequeue(c) ==
  /\ Step(c, "dequeue")
  /\ rq' = rq \ {Arg(c)}
  /\ Then(c, <<>>)
  /\ UNCHANGED <<board, cpuVars, state, waitVars, timerVars, objVars>>

(* sched_mark_preempt_if_higher: look at what the thread's CPU runs, without*)
(* a lock, and remember to interrupt it if it is another CPU and online.    *)
MarkedIfHigher(c, t) ==
  LET d == CpuOf[t]
      higher == current[d] = Null \/ (t # current[d] /\ Prio[t] < Urgency(current[d]))
  IN  /\ needs' = IF higher THEN [needs EXCEPT ![d] = TRUE] ELSE needs
      /\ deferred' = IF higher /\ d # c /\ d \in online
                     THEN [deferred EXCEPT ![c] = @ \cup {d}] ELSE deferred

Marked(c, t) ==
  LET d == CpuOf[t]
  IN  /\ needs' = IF current[d] = Null \/ (t # current[d] /\ Prio[t] < Urgency(current[d]))
                  THEN [needs EXCEPT ![d] = TRUE] ELSE needs
      /\ deferred' = IF d # c /\ d \in online
                     THEN [deferred EXCEPT ![c] = @ \cup {d}] ELSE deferred

StepMark(c) ==
  /\ Step(c, "mark")
  /\ Marked(c, Arg(c))
  /\ Then(c, <<>>)
  /\ UNCHANGED <<board, released, ready, online, current, ipi, state, rq, waitVars, timerVars, objVars>>

(* ulmk_sched_request_resched, ulmk_sched_kick_pending.                     *)
StepResched(c) ==
  /\ Step(c, "resched")
  /\ needs' = [needs EXCEPT ![c] = TRUE]
  /\ Then(c, <<>>)
  /\ UNCHANGED <<board, released, ready, online, current, deferred, ipi, state, rq, waitVars, timerVars, objVars>>

StepKick(c) ==
  /\ Step(c, "kick")
  /\ ipi' = ipi \cup deferred[c] /\ deferred' = [deferred EXCEPT ![c] = {}]
  /\ Then(c, <<>>)
  /\ UNCHANGED <<board, released, ready, online, current, needs, state, rq, waitVars, timerVars, objVars>>

(* ulmk_timeout_arm of the running thread, ulmk_timeout_disarm of any.      *)
StepArm(c) ==
  /\ Step(c, "arm")
  /\ cb' = [cb EXCEPT ![current[c]] = Arg(c)] /\ armed' = armed \cup {current[c]}
  /\ Then(c, <<>>)
  /\ UNCHANGED <<board, cpuVars, state, rq, waitVars, objVars>>

StepDisarm(c) ==
  /\ Step(c, "disarm")
  /\ cb' = [cb EXCEPT ![Arg(c)] = Null] /\ armed' = armed \ {Arg(c)}
  /\ Then(c, <<>>)
  /\ UNCHANGED <<board, cpuVars, state, rq, waitVars, objVars>>

(* ulmk_sched_trap_dispatch after the kick: read needs_resched; clear it    *)
(* (no lock), look at the running thread's state and at the queue, put the  *)
(* thread back if it is preempted and pick; switch.  What another CPU does  *)
(* between the parts of the second step it might as well do before it.      *)
StepSample(c) ==
  /\ Step(c, "sample")
  /\ Then(c, <<S("dispatch", needs[c])>>)
  /\ UNCHANGED <<board, cpuVars, state, rq, waitVars, timerVars, objVars>>

OnCpu(c) == \A t \in Threads \cap {current[c]} : state[t] = "RUNNING"
Urgent(c) == \E t \in Queued(rq, c) : Prio[t] < Urgency(current[c])

StepStay(c) ==
  /\ Step(c, "dispatch") /\ OnCpu(c) /\ ~Arg(c) /\ ~Urgent(c)
  /\ needs' = [needs EXCEPT ![c] = FALSE]
  /\ Then(c, <<>>)
  /\ UNCHANGED <<board, released, ready, online, current, deferred, ipi, state, rq, waitVars, timerVars, objVars>>

StepPick(c) ==
  /\ Step(c, "dispatch") /\ (OnCpu(c) => Arg(c) \/ Urgent(c))
  /\ needs' = [needs EXCEPT ![c] = FALSE]
  /\ LET back == {t \in Threads : t = current[c] /\ state[t] = "RUNNING"}
     IN  /\ state' = [t \in Threads |-> IF t \in back THEN "READY" ELSE state[t]]
         /\ \E t \in Tops(rq \cup back, c) :
              rq' = (rq \cup back) \ {t} /\ Then(c, <<S("switch", t)>>)
  /\ UNCHANGED <<board, released, ready, online, current, deferred, ipi, waitVars, timerVars, objVars>>

(* sched_switch_to: a thread that was woken again on its way out is taken   *)
(* off the queue.                                                           *)
StepSwitch(c) ==
  /\ Step(c, "switch")
  /\ current' = [current EXCEPT ![c] = Arg(c)]
  /\ state' = Running(Arg(c))
  /\ rq' = IF Arg(c) = current[c] THEN rq \ {Arg(c)} ELSE rq
  /\ Then(c, <<>>)
  /\ UNCHANGED <<board, released, ready, online, needs, deferred, ipi, waitVars, timerVars, objVars>>

-----------------------------------------------------------------------------
(* Interrupts.                                                              *)
InUser(c) == todo[c] = <<>> /\ current[c] # Null

(* The IPI is acknowledged, then ulmk_kern_ipi_resched asks for a dispatch. *)
TakeIpi(c) ==
  /\ InUser(c) /\ c \in ipi
  /\ ipi' = ipi \ {c}
  /\ needs' = [needs EXCEPT ![c] = TRUE]
  /\ todo' = [todo EXCEPT ![c] = Exit]
  /\ UNCHANGED <<board, released, ready, online, current, deferred, state, rq, waitVars, timerVars, objVars>>

(* ulmk_timer_tick with nothing, or with one timeout, to expire.            *)
Tick(c) ==
  /\ InUser(c) /\ c \in board.ticks
  /\ \/ todo' = [todo EXCEPT ![c] = Exit] /\ UNCHANGED armed
     \/ \E t \in armed :
          /\ WheelOf(t) = c
          /\ armed' = armed \ {t}
          /\ todo' = [todo EXCEPT ![c] = <<S("expire", t)>> \o Exit]
  /\ UNCHANGED <<board, cpuVars, state, rq, waitVars, cb, objVars>>

(* The thread is made READY and queued in the section that ends its wait.   *)
Woken(t) ==
  /\ state' = [state EXCEPT ![t] = "READY"] /\ rq' = rq \cup {t}
  /\ reason' = [reason EXCEPT ![t] = "none"] /\ timed' = [timed EXCEPT ![t] = FALSE]

(* The callbacks sleep_timeout_cb and notif_wait_timeout_cb.                *)
Expire(c) ==
  /\ Step(c, "expire")
  /\ LET t == Arg(c)
     IN  IF state[t] = "BLOCKED" /\ reason[t] = cb[t]
         THEN /\ Woken(t)
              /\ waiter' = IF waiter = t THEN Null ELSE waiter
              /\ Then(c, <<S("mark", t)>>
                         \o (IF cb[t] = "sleep" THEN <<Nothing("resched")>> ELSE <<>>))
         ELSE /\ Then(c, <<>>)
              /\ UNCHANGED <<state, rq, waitVars, waiter>>
  /\ UNCHANGED <<board, cpuVars, timerVars, bit, sendQ, recvQ, owes>>

-----------------------------------------------------------------------------
(* System calls of the thread on CPU c.                                     *)
Calls(c) == InUser(c) /\ current[c] \in Threads
Return(c, steps) == todo' = [todo EXCEPT ![c] = steps \o Exit]

Blocks(t, r, withTimeout) ==
  /\ state' = [state EXCEPT ![t] = "BLOCKED"]
  /\ reason' = [reason EXCEPT ![t] = r]
  /\ timed' = [timed EXCEPT ![t] = withTimeout]

Spawn(c, t) ==
  /\ Calls(c) /\ current[c] = Root /\ state[t] = "NEW"
  /\ state' = [state EXCEPT ![t] = "READY"]
  /\ Return(c, Enqueue(t))
  /\ UNCHANGED <<board, cpuVars, rq, waitVars, timerVars, objVars>>

(* ulmk_kern_sleep; ulmk_kern_sleep_cancel, which disarms after the unlock. *)
Sleep(c) ==
  /\ Calls(c)
  /\ Blocks(current[c], "sleep", TRUE)
  /\ rq' = rq \ {current[c]}
  /\ Return(c, <<S("arm", "sleep")>>)
  /\ UNCHANGED <<board, cpuVars, timerVars, objVars>>

SleepCancel(c, t) ==
  /\ Calls(c) /\ state[t] = "BLOCKED" /\ reason[t] = "sleep"
  /\ Woken(t)
  /\ Return(c, <<S("mark", t), S("disarm", t), Nothing("resched")>>)
  /\ UNCHANGED <<board, cpuVars, timerVars, objVars>>

(* notif_wait_impl and notif_wait_timeout_impl, which arms after the unlock.*)
NotifTake(c) ==
  /\ Calls(c) /\ bit
  /\ bit' = FALSE
  /\ Return(c, <<>>)
  /\ UNCHANGED <<board, cpuVars, state, rq, waitVars, timerVars, waiter, sendQ, recvQ, owes>>

NotifWaitLate(c, withTimeout) ==
  /\ Calls(c) /\ ~bit
  /\ Blocks(current[c], "notif", withTimeout)
  /\ waiter' = current[c]
  /\ Return(c, <<S("dequeue", current[c])>> \o IF withTimeout THEN <<S("arm", "notif")>> ELSE <<>>)
  /\ UNCHANGED <<board, cpuVars, rq, timerVars, bit, sendQ, recvQ, owes>>

NotifWait(c, withTimeout) ==
  /\ Calls(c) /\ ~bit
  /\ Blocks(current[c], "notif", withTimeout)
  /\ rq' = rq \ {current[c]}
  /\ waiter' = current[c]
  /\ Return(c, IF withTimeout THEN <<S("arm", "notif")>> ELSE <<>>)
  /\ UNCHANGED <<board, cpuVars, timerVars, bit, sendQ, recvQ, owes>>

(* notif_signal_impl, from a thread or from an interrupt handler: the waiter*)
(* is queued under the lock, its timeout disarmed after it.                 *)
NotifSignalArmed(c) ==
  /\ InUser(c)
  /\ IF waiter # Null /\ state[waiter] = "BLOCKED"
     THEN Woken(waiter) /\ waiter' = Null /\ Return(c, <<S("mark", waiter)>>) /\ UNCHANGED bit
     ELSE bit' = TRUE /\ Return(c, <<>>) /\ UNCHANGED <<state, rq, waitVars, waiter>>
  /\ UNCHANGED <<board, cpuVars, timerVars, sendQ, recvQ, owes>>

NotifSignal(c) ==
  /\ InUser(c)
  /\ IF waiter # Null /\ state[waiter] = "BLOCKED"
     THEN /\ Woken(waiter)
          /\ waiter' = Null
          /\ Return(c, <<S("mark", waiter)>>
                        \o (IF cb[waiter] # Null THEN <<S("disarm", waiter)>> ELSE <<>>))
          /\ UNCHANGED bit
     ELSE bit' = TRUE /\ Return(c, <<>>) /\ UNCHANGED <<state, rq, waitVars, waiter>>
  /\ UNCHANGED <<board, cpuVars, timerVars, sendQ, recvQ, owes>>

(* ep_call_impl: the caller, and a waiting server, move off and on the      *)
(* queue after the unlock.                                                  *)
EpCall(c) ==
  /\ Calls(c)
  /\ LET cur == current[c]
     IN  IF recvQ # <<>>
         THEN LET srv == Head(recvQ)
              IN  /\ state' = [state EXCEPT ![cur] = "BLOCKED", ![srv] = "READY"]
                  /\ reason' = [reason EXCEPT ![cur] = "call", ![srv] = "none"]
                  /\ owes' = [owes EXCEPT ![srv] = cur]
                  /\ recvQ' = Tail(recvQ)
                  /\ Return(c, <<S("dequeue", cur)>> \o Enqueue(srv))
                  /\ UNCHANGED <<timed, sendQ>>
         ELSE /\ Blocks(cur, "call", FALSE)
              /\ sendQ' = Append(sendQ, cur)
              /\ Return(c, <<S("dequeue", cur)>>)
              /\ UNCHANGED <<recvQ, owes>>
  /\ UNCHANGED <<board, cpuVars, rq, timerVars, bit, waiter>>

(* ep_recv_impl, ep_reply_impl.                                             *)
EpRecv(c) ==
  /\ Calls(c)
  /\ IF sendQ # <<>>
     THEN /\ owes' = [owes EXCEPT ![current[c]] = Head(sendQ)]
          /\ sendQ' = Tail(sendQ)
          /\ Return(c, <<>>)
          /\ UNCHANGED <<state, waitVars, recvQ>>
     ELSE /\ Blocks(current[c], "recv", FALSE)
          /\ recvQ' = Append(recvQ, current[c])
          /\ Return(c, <<S("dequeue", current[c])>>)
          /\ UNCHANGED <<sendQ, owes>>
  /\ UNCHANGED <<board, cpuVars, rq, timerVars, bit, waiter>>

EpReply(c) ==
  /\ Calls(c)
  /\ owes' = [owes EXCEPT ![current[c]] = Null]
  /\ LET caller == owes[current[c]]
     IN  IF reason[caller] = "call"
         THEN /\ state' = [state EXCEPT ![caller] = "READY"]
              /\ reason' = [reason EXCEPT ![caller] = "none"]
              /\ Return(c, <<S("disarm", caller)>> \o Enqueue(caller))
         ELSE Return(c, <<>>) /\ UNCHANGED <<state, reason>>
  /\ UNCHANGED <<board, cpuVars, rq, timed, timerVars, bit, waiter, sendQ, recvQ>>
-----------------------------------------------------------------------------
KernelStep(c) ==
  \/ Release(c) \/ Await(c) \/ Park(c) \/ First(c) \/ Publish(c) \/ Online(c) \/ Ready(c)
  \/ StepEnqueue(c) \/ StepDequeue(c) \/ StepMark(c) \/ StepResched(c) \/ StepKick(c)
  \/ StepArm(c) \/ StepDisarm(c)
  \/ StepSample(c) \/ StepStay(c) \/ StepPick(c) \/ StepSwitch(c)
  \/ Expire(c)

(* The CPU has t, and t's timeouts, to itself.                              *)
Owns(c, t) == CpuOf[t] = c /\ WheelOf(t) = c

(* A signal that disarms no timeout, or one of its own CPU.                 *)
Harmless(c) ==
  \A t \in Threads \cap {waiter} : Owns(c, t) \/ (~timed[t] /\ cb[t] = Null)

(* Clients and servers of the endpoint; a server answers before it receives *)
(* again.                                                                   *)
Serve(c) == IF owes[current[c]] = Null THEN EpRecv(c) ELSE EpReply(c)

(* Programs whose timed waits, and waits of threads that have waited with a *)
(* timeout before, are ended by their own CPU only.  Sleepers use timeouts; *)
(* the endpoint's Clients and Servers share a CPU.                          *)
LocalStep(c, Clients, Servers, Sleepers) ==
  \/ \E t \in Threads : Spawn(c, t)
  \/ Calls(c) /\ current[c] \in Clients /\ EpCall(c)
  \/ Calls(c) /\ current[c] \in Servers /\ Serve(c)
  \/ /\ Calls(c) /\ current[c] \in Sleepers
     /\ Sleep(c) \/ (Owns(c, current[c]) /\ (NotifTake(c) \/ NotifWait(c, TRUE)))
  \/ /\ Calls(c) /\ current[c] \notin Sleepers
     /\ \/ NotifTake(c) \/ NotifWait(c, FALSE)
        \/ \E t \in Threads : Owns(c, t) /\ SleepCancel(c, t)
  \/ Harmless(c) /\ NotifSignal(c)

CpuStep(c) == KernelStep(c) \/ TakeIpi(c) \/ Tick(c)

LocalNext(Clients, Servers, Sleepers) ==
  \E c \in Cpus : CpuStep(c) \/ LocalStep(c, Clients, Servers, Sleepers)

LocalSpec(Clients, Servers, Sleepers) ==
  Init /\ [][LocalNext(Clients, Servers, Sleepers)]_vars

(* Programs that call, or that wait with a timeout, across CPUs.            *)
CallStep(c, Clients) ==
  \/ \E t \in Threads : Spawn(c, t)
  \/ Calls(c) /\ current[c] \in Clients /\ EpCall(c)
  \/ Calls(c) /\ current[c] \notin Clients /\ Serve(c)

TimedStep(c) ==
  \/ \E t \in Threads : Spawn(c, t) \/ SleepCancel(c, t)
  \/ Sleep(c) \/ NotifTake(c) \/ NotifSignal(c)
  \/ \E withTimeout \in BOOLEAN : NotifWait(c, withTimeout)

-----------------------------------------------------------------------------
Pending(t, ops) == \E c \in Cpus : \E i \in DOMAIN todo[c] :
                     todo[c][i].op \in ops /\ todo[c][i].x = t

\* The per-CPU records and queues hold what their fields can hold, and a
\* RUNNING thread is the current one of its CPU, on no queue (pick_next and
\* sched_switch_to against the wake paths of other CPUs).
TypeOK ==
  /\ current \in [Cpus -> Threads \cup {Idle, Null}]
  /\ ipi \subseteq online /\ \A c \in Cpus : deferred[c] \subseteq online \ {c}
  /\ \A t \in Threads :
       state[t] = "RUNNING" => current[CpuOf[t]] = t /\ (t \in rq => Pending(t, {"switch"}))

\* "Remote CPUs enqueue under this lock; the owner CPU pick_next/dequeue also
\* take it" (bitmap_rt.c): no wake is lost.  A thread that is READY is on the
\* run queue of its CPU, or some CPU is about to put it there or to run it.
ReadyIsQueued ==
  \A t \in Threads :
    state[t] = "READY" => t \in rq \/ Pending(t, {"enqueue", "switch", "publish"})

\* Queues, states and current threads of all CPUs agree (bitmap_rt.c, sched.c).
QueuesFollowStates == TypeOK /\ ReadyIsQueued

\* "Idle has no tick - without a kick the remote never notices" (sched.c): a
\* CPU that went back to user code below a more urgent thread on its queue has
\* an IPI raised, or one is on its way; on a board whose start_secondary does
\* not wait, its own tick makes up for a wake before it was online.
WakeNoticed ==
  \A c \in Cpus :
    InUser(c) /\ Urgent(c)
      => \/ c \in ipi \/ \E d \in Cpus : c \in deferred[d]
         \/ \E t \in Queued(rq, c) : Pending(t, {"mark"})
         \/ ~board.handshake

\* "If signal already woke us, the timeout cb sees non-blocked and no-ops"
\* (notif.c), and a timed wait must end: a timeout on a wheel belongs to the
\* wait its thread is in, or is about to be disarmed, and a timed wait has its
\* timeout, or is about to arm it or to be ended by it.
TimerOfWait ==
  \A t \in Threads :
    /\ t \in armed => timed[t] \/ Pending(t, {"disarm"})
    /\ timed[t] => \/ t \in armed \/ Pending(t, {"expire"})
                   \/ \E c \in Cpus : current[c] = t /\ \E i \in DOMAIN todo[c] : todo[c][i].op = "arm"
=============================================================================
