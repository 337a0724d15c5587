------------------------------- MODULE Kernel -------------------------------
(***************************************************************************)
(* The single-CPU kernel core: threads, synchronous IPC endpoints,         *)
(* notifications, timed waits and the trap-exit scheduler.                 *)
(*                                                                         *)
(*   kernel/thread/thread.c   kernel/ipc/ep.c      kernel/notif/notif.c    *)
(*   kernel/time/sleep.c      kernel/sched/sched.c kernel/kernel_main.c    *)
(*                                                                         *)
(* Interrupts are masked from trap entry to trap exit, so one handler is   *)
(* one action.  `phase' says where the CPU is: in user code, at the end of *)
(* a system-call handler, inside an interrupt, in the second half of       *)
(* ep_reply_recv, in the loop of ep_destroy, or past the dispatch and      *)
(* about to resolve a system call's return value.  Each TCB field that the *)
(* handlers read back is a variable of its own.                            *)
(*                                                                         *)
(* Message contents and user buffers are left out; which user pointers the *)
(* kernel still holds is kept (outptr).  taken, owed and base are history: *)
(* no handler reads them.                                                  *)
(***************************************************************************)
EXTENDS RunQueue

CONSTANTS
  Root,         \* the thread that boots running
  Eps,          \* endpoint objects the heap can hold
  Notifs,       \* notification objects the heap can hold
  Bits,         \* notification bits in use
  Null          \* NULL pointer, *_INVALID handle

ASSUME RootAssumption == Root \in Threads
ASSUME NullAssumption == Null \notin AllThreads \cup Eps \cup Notifs

VARIABLES
  state,        \* th->state
  reason,       \* th->blocked_reason
  prio,         \* th->priority
  saved,        \* th->saved_prio
  registered,   \* th->reg_node is linked: the TCB and stack are not freed
  timer,        \* callback of th->timeout while it is on the wheel
  ipcSender,    \* th->ipc_sender
  blockedEp,    \* th->blocked_ep
  blockedNotif, \* th->blocked_notif
  waitMask,     \* th->notif_wait_mask
  status,       \* th->block_status
  wakeRet,      \* th->syscall_wake_ret_valid
  outptr,       \* which of th's *_outptr fields are not NULL
  epActive, sendQ, recvQ,                 \* endpoint objects
  ntActive, bits, waiter,                 \* notification objects
  rq, current, needsResched, dead,        \* per-CPU scheduler state
  phase, arg,   \* where the CPU is; the endpoint of a two-step handler
  op, ret,      \* the system call a thread is inside of; its result so far
  taken,        \* history: the server that received a thread's current call
  owed,         \* history: senders a server was handed and has not answered
  base          \* history: the priority last asked for by spawn or set_prio

sched  == <<rq, current, needsResched, dead>>
ep     == <<epActive, sendQ, recvQ>>
notif  == <<ntActive, bits, waiter>>
prios  == <<prio, saved>>
block  == <<state, reason, blockedEp, blockedNotif, waitMask, status>>
resume == <<wakeRet, outptr>>
ghost  == <<taken, owed, base>>
vars == <<state, reason, prio, saved, registered, timer, ipcSender, blockedEp,
          blockedNotif, waitMask, status, wakeRet, outptr, epActive, sendQ,
          recvQ, ntActive, bits, waiter, rq, current, needsResched, dead,
          phase, arg, op, ret, taken, owed, base>>

States  == {"DEAD", "READY", "RUNNING", "BLOCKED", "SUSPENDED"}
Reasons == {"NONE", "CALL", "RECV", "NOTIF", "OR_NOTIF", "SLEEP"}
Codes   == {"OK", "EINVAL", "ESRCH", "ETIMEOUT", "ECANCELED", "NOTIFIED"}
Phases  == {"user", "syscall", "isr", "recv", "destroy", "resolve", "corrupt"}
Timers  == {"none", "call", "wait", "sleep"}
Outptrs == {"msg", "sender", "bits", "rn"}
Ops     == {"none", "ep_create", "ep_call", "ep_recv", "ep_reply",
            "ep_reply_recv", "ep_recv_or_notif", "ep_destroy", "notif_create",
            "notif_signal", "notif_wait", "notif_poll", "notif_destroy",
            "sleep", "sleep_cancel", "yield", "exit", "spawn", "kill",
            "suspend", "resume", "set_prio"}

(* Every variable holds a value of the C type and range the code gives it:  *)
(* the TCB fields, what a blocked thread waits for, the IPC objects, the    *)
(* CPU, and the history variables.                                          *)
TcbType ==
  /\ state \in [AllThreads -> States]
  /\ prio \in [AllThreads -> Prio]
  /\ saved \in [AllThreads -> Prio]
  /\ registered \in [AllThreads -> BOOLEAN]
  /\ timer \in [AllThreads -> Timers]
  /\ op \in [AllThreads -> Ops]
  /\ ret \in [AllThreads -> Codes]

WaitType ==
  /\ reason \in [AllThreads -> Reasons]
  /\ ipcSender \in [AllThreads -> AllThreads \cup {Null}]
  /\ blockedEp \in [AllThreads -> Eps \cup {Null}]
  /\ blockedNotif \in [AllThreads -> Notifs \cup {Null}]
  /\ waitMask \in [AllThreads -> SUBSET Bits]
  /\ status \in [AllThreads -> Codes]
  /\ wakeRet \in [AllThreads -> BOOLEAN]
  /\ outptr \in [AllThreads -> SUBSET Outptrs]

ObjectType ==
  /\ epActive \in [Eps -> BOOLEAN]
  /\ sendQ \in [Eps -> Seq(AllThreads)]
  /\ recvQ \in [Eps -> Seq(AllThreads)]
  /\ ntActive \in [Notifs -> BOOLEAN]
  /\ bits \in [Notifs -> SUBSET Bits]
  /\ waiter \in [Notifs -> AllThreads \cup {Null}]

CpuType ==
  /\ rq \in RqType
  /\ current \in AllThreads
  /\ needsResched \in BOOLEAN
  /\ dead \in AllThreads \cup {Null}
  /\ phase \in Phases
  /\ arg \in Eps \cup {Null}

HistoryType ==
  /\ taken \in [AllThreads -> AllThreads \cup {Null}]
  /\ owed \in [AllThreads -> SUBSET AllThreads]
  /\ base \in [AllThreads -> Prio]

TypeOK == TcbType /\ WaitType /\ ObjectType /\ CpuType /\ HistoryType

-----------------------------------------------------------------------------
(* Boot: kern_main enqueues idle at 255 and root at 0, sched_start picks     *)
(* root.  No other object exists yet.                                       *)
Init ==
  /\ state = [t \in AllThreads |->
       IF t = Root THEN "RUNNING" ELSE IF t = Idle THEN "READY" ELSE "DEAD"]
  /\ reason = [t \in AllThreads |-> "NONE"]
  /\ prio = [t \in AllThreads |-> IF t = Root THEN 0 ELSE MaxPrio]
  /\ saved = prio
  /\ registered = [t \in AllThreads |-> t \in {Root, Idle}]
  /\ timer = [t \in AllThreads |-> "none"]
  /\ ipcSender = [t \in AllThreads |-> Null]
  /\ blockedEp = [t \in AllThreads |-> Null]
  /\ blockedNotif = [t \in AllThreads |-> Null]
  /\ waitMask = [t \in AllThreads |-> {}]
  /\ status = [t \in AllThreads |-> "OK"]
  /\ wakeRet = [t \in AllThreads |-> FALSE]
  /\ outptr = [t \in AllThreads |-> {}]
  /\ epActive = [e \in Eps |-> FALSE]
  /\ sendQ = [e \in Eps |-> <<>>]
  /\ recvQ = [e \in Eps |-> <<>>]
  /\ ntActive = [n \in Notifs |-> FALSE]
  /\ bits = [n \in Notifs |-> {}]
  /\ waiter = [n \in Notifs |-> Null]
  /\ rq = [level  |-> [p \in Prio |-> IF p = MaxPrio THEN <<Idle>> ELSE <<>>],
           bitmap |-> {MaxPrio}]
  /\ current = Root
  /\ needsResched = FALSE
  /\ dead = Null
  /\ phase = "user"
  /\ arg = Null
  /\ op = [t \in AllThreads |-> "none"]
  /\ ret = [t \in AllThreads |-> "OK"]
  /\ taken = [t \in AllThreads |-> Null]
  /\ owed = [t \in AllThreads |-> {}]
  /\ base = prio

-----------------------------------------------------------------------------
(* Helpers shared by the handlers.                                          *)

(* The function f with value v on the set S.                                *)
Put(f, S, v) == [x \in DOMAIN f |-> IF x \in S THEN v ELSE f[x]]

(* ulmk_thread_by_tid                                                       *)
Alive(t) == t # Null /\ state[t] # "DEAD" /\ registered[t]

(* th->ipc_node is on a queue of some endpoint.                              *)
IpcLinked(t) ==
  \E e \in Eps : t \in Range(sendQ[e]) \cup Range(recvQ[e])

UnlinkIpcForgotten(q, t) == q
UnlinkIpc(q, t) == [e \in Eps |-> Unlink(q[e], t)]

(* ipc_pop_head and ipc_enqueue_tail on the queues q of endpoint e.          *)
PopHeadKept(q, e) == q
PopHead(q, e) == [q EXCEPT ![e] = Tail(@)]

IpcEnqueueHead(q, e, t) == [q EXCEPT ![e] = <<t>> \o @]
IpcEnqueueTail(q, e, t) == [q EXCEPT ![e] = Append(@, t)]

(* ulmk_thread_timeout_disarm                                               *)
DisarmForgotten(t) == timer
Disarm(t) == [timer EXCEPT ![t] = "none"]

(* sched_mark_preempt_if_higher, after th's priority became p and the        *)
(* running thread's cp.                                                     *)
Preempts(t, p, cp) == t # current /\ p < cp

(* A user thread traps into system call `name' and the handler leaves r in  *)
(* the return register; the trap exit comes next.                           *)
InUser == phase = "user" /\ current # Idle

Return(name, r) ==
  /\ op' = [op EXCEPT ![current] = name]
  /\ ret' = [ret EXCEPT ![current] = r]
  /\ phase' = "syscall"

(* A handler that returns r without touching anything else.                 *)
ReturnOnly(name, r) ==
  /\ Return(name, r)
  /\ UNCHANGED <<sched, ep, notif, prios, block, resume, ghost, registered,
                 timer, ipcSender, arg>>

(* sys_dlist_append of a node that is still on a list, or reuse of a TCB    *)
(* that still is: the list is no longer a list.  The model stops there.     *)
Corrupt ==
  /\ phase' = "corrupt"
  /\ UNCHANGED <<sched, ep, notif, prios, block, resume, ghost, registered,
                 timer, ipcSender, arg, op, ret>>

(* apply_prio_inherit                                                       *)
InheritedAbove(s, c) == IF prio[c] < prio[s] THEN prio[c] - 1 ELSE prio[s]
Inherited(s, c) == IF prio[c] < prio[s] THEN prio[c] ELSE prio[s]

(* clear_server_block and its copies: drop the waiter slot that th names.   *)
DropWaiterForgotten(t) == waiter
DropWaiter(t) ==
  [n \in Notifs |->
     IF ntActive[n] /\ blockedNotif[t] = n /\ waiter[n] = t
     THEN Null ELSE waiter[n]]

-----------------------------------------------------------------------------
(* Endpoints (kernel/ipc/ep.c).                                             *)

EpCreate(e) ==
  /\ InUser
  /\ ~epActive[e]
  /\ epActive' = [epActive EXCEPT ![e] = TRUE]
  /\ sendQ' = [sendQ EXCEPT ![e] = <<>>]
  /\ recvQ' = [recvQ EXCEPT ![e] = <<>>]
  /\ Return("ep_create", "OK")
  /\ UNCHANGED <<sched, notif, prios, block, resume, ghost, registered, timer,
                 ipcSender, arg>>

(* ep_call, ep_call_timeout: what both do to the caller, up to the unlock.  *)
(* cb is the callback armed afterwards, or "none".                          *)
CallerBlocks(e, cb) ==
  /\ Return("ep_call", "OK")
  /\ timer' = IF cb = "none" THEN timer ELSE [timer EXCEPT ![current] = cb]
  /\ UNCHANGED <<epActive, waitMask, ntActive, bits, registered, wakeRet,
                 current, dead, arg, base>>

(* No server waits: queue behind the other callers.                         *)
CallerQueues(e, cb) ==
  /\ CallerBlocks(e, cb)
  /\ sendQ' = IpcEnqueueTail(sendQ, e, current)
  /\ state' = [state EXCEPT ![current] = "BLOCKED"]
  /\ reason' = [reason EXCEPT ![current] = "CALL"]
  /\ blockedEp' = [blockedEp EXCEPT ![current] = e]
  /\ status' = [status EXCEPT ![current] = "OK"]
  /\ ipcSender' = [ipcSender EXCEPT ![current] = Null]
  /\ outptr' = [outptr EXCEPT ![current] = @ \cup {"msg"}]
  /\ rq' = RqDequeue(rq, current, prio[current])
  /\ taken' = [taken EXCEPT ![current] = Null]
  /\ UNCHANGED <<recvQ, prios, blockedNotif, waiter, needsResched,
                 owed>>

EpCallQueue(e, cb) ==
  /\ InUser /\ epActive[e] /\ recvQ[e] = <<>>
  /\ IF IpcLinked(current) THEN Corrupt ELSE CallerQueues(e, cb)

(* A server waits: prepare_server_delivery, then wake it.                   *)
EpCallDeliver(e, cb) ==
  /\ InUser /\ epActive[e] /\ recvQ[e] # <<>>
  /\ LET srv == Head(recvQ[e])
         p   == Inherited(srv, current)
     IN
     /\ CallerBlocks(e, cb)
     /\ recvQ' = PopHead(recvQ, e)
     /\ state' = [state EXCEPT ![current] = "BLOCKED", ![srv] = "READY"]
     /\ reason' = [reason EXCEPT ![current] = "CALL", ![srv] = "NONE"]
     /\ blockedEp' = [blockedEp EXCEPT ![current] = e, ![srv] = Null]
     /\ status' = [status EXCEPT ![current] = "OK"]
     /\ ipcSender' = [ipcSender EXCEPT ![current] = Null, ![srv] = current]
     /\ saved' = [saved EXCEPT ![srv] = prio[srv]]
     /\ prio' = [prio EXCEPT ![srv] = p]
     /\ waiter' = DropWaiter(srv)
     /\ blockedNotif' = [blockedNotif EXCEPT ![srv] = Null]
     /\ outptr' = [outptr EXCEPT ![current] = @ \cup {"msg"},
                                 ![srv] = @ \ {"msg", "sender", "rn"}]
     /\ rq' = RqEnqueue(RqDequeue(rq, current, prio[current]), srv, p)
     /\ needsResched' = (needsResched \/ Preempts(srv, p, prio[current]))
     /\ taken' = [taken EXCEPT ![current] = srv]
     /\ owed' = [owed EXCEPT ![srv] = @ \cup {current}]
     /\ UNCHANGED sendQ

(* ep_by_id fails, or the timeout does not fit the timer wheel.             *)
EpCallRefused(e, valid) ==
  /\ InUser
  /\ ~epActive[e] \/ ~valid
  /\ ReturnOnly("ep_call", "EINVAL")

(* ep_recv and the tail of ep_reply_recv.  A queued caller is taken at once;*)
(* otherwise the server blocks.                                             *)
RecvTake(e, name) ==
  /\ epActive[e] /\ sendQ[e] # <<>>
  /\ LET caller == Head(sendQ[e])
     IN
     /\ sendQ' = PopHead(sendQ, e)
     /\ ipcSender' = [ipcSender EXCEPT ![current] = caller]
     /\ saved' = [saved EXCEPT ![current] = prio[current]]
     /\ prio' = [prio EXCEPT ![current] = Inherited(current, caller)]
     /\ taken' = [taken EXCEPT ![caller] = current]
     /\ owed' = [owed EXCEPT ![current] = @ \cup {caller}]
  /\ Return(name, "OK")
  /\ UNCHANGED <<sched, epActive, recvQ, notif, block, resume, registered,
                 timer, arg, base>>

ReceiverQueues(e, name) ==
  /\ recvQ' = IpcEnqueueTail(recvQ, e, current)
  /\ state' = [state EXCEPT ![current] = "BLOCKED"]
  /\ reason' = [reason EXCEPT ![current] = "RECV"]
  /\ blockedEp' = [blockedEp EXCEPT ![current] = e]
  /\ status' = [status EXCEPT ![current] = "OK"]
  /\ outptr' = [outptr EXCEPT ![current] = @ \cup {"msg", "sender"}]
  /\ rq' = RqDequeue(rq, current, prio[current])
  /\ Return(name, "OK")
  /\ UNCHANGED <<epActive, sendQ, notif, prios, ghost, blockedNotif,
                 waitMask, wakeRet, current, needsResched, dead,
                 registered, timer, ipcSender, arg>>

RecvBlock(e, name) ==
  /\ epActive[e] /\ sendQ[e] = <<>>
  /\ IF IpcLinked(current) THEN Corrupt ELSE ReceiverQueues(e, name)

EpRecv(e) ==
  /\ InUser
  /\ \/ RecvTake(e, "ep_recv")
     \/ RecvBlock(e, "ep_recv")
     \/ ~epActive[e] /\ ReturnOnly("ep_recv", "EINVAL")

(* The body of ep_reply_impl for a caller c that is still in a call.  The   *)
(* replying thread's priority is restored first.                            *)
CanReply(c) == Alive(c) /\ reason[c] = "CALL"

RestorePrioForgotten == prio
RestorePrio == [prio EXCEPT ![current] = saved[current]]

ReplyTo(c) ==
  /\ prio' = RestorePrio
  /\ state' = [state EXCEPT ![c] = "READY"]
  /\ reason' = [reason EXCEPT ![c] = "NONE"]
  /\ blockedEp' = [blockedEp EXCEPT ![c] = Null]
  /\ outptr' = [outptr EXCEPT ![c] = @ \ {"msg"}]
  /\ timer' = Disarm(c)
  /\ rq' = RqEnqueue(rq, c, prio'[c])
  /\ needsResched' = (needsResched \/ Preempts(c, prio'[c], prio'[current]))
  /\ UNCHANGED <<saved, blockedNotif, waitMask, status, wakeRet>>

EpReply(c) ==
  /\ InUser
  /\ owed' = [owed EXCEPT ![current] = @ \ {c}]
  /\ \/ CanReply(c) /\ ReplyTo(c) /\ Return("ep_reply", "OK")
     \/ /\ ~CanReply(c)
        /\ Return("ep_reply", "EINVAL")
        /\ UNCHANGED <<rq, needsResched, prios, block, resume, timer>>
  /\ UNCHANGED <<ep, notif, registered, ipcSender, current, dead, arg, taken,
                 base>>

(* ep_reply_recv: the reply's result is dropped, then the receive follows   *)
(* (c = Null skips the reply).                                              *)
EpReplyRecv(e, c) ==
  /\ InUser
  /\ \/ c # Null /\ CanReply(c) /\ ReplyTo(c)
     \/ /\ c = Null \/ ~CanReply(c)
        /\ UNCHANGED <<rq, needsResched, prios, block, resume, timer>>
  /\ owed' = [owed EXCEPT ![current] = @ \ {c}]
  /\ phase' = "recv"
  /\ arg' = e
  /\ UNCHANGED <<ep, notif, registered, ipcSender, current, dead, op, ret,
                 taken, base>>

EpReplyRecvTail ==
  /\ phase = "recv"
  /\ \/ RecvTake(arg, "ep_reply_recv")
     \/ RecvBlock(arg, "ep_reply_recv")
     \/ ~epActive[arg] /\ ReturnOnly("ep_reply_recv", "EINVAL")

(* ep_recv_or_notif: pending bits first, then a queued caller, else wait    *)
(* for both.                                                                *)
RecvOrNotifBits(e, n, m) ==
  /\ bits[n] \cap m # {}
  /\ bits' = [bits EXCEPT ![n] = @ \ m]
  /\ Return("ep_recv_or_notif", "NOTIFIED")
  /\ UNCHANGED <<sched, ep, ntActive, waiter, prios, block, resume, ghost,
                 registered, timer, ipcSender, arg>>

ReceiverWaits(e, n, m) ==
  /\ recvQ' = IpcEnqueueTail(recvQ, e, current)
  /\ waiter' = [waiter EXCEPT ![n] = current]
  /\ state' = [state EXCEPT ![current] = "BLOCKED"]
  /\ reason' = [reason EXCEPT ![current] = "OR_NOTIF"]
  /\ blockedEp' = [blockedEp EXCEPT ![current] = e]
  /\ blockedNotif' = [blockedNotif EXCEPT ![current] = n]
  /\ waitMask' = [waitMask EXCEPT ![current] = m]
  /\ status' = [status EXCEPT ![current] = "OK"]
  /\ ipcSender' = [ipcSender EXCEPT ![current] = Null]
  /\ outptr' = [outptr EXCEPT ![current] =
                  (@ \ {"msg", "sender"}) \cup {"rn"}]
  /\ rq' = RqDequeue(rq, current, prio[current])
  /\ Return("ep_recv_or_notif", "OK")
  /\ UNCHANGED <<epActive, sendQ, ntActive, bits, prios, ghost,
                 wakeRet, current, needsResched, dead, registered,
                 timer, arg>>

RecvOrNotifBlock(e, n, m) ==
  /\ bits[n] \cap m = {} /\ sendQ[e] = <<>>
  /\ IF IpcLinked(current) THEN Corrupt ELSE ReceiverWaits(e, n, m)

EpRecvOrNotif(e, n, m) ==
  /\ InUser
  /\ \/ epActive[e] /\ ntActive[n] /\ RecvOrNotifBits(e, n, m)
     \/ /\ epActive[e] /\ ntActive[n] /\ bits[n] \cap m = {}
        /\ RecvTake(e, "ep_recv_or_notif")
     \/ epActive[e] /\ ntActive[n] /\ RecvOrNotifBlock(e, n, m)
     \/ /\ ~epActive[e] \/ ~ntActive[n]
        /\ ReturnOnly("ep_recv_or_notif", "EINVAL")

(* ep_destroy: the object is deactivated, then each thread still on one of  *)
(* its queues is woken, callers first, one per turn of the loop.            *)
EpDestroy(e) ==
  /\ InUser
  /\ \/ /\ epActive[e]
        /\ epActive' = [epActive EXCEPT ![e] = FALSE]
        /\ phase' = "destroy"
        /\ arg' = e
        /\ UNCHANGED <<sched, sendQ, recvQ, notif, prios, block, resume, ghost,
                       registered, timer, ipcSender, op, ret>>
     \/ ~epActive[e] /\ ReturnOnly("ep_destroy", "EINVAL")

(* wake_blocked_on_destroy                                                  *)
DestroyWake(t) ==
  /\ state' = [state EXCEPT ![t] = "READY"]
  /\ reason' = [reason EXCEPT ![t] = "NONE"]
  /\ status' = [status EXCEPT ![t] = "EINVAL"]
  /\ blockedEp' = [blockedEp EXCEPT ![t] = Null]
  /\ waiter' = DropWaiter(t)
  /\ blockedNotif' = [blockedNotif EXCEPT ![t] = Null]
  /\ timer' = Disarm(t)
  /\ rq' = RqEnqueue(rq, t, prio[t])
  /\ needsResched' = (needsResched \/ Preempts(t, prio[t], prio[current]))
  /\ UNCHANGED <<epActive, ntActive, bits, prios, waitMask, resume, ghost,
                 registered, ipcSender, current, dead, phase, arg, op, ret>>

EpDestroyNext ==
  /\ phase = "destroy"
  /\ \/ /\ sendQ[arg] # <<>>
        /\ sendQ' = PopHead(sendQ, arg)
        /\ DestroyWake(Head(sendQ[arg]))
        /\ UNCHANGED recvQ
     \/ /\ sendQ[arg] = <<>> /\ recvQ[arg] # <<>>
        /\ recvQ' = PopHead(recvQ, arg)
        /\ DestroyWake(Head(recvQ[arg]))
        /\ UNCHANGED sendQ
     \/ /\ sendQ[arg] = <<>> /\ recvQ[arg] = <<>>
        /\ ReturnOnly("ep_destroy", "OK")

-----------------------------------------------------------------------------
(* Notifications (kernel/notif/notif.c).                                    *)

NotifCreate(n) ==
  /\ InUser
  /\ ~ntActive[n]
  /\ ntActive' = [ntActive EXCEPT ![n] = TRUE]
  /\ bits' = [bits EXCEPT ![n] = {}]
  /\ waiter' = [waiter EXCEPT ![n] = Null]
  /\ Return("notif_create", "OK")
  /\ UNCHANGED <<sched, ep, prios, block, resume, ghost, registered, timer,
                 ipcSender, arg>>

(* notif_signal_impl: post b, and hand the matching bits to the waiter if   *)
(* there is one and it is blocked.                                          *)
Delivered(n, b) == (bits[n] \cup b) \cap waitMask[waiter[n]]

SignalWakes(n, b) ==
  waiter[n] # Null /\ state[waiter[n]] = "BLOCKED" /\ Delivered(n, b) # {}

SignalPost(n, b) ==
  /\ ~SignalWakes(n, b)
  /\ bits' = [bits EXCEPT ![n] = @ \cup b]
  /\ UNCHANGED <<waiter, block, resume, recvQ, sendQ, rq, needsResched, timer>>

(* The waiter leaves the endpoint's queue as well, or waited only here.     *)
LeaveBoth(w) ==
  /\ reason[w] = "OR_NOTIF"
  /\ recvQ' = IF blockedEp[w] = Null THEN recvQ ELSE UnlinkIpc(recvQ, w)
  /\ sendQ' = IF blockedEp[w] = Null THEN sendQ ELSE UnlinkIpc(sendQ, w)
  /\ blockedEp' = [blockedEp EXCEPT ![w] = Null]
  /\ blockedNotif' = [blockedNotif EXCEPT ![w] = Null]
  /\ outptr' = [outptr EXCEPT ![w] = @ \ {"rn"}]
  /\ wakeRet' = [wakeRet EXCEPT ![w] = TRUE]

LeaveNotif(w) ==
  /\ reason[w] # "OR_NOTIF"
  /\ outptr' = [outptr EXCEPT ![w] = @ \ {"bits"}]
  /\ UNCHANGED <<recvQ, sendQ, blockedEp, blockedNotif, wakeRet>>

SignalWake(n, b) ==
  /\ SignalWakes(n, b)
  /\ LET w == waiter[n]
     IN
     /\ bits' = [bits EXCEPT ![n] = (@ \cup b) \ Delivered(n, b)]
     /\ waiter' = [waiter EXCEPT ![n] = Null]
     /\ LeaveBoth(w) \/ LeaveNotif(w)
     /\ reason' = [reason EXCEPT ![w] = "NONE"]
     /\ state' = [state EXCEPT ![w] = "READY"]
     /\ timer' = Disarm(w)
     /\ rq' = RqEnqueue(rq, w, prio[w])
     /\ needsResched' = (needsResched \/ Preempts(w, prio[w], prio[current]))
     /\ UNCHANGED <<waitMask, status>>

Signal(n, b) ==
  /\ SignalPost(n, b) \/ SignalWake(n, b)
  /\ UNCHANGED <<epActive, ntActive, prios, ghost, registered, ipcSender,
                 current, dead, arg>>

NotifSignal(n, b) ==
  /\ InUser
  /\ \/ ntActive[n] /\ Signal(n, b) /\ Return("notif_signal", "OK")
     \/ ~ntActive[n] /\ ReturnOnly("notif_signal", "EINVAL")

(* An interrupt bound to notification n (ulmk_kern_irq_dispatch): the same  *)
(* signal, from the ISR.                                                    *)
IrqDispatch(n, b) ==
  /\ phase \in {"user", "isr"}
  /\ ntActive[n]
  /\ Signal(n, b)
  /\ phase' = "isr"
  /\ UNCHANGED <<op, ret>>

(* notif_wait, notif_wait_timeout.  cb is the callback armed, or "none".    *)
(* The second look at n->bits, after the thread is queued, repeats the      *)
(* first under the same lock and never finds a bit: it is not modelled.     *)
NotifWaitTake(n, m) ==
  /\ InUser /\ ntActive[n]
  /\ bits[n] \cap m # {}
  /\ bits' = [bits EXCEPT ![n] = @ \ m]
  /\ Return("notif_wait", "OK")
  /\ UNCHANGED <<sched, ep, ntActive, waiter, prios, block, resume, ghost,
                 registered, timer, ipcSender, arg>>

NotifWaitBlock(n, m, cb) ==
  /\ InUser /\ ntActive[n]
  /\ bits[n] \cap m = {}
  /\ waiter' = [waiter EXCEPT ![n] = current]
  /\ state' = [state EXCEPT ![current] = "BLOCKED"]
  /\ reason' = [reason EXCEPT ![current] = "NOTIF"]
  /\ blockedNotif' = [blockedNotif EXCEPT ![current] = n]
  /\ waitMask' = [waitMask EXCEPT ![current] = m]
  /\ status' = [status EXCEPT ![current] = "OK"]
  /\ outptr' = [outptr EXCEPT ![current] = @ \cup {"bits"}]
  /\ timer' = IF cb = "none" THEN timer ELSE [timer EXCEPT ![current] = cb]
  /\ rq' = RqDequeue(rq, current, prio[current])
  /\ Return("notif_wait", "OK")
  /\ UNCHANGED <<ep, ntActive, bits, prios, ghost, blockedEp, wakeRet,
                 current, needsResched, dead, registered, ipcSender, arg>>

NotifWaitRefused(n, valid) ==
  /\ InUser
  /\ ~ntActive[n] \/ ~valid
  /\ ReturnOnly("notif_wait", "EINVAL")

(* notif_poll; an inactive object polls as no bits.                         *)
NotifPoll(n, m) ==
  /\ InUser
  /\ bits' = IF ntActive[n] THEN [bits EXCEPT ![n] = @ \ m] ELSE bits
  /\ Return("notif_poll", "OK")
  /\ UNCHANGED <<sched, ep, ntActive, waiter, prios, block, resume, ghost,
                 registered, timer, ipcSender, arg>>

(* notif_destroy: the one thread in the waiter slot is woken.               *)
DestroyWakesWaiter(w) ==
  /\ \/ /\ reason[w] = "OR_NOTIF" /\ blockedEp[w] # Null
        /\ recvQ' = UnlinkIpc(recvQ, w)
        /\ sendQ' = UnlinkIpc(sendQ, w)
     \/ /\ reason[w] # "OR_NOTIF" \/ blockedEp[w] = Null
        /\ UNCHANGED <<recvQ, sendQ>>
  /\ timer' = Disarm(w)
  /\ blockedNotif' = [blockedNotif EXCEPT ![w] = Null]
  /\ blockedEp' = [blockedEp EXCEPT ![w] = Null]
  /\ status' = [status EXCEPT ![w] = "EINVAL"]
  /\ reason' = [reason EXCEPT ![w] = "NONE"]
  /\ state' = [state EXCEPT ![w] = "READY"]
  /\ rq' = RqEnqueue(rq, w, prio[w])
  /\ needsResched' = (needsResched \/ Preempts(w, prio[w], prio[current]))
  /\ UNCHANGED waitMask

NotifDestroy(n) ==
  /\ InUser
  /\ \/ /\ ntActive[n]
        /\ ntActive' = [ntActive EXCEPT ![n] = FALSE]
        /\ waiter' = [waiter EXCEPT ![n] = Null]
        /\ \/ /\ waiter[n] = Null
              /\ UNCHANGED <<block, timer, sendQ, recvQ, rq, needsResched>>
           \/ waiter[n] # Null /\ DestroyWakesWaiter(waiter[n])
        /\ Return("notif_destroy", "OK")
        /\ UNCHANGED <<epActive, bits, prios, resume, ghost, current, dead,
                       registered, ipcSender, arg>>
     \/ ~ntActive[n] /\ ReturnOnly("notif_destroy", "EINVAL")

-----------------------------------------------------------------------------
(* Timed waits (kernel/time/sleep.c).  When a timer on the wheel expires is *)
(* the timer wheel's business; here it may expire at any tick.              *)

SleepBlock ==
  /\ state' = [state EXCEPT ![current] = "BLOCKED"]
  /\ reason' = [reason EXCEPT ![current] = "SLEEP"]
  /\ status' = [status EXCEPT ![current] = "OK"]
  /\ timer' = [timer EXCEPT ![current] = "sleep"]
  /\ rq' = RqDequeue(rq, current, prio[current])
  /\ Return("sleep", "OK")
  /\ UNCHANGED <<ep, notif, prios, resume, ghost, blockedEp, blockedNotif,
                 waitMask, current, needsResched, dead, registered, ipcSender,
                 arg>>

Sleep(valid) ==
  /\ InUser
  /\ \/ valid /\ SleepBlock
     \/ ~valid /\ ReturnOnly("sleep", "EINVAL")

Sleeping(t) == state[t] = "BLOCKED" /\ reason[t] = "SLEEP"

CancelSleep(t) ==
  /\ state' = [state EXCEPT ![t] = "READY"]
  /\ reason' = [reason EXCEPT ![t] = "NONE"]
  /\ status' = [status EXCEPT ![t] = "ECANCELED"]
  /\ timer' = Disarm(t)
  /\ rq' = RqEnqueue(rq, t, prio[t])
  /\ needsResched' = TRUE
  /\ Return("sleep_cancel", "OK")
  /\ UNCHANGED <<ep, notif, prios, resume, ghost, blockedEp, blockedNotif,
                 waitMask, current, dead, registered, ipcSender, arg>>

SleepCancel(t) ==
  /\ InUser
  /\ \/ ~Alive(t) /\ ReturnOnly("sleep_cancel", "ESRCH")
     \/ Alive(t) /\ ~Sleeping(t) /\ ReturnOnly("sleep_cancel", "EINVAL")
     \/ Alive(t) /\ Sleeping(t) /\ CancelSleep(t)

(* The condition under which a callback acts: the thread is still blocked   *)
(* for the reason the callback serves.                                      *)
CallbackApplies(t) ==
  /\ state[t] = "BLOCKED"
  /\ reason[t] = CASE timer[t] = "call" -> "CALL"
                   [] timer[t] = "wait" -> "NOTIF"
                   [] OTHER -> "SLEEP"

(* ep_call_timeout_cb, notif_wait_timeout_cb or sleep_timeout_cb.           *)
TimeoutWakes(t) ==
  /\ IF timer[t] = "call" /\ blockedEp[t] # Null
     THEN /\ sendQ' = UnlinkIpc(sendQ, t)
          /\ recvQ' = UnlinkIpc(recvQ, t)
          /\ blockedEp' = [blockedEp EXCEPT ![t] = Null]
     ELSE UNCHANGED <<sendQ, recvQ, blockedEp>>
  /\ IF timer[t] = "wait"
     THEN /\ waiter' = DropWaiter(t)
          /\ blockedNotif' = [blockedNotif EXCEPT ![t] = Null]
     ELSE UNCHANGED <<waiter, blockedNotif>>
  /\ status' = [status EXCEPT ![t] =
                  IF timer[t] = "sleep" THEN "OK" ELSE "ETIMEOUT"]
  /\ reason' = [reason EXCEPT ![t] = "NONE"]
  /\ state' = [state EXCEPT ![t] = "READY"]
  /\ rq' = RqEnqueue(rq, t, prio[t])
  /\ needsResched' = (\/ needsResched
                      \/ timer[t] = "sleep"
                      \/ Preempts(t, prio[t], prio[current]))
  /\ UNCHANGED <<epActive, waitMask>>

(* A tick expires th's timer: the node leaves the wheel and the callback    *)
(* runs.  Other timers may expire in the same tick before the ISR exits.    *)
TimerFire(t) ==
  /\ phase \in {"user", "isr"}
  /\ timer[t] # "none"
  /\ timer' = [timer EXCEPT ![t] = "none"]
  /\ phase' = "isr"
  /\ \/ CallbackApplies(t) /\ TimeoutWakes(t)
     \/ ~CallbackApplies(t) /\ UNCHANGED <<ep, block, waiter, rq, needsResched>>
  /\ UNCHANGED <<ntActive, bits, prios, resume, ghost, current, dead,
                 registered, ipcSender, arg, op, ret>>

-----------------------------------------------------------------------------
(* Threads (kernel/thread/thread.c).                                        *)

(* ulmk_thread_free of the thread d, or of none when d = Null.              *)
FreedTimers(d) == [t \in AllThreads |-> IF t = d THEN "none" ELSE timer[t]]
FreedRegsForgotten(d) == registered
FreedRegs(d)   == [t \in AllThreads |-> t # d /\ registered[t]]

(* spawn: the heap hands out a free TCB slot; every field is initialised.   *)
(* Root's TCB is static and never goes back to the heap.                    *)
ThreadInit(t, p) ==
  /\ registered' = [registered EXCEPT ![t] = TRUE]
  /\ state' = [state EXCEPT ![t] = "READY"]
  /\ reason' = [reason EXCEPT ![t] = "NONE"]
  /\ prio' = [prio EXCEPT ![t] = p]
  /\ saved' = [saved EXCEPT ![t] = p]
  /\ base' = [base EXCEPT ![t] = p]
  /\ timer' = [timer EXCEPT ![t] = "none"]
  /\ ipcSender' = [ipcSender EXCEPT ![t] = Null]
  /\ blockedEp' = [blockedEp EXCEPT ![t] = Null]
  /\ blockedNotif' = [blockedNotif EXCEPT ![t] = Null]
  /\ waitMask' = [waitMask EXCEPT ![t] = {}]
  /\ status' = [status EXCEPT ![t] = "OK"]
  /\ wakeRet' = [wakeRet EXCEPT ![t] = FALSE]
  /\ outptr' = [outptr EXCEPT ![t] = {}]
  /\ rq' = RqEnqueue(rq, t, p)
  /\ needsResched' = (needsResched \/ Preempts(t, p, prio[current]))
  /\ op' = [op EXCEPT ![t] = "none", ![current] = "spawn"]
  /\ ret' = [ret EXCEPT ![t] = "OK", ![current] = "OK"]
  /\ phase' = "syscall"
  /\ taken' = [taken EXCEPT ![t] = Null]
  /\ owed' = [owed EXCEPT ![t] = {}]
  /\ UNCHANGED <<ep, notif, current, dead, arg>>

Spawn(t, p) ==
  /\ InUser
  /\ t # Root /\ ~registered[t]
  /\ IF IpcLinked(t) THEN Corrupt ELSE ThreadInit(t, p)

Yield ==
  /\ InUser
  /\ state' = [state EXCEPT ![current] = "READY"]
  /\ rq' = RqEnqueue(RqDequeue(rq, current, prio[current]),
                     current, prio[current])
  /\ needsResched' = TRUE
  /\ Return("yield", "OK")
  /\ UNCHANGED <<ep, notif, prios, resume, ghost, reason, blockedEp,
                 blockedNotif, waitMask, status, current, dead, registered,
                 timer, ipcSender, arg>>

(* exit, and ulmk_kern_trap_recoverable for a faulting thread: the thread is*)
(* left on the CPU, DEAD, for a later reap; an earlier corpse is freed now. *)
Exit ==
  /\ InUser
  /\ state' = [state EXCEPT ![current] = "DEAD"]
  /\ rq' = RqDequeue(rq, current, prio[current])
  /\ dead' = current
  /\ registered' = FreedRegs(dead)
  /\ timer' = FreedTimers(dead)
  /\ Return("exit", "OK")
  /\ UNCHANGED <<ep, notif, prios, resume, ghost, reason, blockedEp,
                 blockedNotif, waitMask, status, current, needsResched,
                 ipcSender, arg>>

(* The caller a dying server holds mid-rendezvous, if thread_kill_local     *)
(* finds one through ipc_sender.                                            *)
KillPeerForgotten(t) == {}
KillPeer(t) ==
  LET c == ipcSender[t]
  IN  IF c # Null /\ Alive(c) /\ state[c] = "BLOCKED" /\ reason[c] = "CALL"
      THEN {c} ELSE {}

KillLocal(t) ==
  LET peers  == KillPeer(t)
      unlink(q) ==
        LET q1 == IF reason[t] \in {"CALL", "RECV", "OR_NOTIF"}
                     /\ blockedEp[t] # Null
                  THEN UnlinkIpc(q, t) ELSE q
        IN  [e \in Eps |-> IF peers = {} THEN q1[e]
                           ELSE Unlink(q1[e], ipcSender[t])]
      rq1    == IF peers = {} THEN rq
                ELSE RqEnqueue(rq, ipcSender[t], prio[ipcSender[t]])
      freed  == IF t = current THEN dead ELSE t
  IN
  /\ sendQ' = unlink(sendQ)
  /\ recvQ' = unlink(recvQ)
  /\ waiter' = DropWaiter(t)
  /\ blockedNotif' = [blockedNotif EXCEPT ![t] = Null]
  /\ blockedEp' = Put(blockedEp, peers \cup
                      (IF reason[t] \in {"CALL", "RECV", "OR_NOTIF"}
                       THEN {t} ELSE {}), Null)
  /\ status' = Put(status, peers, "ESRCH")
  /\ reason' = Put(reason, peers, "NONE")
  /\ state' = [Put(state, peers, "READY") EXCEPT ![t] = "DEAD"]
  /\ ipcSender' = [ipcSender EXCEPT ![t] = Null]
  /\ rq' = RqDequeue(rq1, t, prio[t])
  /\ needsResched' =
       (\/ needsResched
        \/ \E c \in peers : Preempts(c, prio[c], prio[current]))
  /\ dead' = IF t = current THEN t ELSE dead
  /\ registered' = FreedRegs(freed)
  /\ timer' = Put(FreedTimers(freed), peers \cup {t}, "none")
  /\ Return("kill", "OK")
  /\ UNCHANGED <<epActive, ntActive, bits, prios, resume, ghost, waitMask,
                 current, arg>>

Kill(t) ==
  /\ InUser
  /\ \/ Alive(t) /\ KillLocal(t)
     \/ ~Alive(t) /\ ReturnOnly("kill", "ESRCH")

SuspendLive(t) ==
  /\ state' = [state EXCEPT ![t] = "SUSPENDED"]
  /\ rq' = RqDequeue(rq, t, prio[t])
  /\ Return("suspend", "OK")
  /\ UNCHANGED <<ep, notif, prios, resume, ghost, reason, blockedEp,
                 blockedNotif, waitMask, status, current, needsResched, dead,
                 registered, timer, ipcSender, arg>>

Suspend(t) ==
  /\ InUser
  /\ \/ ~Alive(t) /\ ReturnOnly("suspend", "ESRCH")
     \/ Alive(t) /\ SuspendLive(t)

ResumeSuspended(t) ==
  /\ state' = [state EXCEPT ![t] = "READY"]
  /\ rq' = RqEnqueue(rq, t, prio[t])
  /\ needsResched' = (needsResched \/ Preempts(t, prio[t], prio[current]))
  /\ Return("resume", "OK")
  /\ UNCHANGED <<ep, notif, prios, resume, ghost, reason, blockedEp,
                 blockedNotif, waitMask, status, current, dead, registered,
                 timer, ipcSender, arg>>

Resume(t) ==
  /\ InUser
  /\ \/ ~Alive(t) /\ ReturnOnly("resume", "ESRCH")
     \/ Alive(t) /\ state[t] # "SUSPENDED" /\ ReturnOnly("resume", "EINVAL")
     \/ Alive(t) /\ state[t] = "SUSPENDED" /\ ResumeSuspended(t)

(* Only a READY thread is moved to another list.                            *)
SetPrioLive(t, p) ==
  /\ prio' = [prio EXCEPT ![t] = p]
  /\ base' = [base EXCEPT ![t] = p]
  /\ \/ /\ state[t] = "READY"
        /\ rq' = RqEnqueue(RqDequeue(rq, t, prio[t]), t, p)
        /\ needsResched' = (needsResched \/ Preempts(t, p, prio[current]))
     \/ state[t] # "READY" /\ UNCHANGED <<rq, needsResched>>
  /\ Return("set_prio", "OK")
  /\ UNCHANGED <<ep, notif, saved, block, resume, taken, owed, current, dead,
                 registered, timer, ipcSender, arg>>

SetPrio(t, p) ==
  /\ InUser
  /\ \/ ~Alive(t) /\ ReturnOnly("set_prio", "ESRCH")
     \/ Alive(t) /\ SetPrioLive(t, p)

-----------------------------------------------------------------------------
(* Trap exit (ulmk_sched_trap_dispatch, then ulmk_kern_syscall_ret_resolve).*)

(* A thread switched in goes on where it was switched out: at the end of    *)
(* its system call, or in user code if an interrupt took it off the CPU.    *)
AfterTrap(t) == IF op[t] = "none" THEN "user" ELSE "resolve"

AtTrapExit == phase \in {"syscall", "isr"}

(* sched_switch_to from the run queue q: NULL means idle, and a switch to   *)
(* the thread itself takes it off the queue again.                          *)
SwitchFrom(q, st) ==
  LET pick == RqNext(q, Null)
      next == IF pick = Null THEN Idle ELSE pick
      q1   == RqPop(q)
  IN  /\ current' = next
      /\ state' = [st EXCEPT ![next] = "RUNNING"]
      /\ rq' = IF next = current THEN RqDequeue(q1, next, prio[next]) ELSE q1
      /\ phase' = AfterTrap(next)

(* The running thread keeps the CPU: nobody asked for a reschedule and the  *)
(* head of the queue is not of higher priority.                             *)
StaysOnCpu ==
  LET next == RqNext(rq, Null)
  IN  /\ state[current] = "RUNNING"
      /\ ~needsResched
      /\ next \notin {Null, current} => prio[next] >= prio[current]

DispatchStay ==
  /\ AtTrapExit /\ StaysOnCpu
  /\ phase' = AfterTrap(current)
  /\ UNCHANGED <<state, registered, timer, rq, current, dead>>

(* It blocked, yielded, died or was suspended: reap the previous corpse,    *)
(* never the thread whose stack is in use, and switch.                      *)
CorpseAny == dead
Corpse == IF dead = current THEN Null ELSE dead

DispatchSwitch ==
  /\ AtTrapExit /\ state[current] # "RUNNING"
  /\ registered' = FreedRegs(Corpse)
  /\ timer' = FreedTimers(Corpse)
  /\ dead' = IF Corpse = Null THEN dead ELSE Null
  /\ SwitchFrom(rq, state)

(* It is preempted: behind the others of its level, then the best of all.   *)
DispatchPreempt ==
  /\ AtTrapExit /\ state[current] = "RUNNING" /\ ~StaysOnCpu
  /\ SwitchFrom(RqEnqueue(RqDequeue(rq, current, prio[current]),
                          current, prio[current]),
                [state EXCEPT ![current] = "READY"])
  /\ UNCHANGED <<registered, timer, dead>>

TrapDispatch ==
  /\ DispatchStay \/ DispatchSwitch \/ DispatchPreempt
  /\ needsResched' = FALSE
  /\ arg' = Null
  /\ UNCHANGED <<ep, notif, prios, resume, ghost, reason, blockedEp,
                 blockedNotif, waitMask, status, ipcSender, op, ret>>

(* What the resumed thread finds in its return register.                    *)
Returned(t) ==
  IF status[t] # "OK" THEN status[t]
  ELSE IF wakeRet[t] THEN "NOTIFIED" ELSE ret[t]

(* An error return drops the user pointers the wait left behind.            *)
ResolvedPtrsKept == outptr
ResolvedPtrs == IF status[current] = "OK" THEN outptr
                ELSE [outptr EXCEPT ![current] = {}]

(* A wake result is returned once.                                          *)
ResolvedWake == [wakeRet EXCEPT ![current] = FALSE]

SyscallRetResolve ==
  /\ phase = "resolve"
  /\ status' = [status EXCEPT ![current] = "OK"]
  /\ wakeRet' = ResolvedWake
  /\ outptr' = ResolvedPtrs
  /\ op' = [op EXCEPT ![current] = "none"]
  /\ ret' = [ret EXCEPT ![current] = "OK"]
  /\ taken' = [taken EXCEPT ![current] = Null]
  /\ phase' = "user"
  /\ UNCHANGED <<sched, ep, notif, prios, state, reason, blockedEp,
                 blockedNotif, waitMask, owed, base, registered, timer,
                 ipcSender, arg>>

(* Kernel steps that follow a trap without any choice of the user program.  *)
KernelStep ==
  EpReplyRecvTail \/ EpDestroyNext \/ TrapDispatch \/ SyscallRetResolve

Masks == SUBSET Bits \ {{}}

Interrupt ==
  \/ \E t \in Threads : TimerFire(t)
  \/ \E n \in Notifs, b \in Masks : IrqDispatch(n, b)

(* Any system call with any argument, except those that need care.          *)
Syscall ==
  \/ \E e \in Eps :
       \/ EpCreate(e) \/ EpRecv(e) \/ EpDestroy(e)
       \/ \E cb \in {"none", "call"} : EpCallQueue(e, cb) \/ EpCallDeliver(e, cb)
       \/ \E valid \in BOOLEAN : EpCallRefused(e, valid)
       \/ \E n \in Notifs, m \in Masks : EpRecvOrNotif(e, n, m)
  \/ \E n \in Notifs :
       \/ NotifCreate(n) \/ NotifDestroy(n)
       \/ \E valid \in BOOLEAN : NotifWaitRefused(n, valid)
       \/ \E m \in Masks :
            \/ NotifSignal(n, m) \/ NotifWaitTake(n, m) \/ NotifPoll(n, m)
            \/ \E cb \in {"none", "wait"} : NotifWaitBlock(n, m, cb)
  \/ \E valid \in BOOLEAN : Sleep(valid)
  \/ \E t \in Threads : SleepCancel(t) \/ Kill(t)
  \/ \E t \in Threads, p \in Prio : Spawn(t, p) \/ SetPrio(t, p)
  \/ Yield \/ Exit

(* Replies to the threads of C, by either call.                             *)
Replies(C) ==
  \/ \E c \in C : EpReply(c)
  \/ \E e \in Eps, c \in C \cup {Null} : EpReplyRecv(e, c)

SuspendResume == \E t \in Threads : Suspend(t) \/ Resume(t)

(* ep_reply does not ask whether the caller's present call was received.    *)
(* These are the threads for which the answer cannot matter.                *)
ReplySafe == {c \in Threads : reason[c] = "CALL" => taken[c] # Null}

(* idle_thread_entry: wait for the next interrupt.                          *)
IdleLoop == phase = "user" /\ current = Idle /\ UNCHANGED vars

(* The model's end after list corruption.                                   *)
Halted == phase = "corrupt" /\ UNCHANGED vars

(* Programs that do not suspend threads and do not answer a call that no    *)
(* server has received yet, and programs that may do anything.              *)
CoreNext == Syscall \/ Replies(ReplySafe) \/ Interrupt \/ KernelStep \/ IdleLoop
Next == CoreNext \/ Replies(Threads) \/ SuspendResume \/ Halted

CoreSpec == Init /\ [][CoreNext]_vars
Spec == Init /\ [][Next]_vars

-----------------------------------------------------------------------------
(* Properties.                                                              *)

(* bitmap_rt's lists, its bitmap and the thread states agree at every       *)
(* handler boundary: exactly the READY threads are linked, each once, on the*)
(* list of its present priority, and a priority bit is set exactly for a    *)
(* non-empty list.  Handlers change th->priority, th->state and the lists   *)
(* separately; a thread READY but off the lists never runs again.           *)
RunQueueMatchesStates ==
  /\ RqConsistent(rq, prio)
  /\ \A t \in AllThreads : RqLinked(rq, t) <=> state[t] = "READY"

(* Strict priority: whenever user code runs, its thread is the one RUNNING  *)
(* thread and no READY thread has a higher priority, whatever the trap did  *)
(* to priorities (inheritance, its undo, set_prio) or to the queue.         *)
StrictPriority ==
  phase = "user" =>
    /\ \A t \in AllThreads : state[t] = "RUNNING" <=> t = current
    /\ \A t \in AllThreads : state[t] = "READY" => prio[current] <= prio[t]

(* A notification's waiter slot names a thread that is blocked on exactly   *)
(* that notification: no wake path (delivery, timeout, destroy, kill) leaves*)
(* a slot pointing at a thread that has gone on to something else.          *)
WaiterIsBlocked ==
  \A n \in Notifs : ntActive[n] /\ waiter[n] # Null =>
    /\ state[waiter[n]] = "BLOCKED"
    /\ reason[waiter[n]] \in {"NOTIF", "OR_NOTIF"}
    /\ blockedNotif[waiter[n]] = n

(* A timer on the wheel belongs to a thread still blocked in the wait it was*)
(* armed for, so no callback can end a later, unrelated wait with ETIMEOUT: *)
(* every other wake path disarms it.                                        *)
TimerMatchesWait ==
  \A t \in AllThreads : timer[t] # "none" => CallbackApplies(t)

(* The user pointers the kernel holds for a thread are those of the wait it *)
(* is in; once a wait ended without an error code they are all dropped, so  *)
(* no later delivery writes through a stale pointer.                        *)
NoStalePointer ==
  \A t \in AllThreads : state[t] # "DEAD" /\ status[t] = "OK" =>
    outptr[t] = CASE reason[t] = "CALL" -> {"msg"}
                  [] reason[t] = "RECV" -> {"msg", "sender"}
                  [] reason[t] = "NOTIF" -> {"bits"}
                  [] reason[t] = "OR_NOTIF" -> {"rn"}
                  [] OTHER -> {}

(* An error code or a wake result is consumed by the wait it ended: a thread*)
(* in user code has none left for its next system call to return.           *)
NoStaleResult ==
  phase = "user" => status[current] = "OK" /\ ~wakeRet[current]

(* What a wait left in the TCB, pointers and results, ends with it          *)
(* (ulmk_syscall_ret_resolve and every wake path).                          *)
NothingStale == NoStalePointer /\ NoStaleResult

(* No step frees the TCB and stack the CPU is still running on: exit, kill  *)
(* of oneself and the reap at the switch leave it for a later switch.       *)
RunningStackNotFreed ==
  [][\A t \in AllThreads : registered[t] /\ ~registered'[t] => t # current]_vars

(* A dead thread is either freed or the one corpse kept for cleanup; no     *)
(* TCB is lost between the two, and the corpse is never freed twice.        *)
CorpseAccounted ==
  /\ \A t \in Threads : registered[t] /\ state[t] = "DEAD" => t = dead
  /\ dead # Null => registered[dead] /\ state[dead] = "DEAD"

(* Endpoint queues hold exactly the threads waiting there: callers whose    *)
(* request no server has received yet, and receivers; each once, blocked on *)
(* that endpoint.                                                           *)
QueuesMatchWaits ==
  /\ \A e \in Eps :
       /\ IsInjective(sendQ[e]) /\ IsInjective(recvQ[e])
       /\ \A t \in Range(sendQ[e]) :
            /\ state[t] = "BLOCKED" /\ reason[t] = "CALL"
            /\ blockedEp[t] = e /\ taken[t] = Null
       /\ \A t \in Range(recvQ[e]) :
            /\ state[t] = "BLOCKED" /\ reason[t] \in {"RECV", "OR_NOTIF"}
            /\ blockedEp[t] = e
  /\ \A t \in Threads :
       /\ state[t] = "BLOCKED"
       /\ reason[t] \in {"RECV", "OR_NOTIF"} \/ (reason[t] = "CALL" /\ taken[t] = Null)
       => IpcLinked(t)

(* No handler appends a list node that is still linked.                     *)
ListsIntact == phase # "corrupt"

(* ep_call "blocks until the server calls ulmk_ep_reply()": a call that     *)
(* returns OK was received by a server and is over.                         *)
CallReturnsAnswered ==
  phase = "resolve" /\ op[current] = "ep_call" /\ Returned(current) = "OK"
     /\ ret[current] = "OK"
    => taken[current] # Null /\ reason[current] = "NONE"

(* A reply ends the call its server received, never another one: the thread *)
(* it wakes is waiting for an answer from the replying thread.              *)
ReplyEndsOwnCall ==
  [][\A c \in Threads :
       reason[c] = "CALL" /\ reason'[c] = "NONE" /\ status'[c] = "OK"
         => taken[c] = current]_vars

(* Calls and answers pair up: no call ends without one of its own           *)
(* (ulmk_kern_ep_reply, ep_deliver and syscall_ret_resolve together).       *)
CallsAnswered == []CallReturnsAnswered /\ ReplyEndsOwnCall

(* Priority inheritance: while a server holds a blocked caller's request it *)
(* runs at least at that caller's priority.                                 *)
ServerInherits ==
  \A c \in Threads :
    state[c] = "BLOCKED" /\ reason[c] = "CALL" /\ taken[c] # Null
      => prio[taken[c]] <= prio[c]

(* Priority inheritance is temporary: a thread that holds no request runs   *)
(* at the priority it was given.                                            *)
PriorityRestored ==
  \A s \in Threads :
    Alive(s) /\ (\A c \in Threads : reason[c] = "CALL" => taken[c] # s)
             /\ owed[s] = {}
      => prio[s] = base[s]

(* Priority inheritance gives what it must and takes it back                *)
(* (apply_prio_inherit and the restore in ep_reply).                        *)
InheritanceExact == ServerInherits /\ PriorityRestored

(* No caller waits for the answer of a dead server.                         *)
NoOrphanedCaller ==
  \A c \in Threads :
    state[c] = "BLOCKED" /\ reason[c] = "CALL" /\ taken[c] # Null
      => state[taken[c]] # "DEAD"
=============================================================================
