------------------------------ MODULE MCKernel ------------------------------
(***************************************************************************)
(* User programs for model checking Kernel.  The kernel answers any system *)
(* call at any time; what threads really call is a workload.  Root creates *)
(* the objects, spawns the workers and exits; each specification below     *)
(* then says which calls the workers make.  A workload only restricts      *)
(* which of Kernel's actions the running thread may take.                  *)
(***************************************************************************)
EXTENDS Kernel

CONSTANTS
  Hi, Mid, Lo,  \* workers spawned at priority 1, 2 and 3
  Servers,      \* workers that receive calls on Front
  Backends,     \* workers that receive calls on Back, made by servers
  Front, Back   \* their endpoints (Back = Null: no second stage)

Workers == Hi \cup Mid \cup Lo
Clients == Workers \ (Servers \cup Backends)
SpawnPrio(t) == IF t \in Hi THEN 1 ELSE IF t \in Mid THEN 2 ELSE 3

ASSUME WorkloadAssumption ==
  /\ Workers \subseteq Threads \ {Root}
  /\ Servers \cup Backends \subseteq Workers
  /\ Front \in Eps /\ Back \in Eps \cup {Null}
  /\ Back = Null => Backends = {}
  /\ MaxPrio = 4

(* Root creates every object, spawns the workers of W and exits.            *)
Boot(W) ==
  /\ current = Root
  /\ \/ \E e \in Eps : EpCreate(e)
     \/ \E n \in Notifs : NotifCreate(n)
     \/ \E t \in W : Spawn(t, SpawnPrio(t))
     \/ /\ \A e \in Eps : epActive[e]
        /\ \A n \in Notifs : ntActive[n]
        /\ \A t \in W : registered[t]
        /\ Exit

Call(e, cb) == EpCallQueue(e, cb) \/ EpCallDeliver(e, cb)

(* Receive on e only when no request is held; answer the one that is.       *)
ServeOn(e) ==
  \/ owed[current] = {} /\ EpRecv(e)
  \/ \E c \in owed[current] : EpReply(c) \/ EpReplyRecv(e, c)

(* A server may call the backend while it holds a request.                  *)
Serve ==
  \/ current \in Servers /\ ServeOn(Front)
  \/ current \in Servers /\ Back # Null /\ owed[current] # {} /\ Call(Back, "none")
  \/ current \in Backends /\ ServeOn(Back)

-----------------------------------------------------------------------------
(* Remote procedure calls without timeouts, by clients that also sleep, so  *)
(* that a tick can wake any of them at any point of another thread's call.  *)
RpcProgram ==
  \/ Boot(Workers)
  \/ Serve
  \/ current \in Clients /\ (Call(Front, "none") \/ Sleep(TRUE))

(* Nobody destroys an endpoint, so that loop never runs.                    *)
RpcKernel == EpReplyRecvTail \/ TrapDispatch \/ SyscallRetResolve

RpcNext ==
  \/ RpcProgram
  \/ \E t \in Clients : TimerFire(t)
  \/ RpcKernel
  \/ IdleLoop

(* The CPU keeps executing the running thread's program and what a trap     *)
(* started.  A tick lasts longer than a system call, so a server that gets  *)
(* the CPU again and again also gets to receive and to answer; that it      *)
(* answers in the end is its program's duty.                                *)
RpcSpec ==
  /\ Init /\ [][RpcNext]_vars
  /\ WF_vars(RpcProgram \/ RpcKernel)
  /\ \A s \in Servers : SF_vars(current = s /\ ServeOn(Front))
  /\ \A s \in Backends : SF_vars(current = s /\ ServeOn(Back))

(* A queued caller is not overtaken forever, whatever the priorities: the   *)
(* send queue is FIFO and a served client queues up again behind it.        *)
QueuedCallReceived ==
  \A c \in Clients : c \in Range(sendQ[Front]) ~> taken[c] # Null

-----------------------------------------------------------------------------
(* Blocking of every kind with every way out: messages, signals from threads*)
(* and interrupts, timeouts, cancellation, destruction of the object.       *)
WaitCalls ==
  \/ \E e \in Eps :
       \/ EpRecv(e) \/ EpDestroy(e) \/ EpCreate(e)
       \/ Call(e, "call") \/ EpCallRefused(e, FALSE)
       \/ \E n \in Notifs, m \in Masks : EpRecvOrNotif(e, n, m)
  \/ \E n \in Notifs :
       \/ NotifCreate(n) \/ NotifDestroy(n) \/ NotifWaitRefused(n, FALSE)
       \/ \E m \in Masks :
            \/ NotifSignal(n, m) \/ NotifPoll(n, m)
            \/ NotifWaitTake(n, m) \/ NotifWaitBlock(n, m, "wait")
  \/ \E valid \in BOOLEAN : Sleep(valid)
  \/ \E t \in Clients : SleepCancel(t)
  \/ Replies(ReplySafe)

WaitNext ==
  \/ Boot(Clients)
  \/ current \in Clients /\ WaitCalls
  \/ Interrupt
  \/ KernelStep
  \/ IdleLoop

-----------------------------------------------------------------------------
(* Threads that die at any point and whose TCB slots are used again, and    *)
(* that suspend, resume and reprioritise each other.  A server leaves only  *)
(* by being killed.  S is the set of threads that may be suspended: any, or *)
(* only those that are not inside a blocking call.                          *)
Unblocked == {t \in Workers : state[t] # "BLOCKED"}

Manage(S) ==
  \/ Yield
  \/ \E t \in S : Suspend(t)
  \/ \E t \in Workers : Resume(t) \/ SetPrio(t, 3)

Answerable == {c \in owed[current] : c \in ReplySafe \/ ~Alive(c)}
Forgotten == {t \in Workers : \A s \in Servers : t \notin owed[s]}

LifeCalls(S) ==
  \/ /\ current \in Servers
     /\ \/ owed[current] = {} /\ EpRecv(Front)
        \/ \E c \in Answerable : EpReply(c) \/ EpReplyRecv(Front, c)
  \/ /\ current \in Clients
     /\ \/ Call(Front, "none") \/ Sleep(TRUE) \/ Exit \/ Manage(S)
        \/ \E t \in Workers : Kill(t)
        \/ \E t \in Forgotten : Spawn(t, SpawnPrio(t))

LifeNext(S) ==
  \/ Boot(Workers)
  \/ LifeCalls(S)
  \/ Interrupt
  \/ KernelStep
  \/ IdleLoop

LifeSpec == Init /\ [][LifeNext(Unblocked)]_vars
SuspendAnySpec == Init /\ [][LifeNext(Workers)]_vars

(* "A suspended thread does not consume CPU": only resume makes it runnable *)
(* again.                                                                   *)
SuspendHolds ==
  [][\A t \in Workers :
       state[t] = "SUSPENDED" /\ state'[t] \notin {"SUSPENDED", "DEAD"}
         => state'[t] = "READY" /\ op'[current] = "resume"]_vars

-----------------------------------------------------------------------------
(* Any calls of any threads, as in CoreSpec, but a thread that holds a      *)
(* request answers it before it receives, calls or exits itself:            *)
(* th->ipc_sender remembers one caller, and each of these forgets it.       *)

(* c is blocked in a call that s has received and not answered.             *)
AwaitsAnswer(c, s) ==
  state[c] = "BLOCKED" /\ reason[c] = "CALL" /\ taken[c] = s

AnswersFirst ==
  (\E c \in AllThreads : AwaitsAnswer(c, current))
    => op'[current] \notin {"ep_call", "ep_recv", "ep_recv_or_notif", "exit"}

Duties ==
  \/ Syscall /\ AnswersFirst
  \/ \E c \in ReplySafe : EpReply(c)
  \/ \E e \in Eps, c \in ReplySafe \cup {Null} :
       EpReplyRecv(e, c) /\ \A d \in AllThreads \ {c} : ~AwaitsAnswer(d, current)

DutyNext == Duties \/ Interrupt \/ KernelStep \/ IdleLoop
DutySpec == Init /\ [][DutyNext]_vars

-----------------------------------------------------------------------------
(* Programs for which the code does not do what its documentation says.     *)

(* Clients whose calls time out; the server answers what it was handed.     *)
RpcTimedNext ==
  \/ Boot(Workers)
  \/ Serve
  \/ current \in Clients /\ Call(Front, "call")
  \/ \E t \in Clients : TimerFire(t)
  \/ KernelStep
  \/ IdleLoop
RpcTimedSpec == Init /\ [][RpcTimedNext]_vars

(* Killing a thread unblocks the caller it "already received a call [from]  *)
(* and has not replied" to, and no other caller.                            *)
KillReleasesOwnCaller ==
  [][\A c, t \in Threads :
       /\ reason[c] = "CALL" /\ reason'[c] = "NONE" /\ status'[c] = "ESRCH"
       /\ c # t /\ state[t] # "DEAD" /\ state'[t] = "DEAD"
       => taken[c] = t]_vars
=============================================================================
