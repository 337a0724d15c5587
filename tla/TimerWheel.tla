----------------------------- MODULE TimerWheel -----------------------------
(***************************************************************************)
(* The non-cascading timing wheel of one CPU (kernel/time/timer_wheel.c).  *)
(*                                                                         *)
(* The code's wheel has 5 levels of 64 buckets, each level 8 times coarser *)
(* than the one below; here the three numbers are parameters.  w->clk only *)
(* enters through its low bits, so the model keeps it modulo Period, and   *)
(* to->expires is kept as `due', the ticks still to go.  `home' says where *)
(* a timeout's list node is: in a bucket, on the list a tick collected, or *)
(* on no list.                                                             *)
(***************************************************************************)
EXTENDS Integers, FiniteSetsExt, SequencesExt, DList

CONSTANTS
  Timeouts,     \* struct ulmk_timeout objects
  LvlBits,      \* ULMK_TIMER_LVL_BITS
  ClkShift,     \* ULMK_TIMER_LVL_CLK_SHIFT
  Depth,        \* ULMK_TIMER_LVL_DEPTH
  Deltas        \* the delta_ticks callers ask for

ASSUME WheelAssumption ==
  /\ LvlBits \in Nat \ {0} /\ ClkShift \in Nat \ {0} /\ Depth \in Nat \ {0}
  /\ Deltas \subseteq Nat /\ IsFiniteSet(Timeouts)

Levels == 0 .. Depth - 1
Size == 2 ^ LvlBits
Gran(l) == 2 ^ (ClkShift * l)
Period == Size * Gran(Depth - 1)
TimeoutMax == (Size - 1) * Gran(Depth - 1)

(* What the powers of 2 are used for: each granule of the outermost level  *)
(* consists of whole granules of the finer ones.                           *)
ASSUME LevelsNest ==
  /\ Size \in Nat \ {0}
  /\ \A l \in Levels : Gran(l) \in Nat \ {0} /\ Gran(Depth - 1) % Gran(l) = 0

VARIABLES
  clk,          \* w->clk, modulo Period
  pending,      \* w->pending: per level, the buckets whose bit is set
  home,         \* where the node is linked
  due,          \* to->expires - w->clk; 0 once the node is on no list
  expiring      \* the list ulmk_timer_tick collected and drains

vars == <<clk, pending, home, due, expiring>>

Bucket == [lvl : Levels, idx : 0 .. Size - 1]
Unlinked == [list |-> "none"]
Collected == [list |-> "expiring"]

TypeOK ==
  /\ clk \in 0 .. Period - 1
  /\ pending \in [Levels -> SUBSET (0 .. Size - 1)]
  /\ home \in [Timeouts -> Bucket \cup {Unlinked, Collected}]
  /\ due \in [Timeouts -> Int]
  /\ expiring \in Seq(Timeouts)

Init ==
  /\ clk = 0
  /\ pending = [l \in Levels |-> {}]
  /\ home = [t \in Timeouts |-> Unlinked]
  /\ due = [t \in Timeouts |-> 0]
  /\ expiring = <<>>

-----------------------------------------------------------------------------
(* calc_index: the expiry is rounded up to the level's granularity.         *)
CalcIndexDown(expires, l) == (expires \div Gran(l)) % Size
CalcIndex(expires, l) == ((expires + Gran(l) - 1) \div Gran(l)) % Size

(* calc_wheel_index: the finest level whose range holds delta, else the     *)
(* outermost.                                                               *)
CalcLevel(delta) ==
  Min({l \in Levels : delta < Size * Gran(l)} \cup {Depth - 1})

(* ulmk_timer_add on a node whose list is h[t], while the tick drains q:   *)
(* EINVAL beyond the outer level's capacity; 0 means 1; a node that is     *)
(* still linked is moved.                                                  *)
Add(h, q, t, d) ==
  LET delta == IF d = 0 THEN 1 ELSE d
      l     == CalcLevel(delta)
      b     == CalcIndex(clk + delta, l)
  IN  /\ delta <= TimeoutMax
      /\ home' = [h EXCEPT ![t] = [lvl |-> l, idx |-> b]]
      /\ due' = [due EXCEPT ![t] = delta]
      /\ expiring' = Unlink(q, t)
      /\ pending' = [pending EXCEPT ![l] = @ \cup {b}]

(* ulmk_timer_cancel: the bucket's pending bit stays set.  The mutant      *)
(* clears it, as if the node were alone in its bucket.                     *)
CancelClearsBit(h, q, t) ==
  /\ h[t] # Unlinked
  /\ home' = [h EXCEPT ![t] = Unlinked]
  /\ expiring' = Unlink(q, t)
  /\ pending' = IF h[t] \in Bucket
                THEN [pending EXCEPT ![h[t].lvl] = @ \ {h[t].idx}]
                ELSE pending
  /\ due' = [due EXCEPT ![t] = 0]
Cancel(h, q, t) ==
  /\ h[t] # Unlinked
  /\ home' = [h EXCEPT ![t] = Unlinked]
  /\ expiring' = Unlink(q, t)
  /\ due' = [due EXCEPT ![t] = 0]
  /\ UNCHANGED pending

(* A call that changes nothing: a delta out of range, a cancel of a node   *)
(* on no list, or a callback that makes no call.                           *)
NoCall(h, q) ==
  /\ home' = h
  /\ expiring' = q
  /\ UNCHANGED <<due, pending>>

(* One call of the API, by a thread or from inside a callback.             *)
Api(h, q) ==
  \/ \E t \in Timeouts, d \in Deltas : Add(h, q, t, d)
  \/ \E t \in Timeouts : Cancel(h, q, t)
  \/ NoCall(h, q)

(* From a thread: interrupts are masked while a tick drains its list.      *)
ApiCall ==
  /\ expiring = <<>>
  /\ Api(home, expiring)
  /\ UNCHANGED clk

(* wheel_advance_collect: the clock moves, and every level on whose edge it*)
(* now stands has its current bucket emptied, finest level first.  Within  *)
(* a bucket the order is that of insertion, which is left open.            *)
OnEdge(c, l) == c % Gran(l) = 0
Current(c, l) == (c \div Gran(l)) % Size
CollectBucket(c) ==
  {t \in Timeouts : /\ home[t] \in Bucket
                    /\ OnEdge(c, home[t].lvl)
                    /\ home[t].idx = Current(c, home[t].lvl)
                    /\ home[t].idx \in pending[home[t].lvl]}

Tick ==
  LET c  == (clk + 1) % Period
      ts == CollectBucket(c)
  IN  /\ expiring = <<>>
      /\ clk' = c
      /\ pending' = [l \in Levels |->
                       IF OnEdge(c, l) THEN pending[l] \ {Current(c, l)} ELSE pending[l]]
      /\ home' = [t \in Timeouts |-> IF t \in ts THEN Collected ELSE home[t]]
      /\ due' = [t \in Timeouts |->
                   IF home[t] = Unlinked THEN due[t] ELSE due[t] - 1]
      /\ \E s \in SetToSeqs(ts) :
           /\ \A i, j \in DOMAIN s : i < j => home[s[i]].lvl <= home[s[j]].lvl
           /\ expiring' = s

(* expire_list: the head is popped and its callback runs, which may cancel *)
(* or add any timeout, its own and one still on this list included.        *)
ExpireList ==
  LET t == Head(expiring)
  IN  /\ expiring # <<>>
      /\ Api([home EXCEPT ![t] = Unlinked], Tail(expiring))
      /\ UNCHANGED clk

Next == ApiCall \/ Tick \/ ExpireList

Spec == Init /\ [][Next]_vars

-----------------------------------------------------------------------------
(* A delta that stays short of the end of its level's range by less than   *)
(* the level's granularity may wrap round the level, depending on where in *)
(* a granule the clock stands when it is added (see NeverEarly).           *)
ClearOfLevelEnd(d) ==
  LET l == CalcLevel(d) IN d <= Size * Gran(l) - Gran(l) + 1

(* "A timer never fires before its requested time (slack only afterward)": *)
(* the comment in calc_index.  The callback expire_list is about to run    *)
(* belongs to a timeout whose requested number of ticks has passed since   *)
(* ulmk_timer_add.                                                         *)
NeverEarly == expiring # <<>> => due[Head(expiring)] <= 0

(* No timeout is missed: one that waits in a bucket is late by less than   *)
(* its level's granularity, whatever was added, moved and cancelled around *)
(* it by threads and callbacks, so the tick that empties its bucket was    *)
(* not skipped.                                                            *)
FiresInTime ==
  \A t \in Timeouts :
    home[t] \in Bucket => due[t] > - Gran(home[t].lvl)

(* The wheel's lists and bits hold what they can hold, and no timeout is    *)
(* missed.                                                                 *)
NeverLate == TypeOK /\ FiresInTime
=============================================================================
