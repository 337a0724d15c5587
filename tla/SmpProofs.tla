------------------------------ MODULE SmpProofs ------------------------------
(***************************************************************************)
(* Proofs about Smp, for every number of CPUs, every placement of threads  *)
(* and every board: no wake is lost or overlooked between CPUs, and        *)
(* timeouts follow waits, where timed waits are ended by their own CPU and *)
(* the endpoint's clients and servers share one.                           *)
(*                                                                         *)
(* What a CPU has left to do is a sequence; the invariant speaks of the set*)
(* of its steps, Left(c), and of their order, Ordered.  The lemmas come in *)
(* this order: sequences of steps; the invariant; steps that move nothing; *)
(* steps that move threads between queues and CPUs; waits that end and     *)
(* timeouts; entries into the kernel; the initial states; the theorems.    *)
(***************************************************************************)
EXTENDS Smp, SequenceTheorems, FiniteSetTheorems, TLAPS

(* What CPU c has left to do.                                               *)
Left(c) == {todo[c][i] : i \in DOMAIN todo[c]}

(* The steps a handler can leave, and the types of the state.               *)
OpNames ==
  {"release", "await", "park", "first", "publish", "online", "ready", "enqueue", "dequeue", "mark",
   "resched", "kick", "disarm", "sample", "switch", "expire"}
Steps == [op : OpNames, x : Threads \cup Cpus \cup {Idle, Null}]
           \cup [op : {"arm"}, x : {"sleep", "notif"}] \cup [op : {"dispatch"}, x : BOOLEAN]

Typed ==
  /\ board \in Boards
  /\ ready \subseteq Cpus /\ online \subseteq Cpus /\ ipi \subseteq Cpus
  /\ current \in [Cpus -> Threads \cup {Idle, Null}]
  /\ needs \in [Cpus -> BOOLEAN] /\ deferred \in [Cpus -> SUBSET Cpus]
  /\ todo \in [Cpus -> Seq(Steps)]
  /\ state \in [Threads -> {"NEW", "READY", "RUNNING", "BLOCKED"}]
  /\ reason \in [Threads -> {"none", "sleep", "notif", "call", "recv"}]
  /\ rq \subseteq Threads /\ armed \subseteq Threads
  /\ timed \in [Threads -> BOOLEAN] /\ cb \in [Threads -> {Null, "sleep", "notif"}]
  /\ bit \in BOOLEAN /\ waiter \in Threads \cup {Null}
  /\ sendQ \in Seq(Threads) /\ recvQ \in Seq(Threads)
  /\ owes \in [Threads -> Threads \cup {Null}]

(* Steps that only come first, and steps that only come last.               *)
FirstOps == {"arm", "dequeue", "expire", "publish"}
LastOps == {"sample", "dispatch", "switch", "park", "first", "ready"}

(* The order in which a handler does what is left to it.                    *)
Ordered(s) ==
  \A i \in DOMAIN s :
    /\ s[i].op \in FirstOps => i = 1
    /\ s[i].op \in LastOps => i = Len(s)
    /\ s[i].op = "enqueue" => i < Len(s) /\ s[i + 1] = S("mark", s[i].x)
    /\ s[i].op \in {"mark", "expire"} => \A j \in DOMAIN s : s[j].op = "enqueue" => j < i

(* The steps of a sequence; taking one off and putting others in its place. *)
Elems(s) == {s[i] : i \in DOMAIN s}

LEMMA Popped ==
  ASSUME NEW s \in Seq(Steps), s # <<>>, Ordered(s), NEW p \in Seq(Steps)
  PROVE  /\ p \o Tail(s) \in Seq(Steps)
         /\ Elems(p \o Tail(s)) = Elems(p) \cup Elems(Tail(s))
         /\ Elems(s) = {Head(s)} \cup Elems(Tail(s))
         /\ \A e \in Elems(Tail(s)) :
              /\ e.op \notin FirstOps /\ Head(s).op \notin LastOps
              /\ Head(s).op \in {"mark", "expire", "enqueue"} => e.op # "enqueue"
         /\ Head(s).op = "enqueue" => S("mark", Head(s).x) \in Elems(Tail(s))
<1>1. PICK n \in Nat : n = Len(s) /\ DOMAIN s = 1 .. n /\ n > 0
  BY EmptySeq, LenProperties
<1>2. PICK u : u = Tail(s)
  OBVIOUS
<1>3. u \in Seq(Steps) /\ Len(u) = n - 1 /\ DOMAIN u = 1 .. n - 1 /\ \A i \in 1 .. n - 1 : u[i] = s[i + 1]
  BY <1>1, <1>2, HeadTailProperties, LenProperties
<1>4. Head(s) = s[1]
  BY <1>1
<1>5. PICK m \in Nat : m = Len(p) /\ DOMAIN p = 1 .. m
  BY LenProperties
<1>6. /\ p \o u \in Seq(Steps) /\ Len(p \o u) = m + (n - 1)
      /\ \A i \in 1 .. m + (n - 1) : (p \o u)[i] = IF i <= m THEN p[i] ELSE u[i - m]
  <2>1. /\ p \o u \in Seq(Steps) /\ Len(p \o u) = Len(p) + Len(u)
        /\ \A i \in 1 .. Len(p) + Len(u) : (p \o u)[i] = IF i <= Len(p) THEN p[i] ELSE u[i - Len(p)]
    BY <1>3, ConcatProperties, Zenon
  <2> QED
    BY <1>3, <1>5, <2>1, Zenon
<1>7. DOMAIN (p \o u) = 1 .. m + (n - 1)
  BY <1>6, LenProperties
<1>8. Elems(p \o u) = Elems(p) \cup Elems(u)
  <2>1. ASSUME NEW e \in Elems(p \o u)
        PROVE  e \in Elems(p) \cup Elems(u)
    <3>1. PICK i \in 1 .. m + (n - 1) : e = (p \o u)[i]
      BY <1>7, <2>1 DEF Elems
    <3>2. CASE i <= m
      BY <1>5, <1>6, <3>1, <3>2 DEF Elems
    <3>3. CASE i > m
      <4>1. i - m \in 1 .. n - 1 /\ e = u[i - m]
        BY <1>6, <3>1, <3>3
      <4> QED
        BY <1>3, <4>1 DEF Elems
    <3> QED
      BY <3>2, <3>3
  <2>2. ASSUME NEW i \in 1 .. m
        PROVE  p[i] \in Elems(p \o u)
    <3>1. i \in 1 .. m + (n - 1) /\ (p \o u)[i] = p[i]
      BY <1>1, <1>6
    <3> QED
      BY <1>7, <3>1 DEF Elems
  <2>3. ASSUME NEW i \in 1 .. n - 1
        PROVE  u[i] \in Elems(p \o u)
    <3>1. m + i \in 1 .. m + (n - 1) /\ (p \o u)[m + i] = u[i]
      BY <1>1, <1>6
    <3> QED
      BY <1>7, <3>1 DEF Elems
  <2> QED
    BY <1>3, <1>5, <2>1, <2>2, <2>3 DEF Elems
<1>9. Elems(s) = {s[1]} \cup Elems(u)
  <2>1. ASSUME NEW i \in 1 .. n, i # 1
        PROVE  s[i] \in Elems(u)
    <3>1. i - 1 \in 1 .. n - 1 /\ u[i - 1] = s[i]
      BY <1>3, <2>1
    <3> QED
      BY <1>3, <3>1 DEF Elems
  <2>2. ASSUME NEW i \in 1 .. n - 1
        PROVE  u[i] \in Elems(s)
    <3>1. i + 1 \in DOMAIN s /\ u[i] = s[i + 1]
      BY <1>1, <1>3
    <3> QED
      BY <3>1 DEF Elems
  <2>3. \A e \in Elems(s) : \E i \in 1 .. n : e = s[i]
    BY <1>1 DEF Elems
  <2>4. \A e \in Elems(u) : \E i \in 1 .. n - 1 : e = u[i]
    BY <1>3 DEF Elems
  <2>5. s[1] \in Elems(s)
    BY <1>1 DEF Elems
  <2> QED
    BY <2>1, <2>2, <2>3, <2>4, <2>5
<1>10. ASSUME NEW i \in 1 .. n - 1
       PROVE  /\ u[i].op \notin FirstOps /\ s[1].op \notin LastOps
              /\ s[1].op \in {"mark", "expire", "enqueue"} => u[i].op # "enqueue"
  <2>1. i + 1 \in 1 .. n /\ i + 1 # 1 /\ 1 # n /\ u[i] = s[i + 1] /\ 1 \in 1 .. n
    BY <1>3
  <2>2. u[i].op \notin FirstOps /\ s[1].op \notin LastOps
    BY <1>1, <2>1 DEF Ordered
  <2>3. s[1].op \in {"mark", "expire"} => u[i].op # "enqueue"
    BY <1>1, <2>1 DEF Ordered
  <2>4. ASSUME s[1].op = "enqueue", u[i].op = "enqueue"
        PROVE  FALSE
    <3>1. s[1 + 1] = S("mark", s[1].x) /\ 2 \in 1 .. n
      BY <1>1, <2>1, <2>4 DEF Ordered
    <3>2. s[2].op = "mark"
      BY <3>1 DEF S
    <3>3. i + 1 < 2
      BY <1>1, <2>1, <2>4, <3>1, <3>2 DEF Ordered
    <3> QED
      BY <3>3
  <2> QED
    BY <2>2, <2>3, <2>4
<1>11. ASSUME s[1].op = "enqueue"
       PROVE  S("mark", s[1].x) \in Elems(u)
  <2>1. 1 < n /\ s[1 + 1] = S("mark", s[1].x)
    BY <1>1, <1>11 DEF Ordered
  <2>2. 1 \in 1 .. n - 1 /\ u[1] = S("mark", s[1].x)
    BY <1>3, <2>1
  <2> QED
    BY <1>3, <2>2 DEF Elems
<1>12. \A e \in Elems(u) : \E i \in 1 .. n - 1 : e = u[i]
  BY <1>3 DEF Elems
<1>13. \A e \in Elems(u) :
         /\ e.op \notin FirstOps /\ s[1].op \notin LastOps
         /\ s[1].op \in {"mark", "expire", "enqueue"} => e.op # "enqueue"
  BY <1>10, <1>12, ZenonT(40)
<1> QED
  BY <1>2, <1>4, <1>6, <1>8, <1>9, <1>11, <1>13, Zenon

(* The order survives taking the first step off, and joining two sequences. *)
LEMMA TailOrdered ==
  ASSUME NEW s \in Seq(Steps), s # <<>>, Ordered(s)
  PROVE  Ordered(Tail(s))
<1>1. PICK n \in Nat : n = Len(s) /\ DOMAIN s = 1 .. n /\ n > 0
  BY EmptySeq, LenProperties
<1>2. PICK u : u = Tail(s)
  OBVIOUS
<1>3. u \in Seq(Steps) /\ Len(u) = n - 1 /\ DOMAIN u = 1 .. n - 1 /\ \A i \in 1 .. n - 1 : u[i] = s[i + 1]
  BY <1>1, <1>2, HeadTailProperties, LenProperties
<1>4. ASSUME NEW i \in 1 .. n - 1
      PROVE  /\ u[i].op \in FirstOps => i = 1
             /\ u[i].op \in LastOps => i = n - 1
             /\ u[i].op = "enqueue" => i < n - 1 /\ u[i + 1] = S("mark", u[i].x)
             /\ u[i].op \in {"mark", "expire"} => \A j \in 1 .. n - 1 : u[j].op = "enqueue" => j < i
  <2>1. u[i] = s[i + 1] /\ i + 1 \in 1 .. n /\ i + 1 # 1
    BY <1>3
  <2>2. u[i].op \notin FirstOps /\ (u[i].op \in LastOps => i = n - 1)
    BY <1>1, <2>1 DEF Ordered
  <2>3. ASSUME u[i].op = "enqueue"
        PROVE  i < n - 1 /\ u[i + 1] = S("mark", u[i].x)
    <3>1. i + 1 < n /\ s[(i + 1) + 1] = S("mark", s[i + 1].x)
      BY <1>1, <2>1, <2>3 DEF Ordered
    <3> QED
      BY <1>3, <2>1, <3>1
  <2>4. ASSUME u[i].op \in {"mark", "expire"}, NEW j \in 1 .. n - 1, u[j].op = "enqueue"
        PROVE  j < i
    <3>1. j + 1 \in 1 .. n /\ s[j + 1].op = "enqueue"
      BY <1>3, <2>4
    <3>2. j + 1 < i + 1
      BY <1>1, <2>1, <2>4, <3>1 DEF Ordered
    <3> QED
      BY <3>2
  <2> QED
    BY <2>2, <2>3, <2>4
<1> QED
  BY <1>2, <1>3, <1>4 DEF Ordered

LEMMA Joined ==
  ASSUME NEW p \in Seq(Steps), NEW u \in Seq(Steps), Ordered(p), Ordered(u),
         Elems(p) # {} => \A e \in Elems(u) : e.op \notin FirstOps,
         \A e \in Elems(p) : e.op \in LastOps => u = <<>>,
         \A e \in Elems(p) : e.op \in {"mark", "expire"} => \A f \in Elems(u) : f.op # "enqueue"
  PROVE  /\ p \o u \in Seq(Steps)
         /\ Ordered(p \o u)
         /\ Elems(p \o u) = Elems(p) \cup Elems(u)
<1>1. PICK m \in Nat : m = Len(p) /\ DOMAIN p = 1 .. m
  BY LenProperties
<1>2. PICK n \in Nat : n = Len(u) /\ DOMAIN u = 1 .. n
  BY LenProperties
<1>3. /\ p \o u \in Seq(Steps) /\ Len(p \o u) = Len(p) + Len(u)
      /\ \A i \in 1 .. Len(p) + Len(u) : (p \o u)[i] = IF i <= Len(p) THEN p[i] ELSE u[i - Len(p)]
  BY ConcatProperties, Zenon
<1>4. PICK s : s = p \o u
  OBVIOUS
<1>5. /\ s \in Seq(Steps) /\ Len(s) = m + n /\ DOMAIN s = 1 .. m + n
      /\ \A i \in 1 .. m : s[i] = p[i]
      /\ \A i \in 1 .. n : s[m + i] = u[i]
  <2>1. s \in Seq(Steps) /\ Len(s) = m + n
    BY <1>1, <1>2, <1>3, <1>4, Zenon
  <2>2. DOMAIN s = 1 .. m + n
    BY <2>1, LenProperties
  <2>3. \A i \in 1 .. m + n : s[i] = IF i <= m THEN p[i] ELSE u[i - m]
    BY <1>1, <1>2, <1>3, <1>4, Zenon
  <2>4. \A i \in 1 .. m : s[i] = p[i]
    BY <2>3
  <2>5. \A i \in 1 .. n : s[m + i] = u[i]
    BY <2>3
  <2> QED
    BY <2>1, <2>2, <2>4, <2>5
<1>6. \A i \in 1 .. m + n : i \in 1 .. m \/ (i - m \in 1 .. n /\ i = m + (i - m))
  OBVIOUS
<1>7. \A i \in 1 .. m : i \in 1 .. m + n /\ i + 1 \in 1 .. m + n + 1
  OBVIOUS
<1>8. \A i \in 1 .. n : m + i \in 1 .. m + n
  OBVIOUS
<1>9. Elems(s) = Elems(p) \cup Elems(u)
  <2>1. ASSUME NEW i \in 1 .. m + n
        PROVE  s[i] \in Elems(p) \cup Elems(u)
    <3>1. CASE i \in 1 .. m
      BY <1>1, <1>5, <3>1 DEF Elems
    <3>2. CASE i - m \in 1 .. n /\ i = m + (i - m)
      <4>1. s[i] = u[i - m]
        BY <1>5, <3>2
      <4> QED
        BY <1>2, <3>2, <4>1 DEF Elems
    <3> QED
      BY <1>6, <3>1, <3>2
  <2>2. \A e \in Elems(p) : e \in Elems(s)
    BY <1>1, <1>5, <1>7 DEF Elems
  <2>3. \A e \in Elems(u) : e \in Elems(s)
    BY <1>2, <1>5, <1>8 DEF Elems
  <2>4. \A e \in Elems(s) : \E i \in 1 .. m + n : e = s[i]
    BY <1>5 DEF Elems
  <2> QED
    BY <2>1, <2>2, <2>3, <2>4
<1>10. ASSUME NEW i \in 1 .. m
       PROVE  /\ s[i].op \in FirstOps => i = 1
              /\ s[i].op \in LastOps => i = m + n
              /\ s[i].op = "enqueue" => i < m + n /\ s[i + 1] = S("mark", s[i].x)
              /\ s[i].op \in {"mark", "expire"} => \A j \in 1 .. m + n : s[j].op = "enqueue" => j < i
  <2>1. s[i] = p[i] /\ p[i] \in Elems(p)
    BY <1>1, <1>5 DEF Elems
  <2>2. s[i].op \in FirstOps => i = 1
    BY <1>1, <2>1 DEF Ordered
  <2>3. ASSUME s[i].op \in LastOps PROVE i = m + n
    <3>1. u = <<>> /\ i = m
      BY <1>1, <2>1, <2>3 DEF Ordered
    <3> QED
      BY <1>2, <3>1
  <2>4. ASSUME s[i].op = "enqueue" PROVE i < m + n /\ s[i + 1] = S("mark", s[i].x)
    <3>1. i < m /\ p[i + 1] = S("mark", p[i].x)
      BY <1>1, <2>1, <2>4 DEF Ordered
    <3> QED
      BY <1>5, <2>1, <3>1
  <2>5. ASSUME s[i].op \in {"mark", "expire"}, NEW j \in 1 .. m + n, s[j].op = "enqueue"
        PROVE  j < i
    <3>1. CASE j \in 1 .. m
      BY <1>1, <1>5, <2>1, <2>5, <3>1 DEF Ordered
    <3>2. CASE j - m \in 1 .. n /\ j = m + (j - m)
      <4>1. s[j] = u[j - m] /\ u[j - m] \in Elems(u)
        BY <1>2, <1>5, <3>2 DEF Elems
      <4> QED
        BY <2>1, <2>5, <4>1
    <3> QED
      BY <1>6, <3>1, <3>2
  <2> QED
    BY <2>2, <2>3, <2>4, <2>5
<1>11. ASSUME NEW i \in 1 .. n
       PROVE  /\ s[m + i].op \in FirstOps => m + i = 1
              /\ s[m + i].op \in LastOps => m + i = m + n
              /\ s[m + i].op = "enqueue" => m + i < m + n /\ s[(m + i) + 1] = S("mark", s[m + i].x)
              /\ s[m + i].op \in {"mark", "expire"} => \A j \in 1 .. m + n : s[j].op = "enqueue" => j < m + i
  <2>1. s[m + i] = u[i] /\ u[i] \in Elems(u)
    BY <1>2, <1>5 DEF Elems
  <2>2. ASSUME s[m + i].op \in FirstOps PROVE m + i = 1
    <3>1. i = 1
      BY <1>2, <2>1, <2>2 DEF Ordered
    <3>2. Elems(p) = {}
      BY <2>1, <2>2
    <3>3. m = 0
      <4>1. ASSUME m # 0 PROVE FALSE
        <5>1. 1 \in 1 .. m
          BY <4>1
        <5> QED
          BY <1>1, <3>2, <5>1 DEF Elems
      <4> QED
        BY <4>1
    <3> QED
      BY <3>1, <3>3
  <2>3. s[m + i].op \in LastOps => m + i = m + n
    BY <1>2, <2>1 DEF Ordered
  <2>4. ASSUME s[m + i].op = "enqueue" PROVE m + i < m + n /\ s[(m + i) + 1] = S("mark", s[m + i].x)
    <3>1. i < n /\ u[i + 1] = S("mark", u[i].x)
      BY <1>2, <2>1, <2>4 DEF Ordered
    <3>2. i + 1 \in 1 .. n /\ m + (i + 1) = (m + i) + 1
      BY <3>1
    <3>3. s[m + (i + 1)] = u[i + 1]
      BY <1>5, <3>2
    <3> QED
      BY <2>1, <3>1, <3>2, <3>3
  <2>5. ASSUME s[m + i].op \in {"mark", "expire"}, NEW j \in 1 .. m + n, s[j].op = "enqueue"
        PROVE  j < m + i
    <3>1. CASE j \in 1 .. m
      BY <3>1
    <3>2. CASE j - m \in 1 .. n /\ j = m + (j - m)
      <4>1. s[j] = u[j - m]
        BY <1>5, <3>2
      <4>2. j - m < i
        BY <1>2, <2>1, <2>5, <3>2, <4>1 DEF Ordered
      <4> QED
        BY <4>2
    <3> QED
      BY <1>6, <3>1, <3>2
  <2> QED
    BY <2>2, <2>3, <2>4, <2>5
<1>12. ASSUME NEW i \in 1 .. m + n
       PROVE  /\ s[i].op \in FirstOps => i = 1
              /\ s[i].op \in LastOps => i = m + n
              /\ s[i].op = "enqueue" => i < m + n /\ s[i + 1] = S("mark", s[i].x)
              /\ s[i].op \in {"mark", "expire"} => \A j \in 1 .. m + n : s[j].op = "enqueue" => j < i
  <2>1. CASE i \in 1 .. m
    BY <1>10, <2>1, Zenon
  <2>2. CASE i - m \in 1 .. n /\ i = m + (i - m)
    <3>1. PICK k \in 1 .. n : k = i - m /\ i = m + k
      BY <2>2
    <3> QED
      BY <1>11, <3>1, Zenon
  <2> QED
    BY <1>6, <2>1, <2>2
<1>13. Ordered(s)
  BY <1>5, <1>12, ZenonT(40) DEF Ordered
<1> QED
  BY <1>4, <1>5, <1>9, <1>13, Zenon

(* Sequences of one, two and three steps.                                   *)
LEMMA One ==
  ASSUME NEW a \in Steps, a.op # "enqueue"
  PROVE  <<a>> \in Seq(Steps) /\ Ordered(<<a>>) /\ Elems(<<a>>) = {a} /\ <<a>> # <<>>
<1>1. <<a>> \in Seq(Steps) /\ <<a>> # <<>>
  OBVIOUS
<1>2. Ordered(<<a>>)
  BY DEF Ordered
<1> QED
  BY <1>1, <1>2 DEF Elems

LEMMA Two ==
  ASSUME NEW a \in Steps, NEW b \in Steps
  PROVE  /\ <<a, b>> \in Seq(Steps) /\ Elems(<<a, b>>) = {a, b} /\ <<a, b>> # <<>>
         /\ a.op \notin LastOps \cup {"enqueue"} /\ b.op \notin FirstOps \cup {"enqueue"} => Ordered(<<a, b>>)
         /\ a.op = "enqueue" /\ b = S("mark", a.x) => Ordered(<<a, b>>)
<1>1. <<a, b>> \in Seq(Steps) /\ <<a, b>> # <<>>
  OBVIOUS
<1>2. a.op \notin LastOps \cup {"enqueue"} /\ b.op \notin FirstOps \cup {"enqueue"} => Ordered(<<a, b>>)
  BY DEF Ordered
<1>3. a.op = "enqueue" /\ b = S("mark", a.x) => Ordered(<<a, b>>)
  BY DEF Ordered, S, FirstOps, LastOps
<1> QED
  BY <1>1, <1>2, <1>3 DEF Elems

LEMMA Three ==
  ASSUME NEW a \in Steps, NEW b \in Steps, NEW d \in Steps
  PROVE  /\ <<a, b, d>> \in Seq(Steps) /\ Elems(<<a, b, d>>) = {a, b, d} /\ <<a, b, d>> # <<>>
<1>1. <<a, b, d>> \in Seq(Steps) /\ <<a, b, d>> # <<>>
  OBVIOUS
<1> QED
  BY <1>1 DEF Elems
-----------------------------------------------------------------------------
(* The inductive invariant.                                                 *)
Has(c, op) == \E x : S(op, x) \in Left(c)

(* The order in which each CPU does what is left to it.                     *)
Lined == \A c \in Cpus : Ordered(todo[c])

BootOps == {"release", "await", "park", "first", "publish"}

(* Bring-up of one CPU, and of all of them.                                 *)
Booted(c) ==
  /\ \A op, x : S(op, x) \in Left(c) =>
       IF current[c] = Null THEN op \in BootOps \cup {"online", "ready"} ELSE op \notin BootOps
  /\ Has(c, "publish") => \A op, x : S(op, x) \in Left(c) => op \in {"publish", "online", "ready"}
  /\ Has(c, "release") \/ Has(c, "await") => Has(c, "first")
  /\ Has(c, "ready") => c \in online \/ Has(c, "online")
  /\ Has(c, "park") => c # Cpu0
Booting == \A c \in Cpus : Booted(c)

(* No thread is spawned before every secondary a board waits for is up.     *)
AllStarted ==
  /\ ready \subseteq online /\ Cpu0 \in online
  /\ board.handshake => \A c \in Cpus \ {Cpu0} :
       c \in ready \/ S("release", c) \in Left(Cpu0) \/ S("await", c) \in Left(Cpu0)
  /\ Has(Cpu0, "first") => \A t \in Threads \ {Root} : state[t] = "NEW"

(* IPIs go to other CPUs, and only to CPUs that are online.                 *)
Notified ==
  /\ ipi \subseteq online
  /\ \A c \in Cpus : deferred[c] \subseteq online \ {c}

(* What is left to do on CPU c fits the threads it is about.                *)
EnqueueFits(c) == \A x : S("enqueue", x) \in Left(c) =>
  /\ x \in Threads /\ state[x] = "READY" /\ x \notin rq
  /\ S("switch", x) \notin Left(CpuOf[x]) /\ S("publish", x) \notin Left(CpuOf[x])
  /\ \A d \in Cpus \ {c} : S("enqueue", x) \notin Left(d)
PickFits(c) == \A x : S("switch", x) \in Left(c) \/ S("publish", x) \in Left(c) =>
  x = Idle \/ (x \in Threads /\ CpuOf[x] = c /\ state[x] = "READY" /\ x \notin rq)
SwitchFits(c) == Has(c, "switch") => (current[c] \in Threads => state[current[c]] # "RUNNING")
DequeueFits(c) == \A x : S("dequeue", x) \in Left(c) =>
  x \in Threads /\ CpuOf[x] = c /\ reason[x] \in {"call", "recv"}
MarkFits(c) == \A x : S("mark", x) \in Left(c) =>
  x \in Threads /\ state[x] # "NEW" /\ Has(c, "sample")
ArmFits(c) == \A x : S("arm", x) \in Left(c) =>
  /\ current[c] \in Threads /\ timed[current[c]] /\ reason[current[c]] = x
  /\ current[c] \notin armed
Arming(t) == current[CpuOf[t]] = t /\ Has(CpuOf[t], "arm")
ExpireFits(c) == \A x : S("expire", x) \in Left(c) =>
  /\ x \in Threads /\ WheelOf(x) = c /\ timed[x] /\ cb[x] = reason[x]
  /\ x \notin armed /\ ~Arming(x) /\ Has(c, "sample")
DisarmFits(c) == \A x : S("disarm", x) \in Left(c) =>
  x \in Threads /\ CpuOf[x] = c /\ state[x] = "READY" /\ (x \in armed => WheelOf(x) = c)

QueueingFits == \A c \in Cpus : EnqueueFits(c) /\ PickFits(c) /\ SwitchFits(c)
WakingFits == \A c \in Cpus : DequeueFits(c) /\ MarkFits(c)
TimingFits == \A c \in Cpus : ArmFits(c) /\ ExpireFits(c) /\ DisarmFits(c)

(* A CPU's current thread is one of its own, and runs or is on its way out. *)
Leaving(c) == Has(c, "sample") \/ Has(c, "dispatch") \/ Has(c, "switch")
Hosting == \A c \in Cpus :
  current[c] \in Threads =>
    CpuOf[current[c]] = c /\ (state[current[c]] = "RUNNING" \/ Leaving(c))

(* A READY thread is queued, or on its way to a queue or to its CPU.        *)
Coming(t) == \E c \in Cpus : S("enqueue", t) \in Left(c) \/ S("switch", t) \in Left(c) \/ S("publish", t) \in Left(c)
Placed == \A t \in Threads :
  /\ t \in rq => state[t] = "READY"
  /\ state[t] = "READY" => t \in rq \/ Coming(t)
  /\ state[t] = "RUNNING" => current[CpuOf[t]] = t

(* BLOCKED threads have a reason, the endpoint's own ones only among Eps.   *)
Waits(Eps) == \A t \in Threads :
  /\ state[t] = "BLOCKED" <=> reason[t] # "none"
  /\ reason[t] \in {"call", "recv"} => t \in Eps
  /\ waiter = t => reason[t] = "notif"

(* The endpoint's receivers, each once.                                     *)
Receivers ==
  /\ \A i, j \in DOMAIN recvQ : recvQ[i] = recvQ[j] => i = j
  /\ \A i \in DOMAIN recvQ : reason[recvQ[i]] = "recv"

(* A timed wait has its timeout; a timeout has its wait or is being disarmed.*)
Timers == \A t \in Threads :
  /\ timed[t] => /\ reason[t] \in {"sleep", "notif"}
                 /\ reason[t] = "notif" => WheelOf(t) = CpuOf[t]
                 /\ t \in armed \/ Arming(t) \/ S("expire", t) \in Left(WheelOf(t))
  /\ t \in armed => \/ timed[t] /\ cb[t] = reason[t]
                    \/ S("disarm", t) \in Left(CpuOf[t]) /\ WheelOf(t) = CpuOf[t]

(* What c runs once it has done what is left, unless it looks again.        *)
Bound(c, x) ==
  \/ S("switch", x) \in Left(c) \/ S("publish", x) \in Left(c)
  \/ x = current[c] /\ x # Null /\ ~Leaving(c) /\ ~Has(c, "publish")
Told(c, u) ==
  \/ c \in ipi \/ \E d \in Cpus : c \in deferred[d]
  \/ \E d \in Cpus : S("mark", u) \in Left(d)

(* A more urgent thread on its queue has been, or will be, announced to it. *)
Noticed ==
  board.handshake => \A c \in Cpus : \A u \in Queued(rq, c) : \A x \in Threads \cup {Idle} :
     Bound(c, x) /\ Prio[u] < Urgency(x) => Told(c, u)

SmpInv(Eps) ==
  /\ Typed /\ Lined /\ Booting /\ AllStarted /\ Notified
  /\ QueueingFits /\ WakingFits /\ TimingFits /\ Hosting /\ Placed
  /\ Waits(Eps) /\ Receivers /\ Timers /\ Noticed

-----------------------------------------------------------------------------
(* What is left to do, as a set.                                            *)
LEMMA StepsDiffer == \A a, b, x, y : S(a, x) = S(b, y) <=> a = b /\ x = y
  BY DEF S

LEMMA StepTyped ==
  /\ \A op \in OpNames, x \in Threads \cup Cpus \cup {Idle, Null} : S(op, x) \in Steps
  /\ S("arm", "sleep") \in Steps /\ S("arm", "notif") \in Steps
  /\ \A x \in BOOLEAN : S("dispatch", x) \in Steps
<1>1. \A op \in OpNames, x \in Threads \cup Cpus \cup {Idle, Null} : S(op, x) \in Steps
  BY DEF S, Steps
<1>2. S("arm", "sleep") \in Steps /\ S("arm", "notif") \in Steps
  BY DEF S, Steps
<1>3. \A x \in BOOLEAN : S("dispatch", x) \in Steps
  BY DEF S, Steps
<1> QED
  BY <1>1, <1>2, <1>3

LEMMA StepsAreS ==
  ASSUME NEW e \in Steps
  PROVE  e = S(e.op, e.x)
  BY DEF Steps, S

LEMMA LeftIsElems ==
  ASSUME NEW c
  PROVE  Left(c) = Elems(todo[c]) /\ Left(c)' = Elems(todo'[c])
  BY DEF Left, Elems

(* Everything left is a step; only one can be the last.                     *)
LEMMA LeftShape ==
  ASSUME Typed, Lined, NEW c \in Cpus
  PROVE  /\ \A e \in Left(c) : e \in Steps /\ e = S(e.op, e.x)
         /\ \A a, b, x, y : S(a, x) \in Left(c) /\ S(b, y) \in Left(c) /\ a \in LastOps /\ b \in LastOps
              => a = b /\ x = y
<1>1. todo[c] \in Seq(Steps) /\ Ordered(todo[c])
  BY DEF Typed, Lined
<1>2. DOMAIN todo[c] = 1 .. Len(todo[c]) /\ \A i \in DOMAIN todo[c] : todo[c][i] \in Steps
  BY <1>1, LenProperties, ElementOfSeq
<1>3. \A e \in Left(c) : e \in Steps /\ e = S(e.op, e.x)
  BY <1>2, StepsAreS DEF Left
<1>4. ASSUME NEW a, NEW b, NEW x, NEW y, S(a, x) \in Left(c), S(b, y) \in Left(c), a \in LastOps, b \in LastOps
      PROVE  a = b /\ x = y
  <2>1. PICK i \in DOMAIN todo[c] : todo[c][i] = S(a, x)
    BY <1>4 DEF Left
  <2>2. PICK j \in DOMAIN todo[c] : todo[c][j] = S(b, y)
    BY <1>4 DEF Left
  <2>3. todo[c][i].op = a /\ todo[c][j].op = b
    BY <2>1, <2>2 DEF S
  <2>4. i = Len(todo[c]) /\ j = Len(todo[c])
    BY <1>1, <1>4, <2>3 DEF Ordered
  <2> QED
    BY <2>1, <2>2, <2>4, StepsDiffer
<1> QED
  BY <1>3, <1>4

LEMMA PopLeft ==
  ASSUME Typed, Lined, NEW c \in Cpus, NEW op, Step(c, op),
         NEW p \in Seq(Steps), Ordered(p), Then(c, p),
         \A e \in Elems(p) : e.op \in LastOps => op \in LastOps,
         \A e \in Elems(p) : e.op \in {"mark", "expire"} => op \in {"mark", "expire", "enqueue"}
  PROVE  /\ todo' \in [Cpus -> Seq(Steps)] /\ Lined'
         /\ S(op, Arg(c)) \in Steps
         /\ \A d \in Cpus \ {c} : Left(d)' = Left(d)
         /\ \E R : /\ Left(c) = {S(op, Arg(c))} \cup R /\ Left(c)' = Elems(p) \cup R
                   /\ op \in LastOps => R = {}
                   /\ \A a, x : S(a, x) \in R => /\ a \notin FirstOps
                                                 /\ op \in {"mark", "expire", "enqueue"} => a # "enqueue"
                   /\ op = "enqueue" => S("mark", Arg(c)) \in R
<1>1. PICK s : s = todo[c]
  OBVIOUS
<1>2. s \in Seq(Steps) /\ Ordered(s) /\ s # <<>> /\ Head(s).op = op /\ Head(s).x = Arg(c)
  BY <1>1 DEF Typed, Lined, Step, Arg
<1>3. /\ Elems(s) = {Head(s)} \cup Elems(Tail(s))
      /\ \A e \in Elems(Tail(s)) :
           /\ e.op \notin FirstOps /\ Head(s).op \notin LastOps
           /\ Head(s).op \in {"mark", "expire", "enqueue"} => e.op # "enqueue"
      /\ Head(s).op = "enqueue" => S("mark", Head(s).x) \in Elems(Tail(s))
  BY <1>2, Popped, Zenon
<1>4. PICK u : u = Tail(s)
  OBVIOUS
<1>5. u \in Seq(Steps) /\ Ordered(u)
  BY <1>2, <1>4, TailOrdered
<1>6. ASSUME op \in LastOps
      PROVE  u = <<>> /\ Elems(u) = {}
  <2>1. Elems(u) = {}
    BY <1>2, <1>3, <1>4, <1>6
  <2>2. u = <<>>
    <3>1. ASSUME u # <<>> PROVE FALSE
      <4>1. 1 \in DOMAIN u
        BY <1>5, <3>1, EmptySeq, LenProperties
      <4> QED
        BY <2>1, <4>1 DEF Elems
    <3> QED
      BY <3>1
  <2> QED
    BY <2>1, <2>2
<1>7. /\ p \o u \in Seq(Steps)
      /\ Ordered(p \o u)
      /\ Elems(p \o u) = Elems(p) \cup Elems(u)
  <2>1. /\ Elems(p) # {} => \A e \in Elems(u) : e.op \notin FirstOps
        /\ \A e \in Elems(p) : e.op \in LastOps => u = <<>>
        /\ \A e \in Elems(p) : e.op \in {"mark", "expire"} => \A f \in Elems(u) : f.op # "enqueue"
    BY <1>2, <1>3, <1>4, <1>6
  <2> QED
    BY <1>5, <2>1, Joined
<1>8. todo' = [todo EXCEPT ![c] = p \o u] /\ todo \in [Cpus -> Seq(Steps)]
  BY <1>1, <1>4 DEF Then, Typed
<1>9. todo' \in [Cpus -> Seq(Steps)] /\ todo'[c] = p \o u /\ \A d \in Cpus \ {c} : todo'[d] = todo[d]
  BY <1>7, <1>8
<1>10. Lined'
  BY <1>7, <1>9 DEF Lined
<1>11. Head(s) \in Steps /\ Head(s) = S(op, Arg(c))
  <2>1. Head(s) \in Steps
    BY <1>2, HeadTailProperties
  <2> QED
    BY <1>2, <2>1, StepsAreS
<1>12. Left(c) = {S(op, Arg(c))} \cup Elems(u) /\ Left(c)' = Elems(p) \cup Elems(u)
  BY <1>1, <1>3, <1>4, <1>7, <1>9, <1>11, LeftIsElems
<1>13. \A d \in Cpus \ {c} : Left(d)' = Left(d)
  BY <1>9, LeftIsElems
<1>14. \A a, x : S(a, x) \in Elems(u) =>
          a \notin FirstOps /\ (op \in {"mark", "expire", "enqueue"} => a # "enqueue")
  <2>1. \A a, x : S(a, x).op = a
    BY DEF S
  <2> QED
    BY <1>2, <1>3, <1>4, <2>1
<1>15. op = "enqueue" => S("mark", Arg(c)) \in Elems(u)
  BY <1>2, <1>3, <1>4
<1> QED
  BY <1>6, <1>9, <1>10, <1>11, <1>12, <1>13, <1>14, <1>15

LEMMA ExitShape ==
  /\ Exit \in Seq(Steps) /\ Ordered(Exit) /\ Elems(Exit) = {S("kick", Null), S("sample", Null)}
  /\ \A e \in Elems(Exit) : e.op \notin FirstOps \cup {"enqueue"}
<1>1. S("kick", Null) \in Steps /\ S("sample", Null) \in Steps
  BY StepTyped DEF OpNames
<1>2. S("kick", Null).op = "kick" /\ S("sample", Null).op = "sample"
  BY DEF S
<1>3. Exit = <<S("kick", Null), S("sample", Null)>>
  BY DEF Exit, Nothing
<1>4. Exit \in Seq(Steps) /\ Ordered(Exit) /\ Elems(Exit) = {S("kick", Null), S("sample", Null)}
  BY <1>1, <1>2, <1>3, Two DEF FirstOps, LastOps
<1> QED
  BY <1>2, <1>4 DEF FirstOps

LEMMA EntryLeft ==
  ASSUME Typed, Lined, NEW c \in Cpus, InUser(c),
         NEW p \in Seq(Steps), Ordered(p), todo' = [todo EXCEPT ![c] = p \o Exit],
         \A e \in Elems(p) : e.op \notin LastOps
  PROVE  /\ todo' \in [Cpus -> Seq(Steps)] /\ Lined'
         /\ \A d \in Cpus \ {c} : Left(d)' = Left(d)
         /\ Left(c) = {} /\ Left(c)' = Elems(p) \cup {S("kick", Null), S("sample", Null)}
<1>1. /\ p \o Exit \in Seq(Steps)
      /\ Ordered(p \o Exit)
      /\ Elems(p \o Exit) = Elems(p) \cup Elems(Exit)
  BY ExitShape, Joined
<1>2. todo' \in [Cpus -> Seq(Steps)] /\ todo'[c] = p \o Exit /\ \A d \in Cpus \ {c} : todo'[d] = todo[d]
  BY <1>1 DEF Typed
<1>3. Left(c) = {}
  BY DEF InUser, Left
<1>4. Left(c)' = Elems(p) \cup {S("kick", Null), S("sample", Null)}
  BY <1>1, <1>2, ExitShape, LeftIsElems
<1>5. Lined'
  BY <1>1, <1>2 DEF Lined
<1> QED
  BY <1>2, <1>3, <1>4, <1>5, LeftIsElems

LEMMA Empty == <<>> \in Seq(Steps) /\ Ordered(<<>>) /\ Elems(<<>>) = {}
<1>1. <<>> \in Seq(Steps) /\ DOMAIN <<>> = {}
  OBVIOUS
<1> QED
  BY <1>1 DEF Ordered, Elems

-----------------------------------------------------------------------------
(* Steps that move nothing between queues, waits and timers.                *)
KeptOps == {"enqueue", "switch", "publish", "arm", "expire", "disarm"}

QuietLeft ==
  /\ \A d \in Cpus, a \in KeptOps : \A y : S(a, y) \in Left(d)' <=> S(a, y) \in Left(d)
  /\ \A d \in Cpus, a \in {"dequeue", "mark"} : \A y : S(a, y) \in Left(d)' => S(a, y) \in Left(d)
  /\ \A d \in Cpus : /\ Has(d, "mark")' \/ Has(d, "expire")' => (Has(d, "sample") => Has(d, "sample")')
                     /\ Leaving(d) => Leaving(d)' \/ OnCpu(d)

LEMMA QuietKeeps ==
  ASSUME NEW Eps, SmpInv(Eps), QuietLeft,
         UNCHANGED <<board, current, state, rq, reason, timed, cb, armed, waiter, recvQ>>
  PROVE  /\ QueueingFits' /\ WakingFits' /\ TimingFits' /\ Hosting' /\ Placed'
         /\ Waits(Eps)' /\ Receivers' /\ Timers'
<1>1. \A d \in Cpus, a \in KeptOps : Has(d, a)' <=> Has(d, a)
  BY DEF QuietLeft, Has
<1>2. \A t \in Threads : CpuOf[t] \in Cpus /\ WheelOf(t) \in Cpus /\ WheelOf(t)' = WheelOf(t)
  BY SmpAssumption DEF WheelOf
<1>3. \A t \in Threads : Arming(t)' <=> Arming(t)
  BY <1>1, <1>2 DEF Arming, KeptOps
<1>4. QueueingFits'
  BY <1>1, <1>2 DEF SmpInv, QuietLeft, QueueingFits, EnqueueFits, PickFits, SwitchFits, KeptOps
<1>5. WakingFits'
  BY <1>1, <1>2 DEF SmpInv, QuietLeft, WakingFits, DequeueFits, MarkFits, Has
<1>6. \A d \in Cpus : ArmFits(d)' /\ DisarmFits(d)'
  BY <1>1, <1>2 DEF SmpInv, QuietLeft, TimingFits, ArmFits, DisarmFits, KeptOps
<1>7. \A d \in Cpus : ExpireFits(d)'
  <2>1. \A d \in Cpus : \A y : S("expire", y) \in Left(d)' => S("expire", y) \in Left(d) /\ Has(d, "expire")'
    BY DEF QuietLeft, KeptOps, Has
  <2> QED
    BY <1>1, <1>2, <1>3, <2>1 DEF SmpInv, QuietLeft, TimingFits, ExpireFits, KeptOps
<1>8. Hosting'
  BY DEF SmpInv, QuietLeft, Hosting, OnCpu
<1>9. Placed'
  <2>1. \A t \in Threads : Coming(t)' <=> Coming(t)
    BY DEF Coming, QuietLeft, KeptOps
  <2> QED
    BY <2>1 DEF SmpInv, Placed
<1>10. Waits(Eps)' /\ Receivers'
  BY DEF SmpInv, Waits, Receivers
<1>11. Timers'
  BY <1>2, <1>3 DEF SmpInv, Timers, QuietLeft, KeptOps
<1> QED
  BY <1>4, <1>5, <1>6, <1>7, <1>8, <1>9, <1>10, <1>11 DEF TimingFits

LEMMA QuietNoticed ==
  ASSUME NEW Eps, SmpInv(Eps), QuietLeft, UNCHANGED <<board, current, rq>>,
         \A d \in Cpus : Leaving(d) => Leaving(d)',
         \A d \in Cpus, u \in Threads : Told(d, u) => Told(d, u)'
  PROVE  Noticed'
<1>1. \A d \in Cpus : \A x : Bound(d, x)' => Bound(d, x)
  <2>1. \A d \in Cpus : Has(d, "publish") => Has(d, "publish")'
    BY DEF QuietLeft, Has, KeptOps
  <2> QED
    BY <2>1 DEF QuietLeft, Bound, KeptOps
<1>2. rq \subseteq Threads
  BY DEF SmpInv, Typed
<1> QED
  BY <1>1, <1>2 DEF SmpInv, Noticed, Queued

-----------------------------------------------------------------------------
(* One step of a handler: the rest of what was left stays.                  *)
Moved(c, op, P, R) ==
  /\ Left(c) = {S(op, Arg(c))} \cup R /\ Left(c)' = P \cup R
  /\ op \in LastOps => R = {}
  /\ \A a, x : S(a, x) \in R => a \notin FirstOps /\ (op \in {"mark", "expire", "enqueue"} => a # "enqueue")
  /\ op = "enqueue" => S("mark", Arg(c)) \in R
  /\ \A d \in Cpus \ {c} : Left(d)' = Left(d)

LEMMA Done ==
  ASSUME NEW Eps, SmpInv(Eps), NEW c \in Cpus, NEW op, Step(c, op), Then(c, <<>>)
  PROVE  /\ todo' \in [Cpus -> Seq(Steps)] /\ Lined' /\ S(op, Arg(c)) \in Steps
         /\ \E R : Moved(c, op, {}, R)
<1>1. PICK p : p = <<>>
  OBVIOUS
<1>2. p \in Seq(Steps) /\ Ordered(p) /\ Elems(p) = {} /\ Then(c, p)
  BY <1>1, Empty
<1>3. /\ todo' \in [Cpus -> Seq(Steps)] /\ Lined' /\ S(op, Arg(c)) \in Steps
      /\ \A d \in Cpus \ {c} : Left(d)' = Left(d)
      /\ \E R : /\ Left(c) = {S(op, Arg(c))} \cup R /\ Left(c)' = Elems(p) \cup R
                /\ op \in LastOps => R = {}
                /\ \A a, x : S(a, x) \in R => /\ a \notin FirstOps
                                              /\ op \in {"mark", "expire", "enqueue"} => a # "enqueue"
                /\ op = "enqueue" => S("mark", Arg(c)) \in R
  <2>1. Typed /\ Lined
    BY DEF SmpInv
  <2> QED
    BY <1>2, <2>1, PopLeft
<1> QED
  BY <1>2, <1>3, Zenon DEF Moved

LEMMA Replaced ==
  ASSUME NEW Eps, SmpInv(Eps), NEW c \in Cpus, NEW op, Step(c, op),
         NEW b, NEW y, S(b, y) \in Steps, Then(c, <<S(b, y)>>),
         b # "enqueue", b \in LastOps => op \in LastOps,
         b \in {"mark", "expire"} => op \in {"mark", "expire", "enqueue"}
  PROVE  /\ todo' \in [Cpus -> Seq(Steps)] /\ Lined' /\ S(op, Arg(c)) \in Steps
         /\ \E R : Moved(c, op, {S(b, y)}, R)
<1>1. PICK p : p = <<S(b, y)>>
  OBVIOUS
<1>2. S(b, y).op = b
  BY DEF S
<1>3. p \in Seq(Steps) /\ Ordered(p) /\ Elems(p) = {S(b, y)} /\ Then(c, p)
  BY <1>1, <1>2, One
<1>4. /\ todo' \in [Cpus -> Seq(Steps)] /\ Lined' /\ S(op, Arg(c)) \in Steps
      /\ \A d \in Cpus \ {c} : Left(d)' = Left(d)
      /\ \E R : /\ Left(c) = {S(op, Arg(c))} \cup R /\ Left(c)' = Elems(p) \cup R
                /\ op \in LastOps => R = {}
                /\ \A a, x : S(a, x) \in R => /\ a \notin FirstOps
                                              /\ op \in {"mark", "expire", "enqueue"} => a # "enqueue"
                /\ op = "enqueue" => S("mark", Arg(c)) \in R
  <2>1. /\ \A e \in Elems(p) : e.op \in LastOps => op \in LastOps
        /\ \A e \in Elems(p) : e.op \in {"mark", "expire"} => op \in {"mark", "expire", "enqueue"}
    BY <1>2, <1>3
  <2>2. Typed /\ Lined
    BY DEF SmpInv
  <2> QED
    BY <1>3, <2>1, <2>2, PopLeft
<1> QED
  BY <1>3, <1>4, Zenon DEF Moved

LEMMA HeadTyped ==
  ASSUME NEW Eps, SmpInv(Eps), NEW c \in Cpus, NEW op, Step(c, op)
  PROVE  S(op, Arg(c)) \in Steps
<1>1. todo[c] \in Seq(Steps) /\ todo[c] # <<>>
  BY DEF SmpInv, Typed, Step
<1>2. Head(todo[c]) \in Steps
  BY <1>1, HeadTailProperties
<1> QED
  BY <1>2, StepsAreS DEF Step, Arg

LEMMA QuietMove ==
  ASSUME NEW c \in Cpus, NEW op, NEW P, NEW R, Moved(c, op, P, R), op \notin KeptOps,
         \A a, y : S(a, y) \in P => a \in {"await", "first", "dispatch"},
         op = "sample" => \E y : S("dispatch", y) \in P,
         op = "dispatch" => OnCpu(c)
  PROVE  QuietLeft
<1>1. \A a, y : S(a, y) \in Left(c)' <=> S(a, y) \in P \/ S(a, y) \in R
  BY DEF Moved
<1>2. \A a, y : S(a, y) \in Left(c) <=> (a = op /\ y = Arg(c)) \/ S(a, y) \in R
  BY StepsDiffer DEF Moved
<1>3. \A d \in Cpus \ {c} : \A e : e \in Left(d)' <=> e \in Left(d)
  BY DEF Moved
<1>4. \A d \in Cpus, a \in KeptOps : \A y : S(a, y) \in Left(d)' <=> S(a, y) \in Left(d)
  BY <1>1, <1>2, <1>3 DEF KeptOps
<1>5. \A d \in Cpus, a \in {"dequeue", "mark"} : \A y : S(a, y) \in Left(d)' => S(a, y) \in Left(d)
  BY <1>1, <1>2, <1>3
<1>6. \A d \in Cpus \ {c} : (Has(d, "sample") => Has(d, "sample")') /\ (Leaving(d) => Leaving(d)')
  BY <1>3 DEF Has, Leaving
<1>7. Has(c, "mark")' \/ Has(c, "expire")' => (Has(c, "sample") => Has(c, "sample")')
  <2>1. CASE op = "sample"
    <3>1. R = {}
      BY <2>1 DEF Moved, LastOps
    <3> QED
      BY <1>1, <3>1 DEF Has
  <2>2. CASE op # "sample"
    BY <1>1, <1>2, <2>2 DEF Has
  <2> QED
    BY <2>1, <2>2
<1>8. Leaving(c) => Leaving(c)' \/ OnCpu(c)
  <2>1. CASE op \in {"sample", "dispatch"}
    BY <1>1, <2>1 DEF Has, Leaving
  <2>2. CASE op \notin {"sample", "dispatch"}
    BY <1>1, <1>2, <2>2 DEF Has, Leaving, KeptOps
  <2> QED
    BY <2>1, <2>2
<1> QED
  BY <1>4, <1>5, <1>6, <1>7, <1>8 DEF QuietLeft

LEMMA ReleaseKeeps ==
  ASSUME NEW Eps, SmpInv(Eps), NEW c \in Cpus, Release(c)
  PROVE  SmpInv(Eps)'
<1>1. Step(c, "release")
  BY DEF Release
<1>2. PICK P, R :
        /\ todo' \in [Cpus -> Seq(Steps)] /\ Lined' /\ S("release", Arg(c)) \in Steps
        /\ Moved(c, "release", P, R)
        /\ P = (IF board.handshake THEN {S("await", Arg(c))} ELSE {})
  <2>1. CASE board.handshake
    <3>1. S("await", Arg(c)) \in Steps
      <4>1. S("release", Arg(c)) \in Steps
        BY <1>1, HeadTyped
      <4> QED
        BY <4>1 DEF S, Steps, OpNames
    <3>2. Then(c, <<S("await", Arg(c))>>)
      BY <2>1 DEF Release
    <3> QED
      BY <1>1, <2>1, <3>1, <3>2, Replaced DEF LastOps
  <2>2. CASE ~board.handshake
    <3>1. Then(c, <<>>)
      BY <2>2 DEF Release
    <3> QED
      BY <1>1, <2>2, <3>1, Done
  <2> QED
    BY <2>1, <2>2
<1>3. UNCHANGED <<board, ready, online, current, needs, deferred, ipi, state, rq, waitVars, timerVars, objVars>>
  BY DEF Release
<1>4. QuietLeft
  <2>1. \A a, y : S(a, y) \in P => a \in {"await", "first", "dispatch"}
    BY <1>2, StepsDiffer
  <2> QED
    BY <1>2, <2>1, QuietMove DEF KeptOps
<1>5. QueueingFits' /\ WakingFits' /\ TimingFits' /\ Hosting' /\ Placed' /\ Waits(Eps)' /\ Receivers' /\ Timers'
  BY <1>3, <1>4, QuietKeeps DEF waitVars, timerVars, objVars
<1>6. Typed'
  BY <1>2, <1>3 DEF SmpInv, Typed, waitVars, timerVars, objVars
<1>7. Booting'
  <2>1. \A d \in Cpus \ {c} : Booted(d)'
    BY <1>2, <1>3 DEF SmpInv, Booting, Booted, Moved, Has
  <2>2. \A a, y : S(a, y) \in Left(c)' => a = "await" \/ S(a, y) \in Left(c)
    BY <1>2, StepsDiffer DEF Moved
  <2>3. Has(c, "release") /\ Has(c, "first") /\ Has(c, "first")' /\ ~Has(c, "publish")
    BY <1>2, StepsDiffer DEF SmpInv, Booting, Booted, Moved, Has
  <2>4. Has(c, "online") => Has(c, "online")'
    BY <1>2, StepsDiffer DEF Moved, Has
  <2>5. Booted(c)'
    BY <1>3, <2>2, <2>3, <2>4 DEF SmpInv, Booting, Booted, Has, BootOps
  <2> QED
    BY <2>1, <2>5 DEF Booting
<1>8. AllStarted'
  <2>1. Cpu0 \in Cpus
    BY SmpAssumption
  <2>2. ASSUME board.handshake, NEW d \in Cpus \ {Cpu0}
        PROVE  d \in ready \/ S("release", d) \in Left(Cpu0)' \/ S("await", d) \in Left(Cpu0)'
    BY <1>2, <2>1, <2>2, StepsDiffer DEF SmpInv, AllStarted, Moved
  <2>3. Has(Cpu0, "first")' => Has(Cpu0, "first")
    BY <1>2, <2>1, StepsDiffer DEF Moved, Has
  <2> QED
    BY <1>3, <2>2, <2>3 DEF SmpInv, AllStarted
<1>9. Notified'
  BY <1>3 DEF SmpInv, Notified
<1>10. Noticed'
  <2>1. \A d \in Cpus : Leaving(d) => Leaving(d)'
    BY <1>2, StepsDiffer DEF Moved, Leaving, Has
  <2>2. \A d \in Cpus, u \in Threads : Told(d, u) => Told(d, u)'
    BY <1>2, <1>3, StepsDiffer DEF Moved, Told
  <2> QED
    BY <1>3, <1>4, <2>1, <2>2, QuietNoticed
<1> QED
  BY <1>2, <1>5, <1>6, <1>7, <1>8, <1>9, <1>10 DEF SmpInv

LEMMA AwaitKeeps ==
  ASSUME NEW Eps, SmpInv(Eps), NEW c \in Cpus, Await(c)
  PROVE  SmpInv(Eps)'
<1>1. Step(c, "await")
  BY DEF Await
<1>2. PICK R :
        /\ todo' \in [Cpus -> Seq(Steps)] /\ Lined' /\ Moved(c, "await", {}, R)
  BY <1>1, Done DEF Await
<1>3. UNCHANGED <<board, cpuVars, state, rq, waitVars, timerVars, objVars>>
  BY DEF Await
<1>4. QuietLeft
  <2>1. \A a, y : S(a, y) \in {} => a \in {"await", "first", "dispatch"}
    BY StepsDiffer
  <2> QED
    BY <1>2, <2>1, QuietMove DEF KeptOps
<1>5. QueueingFits' /\ WakingFits' /\ TimingFits' /\ Hosting' /\ Placed' /\ Waits(Eps)' /\ Receivers' /\ Timers'
  BY <1>3, <1>4, QuietKeeps DEF cpuVars, waitVars, timerVars, objVars
<1>6. Typed'
  BY <1>2, <1>3 DEF SmpInv, Typed, cpuVars, waitVars, timerVars, objVars
<1>7. Booting'
  BY <1>2, <1>3, StepsDiffer DEF SmpInv, Booting, Booted, Moved, Has, BootOps, cpuVars
<1>8. AllStarted'
  <2>1. Cpu0 \in Cpus
    BY SmpAssumption
  <2>2. ASSUME board.handshake, NEW d \in Cpus \ {Cpu0}
        PROVE  d \in ready' \/ S("release", d) \in Left(Cpu0)' \/ S("await", d) \in Left(Cpu0)'
    BY <1>2, <1>3, <2>1, <2>2, StepsDiffer DEF SmpInv, AllStarted, Moved, cpuVars, Await
  <2>3. Has(Cpu0, "first")' => Has(Cpu0, "first")
    BY <1>2, <2>1, StepsDiffer DEF Moved, Has
  <2> QED
    BY <1>3, <2>2, <2>3 DEF SmpInv, AllStarted, cpuVars
<1>9. Notified'
  BY <1>3 DEF SmpInv, Notified, cpuVars
<1>10. Noticed'
  <2>1. \A d \in Cpus : Leaving(d) => Leaving(d)'
    BY <1>2, StepsDiffer DEF Moved, Leaving, Has
  <2>2. \A d \in Cpus, u \in Threads : Told(d, u) => Told(d, u)'
    BY <1>2, <1>3, StepsDiffer DEF Moved, Told, cpuVars
  <2> QED
    BY <1>3, <1>4, <2>1, <2>2, QuietNoticed DEF cpuVars
<1> QED
  BY <1>2, <1>5, <1>6, <1>7, <1>8, <1>9, <1>10 DEF SmpInv

LEMMA ParkKeeps ==
  ASSUME NEW Eps, SmpInv(Eps), NEW c \in Cpus, Park(c)
  PROVE  SmpInv(Eps)'
<1>1. Step(c, "park")
  BY DEF Park
<1>2. PICK R :
        /\ todo' \in [Cpus -> Seq(Steps)] /\ Lined' /\ Moved(c, "park", {S("first", Null)}, R)
  <2>1. S("first", Null) \in Steps /\ Then(c, <<S("first", Null)>>)
    BY StepTyped DEF OpNames, Park, Nothing
  <2> QED
    BY <1>1, <2>1, Replaced DEF LastOps
<1>3. UNCHANGED <<board, cpuVars, state, rq, waitVars, timerVars, objVars>>
  BY DEF Park
<1>4. QuietLeft
  <2>1. \A a, y : S(a, y) \in {S("first", Null)} => a \in {"await", "first", "dispatch"}
    BY StepsDiffer
  <2> QED
    BY <1>2, <2>1, QuietMove DEF KeptOps
<1>5. QueueingFits' /\ WakingFits' /\ TimingFits' /\ Hosting' /\ Placed' /\ Waits(Eps)' /\ Receivers' /\ Timers'
  BY <1>3, <1>4, QuietKeeps DEF cpuVars, waitVars, timerVars, objVars
<1>6. Typed'
  BY <1>2, <1>3 DEF SmpInv, Typed, cpuVars, waitVars, timerVars, objVars
<1>7. Booting'
  BY <1>2, <1>3, StepsDiffer DEF SmpInv, Booting, Booted, Moved, Has, BootOps, cpuVars
<1>8. AllStarted'
  <2>1. Cpu0 \in Cpus
    BY SmpAssumption
  <2>2. ASSUME board.handshake, NEW d \in Cpus \ {Cpu0}
        PROVE  d \in ready' \/ S("release", d) \in Left(Cpu0)' \/ S("await", d) \in Left(Cpu0)'
    BY <1>2, <1>3, <2>1, <2>2, StepsDiffer DEF SmpInv, AllStarted, Moved, cpuVars
  <2>3. Has(Cpu0, "first")' => Has(Cpu0, "first") \/ c = Cpu0
    BY <1>2, <2>1, StepsDiffer DEF Moved, Has
  <2>4. c # Cpu0
    BY <1>2 DEF Moved, Has, SmpInv, Booting, Booted
  <2> QED
    BY <1>3, <2>2, <2>3, <2>4 DEF SmpInv, AllStarted, cpuVars
<1>9. Notified'
  BY <1>3 DEF SmpInv, Notified, cpuVars
<1>10. Noticed'
  <2>1. \A d \in Cpus : Leaving(d) => Leaving(d)'
    BY <1>2, StepsDiffer DEF Moved, Leaving, Has
  <2>2. \A d \in Cpus, u \in Threads : Told(d, u) => Told(d, u)'
    BY <1>2, <1>3, StepsDiffer DEF Moved, Told, cpuVars
  <2> QED
    BY <1>3, <1>4, <2>1, <2>2, QuietNoticed DEF cpuVars
<1> QED
  BY <1>2, <1>5, <1>6, <1>7, <1>8, <1>9, <1>10 DEF SmpInv

LEMMA OnlineKeeps ==
  ASSUME NEW Eps, SmpInv(Eps), NEW c \in Cpus, Online(c)
  PROVE  SmpInv(Eps)'
<1>1. Step(c, "online")
  BY DEF Online
<1>2. PICK R :
        /\ todo' \in [Cpus -> Seq(Steps)] /\ Lined' /\ Moved(c, "online", {}, R)
  BY <1>1, Done DEF Online
<1>3. UNCHANGED <<board, released, ready, current, needs, deferred, ipi, state, rq, waitVars, timerVars, objVars>>
  BY DEF Online
<1>4. QuietLeft
  <2>1. \A a, y : S(a, y) \in {} => a \in {"await", "first", "dispatch"}
    BY StepsDiffer
  <2> QED
    BY <1>2, <2>1, QuietMove DEF KeptOps
<1>5. QueueingFits' /\ WakingFits' /\ TimingFits' /\ Hosting' /\ Placed' /\ Waits(Eps)' /\ Receivers' /\ Timers'
  BY <1>3, <1>4, QuietKeeps DEF cpuVars, waitVars, timerVars, objVars
<1>6. Typed'
  BY <1>2, <1>3 DEF SmpInv, Typed, waitVars, timerVars, objVars, Online
<1>7. Booting'
  BY <1>2, <1>3, StepsDiffer DEF SmpInv, Booting, Booted, Moved, Has, BootOps, Online
<1>8. AllStarted'
  <2>1. Cpu0 \in Cpus
    BY SmpAssumption
  <2>2. ASSUME board.handshake, NEW d \in Cpus \ {Cpu0}
        PROVE  d \in ready' \/ S("release", d) \in Left(Cpu0)' \/ S("await", d) \in Left(Cpu0)'
    BY <1>2, <1>3, <2>1, <2>2, StepsDiffer DEF SmpInv, AllStarted, Moved, cpuVars
  <2>3. Has(Cpu0, "first")' => Has(Cpu0, "first")
    BY <1>2, <2>1, StepsDiffer DEF Moved, Has
  <2> QED
    BY <1>3, <2>2, <2>3 DEF SmpInv, AllStarted, Online
<1>9. Notified'
  BY <1>3 DEF SmpInv, Notified, Online
<1>10. Noticed'
  <2>1. \A d \in Cpus : Leaving(d) => Leaving(d)'
    BY <1>2, StepsDiffer DEF Moved, Leaving, Has
  <2>2. \A d \in Cpus, u \in Threads : Told(d, u) => Told(d, u)'
    BY <1>2, <1>3, StepsDiffer DEF Moved, Told, cpuVars
  <2> QED
    BY <1>3, <1>4, <2>1, <2>2, QuietNoticed DEF cpuVars
<1> QED
  BY <1>2, <1>5, <1>6, <1>7, <1>8, <1>9, <1>10 DEF SmpInv

LEMMA ReadyKeeps ==
  ASSUME NEW Eps, SmpInv(Eps), NEW c \in Cpus, Ready(c)
  PROVE  SmpInv(Eps)'
<1>1. Step(c, "ready")
  BY DEF Ready
<1>2. PICK R :
        /\ todo' \in [Cpus -> Seq(Steps)] /\ Lined' /\ Moved(c, "ready", {}, R)
  BY <1>1, Done DEF Ready
<1>3. UNCHANGED <<board, released, online, current, needs, deferred, ipi, state, rq, waitVars, timerVars, objVars>>
  BY DEF Ready
<1>4. QuietLeft
  <2>1. \A a, y : S(a, y) \in {} => a \in {"await", "first", "dispatch"}
    BY StepsDiffer
  <2> QED
    BY <1>2, <2>1, QuietMove DEF KeptOps
<1>5. QueueingFits' /\ WakingFits' /\ TimingFits' /\ Hosting' /\ Placed' /\ Waits(Eps)' /\ Receivers' /\ Timers'
  BY <1>3, <1>4, QuietKeeps DEF cpuVars, waitVars, timerVars, objVars
<1>6. Typed'
  BY <1>2, <1>3 DEF SmpInv, Typed, waitVars, timerVars, objVars, Ready
<1>7. Booting'
  BY <1>2, <1>3, StepsDiffer DEF SmpInv, Booting, Booted, Moved, Has, BootOps, cpuVars
<1>8. AllStarted'
  <2>1. Cpu0 \in Cpus
    BY SmpAssumption
  <2>2. ASSUME board.handshake, NEW d \in Cpus \ {Cpu0}
        PROVE  d \in ready' \/ S("release", d) \in Left(Cpu0)' \/ S("await", d) \in Left(Cpu0)'
    BY <1>2, <1>3, <2>1, <2>2, StepsDiffer DEF SmpInv, AllStarted, Moved, Ready
  <2>3. Has(Cpu0, "first")' => Has(Cpu0, "first")
    BY <1>2, <2>1, StepsDiffer DEF Moved, Has
  <2>4. c \in online
    <3>1. S("ready", Arg(c)) \in Left(c) /\ \A x : S("online", x) \notin Left(c)
      BY <1>2, StepsDiffer DEF Moved, LastOps
    <3> QED
      BY <3>1 DEF SmpInv, Booting, Booted, Has
  <2> QED
    BY <1>3, <2>2, <2>3, <2>4 DEF SmpInv, AllStarted, Ready
<1>9. Notified'
  BY <1>3 DEF SmpInv, Notified, cpuVars
<1>10. Noticed'
  <2>1. \A d \in Cpus : Leaving(d) => Leaving(d)'
    BY <1>2, StepsDiffer DEF Moved, Leaving, Has
  <2>2. \A d \in Cpus, u \in Threads : Told(d, u) => Told(d, u)'
    BY <1>2, <1>3, StepsDiffer DEF Moved, Told, cpuVars
  <2> QED
    BY <1>3, <1>4, <2>1, <2>2, QuietNoticed DEF cpuVars
<1> QED
  BY <1>2, <1>5, <1>6, <1>7, <1>8, <1>9, <1>10 DEF SmpInv

LEMMA StepReschedKeeps ==
  ASSUME NEW Eps, SmpInv(Eps), NEW c \in Cpus, StepResched(c)
  PROVE  SmpInv(Eps)'
<1>1. Step(c, "resched")
  BY DEF StepResched
<1>2. PICK R :
        /\ todo' \in [Cpus -> Seq(Steps)] /\ Lined' /\ Moved(c, "resched", {}, R)
  BY <1>1, Done DEF StepResched
<1>3. UNCHANGED <<board, released, ready, online, current, deferred, ipi, state, rq, waitVars, timerVars, objVars>>
  BY DEF StepResched
<1>4. QuietLeft
  <2>1. \A a, y : S(a, y) \in {} => a \in {"await", "first", "dispatch"}
    BY StepsDiffer
  <2> QED
    BY <1>2, <2>1, QuietMove DEF KeptOps
<1>5. QueueingFits' /\ WakingFits' /\ TimingFits' /\ Hosting' /\ Placed' /\ Waits(Eps)' /\ Receivers' /\ Timers'
  BY <1>3, <1>4, QuietKeeps DEF cpuVars, waitVars, timerVars, objVars
<1>6. Typed'
  BY <1>2, <1>3 DEF SmpInv, Typed, waitVars, timerVars, objVars, StepResched
<1>7. Booting'
  BY <1>2, <1>3, StepsDiffer DEF SmpInv, Booting, Booted, Moved, Has, BootOps, cpuVars
<1>8. AllStarted'
  <2>1. Cpu0 \in Cpus
    BY SmpAssumption
  <2>2. ASSUME board.handshake, NEW d \in Cpus \ {Cpu0}
        PROVE  d \in ready' \/ S("release", d) \in Left(Cpu0)' \/ S("await", d) \in Left(Cpu0)'
    BY <1>2, <1>3, <2>1, <2>2, StepsDiffer DEF SmpInv, AllStarted, Moved, cpuVars
  <2>3. Has(Cpu0, "first")' => Has(Cpu0, "first")
    BY <1>2, <2>1, StepsDiffer DEF Moved, Has
  <2> QED
    BY <1>3, <2>2, <2>3 DEF SmpInv, AllStarted, cpuVars
<1>9. Notified'
  BY <1>3 DEF SmpInv, Notified, cpuVars
<1>10. Noticed'
  <2>1. \A d \in Cpus : Leaving(d) => Leaving(d)'
    BY <1>2, StepsDiffer DEF Moved, Leaving, Has
  <2>2. \A d \in Cpus, u \in Threads : Told(d, u) => Told(d, u)'
    BY <1>2, <1>3, StepsDiffer DEF Moved, Told, cpuVars
  <2> QED
    BY <1>3, <1>4, <2>1, <2>2, QuietNoticed DEF cpuVars
<1> QED
  BY <1>2, <1>5, <1>6, <1>7, <1>8, <1>9, <1>10 DEF SmpInv

LEMMA StepKickKeeps ==
  ASSUME NEW Eps, SmpInv(Eps), NEW c \in Cpus, StepKick(c)
  PROVE  SmpInv(Eps)'
<1>1. Step(c, "kick")
  BY DEF StepKick
<1>2. PICK R :
        /\ todo' \in [Cpus -> Seq(Steps)] /\ Lined' /\ Moved(c, "kick", {}, R)
  BY <1>1, Done DEF StepKick
<1>3. UNCHANGED <<board, released, ready, online, current, needs, state, rq, waitVars, timerVars, objVars>>
  BY DEF StepKick
<1>4. QuietLeft
  <2>1. \A a, y : S(a, y) \in {} => a \in {"await", "first", "dispatch"}
    BY StepsDiffer
  <2> QED
    BY <1>2, <2>1, QuietMove DEF KeptOps
<1>5. QueueingFits' /\ WakingFits' /\ TimingFits' /\ Hosting' /\ Placed' /\ Waits(Eps)' /\ Receivers' /\ Timers'
  BY <1>3, <1>4, QuietKeeps DEF cpuVars, waitVars, timerVars, objVars
<1>6. Typed'
  BY <1>2, <1>3 DEF SmpInv, Typed, waitVars, timerVars, objVars, StepKick
<1>7. Booting'
  BY <1>2, <1>3, StepsDiffer DEF SmpInv, Booting, Booted, Moved, Has, BootOps, cpuVars
<1>8. AllStarted'
  <2>1. Cpu0 \in Cpus
    BY SmpAssumption
  <2>2. ASSUME board.handshake, NEW d \in Cpus \ {Cpu0}
        PROVE  d \in ready' \/ S("release", d) \in Left(Cpu0)' \/ S("await", d) \in Left(Cpu0)'
    BY <1>2, <1>3, <2>1, <2>2, StepsDiffer DEF SmpInv, AllStarted, Moved, cpuVars
  <2>3. Has(Cpu0, "first")' => Has(Cpu0, "first")
    BY <1>2, <2>1, StepsDiffer DEF Moved, Has
  <2> QED
    BY <1>3, <2>2, <2>3 DEF SmpInv, AllStarted, cpuVars
<1>9. Notified'
  <2>1. deferred \in [Cpus -> SUBSET Cpus]
    BY DEF SmpInv, Typed
  <2> QED
    BY <1>3, <2>1 DEF SmpInv, Notified, StepKick
<1>10. Noticed'
  <2>1. \A d \in Cpus : Leaving(d) => Leaving(d)'
    BY <1>2, StepsDiffer DEF Moved, Leaving, Has
  <2>2. \A d \in Cpus, u \in Threads : Told(d, u) => Told(d, u)'
    <3>1. deferred \in [Cpus -> SUBSET Cpus] /\ ipi' = ipi \cup deferred[c]
          /\ deferred' = [deferred EXCEPT ![c] = {}]
      BY DEF SmpInv, Typed, StepKick
    <3> QED
      BY <1>2, <1>3, <3>1, StepsDiffer DEF Moved, Told
  <2> QED
    BY <1>3, <1>4, <2>1, <2>2, QuietNoticed DEF cpuVars
<1> QED
  BY <1>2, <1>5, <1>6, <1>7, <1>8, <1>9, <1>10 DEF SmpInv

LEMMA StepSampleKeeps ==
  ASSUME NEW Eps, SmpInv(Eps), NEW c \in Cpus, StepSample(c)
  PROVE  SmpInv(Eps)'
<1>1. Step(c, "sample")
  BY DEF StepSample
<1>2. PICK R :
        /\ todo' \in [Cpus -> Seq(Steps)] /\ Lined' /\ Moved(c, "sample", {S("dispatch", needs[c])}, R)
  <2>1. S("dispatch", needs[c]) \in Steps /\ Then(c, <<S("dispatch", needs[c])>>)
    BY StepTyped DEF SmpInv, Typed, StepSample
  <2> QED
    BY <1>1, <2>1, Replaced DEF LastOps
<1>3. UNCHANGED <<board, cpuVars, state, rq, waitVars, timerVars, objVars>>
  BY DEF StepSample
<1>4. QuietLeft
  <2>1. \A a, y : S(a, y) \in {S("dispatch", needs[c])} => a \in {"await", "first", "dispatch"}
    BY StepsDiffer
  <2> QED
    BY <1>2, <2>1, QuietMove DEF KeptOps
<1>5. QueueingFits' /\ WakingFits' /\ TimingFits' /\ Hosting' /\ Placed' /\ Waits(Eps)' /\ Receivers' /\ Timers'
  BY <1>3, <1>4, QuietKeeps DEF cpuVars, waitVars, timerVars, objVars
<1>6. Typed'
  BY <1>2, <1>3 DEF SmpInv, Typed, cpuVars, waitVars, timerVars, objVars
<1>7. Booting'
  BY <1>2, <1>3, StepsDiffer DEF SmpInv, Booting, Booted, Moved, Has, BootOps, cpuVars
<1>8. AllStarted'
  <2>1. Cpu0 \in Cpus
    BY SmpAssumption
  <2>2. ASSUME board.handshake, NEW d \in Cpus \ {Cpu0}
        PROVE  d \in ready' \/ S("release", d) \in Left(Cpu0)' \/ S("await", d) \in Left(Cpu0)'
    BY <1>2, <1>3, <2>1, <2>2, StepsDiffer DEF SmpInv, AllStarted, Moved, cpuVars
  <2>3. Has(Cpu0, "first")' => Has(Cpu0, "first")
    BY <1>2, <2>1, StepsDiffer DEF Moved, Has
  <2> QED
    BY <1>3, <2>2, <2>3 DEF SmpInv, AllStarted, cpuVars
<1>9. Notified'
  BY <1>3 DEF SmpInv, Notified, cpuVars
<1>10. Noticed'
  <2>1. \A d \in Cpus : Leaving(d) => Leaving(d)'
    BY <1>2, StepsDiffer DEF Moved, Leaving, Has
  <2>2. \A d \in Cpus, u \in Threads : Told(d, u) => Told(d, u)'
    BY <1>2, <1>3, StepsDiffer DEF Moved, Told, cpuVars
  <2> QED
    BY <1>3, <1>4, <2>1, <2>2, QuietNoticed DEF cpuVars
<1> QED
  BY <1>2, <1>5, <1>6, <1>7, <1>8, <1>9, <1>10 DEF SmpInv

LEMMA StepStayKeeps ==
  ASSUME NEW Eps, SmpInv(Eps), NEW c \in Cpus, StepStay(c)
  PROVE  SmpInv(Eps)'
<1>1. Step(c, "dispatch")
  BY DEF StepStay
<1>2. PICK R :
        /\ todo' \in [Cpus -> Seq(Steps)] /\ Lined' /\ Moved(c, "dispatch", {}, R)
  BY <1>1, Done DEF StepStay
<1>3. UNCHANGED <<board, released, ready, online, current, deferred, ipi, state, rq, waitVars, timerVars, objVars>>
  BY DEF StepStay
<1>4. QuietLeft
  <2>1. OnCpu(c)
    BY DEF StepStay
  <2> QED
    BY <1>2, <2>1, QuietMove DEF KeptOps
<1>5. QueueingFits' /\ WakingFits' /\ TimingFits' /\ Hosting' /\ Placed' /\ Waits(Eps)' /\ Receivers' /\ Timers'
  BY <1>3, <1>4, QuietKeeps DEF cpuVars, waitVars, timerVars, objVars
<1>6. Typed'
  BY <1>2, <1>3 DEF SmpInv, Typed, waitVars, timerVars, objVars, StepStay
<1>7. Booting'
  BY <1>2, <1>3, StepsDiffer DEF SmpInv, Booting, Booted, Moved, Has, BootOps, cpuVars
<1>8. AllStarted'
  <2>1. Cpu0 \in Cpus
    BY SmpAssumption
  <2>2. ASSUME board.handshake, NEW d \in Cpus \ {Cpu0}
        PROVE  d \in ready' \/ S("release", d) \in Left(Cpu0)' \/ S("await", d) \in Left(Cpu0)'
    BY <1>2, <1>3, <2>1, <2>2, StepsDiffer DEF SmpInv, AllStarted, Moved, cpuVars
  <2>3. Has(Cpu0, "first")' => Has(Cpu0, "first")
    BY <1>2, <2>1, StepsDiffer DEF Moved, Has
  <2> QED
    BY <1>3, <2>2, <2>3 DEF SmpInv, AllStarted, cpuVars
<1>9. Notified'
  BY <1>3 DEF SmpInv, Notified, cpuVars
<1>10. Noticed'
  <2>1. OnCpu(c) /\ ~Urgent(c) /\ Left(c)' = {} /\ \A d \in Cpus \ {c} : Left(d)' = Left(d)
    BY <1>2 DEF StepStay, Moved, LastOps
  <2>2. \A d \in Cpus \ {c} : \A x : Bound(d, x)' <=> Bound(d, x)
    BY <1>3, <2>1 DEF Bound, Leaving, Has
  <2>3. \A x : Bound(c, x)' => x = current[c]
    BY <1>3, <2>1 DEF Bound
  <2>4. \A d \in Cpus : \A u : Told(d, u) => Told(d, u)'
    BY <1>2, <1>3, StepsDiffer DEF Moved, Told
  <2> QED
    BY <1>3, <2>1, <2>2, <2>3, <2>4 DEF SmpInv, Noticed, Urgent, Queued
<1> QED
  BY <1>2, <1>5, <1>6, <1>7, <1>8, <1>9, <1>10 DEF SmpInv

LEMMA StepMarkKeeps ==
  ASSUME NEW Eps, SmpInv(Eps), NEW c \in Cpus, StepMark(c)
  PROVE  SmpInv(Eps)'
<1>1. Step(c, "mark")
  BY DEF StepMark
<1>2. PICK R :
        /\ todo' \in [Cpus -> Seq(Steps)] /\ Lined' /\ Moved(c, "mark", {}, R)
  BY <1>1, Done DEF StepMark
<1>3. UNCHANGED <<board, released, ready, online, current, ipi, state, rq, waitVars, timerVars, objVars>>
  BY DEF StepMark
<1>4. QuietLeft
  <2>1. \A a, y : S(a, y) \in {} => a \in {"await", "first", "dispatch"}
    BY StepsDiffer
  <2> QED
    BY <1>2, <2>1, QuietMove DEF KeptOps
<1>5. QueueingFits' /\ WakingFits' /\ TimingFits' /\ Hosting' /\ Placed' /\ Waits(Eps)' /\ Receivers' /\ Timers'
  BY <1>3, <1>4, QuietKeeps DEF cpuVars, waitVars, timerVars, objVars
<1>6. Typed'
  <2>1. needs \in [Cpus -> BOOLEAN] /\ deferred \in [Cpus -> SUBSET Cpus] /\ CpuOf[Arg(c)] \in Cpus
    BY <1>2, SmpAssumption DEF Moved, SmpInv, WakingFits, MarkFits, Typed
  <2> QED
    BY <1>2, <1>3, <2>1 DEF SmpInv, Typed, waitVars, timerVars, objVars, StepMark, Marked
<1>7. Booting'
  BY <1>2, <1>3, StepsDiffer DEF SmpInv, Booting, Booted, Moved, Has, BootOps, cpuVars
<1>8. AllStarted'
  <2>1. Cpu0 \in Cpus
    BY SmpAssumption
  <2>2. ASSUME board.handshake, NEW d \in Cpus \ {Cpu0}
        PROVE  d \in ready' \/ S("release", d) \in Left(Cpu0)' \/ S("await", d) \in Left(Cpu0)'
    BY <1>2, <1>3, <2>1, <2>2, StepsDiffer DEF SmpInv, AllStarted, Moved, cpuVars
  <2>3. Has(Cpu0, "first")' => Has(Cpu0, "first")
    BY <1>2, <2>1, StepsDiffer DEF Moved, Has
  <2> QED
    BY <1>3, <2>2, <2>3 DEF SmpInv, AllStarted, cpuVars
<1>9. Notified'
  <2>1. deferred \in [Cpus -> SUBSET Cpus]
    BY DEF SmpInv, Typed
  <2> QED
    BY <1>3, <2>1 DEF SmpInv, Notified, StepMark, Marked
<1>10. Noticed'
  <2>1. PICK a : a = Arg(c)
    OBVIOUS
  <2>2. S("mark", a) \in Left(c) /\ a \in Threads /\ state[a] # "NEW" /\ Has(c, "sample") /\ CpuOf[a] \in Cpus
    BY <1>2, <2>1, SmpAssumption DEF Moved, SmpInv, WakingFits, MarkFits
  <2>3. SUFFICES ASSUME board.handshake
                 PROVE  Noticed'
    BY <1>3 DEF Noticed
  <2>4. CpuOf[a] \in online
    <3>1. CASE Has(Cpu0, "first")
      <4>1. a = Root
        BY <2>2, <3>1 DEF SmpInv, AllStarted
      <4> QED
        BY <4>1, SmpAssumption DEF SmpInv, AllStarted
    <3>2. CASE ~Has(Cpu0, "first")
      <4>1. Cpu0 \in Cpus /\ ~Has(Cpu0, "release") /\ ~Has(Cpu0, "await")
        BY <3>2, SmpAssumption DEF SmpInv, Booting, Booted
      <4> QED
        BY <2>2, <2>3, <4>1 DEF SmpInv, AllStarted, Has
    <3> QED
      BY <3>1, <3>2
  <2>5. deferred \in [Cpus -> SUBSET Cpus]
        /\ (CpuOf[a] # c => deferred' = [deferred EXCEPT ![c] = @ \cup {CpuOf[a]}])
        /\ (CpuOf[a] = c => deferred' = deferred)
    BY <2>1, <2>4 DEF StepMark, Marked, SmpInv, Typed
  <2>6. \A d \in Cpus, u \in Threads : Told(d, u) => Told(d, u)' \/ u = a
    <3>1. \A d \in Cpus : deferred[d] \subseteq deferred'[d]
      BY <2>5
    <3> QED
      BY <1>2, <1>3, <2>1, <3>1, StepsDiffer DEF Moved, Told
  <2>7. CpuOf[a] # c => Told(CpuOf[a], a)'
    BY <2>5 DEF Told
  <2>8. \A d \in Cpus : \A x : Bound(d, x)' => Bound(d, x)
    <3>1. \A d \in Cpus : Leaving(d) => Leaving(d)'
      BY <1>2, StepsDiffer DEF Moved, Leaving, Has
    <3>2. \A d \in Cpus : Has(d, "publish") => Has(d, "publish")'
      BY <1>4 DEF QuietLeft, Has, KeptOps
    <3> QED
      BY <1>3, <1>4, <3>1, <3>2 DEF QuietLeft, Bound, KeptOps
  <2>9. \A x : ~Bound(c, x)
    <3>1. \A x : S("switch", x) \notin Left(c)
      BY <2>2, LeftShape DEF Has, SmpInv, LastOps
    <3>2. \A x : S("publish", x) \notin Left(c)
      BY <2>2 DEF Has, SmpInv, Booting, Booted
    <3> QED
      BY <2>2, <3>1, <3>2 DEF Bound, Leaving
  <2>10. rq \subseteq Threads
    BY DEF SmpInv, Typed
  <2> QED
    BY <1>3, <2>3, <2>6, <2>7, <2>8, <2>9, <2>10 DEF SmpInv, Noticed, Queued
<1> QED
  BY <1>2, <1>5, <1>6, <1>7, <1>8, <1>9, <1>10 DEF SmpInv

LEMMA StepDequeueKeeps ==
  ASSUME NEW Eps, SmpInv(Eps), NEW c \in Cpus, StepDequeue(c)
  PROVE  SmpInv(Eps)'
<1>1. Step(c, "dequeue")
  BY DEF StepDequeue
<1>2. PICK R :
        /\ todo' \in [Cpus -> Seq(Steps)] /\ Lined' /\ Moved(c, "dequeue", {}, R)
  BY <1>1, Done DEF StepDequeue
<1>3. UNCHANGED <<board, cpuVars, state, rq, waitVars, timerVars, objVars>>
  <2>1. S("dequeue", Arg(c)) \in Left(c)
    BY <1>2 DEF Moved
  <2>2. Arg(c) \notin rq
    BY <2>1 DEF SmpInv, WakingFits, DequeueFits, Waits, Placed
  <2> QED
    BY <2>2 DEF StepDequeue
<1>4. QuietLeft
  <2>1. \A a, y : S(a, y) \in {} => a \in {"await", "first", "dispatch"}
    BY StepsDiffer
  <2> QED
    BY <1>2, <2>1, QuietMove DEF KeptOps
<1>5. QueueingFits' /\ WakingFits' /\ TimingFits' /\ Hosting' /\ Placed' /\ Waits(Eps)' /\ Receivers' /\ Timers'
  BY <1>3, <1>4, QuietKeeps DEF cpuVars, waitVars, timerVars, objVars
<1>6. Typed'
  BY <1>2, <1>3 DEF SmpInv, Typed, cpuVars, waitVars, timerVars, objVars
<1>7. Booting'
  BY <1>2, <1>3, StepsDiffer DEF SmpInv, Booting, Booted, Moved, Has, BootOps, cpuVars
<1>8. AllStarted'
  <2>1. Cpu0 \in Cpus
    BY SmpAssumption
  <2>2. ASSUME board.handshake, NEW d \in Cpus \ {Cpu0}
        PROVE  d \in ready' \/ S("release", d) \in Left(Cpu0)' \/ S("await", d) \in Left(Cpu0)'
    BY <1>2, <1>3, <2>1, <2>2, StepsDiffer DEF SmpInv, AllStarted, Moved, cpuVars
  <2>3. Has(Cpu0, "first")' => Has(Cpu0, "first")
    BY <1>2, <2>1, StepsDiffer DEF Moved, Has
  <2> QED
    BY <1>3, <2>2, <2>3 DEF SmpInv, AllStarted, cpuVars
<1>9. Notified'
  BY <1>3 DEF SmpInv, Notified, cpuVars
<1>10. Noticed'
  <2>1. \A d \in Cpus : Leaving(d) => Leaving(d)'
    BY <1>2, StepsDiffer DEF Moved, Leaving, Has
  <2>2. \A d \in Cpus, u \in Threads : Told(d, u) => Told(d, u)'
    BY <1>2, <1>3, StepsDiffer DEF Moved, Told, cpuVars
  <2> QED
    BY <1>3, <1>4, <2>1, <2>2, QuietNoticed DEF cpuVars
<1> QED
  BY <1>2, <1>5, <1>6, <1>7, <1>8, <1>9, <1>10 DEF SmpInv

-----------------------------------------------------------------------------
(* Steps that move threads between queues and CPUs.                         *)
LEMMA PopSeq ==
  ASSUME NEW Eps, SmpInv(Eps), NEW c \in Cpus, NEW op, Step(c, op),
         NEW p \in Seq(Steps), Ordered(p), Then(c, p),
         \A e \in Elems(p) : e.op \in LastOps => op \in LastOps,
         \A e \in Elems(p) : e.op \in {"mark", "expire"} => op \in {"mark", "expire", "enqueue"}
  PROVE  /\ todo' \in [Cpus -> Seq(Steps)] /\ Lined' /\ S(op, Arg(c)) \in Steps
         /\ \E R : Moved(c, op, Elems(p), R)
<1>1. Typed /\ Lined
  BY DEF SmpInv
<1>2. /\ todo' \in [Cpus -> Seq(Steps)] /\ Lined' /\ S(op, Arg(c)) \in Steps
      /\ \A d \in Cpus \ {c} : Left(d)' = Left(d)
      /\ \E R : /\ Left(c) = {S(op, Arg(c))} \cup R /\ Left(c)' = Elems(p) \cup R
                /\ op \in LastOps => R = {}
                /\ \A a, x : S(a, x) \in R => /\ a \notin FirstOps
                                              /\ op \in {"mark", "expire", "enqueue"} => a # "enqueue"
                /\ op = "enqueue" => S("mark", Arg(c)) \in R
  BY <1>1, PopLeft
<1> QED
  BY <1>2, Zenon DEF Moved

(* Facts about constants and places that every step uses.                   *)
LEMMA Places ==
  ASSUME NEW t \in Threads
  PROVE  /\ CpuOf[t] \in Cpus /\ WheelOf(t) \in Cpus /\ Cpu0 \in Cpus
         /\ t # Idle /\ t # Null /\ Idle # Null
         /\ Prio[t] \in 0 .. 254 /\ Urgency(t) = Prio[t] /\ Urgency(Idle) = 255
  BY SmpAssumption DEF WheelOf, Urgency

(* What the other CPUs have left does not change.                           *)
LEMMA Elsewhere ==
  ASSUME NEW d, Left(d)' = Left(d)
  PROVE  /\ \A a : Has(d, a)' <=> Has(d, a)
         /\ Leaving(d)' <=> Leaving(d)
  BY DEF Has, Leaving

LEMMA Top ==
  ASSUME NEW Q \in SUBSET Threads, NEW c \in Cpus, NEW t \in Tops(Q, c)
  PROVE  /\ t = Idle \/ (t \in Q /\ CpuOf[t] = c)
         /\ \A u \in Q : CpuOf[u] = c => ~(Prio[u] < Urgency(t))
<1>1. CASE Queued(Q, c) = {}
  BY <1>1 DEF Tops, Queued
<1>2. CASE Queued(Q, c) # {}
  <2>1. t \in Q /\ CpuOf[t] = c /\ \A u \in Queued(Q, c) : Prio[t] <= Prio[u]
    BY <1>2 DEF Tops, Queued
  <2>2. Urgency(t) = Prio[t] /\ Prio[t] \in 0 .. 254 /\ \A u \in Q : Prio[u] \in 0 .. 254
    BY <2>1, Places
  <2>3. ASSUME NEW u \in Q, CpuOf[u] = c
        PROVE  ~(Prio[u] < Urgency(t))
    <3>1. Prio[t] <= Prio[u]
      BY <2>1, <2>3 DEF Queued
    <3>2. PICK m \in 0 .. 254, n \in 0 .. 254 : m = Prio[t] /\ n = Prio[u]
      BY <2>2
    <3> QED
      BY <2>2, <3>1, <3>2
  <2> QED
    BY <2>1, <2>3
<1> QED
  BY <1>1, <1>2

(* No step of a handler leaves an enqueue that does not fit.                *)
LEMMA EnqueuesKept ==
  ASSUME NEW Eps, SmpInv(Eps),
         \A d \in Cpus : \A x : S("enqueue", x) \in Left(d)' =>
           S("enqueue", x) \in Left(d) /\ state'[x] = "READY" /\ x \notin rq',
         \A d \in Cpus, a \in {"switch", "publish"} : \A x : S(a, x) \in Left(d)' =>
           S(a, x) \in Left(d) \/ x = Idle \/ x \in rq \/ state[x] # "READY"
  PROVE  \A d \in Cpus : EnqueueFits(d)'
<1>1. ASSUME NEW d \in Cpus, NEW x, S("enqueue", x) \in Left(d)'
      PROVE  /\ x \in Threads /\ state'[x] = "READY" /\ x \notin rq'
             /\ S("switch", x) \notin Left(CpuOf[x])' /\ S("publish", x) \notin Left(CpuOf[x])'
             /\ \A e \in Cpus \ {d} : S("enqueue", x) \notin Left(e)'
  <2>1. S("enqueue", x) \in Left(d) /\ state'[x] = "READY" /\ x \notin rq'
    BY <1>1
  <2>2. /\ x \in Threads /\ state[x] = "READY" /\ x \notin rq
        /\ S("switch", x) \notin Left(CpuOf[x]) /\ S("publish", x) \notin Left(CpuOf[x])
        /\ \A e \in Cpus \ {d} : S("enqueue", x) \notin Left(e)
    BY <2>1 DEF SmpInv, QueueingFits, EnqueueFits
  <2>3. CpuOf[x] \in Cpus /\ x # Idle
    BY <2>2, Places
  <2>4. S("switch", x) \notin Left(CpuOf[x])' /\ S("publish", x) \notin Left(CpuOf[x])'
    BY <2>2, <2>3
  <2>5. \A e \in Cpus \ {d} : S("enqueue", x) \notin Left(e)'
    BY <2>2
  <2> QED
    BY <2>1, <2>2, <2>4, <2>5
<1> QED
  BY <1>1 DEF EnqueueFits

LEMMA FirstKeeps ==
  ASSUME NEW Eps, SmpInv(Eps), NEW c \in Cpus, First(c)
  PROVE  SmpInv(Eps)'
<1>1. PICK t \in Tops(rq, c) :
        /\ rq' = rq \ {t}
        /\ Then(c, <<S("publish", t), Nothing("online")>> \o IF c = Cpu0 THEN <<>> ELSE <<Nothing("ready")>>)
  BY DEF First
<1>2. /\ t = Idle \/ (t \in rq /\ t \in Threads /\ CpuOf[t] = c /\ state[t] = "READY")
      /\ \A u \in rq : CpuOf[u] = c => ~(Prio[u] < Urgency(t))
      /\ rq \subseteq Threads
  BY Top DEF SmpInv, Typed, Placed
<1>3. /\ todo' \in [Cpus -> Seq(Steps)] /\ Lined'
      /\ \A d \in Cpus \ {c} : Left(d)' = Left(d)
      /\ \A a, y : S(a, y) \in Left(c) <=> a = "first" /\ y = Arg(c)
      /\ \A a, y : S(a, y) \in Left(c)' => a \in {"publish", "online", "ready"} /\ (a = "publish" => y = t)
      /\ S("publish", t) \in Left(c)' /\ S("online", Null) \in Left(c)'
  <2>1. S("publish", t) \in Steps /\ S("online", Null) \in Steps /\ S("ready", Null) \in Steps
    BY <1>2, StepTyped DEF OpNames
  <2>2. \A a, y : S(a, y).op = a
    BY DEF S
  <2>3. PICK p1 : p1 = <<S("publish", t), S("online", Null)>>
    OBVIOUS
  <2>4. PICK p2 : p2 = IF c = Cpu0 THEN <<>> ELSE <<S("ready", Null)>>
    OBVIOUS
  <2>5. p1 \in Seq(Steps) /\ Ordered(p1) /\ Elems(p1) = {S("publish", t), S("online", Null)}
    BY <2>1, <2>2, <2>3, Two DEF FirstOps, LastOps
  <2>6. p2 \in Seq(Steps) /\ Ordered(p2) /\ Elems(p2) \subseteq {S("ready", Null)}
    <3>1. CASE c = Cpu0
      BY <2>4, <3>1, Empty
    <3>2. CASE c # Cpu0
      BY <2>1, <2>2, <2>4, <3>2, One
    <3> QED
      BY <3>1, <3>2
  <2>7. p1 \o p2 \in Seq(Steps) /\ Ordered(p1 \o p2) /\ Elems(p1 \o p2) = Elems(p1) \cup Elems(p2)
    <3>1. /\ \A e \in Elems(p2) : e.op \notin FirstOps
          /\ \A e \in Elems(p1) : e.op \notin LastOps /\ e.op \notin {"mark", "expire"}
      BY <2>2, <2>5, <2>6 DEF FirstOps, LastOps
    <3> QED
      BY <2>5, <2>6, <3>1, Joined
  <2>8. Then(c, p1 \o p2) /\ Step(c, "first")
    BY <1>1, <2>3, <2>4 DEF First, Nothing
  <2>9. /\ todo' \in [Cpus -> Seq(Steps)] /\ Lined'
        /\ \E R : Moved(c, "first", Elems(p1 \o p2), R)
    <3>1. /\ \A e \in Elems(p1 \o p2) : e.op \in LastOps => "first" \in LastOps
          /\ \A e \in Elems(p1 \o p2) : e.op \in {"mark", "expire"} => "first" \in {"mark", "expire", "enqueue"}
      BY <2>2, <2>5, <2>6, <2>7 DEF LastOps
    <3> QED
      BY <2>7, <2>8, <3>1, PopSeq
  <2> QED
    BY <2>5, <2>6, <2>7, <2>9, StepsDiffer DEF Moved, LastOps
<1>4. current[c] = Null
  BY <1>3 DEF SmpInv, Booting, Booted, BootOps
<1>5. UNCHANGED <<board, cpuVars, state, waitVars, timerVars, objVars>>
  BY DEF First
<1>6. \A d \in Cpus \ {c} : (\A a : Has(d, a)' <=> Has(d, a)) /\ (Leaving(d)' <=> Leaving(d))
  BY <1>3, Elsewhere
<1>7. Typed'
  BY <1>1, <1>3, <1>5 DEF SmpInv, Typed, cpuVars, waitVars, timerVars, objVars
<1>8. Booting'
  <2>1. \A d \in Cpus \ {c} : Booted(d)'
    BY <1>3, <1>5, <1>6 DEF SmpInv, Booting, Booted, cpuVars
  <2>2. Booted(c)'
    BY <1>3, <1>4, <1>5 DEF Booted, BootOps, Has, cpuVars
  <2> QED
    BY <2>1, <2>2 DEF Booting
<1>9. AllStarted'
  <2>1. CASE c = Cpu0
    BY <1>3, <1>5, <2>1 DEF SmpInv, AllStarted, Has, cpuVars
  <2>2. CASE c # Cpu0
    BY <1>3, <1>5, <1>6, <2>2, SmpAssumption DEF SmpInv, AllStarted, cpuVars
  <2> QED
    BY <2>1, <2>2
<1>10. Notified'
  BY <1>5 DEF SmpInv, Notified, cpuVars
<1>11. QueueingFits'
  <2>1. \A d \in Cpus : EnqueueFits(d)'
    <3>1. ASSUME NEW d \in Cpus, NEW x, S("enqueue", x) \in Left(d)'
          PROVE  S("enqueue", x) \in Left(d) /\ state'[x] = "READY" /\ x \notin rq'
      <4>1. S("enqueue", x) \in Left(d)
        BY <1>3, <3>1
      <4> QED
        BY <1>1, <1>5, <4>1 DEF SmpInv, QueueingFits, EnqueueFits
    <3>2. ASSUME NEW d \in Cpus, NEW a \in {"switch", "publish"}, NEW x, S(a, x) \in Left(d)'
          PROVE  S(a, x) \in Left(d) \/ x = Idle \/ x \in rq
      BY <1>2, <1>3, <3>2
    <3> QED
      BY <3>1, <3>2, EnqueuesKept
  <2>2. ASSUME NEW d \in Cpus PROVE PickFits(d)'
    BY <1>1, <1>2, <1>3, <1>5 DEF SmpInv, QueueingFits, PickFits
  <2>3. ASSUME NEW d \in Cpus PROVE SwitchFits(d)'
    BY <1>3, <1>5, <1>6 DEF SmpInv, QueueingFits, SwitchFits, Has, cpuVars
  <2> QED
    BY <2>1, <2>2, <2>3 DEF QueueingFits
<1>12. WakingFits'
  BY <1>3, <1>5, <1>6 DEF SmpInv, WakingFits, DequeueFits, MarkFits, waitVars
<1>13. \A u \in Threads : Arming(u)' <=> Arming(u)
  <2>1. ~Has(c, "arm") /\ ~Has(c, "arm")'
    BY <1>3 DEF Has
  <2> QED
    BY <1>5, <1>6, <2>1, Places DEF Arming, cpuVars
<1>14. TimingFits'
  BY <1>3, <1>5, <1>6, <1>13 DEF SmpInv, TimingFits, ArmFits, ExpireFits, DisarmFits, WheelOf, cpuVars, waitVars, timerVars
<1>15. Hosting'
  BY <1>4, <1>5, <1>6, SmpAssumption DEF SmpInv, Hosting, cpuVars
<1>16. Placed'
  <2>1. \A u \in Threads : Coming(u) => Coming(u)'
    BY <1>3 DEF Coming
  <2>2. t \in Threads => Coming(t)'
    BY <1>3 DEF Coming
  <2> QED
    BY <1>1, <1>2, <1>5, <2>1, <2>2 DEF SmpInv, Placed, cpuVars
<1>17. Waits(Eps)' /\ Receivers'
  BY <1>5 DEF SmpInv, Waits, Receivers, waitVars, objVars
<1>18. Timers'
  BY <1>3, <1>5, <1>13, Places DEF SmpInv, Timers, WheelOf, waitVars, timerVars
<1>19. Noticed'
  <2>1. \A d \in Cpus \ {c} : \A x : Bound(d, x)' => Bound(d, x)
    BY <1>3, <1>5, <1>6 DEF Bound, cpuVars
  <2>2. \A x : Bound(c, x)' => x = t
    BY <1>3, <1>4, <1>5 DEF Bound, cpuVars
  <2>3. \A d \in Cpus : \A u : Told(d, u) => Told(d, u)'
    BY <1>3, <1>5 DEF Told, cpuVars
  <2> QED
    BY <1>1, <1>2, <1>5, <2>1, <2>2, <2>3 DEF SmpInv, Noticed, Queued
<1> QED
  BY <1>3, <1>7, <1>8, <1>9, <1>10, <1>11, <1>12, <1>14, <1>15, <1>16, <1>17, <1>18, <1>19 DEF SmpInv

(* A CPU takes up the thread it has picked.                                 *)
LEMMA RunKeeps ==
  ASSUME NEW Eps, SmpInv(Eps), NEW c \in Cpus, NEW t, NEW op \in {"publish", "switch"},
         todo' \in [Cpus -> Seq(Steps)], Lined',
         \A d \in Cpus \ {c} : Left(d)' = Left(d),
         S(op, t) \in Left(c),
         \A a, y : S(a, y) \in Left(c) <=> (a = op /\ y = t) \/ S(a, y) \in Left(c)',
         \A a, y : S(a, y) \in Left(c)' => a \in {"online", "ready"},
         t = Idle \/ (t \in Threads /\ CpuOf[t] = c /\ state[t] = "READY" /\ t \notin rq),
         t # Null, current[c] \in Threads => state[current[c]] # "RUNNING",
         current' = [current EXCEPT ![c] = t], state' = Running(t),
         UNCHANGED <<board, released, ready, online, needs, deferred, ipi, rq, waitVars, timerVars, objVars>>
  PROVE  SmpInv(Eps)'
<1>1. \A x : S("switch", x) \notin Left(c)' /\ S("publish", x) \notin Left(c)'
  OBVIOUS
<1>2. todo' \in [Cpus -> Seq(Steps)] /\ Lined'
  OBVIOUS
<1>3. /\ \A d \in Cpus \ {c} : Left(d)' = Left(d)
      /\ S(op, t) \in Left(c) /\ op \in {"publish", "switch"}
      /\ \A a, y : S(a, y) \in Left(c) <=> (a = op /\ y = t) \/ S(a, y) \in Left(c)'
      /\ \A a, y : S(a, y) \in Left(c)' => a \in {"online", "ready"}
  OBVIOUS
<1>4. /\ t = Idle \/ (t \in Threads /\ CpuOf[t] = c /\ state[t] = "READY" /\ t \notin rq)
      /\ t # Null /\ (current[c] \in Threads => state[current[c]] # "RUNNING")
  OBVIOUS
<1>5. /\ current' = [current EXCEPT ![c] = t] /\ state' = Running(t)
      /\ UNCHANGED <<board, released, ready, online, needs, deferred, ipi, rq, waitVars, timerVars, objVars>>
  OBVIOUS
<1>6. /\ current'[c] = t /\ \A d \in Cpus \ {c} : current'[d] = current[d]
      /\ \A u \in Threads : state'[u] = IF u = t THEN "RUNNING" ELSE state[u]
  BY <1>4, <1>5, SmpAssumption DEF SmpInv, Typed, Running
<1>7. \A d \in Cpus \ {c} : (\A a : Has(d, a)' <=> Has(d, a)) /\ (Leaving(d)' <=> Leaving(d))
  BY <1>3, Elsewhere
<1>8. Typed'
  BY <1>2, <1>4, <1>5 DEF SmpInv, Typed, Running, waitVars, timerVars, objVars
<1>9. Booting'
  <2>1. \A d \in Cpus \ {c} : Booted(d)'
    BY <1>3, <1>5, <1>6, <1>7 DEF SmpInv, Booting, Booted
  <2>2. Has(c, "online") => Has(c, "online")'
    BY <1>3 DEF Has
  <2>3. Booted(c)'
    BY <1>3, <1>4, <1>5, <1>6, <2>2 DEF SmpInv, Booting, Booted, BootOps, Has
  <2> QED
    BY <2>1, <2>3 DEF Booting
<1>10. AllStarted'
  <2>1. Has(Cpu0, "first")' => Has(Cpu0, "first") /\ c # Cpu0
    BY <1>3, <1>7, SmpAssumption DEF Has
  <2>2. \A d : \A a \in {"release", "await"} : S(a, d) \in Left(Cpu0) => S(a, d) \in Left(Cpu0)'
    BY <1>3, SmpAssumption
  <2>3. ASSUME Has(Cpu0, "first")', NEW u \in Threads \ {Root} PROVE state'[u] = "NEW"
    <3>1. state[u] = "NEW"
      BY <2>1, <2>3 DEF SmpInv, AllStarted
    <3>2. u # t
      BY <1>4, <3>1, SmpAssumption
    <3> QED
      BY <1>6, <3>1, <3>2
  <2> QED
    BY <1>5, <2>2, <2>3 DEF SmpInv, AllStarted
<1>11. Notified'
  BY <1>5 DEF SmpInv, Notified
<1>12. \A u \in Threads : state[u] # "READY" => u # t
  BY <1>4, SmpAssumption
<1>13. QueueingFits'
  <2>1. \A d \in Cpus : EnqueueFits(d)'
    <3>1. ASSUME NEW d \in Cpus, NEW x, S("enqueue", x) \in Left(d)'
          PROVE  S("enqueue", x) \in Left(d) /\ state'[x] = "READY" /\ x \notin rq'
      <4>1. S("enqueue", x) \in Left(d)
        BY <1>3, <3>1
      <4>2. /\ x \in Threads /\ state[x] = "READY" /\ x \notin rq
            /\ S("switch", x) \notin Left(CpuOf[x]) /\ S("publish", x) \notin Left(CpuOf[x])
        BY <4>1 DEF SmpInv, QueueingFits, EnqueueFits
      <4>3. x # t
        BY <1>3, <1>4, <4>2, SmpAssumption
      <4> QED
        BY <1>5, <1>6, <4>1, <4>2, <4>3
    <3>2. ASSUME NEW d \in Cpus, NEW a \in {"switch", "publish"}, NEW x, S(a, x) \in Left(d)'
          PROVE  S(a, x) \in Left(d)
      BY <1>3, <3>2
    <3> QED
      BY <3>1, <3>2, EnqueuesKept
  <2>2. ASSUME NEW d \in Cpus PROVE PickFits(d)'
    <3>1. ASSUME NEW x, S("switch", x) \in Left(d)' \/ S("publish", x) \in Left(d)'
          PROVE  x = Idle \/ (x \in Threads /\ CpuOf[x] = d /\ state[x] = "READY" /\ x \notin rq /\ d # c)
      <4>1. d # c
        BY <1>1, <3>1
      <4>2. S("switch", x) \in Left(d) \/ S("publish", x) \in Left(d)
        BY <1>3, <3>1, <4>1
      <4> QED
        BY <4>1, <4>2 DEF SmpInv, QueueingFits, PickFits
    <3>2. \A x \in Threads : CpuOf[x] = d /\ d # c => x # t
      BY <1>4, SmpAssumption
    <3> QED
      BY <1>5, <1>6, <3>1, <3>2 DEF PickFits
  <2>3. ASSUME NEW d \in Cpus PROVE SwitchFits(d)'
    <3>1. Has(d, "switch")' => d # c /\ Has(d, "switch")
      BY <1>3, <1>7 DEF Has
    <3>2. d # c /\ current[d] \in Threads => current[d] # t
      BY <1>4, SmpAssumption DEF SmpInv, Hosting
    <3> QED
      BY <1>6, <3>1, <3>2 DEF SmpInv, QueueingFits, SwitchFits
  <2> QED
    BY <2>1, <2>2, <2>3 DEF QueueingFits
<1>14. WakingFits'
  <2>1. \A d \in Cpus : DequeueFits(d)'
    BY <1>3, <1>5 DEF SmpInv, WakingFits, DequeueFits, waitVars
  <2>2. \A d \in Cpus : MarkFits(d)'
    BY <1>3, <1>6, <1>7 DEF SmpInv, WakingFits, MarkFits
  <2> QED
    BY <2>1, <2>2 DEF WakingFits
<1>15. \A u \in Threads : Arming(u)' <=> Arming(u)
  <2>1. ~Has(c, "arm") /\ ~Has(c, "arm")'
    BY <1>3 DEF Has
  <2> QED
    BY <1>6, <1>7, <2>1, Places DEF Arming
<1>16. TimingFits'
  <2>1. \A d \in Cpus : ArmFits(d)'
    BY <1>3, <1>5, <1>6 DEF SmpInv, TimingFits, ArmFits, waitVars, timerVars
  <2>2. \A d \in Cpus : ExpireFits(d)'
    BY <1>3, <1>5, <1>7, <1>15 DEF SmpInv, TimingFits, ExpireFits, WheelOf, waitVars, timerVars
  <2>3. ASSUME NEW d \in Cpus PROVE DisarmFits(d)'
    <3>1. ASSUME NEW x, S("disarm", x) \in Left(d)'
          PROVE  /\ x \in Threads /\ CpuOf[x] = d /\ state[x] = "READY" /\ (x \in armed => WheelOf(x) = d)
                 /\ d # c
      BY <1>3, <3>1 DEF SmpInv, TimingFits, DisarmFits
    <3>2. \A x : S("disarm", x) \in Left(d)' => x # t
      BY <1>4, <3>1, SmpAssumption
    <3> QED
      BY <1>5, <1>6, <3>1, <3>2 DEF DisarmFits, WheelOf, timerVars
  <2> QED
    BY <2>1, <2>2, <2>3 DEF TimingFits
<1>17. Hosting'
  <2>1. \A d \in Cpus \ {c} : current[d] \in Threads => current[d] # t
    BY <1>4, SmpAssumption DEF SmpInv, Hosting
  <2>2. \A d \in Cpus \ {c} : current'[d] \in Threads =>
          CpuOf[current'[d]] = d /\ (state'[current'[d]] = "RUNNING" \/ Leaving(d)')
    BY <1>6, <1>7, <2>1 DEF SmpInv, Hosting
  <2>3. current'[c] \in Threads => CpuOf[current'[c]] = c /\ state'[current'[c]] = "RUNNING"
    BY <1>4, <1>6, SmpAssumption
  <2> QED
    BY <2>2, <2>3 DEF Hosting
<1>18. Placed'
  <2>1. \A u \in Threads : Coming(u) => Coming(u)' \/ u = t
    BY <1>3 DEF Coming
  <2>2. \A u \in Threads : CpuOf[u] = c /\ state[u] = "RUNNING" => u = t
    BY <1>4, Places DEF SmpInv, Placed
  <2>3. \A u \in Threads : u = t => CpuOf[u] = c /\ u \notin rq
    BY <1>4, SmpAssumption
  <2> QED
    BY <1>5, <1>6, <2>1, <2>2, <2>3, Places DEF SmpInv, Placed
<1>19. Waits(Eps)' /\ Receivers'
  <2>1. \A u \in Threads : state'[u] = "BLOCKED" <=> state[u] = "BLOCKED"
    BY <1>6, <1>12
  <2> QED
    BY <1>5, <2>1 DEF SmpInv, Waits, Receivers, waitVars, objVars
<1>20. Timers'
  BY <1>3, <1>5, <1>15, Places DEF SmpInv, Timers, WheelOf, waitVars, timerVars
<1>21. Noticed'
  <2>1. \A d \in Cpus \ {c} : \A x : Bound(d, x)' => Bound(d, x)
    BY <1>3, <1>6, <1>7 DEF Bound
  <2>2. \A x : Bound(c, x)' => x = t /\ Bound(c, t)
    BY <1>3, <1>6 DEF Bound
  <2>3. \A d \in Cpus : \A u : Told(d, u) => Told(d, u)'
    BY <1>3, <1>5 DEF Told
  <2> QED
    BY <1>5, <2>1, <2>2, <2>3 DEF SmpInv, Noticed, Queued
<1> QED
  BY <1>2, <1>8, <1>9, <1>10, <1>11, <1>13, <1>14, <1>16, <1>17, <1>18, <1>19, <1>20, <1>21 DEF SmpInv

LEMMA PublishKeeps ==
  ASSUME NEW Eps, SmpInv(Eps), NEW c \in Cpus, Publish(c)
  PROVE  SmpInv(Eps)'
<1>1. PICK t : t = Arg(c)
  OBVIOUS
<1>2. PICK R : todo' \in [Cpus -> Seq(Steps)] /\ Lined' /\ Moved(c, "publish", {}, R)
  BY Done DEF Publish
<1>3. /\ \A d \in Cpus \ {c} : Left(d)' = Left(d)
      /\ S("publish", t) \in Left(c)
      /\ \A a, y : S(a, y) \in Left(c) <=> (a = "publish" /\ y = t) \/ S(a, y) \in Left(c)'
      /\ \A a, y : S(a, y) \in Left(c)' => a \in {"online", "ready"}
  <2>1. S("publish", t) \in Left(c) /\ \A a, y : S(a, y) \in R => a # "publish"
    BY <1>1, <1>2 DEF Moved, FirstOps
  <2>2. \A a, y : S(a, y) \in Left(c) => a \in {"publish", "online", "ready"}
    BY <2>1 DEF SmpInv, Booting, Booted, Has
  <2> QED
    BY <1>1, <1>2, <2>1, <2>2, StepsDiffer DEF Moved
<1>4. /\ t = Idle \/ (t \in Threads /\ CpuOf[t] = c /\ state[t] = "READY" /\ t \notin rq)
      /\ t # Null /\ current[c] \notin Threads
  <2>1. t = Idle \/ (t \in Threads /\ CpuOf[t] = c /\ state[t] = "READY" /\ t \notin rq)
    BY <1>3 DEF SmpInv, QueueingFits, PickFits
  <2> QED
    BY <1>3, <2>1, SmpAssumption DEF SmpInv, Booting, Booted, BootOps
<1>5. /\ current' = [current EXCEPT ![c] = t] /\ state' = Running(t)
      /\ UNCHANGED <<board, released, ready, online, needs, deferred, ipi, rq, waitVars, timerVars, objVars>>
  BY <1>1 DEF Publish
<1> QED
  BY <1>2, <1>3, <1>4, <1>5, RunKeeps

LEMMA StepSwitchKeeps ==
  ASSUME NEW Eps, SmpInv(Eps), NEW c \in Cpus, StepSwitch(c)
  PROVE  SmpInv(Eps)'
<1>1. PICK t : t = Arg(c)
  OBVIOUS
<1>2. PICK R : todo' \in [Cpus -> Seq(Steps)] /\ Lined' /\ Moved(c, "switch", {}, R)
  BY Done DEF StepSwitch
<1>3. /\ \A d \in Cpus \ {c} : Left(d)' = Left(d)
      /\ S("switch", t) \in Left(c)
      /\ \A a, y : S(a, y) \in Left(c) <=> (a = "switch" /\ y = t) \/ S(a, y) \in Left(c)'
      /\ \A a, y : S(a, y) \in Left(c)' => a \in {"online", "ready"}
  BY <1>1, <1>2, StepsDiffer DEF Moved, LastOps
<1>4. /\ t = Idle \/ (t \in Threads /\ CpuOf[t] = c /\ state[t] = "READY" /\ t \notin rq)
      /\ current[c] # Null /\ t # Null /\ (current[c] \in Threads => state[current[c]] # "RUNNING")
  <2>1. t = Idle \/ (t \in Threads /\ CpuOf[t] = c /\ state[t] = "READY" /\ t \notin rq)
    BY <1>3 DEF SmpInv, QueueingFits, PickFits
  <2> QED
    BY <1>3, <2>1, SmpAssumption DEF SmpInv, Booting, Booted, BootOps, QueueingFits, SwitchFits, Has
<1>5. /\ current' = [current EXCEPT ![c] = t] /\ state' = Running(t)
      /\ UNCHANGED <<board, released, ready, online, needs, deferred, ipi, rq, waitVars, timerVars, objVars>>
  <2>1. rq' = rq
    BY <1>1, <1>4, SmpAssumption DEF StepSwitch, SmpInv, Typed
  <2> QED
    BY <1>1, <2>1 DEF StepSwitch
<1> QED
  BY <1>2, <1>3, <1>4, <1>5, RunKeeps

LEMMA StepEnqueueKeeps ==
  ASSUME NEW Eps, SmpInv(Eps), NEW c \in Cpus, StepEnqueue(c)
  PROVE  SmpInv(Eps)'
<1>1. PICK t : t = Arg(c)
  OBVIOUS
<1>2. PICK R : todo' \in [Cpus -> Seq(Steps)] /\ Lined' /\ Moved(c, "enqueue", {}, R)
  BY Done DEF StepEnqueue
<1>3. /\ \A d \in Cpus \ {c} : Left(d)' = Left(d)
      /\ S("enqueue", t) \in Left(c)
      /\ \A a, y : S(a, y) \in Left(c) <=> (a = "enqueue" /\ y = t) \/ S(a, y) \in Left(c)'
      /\ \A a, y : S(a, y) \in Left(c)' => a # "enqueue"
      /\ S("mark", t) \in Left(c)'
  BY <1>1, <1>2, StepsDiffer DEF Moved
<1>4. /\ t \in Threads /\ state[t] = "READY" /\ t \notin rq
      /\ \A d \in Cpus : S("switch", t) \notin Left(d) /\ S("publish", t) \notin Left(d)
      /\ \A d \in Cpus : S("enqueue", t) \notin Left(d)'
  <2>1. /\ t \in Threads /\ state[t] = "READY" /\ t \notin rq
        /\ S("switch", t) \notin Left(CpuOf[t]) /\ S("publish", t) \notin Left(CpuOf[t])
        /\ \A d \in Cpus \ {c} : S("enqueue", t) \notin Left(d)
    BY <1>3 DEF SmpInv, QueueingFits, EnqueueFits
  <2>2. \A d \in Cpus : S("switch", t) \in Left(d) \/ S("publish", t) \in Left(d) => d = CpuOf[t]
    BY <2>1, SmpAssumption DEF SmpInv, QueueingFits, PickFits
  <2> QED
    BY <1>3, <2>1, <2>2
<1>5. /\ rq' = rq \cup {t} /\ state' = state
      /\ UNCHANGED <<board, cpuVars, waitVars, timerVars, objVars>>
  BY <1>1, <1>4 DEF StepEnqueue, SmpInv, Typed
<1>6. /\ \A d \in Cpus : \A a, y : S(a, y) \in Left(d)' => S(a, y) \in Left(d)
      /\ \A d \in Cpus : \A a, y : S(a, y) \in Left(d) /\ a # "enqueue" => S(a, y) \in Left(d)'
  BY <1>3
<1>7. /\ \A d \in Cpus : \A a : a # "enqueue" => (Has(d, a)' <=> Has(d, a))
      /\ \A d \in Cpus : Leaving(d)' <=> Leaving(d)
  BY <1>6 DEF Has, Leaving
<1>8. Typed'
  BY <1>2, <1>4, <1>5 DEF SmpInv, Typed, cpuVars, waitVars, timerVars, objVars
<1>9. Booting'
  BY <1>5, <1>6, <1>7 DEF SmpInv, Booting, Booted, cpuVars
<1>10. AllStarted'
  BY <1>5, <1>6, <1>7, SmpAssumption DEF SmpInv, AllStarted, cpuVars
<1>11. Notified'
  BY <1>5 DEF SmpInv, Notified, cpuVars
<1>12. QueueingFits'
  <2>1. \A d \in Cpus : EnqueueFits(d)'
    <3>1. ASSUME NEW d \in Cpus, NEW x, S("enqueue", x) \in Left(d)'
          PROVE  S("enqueue", x) \in Left(d) /\ state'[x] = "READY" /\ x \notin rq'
      <4>1. S("enqueue", x) \in Left(d) /\ x # t
        BY <1>4, <1>6, <3>1
      <4> QED
        BY <1>5, <4>1 DEF SmpInv, QueueingFits, EnqueueFits
    <3>2. ASSUME NEW d \in Cpus, NEW a \in {"switch", "publish"}, NEW x, S(a, x) \in Left(d)'
          PROVE  S(a, x) \in Left(d)
      BY <1>6, <3>2
    <3> QED
      BY <3>1, <3>2, EnqueuesKept
  <2>2. ASSUME NEW d \in Cpus PROVE PickFits(d)'
    <3>1. ASSUME NEW x, S("switch", x) \in Left(d)' \/ S("publish", x) \in Left(d)'
          PROVE  (x = Idle \/ (x \in Threads /\ CpuOf[x] = d /\ state[x] = "READY" /\ x \notin rq)) /\ x # t
      <4>1. S("switch", x) \in Left(d) \/ S("publish", x) \in Left(d)
        BY <1>6, <3>1
      <4> QED
        BY <1>4, <4>1 DEF SmpInv, QueueingFits, PickFits
    <3> QED
      BY <1>5, <3>1 DEF PickFits
  <2>3. \A d \in Cpus : SwitchFits(d)'
    BY <1>5, <1>7 DEF SmpInv, QueueingFits, SwitchFits, cpuVars
  <2> QED
    BY <2>1, <2>2, <2>3 DEF QueueingFits
<1>13. WakingFits'
  BY <1>5, <1>6, <1>7 DEF SmpInv, WakingFits, DequeueFits, MarkFits, waitVars
<1>14. \A u \in Threads : Arming(u)' <=> Arming(u)
  BY <1>5, <1>7, Places DEF Arming, cpuVars
<1>15. TimingFits'
  BY <1>5, <1>6, <1>7, <1>14 DEF SmpInv, TimingFits, ArmFits, ExpireFits, DisarmFits, WheelOf, cpuVars, waitVars, timerVars
<1>16. Hosting'
  BY <1>5, <1>7 DEF SmpInv, Hosting, cpuVars
<1>17. Placed'
  <2>1. \A u \in Threads : Coming(u) => Coming(u)' \/ u = t
    BY <1>3 DEF Coming
  <2> QED
    BY <1>4, <1>5, <2>1 DEF SmpInv, Placed, cpuVars
<1>18. Waits(Eps)' /\ Receivers'
  BY <1>5 DEF SmpInv, Waits, Receivers, waitVars, objVars
<1>19. Timers'
  BY <1>5, <1>6, <1>14, Places DEF SmpInv, Timers, WheelOf, waitVars, timerVars
<1>20. Noticed'
  <2>1. \A d \in Cpus : \A x : Bound(d, x)' => Bound(d, x)
    BY <1>5, <1>6, <1>7 DEF Bound, cpuVars
  <2>2. \A d \in Cpus : \A u : Told(d, u) => Told(d, u)'
    BY <1>5, <1>6 DEF Told, cpuVars
  <2>3. \A d \in Cpus : Told(d, t)'
    BY <1>3 DEF Told
  <2> QED
    BY <1>5, <2>1, <2>2, <2>3 DEF SmpInv, Noticed, Queued
<1> QED
  BY <1>2, <1>8, <1>9, <1>10, <1>11, <1>12, <1>13, <1>15, <1>16, <1>17, <1>18, <1>19, <1>20 DEF SmpInv

LEMMA StepPickKeeps ==
  ASSUME NEW Eps, SmpInv(Eps), NEW c \in Cpus, StepPick(c)
  PROVE  SmpInv(Eps)'
<1>1. PICK back : back = {u \in Threads : u = current[c] /\ state[u] = "RUNNING"}
  OBVIOUS
<1>2. /\ needs' = [needs EXCEPT ![c] = FALSE]
      /\ state' = [u \in Threads |-> IF u \in back THEN "READY" ELSE state[u]]
      /\ UNCHANGED <<board, released, ready, online, current, deferred, ipi, waitVars, timerVars, objVars>>
  BY <1>1 DEF StepPick
<1>3. PICK t \in Tops(rq \cup back, c) : rq' = (rq \cup back) \ {t} /\ Then(c, <<S("switch", t)>>)
  BY <1>1 DEF StepPick
<1>4. /\ t = Idle \/ (t \in rq \cup back /\ t \in Threads /\ CpuOf[t] = c)
      /\ \A u \in rq \cup back : CpuOf[u] = c => ~(Prio[u] < Urgency(t))
      /\ rq \subseteq Threads /\ back \subseteq Threads
      /\ \A u \in back : u = current[c] /\ CpuOf[u] = c /\ state[u] = "RUNNING"
      /\ \A u \in rq : state[u] = "READY"
  <2>1. rq \subseteq Threads /\ back \subseteq Threads
    BY <1>1 DEF SmpInv, Typed
  <2>2. \A u \in back : u = current[c] /\ CpuOf[u] = c /\ state[u] = "RUNNING"
    BY <1>1 DEF SmpInv, Hosting
  <2> QED
    BY <2>1, <2>2, Top DEF SmpInv, Placed
<1>5. /\ todo' \in [Cpus -> Seq(Steps)] /\ Lined'
      /\ \A d \in Cpus \ {c} : Left(d)' = Left(d)
      /\ \A a, y : S(a, y) \in Left(c) <=> a = "dispatch" /\ y = Arg(c)
      /\ \A a, y : S(a, y) \in Left(c)' <=> a = "switch" /\ y = t
  <2>1. S("switch", t) \in Steps
    BY <1>4, StepTyped DEF OpNames
  <2>2. Step(c, "dispatch")
    BY DEF StepPick
  <2>3. /\ todo' \in [Cpus -> Seq(Steps)] /\ Lined'
        /\ \E R : Moved(c, "dispatch", {S("switch", t)}, R)
    BY <1>3, <2>1, <2>2, Replaced DEF LastOps
  <2> QED
    BY <2>3, StepsDiffer DEF Moved, LastOps
<1>6. current[c] # Null
  BY <1>5 DEF SmpInv, Booting, Booted, BootOps
<1>7. \A d \in Cpus \ {c} : (\A a : Has(d, a)' <=> Has(d, a)) /\ (Leaving(d)' <=> Leaving(d))
  BY <1>5, Elsewhere
<1>8. \A u \in Threads : /\ u \notin back => state'[u] = state[u]
                         /\ u \in back => state'[u] = "READY" /\ state[u] = "RUNNING"
  BY <1>2, <1>4
<1>9. Typed'
  BY <1>2, <1>3, <1>4, <1>5 DEF SmpInv, Typed, waitVars, timerVars, objVars
<1>10. Booting'
  <2>1. \A d \in Cpus \ {c} : Booted(d)'
    BY <1>2, <1>5, <1>7 DEF SmpInv, Booting, Booted
  <2>2. Booted(c)'
    BY <1>2, <1>5, <1>6 DEF Booted, BootOps, Has
  <2> QED
    BY <2>1, <2>2 DEF Booting
<1>11. AllStarted'
  <2>1. Has(Cpu0, "first")' => Has(Cpu0, "first") /\ c # Cpu0
    BY <1>5, <1>7, SmpAssumption DEF Has
  <2>2. \A d : \A a \in {"release", "await"} : S(a, d) \in Left(Cpu0) => S(a, d) \in Left(Cpu0)'
    BY <1>5, SmpAssumption
  <2>3. Has(Cpu0, "first")' => \A u \in Threads \ {Root} : state'[u] = "NEW"
    BY <1>8, <2>1 DEF SmpInv, AllStarted
  <2> QED
    BY <1>2, <2>2, <2>3 DEF SmpInv, AllStarted
<1>12. Notified'
  BY <1>2 DEF SmpInv, Notified
<1>13. QueueingFits'
  <2>1. \A d \in Cpus : EnqueueFits(d)'
    <3>1. ASSUME NEW d \in Cpus, NEW x, S("enqueue", x) \in Left(d)'
          PROVE  S("enqueue", x) \in Left(d) /\ state'[x] = "READY" /\ x \notin rq'
      <4>1. S("enqueue", x) \in Left(d)
        BY <1>5, <3>1
      <4>2. x \in Threads /\ state[x] = "READY" /\ x \notin rq
        BY <4>1 DEF SmpInv, QueueingFits, EnqueueFits
      <4> QED
        BY <1>3, <1>4, <1>8, <4>1, <4>2
    <3>2. ASSUME NEW d \in Cpus, NEW a \in {"switch", "publish"}, NEW x, S(a, x) \in Left(d)'
          PROVE  S(a, x) \in Left(d) \/ x = Idle \/ x \in rq \/ state[x] # "READY"
      BY <1>4, <1>5, <3>2
    <3> QED
      BY <3>1, <3>2, EnqueuesKept
  <2>2. ASSUME NEW d \in Cpus PROVE PickFits(d)'
    <3>1. CASE d = c
      <4>1. t = Idle \/ (t \in Threads /\ CpuOf[t] = c /\ state'[t] = "READY" /\ t \notin rq')
        BY <1>3, <1>4, <1>8
      <4> QED
        BY <1>5, <3>1, <4>1 DEF PickFits
    <3>2. CASE d # c
      <4>1. ASSUME NEW x, S("switch", x) \in Left(d)' \/ S("publish", x) \in Left(d)'
            PROVE  x = Idle \/ (x \in Threads /\ CpuOf[x] = d /\ state[x] = "READY" /\ x \notin rq /\ x \notin back)
        <5>1. x = Idle \/ (x \in Threads /\ CpuOf[x] = d /\ state[x] = "READY" /\ x \notin rq)
          BY <1>5, <3>2, <4>1 DEF SmpInv, QueueingFits, PickFits
        <5> QED
          BY <1>4, <5>1
      <4> QED
        BY <1>3, <1>8, <4>1 DEF PickFits
    <3> QED
      BY <3>1, <3>2
  <2>3. ASSUME NEW d \in Cpus PROVE SwitchFits(d)'
    <3>1. CASE d = c
      BY <1>1, <1>2, <1>8, <3>1 DEF SwitchFits
    <3>2. CASE d # c
      BY <1>2, <1>7, <1>8, <3>2 DEF SmpInv, QueueingFits, SwitchFits
    <3> QED
      BY <3>1, <3>2
  <2> QED
    BY <2>1, <2>2, <2>3 DEF QueueingFits
<1>14. WakingFits'
  <2>1. \A d \in Cpus : DequeueFits(d)'
    BY <1>2, <1>5 DEF SmpInv, WakingFits, DequeueFits, waitVars
  <2>2. \A d \in Cpus : MarkFits(d)'
    BY <1>5, <1>7, <1>8 DEF SmpInv, WakingFits, MarkFits
  <2> QED
    BY <2>1, <2>2 DEF WakingFits
<1>15. \A u \in Threads : Arming(u)' <=> Arming(u)
  <2>1. ~Has(c, "arm") /\ ~Has(c, "arm")'
    BY <1>5 DEF Has
  <2> QED
    BY <1>2, <1>7, <2>1, Places DEF Arming
<1>16. TimingFits'
  <2>1. \A d \in Cpus : ArmFits(d)'
    BY <1>2, <1>5 DEF SmpInv, TimingFits, ArmFits, waitVars, timerVars
  <2>2. \A d \in Cpus : ExpireFits(d)'
    BY <1>2, <1>5, <1>7, <1>15 DEF SmpInv, TimingFits, ExpireFits, WheelOf, waitVars, timerVars
  <2>3. \A d \in Cpus : DisarmFits(d)'
    BY <1>2, <1>5, <1>8 DEF SmpInv, TimingFits, DisarmFits, WheelOf, timerVars
  <2> QED
    BY <2>1, <2>2, <2>3 DEF TimingFits
<1>17. Hosting'
  <2>1. Leaving(c)'
    BY <1>5 DEF Leaving, Has
  <2>2. \A d \in Cpus \ {c} : current[d] \in Threads => current[d] \notin back
    BY <1>4 DEF SmpInv, Hosting
  <2> QED
    BY <1>2, <1>7, <1>8, <2>1, <2>2 DEF SmpInv, Hosting
<1>18. Placed'
  <2>1. \A u \in Threads : Coming(u) => Coming(u)'
    BY <1>5 DEF Coming
  <2>2. t \in Threads => Coming(t)'
    BY <1>5 DEF Coming
  <2>3. \A u \in Threads : u \in rq' => state'[u] = "READY"
    BY <1>3, <1>4, <1>8
  <2>4. \A u \in Threads : state'[u] = "READY" => u \in rq' \/ Coming(u)'
    BY <1>3, <1>8, <2>1, <2>2 DEF SmpInv, Placed
  <2>5. \A u \in Threads : state'[u] = "RUNNING" => current'[CpuOf[u]] = u
    BY <1>2, <1>8 DEF SmpInv, Placed
  <2> QED
    BY <2>3, <2>4, <2>5 DEF Placed
<1>19. Waits(Eps)' /\ Receivers'
  <2>1. \A u \in Threads : state'[u] = "BLOCKED" <=> state[u] = "BLOCKED"
    BY <1>8
  <2> QED
    BY <1>2, <2>1 DEF SmpInv, Waits, Receivers, waitVars, objVars
<1>20. Timers'
  <2>1. \A d \in Cpus, a \in {"expire", "disarm"} : \A y : S(a, y) \in Left(d) => S(a, y) \in Left(d)'
    BY <1>5
  <2>2. \A u \in Threads : CpuOf[u] \in Cpus /\ WheelOf(u) \in Cpus /\ WheelOf(u)' = WheelOf(u)
    BY <1>2, SmpAssumption DEF WheelOf
  <2> QED
    BY <1>2, <1>15, <2>1, <2>2 DEF SmpInv, Timers, waitVars, timerVars
<1>21. Noticed'
  <2>1. \A d \in Cpus \ {c} : \A x : Bound(d, x)' => Bound(d, x)
    BY <1>2, <1>5, <1>7 DEF Bound
  <2>2. \A x : Bound(c, x)' => x = t
    <3>1. Leaving(c)'
      BY <1>5 DEF Leaving, Has
    <3>2. \A x : S("switch", x) \in Left(c)' \/ S("publish", x) \in Left(c)' => x = t
      BY <1>5
    <3> QED
      BY <3>1, <3>2 DEF Bound
  <2>3. \A d \in Cpus : \A u : Told(d, u) => Told(d, u)'
    <3>1. \A d \in Cpus : \A u : S("mark", u) \in Left(d) => S("mark", u) \in Left(d)'
      BY <1>5
    <3> QED
      BY <1>2, <3>1 DEF Told
  <2>4. \A d \in Cpus \ {c} : Queued(rq', d) \subseteq Queued(rq, d)
    BY <1>3, <1>4 DEF Queued
  <2>5. \A u \in Queued(rq', c) : ~(Prio[u] < Urgency(t))
    BY <1>3, <1>4 DEF Queued
  <2> QED
    BY <1>2, <2>1, <2>2, <2>3, <2>4, <2>5 DEF SmpInv, Noticed
<1> QED
  BY <1>5, <1>9, <1>10, <1>11, <1>12, <1>13, <1>14, <1>16, <1>17, <1>18, <1>19, <1>20, <1>21 DEF SmpInv

-----------------------------------------------------------------------------
(* Waits that end, and timeouts.                                            *)

(* A thread is woken and queued in one section, and marked after it.        *)
LEMMA WakeKeeps ==
  ASSUME NEW Eps, SmpInv(Eps), NEW c \in Cpus, NEW t \in Threads, Typed', Lined',
         current[c] # Null, state[t] = "BLOCKED", reason[t] \in {"sleep", "notif"}, Woken(t),
         waiter' \in {waiter, Null}, waiter' # t,
         UNCHANGED <<board, cpuVars, timerVars, bit, sendQ, recvQ, owes>>,
         \A d \in Cpus \ {c} : Left(d)' = Left(d),
         \A a, y : S(a, y) \in Left(c)' =>
           S(a, y) \in Left(c) \/ a \in {"resched", "kick", "sample"} \/ (a \in {"mark", "disarm"} /\ y = t),
         \A a, y : S(a, y) \in Left(c) => S(a, y) \in Left(c)' \/ (a = "expire" /\ y = t),
         S("mark", t) \in Left(c)', Has(c, "sample")',
         S("disarm", t) \in Left(c)' => CpuOf[t] = c /\ WheelOf(t) = c,
         t \in armed => S("disarm", t) \in Left(c)',
         ~Arming(t), \A d \in Cpus : S("expire", t) \notin Left(d)'
  PROVE  SmpInv(Eps)'
<1>1. /\ rq' = rq \cup {t} /\ t \notin rq
      /\ state'[t] = "READY" /\ reason'[t] = "none" /\ timed'[t] = FALSE
      /\ \A u \in Threads : u # t => state'[u] = state[u] /\ reason'[u] = reason[u] /\ timed'[u] = timed[u]
  BY DEF SmpInv, Typed, Woken, Placed
<1>2. /\ \A d \in Cpus \ {c} : Left(d)' = Left(d)
      /\ \A a, y : S(a, y) \in Left(c)' =>
           S(a, y) \in Left(c) \/ a \in {"resched", "kick", "sample"} \/ (a \in {"mark", "disarm"} /\ y = t)
      /\ \A a, y : S(a, y) \in Left(c) => S(a, y) \in Left(c)' \/ (a = "expire" /\ y = t)
  OBVIOUS
<1>3. UNCHANGED <<board, cpuVars, timerVars, bit, sendQ, recvQ, owes>>
  OBVIOUS
<1>4. /\ \A d \in Cpus : \A a, y : S(a, y) \in Left(d) /\ a # "expire" => S(a, y) \in Left(d)'
      /\ \A d \in Cpus : \A a, y : S(a, y) \in Left(d)' /\ a \notin {"resched", "kick", "sample", "mark", "disarm"}
           => S(a, y) \in Left(d)
  BY <1>2
<1>5. /\ \A d \in Cpus : \A a : Has(d, a) /\ a # "expire" => Has(d, a)'
      /\ \A d \in Cpus : \A a : Has(d, a)' /\ a \notin {"resched", "kick", "sample", "mark", "disarm"} => Has(d, a)
      /\ \A d \in Cpus : Leaving(d) => Leaving(d)'
      /\ Leaving(c)'
  BY <1>4 DEF Has, Leaving
<1>6. \A d \in Cpus \ {c} : (\A a : Has(d, a)' <=> Has(d, a)) /\ (Leaving(d)' <=> Leaving(d))
  BY <1>2, Elsewhere
<1>7. \A u \in Threads : CpuOf[u] \in Cpus /\ WheelOf(u) \in Cpus /\ WheelOf(u)' = WheelOf(u)
  BY <1>3, SmpAssumption DEF WheelOf
<1>8. \A u \in Threads : Arming(u)' <=> Arming(u)
  BY <1>3, <1>5, <1>7 DEF Arming, cpuVars
<1>9. Booting'
  <2>1. \A d \in Cpus \ {c} : Booted(d)'
    BY <1>2, <1>3, <1>6 DEF SmpInv, Booting, Booted, cpuVars
  <2>2. ~Has(c, "publish")
    BY DEF SmpInv, Booting, Booted, BootOps, Has
  <2>3. Booted(c)'
    <3>1. \A a, y : S(a, y) \in Left(c)' => a \notin BootOps
      BY <1>2 DEF SmpInv, Booting, Booted, BootOps
    <3>2. Has(c, "ready")' => c \in online \/ Has(c, "online")'
      BY <1>5 DEF SmpInv, Booting, Booted
    <3>3. ~Has(c, "publish")' /\ ~Has(c, "release")' /\ ~Has(c, "await")' /\ ~Has(c, "park")'
      BY <3>1 DEF Has, BootOps
    <3> QED
      BY <1>3, <3>1, <3>2, <3>3 DEF Booted, cpuVars
  <2> QED
    BY <2>1, <2>3 DEF Booting
<1>10. AllStarted'
  <2>1. Has(Cpu0, "first")' => Has(Cpu0, "first")
    BY <1>5, SmpAssumption
  <2>2. Has(Cpu0, "first")' => \A u \in Threads \ {Root} : state'[u] = "NEW"
    BY <1>1, <2>1 DEF SmpInv, AllStarted
  <2>3. \A a \in {"release", "await"} : \A d : S(a, d) \in Left(Cpu0) => S(a, d) \in Left(Cpu0)'
    BY <1>4, SmpAssumption
  <2> QED
    BY <1>3, <2>2, <2>3 DEF SmpInv, AllStarted, cpuVars
<1>11. Notified'
  BY <1>3 DEF SmpInv, Notified, cpuVars
<1>12. QueueingFits'
  <2>1. \A d \in Cpus : EnqueueFits(d)'
    <3>1. ASSUME NEW d \in Cpus, NEW x, S("enqueue", x) \in Left(d)'
          PROVE  S("enqueue", x) \in Left(d) /\ state'[x] = "READY" /\ x \notin rq'
      <4>1. S("enqueue", x) \in Left(d)
        BY <1>4, <3>1
      <4>2. x \in Threads /\ state[x] = "READY" /\ x \notin rq
        BY <4>1 DEF SmpInv, QueueingFits, EnqueueFits
      <4> QED
        BY <1>1, <4>1, <4>2
    <3>2. ASSUME NEW d \in Cpus, NEW a \in {"switch", "publish"}, NEW x, S(a, x) \in Left(d)'
          PROVE  S(a, x) \in Left(d)
      BY <1>4, <3>2
    <3> QED
      BY <3>1, <3>2, EnqueuesKept
  <2>2. ASSUME NEW d \in Cpus PROVE PickFits(d)'
    <3>1. ASSUME NEW x, S("switch", x) \in Left(d)' \/ S("publish", x) \in Left(d)'
          PROVE  x = Idle \/ (x \in Threads /\ CpuOf[x] = d /\ state[x] = "READY" /\ x \notin rq)
      <4>1. S("switch", x) \in Left(d) \/ S("publish", x) \in Left(d)
        BY <1>4, <3>1
      <4> QED
        BY <4>1 DEF SmpInv, QueueingFits, PickFits
    <3> QED
      BY <1>1, <3>1 DEF PickFits
  <2>3. \A d \in Cpus : SwitchFits(d)'
    BY <1>1, <1>3, <1>5 DEF SmpInv, QueueingFits, SwitchFits, cpuVars
  <2> QED
    BY <2>1, <2>2, <2>3 DEF QueueingFits
<1>13. WakingFits'
  <2>1. ASSUME NEW d \in Cpus PROVE DequeueFits(d)'
    <3>1. \A x : S("dequeue", x) \in Left(d)' => x \in Threads /\ CpuOf[x] = d /\ reason[x] \in {"call", "recv"}
      BY <1>4 DEF SmpInv, WakingFits, DequeueFits
    <3> QED
      BY <1>1, <3>1 DEF DequeueFits
  <2>2. ASSUME NEW d \in Cpus PROVE MarkFits(d)'
    <3>1. ASSUME NEW x, S("mark", x) \in Left(d)' PROVE x = t \/ (x \in Threads /\ state[x] # "NEW")
      BY <1>2, <3>1 DEF SmpInv, WakingFits, MarkFits
    <3>2. Has(d, "mark")' => Has(d, "sample")'
      <4>1. CASE d = c
        BY <4>1
      <4>2. CASE d # c
        BY <1>6, <4>2 DEF SmpInv, WakingFits, MarkFits, Has
      <4> QED
        BY <4>1, <4>2
    <3> QED
      BY <1>1, <3>1, <3>2 DEF MarkFits, Has
  <2> QED
    BY <2>1, <2>2 DEF WakingFits
<1>14. TimingFits'
  <2>1. ASSUME NEW d \in Cpus PROVE ArmFits(d)'
    <3>1. ASSUME NEW x, S("arm", x) \in Left(d)'
          PROVE  /\ current[d] \in Threads /\ timed[current[d]] /\ reason[current[d]] = x
                 /\ current[d] \notin armed /\ current[d] # t
      <4>1. S("arm", x) \in Left(d) /\ Has(d, "arm")
        BY <1>4, <3>1 DEF Has
      <4>2. /\ current[d] \in Threads /\ timed[current[d]] /\ reason[current[d]] = x
            /\ current[d] \notin armed /\ CpuOf[current[d]] = d
        BY <4>1 DEF SmpInv, TimingFits, ArmFits, Hosting
      <4>3. current[d] # t
        BY <4>1, <4>2 DEF Arming
      <4> QED
        BY <4>2, <4>3
    <3> QED
      BY <1>1, <1>3, <3>1 DEF ArmFits, cpuVars, timerVars
  <2>2. ASSUME NEW d \in Cpus PROVE ExpireFits(d)'
    <3>1. ASSUME NEW x, S("expire", x) \in Left(d)'
          PROVE  /\ x \in Threads /\ WheelOf(x) = d /\ timed[x] /\ cb[x] = reason[x] /\ x # t
                 /\ x \notin armed /\ ~Arming(x) /\ Has(d, "sample")
      BY <1>4, <3>1 DEF SmpInv, TimingFits, ExpireFits
    <3> QED
      BY <1>1, <1>3, <1>5, <1>7, <1>8, <3>1 DEF ExpireFits, timerVars
  <2>3. ASSUME NEW d \in Cpus PROVE DisarmFits(d)'
    <3>1. ASSUME NEW x, S("disarm", x) \in Left(d)', x # t
          PROVE  x \in Threads /\ CpuOf[x] = d /\ state[x] = "READY" /\ (x \in armed => WheelOf(x) = d)
      BY <1>2, <3>1 DEF SmpInv, TimingFits, DisarmFits
    <3>2. ASSUME S("disarm", t) \in Left(d)' PROVE d = c
      <4>1. S("disarm", t) \notin Left(d)
        BY DEF SmpInv, TimingFits, DisarmFits
      <4> QED
        BY <1>2, <3>2, <4>1
    <3> QED
      BY <1>1, <1>3, <1>7, <3>1, <3>2 DEF DisarmFits, timerVars
  <2> QED
    BY <2>1, <2>2, <2>3 DEF TimingFits
<1>15. Hosting'
  BY <1>1, <1>3, <1>5 DEF SmpInv, Hosting, cpuVars
<1>16. Placed'
  <2>1. \A u \in Threads : Coming(u) => Coming(u)'
    BY <1>4 DEF Coming
  <2> QED
    BY <1>1, <1>3, <2>1 DEF SmpInv, Placed, cpuVars
<1>17. Waits(Eps)'
  BY <1>1, SmpAssumption DEF SmpInv, Waits
<1>18. Receivers'
  <2>1. recvQ' = recvQ /\ \A i \in DOMAIN recvQ : recvQ[i] \in Threads
    BY <1>3, ElementOfSeq, LenProperties DEF SmpInv, Typed
  <2> QED
    BY <1>1, <2>1 DEF SmpInv, Receivers
<1>19. Timers'
  <2>1. ASSUME NEW u \in Threads, u # t
        PROVE  /\ \A d \in Cpus : S("expire", u) \in Left(d) => S("expire", u) \in Left(d)'
               /\ \A d \in Cpus : S("disarm", u) \in Left(d) => S("disarm", u) \in Left(d)'
    BY <1>2, <2>1
  <2>2. \A u \in Threads : u # t =>
          /\ timed'[u] => /\ reason'[u] \in {"sleep", "notif"}
                          /\ reason'[u] = "notif" => WheelOf(u)' = CpuOf[u]
                          /\ u \in armed' \/ Arming(u)' \/ S("expire", u) \in Left(WheelOf(u))'
          /\ u \in armed' => \/ timed'[u] /\ cb'[u] = reason'[u]
                             \/ S("disarm", u) \in Left(CpuOf[u])' /\ WheelOf(u)' = CpuOf[u]
    BY <1>1, <1>3, <1>7, <1>8, <2>1 DEF SmpInv, Timers, timerVars
  <2>3. t \in armed' => S("disarm", t) \in Left(CpuOf[t])' /\ WheelOf(t)' = CpuOf[t]
    BY <1>3, <1>7 DEF timerVars
  <2> QED
    BY <1>1, <1>7, <2>2, <2>3 DEF Timers
<1>20. Noticed'
  <2>1. \A d \in Cpus : \A x : Bound(d, x)' => Bound(d, x)
    <3>1. \A d \in Cpus : Has(d, "publish") => Has(d, "publish")'
      BY <1>5
    <3> QED
      BY <1>3, <1>4, <1>5, <3>1 DEF Bound, cpuVars
  <2>2. \A d \in Cpus : \A u : Told(d, u) => Told(d, u)'
    BY <1>3, <1>4 DEF Told, cpuVars
  <2>3. \A d \in Cpus : Told(d, t)'
    BY DEF Told
  <2> QED
    BY <1>1, <1>3, <2>1, <2>2, <2>3 DEF SmpInv, Noticed, Queued
<1> QED
  BY <1>9, <1>10, <1>11, <1>12, <1>13, <1>14, <1>15, <1>16, <1>17, <1>18, <1>19, <1>20 DEF SmpInv

(* The timeout belongs to the wait its thread is in: the callback ends it.  *)
LEMMA ExpireKeeps ==
  ASSUME NEW Eps, SmpInv(Eps), NEW c \in Cpus, Expire(c)
  PROVE  SmpInv(Eps)'
<1>1. PICK t : t = Arg(c)
  OBVIOUS
<1>2. Step(c, "expire") /\ S("expire", t) \in Left(c) /\ S("expire", t) \in Steps
  <2>1. Step(c, "expire")
    BY DEF Expire
  <2>2. S("expire", t) \in Steps /\ Head(todo[c]) \in Steps /\ todo[c] # <<>> /\ todo[c] \in Seq(Steps)
    BY <1>1, <2>1, HeadTyped, HeadTailProperties DEF Step, SmpInv, Typed
  <2>3. Head(todo[c]) = S("expire", t)
    BY <1>1, <2>1, <2>2, StepsAreS DEF Step, Arg
  <2>4. Head(todo[c]) = todo[c][1] /\ 1 \in DOMAIN todo[c]
    BY <2>2, EmptySeq, LenProperties
  <2> QED
    BY <2>1, <2>2, <2>3, <2>4 DEF Left
<1>3. /\ t \in Threads /\ WheelOf(t) = c /\ timed[t] /\ cb[t] = reason[t]
      /\ t \notin armed /\ ~Arming(t) /\ Has(c, "sample")
  BY <1>2 DEF SmpInv, TimingFits, ExpireFits
<1>4. state[t] = "BLOCKED" /\ reason[t] \in {"sleep", "notif"} /\ current[c] # Null
  BY <1>2, <1>3 DEF SmpInv, Timers, Waits, Booting, Booted, BootOps
<1>5. /\ Woken(t) /\ waiter' = (IF waiter = t THEN Null ELSE waiter)
      /\ Then(c, <<S("mark", t)>> \o (IF cb[t] = "sleep" THEN <<Nothing("resched")>> ELSE <<>>))
      /\ UNCHANGED <<board, cpuVars, timerVars, bit, sendQ, recvQ, owes>>
  BY <1>1, <1>3, <1>4 DEF Expire
<1>6. PICK p, R :
        /\ todo' \in [Cpus -> Seq(Steps)] /\ Lined' /\ Moved(c, "expire", p, R)
        /\ S("mark", t) \in p /\ p \subseteq {S("mark", t), S("resched", Null)}
  <2>1. S("mark", t) \in Steps /\ S("resched", Null) \in Steps
    BY <1>3, StepTyped DEF OpNames
  <2>2. \A a, y : S(a, y).op = a
    BY DEF S
  <2>3. PICK p1 : p1 = <<S("mark", t)>>
    OBVIOUS
  <2>4. PICK p2 : p2 = IF cb[t] = "sleep" THEN <<S("resched", Null)>> ELSE <<>>
    OBVIOUS
  <2>5. p1 \in Seq(Steps) /\ Ordered(p1) /\ Elems(p1) = {S("mark", t)}
    BY <2>1, <2>2, <2>3, One
  <2>6. p2 \in Seq(Steps) /\ Ordered(p2) /\ Elems(p2) \subseteq {S("resched", Null)}
    <3>1. CASE cb[t] = "sleep"
      BY <2>1, <2>2, <2>4, <3>1, One
    <3>2. CASE cb[t] # "sleep"
      BY <2>4, <3>2, Empty
    <3> QED
      BY <3>1, <3>2
  <2>7. p1 \o p2 \in Seq(Steps) /\ Ordered(p1 \o p2) /\ Elems(p1 \o p2) = Elems(p1) \cup Elems(p2)
    <3>1. /\ \A e \in Elems(p2) : e.op \notin FirstOps /\ e.op # "enqueue"
          /\ \A e \in Elems(p1) : e.op \notin LastOps
      BY <2>2, <2>5, <2>6 DEF FirstOps, LastOps
    <3> QED
      BY <2>5, <2>6, <3>1, Joined
  <2>8. Then(c, p1 \o p2)
    BY <1>5, <2>3, <2>4 DEF Nothing
  <2>9. /\ \A e \in Elems(p1 \o p2) : e.op \in LastOps => "expire" \in LastOps
        /\ \A e \in Elems(p1 \o p2) : e.op \in {"mark", "expire"} => "expire" \in {"mark", "expire", "enqueue"}
    BY <2>2, <2>5, <2>6, <2>7 DEF LastOps
  <2>10. /\ todo' \in [Cpus -> Seq(Steps)] /\ Lined'
         /\ \E R : Moved(c, "expire", Elems(p1 \o p2), R)
    BY <1>2, <2>7, <2>8, <2>9, PopSeq
  <2> QED
    BY <2>5, <2>6, <2>7, <2>10
<1>7. /\ \A d \in Cpus \ {c} : Left(d)' = Left(d)
      /\ \A a, y : S(a, y) \in Left(c)' =>
           S(a, y) \in Left(c) \/ a \in {"resched", "kick", "sample"} \/ (a \in {"mark", "disarm"} /\ y = t)
      /\ \A a, y : S(a, y) \in Left(c) => S(a, y) \in Left(c)' \/ (a = "expire" /\ y = t)
      /\ S("mark", t) \in Left(c)' /\ Has(c, "sample")'
      /\ S("disarm", t) \notin Left(c)'
      /\ \A d \in Cpus : S("expire", t) \notin Left(d)'
  <2>1. \A d \in Cpus \ {c} : S("expire", t) \notin Left(d)
    BY <1>3 DEF SmpInv, TimingFits, ExpireFits
  <2>2. S("disarm", t) \notin Left(c)
    BY <1>4 DEF SmpInv, TimingFits, DisarmFits
  <2>3. \A a, y : S(a, y) \in p => (a = "mark" /\ y = t) \/ a = "resched"
    BY <1>6, StepsDiffer
  <2>4. \A y : S("expire", y) \notin R
    BY <1>6 DEF Moved, FirstOps
  <2>5. Has(c, "sample")'
    BY <1>3, <1>6, StepsDiffer DEF Moved, Has
  <2>6. \A a, y : S(a, y) \in Left(c)' => S(a, y) \in Left(c) \/ (a = "mark" /\ y = t) \/ a = "resched"
    BY <1>6, <2>3 DEF Moved
  <2>7. \A a, y : S(a, y) \in Left(c) => S(a, y) \in Left(c)' \/ (a = "expire" /\ y = t)
    BY <1>1, <1>6, StepsDiffer DEF Moved
  <2>8. S("mark", t) \in Left(c)' /\ S("disarm", t) \notin Left(c)' /\ S("expire", t) \notin Left(c)'
    BY <1>6, <2>2, <2>3, <2>4, <2>6 DEF Moved
  <2> QED
    BY <1>6, <2>1, <2>5, <2>6, <2>7, <2>8 DEF Moved
<1>8. Typed'
  BY <1>3, <1>5, <1>6 DEF SmpInv, Typed, Woken, cpuVars, timerVars
<1>9. waiter' \in {waiter, Null} /\ waiter' # t
  BY <1>3, <1>5, SmpAssumption
<1> QED
  BY <1>3, <1>4, <1>5, <1>6, <1>7, <1>8, <1>9, WakeKeeps

(* Steps that change only timeouts; t is the thread whose timeout it is.    *)
LEMMA TimeoutKeeps ==
  ASSUME NEW Eps, SmpInv(Eps), NEW c \in Cpus, NEW t \in Threads, Typed', Lined',
         UNCHANGED <<board, cpuVars, state, rq, waitVars, objVars>>,
         \A u \in Threads \ {t} : cb'[u] = cb[u] /\ (u \in armed' <=> u \in armed),
         NEW op \in {"arm", "disarm"},
         S(op, Arg(c)) \in Left(c),
         \A d \in Cpus \ {c} : Left(d)' = Left(d),
         \A a, y : S(a, y) \in Left(c)' => S(a, y) \in Left(c),
         \A a, y : S(a, y) \in Left(c) => S(a, y) \in Left(c)' \/ (a = op /\ y = Arg(c)),
         TimingFits', Timers'
  PROVE  SmpInv(Eps)'
<1>1. UNCHANGED <<board, cpuVars, state, rq, waitVars, objVars>>
  OBVIOUS
<1>2. /\ \A d \in Cpus : \A a, y : S(a, y) \in Left(d)' => S(a, y) \in Left(d)
      /\ \A d \in Cpus : \A a, y : S(a, y) \in Left(d) /\ a \notin {"arm", "disarm"} => S(a, y) \in Left(d)'
  OBVIOUS
<1>3. /\ \A d \in Cpus : \A a : a \notin {"arm", "disarm"} => (Has(d, a)' <=> Has(d, a))
      /\ \A d \in Cpus : Leaving(d)' <=> Leaving(d)
  BY <1>2 DEF Has, Leaving
<1>4. Booting'
  BY <1>1, <1>2, <1>3 DEF SmpInv, Booting, Booted, cpuVars
<1>5. AllStarted'
  BY <1>1, <1>2, <1>3, SmpAssumption DEF SmpInv, AllStarted, cpuVars
<1>6. Notified'
  BY <1>1 DEF SmpInv, Notified, cpuVars
<1>7. QueueingFits'
  <2>1. \A d \in Cpus : EnqueueFits(d)'
    <3>1. ASSUME NEW d \in Cpus, NEW x, S("enqueue", x) \in Left(d)'
          PROVE  S("enqueue", x) \in Left(d) /\ state'[x] = "READY" /\ x \notin rq'
      BY <1>1, <1>2, <3>1 DEF SmpInv, QueueingFits, EnqueueFits
    <3>2. ASSUME NEW d \in Cpus, NEW a \in {"switch", "publish"}, NEW x, S(a, x) \in Left(d)'
          PROVE  S(a, x) \in Left(d)
      BY <1>2, <3>2
    <3> QED
      BY <3>1, <3>2, EnqueuesKept
  <2>2. \A d \in Cpus : PickFits(d)' /\ SwitchFits(d)'
    BY <1>1, <1>2, <1>3 DEF SmpInv, QueueingFits, PickFits, SwitchFits, cpuVars
  <2> QED
    BY <2>1, <2>2 DEF QueueingFits
<1>8. WakingFits'
  BY <1>1, <1>2, <1>3 DEF SmpInv, WakingFits, DequeueFits, MarkFits, waitVars
<1>9. Hosting'
  BY <1>1, <1>3 DEF SmpInv, Hosting, cpuVars
<1>10. Placed'
  <2>1. \A u \in Threads : Coming(u) => Coming(u)'
    BY <1>2 DEF Coming
  <2> QED
    BY <1>1, <2>1 DEF SmpInv, Placed, cpuVars
<1>11. Waits(Eps)' /\ Receivers'
  BY <1>1 DEF SmpInv, Waits, Receivers, waitVars, objVars
<1>12. Noticed'
  <2>1. \A d \in Cpus : \A x : Bound(d, x)' => Bound(d, x)
    BY <1>1, <1>2, <1>3 DEF Bound, cpuVars
  <2>2. \A d \in Cpus : \A u : Told(d, u) => Told(d, u)'
    BY <1>1, <1>2 DEF Told, cpuVars
  <2> QED
    BY <1>1, <2>1, <2>2 DEF SmpInv, Noticed, Queued
<1> QED
  BY <1>4, <1>5, <1>6, <1>7, <1>8, <1>9, <1>10, <1>11, <1>12 DEF SmpInv

LEMMA StepArmKeeps ==
  ASSUME NEW Eps, SmpInv(Eps), NEW c \in Cpus, StepArm(c)
  PROVE  SmpInv(Eps)'
<1>1. PICK t, r : t = current[c] /\ r = Arg(c)
  OBVIOUS
<1>2. PICK R : todo' \in [Cpus -> Seq(Steps)] /\ Lined' /\ Moved(c, "arm", {}, R)
  BY Done DEF StepArm
<1>3. /\ \A d \in Cpus \ {c} : Left(d)' = Left(d)
      /\ S("arm", r) \in Left(c)
      /\ \A a, y : S(a, y) \in Left(c)' => S(a, y) \in Left(c) /\ a # "arm"
      /\ \A a, y : S(a, y) \in Left(c) => S(a, y) \in Left(c)' \/ (a = "arm" /\ y = r)
  BY <1>1, <1>2, StepsDiffer DEF Moved, FirstOps
<1>4. /\ t \in Threads /\ timed[t] /\ reason[t] = r /\ t \notin armed
      /\ CpuOf[t] = c /\ state[t] = "BLOCKED" /\ r \in {"sleep", "notif"}
      /\ (r = "notif" => WheelOf(t) = CpuOf[t])
  BY <1>1, <1>3 DEF SmpInv, TimingFits, ArmFits, Hosting, Timers, Waits
<1>5. /\ UNCHANGED <<board, cpuVars, state, rq, waitVars, objVars>>
      /\ armed' = armed \cup {t} /\ cb'[t] = r
      /\ \A u \in Threads \ {t} : cb'[u] = cb[u] /\ (u \in armed' <=> u \in armed)
      /\ cb' \in [Threads -> {Null, "sleep", "notif"}] /\ armed' \subseteq Threads
  BY <1>1, <1>4 DEF StepArm, SmpInv, Typed
<1>6. Typed'
  BY <1>2, <1>5 DEF SmpInv, Typed, cpuVars, waitVars, objVars
<1>7. /\ \A d \in Cpus : \A a, y : S(a, y) \in Left(d)' => S(a, y) \in Left(d)
      /\ \A d \in Cpus : \A a, y : S(a, y) \in Left(d) /\ a # "arm" => S(a, y) \in Left(d)'
      /\ \A d \in Cpus : Has(d, "sample")' <=> Has(d, "sample")
      /\ \A d \in Cpus \ {c} : Has(d, "arm")' <=> Has(d, "arm")
      /\ Has(c, "arm") /\ ~Has(c, "arm")'
  BY <1>3 DEF Has
<1>8. \A u \in Threads : CpuOf[u] \in Cpus /\ WheelOf(u) \in Cpus /\ WheelOf(u)' = WheelOf(u)
  BY <1>5, SmpAssumption DEF WheelOf
<1>9. Arming(t) /\ \A u \in Threads \ {t} : Arming(u)' <=> Arming(u)
  BY <1>1, <1>4, <1>5, <1>7, <1>8 DEF Arming, cpuVars
<1>10. ~Arming(t)'
  BY <1>4, <1>7 DEF Arming
<1>11. TimingFits'
  <2>1. ASSUME NEW d \in Cpus PROVE ArmFits(d)'
    <3>1. \A x : S("arm", x) \in Left(d)' => S("arm", x) \in Left(d) /\ d # c
      BY <1>3
    <3>2. d # c /\ current[d] \in Threads => current[d] # t
      BY <1>4 DEF SmpInv, Hosting
    <3> QED
      BY <1>5, <3>1, <3>2 DEF SmpInv, TimingFits, ArmFits, cpuVars, waitVars
  <2>2. ASSUME NEW d \in Cpus PROVE ExpireFits(d)'
    <3>1. ASSUME NEW x, S("expire", x) \in Left(d)'
          PROVE  /\ x \in Threads /\ WheelOf(x) = d /\ timed[x] /\ cb[x] = reason[x] /\ x # t
                 /\ x \notin armed /\ ~Arming(x) /\ Has(d, "sample")
      BY <1>7, <1>9, <3>1 DEF SmpInv, TimingFits, ExpireFits
    <3> QED
      BY <1>5, <1>7, <1>8, <1>9, <3>1 DEF ExpireFits, waitVars
  <2>3. ASSUME NEW d \in Cpus PROVE DisarmFits(d)'
    <3>1. ASSUME NEW x, S("disarm", x) \in Left(d)'
          PROVE  x \in Threads /\ CpuOf[x] = d /\ state[x] = "READY" /\ (x \in armed => WheelOf(x) = d) /\ x # t
      BY <1>4, <1>7, <3>1 DEF SmpInv, TimingFits, DisarmFits
    <3> QED
      BY <1>5, <1>8, <3>1 DEF DisarmFits
  <2> QED
    BY <2>1, <2>2, <2>3 DEF TimingFits
<1>12. Timers'
  <2>1. \A u \in Threads \ {t} :
          /\ timed'[u] => /\ reason'[u] \in {"sleep", "notif"}
                          /\ reason'[u] = "notif" => WheelOf(u)' = CpuOf[u]
                          /\ u \in armed' \/ Arming(u)' \/ S("expire", u) \in Left(WheelOf(u))'
          /\ u \in armed' => \/ timed'[u] /\ cb'[u] = reason'[u]
                             \/ S("disarm", u) \in Left(CpuOf[u])' /\ WheelOf(u)' = CpuOf[u]
    BY <1>5, <1>7, <1>8, <1>9 DEF SmpInv, Timers, waitVars
  <2>2. t \in armed' /\ timed'[t] /\ cb'[t] = reason'[t] /\ reason'[t] = r
    BY <1>4, <1>5 DEF waitVars
  <2> QED
    BY <1>4, <1>8, <2>1, <2>2 DEF Timers
<1> QED
  BY <1>1, <1>3, <1>4, <1>5, <1>6, <1>2, <1>11, <1>12, TimeoutKeeps

LEMMA StepDisarmKeeps ==
  ASSUME NEW Eps, SmpInv(Eps), NEW c \in Cpus, StepDisarm(c)
  PROVE  SmpInv(Eps)'
<1>1. PICK t : t = Arg(c)
  OBVIOUS
<1>2. PICK R : todo' \in [Cpus -> Seq(Steps)] /\ Lined' /\ Moved(c, "disarm", {}, R)
  BY Done DEF StepDisarm
<1>3. /\ \A d \in Cpus \ {c} : Left(d)' = Left(d)
      /\ S("disarm", t) \in Left(c)
      /\ \A a, y : S(a, y) \in Left(c)' => S(a, y) \in Left(c)
      /\ \A a, y : S(a, y) \in Left(c) => S(a, y) \in Left(c)' \/ (a = "disarm" /\ y = t)
  BY <1>1, <1>2, StepsDiffer DEF Moved
<1>4. t \in Threads /\ CpuOf[t] = c /\ state[t] = "READY" /\ ~timed[t]
  BY <1>3 DEF SmpInv, TimingFits, DisarmFits, Timers, Waits
<1>5. /\ UNCHANGED <<board, cpuVars, state, rq, waitVars, objVars>>
      /\ armed' = armed \ {t}
      /\ \A u \in Threads \ {t} : cb'[u] = cb[u] /\ (u \in armed' <=> u \in armed)
      /\ cb' \in [Threads -> {Null, "sleep", "notif"}] /\ armed' \subseteq Threads
  BY <1>1, <1>4 DEF StepDisarm, SmpInv, Typed
<1>6. Typed'
  BY <1>2, <1>5 DEF SmpInv, Typed, cpuVars, waitVars, objVars
<1>7. /\ \A d \in Cpus : \A a, y : S(a, y) \in Left(d)' => S(a, y) \in Left(d)
      /\ \A d \in Cpus : \A a, y : S(a, y) \in Left(d) /\ (a # "disarm" \/ y # t) => S(a, y) \in Left(d)'
      /\ \A d \in Cpus : Has(d, "sample")' <=> Has(d, "sample")
      /\ \A d \in Cpus : Has(d, "arm")' <=> Has(d, "arm")
  BY <1>3 DEF Has
<1>8. \A u \in Threads : CpuOf[u] \in Cpus /\ WheelOf(u) \in Cpus /\ WheelOf(u)' = WheelOf(u)
  BY <1>5, SmpAssumption DEF WheelOf
<1>9. \A u \in Threads : Arming(u)' <=> Arming(u)
  BY <1>5, <1>7, <1>8 DEF Arming, cpuVars
<1>10. TimingFits'
  <2>1. ASSUME NEW d \in Cpus PROVE ArmFits(d)'
    BY <1>5, <1>7 DEF SmpInv, TimingFits, ArmFits, cpuVars, waitVars
  <2>2. ASSUME NEW d \in Cpus PROVE ExpireFits(d)'
    <3>1. ASSUME NEW x, S("expire", x) \in Left(d)'
          PROVE  /\ x \in Threads /\ WheelOf(x) = d /\ timed[x] /\ cb[x] = reason[x] /\ x # t
                 /\ x \notin armed /\ ~Arming(x) /\ Has(d, "sample")
      BY <1>4, <1>7, <3>1 DEF SmpInv, TimingFits, ExpireFits
    <3> QED
      BY <1>5, <1>7, <1>8, <1>9, <3>1 DEF ExpireFits, waitVars
  <2>3. ASSUME NEW d \in Cpus PROVE DisarmFits(d)'
    BY <1>5, <1>7, <1>8 DEF SmpInv, TimingFits, DisarmFits
  <2> QED
    BY <2>1, <2>2, <2>3 DEF TimingFits
<1>11. Timers'
  <2>1. \A u \in Threads \ {t} :
          /\ timed'[u] => /\ reason'[u] \in {"sleep", "notif"}
                          /\ reason'[u] = "notif" => WheelOf(u)' = CpuOf[u]
                          /\ u \in armed' \/ Arming(u)' \/ S("expire", u) \in Left(WheelOf(u))'
          /\ u \in armed' => \/ timed'[u] /\ cb'[u] = reason'[u]
                             \/ S("disarm", u) \in Left(CpuOf[u])' /\ WheelOf(u)' = CpuOf[u]
    BY <1>5, <1>7, <1>8, <1>9 DEF SmpInv, Timers, waitVars
  <2>2. t \notin armed' /\ ~timed'[t]
    BY <1>4, <1>5 DEF waitVars
  <2> QED
    BY <1>8, <2>1, <2>2 DEF Timers
<1> QED
  BY <1>1, <1>2, <1>3, <1>4, <1>5, <1>6, <1>10, <1>11, TimeoutKeeps

-----------------------------------------------------------------------------
(* Interrupts and system calls: a CPU in user code enters the kernel.       *)

(* B, at most the running thread, blocks for r, with a timeout or not; W,   *)
(* at most one thread, is made READY and will be queued after the unlock.   *)
Entry(Eps, c, B, W, r, withTimeout) ==
  /\ InUser(c) /\ Left(c) = {}
  /\ \A u \in B : u = current[c] /\ u \in Threads
  /\ \A u \in W : /\ \/ state[u] = "NEW" /\ current[c] = Root
                     \/ state[u] = "BLOCKED" /\ reason[u] \in {"call", "recv"} /\ CpuOf[u] = c
                  /\ state'[u] = "READY" /\ reason'[u] = "none" /\ (timed'[u] <=> timed[u])
  /\ \A u \in B : /\ state'[u] = "BLOCKED" /\ reason'[u] = r /\ (timed'[u] <=> withTimeout)
                  /\ r \in {"call", "recv", "sleep", "notif"}
                  /\ r \in {"call", "recv"} => u \in Eps
                  /\ withTimeout => r \in {"sleep", "notif"}
                  /\ withTimeout /\ r = "notif" => WheelOf(u) = c
  /\ \A u \in Threads : u \notin B /\ u \notin W =>
       state'[u] = state[u] /\ reason'[u] = reason[u] /\ (timed'[u] <=> timed[u])
  /\ \A u \in Threads : waiter' = u => (u \in B /\ r = "notif") \/ (waiter = u /\ u \notin W)
  /\ UNCHANGED <<board, released, ready, online, current, deferred, rq, timerVars>>
  /\ ipi' = ipi \/ ipi' = ipi \ {c}
  /\ \A d \in Cpus \ {c} : Left(d)' = Left(d)
  /\ S("kick", Null) \in Left(c)' /\ S("sample", Null) \in Left(c)'
  /\ \A u \in W : S("enqueue", u) \in Left(c)'
  /\ withTimeout => \A u \in B : S("arm", r) \in Left(c)'
  /\ \A a, y : S(a, y) \in Left(c)' =>
       \/ a \in {"kick", "sample"}
       \/ a = "arm" /\ y = r /\ withTimeout /\ B # {}
       \/ a = "dequeue" /\ y \in B /\ r \in {"call", "recv"}
       \/ a \in {"enqueue", "mark"} /\ y \in W
       \/ a = "disarm" /\ y \in W /\ CpuOf[y] = c

LEMMA CallKeeps ==
  ASSUME NEW Eps, SmpInv(Eps), NEW c \in Cpus, NEW B, NEW W \in SUBSET Threads, NEW r, NEW withTimeout \in BOOLEAN,
         Typed', Lined', Receivers', Entry(Eps, c, B, W, r, withTimeout)
  PROVE  SmpInv(Eps)'
<1> USE DEF Entry
<1>1. /\ \A d \in Cpus \ {c} : Left(d)' = Left(d)
      /\ Left(c) = {}
      /\ \A a, y : S(a, y) \in Left(c)' =>
           \/ a \in {"kick", "sample"}
           \/ a = "arm" /\ y = r /\ withTimeout /\ B # {}
           \/ a = "dequeue" /\ y \in B /\ r \in {"call", "recv"}
           \/ a \in {"enqueue", "mark"} /\ y \in W
           \/ a = "disarm" /\ y \in W /\ CpuOf[y] = c
  OBVIOUS
<1>2. UNCHANGED <<board, released, ready, online, current, deferred, rq, timerVars>>
  OBVIOUS
<1>3. \A d \in Cpus \ {c} : (\A a : Has(d, a)' <=> Has(d, a)) /\ (Leaving(d)' <=> Leaving(d))
  BY <1>1, Elsewhere
<1>4. \A a : ~Has(c, a) /\ ~Leaving(c) /\ Has(c, "sample")' /\ Leaving(c)'
  BY <1>1 DEF Has, Leaving
<1>5. /\ current[c] # Null
      /\ current[c] \in Threads =>
           CpuOf[current[c]] = c /\ state[current[c]] = "RUNNING" /\ ~timed[current[c]] /\ current[c] \notin armed
  <2>1. current[c] # Null
    BY DEF InUser
  <2>2. current[c] \in Threads => CpuOf[current[c]] = c /\ state[current[c]] = "RUNNING"
    BY <1>4 DEF SmpInv, Hosting
  <2>3. current[c] \in Threads => ~timed[current[c]]
    BY <2>2 DEF SmpInv, Timers, Waits
  <2>4. current[c] \in Threads => current[c] \notin armed
    BY <1>1, <2>2, <2>3 DEF SmpInv, Timers
  <2> QED
    BY <2>1, <2>2, <2>3, <2>4
<1>6. \A u \in W : u \notin B /\ ~timed[u] /\ u \notin armed /\ u \notin rq /\ state[u] # "READY" /\ state[u] # "RUNNING"
  <2>1. ASSUME NEW u \in W
        PROVE  state[u] # "READY" /\ state[u] # "RUNNING" /\ reason[u] \in {"none", "call", "recv"}
    BY DEF SmpInv, Waits
  <2>2. \A u \in W : u \notin B /\ ~timed[u] /\ u \notin rq
    BY <1>5, <2>1 DEF SmpInv, Timers, Placed
  <2>3. ASSUME NEW u \in W, u \in armed PROVE FALSE
    <3>1. S("disarm", u) \in Left(CpuOf[u]) /\ CpuOf[u] \in Cpus
      BY <2>2, <2>3, Places DEF SmpInv, Timers
    <3> QED
      BY <2>1, <3>1 DEF SmpInv, TimingFits, DisarmFits
  <2> QED
    BY <2>1, <2>2, <2>3
<1>7. \A u \in Threads : state[u] = "READY" => u \notin B /\ u \notin W /\ state'[u] = "READY"
  BY <1>5, <1>6
<1>8. \A u \in Threads : CpuOf[u] \in Cpus /\ WheelOf(u) \in Cpus /\ WheelOf(u)' = WheelOf(u)
  BY <1>2, SmpAssumption DEF WheelOf
<1>9. /\ \A u \in Threads : u \notin B => (Arming(u)' <=> Arming(u))
      /\ withTimeout => \A u \in B : Arming(u)'
  <2>1. ASSUME NEW u \in Threads, u \notin B PROVE Arming(u)' <=> Arming(u)
    <3>1. CASE CpuOf[u] # c
      BY <1>2, <1>3, <1>8, <3>1 DEF Arming
    <3>2. CASE CpuOf[u] = c
      <4>1. Has(c, "arm")' => B # {}
        BY <1>1 DEF Has
      <4>2. ~Arming(u)
        BY <1>4, <3>2 DEF Arming
      <4>3. ~Arming(u)'
        BY <1>2, <2>1, <3>2, <4>1 DEF Arming
      <4> QED
        BY <4>2, <4>3
    <3> QED
      BY <3>1, <3>2
  <2>2. ASSUME withTimeout, NEW u \in B PROVE Arming(u)'
    <3>1. CpuOf[u] = c /\ current'[c] = u
      BY <1>2, <1>5
    <3>2. Has(c, "arm")'
      BY <2>2 DEF Has
    <3> QED
      BY <3>1, <3>2 DEF Arming
  <2> QED
    BY <2>1, <2>2
<1>10. Booting'
  <2>1. \A d \in Cpus \ {c} : Booted(d)'
    BY <1>1, <1>2, <1>3 DEF SmpInv, Booting, Booted
  <2>2. \A a, y : S(a, y) \in Left(c)' => a \notin BootOps \cup {"ready"}
    BY <1>1 DEF BootOps
  <2>3. ~Has(c, "publish")' /\ ~Has(c, "release")' /\ ~Has(c, "await")' /\ ~Has(c, "park")' /\ ~Has(c, "ready")'
    BY <2>2 DEF Has, BootOps
  <2>4. Booted(c)'
    BY <1>2, <1>5, <2>2, <2>3 DEF Booted
  <2> QED
    BY <2>1, <2>4 DEF Booting
<1>11. AllStarted'
  <2>1. Has(Cpu0, "first")' => c # Cpu0 /\ Has(Cpu0, "first")
    BY <1>1, <1>3, SmpAssumption DEF Has
  <2>2. ASSUME Has(Cpu0, "first")', NEW u \in Threads \ {Root} PROVE state'[u] = "NEW"
    <3>1. state[u] = "NEW" /\ c # Cpu0
      BY <2>1, <2>2 DEF SmpInv, AllStarted
    <3>2. u \notin W
      BY <1>5, <3>1, SmpAssumption
    <3> QED
      BY <1>5, <3>1, <3>2
  <2>3. \A d : \A a \in {"release", "await"} : S(a, d) \in Left(Cpu0) => S(a, d) \in Left(Cpu0)'
    BY <1>1, SmpAssumption
  <2> QED
    BY <1>2, <2>2, <2>3 DEF SmpInv, AllStarted
<1>12. Notified'
  BY <1>2 DEF SmpInv, Notified
<1>13. QueueingFits'
  <2>1. ASSUME NEW d \in Cpus PROVE EnqueueFits(d)'
    <3>1. ASSUME NEW x, S("enqueue", x) \in Left(d)'
          PROVE  /\ x \in Threads /\ state'[x] = "READY" /\ x \notin rq'
                 /\ S("switch", x) \notin Left(CpuOf[x])' /\ S("publish", x) \notin Left(CpuOf[x])'
                 /\ \A e \in Cpus \ {d} : S("enqueue", x) \notin Left(e)'
      <4>1. CASE d = c
        <5>1. x \in W
          BY <1>1, <3>1, <4>1
        <5>2. \A e \in Cpus : /\ S("enqueue", x) \notin Left(e)
                              /\ S("switch", x) \notin Left(e)
                              /\ S("publish", x) \notin Left(e)
          BY <1>6, <5>1, SmpAssumption DEF SmpInv, QueueingFits, EnqueueFits, PickFits
        <5>3. \A e \in Cpus : S("switch", x) \notin Left(e)' /\ S("publish", x) \notin Left(e)'
          BY <1>1, <5>2
        <5> QED
          BY <1>1, <1>2, <1>6, <1>8, <4>1, <5>1, <5>2, <5>3
      <4>2. CASE d # c
        <5>1. /\ x \in Threads /\ state[x] = "READY" /\ x \notin rq
              /\ S("switch", x) \notin Left(CpuOf[x]) /\ S("publish", x) \notin Left(CpuOf[x])
              /\ \A e \in Cpus \ {d} : S("enqueue", x) \notin Left(e)
          BY <1>1, <3>1, <4>2 DEF SmpInv, QueueingFits, EnqueueFits
        <5>2. x \notin W /\ state'[x] = "READY"
          BY <1>7, <5>1
        <5>3. S("switch", x) \notin Left(CpuOf[x])' /\ S("publish", x) \notin Left(CpuOf[x])'
          BY <1>1, <1>8, <5>1
        <5>4. \A e \in Cpus \ {d} : S("enqueue", x) \notin Left(e)'
          BY <1>1, <5>1, <5>2
        <5> QED
          BY <1>2, <5>1, <5>2, <5>3, <5>4
      <4> QED
        BY <4>1, <4>2
    <3> QED
      BY <3>1 DEF EnqueueFits
  <2>2. ASSUME NEW d \in Cpus PROVE PickFits(d)'
    <3>1. ASSUME NEW x, S("switch", x) \in Left(d)' \/ S("publish", x) \in Left(d)'
          PROVE  x = Idle \/ (x \in Threads /\ CpuOf[x] = d /\ state[x] = "READY" /\ x \notin rq)
      <4>1. S("switch", x) \in Left(d) \/ S("publish", x) \in Left(d)
        BY <1>1, <3>1
      <4> QED
        BY <4>1 DEF SmpInv, QueueingFits, PickFits
    <3> QED
      BY <1>2, <1>7, <3>1 DEF PickFits
  <2>3. ASSUME NEW d \in Cpus PROVE SwitchFits(d)'
    <3>1. Has(d, "switch")' => d # c /\ Has(d, "switch")
      BY <1>1, <1>3 DEF Has
    <3>2. ASSUME d # c, current[d] \in Threads, state[current[d]] # "RUNNING" PROVE state'[current[d]] # "RUNNING"
      BY <3>2
    <3> QED
      BY <1>2, <3>1, <3>2 DEF SmpInv, QueueingFits, SwitchFits
  <2> QED
    BY <2>1, <2>2, <2>3 DEF QueueingFits
<1>14. WakingFits'
  <2>1. ASSUME NEW d \in Cpus PROVE DequeueFits(d)'
    <3>1. ASSUME NEW x, S("dequeue", x) \in Left(d)'
          PROVE  x \in Threads /\ CpuOf[x] = d /\ reason'[x] \in {"call", "recv"}
      <4>1. CASE d = c
        BY <1>1, <1>5, <3>1, <4>1
      <4>2. CASE d # c
        <5>1. x \in Threads /\ CpuOf[x] = d /\ reason[x] \in {"call", "recv"} /\ state[x] = "BLOCKED"
          BY <1>1, <3>1, <4>2 DEF SmpInv, WakingFits, DequeueFits, Waits
        <5>2. x \notin B /\ x \notin W
          BY <1>5, <4>2, <5>1
        <5> QED
          BY <5>1, <5>2
      <4> QED
        BY <4>1, <4>2
    <3> QED
      BY <3>1 DEF DequeueFits
  <2>2. ASSUME NEW d \in Cpus PROVE MarkFits(d)'
    <3>1. ASSUME NEW x, S("mark", x) \in Left(d)'
          PROVE  x \in Threads /\ state'[x] # "NEW" /\ Has(d, "sample")'
      <4>1. CASE d = c
        BY <1>1, <1>4, <3>1, <4>1
      <4>2. CASE d # c
        <5>1. x \in Threads /\ state[x] # "NEW" /\ Has(d, "sample")
          BY <1>1, <3>1, <4>2 DEF SmpInv, WakingFits, MarkFits
        <5> QED
          BY <1>3, <4>2, <5>1
      <4> QED
        BY <4>1, <4>2
    <3> QED
      BY <3>1 DEF MarkFits
  <2> QED
    BY <2>1, <2>2 DEF WakingFits
<1>15. \A u \in Threads : timed[u] => u \notin B /\ u \notin W /\ timed'[u] /\ reason'[u] = reason[u]
  BY <1>5, <1>6
<1>16. TimingFits'
  <2>1. ASSUME NEW d \in Cpus PROVE ArmFits(d)'
    <3>1. ASSUME NEW x, S("arm", x) \in Left(d)'
          PROVE  /\ current'[d] \in Threads /\ timed'[current'[d]] /\ reason'[current'[d]] = x
                 /\ current'[d] \notin armed'
      <4>1. CASE d = c
        BY <1>1, <1>2, <1>5, <3>1, <4>1 DEF timerVars
      <4>2. CASE d # c
        <5>1. /\ current[d] \in Threads /\ timed[current[d]] /\ reason[current[d]] = x
              /\ current[d] \notin armed
          BY <1>1, <3>1, <4>2 DEF SmpInv, TimingFits, ArmFits
        <5> QED
          BY <1>2, <1>15, <5>1 DEF timerVars
      <4> QED
        BY <4>1, <4>2
    <3> QED
      BY <3>1 DEF ArmFits
  <2>2. ASSUME NEW d \in Cpus PROVE ExpireFits(d)'
    <3>1. ASSUME NEW x, S("expire", x) \in Left(d)'
          PROVE  /\ x \in Threads /\ WheelOf(x) = d /\ timed[x] /\ cb[x] = reason[x]
                 /\ x \notin armed /\ ~Arming(x) /\ Has(d, "sample")'
      BY <1>1, <1>3, <3>1 DEF SmpInv, TimingFits, ExpireFits
    <3> QED
      BY <1>2, <1>8, <1>9, <1>15, <3>1 DEF ExpireFits, timerVars
  <2>3. ASSUME NEW d \in Cpus PROVE DisarmFits(d)'
    <3>1. ASSUME NEW x, S("disarm", x) \in Left(d)'
          PROVE  x \in Threads /\ CpuOf[x] = d /\ state'[x] = "READY" /\ (x \in armed' => WheelOf(x)' = d)
      <4>1. CASE d = c
        BY <1>1, <1>2, <1>6, <3>1, <4>1 DEF timerVars
      <4>2. CASE d # c
        <5>1. x \in Threads /\ CpuOf[x] = d /\ state[x] = "READY" /\ (x \in armed => WheelOf(x) = d)
          BY <1>1, <3>1, <4>2 DEF SmpInv, TimingFits, DisarmFits
        <5> QED
          BY <1>2, <1>7, <1>8, <5>1 DEF timerVars
      <4> QED
        BY <4>1, <4>2
    <3> QED
      BY <3>1 DEF DisarmFits
  <2> QED
    BY <2>1, <2>2, <2>3 DEF TimingFits
<1>17. Hosting'
  <2>1. ASSUME NEW d \in Cpus, d # c, current[d] \in Threads
        PROVE  CpuOf[current[d]] = d /\ (state'[current[d]] = "RUNNING" \/ Leaving(d)')
    <3>1. CpuOf[current[d]] = d /\ (state[current[d]] = "RUNNING" \/ Leaving(d))
      BY <2>1 DEF SmpInv, Hosting
    <3>2. current[d] \notin B
      BY <1>5, <2>1, <3>1
    <3> QED
      BY <1>3, <1>6, <2>1, <3>1, <3>2
  <2> QED
    BY <1>2, <1>4, <1>5, <2>1 DEF Hosting
<1>18. Placed'
  <2>1. \A u \in Threads : Coming(u) => Coming(u)'
    BY <1>1 DEF Coming
  <2>2. \A u \in W : Coming(u)'
    BY DEF Coming
  <2>3. \A u \in Threads : state'[u] = "READY" => state[u] = "READY" \/ u \in W
    OBVIOUS
  <2>4. \A u \in Threads : state'[u] = "RUNNING" => state[u] = "RUNNING"
    OBVIOUS
  <2> QED
    BY <1>2, <1>7, <2>1, <2>2, <2>3, <2>4 DEF SmpInv, Placed
<1>19. Waits(Eps)'
  <2>1. ASSUME NEW u \in Threads
        PROVE  /\ state'[u] = "BLOCKED" <=> reason'[u] # "none"
               /\ reason'[u] \in {"call", "recv"} => u \in Eps
               /\ waiter' = u => reason'[u] = "notif"
    <3>1. CASE u \in B
      BY <1>5, <3>1 DEF SmpInv, Waits
    <3>2. CASE u \in W
      BY <1>6, <3>2
    <3>3. CASE u \notin B /\ u \notin W
      BY <3>3 DEF SmpInv, Waits
    <3> QED
      BY <3>1, <3>2, <3>3
  <2> QED
    BY <2>1 DEF Waits
<1>20. Timers'
  <2>1. ASSUME NEW u \in Threads, u \notin B
        PROVE  /\ timed'[u] => /\ reason'[u] \in {"sleep", "notif"}
                               /\ reason'[u] = "notif" => WheelOf(u)' = CpuOf[u]
                               /\ u \in armed' \/ Arming(u)' \/ S("expire", u) \in Left(WheelOf(u))'
               /\ u \in armed' => \/ timed'[u] /\ cb'[u] = reason'[u]
                                  \/ S("disarm", u) \in Left(CpuOf[u])' /\ WheelOf(u)' = CpuOf[u]
    <3>1. \A d \in Cpus : \A a : S(a, u) \in Left(d) => S(a, u) \in Left(d)'
      BY <1>1
    <3>2. timed'[u] => timed[u]
      BY <1>6, <2>1
    <3> QED
      BY <1>2, <1>8, <1>9, <1>15, <2>1, <3>1, <3>2 DEF SmpInv, Timers, timerVars
  <2>2. ASSUME NEW u \in B
        PROVE  /\ timed'[u] => /\ reason'[u] \in {"sleep", "notif"}
                               /\ reason'[u] = "notif" => WheelOf(u)' = CpuOf[u]
                               /\ Arming(u)'
               /\ u \notin armed'
    BY <1>2, <1>5, <1>8, <1>9, <2>2 DEF timerVars
  <2> QED
    BY <1>8, <2>1, <2>2 DEF Timers
<1>21. Noticed'
  <2>1. \A d \in Cpus : \A x : Bound(d, x)' => Bound(d, x) /\ d # c
    BY <1>1, <1>2, <1>3, <1>4 DEF Bound
  <2>2. \A d \in Cpus \ {c} : \A u : Told(d, u) => Told(d, u)'
    BY <1>1, <1>2 DEF Told
  <2> QED
    BY <1>2, <2>1, <2>2 DEF SmpInv, Noticed, Queued
<1> QED
  BY <1>10, <1>11, <1>12, <1>13, <1>14, <1>16, <1>17, <1>18, <1>19, <1>20, <1>21 DEF SmpInv

(* The shapes in which handlers leave work behind.                          *)
LEMMA Bare ==
  ASSUME NEW Eps, SmpInv(Eps), NEW c \in Cpus, InUser(c), todo' = [todo EXCEPT ![c] = Exit]
  PROVE  /\ todo' \in [Cpus -> Seq(Steps)] /\ Lined'
         /\ \A d \in Cpus \ {c} : Left(d)' = Left(d)
         /\ Left(c) = {} /\ Left(c)' = {S("kick", Null), S("sample", Null)}
<1>1. todo' \in [Cpus -> Seq(Steps)] /\ todo'[c] = Exit /\ \A d \in Cpus \ {c} : todo'[d] = todo[d]
  BY ExitShape DEF SmpInv, Typed
<1>2. Left(c) = {}
  BY DEF InUser, Left
<1> QED
  BY <1>1, <1>2, ExitShape, LeftIsElems DEF SmpInv, Lined

LEMMA ExitOnly == <<>> \o Exit = Exit
<1>1. Exit \in Seq(Steps)
  BY ExitShape
<1> QED
  BY <1>1, ConcatEmptySeq

LEMMA Returned ==
  ASSUME NEW Eps, SmpInv(Eps), NEW c \in Cpus, InUser(c),
         NEW p \in Seq(Steps), Ordered(p), todo' = [todo EXCEPT ![c] = p \o Exit],
         \A e \in Elems(p) : e.op \notin LastOps
  PROVE  /\ todo' \in [Cpus -> Seq(Steps)] /\ Lined'
         /\ \A d \in Cpus \ {c} : Left(d)' = Left(d)
         /\ Left(c) = {} /\ Left(c)' = Elems(p) \cup {S("kick", Null), S("sample", Null)}
<1>1. Typed /\ Lined
  BY DEF SmpInv
<1> QED
  BY <1>1, EntryLeft

(* An entry that moves no thread.                                           *)
LEMMA IdleCallKeeps ==
  ASSUME NEW Eps, SmpInv(Eps), NEW c \in Cpus, Typed', InUser(c), todo' = [todo EXCEPT ![c] = Exit],
         UNCHANGED <<board, released, ready, online, current, deferred, state, rq, waitVars, timerVars, waiter, recvQ>>,
         ipi' = ipi \/ ipi' = ipi \ {c}
  PROVE  SmpInv(Eps)'
<1>1. /\ todo' \in [Cpus -> Seq(Steps)] /\ Lined'
      /\ \A d \in Cpus \ {c} : Left(d)' = Left(d)
      /\ Left(c) = {} /\ Left(c)' = {S("kick", Null), S("sample", Null)}
  BY Bare
<1>2. \A a, y : S(a, y) \in Left(c)' => a \in {"kick", "sample"}
  BY <1>1, StepsDiffer
<1>3. Receivers'
  BY DEF SmpInv, Receivers, waitVars
<1>4. PICK B, W, r, withTimeout : B = {} /\ W = {} /\ r = "none" /\ withTimeout = FALSE
  OBVIOUS
<1>5. \A u \in Threads : waiter' = u => (u \in B /\ r = "notif") \/ (waiter = u /\ u \notin W)
  BY <1>4
<1>6. \A u \in Threads : u \notin B /\ u \notin W =>
        state'[u] = state[u] /\ reason'[u] = reason[u] /\ (timed'[u] <=> timed[u])
  BY DEF waitVars
<1>7. UNCHANGED <<board, released, ready, online, current, deferred, rq, timerVars>>
  OBVIOUS
<1>8. S("kick", Null) \in Left(c)' /\ S("sample", Null) \in Left(c)'
  BY <1>1
<1>9. withTimeout \in BOOLEAN /\ W \in SUBSET Threads
  BY <1>4
<1>10. Entry(Eps, c, B, W, r, withTimeout)
  BY <1>1, <1>2, <1>4, <1>5, <1>6, <1>7, <1>8 DEF Entry
<1> QED
  BY <1>1, <1>3, <1>9, <1>10, CallKeeps

LEMMA TakeIpiKeeps ==
  ASSUME NEW Eps, SmpInv(Eps), NEW c \in Cpus, TakeIpi(c)
  PROVE  SmpInv(Eps)'
<1>1. /\ InUser(c) /\ todo' = [todo EXCEPT ![c] = Exit] /\ ipi' = ipi \ {c} /\ needs' = [needs EXCEPT ![c] = TRUE]
      /\ UNCHANGED <<board, released, ready, online, current, deferred, state, rq, waitVars, timerVars, objVars>>
  BY DEF TakeIpi
<1>2. todo' \in [Cpus -> Seq(Steps)]
  BY <1>1, Bare
<1>3. Typed'
  BY <1>1, <1>2 DEF SmpInv, Typed, waitVars, timerVars, objVars
<1> QED
  BY <1>1, <1>3, IdleCallKeeps DEF objVars

LEMMA NotifTakeKeeps ==
  ASSUME NEW Eps, SmpInv(Eps), NEW c \in Cpus, NotifTake(c)
  PROVE  SmpInv(Eps)'
<1>1. /\ InUser(c) /\ bit' = FALSE
      /\ UNCHANGED <<board, cpuVars, state, rq, waitVars, timerVars, waiter, sendQ, recvQ, owes>>
  BY DEF NotifTake, Calls
<1>2. todo' = [todo EXCEPT ![c] = Exit]
  BY ExitOnly DEF NotifTake, Return
<1>3. todo' \in [Cpus -> Seq(Steps)]
  BY <1>1, <1>2, Bare
<1>4. Typed'
  BY <1>1, <1>3 DEF SmpInv, Typed, cpuVars, waitVars, timerVars
<1> QED
  BY <1>1, <1>2, <1>4, IdleCallKeeps DEF cpuVars

(* A tick that takes one timeout off the wheel.                             *)
LEMMA TickKeeps ==
  ASSUME NEW Eps, SmpInv(Eps), NEW c \in Cpus, Tick(c)
  PROVE  SmpInv(Eps)'
<1>1. InUser(c) /\ UNCHANGED <<board, cpuVars, state, rq, waitVars, cb, objVars>>
  BY DEF Tick
<1>2. CASE todo' = [todo EXCEPT ![c] = Exit] /\ UNCHANGED armed
  <2>1. todo' \in [Cpus -> Seq(Steps)]
    BY <1>1, <1>2, Bare
  <2>2. Typed'
    BY <1>1, <1>2, <2>1 DEF SmpInv, Typed, cpuVars, waitVars, objVars
  <2> QED
    BY <1>1, <1>2, <2>2, IdleCallKeeps DEF cpuVars, timerVars, objVars
<1>3. ASSUME NEW t \in armed, WheelOf(t) = c, armed' = armed \ {t},
             todo' = [todo EXCEPT ![c] = <<S("expire", t)>> \o Exit]
      PROVE  SmpInv(Eps)'
  <2>1. t \in Threads
    BY <1>3 DEF SmpInv, Typed
  <2>2. /\ todo' \in [Cpus -> Seq(Steps)] /\ Lined'
        /\ \A d \in Cpus \ {c} : Left(d)' = Left(d)
        /\ Left(c) = {} /\ Left(c)' = {S("expire", t), S("kick", Null), S("sample", Null)}
    <3>1. PICK p : p = <<S("expire", t)>>
      OBVIOUS
    <3>2. S("expire", t) \in Steps /\ S("expire", t).op = "expire"
      BY <2>1, StepTyped DEF OpNames, S
    <3>3. p \in Seq(Steps) /\ Ordered(p) /\ Elems(p) = {S("expire", t)}
      BY <3>1, <3>2, One
    <3>4. \A e \in Elems(p) : e.op \notin LastOps
      BY <3>2, <3>3 DEF LastOps
    <3>5. /\ todo' \in [Cpus -> Seq(Steps)] /\ Lined'
          /\ \A d \in Cpus \ {c} : Left(d)' = Left(d)
          /\ Left(c) = {} /\ Left(c)' = Elems(p) \cup {S("kick", Null), S("sample", Null)}
      BY <1>1, <1>3, <3>1, <3>3, <3>4, Returned
    <3> QED
      BY <3>3, <3>5
  <2>3. /\ \A a, y : S(a, y) \in Left(c)' <=>
             (a = "expire" /\ y = t) \/ (a = "kick" /\ y = Null) \/ (a = "sample" /\ y = Null)
        /\ \A a, y : S(a, y) \notin Left(c)
    BY <2>2, StepsDiffer
  <2>4. timed[t] /\ cb[t] = reason[t]
    <3>1. CpuOf[t] = WheelOf(t) => S("disarm", t) \notin Left(CpuOf[t])
      BY <1>3, <2>3
    <3> QED
      BY <2>1, <3>1 DEF SmpInv, Timers
  <2>5. ~Arming(t)
    BY <2>1, SmpAssumption DEF Arming, Has, SmpInv, TimingFits, ArmFits
  <2>6. /\ \A d \in Cpus \ {c} : (\A a : Has(d, a)' <=> Has(d, a)) /\ (Leaving(d)' <=> Leaving(d))
        /\ \A a : ~Has(c, a) /\ ~Leaving(c) /\ Has(c, "sample")' /\ Leaving(c)'
    <3>1. Has(c, "sample")' /\ Leaving(c)' /\ ~Leaving(c) /\ \A a : ~Has(c, a)
      BY <2>3 DEF Has, Leaving
    <3> QED
      BY <2>2, <3>1, Elsewhere
  <2>7. \A u \in Threads : CpuOf[u] \in Cpus /\ WheelOf(u) \in Cpus /\ WheelOf(u)' = WheelOf(u)
    BY <1>1, SmpAssumption DEF WheelOf
  <2>8. \A u \in Threads : Arming(u)' <=> Arming(u)
    <3>1. ~Has(c, "arm")'
      BY <2>3 DEF Has
    <3> QED
      BY <1>1, <2>6, <2>7, <3>1 DEF Arming, cpuVars
  <2>9. Typed'
    BY <1>1, <1>3, <2>2 DEF SmpInv, Typed, cpuVars, waitVars, objVars
  <2>10. Booting'
    <3>1. \A d \in Cpus \ {c} : Booted(d)'
      BY <1>1, <2>2, <2>6 DEF SmpInv, Booting, Booted, cpuVars
    <3>2. Booted(c)'
      BY <1>1, <2>3 DEF Booted, BootOps, Has, InUser, cpuVars
    <3> QED
      BY <3>1, <3>2 DEF Booting
  <2>11. AllStarted'
    <3>1. Has(Cpu0, "first")' => Has(Cpu0, "first")
      BY <2>3, <2>6, SmpAssumption DEF Has
    <3>2. \A a \in {"release", "await"} : \A d : S(a, d) \in Left(Cpu0) => S(a, d) \in Left(Cpu0)'
      BY <2>2, <2>3, SmpAssumption
    <3> QED
      BY <1>1, <3>1, <3>2 DEF SmpInv, AllStarted, cpuVars
  <2>12. Notified'
    BY <1>1 DEF SmpInv, Notified, cpuVars
  <2>13. QueueingFits'
    <3>1. \A d \in Cpus : EnqueueFits(d)'
      <4>1. ASSUME NEW d \in Cpus, NEW x, S("enqueue", x) \in Left(d)'
            PROVE  S("enqueue", x) \in Left(d) /\ state'[x] = "READY" /\ x \notin rq'
        <5>1. S("enqueue", x) \in Left(d)
          BY <2>2, <2>3, <4>1
        <5> QED
          BY <1>1, <5>1 DEF SmpInv, QueueingFits, EnqueueFits
      <4>2. ASSUME NEW d \in Cpus, NEW a \in {"switch", "publish"}, NEW x, S(a, x) \in Left(d)'
            PROVE  S(a, x) \in Left(d)
        BY <2>2, <2>3, <4>2
      <4> QED
        BY <4>1, <4>2, EnqueuesKept
    <3>2. \A d \in Cpus : PickFits(d)'
      BY <1>1, <2>2, <2>3 DEF SmpInv, QueueingFits, PickFits
    <3>3. \A d \in Cpus : SwitchFits(d)'
      BY <1>1, <2>3, <2>6 DEF SmpInv, QueueingFits, SwitchFits, Has, cpuVars
    <3> QED
      BY <3>1, <3>2, <3>3 DEF QueueingFits
  <2>14. WakingFits'
    BY <1>1, <2>2, <2>3, <2>6 DEF SmpInv, WakingFits, DequeueFits, MarkFits, waitVars
  <2>15. TimingFits'
    <3>1. \A d \in Cpus : ArmFits(d)'
      BY <1>1, <1>3, <2>2, <2>3 DEF SmpInv, TimingFits, ArmFits, cpuVars, waitVars
    <3>2. ASSUME NEW d \in Cpus PROVE ExpireFits(d)'
      <4>1. CASE d = c
        BY <1>1, <1>3, <2>1, <2>3, <2>4, <2>5, <2>6, <2>7, <2>8, <4>1 DEF ExpireFits, waitVars
      <4>2. CASE d # c
        BY <1>1, <1>3, <2>2, <2>6, <2>7, <2>8, <4>2 DEF SmpInv, TimingFits, ExpireFits, waitVars
      <4> QED
        BY <4>1, <4>2
    <3>3. \A d \in Cpus : DisarmFits(d)'
      BY <1>1, <1>3, <2>2, <2>3, <2>7 DEF SmpInv, TimingFits, DisarmFits
    <3> QED
      BY <3>1, <3>2, <3>3 DEF TimingFits
  <2>16. Hosting'
    BY <1>1, <2>6 DEF SmpInv, Hosting, cpuVars
  <2>17. Placed'
    <3>1. \A u \in Threads : Coming(u) => Coming(u)'
      BY <2>2, <2>3 DEF Coming
    <3> QED
      BY <1>1, <3>1 DEF SmpInv, Placed, cpuVars
  <2>18. Waits(Eps)' /\ Receivers'
    BY <1>1 DEF SmpInv, Waits, Receivers, waitVars, objVars
  <2>19. Timers'
    <3>1. \A d \in Cpus : \A a, y : S(a, y) \in Left(d) => S(a, y) \in Left(d)'
      BY <2>2, <2>3
    <3>2. S("expire", t) \in Left(WheelOf(t))'
      BY <1>3, <2>1, <2>3, <2>7
    <3>3. \A u \in Threads \ {t} :
            /\ timed'[u] => /\ reason'[u] \in {"sleep", "notif"}
                            /\ reason'[u] = "notif" => WheelOf(u)' = CpuOf[u]
                            /\ u \in armed' \/ Arming(u)' \/ S("expire", u) \in Left(WheelOf(u))'
            /\ u \in armed' => \/ timed'[u] /\ cb'[u] = reason'[u]
                               \/ S("disarm", u) \in Left(CpuOf[u])' /\ WheelOf(u)' = CpuOf[u]
      BY <1>1, <1>3, <2>7, <2>8, <3>1 DEF SmpInv, Timers, waitVars
    <3>4. t \notin armed' /\ reason'[t] \in {"sleep", "notif"} /\ (reason'[t] = "notif" => WheelOf(t)' = CpuOf[t])
      BY <1>1, <1>3, <2>1, <2>4, <2>7 DEF SmpInv, Timers, waitVars
    <3> QED
      BY <2>7, <3>2, <3>3, <3>4 DEF Timers
  <2>20. Noticed'
    <3>1. \A d \in Cpus : \A x : Bound(d, x)' => Bound(d, x)
      BY <1>1, <2>2, <2>3, <2>6 DEF Bound, cpuVars
    <3>2. \A d \in Cpus : \A u : Told(d, u) => Told(d, u)'
      BY <1>1, <2>2, <2>3 DEF Told, cpuVars
    <3> QED
      BY <1>1, <3>1, <3>2 DEF SmpInv, Noticed, Queued
  <2> QED
    BY <2>2, <2>9, <2>10, <2>11, <2>12, <2>13, <2>14, <2>15, <2>16, <2>17, <2>18, <2>19, <2>20 DEF SmpInv
<1> QED
  BY <1>2, <1>3 DEF Tick

LEMMA EnqueueShape ==
  ASSUME NEW t \in Threads
  PROVE  /\ Enqueue(t) \in Seq(Steps) /\ Ordered(Enqueue(t))
         /\ Elems(Enqueue(t)) = {S("enqueue", t), S("mark", t)}
<1>1. S("enqueue", t) \in Steps /\ S("mark", t) \in Steps
  BY StepTyped DEF OpNames
<1>2. S("enqueue", t).op = "enqueue" /\ S("enqueue", t).x = t
  BY DEF S
<1> QED
  BY <1>1, <1>2, Two DEF Enqueue

(* One step, then the one that queues a thread.                             *)
LEMMA ThenEnqueue ==
  ASSUME NEW t \in Threads, NEW b \in {"dequeue", "disarm"}, NEW u \in Threads
  PROVE  /\ <<S(b, u)>> \o Enqueue(t) \in Seq(Steps) /\ Ordered(<<S(b, u)>> \o Enqueue(t))
         /\ Elems(<<S(b, u)>> \o Enqueue(t)) = {S(b, u), S("enqueue", t), S("mark", t)}
<1>1. PICK p : p = <<S(b, u)>>
  OBVIOUS
<1>2. S(b, u) \in Steps /\ S(b, u).op = b
  BY StepTyped DEF OpNames, S
<1>3. p \in Seq(Steps) /\ Ordered(p) /\ Elems(p) = {S(b, u)}
  BY <1>1, <1>2, One
<1>4. PICK q : q = Enqueue(t)
  OBVIOUS
<1>5. q \in Seq(Steps) /\ Ordered(q) /\ Elems(q) = {S("enqueue", t), S("mark", t)}
  BY <1>4, EnqueueShape
<1>6. /\ \A e \in Elems(q) : e.op \notin FirstOps
      /\ \A e \in Elems(p) : e.op \notin LastOps /\ e.op \notin {"mark", "expire"}
  BY <1>2, <1>3, <1>5 DEF FirstOps, LastOps, S
<1>7. p \o q \in Seq(Steps) /\ Ordered(p \o q) /\ Elems(p \o q) = Elems(p) \cup Elems(q)
  BY <1>3, <1>5, <1>6, Joined
<1> QED
  BY <1>1, <1>3, <1>4, <1>5, <1>7

LEMMA SpawnKeeps ==
  ASSUME NEW Eps, SmpInv(Eps), NEW c \in Cpus, NEW t \in Threads, Spawn(c, t)
  PROVE  SmpInv(Eps)'
<1>1. /\ InUser(c) /\ current[c] = Root /\ state[t] = "NEW"
      /\ state' = [state EXCEPT ![t] = "READY"]
      /\ UNCHANGED <<board, cpuVars, rq, waitVars, timerVars, objVars>>
  BY DEF Spawn, Calls
<1>2. /\ todo' \in [Cpus -> Seq(Steps)] /\ Lined'
      /\ \A d \in Cpus \ {c} : Left(d)' = Left(d)
      /\ Left(c) = {} /\ Left(c)' = {S("enqueue", t), S("mark", t)} \cup {S("kick", Null), S("sample", Null)}
  <2>1. PICK p : p = Enqueue(t)
    OBVIOUS
  <2>2. p \in Seq(Steps) /\ Ordered(p) /\ Elems(p) = {S("enqueue", t), S("mark", t)}
    BY <2>1, EnqueueShape
  <2>3. \A e \in Elems(p) : e.op \notin LastOps
    BY <2>2 DEF LastOps, S
  <2>4. todo' = [todo EXCEPT ![c] = p \o Exit]
    BY <2>1 DEF Spawn, Return
  <2>5. /\ todo' \in [Cpus -> Seq(Steps)] /\ Lined'
        /\ \A d \in Cpus \ {c} : Left(d)' = Left(d)
        /\ Left(c) = {} /\ Left(c)' = Elems(p) \cup {S("kick", Null), S("sample", Null)}
    BY <1>1, <2>2, <2>3, <2>4, Returned
  <2> QED
    BY <2>2, <2>5
<1>3. PICK B, W, r, withTimeout : B = {} /\ W = {t} /\ r = "none" /\ withTimeout = FALSE
  OBVIOUS
<1>4. /\ S("kick", Null) \in Left(c)' /\ S("sample", Null) \in Left(c)' /\ S("enqueue", t) \in Left(c)'
      /\ \A a, y : S(a, y) \in Left(c)' => a \in {"kick", "sample"} \/ (a \in {"enqueue", "mark"} /\ y \in W)
  BY <1>2, <1>3, StepsDiffer
<1>5. Typed'
  BY <1>1, <1>2 DEF SmpInv, Typed, cpuVars, waitVars, timerVars, objVars
<1>6. Receivers'
  BY <1>1 DEF SmpInv, Receivers, waitVars, objVars
<1>7. /\ state'[t] = "READY" /\ reason'[t] = "none" /\ timed' = timed /\ reason' = reason
      /\ \A u \in Threads \ {t} : state'[u] = state[u]
  BY <1>1 DEF SmpInv, Typed, Waits, waitVars
<1>8. waiter' = waiter /\ waiter # t
  BY <1>1 DEF SmpInv, Waits, objVars
<1>9. UNCHANGED <<board, released, ready, online, current, deferred, rq, timerVars>> /\ ipi' = ipi
  BY <1>1 DEF cpuVars
<1>10. W \in SUBSET Threads /\ withTimeout \in BOOLEAN
  BY <1>3
<1>11. \A u \in W : /\ \/ state[u] = "NEW" /\ current[c] = Root
                       \/ state[u] = "BLOCKED" /\ reason[u] \in {"call", "recv"} /\ CpuOf[u] = c
                    /\ state'[u] = "READY" /\ reason'[u] = "none" /\ (timed'[u] <=> timed[u])
  BY <1>1, <1>3, <1>7
<1>12. \A u \in Threads : u \notin B /\ u \notin W =>
         state'[u] = state[u] /\ reason'[u] = reason[u] /\ (timed'[u] <=> timed[u])
  BY <1>3, <1>7
<1>13. \A u \in Threads : waiter' = u => (u \in B /\ r = "notif") \/ (waiter = u /\ u \notin W)
  BY <1>3, <1>8
<1>14. \A u \in W : S("enqueue", u) \in Left(c)'
  BY <1>3, <1>4
<1>15. \A u \in B : FALSE
  BY <1>3
<1>16. Entry(Eps, c, B, W, r, withTimeout)
  BY <1>1, <1>2, <1>3, <1>4, <1>9, <1>11, <1>12, <1>13, <1>14, <1>15 DEF Entry
<1> QED
  BY <1>2, <1>5, <1>6, <1>10, <1>16, CallKeeps

(* What the current thread of a CPU in user code is.                        *)
LEMMA Caller ==
  ASSUME NEW Eps, SmpInv(Eps), NEW c \in Cpus, Calls(c)
  PROVE  /\ InUser(c) /\ current[c] \in Threads /\ CpuOf[current[c]] = c
         /\ state[current[c]] = "RUNNING" /\ reason[current[c]] = "none" /\ current[c] \notin rq
<1>1. InUser(c) /\ current[c] \in Threads /\ ~Leaving(c)
  BY DEF Calls, InUser, Leaving, Has, Left
<1>2. CpuOf[current[c]] = c /\ state[current[c]] = "RUNNING"
  BY <1>1 DEF SmpInv, Hosting
<1> QED
  BY <1>1, <1>2 DEF SmpInv, Waits, Placed

(* The running thread blocks, with a timeout to arm (Sleep, NotifWait).     *)
LEMMA BlockKeeps ==
  ASSUME NEW Eps, SmpInv(Eps), NEW c \in Cpus, Calls(c), NEW r \in {"sleep", "notif"}, NEW withTimeout \in BOOLEAN,
         Blocks(current[c], r, withTimeout), rq' = rq \ {current[c]},
         Return(c, IF withTimeout THEN <<S("arm", r)>> ELSE <<>>),
         withTimeout /\ r = "notif" => WheelOf(current[c]) = c,
         waiter' = IF r = "notif" THEN current[c] ELSE waiter,
         UNCHANGED <<board, cpuVars, timerVars, bit, sendQ, recvQ, owes>>
  PROVE  SmpInv(Eps)'
<1>1. PICK t : t = current[c]
  OBVIOUS
<1>2. /\ InUser(c) /\ t \in Threads /\ CpuOf[t] = c
      /\ state[t] = "RUNNING" /\ reason[t] = "none" /\ t \notin rq
  BY <1>1, Caller
<1>3. /\ rq' = rq /\ state'[t] = "BLOCKED" /\ reason'[t] = r /\ timed'[t] = withTimeout
      /\ \A u \in Threads \ {t} : state'[u] = state[u] /\ reason'[u] = reason[u] /\ timed'[u] = timed[u]
  BY <1>1, <1>2 DEF SmpInv, Typed, Blocks
<1>4. /\ todo' \in [Cpus -> Seq(Steps)] /\ Lined'
      /\ \A d \in Cpus \ {c} : Left(d)' = Left(d)
      /\ Left(c) = {} /\ Left(c)' = (IF withTimeout THEN {S("arm", r)} ELSE {}) \cup {S("kick", Null), S("sample", Null)}
  <2>1. PICK p : p = IF withTimeout THEN <<S("arm", r)>> ELSE <<>>
    OBVIOUS
  <2>2. S("arm", r) \in Steps /\ S("arm", r).op = "arm"
    BY StepTyped DEF S
  <2>3. p \in Seq(Steps) /\ Ordered(p) /\ Elems(p) = IF withTimeout THEN {S("arm", r)} ELSE {}
    <3>1. CASE withTimeout
      BY <2>1, <2>2, <3>1, One
    <3>2. CASE ~withTimeout
      BY <2>1, <3>2, Empty
    <3> QED
      BY <3>1, <3>2
  <2>4. \A e \in Elems(p) : e.op \notin LastOps
    BY <2>2, <2>3 DEF LastOps
  <2>5. todo' = [todo EXCEPT ![c] = p \o Exit]
    BY <2>1 DEF Return
  <2>6. /\ todo' \in [Cpus -> Seq(Steps)] /\ Lined'
        /\ \A d \in Cpus \ {c} : Left(d)' = Left(d)
        /\ Left(c) = {} /\ Left(c)' = Elems(p) \cup {S("kick", Null), S("sample", Null)}
    BY <1>2, <2>3, <2>4, <2>5, Returned
  <2> QED
    BY <2>3, <2>6
<1>5. PICK B, W : B = {t} /\ W = {}
  OBVIOUS
<1>6. /\ S("kick", Null) \in Left(c)' /\ S("sample", Null) \in Left(c)'
      /\ withTimeout => S("arm", r) \in Left(c)'
      /\ \A a, y : S(a, y) \in Left(c)' => a \in {"kick", "sample"} \/ (a = "arm" /\ y = r /\ withTimeout /\ B # {})
  BY <1>4, <1>5, StepsDiffer
<1>7. Typed'
  BY <1>1, <1>2, <1>3, <1>4 DEF SmpInv, Typed, Blocks, cpuVars, timerVars
<1>8. Receivers'
  <2>1. recvQ' = recvQ /\ \A i \in DOMAIN recvQ : recvQ[i] \in Threads
    BY ElementOfSeq, LenProperties DEF SmpInv, Typed
  <2>2. \A i \in DOMAIN recvQ : recvQ[i] # t
    BY <1>2 DEF SmpInv, Receivers
  <2> QED
    BY <1>3, <2>1, <2>2 DEF SmpInv, Receivers
<1>9. \A u \in Threads : waiter' = u => (u \in B /\ r = "notif") \/ (waiter = u /\ u \notin W)
  BY <1>1, <1>5
<1>10. UNCHANGED <<board, released, ready, online, current, deferred, rq, timerVars>> /\ ipi' = ipi
  BY <1>3 DEF cpuVars
<1>11. W \in SUBSET Threads /\ \A u \in B : u = t
  BY <1>5
<1>12. \A u \in Threads : u \notin B /\ u \notin W =>
         state'[u] = state[u] /\ reason'[u] = reason[u] /\ (timed'[u] <=> timed[u])
  BY <1>3, <1>5
<1>13. /\ \A u \in B : u = current[c] /\ u \in Threads
       /\ withTimeout => \A u \in B : S("arm", r) \in Left(c)'
  BY <1>1, <1>2, <1>5, <1>6
<1>14. \A u \in W : FALSE
  BY <1>5
<1>15. \A u \in B : /\ state'[u] = "BLOCKED" /\ reason'[u] = r /\ (timed'[u] <=> withTimeout)
                    /\ r \in {"call", "recv", "sleep", "notif"}
                    /\ r \in {"call", "recv"} => u \in Eps
                    /\ withTimeout => r \in {"sleep", "notif"}
                    /\ withTimeout /\ r = "notif" => WheelOf(u) = c
  BY <1>1, <1>3, <1>5
<1>16. Entry(Eps, c, B, W, r, withTimeout)
  BY <1>2, <1>4, <1>6, <1>9, <1>10, <1>12, <1>15, <1>13, <1>14 DEF Entry
<1> QED
  BY <1>4, <1>7, <1>8, <1>11, <1>16, CallKeeps

LEMMA SleepKeeps ==
  ASSUME NEW Eps, SmpInv(Eps), NEW c \in Cpus, Sleep(c)
  PROVE  SmpInv(Eps)'
<1>1. PICK r, withTimeout : r = "sleep" /\ withTimeout = TRUE
  OBVIOUS
<1>2. /\ Calls(c) /\ Blocks(current[c], r, withTimeout) /\ rq' = rq \ {current[c]}
      /\ Return(c, IF withTimeout THEN <<S("arm", r)>> ELSE <<>>)
      /\ waiter' = (IF r = "notif" THEN current[c] ELSE waiter)
      /\ UNCHANGED <<board, cpuVars, timerVars, bit, sendQ, recvQ, owes>>
  BY <1>1 DEF Sleep, objVars
<1> QED
  BY <1>1, <1>2, BlockKeeps

LEMMA NotifWaitKeeps ==
  ASSUME NEW Eps, SmpInv(Eps), NEW c \in Cpus, NEW withTimeout \in BOOLEAN, NotifWait(c, withTimeout),
         withTimeout => WheelOf(current[c]) = c
  PROVE  SmpInv(Eps)'
<1>1. PICK r : r = "notif"
  OBVIOUS
<1>2. /\ Calls(c) /\ Blocks(current[c], r, withTimeout) /\ rq' = rq \ {current[c]}
      /\ Return(c, IF withTimeout THEN <<S("arm", r)>> ELSE <<>>)
      /\ waiter' = (IF r = "notif" THEN current[c] ELSE waiter)
      /\ UNCHANGED <<board, cpuVars, timerVars, bit, sendQ, recvQ, owes>>
  BY <1>1 DEF NotifWait
<1> QED
  BY <1>1, <1>2, BlockKeeps

(* A sleeper, or the waiter of the notification, is woken by its own CPU.   *)
LEMMA SleepCancelKeeps ==
  ASSUME NEW Eps, SmpInv(Eps), NEW c \in Cpus, NEW t \in Threads, Owns(c, t), SleepCancel(c, t)
  PROVE  SmpInv(Eps)'
<1>1. /\ InUser(c) /\ current[c] # Null /\ CpuOf[t] = c /\ WheelOf(t) = c
      /\ state[t] = "BLOCKED" /\ reason[t] = "sleep" /\ Woken(t)
      /\ UNCHANGED <<board, cpuVars, timerVars, objVars>>
  BY DEF SleepCancel, Calls, InUser, Owns
<1>2. /\ todo' \in [Cpus -> Seq(Steps)] /\ Lined'
      /\ \A d \in Cpus \ {c} : Left(d)' = Left(d)
      /\ Left(c) = {}
      /\ Left(c)' = {S("mark", t), S("disarm", t), S("resched", Null)} \cup {S("kick", Null), S("sample", Null)}
  <2>1. PICK p : p = <<S("mark", t), S("disarm", t), S("resched", Null)>>
    OBVIOUS
  <2>2. S("mark", t) \in Steps /\ S("disarm", t) \in Steps /\ S("resched", Null) \in Steps
    BY StepTyped DEF OpNames
  <2>3. p \in Seq(Steps) /\ Elems(p) = {S("mark", t), S("disarm", t), S("resched", Null)}
    BY <2>1, <2>2, Three
  <2>4. \A e \in Elems(p) : e.op \notin FirstOps \cup LastOps \cup {"enqueue"}
    BY <2>3 DEF S, FirstOps, LastOps
  <2>5. Ordered(p)
    BY <2>4 DEF Ordered, Elems
  <2>6. todo' = [todo EXCEPT ![c] = p \o Exit]
    BY <2>1 DEF SleepCancel, Return, Nothing
  <2>7. /\ todo' \in [Cpus -> Seq(Steps)] /\ Lined'
        /\ \A d \in Cpus \ {c} : Left(d)' = Left(d)
        /\ Left(c) = {} /\ Left(c)' = Elems(p) \cup {S("kick", Null), S("sample", Null)}
    BY <1>1, <2>3, <2>4, <2>5, <2>6, Returned
  <2> QED
    BY <2>3, <2>7
<1>3. /\ \A a, y : S(a, y) \in Left(c)' =>
           S(a, y) \in Left(c) \/ a \in {"resched", "kick", "sample"} \/ (a \in {"mark", "disarm"} /\ y = t)
      /\ \A a, y : S(a, y) \in Left(c) => S(a, y) \in Left(c)' \/ (a = "expire" /\ y = t)
      /\ S("mark", t) \in Left(c)' /\ S("disarm", t) \in Left(c)' /\ Has(c, "sample")'
  BY <1>2, StepsDiffer DEF Has
<1>4. ~Arming(t) /\ \A d \in Cpus : S("expire", t) \notin Left(d)'
  <2>1. \A d \in Cpus : S("expire", t) \in Left(d) => d = c
    BY <1>1 DEF SmpInv, TimingFits, ExpireFits
  <2>2. S("expire", t) \notin Left(c)'
    BY <1>2, StepsDiffer
  <2>3. ~Arming(t)
    BY <1>1, <1>2 DEF Arming, Has
  <2> QED
    BY <1>2, <2>1, <2>2, <2>3
<1>5. waiter' \in {waiter, Null} /\ waiter' # t
  BY <1>1 DEF SmpInv, Waits, objVars
<1>6. UNCHANGED <<board, cpuVars, timerVars, bit, sendQ, recvQ, owes>>
  BY <1>1 DEF objVars
<1>7. Typed'
  BY <1>1, <1>2 DEF SmpInv, Typed, Woken, cpuVars, timerVars, objVars
<1>8. reason[t] \in {"sleep", "notif"}
  BY <1>1
<1> QED
  BY <1>1, <1>2, <1>3, <1>4, <1>5, <1>6, <1>7, <1>8, WakeKeeps

LEMMA NotifSignalKeeps ==
  ASSUME NEW Eps, SmpInv(Eps), NEW c \in Cpus, Harmless(c), NotifSignal(c)
  PROVE  SmpInv(Eps)'
<1>1. InUser(c) /\ current[c] # Null /\ UNCHANGED <<board, cpuVars, timerVars, sendQ, recvQ, owes>>
  BY DEF NotifSignal, InUser
<1>2. CASE ~(waiter # Null /\ state[waiter] = "BLOCKED")
  <2>1. bit' = TRUE /\ Return(c, <<>>) /\ UNCHANGED <<state, rq, waitVars, waiter>>
    BY <1>2 DEF NotifSignal
  <2>2. todo' = [todo EXCEPT ![c] = Exit]
    BY <2>1, ExitOnly DEF Return
  <2>3. todo' \in [Cpus -> Seq(Steps)]
    BY <1>1, <2>2, Bare
  <2>4. Typed'
    BY <1>1, <2>1, <2>3 DEF SmpInv, Typed, cpuVars, waitVars, timerVars
  <2> QED
    BY <1>1, <2>1, <2>2, <2>4, IdleCallKeeps DEF cpuVars
<1>3. CASE waiter # Null /\ state[waiter] = "BLOCKED"
  <2>1. PICK t \in Threads : t = waiter
    BY <1>3 DEF SmpInv, Typed
  <2>2. /\ state[t] = "BLOCKED" /\ reason[t] = "notif" /\ Woken(t) /\ waiter' = Null /\ bit' = bit
        /\ Return(c, <<S("mark", t)>> \o (IF cb[t] # Null THEN <<S("disarm", t)>> ELSE <<>>))
    BY <1>3, <2>1 DEF NotifSignal, SmpInv, Waits
  <2>3. Owns(c, t) \/ (~timed[t] /\ cb[t] = Null)
    BY <2>1 DEF Harmless
  <2>4. PICK q : q = IF cb[t] # Null THEN {S("disarm", t)} ELSE {}
    OBVIOUS
  <2>5. /\ todo' \in [Cpus -> Seq(Steps)] /\ Lined'
        /\ \A d \in Cpus \ {c} : Left(d)' = Left(d)
        /\ Left(c) = {}
        /\ Left(c)' = ({S("mark", t)} \cup q) \cup {S("kick", Null), S("sample", Null)}
    <3>1. S("mark", t) \in Steps /\ S("disarm", t) \in Steps
      BY StepTyped DEF OpNames
    <3>2. \A a, y : S(a, y).op = a
      BY DEF S
    <3>3. PICK p1, p2 : p1 = <<S("mark", t)>> /\ p2 = IF cb[t] # Null THEN <<S("disarm", t)>> ELSE <<>>
      OBVIOUS
    <3>4. p1 \in Seq(Steps) /\ Ordered(p1) /\ Elems(p1) = {S("mark", t)}
      BY <3>1, <3>2, <3>3, One
    <3>5. p2 \in Seq(Steps) /\ Ordered(p2) /\ Elems(p2) = q
      <4>1. CASE cb[t] # Null
        BY <2>4, <3>1, <3>2, <3>3, <4>1, One
      <4>2. CASE cb[t] = Null
        BY <2>4, <3>3, <4>2, Empty
      <4> QED
        BY <4>1, <4>2
    <3>6. /\ \A e \in Elems(p2) : e.op \notin FirstOps /\ e.op # "enqueue" /\ e.op \notin LastOps
          /\ \A e \in Elems(p1) : e.op \notin LastOps
      BY <2>4, <3>2, <3>4, <3>5 DEF FirstOps, LastOps
    <3>7. p1 \o p2 \in Seq(Steps) /\ Ordered(p1 \o p2) /\ Elems(p1 \o p2) = Elems(p1) \cup Elems(p2)
      BY <3>4, <3>5, <3>6, Joined
    <3>8. PICK p : p = p1 \o p2
      OBVIOUS
    <3>9. p \in Seq(Steps) /\ Ordered(p) /\ Elems(p) = {S("mark", t)} \cup q /\ \A e \in Elems(p) : e.op \notin LastOps
      BY <3>4, <3>5, <3>6, <3>7, <3>8
    <3>10. todo' = [todo EXCEPT ![c] = p \o Exit]
      BY <2>2, <3>3, <3>8 DEF Return
    <3>11. /\ todo' \in [Cpus -> Seq(Steps)] /\ Lined'
           /\ \A d \in Cpus \ {c} : Left(d)' = Left(d)
           /\ Left(c) = {} /\ Left(c)' = Elems(p) \cup {S("kick", Null), S("sample", Null)}
      BY <1>1, <3>9, <3>10, Returned
    <3> QED
      BY <3>9, <3>11
  <2>6. /\ \A a, y : S(a, y) \in Left(c)' =>
             S(a, y) \in Left(c) \/ a \in {"resched", "kick", "sample"} \/ (a \in {"mark", "disarm"} /\ y = t)
        /\ \A a, y : S(a, y) \in Left(c) => S(a, y) \in Left(c)' \/ (a = "expire" /\ y = t)
        /\ S("mark", t) \in Left(c)' /\ Has(c, "sample")'
        /\ S("disarm", t) \in Left(c)' <=> cb[t] # Null
    BY <2>4, <2>5, StepsDiffer DEF Has
  <2>7. CpuOf[t] \in Cpus /\ WheelOf(t) \in Cpus
    BY Places DEF SmpInv
  <2>8. t \in armed => timed[t] /\ cb[t] = "notif"
    <3>1. S("disarm", t) \notin Left(CpuOf[t])
      BY <2>2, <2>7 DEF SmpInv, TimingFits, DisarmFits
    <3> QED
      BY <2>2, <3>1 DEF SmpInv, Timers
  <2>9. ~Arming(t)
    <3>1. CASE Owns(c, t)
      BY <2>5, <3>1 DEF Arming, Has, Owns
    <3>2. CASE ~timed[t]
      BY <2>7, <3>2 DEF Arming, Has, SmpInv, TimingFits, ArmFits
    <3> QED
      BY <2>3, <3>1, <3>2
  <2>10. \A d \in Cpus : S("expire", t) \notin Left(d)'
    <3>1. \A d \in Cpus : S("expire", t) \in Left(d) => timed[t] /\ d = WheelOf(t)
      BY DEF SmpInv, TimingFits, ExpireFits
    <3>2. S("expire", t) \notin Left(c)'
      BY <2>4, <2>5, StepsDiffer
    <3> QED
      BY <2>3, <2>5, <3>1, <3>2 DEF Owns
  <2>11. /\ S("disarm", t) \in Left(c)' => CpuOf[t] = c /\ WheelOf(t) = c
         /\ t \in armed => S("disarm", t) \in Left(c)'
    BY <2>3, <2>6, <2>8, SmpAssumption DEF Owns
  <2>12. Typed'
    BY <1>1, <2>2, <2>5 DEF SmpInv, Typed, Woken, cpuVars, timerVars
  <2>13. waiter' \in {waiter, Null} /\ waiter' # t /\ reason[t] \in {"sleep", "notif"}
    BY <2>1, <2>2, SmpAssumption
  <2>14. UNCHANGED <<board, cpuVars, timerVars, bit, sendQ, recvQ, owes>>
    BY <1>1, <2>2
  <2> QED
    BY <1>1, <2>2, <2>5, <2>6, <2>9, <2>10, <2>11, <2>12, <2>13, <2>14, WakeKeeps
<1> QED
  BY <1>2, <1>3

(* The endpoint's queue of receivers: one taken from it, one put on it.     *)
LEMMA ReceiverTaken ==
  ASSUME NEW Eps, SmpInv(Eps), recvQ # <<>>
  PROVE  /\ Head(recvQ) \in Threads /\ reason[Head(recvQ)] = "recv"
         /\ Tail(recvQ) \in Seq(Threads)
         /\ \A i, j \in DOMAIN Tail(recvQ) : Tail(recvQ)[i] = Tail(recvQ)[j] => i = j
         /\ \A i \in DOMAIN Tail(recvQ) :
              Tail(recvQ)[i] \in Threads /\ reason[Tail(recvQ)[i]] = "recv" /\ Tail(recvQ)[i] # Head(recvQ)
<1>1. recvQ \in Seq(Threads)
  BY DEF SmpInv, Typed
<1>2. PICK n \in Nat : n = Len(recvQ) /\ DOMAIN recvQ = 1 .. n /\ n > 0
  BY <1>1, EmptySeq, LenProperties
<1>3. PICK u : u = Tail(recvQ)
  OBVIOUS
<1>4. u \in Seq(Threads) /\ DOMAIN u = 1 .. n - 1 /\ \A i \in 1 .. n - 1 : u[i] = recvQ[i + 1]
  BY <1>1, <1>2, <1>3, HeadTailProperties, LenProperties
<1>5. Head(recvQ) = recvQ[1] /\ 1 \in DOMAIN recvQ /\ \A i \in 1 .. n : recvQ[i] \in Threads
  BY <1>1, <1>2, ElementOfSeq
<1>6. \A i \in 1 .. n - 1 : i + 1 \in 1 .. n /\ i + 1 # 1
  OBVIOUS
<1>7. \A i, j \in 1 .. n - 1 : u[i] = u[j] => i = j
  <2>1. ASSUME NEW i \in 1 .. n - 1, NEW j \in 1 .. n - 1, u[i] = u[j] PROVE i = j
    <3>1. i + 1 = j + 1
      BY <1>2, <1>4, <1>6, <2>1 DEF SmpInv, Receivers
    <3> QED
      BY <3>1
  <2> QED
    BY <2>1
<1>8. \A i \in 1 .. n - 1 : u[i] \in Threads /\ reason[u[i]] = "recv" /\ u[i] # recvQ[1]
  BY <1>2, <1>4, <1>5, <1>6 DEF SmpInv, Receivers
<1>9. recvQ[1] \in Threads /\ reason[recvQ[1]] = "recv"
  BY <1>2, <1>5 DEF SmpInv, Receivers
<1> QED
  BY <1>3, <1>4, <1>5, <1>7, <1>8, <1>9

LEMMA ReceiverAdded ==
  ASSUME NEW Eps, SmpInv(Eps), NEW t \in Threads, reason[t] = "none"
  PROVE  /\ Append(recvQ, t) \in Seq(Threads)
         /\ \A i, j \in DOMAIN Append(recvQ, t) : Append(recvQ, t)[i] = Append(recvQ, t)[j] => i = j
         /\ \A i \in DOMAIN Append(recvQ, t) :
              Append(recvQ, t)[i] = t \/ (Append(recvQ, t)[i] \in Threads /\ reason[Append(recvQ, t)[i]] = "recv")
<1>1. recvQ \in Seq(Threads)
  BY DEF SmpInv, Typed
<1>2. PICK n \in Nat : n = Len(recvQ) /\ DOMAIN recvQ = 1 .. n
  BY <1>1, LenProperties
<1>3. PICK u : u = Append(recvQ, t)
  OBVIOUS
<1>4. u \in Seq(Threads) /\ DOMAIN u = 1 .. n + 1 /\ u[n + 1] = t /\ \A i \in 1 .. n : u[i] = recvQ[i]
  BY <1>1, <1>2, <1>3, AppendProperties, LenProperties
<1>5. \A i \in 1 .. n + 1 : i \in 1 .. n \/ i = n + 1
  OBVIOUS
<1>6. \A i \in 1 .. n : u[i] \in Threads /\ reason[u[i]] = "recv" /\ u[i] # t
  BY <1>1, <1>2, <1>4, ElementOfSeq DEF SmpInv, Receivers
<1>7. \A i, j \in 1 .. n : u[i] = u[j] => i = j
  BY <1>2, <1>4 DEF SmpInv, Receivers
<1>8. \A i, j \in 1 .. n + 1 : u[i] = u[j] => i = j
  BY <1>4, <1>5, <1>6, <1>7
<1> QED
  BY <1>3, <1>4, <1>5, <1>6, <1>8

LEMMA DequeueOnly ==
  ASSUME NEW Eps, SmpInv(Eps), NEW c \in Cpus, InUser(c), NEW t \in Threads, Return(c, <<S("dequeue", t)>>)
  PROVE  /\ todo' \in [Cpus -> Seq(Steps)] /\ Lined'
         /\ \A d \in Cpus \ {c} : Left(d)' = Left(d)
         /\ Left(c) = {} /\ Left(c)' = {S("dequeue", t)} \cup {S("kick", Null), S("sample", Null)}
<1>1. PICK p : p = <<S("dequeue", t)>>
  OBVIOUS
<1>2. S("dequeue", t) \in Steps /\ S("dequeue", t).op = "dequeue"
  BY StepTyped DEF OpNames, S
<1>3. p \in Seq(Steps) /\ Ordered(p) /\ Elems(p) = {S("dequeue", t)}
  BY <1>1, <1>2, One
<1>4. \A e \in Elems(p) : e.op \notin LastOps
  BY <1>2, <1>3 DEF LastOps
<1>5. todo' = [todo EXCEPT ![c] = p \o Exit]
  BY <1>1 DEF Return
<1>6. /\ todo' \in [Cpus -> Seq(Steps)] /\ Lined'
      /\ \A d \in Cpus \ {c} : Left(d)' = Left(d)
      /\ Left(c) = {} /\ Left(c)' = Elems(p) \cup {S("kick", Null), S("sample", Null)}
  BY <1>3, <1>4, <1>5, Returned
<1> QED
  BY <1>3, <1>6

(* What the endpoint's handlers have in common: the caller of the system    *)
(* call may block for r (B), and one thread may be made READY (W); both     *)
(* leave and enter the queues outside the section.                          *)
EndpointEntry(c, B, W, r) ==
  /\ \A u \in W : /\ reason[u] \in {"call", "recv"} /\ CpuOf[u] = c
                  /\ state'[u] = "READY" /\ reason'[u] = "none"
  /\ \A u \in B : state'[u] = "BLOCKED" /\ reason'[u] = r
  /\ \A u \in Threads : u \notin B /\ u \notin W => state'[u] = state[u] /\ reason'[u] = reason[u]
  /\ \A u \in Threads : timed'[u] <=> timed[u]
  /\ UNCHANGED <<board, cpuVars, rq, timerVars, waiter>>
  /\ \A d \in Cpus \ {c} : Left(d)' = Left(d)
  /\ Left(c) = {}
  /\ S("kick", Null) \in Left(c)' /\ S("sample", Null) \in Left(c)'
  /\ \A u \in W : S("enqueue", u) \in Left(c)'
  /\ \A a, y : S(a, y) \in Left(c)' =>
       \/ a \in {"kick", "sample"}
       \/ a = "dequeue" /\ y \in B
       \/ a \in {"enqueue", "mark", "disarm"} /\ y \in W

LEMMA EndpointKeeps ==
  ASSUME NEW Eps, SmpInv(Eps), NEW c \in Cpus, Calls(c), Typed', Lined', Receivers',
         NEW B \in SUBSET {current[c]}, NEW W \in SUBSET Threads, NEW r \in {"call", "recv"},
         current[c] \in Eps, EndpointEntry(c, B, W, r)
  PROVE  SmpInv(Eps)'
<1> USE DEF EndpointEntry
<1>1. PICK withTimeout \in BOOLEAN : withTimeout = FALSE
  OBVIOUS
<1>2. /\ InUser(c) /\ current[c] \in Threads /\ CpuOf[current[c]] = c
      /\ state[current[c]] = "RUNNING" /\ reason[current[c]] = "none"
  BY Caller
<1>3. ~timed[current[c]]
  BY <1>2 DEF SmpInv, Timers
<1>4. \A u \in B : /\ u = current[c] /\ u \in Threads
                   /\ state'[u] = "BLOCKED" /\ reason'[u] = r /\ (timed'[u] <=> withTimeout) /\ u \in Eps
  BY <1>1, <1>2, <1>3
<1>5. \A u \in W : state[u] = "BLOCKED" /\ reason[u] \in {"call", "recv"} /\ CpuOf[u] = c
  BY DEF SmpInv, Waits
<1>6. \A u \in Threads : waiter' = u => waiter = u /\ u \notin W
  BY DEF SmpInv, Waits
<1>7. UNCHANGED <<board, released, ready, online, current, deferred, rq, timerVars>> /\ ipi' = ipi
  BY DEF cpuVars
<1>8. Entry(Eps, c, B, W, r, withTimeout)
  BY <1>1, <1>2, <1>4, <1>5, <1>6, <1>7 DEF Entry
<1> QED
  BY <1>8, CallKeeps

(* The endpoint's clients and servers share a CPU: a server a call wakes,   *)
(* and a caller a reply wakes, is of the CPU that wakes it.                 *)
LEMMA EpCallKeeps ==
  ASSUME NEW Eps, SmpInv(Eps), NEW c \in Cpus, EpCall(c), current[c] \in Eps,
         \A s, t \in Threads \cap Eps : CpuOf[s] = CpuOf[t]
  PROVE  SmpInv(Eps)'
<1>1. PICK t : t = current[c]
  OBVIOUS
<1>2. Calls(c) /\ UNCHANGED <<board, cpuVars, rq, timerVars, bit, waiter>>
  BY DEF EpCall
<1>3. /\ InUser(c) /\ t \in Threads /\ CpuOf[t] = c /\ t \in Eps
      /\ state[t] = "RUNNING" /\ reason[t] = "none" /\ ~timed[t]
  BY <1>1, <1>2, Caller DEF SmpInv, Timers
<1>4. PICK r : r = "call"
  OBVIOUS
<1>5. CASE recvQ # <<>>
  <2>1. PICK srv : srv = Head(recvQ)
    OBVIOUS
  <2>2. srv \in Threads /\ reason[srv] = "recv" /\ srv # t
    BY <1>3, <1>5, <2>1, ReceiverTaken
  <2>3. CpuOf[srv] = c
    BY <1>3, <2>2 DEF SmpInv, Waits
  <2>4. /\ state' = [state EXCEPT ![t] = "BLOCKED", ![srv] = "READY"]
        /\ reason' = [reason EXCEPT ![t] = "call", ![srv] = "none"]
        /\ owes' = [owes EXCEPT ![srv] = t]
        /\ recvQ' = Tail(recvQ)
        /\ Return(c, <<S("dequeue", t)>> \o Enqueue(srv))
        /\ UNCHANGED <<timed, sendQ>>
    BY <1>1, <1>5, <2>1 DEF EpCall
  <2>5. /\ state'[t] = "BLOCKED" /\ reason'[t] = "call" /\ state'[srv] = "READY" /\ reason'[srv] = "none"
        /\ \A u \in Threads \ {t, srv} : state'[u] = state[u] /\ reason'[u] = reason[u]
    BY <1>3, <2>2, <2>4 DEF SmpInv, Typed
  <2>6. /\ todo' \in [Cpus -> Seq(Steps)] /\ Lined'
        /\ \A d \in Cpus \ {c} : Left(d)' = Left(d)
        /\ Left(c) = {}
        /\ Left(c)' = {S("dequeue", t), S("enqueue", srv), S("mark", srv)} \cup {S("kick", Null), S("sample", Null)}
    <3>1. PICK p : p = <<S("dequeue", t)>> \o Enqueue(srv)
      OBVIOUS
    <3>2. p \in Seq(Steps) /\ Ordered(p) /\ Elems(p) = {S("dequeue", t), S("enqueue", srv), S("mark", srv)}
      BY <1>3, <2>2, <3>1, ThenEnqueue
    <3>3. \A e \in Elems(p) : e.op \notin LastOps
      BY <3>2 DEF S, LastOps
    <3>4. todo' = [todo EXCEPT ![c] = p \o Exit]
      BY <2>4, <3>1 DEF Return
    <3>5. /\ todo' \in [Cpus -> Seq(Steps)] /\ Lined'
          /\ \A d \in Cpus \ {c} : Left(d)' = Left(d)
          /\ Left(c) = {} /\ Left(c)' = Elems(p) \cup {S("kick", Null), S("sample", Null)}
      BY <1>3, <3>2, <3>3, <3>4, Returned
    <3> QED
      BY <3>2, <3>5
  <2>7. PICK B, W : B = {t} /\ W = {srv}
    OBVIOUS
  <2>8. /\ S("kick", Null) \in Left(c)' /\ S("sample", Null) \in Left(c)'
        /\ \A u \in W : S("enqueue", u) \in Left(c)'
        /\ \A a, y : S(a, y) \in Left(c)' =>
             \/ a \in {"kick", "sample"}
             \/ a = "dequeue" /\ y \in B
             \/ a \in {"enqueue", "mark", "disarm"} /\ y \in W
    BY <2>6, <2>7, StepsDiffer
  <2>9. Receivers'
    <3>1. PICK q : q = Tail(recvQ)
      OBVIOUS
    <3>2. /\ \A i, j \in DOMAIN q : q[i] = q[j] => i = j
          /\ \A i \in DOMAIN q : q[i] \in Threads /\ reason[q[i]] = "recv" /\ q[i] # srv
      BY <1>5, <2>1, <3>1, ReceiverTaken
    <3>3. \A i \in DOMAIN q : reason'[q[i]] = "recv"
      BY <1>3, <2>5, <3>2
    <3> QED
      BY <2>4, <3>1, <3>2, <3>3 DEF Receivers
  <2>10. Typed'
    <3>1. recvQ' \in Seq(Threads)
      BY <1>5, <2>4, ReceiverTaken
    <3> QED
      BY <1>2, <1>3, <2>2, <2>4, <2>6, <3>1 DEF SmpInv, Typed, cpuVars, timerVars
  <2>11. B \in SUBSET {current[c]} /\ W \in SUBSET Threads /\ r \in {"call", "recv"}
    BY <1>1, <1>4, <2>2, <2>7
  <2>12. /\ \A u \in W : /\ reason[u] \in {"call", "recv"} /\ CpuOf[u] = c
                         /\ state'[u] = "READY" /\ reason'[u] = "none"
         /\ \A u \in B : state'[u] = "BLOCKED" /\ reason'[u] = r
         /\ \A u \in Threads : u \notin B /\ u \notin W => state'[u] = state[u] /\ reason'[u] = reason[u]
    BY <1>4, <2>2, <2>3, <2>5, <2>7
  <2>13. UNCHANGED <<board, cpuVars, rq, timerVars, waiter>> /\ \A u \in Threads : timed'[u] <=> timed[u]
    BY <1>2, <2>4
  <2>14. EndpointEntry(c, B, W, r)
    BY <2>6, <2>8, <2>12, <2>13 DEF EndpointEntry
  <2> QED
    BY <1>2, <2>6, <2>9, <2>10, <2>11, <2>14, EndpointKeeps
<1>6. CASE recvQ = <<>>
  <2>1. /\ Blocks(t, "call", FALSE) /\ sendQ' = Append(sendQ, t)
        /\ Return(c, <<S("dequeue", t)>>) /\ UNCHANGED <<recvQ, owes>>
    BY <1>1, <1>6 DEF EpCall
  <2>2. /\ state'[t] = "BLOCKED" /\ reason'[t] = "call"
        /\ \A u \in Threads \ {t} : state'[u] = state[u] /\ reason'[u] = reason[u]
        /\ \A u \in Threads : timed'[u] <=> timed[u]
    BY <1>3, <2>1 DEF SmpInv, Typed, Blocks
  <2>3. /\ todo' \in [Cpus -> Seq(Steps)] /\ Lined'
        /\ \A d \in Cpus \ {c} : Left(d)' = Left(d)
        /\ Left(c) = {} /\ Left(c)' = {S("dequeue", t)} \cup {S("kick", Null), S("sample", Null)}
    BY <1>3, <2>1, DequeueOnly
  <2>4. PICK B, W : B = {t} /\ W = {}
    OBVIOUS
  <2>5. /\ S("kick", Null) \in Left(c)' /\ S("sample", Null) \in Left(c)'
        /\ \A a, y : S(a, y) \in Left(c)' => a \in {"kick", "sample"} \/ (a = "dequeue" /\ y \in B)
    BY <2>3, <2>4, StepsDiffer
  <2>6. Receivers'
    <3>1. DOMAIN recvQ' = {}
      BY <1>6, <2>1
    <3> QED
      BY <3>1 DEF Receivers
  <2>7. Typed'
    <3>1. sendQ' \in Seq(Threads)
      BY <1>3, <2>1, AppendProperties DEF SmpInv, Typed
    <3> QED
      BY <1>2, <1>3, <2>1, <2>3, <3>1 DEF SmpInv, Typed, Blocks, cpuVars, timerVars
  <2>8. /\ B \in SUBSET {current[c]} /\ W \in SUBSET Threads /\ r \in {"call", "recv"}
        /\ \A u \in W : FALSE
        /\ \A u \in B : state'[u] = "BLOCKED" /\ reason'[u] = r
        /\ \A u \in Threads : u \notin B /\ u \notin W => state'[u] = state[u] /\ reason'[u] = reason[u]
    BY <1>1, <1>4, <2>2, <2>4
  <2>9. UNCHANGED <<board, cpuVars, rq, timerVars, waiter>>
    BY <1>2
  <2>10. EndpointEntry(c, B, W, r)
    BY <2>2, <2>3, <2>5, <2>8, <2>9 DEF EndpointEntry
  <2> QED
    BY <1>2, <2>3, <2>6, <2>7, <2>8, <2>10, EndpointKeeps
<1> QED
  BY <1>5, <1>6

LEMMA EpRecvKeeps ==
  ASSUME NEW Eps, SmpInv(Eps), NEW c \in Cpus, EpRecv(c), current[c] \in Eps
  PROVE  SmpInv(Eps)'
<1>1. PICK t : t = current[c]
  OBVIOUS
<1>2. Calls(c) /\ UNCHANGED <<board, cpuVars, rq, timerVars, bit, waiter>>
  BY DEF EpRecv
<1>3. /\ InUser(c) /\ t \in Threads /\ CpuOf[t] = c /\ t \in Eps
      /\ state[t] = "RUNNING" /\ reason[t] = "none" /\ ~timed[t]
  BY <1>1, <1>2, Caller DEF SmpInv, Timers
<1>4. CASE sendQ # <<>>
  <2>1. /\ owes' = [owes EXCEPT ![t] = Head(sendQ)] /\ sendQ' = Tail(sendQ)
        /\ Return(c, <<>>) /\ UNCHANGED <<state, waitVars, recvQ>>
    BY <1>1, <1>4 DEF EpRecv
  <2>2. todo' = [todo EXCEPT ![c] = Exit]
    BY <2>1, ExitOnly DEF Return
  <2>3. todo' \in [Cpus -> Seq(Steps)]
    BY <1>3, <2>2, Bare
  <2>4. Head(sendQ) \in Threads /\ Tail(sendQ) \in Seq(Threads)
    BY <1>4, HeadTailProperties DEF SmpInv, Typed
  <2>5. Typed'
    BY <1>2, <1>3, <2>1, <2>3, <2>4 DEF SmpInv, Typed, cpuVars, waitVars, timerVars
  <2> QED
    BY <1>2, <1>3, <2>1, <2>2, <2>5, IdleCallKeeps DEF cpuVars
<1>5. CASE sendQ = <<>>
  <2>1. /\ Blocks(t, "recv", FALSE) /\ recvQ' = Append(recvQ, t)
        /\ Return(c, <<S("dequeue", t)>>) /\ UNCHANGED <<sendQ, owes>>
    BY <1>1, <1>5 DEF EpRecv
  <2>2. /\ state'[t] = "BLOCKED" /\ reason'[t] = "recv"
        /\ \A u \in Threads \ {t} : state'[u] = state[u] /\ reason'[u] = reason[u]
        /\ \A u \in Threads : timed'[u] <=> timed[u]
    BY <1>3, <2>1 DEF SmpInv, Typed, Blocks
  <2>3. /\ todo' \in [Cpus -> Seq(Steps)] /\ Lined'
        /\ \A d \in Cpus \ {c} : Left(d)' = Left(d)
        /\ Left(c) = {} /\ Left(c)' = {S("dequeue", t)} \cup {S("kick", Null), S("sample", Null)}
    BY <1>3, <2>1, DequeueOnly
  <2>4. PICK B, W, r : B = {t} /\ W = {} /\ r = "recv"
    OBVIOUS
  <2>5. /\ S("kick", Null) \in Left(c)' /\ S("sample", Null) \in Left(c)'
        /\ \A a, y : S(a, y) \in Left(c)' => a \in {"kick", "sample"} \/ (a = "dequeue" /\ y \in B)
    BY <2>3, <2>4, StepsDiffer
  <2>6. Receivers'
    <3>1. PICK q : q = Append(recvQ, t)
      OBVIOUS
    <3>2. /\ \A i, j \in DOMAIN q : q[i] = q[j] => i = j
          /\ \A i \in DOMAIN q : q[i] = t \/ (q[i] \in Threads /\ reason[q[i]] = "recv")
      BY <1>3, <3>1, ReceiverAdded
    <3>3. \A i \in DOMAIN q : reason'[q[i]] = "recv"
      BY <1>3, <2>2, <3>2
    <3> QED
      BY <2>1, <3>1, <3>2, <3>3 DEF Receivers
  <2>7. Typed'
    <3>1. recvQ' \in Seq(Threads)
      BY <1>3, <2>1, ReceiverAdded
    <3> QED
      BY <1>2, <1>3, <2>1, <2>3, <3>1 DEF SmpInv, Typed, Blocks, cpuVars, timerVars
  <2>8. /\ B \in SUBSET {current[c]} /\ W \in SUBSET Threads /\ r \in {"call", "recv"}
        /\ \A u \in W : FALSE
        /\ \A u \in B : state'[u] = "BLOCKED" /\ reason'[u] = r
        /\ \A u \in Threads : u \notin B /\ u \notin W => state'[u] = state[u] /\ reason'[u] = reason[u]
    BY <1>1, <2>2, <2>4
  <2>9. UNCHANGED <<board, cpuVars, rq, timerVars, waiter>>
    BY <1>2
  <2>10. EndpointEntry(c, B, W, r)
    BY <2>2, <2>3, <2>5, <2>8, <2>9 DEF EndpointEntry
  <2> QED
    BY <1>2, <2>3, <2>6, <2>7, <2>8, <2>10, EndpointKeeps
<1> QED
  BY <1>4, <1>5

LEMMA EpReplyKeeps ==
  ASSUME NEW Eps, SmpInv(Eps), NEW c \in Cpus, EpReply(c), current[c] \in Eps, owes[current[c]] # Null,
         \A s, t \in Threads \cap Eps : CpuOf[s] = CpuOf[t]
  PROVE  SmpInv(Eps)'
<1>1. PICK t : t = current[c]
  OBVIOUS
<1>2. /\ Calls(c) /\ owes' = [owes EXCEPT ![t] = Null]
      /\ UNCHANGED <<board, cpuVars, rq, timed, timerVars, bit, waiter, sendQ, recvQ>>
  BY <1>1 DEF EpReply
<1>3. /\ InUser(c) /\ t \in Threads /\ CpuOf[t] = c /\ t \in Eps
      /\ state[t] = "RUNNING" /\ reason[t] = "none"
  BY <1>1, <1>2, Caller
<1>4. PICK caller \in Threads : caller = owes[t]
  BY <1>1, <1>3 DEF SmpInv, Typed
<1>5. owes' \in [Threads -> Threads \cup {Null}]
  BY <1>2 DEF SmpInv, Typed
<1>6. CASE reason[caller] # "call"
  <2>1. Return(c, <<>>) /\ UNCHANGED <<state, reason>>
    BY <1>1, <1>4, <1>6 DEF EpReply
  <2>2. todo' = [todo EXCEPT ![c] = Exit]
    BY <2>1, ExitOnly DEF Return
  <2>3. todo' \in [Cpus -> Seq(Steps)]
    BY <1>3, <2>2, Bare
  <2>4. Typed'
    BY <1>2, <1>5, <2>1, <2>3 DEF SmpInv, Typed, cpuVars, timerVars
  <2> QED
    BY <1>2, <1>3, <2>1, <2>2, <2>4, IdleCallKeeps DEF cpuVars, waitVars
<1>7. CASE reason[caller] = "call"
  <2>1. /\ state' = [state EXCEPT ![caller] = "READY"] /\ reason' = [reason EXCEPT ![caller] = "none"]
        /\ Return(c, <<S("disarm", caller)>> \o Enqueue(caller))
    BY <1>1, <1>4, <1>7 DEF EpReply
  <2>2. /\ state'[caller] = "READY" /\ reason'[caller] = "none"
        /\ \A u \in Threads \ {caller} : state'[u] = state[u] /\ reason'[u] = reason[u]
    BY <1>4, <2>1 DEF SmpInv, Typed
  <2>3. CpuOf[caller] = c
    BY <1>3, <1>4, <1>7 DEF SmpInv, Waits
  <2>4. /\ todo' \in [Cpus -> Seq(Steps)] /\ Lined'
        /\ \A d \in Cpus \ {c} : Left(d)' = Left(d)
        /\ Left(c) = {}
        /\ Left(c)' = {S("disarm", caller), S("enqueue", caller), S("mark", caller)}
                        \cup {S("kick", Null), S("sample", Null)}
    <3>1. PICK p : p = <<S("disarm", caller)>> \o Enqueue(caller)
      OBVIOUS
    <3>2. /\ p \in Seq(Steps) /\ Ordered(p)
          /\ Elems(p) = {S("disarm", caller), S("enqueue", caller), S("mark", caller)}
      BY <1>4, <3>1, ThenEnqueue
    <3>3. \A e \in Elems(p) : e.op \notin LastOps
      BY <3>2 DEF S, LastOps
    <3>4. todo' = [todo EXCEPT ![c] = p \o Exit]
      BY <2>1, <3>1 DEF Return
    <3>5. /\ todo' \in [Cpus -> Seq(Steps)] /\ Lined'
          /\ \A d \in Cpus \ {c} : Left(d)' = Left(d)
          /\ Left(c) = {} /\ Left(c)' = Elems(p) \cup {S("kick", Null), S("sample", Null)}
      BY <1>3, <3>2, <3>3, <3>4, Returned
    <3> QED
      BY <3>2, <3>5
  <2>5. PICK B, W, r : B = {} /\ W = {caller} /\ r = "call"
    OBVIOUS
  <2>6. /\ S("kick", Null) \in Left(c)' /\ S("sample", Null) \in Left(c)'
        /\ \A u \in W : S("enqueue", u) \in Left(c)'
        /\ \A a, y : S(a, y) \in Left(c)' =>
             \/ a \in {"kick", "sample"}
             \/ a = "dequeue" /\ y \in B
             \/ a \in {"enqueue", "mark", "disarm"} /\ y \in W
    BY <2>4, <2>5, StepsDiffer
  <2>7. Receivers'
    <3>1. \A i \in DOMAIN recvQ : recvQ[i] \in Threads
      BY ElementOfSeq, LenProperties DEF SmpInv, Typed
    <3>2. \A i \in DOMAIN recvQ : recvQ[i] # caller /\ reason'[recvQ[i]] = "recv"
      BY <1>7, <2>2, <3>1 DEF SmpInv, Receivers
    <3> QED
      BY <1>2, <3>2 DEF SmpInv, Receivers
  <2>8. Typed'
    BY <1>2, <1>4, <1>5, <2>1, <2>4 DEF SmpInv, Typed, cpuVars, timerVars
  <2>9. B \in SUBSET {current[c]} /\ W \in SUBSET Threads /\ r \in {"call", "recv"}
    BY <2>5
  <2>10. /\ \A u \in W : /\ reason[u] \in {"call", "recv"} /\ CpuOf[u] = c
                         /\ state'[u] = "READY" /\ reason'[u] = "none"
         /\ \A u \in B : state'[u] = "BLOCKED" /\ reason'[u] = r
         /\ \A u \in Threads : u \notin B /\ u \notin W => state'[u] = state[u] /\ reason'[u] = reason[u]
    BY <1>7, <2>2, <2>3, <2>5
  <2>11. UNCHANGED <<board, cpuVars, rq, timerVars, waiter>> /\ \A u \in Threads : timed'[u] <=> timed[u]
    BY <1>2
  <2>12. EndpointEntry(c, B, W, r)
    BY <2>4, <2>6, <2>10, <2>11 DEF EndpointEntry
  <2> QED
    BY <1>2, <2>4, <2>7, <2>8, <2>9, <2>12, EndpointKeeps
<1> QED
  BY <1>6, <1>7

-----------------------------------------------------------------------------
(* The initial states.                                                      *)
LEMMA BringUp ==
  ASSUME NEW n \in Nat, NEW order \in [1 .. n -> Cpus \ {Cpu0}], NEW s,
         s = [i \in DOMAIN order |-> S("release", order[i])] \o <<Nothing("first")>>
  PROVE  /\ s \in Seq(Steps) /\ Ordered(s)
         /\ Elems(s) = {S("release", order[i]) : i \in 1 .. n} \cup {S("first", Null)}
<1>1. PICK q : q = [i \in 1 .. n |-> S("release", order[i])]
  OBVIOUS
<1>2. \A i \in 1 .. n : S("release", order[i]) \in Steps
  BY StepTyped DEF OpNames
<1>3. q \in Seq(Steps) /\ DOMAIN q = 1 .. n
  BY <1>1, <1>2, IsASeq
<1>4. Elems(q) = {S("release", order[i]) : i \in 1 .. n}
  BY <1>1 DEF Elems
<1>5. \A a, y : S(a, y).op = a
  BY DEF S
<1>6. \A e \in Elems(q) : e.op = "release"
  BY <1>4, <1>5
<1>7. Ordered(q)
  BY <1>6 DEF Ordered, Elems, FirstOps, LastOps
<1>8. PICK f : f = <<S("first", Null)>>
  OBVIOUS
<1>9. f \in Seq(Steps) /\ Ordered(f) /\ Elems(f) = {S("first", Null)}
  <2>1. S("first", Null) \in Steps
    BY StepTyped DEF OpNames
  <2> QED
    BY <1>5, <1>8, <2>1, One
<1>10. /\ \A e \in Elems(f) : e.op \notin FirstOps
       /\ \A e \in Elems(q) : e.op \notin LastOps /\ e.op \notin {"mark", "expire"}
  BY <1>5, <1>6, <1>9 DEF FirstOps, LastOps
<1>11. q \o f \in Seq(Steps) /\ Ordered(q \o f) /\ Elems(q \o f) = Elems(q) \cup Elems(f)
  BY <1>3, <1>7, <1>9, <1>10, Joined
<1>12. s = q \o f
  BY <1>1, <1>8 DEF Nothing
<1> QED
  BY <1>4, <1>9, <1>11, <1>12

LEMMA InitSmp ==
  ASSUME NEW Eps, Init
  PROVE  SmpInv(Eps)
<1>1. PICK n \in Nat : n = Cardinality(Cpus) - 1
  <2>1. Cardinality(Cpus) \in Nat /\ Cardinality(Cpus) # 0
    BY SmpAssumption, FS_CardinalityType, FS_EmptySet
  <2> QED
    BY <2>1
<1>2. PICK order \in [1 .. n -> Cpus \ {Cpu0}] :
        /\ \A c \in Cpus \ {Cpu0} : \E i \in DOMAIN order : order[i] = c
        /\ todo = [c \in Cpus |->
             IF c = Cpu0 THEN [i \in DOMAIN order |-> S("release", order[i])] \o <<Nothing("first")>>
                         ELSE <<Nothing("park")>>]
  BY <1>1 DEF Init
<1>3. PICK s, w : /\ s = [i \in DOMAIN order |-> S("release", order[i])] \o <<Nothing("first")>>
                  /\ w = <<S("park", Null)>>
  OBVIOUS
<1>4. /\ s \in Seq(Steps) /\ Ordered(s)
      /\ Elems(s) = {S("release", order[i]) : i \in 1 .. n} \cup {S("first", Null)}
  BY <1>3, BringUp
<1>5. w \in Seq(Steps) /\ Ordered(w) /\ Elems(w) = {S("park", Null)}
  <2>1. S("park", Null) \in Steps /\ S("park", Null).op = "park"
    BY StepTyped DEF OpNames, S
  <2> QED
    BY <1>3, <2>1, One
<1>6. /\ todo \in [Cpus -> Seq(Steps)] /\ \A c \in Cpus : Ordered(todo[c])
      /\ todo[Cpu0] = s /\ \A c \in Cpus \ {Cpu0} : todo[c] = w
  BY <1>2, <1>3, <1>4, <1>5, SmpAssumption DEF Nothing
<1>7. /\ \A a, y : S(a, y) \in Left(Cpu0) <=>
           (a = "release" /\ \E i \in 1 .. n : y = order[i]) \/ (a = "first" /\ y = Null)
      /\ \A c \in Cpus \ {Cpu0} : \A a, y : S(a, y) \in Left(c) <=> a = "park" /\ y = Null
  BY <1>4, <1>5, <1>6, StepsDiffer, LeftIsElems
<1>8. \A c \in Cpus \ {Cpu0} : S("release", c) \in Left(Cpu0)
  BY <1>2, <1>7
<1>9. /\ current = [c \in Cpus |-> Null] /\ board \in Boards /\ released = {} /\ ready = {} /\ online = {Cpu0}
      /\ needs = [c \in Cpus |-> FALSE] /\ deferred = [c \in Cpus |-> {}] /\ ipi = {}
      /\ state = [t \in Threads |-> IF t = Root THEN "READY" ELSE "NEW"] /\ rq = {Root}
      /\ reason = [t \in Threads |-> "none"] /\ timed = [t \in Threads |-> FALSE]
      /\ cb = [t \in Threads |-> Null] /\ armed = {}
      /\ bit = FALSE /\ waiter = Null
      /\ sendQ = <<>> /\ recvQ = <<>> /\ owes = [t \in Threads |-> Null]
  BY DEF Init
<1>10. \A c \in Cpus : \A a, y : S(a, y) \in Left(c) => a \in {"release", "first", "park"}
  BY <1>7
<1>11. \A c \in Cpus : \A a : Has(c, a) => a \in {"release", "first", "park"}
  BY <1>10 DEF Has
<1>12. Typed
  <2>1. /\ sendQ \in Seq(Threads) /\ recvQ \in Seq(Threads)
        /\ owes \in [Threads -> Threads \cup {Null}] /\ waiter \in Threads \cup {Null}
    BY <1>9
  <2>2. /\ board \in Boards /\ ready \subseteq Cpus /\ online \subseteq Cpus /\ ipi \subseteq Cpus
        /\ current \in [Cpus -> Threads \cup {Idle, Null}]
        /\ needs \in [Cpus -> BOOLEAN] /\ deferred \in [Cpus -> SUBSET Cpus]
    BY <1>9, SmpAssumption
  <2>3. /\ state \in [Threads -> {"NEW", "READY", "RUNNING", "BLOCKED"}]
        /\ reason \in [Threads -> {"none", "sleep", "notif", "call", "recv"}]
        /\ rq \subseteq Threads /\ armed \subseteq Threads /\ bit \in BOOLEAN
        /\ timed \in [Threads -> BOOLEAN] /\ cb \in [Threads -> {Null, "sleep", "notif"}]
    BY <1>9, SmpAssumption
  <2> QED
    BY <1>6, <2>1, <2>2, <2>3 DEF Typed
<1>13. Lined
  BY <1>6 DEF Lined
<1>14. Booting
  <2>1. ASSUME NEW c \in Cpus PROVE Booted(c)
    <3>1. current[c] = Null
      BY <1>9
    <3>2. ~Has(c, "publish") /\ ~Has(c, "await") /\ ~Has(c, "ready")
      BY <1>11
    <3>3. (Has(c, "release") => Has(c, "first")) /\ (Has(c, "park") => c # Cpu0)
      <4>1. CASE c = Cpu0
        <5>1. S("first", Null) \in Left(c) /\ \A y : S("park", y) \notin Left(c)
          BY <1>7, <4>1
        <5> QED
          BY <5>1 DEF Has
      <4>2. CASE c # Cpu0
        <5>1. \A y : S("release", y) \notin Left(c)
          BY <1>7, <4>2
        <5> QED
          BY <4>2, <5>1 DEF Has
      <4> QED
        BY <4>1, <4>2
    <3> QED
      BY <1>10, <3>1, <3>2, <3>3 DEF Booted, BootOps
  <2> QED
    BY <2>1 DEF Booting
<1>15. AllStarted
  BY <1>8, <1>9 DEF AllStarted
<1>16. Notified
  BY <1>9 DEF Notified
<1>17. QueueingFits
  BY <1>10, <1>11 DEF QueueingFits, EnqueueFits, PickFits, SwitchFits
<1>18. WakingFits
  BY <1>10 DEF WakingFits, DequeueFits, MarkFits
<1>19. TimingFits
  BY <1>10 DEF TimingFits, ArmFits, ExpireFits, DisarmFits
<1>20. Hosting
  BY <1>9, SmpAssumption DEF Hosting
<1>21. Placed
  BY <1>9 DEF Placed
<1>22. Waits(Eps)
  BY <1>9, SmpAssumption DEF Waits
<1>23. Receivers
  BY <1>9 DEF Receivers
<1>24. Timers
  BY <1>9 DEF Timers
<1>25. Noticed
  <2>1. \A c \in Cpus : \A x : ~Bound(c, x)
    BY <1>9, <1>10 DEF Bound
  <2> QED
    BY <2>1 DEF Noticed
<1> QED
  BY <1>12, <1>13, <1>14, <1>15, <1>16, <1>17, <1>18, <1>19, <1>20, <1>21, <1>22, <1>23, <1>24, <1>25 DEF SmpInv

-----------------------------------------------------------------------------
(* Every step keeps the invariant.                                          *)
LEMMA KernelStepKeeps ==
  ASSUME NEW Eps, SmpInv(Eps), NEW c \in Cpus, CpuStep(c)
  PROVE  SmpInv(Eps)'
<1>1. CASE Release(c) \/ Await(c) \/ Park(c) \/ First(c) \/ Publish(c) \/ Online(c) \/ Ready(c)
  BY <1>1, ReleaseKeeps, AwaitKeeps, ParkKeeps, FirstKeeps, PublishKeeps, OnlineKeeps, ReadyKeeps
<1>2. CASE StepEnqueue(c) \/ StepDequeue(c) \/ StepMark(c) \/ StepResched(c) \/ StepKick(c)
  BY <1>2, StepEnqueueKeeps, StepDequeueKeeps, StepMarkKeeps, StepReschedKeeps, StepKickKeeps
<1>3. CASE StepArm(c) \/ StepDisarm(c) \/ Expire(c) \/ TakeIpi(c) \/ Tick(c)
  BY <1>3, StepArmKeeps, StepDisarmKeeps, ExpireKeeps, TakeIpiKeeps, TickKeeps
<1>4. CASE StepSample(c) \/ StepStay(c) \/ StepPick(c) \/ StepSwitch(c)
  BY <1>4, StepSampleKeeps, StepStayKeeps, StepPickKeeps, StepSwitchKeeps
<1> QED
  BY <1>1, <1>2, <1>3, <1>4 DEF CpuStep, KernelStep

LEMMA LocalStepKeeps ==
  ASSUME NEW Clients, NEW Servers, NEW Sleepers,
         \A s, t \in Threads \cap (Clients \cup Servers) : CpuOf[s] = CpuOf[t],
         SmpInv(Clients \cup Servers), NEW c \in Cpus, LocalStep(c, Clients, Servers, Sleepers)
  PROVE  SmpInv(Clients \cup Servers)'
<1>1. PICK Eps : Eps = Clients \cup Servers
  OBVIOUS
<1>2. SmpInv(Eps) /\ \A s, t \in Threads \cap Eps : CpuOf[s] = CpuOf[t]
  BY <1>1
<1>3. CASE \E t \in Threads : Spawn(c, t)
  BY <1>1, <1>2, <1>3, SpawnKeeps
<1>4. CASE current[c] \in Clients /\ EpCall(c)
  BY <1>1, <1>2, <1>4, EpCallKeeps
<1>5. CASE current[c] \in Servers /\ Serve(c)
  <2>1. CASE owes[current[c]] = Null
    BY <1>1, <1>2, <1>5, <2>1, EpRecvKeeps DEF Serve
  <2>2. CASE owes[current[c]] # Null
    BY <1>1, <1>2, <1>5, <2>2, EpReplyKeeps DEF Serve
  <2> QED
    BY <2>1, <2>2
<1>6. CASE Sleep(c) \/ NotifTake(c)
  BY <1>1, <1>2, <1>6, SleepKeeps, NotifTakeKeeps
<1>7. CASE Owns(c, current[c]) /\ NotifWait(c, TRUE)
  BY <1>1, <1>2, <1>7, NotifWaitKeeps DEF Owns
<1>8. CASE NotifWait(c, FALSE)
  BY <1>1, <1>2, <1>8, NotifWaitKeeps
<1>9. CASE \E t \in Threads : Owns(c, t) /\ SleepCancel(c, t)
  BY <1>1, <1>2, <1>9, SleepCancelKeeps
<1>10. CASE Harmless(c) /\ NotifSignal(c)
  BY <1>1, <1>2, <1>10, NotifSignalKeeps
<1> QED
  BY <1>3, <1>4, <1>5, <1>6, <1>7, <1>8, <1>9, <1>10 DEF LocalStep

LEMMA SmpStuttering ==
  ASSUME NEW Eps, SmpInv(Eps), UNCHANGED vars
  PROVE  SmpInv(Eps)'
<1> USE DEF vars, cpuVars, waitVars, timerVars, objVars
<1>1. \A c : Left(c)' = Left(c)
  BY DEF Left
<1>2. \A c, a : Has(c, a)' <=> Has(c, a)
  BY <1>1 DEF Has
<1>3. \A c : Leaving(c)' <=> Leaving(c)
  BY <1>2 DEF Leaving
<1>4. \A t : WheelOf(t)' = WheelOf(t)
  BY DEF WheelOf
<1>5. Typed' /\ Lined' /\ Notified' /\ Receivers' /\ Waits(Eps)'
  BY DEF SmpInv, Typed, Lined, Notified, Receivers, Waits
<1>6. Booting' /\ AllStarted' /\ Hosting'
  BY <1>1, <1>2, <1>3 DEF SmpInv, Booting, Booted, AllStarted, Hosting
<1>7. QueueingFits' /\ WakingFits'
  BY <1>1, <1>2 DEF SmpInv, QueueingFits, EnqueueFits, PickFits, SwitchFits, WakingFits, DequeueFits, MarkFits
<1>8. \A t : Arming(t)' <=> Arming(t)
  BY <1>2 DEF Arming
<1>9. TimingFits'
  BY <1>1, <1>2, <1>4, <1>8 DEF SmpInv, TimingFits, ArmFits, ExpireFits, DisarmFits
<1>10. Placed'
  BY <1>1 DEF SmpInv, Placed, Coming
<1>11. Timers'
  BY <1>1, <1>4, <1>8 DEF SmpInv, Timers
<1>12. Noticed'
  BY <1>1, <1>2, <1>3 DEF SmpInv, Noticed, Bound, Told, Queued
<1> QED
  BY <1>5, <1>6, <1>7, <1>9, <1>10, <1>11, <1>12 DEF SmpInv

-----------------------------------------------------------------------------
(* What the invariant says of the checked properties.                       *)
LEMMA LeftIsPending ==
  ASSUME NEW c \in Cpus, NEW ops, NEW a \in ops, NEW t, S(a, t) \in Left(c)
  PROVE  Pending(t, ops)
<1>1. PICK i \in DOMAIN todo[c] : todo[c][i] = S(a, t)
  BY DEF Left
<1>2. todo[c][i].op \in ops /\ todo[c][i].x = t
  BY <1>1 DEF S
<1> QED
  BY <1>2 DEF Pending

LEMMA InvImpliesQueues ==
  ASSUME NEW Eps, SmpInv(Eps)
  PROVE  QueuesFollowStates
<1>1. TypeOK
  BY DEF SmpInv, Typed, Notified, Placed, TypeOK
<1>2. ASSUME NEW t \in Threads, state[t] = "READY", t \notin rq
      PROVE  Pending(t, {"enqueue", "switch", "publish"})
  <2>1. PICK c \in Cpus, a \in {"enqueue", "switch", "publish"} : S(a, t) \in Left(c)
    BY <1>2 DEF SmpInv, Placed, Coming
  <2> QED
    BY <2>1, LeftIsPending
<1> QED
  BY <1>1, <1>2 DEF QueuesFollowStates, ReadyIsQueued

LEMMA InvImpliesNoticed ==
  ASSUME NEW Eps, SmpInv(Eps)
  PROVE  WakeNoticed
<1>1. ASSUME NEW c \in Cpus, InUser(c), Urgent(c), board.handshake
      PROVE  \/ c \in ipi \/ \E d \in Cpus : c \in deferred[d]
             \/ \E t \in Queued(rq, c) : Pending(t, {"mark"})
  <2>1. PICK u \in Queued(rq, c) : Prio[u] < Urgency(current[c])
    BY <1>1 DEF Urgent
  <2>2. Left(c) = {}
    BY <1>1 DEF InUser, Left
  <2>3. Bound(c, current[c])
    BY <1>1, <2>2 DEF Bound, Leaving, Has, InUser
  <2>4. current[c] \in Threads \cup {Idle}
    BY <1>1 DEF InUser, SmpInv, Typed
  <2>5. Told(c, u)
    BY <1>1, <2>1, <2>3, <2>4 DEF SmpInv, Noticed
  <2>6. \A d \in Cpus : S("mark", u) \in Left(d) => Pending(u, {"mark"})
    BY LeftIsPending
  <2> QED
    BY <2>1, <2>5, <2>6 DEF Told
<1> QED
  BY <1>1 DEF WakeNoticed

LEMMA InvImpliesTimers ==
  ASSUME NEW Eps, SmpInv(Eps)
  PROVE  TimerOfWait
<1>1. ASSUME NEW t \in Threads
      PROVE  CpuOf[t] \in Cpus /\ WheelOf(t) \in Cpus
  BY Places DEF SmpInv
<1>2. ASSUME NEW t \in Threads, t \in armed, ~timed[t]
      PROVE  Pending(t, {"disarm"})
  <2>1. S("disarm", t) \in Left(CpuOf[t])
    BY <1>2 DEF SmpInv, Timers
  <2> QED
    BY <1>1, <2>1, LeftIsPending
<1>3. ASSUME NEW t \in Threads, timed[t], t \notin armed
      PROVE  \/ Pending(t, {"expire"})
             \/ \E c \in Cpus : current[c] = t /\ \E i \in DOMAIN todo[c] : todo[c][i].op = "arm"
  <2>1. CASE S("expire", t) \in Left(WheelOf(t))
    BY <1>1, <2>1, LeftIsPending
  <2>2. CASE Arming(t)
    <3>1. PICK x : S("arm", x) \in Left(CpuOf[t])
      BY <2>2 DEF Arming, Has
    <3>2. PICK i \in DOMAIN todo[CpuOf[t]] : todo[CpuOf[t]][i] = S("arm", x)
      BY <3>1 DEF Left
    <3>3. todo[CpuOf[t]][i].op = "arm"
      BY <3>2 DEF S
    <3> QED
      BY <1>1, <2>2, <3>3 DEF Arming
  <2> QED
    BY <1>3, <2>1, <2>2 DEF SmpInv, Timers
<1> QED
  BY <1>2, <1>3 DEF TimerOfWait

\* What every CPU has left to do fits the queues, the threads, the waits and the
\* timeouts it is about (the code after each unlock in ep.c, notif.c, sleep.c,
\* and ulmk_sched_trap_dispatch), on any number of CPUs: the inductive invariant.
THEOREM SmpInvariant ==
  ASSUME NEW Clients, NEW Servers, NEW Sleepers,
         \A s, t \in Threads \cap (Clients \cup Servers) : CpuOf[s] = CpuOf[t]
  PROVE  LocalSpec(Clients, Servers, Sleepers) => []SmpInv(Clients \cup Servers)
<1>1. Init => SmpInv(Clients \cup Servers)
  BY InitSmp
<1>2. SmpInv(Clients \cup Servers) /\ [LocalNext(Clients, Servers, Sleepers)]_vars
        => SmpInv(Clients \cup Servers)'
  BY KernelStepKeeps, LocalStepKeeps, SmpStuttering DEF LocalNext
<1> QED
  BY <1>1, <1>2, PTL DEF LocalSpec

\* No wake is lost between CPUs (bitmap_rt_enqueue, bitmap_rt_pick_next and
\* ulmk_sched_trap_dispatch): on any number of CPUs, and for programs whose
\* endpoint's clients and servers share a CPU, a RUNNING thread is the current
\* one of its CPU and on no queue, and a READY one is queued or about to be.
THEOREM NoWakeLost ==
  ASSUME NEW Clients, NEW Servers, NEW Sleepers,
         \A s, t \in Threads \cap (Clients \cup Servers) : CpuOf[s] = CpuOf[t]
  PROVE  LocalSpec(Clients, Servers, Sleepers) => []QueuesFollowStates
<1>1. LocalSpec(Clients, Servers, Sleepers) => []SmpInv(Clients \cup Servers)
  BY SmpInvariant
<1>2. SmpInv(Clients \cup Servers) => QueuesFollowStates
  BY InvImpliesQueues
<1> QED
  BY <1>1, <1>2, PTL

\* A wake is noticed (sched_mark_preempt_if_higher, ulmk_sched_kick_pending and
\* ulmk_sched_trap_dispatch): where bring-up waits for the secondaries, a CPU
\* in user code below a more urgent thread of its queue has an IPI raised, or
\* one on its way to it.
THEOREM WakesNoticed ==
  ASSUME NEW Clients, NEW Servers, NEW Sleepers,
         \A s, t \in Threads \cap (Clients \cup Servers) : CpuOf[s] = CpuOf[t]
  PROVE  LocalSpec(Clients, Servers, Sleepers) => []WakeNoticed
<1>1. LocalSpec(Clients, Servers, Sleepers) => []SmpInv(Clients \cup Servers)
  BY SmpInvariant
<1>2. SmpInv(Clients \cup Servers) => WakeNoticed
  BY InvImpliesNoticed
<1> QED
  BY <1>1, <1>2, PTL

\* A timeout belongs to a wait and a timed wait has its timeout (ulmk_kern_sleep,
\* notif_wait_timeout_impl, notif_signal_impl and the timeout callbacks), where
\* timed waits are ended by their own CPU only.
THEOREM TimersFollowWaits ==
  ASSUME NEW Clients, NEW Servers, NEW Sleepers,
         \A s, t \in Threads \cap (Clients \cup Servers) : CpuOf[s] = CpuOf[t]
  PROVE  LocalSpec(Clients, Servers, Sleepers) => []TimerOfWait
<1>1. LocalSpec(Clients, Servers, Sleepers) => []SmpInv(Clients \cup Servers)
  BY SmpInvariant
<1>2. SmpInv(Clients \cup Servers) => TimerOfWait
  BY InvImpliesTimers
<1> QED
  BY <1>1, <1>2, PTL
=============================================================================
