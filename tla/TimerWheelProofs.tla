-------------------------- MODULE TimerWheelProofs --------------------------
(***************************************************************************)
(* No timeout of the wheel fires early or is missed, for any number of     *)
(* levels, buckets and timeouts, any granularities that nest, and any      *)
(* deltas that stay clear of the end of their level.                       *)
(*                                                                         *)
(* The clock and the bucket of a timeout determine the tick at which the   *)
(* bucket is emptied: the next clock value that is a multiple of the       *)
(* level's granularity and whose quotient is the bucket's index modulo the *)
(* number of buckets.  The inductive invariant names the distance f to it  *)
(* and says that it is less than a turn of the level, not before the       *)
(* requested time, and less than a granule after it.  A tick shortens f by *)
(* one; the bucket is emptied exactly when f becomes 0.                    *)
(***************************************************************************)
EXTENDS TimerWheel, SequenceTheorems, FiniteSetTheorems, WellFoundedInduction, TLAPS

(* The bucket of t is emptied f ticks from now.                             *)
Fires(t, f, k) ==
  LET g == Gran(home[t].lvl) IN
  /\ f \in 1 .. Size * g
  /\ clk + f = g * (home[t].idx + Size * k)
  /\ due[t] <= f /\ f < due[t] + g

OnTime(t) ==
  home[t] \in Bucket =>
    /\ home[t].idx \in pending[home[t].lvl]
    /\ \E f, k \in Int : Fires(t, f, k)

(* What a tick collected is due, and on the list once.                      *)
Drains == IsInjective(expiring) /\ \A i \in DOMAIN expiring : due[expiring[i]] <= 0

(* Every delta stays clear of the end of its level.                         *)
AllClear == \A d \in Deltas : ClearOfLevelEnd(d)

WheelInv == TypeOK /\ (\A t \in Timeouts : OnTime(t)) /\ Drains

-----------------------------------------------------------------------------
(* Arithmetic.  The relations have names, so that the lemmas about them are *)
(* applied without reasoning about products again.                          *)

(* Bucket i of a level of s buckets of g ticks is one the clock reaches f   *)
(* ticks after c, in its turn k.                                            *)
Reaches(c, f, g, s, i, k) == i \in 0 .. s - 1 /\ c + f = g * (i + s * k)

WithinTurn(f, g, s) == 0 <= f /\ f < s * g

(* The bucket is the one that a tick at c empties.                          *)
Emptied(c, g, s, i) == c % g = 0 /\ i = (c \div g) % s

(* The clock x counts modulo p, a whole number of turns.                    *)
Wraps(x, g, s, m, p) == p = s * (g * m) /\ x \in 0 .. p - 1

(* The bucket that calc_index computes for a delta clear of the level's end.*)
Placed(x, delta, g, s, i) ==
  delta <= s * g - g + 1 /\ i = ((x + delta + g - 1) \div g) % s

RightTime(f, delta, g, s) == f \in 1 .. s * g /\ delta <= f /\ f < delta + g

LEMMA DivMod ==
  ASSUME NEW a \in Int, NEW g \in Nat \ {0}
  PROVE  \E q \in Int, r \in 0 .. g - 1 : q = a \div g /\ r = a % g /\ a = g * q + r
<1>1. PICK q \in Int : q = a \div g
  OBVIOUS
<1>2. PICK r \in 0 .. g - 1 : r = a % g
  OBVIOUS
<1>3. a = (a \div g) * g + (a % g)
  BY Z3T(30)
<1>4. a = q * g + r
  BY <1>1, <1>2, <1>3
<1>5. a = g * q + r
  BY <1>4
<1> QED
  BY <1>1, <1>2, <1>5

LEMMA Quotient ==
  ASSUME NEW q \in Int, NEW g \in Nat \ {0}, NEW r \in 0 .. g - 1
  PROVE  (g * q + r) \div g = q /\ (g * q + r) % g = r
  OBVIOUS

LEMMA Whole ==
  ASSUME NEW q \in Int, NEW g \in Nat \ {0}
  PROVE  (g * q) \div g = q /\ (g * q) % g = 0
  OBVIOUS

LEMMA Below ==
  ASSUME NEW g \in Nat \ {0}, NEW r \in 0 .. g - 1
  PROVE  r % g = r
  OBVIOUS

LEMMA Multiple ==
  ASSUME NEW p \in Nat \ {0}, NEW m \in Int, 0 < p * m
  PROVE  p <= p * m
<1>1. CASE m <= 0
  BY <1>1
<1>2. CASE m > 0
  BY <1>2
<1> QED
  BY <1>1, <1>2

LEMMA Ring ==
  ASSUME NEW a \in Int, NEW b \in Int, NEW c \in Int
  PROVE  /\ a * b \in Int /\ a * b = b * a /\ a * (b * c) = (a * b) * c
         /\ a * (b + c) = a * b + a * c /\ a * (b - c) = a * b - a * c
  OBVIOUS

(* A bucket that is reached within a turn is the bucket of this very tick   *)
(* exactly if it is reached now.                                            *)
LEMMA EmptiedNow ==
  ASSUME NEW c \in Int, NEW f \in Int, NEW g \in Nat \ {0}, NEW s \in Nat \ {0},
         NEW idx \in Int, NEW k \in Int,
         Reaches(c, f, g, s, idx, k), WithinTurn(f, g, s)
  PROVE  Emptied(c, g, s, idx) <=> f = 0
<1>1. idx \in 0 .. s - 1 /\ c + f = g * (idx + s * k) /\ 0 <= f /\ f < s * g
  BY DEF Reaches, WithinTurn
<1>2. ASSUME f = 0
      PROVE  c % g = 0 /\ idx = (c \div g) % s
  <2>1. PICK q \in Int : q = s * k + idx
    OBVIOUS
  <2>2. c = g * q
    BY <1>1, <1>2, <2>1
  <2>3. c \div g = q /\ c % g = 0
    BY <2>2, Whole, Zenon
  <2>4. q % s = idx
    BY <1>1, <2>1, Quotient
  <2> QED
    BY <2>3, <2>4, Zenon
<1>3. ASSUME c % g = 0, idx = (c \div g) % s, f # 0
      PROVE  FALSE
  <2>1. PICK q \in Int : q = c \div g /\ c = g * q
    <3>1. PICK q \in Int, r \in 0 .. g - 1 : q = c \div g /\ r = c % g /\ c = g * q + r
      BY DivMod
    <3>2. c = g * q
      BY <1>3, <3>1
    <3> QED
      BY <3>1, <3>2
  <2>2. PICK j \in Int : q = s * j + idx
    <3>1. PICK j \in Int, i \in 0 .. s - 1 : j = q \div s /\ i = q % s /\ q = s * j + i
      BY DivMod
    <3>2. i = idx
      BY <1>3, <2>1, <3>1, Zenon
    <3> QED
      BY <3>1, <3>2, Zenon
  <2>3. f = (s * g) * (k - j)
    <3>1. f = g * (idx + s * k) - g * (idx + s * j)
      BY <1>1, <2>1, <2>2
    <3>2. \A n \in Int : g * (idx + s * n) = g * idx + (s * g) * n
      BY SMTT(30)
    <3>3. (s * g) * (k - j) = (s * g) * k - (s * g) * j
      BY Ring
    <3> QED
      BY <3>1, <3>2, <3>3
  <2>4. s * g \in Nat \ {0}
    OBVIOUS
  <2>5. s * g <= (s * g) * (k - j)
    <3>1. 0 < (s * g) * (k - j)
      BY <1>1, <1>3, <2>3
    <3>2. k - j \in Int
      OBVIOUS
    <3> QED
      BY <2>4, <3>1, <3>2, Multiple
  <2> QED
    BY <1>1, <2>3, <2>4, <2>5
<1> QED
  BY <1>2, <1>3 DEF Emptied

(* The tick that wraps the clock, kept modulo a whole number of turns.      *)
LEMMA ClockWraps ==
  ASSUME NEW x \in Int, NEW f \in Int, NEW g \in Nat \ {0}, NEW s \in Nat \ {0},
         NEW idx \in Int, NEW k \in Int, NEW m \in Int, NEW p \in Nat \ {0},
         Reaches(x, f, g, s, idx, k), Wraps(x, g, s, m, p)
  PROVE  (x + 1) % p \in Int /\ \E n \in Int : Reaches((x + 1) % p, f - 1, g, s, idx, n)
<1> SUFFICES ASSUME p = s * (g * m), x \in 0 .. p - 1, idx \in 0 .. s - 1,
                    x + f = g * (idx + s * k)
             PROVE  /\ (x + 1) % p \in Int
                    /\ \E n \in Int : ((x + 1) % p) + (f - 1) = g * (idx + s * n)
  BY DEF Reaches, Wraps
<1>1. CASE x + 1 < p
  <2>1. x + 1 \in 0 .. p - 1
    BY <1>1
  <2>2. (x + 1) % p = x + 1
    BY <2>1, Below, Zenon
  <2>3. ((x + 1) % p) + (f - 1) = g * (idx + s * k)
    BY <2>2
  <2>4. (x + 1) % p \in Int
    BY <2>2
  <2> QED
    BY <2>3, <2>4
<1>2. CASE x + 1 = p
  <2>1. (x + 1) % p = 0
    <3>1. p = p * 1 + 0 /\ 0 \in 0 .. p - 1
      OBVIOUS
    <3>2. (p * 1 + 0) % p = 0
      BY <3>1, Quotient
    <3> QED
      BY <1>2, <3>1, <3>2, Zenon
  <2>2. 0 + (f - 1) = g * (idx + s * (k - m))
    <3>1. f - 1 = g * (idx + s * k) - s * (g * m)
      BY <1>2
    <3>2. s * (g * m) = g * (s * m)
      OBVIOUS
    <3>3. g * (idx + s * (k - m)) = g * (idx + s * k) - g * (s * m)
      <4>1. s * (k - m) = s * k - s * m
        OBVIOUS
      <4>2. PICK u \in Int, v \in Int : u = idx + s * k /\ v = s * m
        OBVIOUS
      <4>3. idx + s * (k - m) = u - v
        BY <4>1, <4>2
      <4> QED
        BY <4>2, <4>3, Ring
    <3> QED
      BY <3>1, <3>2, <3>3
  <2>3. PICK n \in Int : n = k - m
    OBVIOUS
  <2>4. ((x + 1) % p) + (f - 1) = g * (idx + s * n)
    BY <2>1, <2>2, <2>3
  <2>5. (x + 1) % p \in Int
    BY <2>1
  <2> QED
    BY <2>4, <2>5
<1> QED
  BY <1>1, <1>2

(* calc_index rounds up: the bucket is emptied at the first multiple of g   *)
(* that is not before the expiry.                                           *)
LEMMA RoundsUp ==
  ASSUME NEW x \in Nat, NEW delta \in Nat \ {0}, NEW g \in Nat \ {0}, NEW s \in Nat \ {0},
         NEW idx, Placed(x, delta, g, s, idx)
  PROVE  \E f, k \in Int : Reaches(x, f, g, s, idx, k) /\ RightTime(f, delta, g, s)
<1> SUFFICES ASSUME delta <= s * g - g + 1, idx = ((x + delta + g - 1) \div g) % s
             PROVE  \E f, k \in Int : Reaches(x, f, g, s, idx, k) /\ RightTime(f, delta, g, s)
  BY DEF Placed
<1>1. PICK e \in Int : e = x + delta + g - 1
  OBVIOUS
<1>2. PICK q \in Int, r \in 0 .. g - 1 : q = e \div g /\ r = e % g /\ e = g * q + r
  BY DivMod
<1>3. PICK k \in Int : idx \in 0 .. s - 1 /\ q = s * k + idx
  <2>1. PICK k \in Int, i \in 0 .. s - 1 : k = q \div s /\ i = q % s /\ q = s * k + i
    BY DivMod
  <2> QED
    BY <1>1, <1>2, <2>1
<1>4. PICK w \in Int : w = g * q
  OBVIOUS
<1>5. s * g \in Int
  OBVIOUS
<1>6. PICK f \in Int : f = w - x
  OBVIOUS
<1>7. f \in 1 .. s * g /\ delta <= f /\ f < delta + g
  BY <1>1, <1>2, <1>4, <1>5, <1>6
<1>8. x + f = g * (idx + s * k)
  BY <1>3, <1>4, <1>6
<1>9. Reaches(x, f, g, s, idx, k)
  BY <1>3, <1>8 DEF Reaches
<1>10. RightTime(f, delta, g, s)
  BY <1>7 DEF RightTime
<1> QED
  BY <1>9, <1>10

-----------------------------------------------------------------------------
(* Levels, buckets and lists.                                               *)

LEMMA LevelFacts ==
  /\ Levels \subseteq Nat /\ Depth - 1 \in Levels
  /\ Size \in Nat \ {0} /\ \A l \in Levels : Gran(l) \in Nat \ {0}
  /\ Period \in Nat \ {0}
<1>1. Levels \subseteq Nat /\ Depth - 1 \in Levels
  BY WheelAssumption DEF Levels
<1>2. Size \in Nat \ {0} /\ \A l \in Levels : Gran(l) \in Nat \ {0}
  BY LevelsNest
<1>3. PICK a \in Nat \ {0}, b \in Nat \ {0} : a = Size /\ b = Gran(Depth - 1)
  BY <1>1, <1>2
<1>4. a * b \in Nat \ {0}
  OBVIOUS
<1>5. Period = a * b
  BY <1>3 DEF Period
<1> QED
  BY <1>1, <1>2, <1>4, <1>5

LEMMA PeriodTurns ==
  ASSUME NEW l \in Levels
  PROVE  \E m \in Int : Period = Size * (Gran(l) * m)
<1>1. PICK a \in Nat, g \in Nat \ {0} : a = Gran(Depth - 1) /\ g = Gran(l)
  BY LevelFacts
<1>2. a % g = 0
  BY <1>1, LevelsNest
<1>3. PICK m \in Int, r \in 0 .. g - 1 : m = a \div g /\ r = a % g /\ a = g * m + r
  BY DivMod
<1>4. a = g * m
  BY <1>2, <1>3
<1>5. Period = Size * (Gran(l) * m)
  BY <1>1, <1>4 DEF Period
<1> QED
  BY <1>5

LEMMA BucketFacts ==
  /\ \A b \in Bucket : b.lvl \in Levels /\ b.idx \in 0 .. Size - 1
  /\ \A l \in Levels, i \in 0 .. Size - 1 :
       /\ [lvl |-> l, idx |-> i] \in Bucket
       /\ [lvl |-> l, idx |-> i].lvl = l /\ [lvl |-> l, idx |-> i].idx = i
  /\ Unlinked \notin Bucket /\ Collected \notin Bucket
<1>1. Unlinked \notin Bucket
  BY DEF Bucket, Unlinked
<1>2. Collected \notin Bucket
  BY DEF Bucket, Collected
<1>3. \A b \in Bucket : b.lvl \in Levels /\ b.idx \in 0 .. Size - 1
  BY DEF Bucket
<1>4. \A l \in Levels, i \in 0 .. Size - 1 : [lvl |-> l, idx |-> i] \in Bucket
  BY DEF Bucket
<1> QED
  BY <1>1, <1>2, <1>3, <1>4

(* calc_wheel_index chooses a level of the wheel.                           *)
LEMMA LevelChosen ==
  ASSUME NEW delta \in Nat
  PROVE  CalcLevel(delta) \in Levels
<1>1. PICK B : B = {l \in Levels : delta < Size * Gran(l)} \cup {Depth - 1}
  OBVIOUS
<1>2. B \subseteq Levels /\ B \subseteq Nat /\ B # {}
  BY <1>1, LevelFacts
<1> DEFINE R == {ss \in Nat \X Nat : ss[1] < ss[2]}
<1>3. IsWellFoundedOn(R, Nat)
  BY NatLessThanWellFounded, Zenon DEF OpToRel
<1>4. PICK x \in B : \A y \in B : ~ (<<y, x>> \in R)
  <2> HIDE DEF R
  <2> QED
    BY <1>2, <1>3, WFMin
<1>5. \A y \in B : x <= y
  <2> SUFFICES ASSUME NEW y \in B, y < x
               PROVE  FALSE
    BY <1>2
  <2>1. <<y, x>> \in R
    BY <1>2
  <2> QED
    BY <1>4, <2>1
<1>6. Min(B) \in B
  BY <1>5 DEF Min
<1> QED
  BY <1>1, <1>2, <1>6 DEF CalcLevel

(* sys_dlist_remove keeps the other nodes, each once.                       *)
LEMMA UnlinkKeeps ==
  ASSUME NEW S, NEW s \in Seq(S), IsInjective(s), NEW t
  PROVE  /\ Unlink(s, t) \in Seq(S) /\ IsInjective(Unlink(s, t))
         /\ \A i \in DOMAIN Unlink(s, t) :
              Unlink(s, t)[i] # t /\ \E j \in DOMAIN s : Unlink(s, t)[i] = s[j]
<1>1. CASE \E i \in DOMAIN s : s[i] = t
  <2>1. PICK k : k = CHOOSE i \in DOMAIN s : s[i] = t
    OBVIOUS
  <2>2. k \in DOMAIN s /\ s[k] = t
    BY <1>1, <2>1
  <2>3. PICK n \in Nat : n = Len(s) /\ DOMAIN s = 1 .. n /\ \A i \in 1 .. n : s[i] \in S
    BY LenProperties, ElementOfSeq
  <2>4. PICK u : u = [j \in 1 .. n - 1 |-> IF j < k THEN s[j] ELSE s[j + 1]]
    OBVIOUS
  <2>5. Unlink(s, t) = u
    BY <1>1, <2>1, <2>3, <2>4 DEF Unlink
  <2>6. k \in 1 .. n /\ n - 1 \in Nat
    BY <2>2, <2>3
  <2>7. \A j \in 1 .. n - 1 : /\ j < k => j \in 1 .. n /\ j # k /\ u[j] = s[j]
                              /\ ~(j < k) => j + 1 \in 1 .. n /\ j + 1 # k /\ u[j] = s[j + 1]
    BY <2>4, <2>6
  <2>8. DOMAIN u = 1 .. n - 1
    BY <2>4
  <2>9. u \in [1 .. n - 1 -> S]
    BY <2>3, <2>4, <2>7
  <2>10. u \in Seq(S)
    BY <2>6, <2>9, IsASeq
  <2>11. IsInjective(u)
    <3> SUFFICES ASSUME NEW i \in 1 .. n - 1, NEW j \in 1 .. n - 1, u[i] = u[j]
                 PROVE  i = j
      BY <2>8 DEF IsInjective
    <3>1. \A a, b \in 1 .. n : s[a] = s[b] => a = b
      BY <2>3 DEF IsInjective
    <3> QED
      BY <2>6, <2>7, <3>1
  <2>12. \A i \in DOMAIN u : u[i] # t /\ \E j \in DOMAIN s : u[i] = s[j]
    BY <2>2, <2>3, <2>7, <2>8 DEF IsInjective
  <2> QED
    BY <2>5, <2>10, <2>11, <2>12
<1>2. CASE ~ \E i \in DOMAIN s : s[i] = t
  BY <1>2 DEF Unlink
<1> QED
  BY <1>1, <1>2

-----------------------------------------------------------------------------
(* Steps.                                                                   *)

(* A timeout that stays in its bucket, while the clock stands.              *)
LEMMA StaysOnTime ==
  ASSUME TypeOK, NEW t \in Timeouts, OnTime(t), clk' = clk, due'[t] = due[t],
         home'[t] = home[t] \/ home'[t] \notin Bucket,
         \A l \in Levels : pending[l] \subseteq pending'[l]
  PROVE  OnTime(t)'
<1> SUFFICES ASSUME home'[t] \in Bucket
             PROVE  /\ home'[t].idx \in pending'[home'[t].lvl]
                    /\ \E f, k \in Int : Fires(t, f, k)'
  BY DEF OnTime
<1>1. home'[t] = home[t] /\ home[t] \in Bucket /\ home[t].lvl \in Levels
  BY BucketFacts
<1>2. PICK f \in Int, k \in Int : Fires(t, f, k)
  BY <1>1 DEF OnTime
<1>3. Fires(t, f, k)'
  BY <1>1, <1>2 DEF Fires
<1>4. home[t].idx \in pending[home[t].lvl]
  BY <1>1 DEF OnTime
<1> QED
  BY <1>1, <1>3, <1>4

(* One call of the API, while the list q is being drained.                  *)
LEMMA ApiKeeps ==
  ASSUME AllClear, TypeOK, \A t \in Timeouts : OnTime(t),
         NEW h \in [Timeouts -> Bucket \cup {Unlinked, Collected}],
         \A t \in Timeouts : h[t] = home[t] \/ h[t] \notin Bucket,
         NEW q \in Seq(Timeouts), IsInjective(q), \A i \in DOMAIN q : due[q[i]] <= 0,
         Api(h, q), clk' = clk
  PROVE  WheelInv'
<1> USE DEF TypeOK
<1>1. ASSUME NEW t \in Timeouts, NEW d \in Deltas, Add(h, q, t, d)
      PROVE  WheelInv'
  <2>1. PICK delta \in Nat \ {0} : delta = (IF d = 0 THEN 1 ELSE d)
    BY WheelAssumption
  <2>2. PICK l \in Levels : l = CalcLevel(delta)
    BY LevelChosen
  <2>3. PICK g \in Nat \ {0}, s \in Nat \ {0} : g = Gran(l) /\ s = Size
    BY LevelFacts
  <2>4. PICK b : b = CalcIndex(clk + delta, l)
    OBVIOUS
  <2>5. /\ home' = [h EXCEPT ![t] = [lvl |-> l, idx |-> b]]
        /\ due' = [due EXCEPT ![t] = delta]
        /\ expiring' = Unlink(q, t)
        /\ pending' = [pending EXCEPT ![l] = pending[l] \cup {b}]
    BY <1>1, <2>1, <2>2, <2>4 DEF Add
  <2>6. delta <= s * g - g + 1
    <3>1. CASE d = 0
      <4>1. delta = 1 /\ s * g - g = g * (s - 1) /\ g * (s - 1) >= 0
        BY <2>1, <3>1
      <4>2. s * g \in Int
        OBVIOUS
      <4> QED
        BY <4>1, <4>2
    <3>2. CASE d # 0
      BY <2>1, <2>2, <2>3, <3>2 DEF AllClear, ClearOfLevelEnd
    <3> QED
      BY <3>1, <3>2
  <2>7. clk \in Nat
    BY LevelFacts
  <2>8. b = ((clk + delta + g - 1) \div g) % s
    BY <2>3, <2>4 DEF CalcIndex
  <2>9. PICK f \in Int, k \in Int : Reaches(clk, f, g, s, b, k) /\ RightTime(f, delta, g, s)
    <3>1. Placed(clk, delta, g, s, b)
      BY <2>6, <2>7, <2>8 DEF Placed
    <3> QED
      BY <2>7, <3>1, RoundsUp, Zenon
  <2>10. /\ b \in 0 .. Size - 1 /\ [lvl |-> l, idx |-> b] \in Bucket
         /\ clk + f = g * (b + s * k)
    BY <2>3, <2>9, BucketFacts DEF Reaches
  <2>11. home'[t] = [lvl |-> l, idx |-> b] /\ home'[t].lvl = l /\ home'[t].idx = b /\ due'[t] = delta
    BY <2>5
  <2>12. b \in pending'[l] /\ \A x \in Levels : pending[x] \subseteq pending'[x]
    BY <2>5
  <2>13. OnTime(t)'
    <3>1. f \in 1 .. s * g /\ delta <= f /\ f < delta + g
      BY <2>9 DEF RightTime
    <3>2. Fires(t, f, k)'
      BY <2>3, <2>10, <2>11, <3>1 DEF Fires
    <3> QED
      BY <2>10, <2>11, <2>12, <3>2 DEF OnTime
  <2>14. \A x \in Timeouts \ {t} : OnTime(x)'
    <3> SUFFICES ASSUME NEW x \in Timeouts, x # t
                 PROVE  OnTime(x)'
      OBVIOUS
    <3>1. home'[x] = h[x] /\ due'[x] = due[x]
      BY <2>5
    <3> QED
      BY <2>12, <3>1, StaysOnTime
  <2>15. TypeOK'
    <3>1. home' \in [Timeouts -> Bucket \cup {Unlinked, Collected}]
      BY <2>5, <2>10
    <3>2. due' \in [Timeouts -> Int] /\ pending' \in [Levels -> SUBSET (0 .. Size - 1)]
      BY <2>5, <2>10
    <3>3. expiring' \in Seq(Timeouts)
      BY <2>5, UnlinkKeeps
    <3> QED
      BY <3>1, <3>2, <3>3
  <2>16. Drains'
    <3>1. /\ IsInjective(expiring')
          /\ \A i \in DOMAIN expiring' : expiring'[i] # t /\ \E j \in DOMAIN q : expiring'[i] = q[j]
      BY <2>5, UnlinkKeeps
    <3>2. \A j \in DOMAIN q : q[j] \in Timeouts
      BY LenProperties, ElementOfSeq
    <3>3. \A i \in DOMAIN expiring' : due'[expiring'[i]] <= 0
      BY <2>5, <3>1, <3>2
    <3> QED
      BY <3>1, <3>3 DEF Drains
  <2> QED
    BY <2>13, <2>14, <2>15, <2>16 DEF WheelInv
<1>2. ASSUME NEW t \in Timeouts, Cancel(h, q, t)
      PROVE  WheelInv'
  <2>1. /\ home' = [h EXCEPT ![t] = Unlinked] /\ due' = [due EXCEPT ![t] = 0]
        /\ expiring' = Unlink(q, t) /\ pending' = pending
    BY <1>2 DEF Cancel
  <2>2. home'[t] \notin Bucket
    BY <2>1, BucketFacts
  <2>3. \A x \in Timeouts : OnTime(x)'
    <3> SUFFICES ASSUME NEW x \in Timeouts
                 PROVE  OnTime(x)'
      OBVIOUS
    <3>1. CASE x = t
      BY <2>2, <3>1 DEF OnTime
    <3>2. CASE x # t
      <4>1. home'[x] = h[x] /\ due'[x] = due[x]
        BY <2>1, <3>2
      <4> QED
        BY <2>1, <4>1, StaysOnTime
    <3> QED
      BY <3>1, <3>2
  <2>4. TypeOK'
    <3>1. expiring' \in Seq(Timeouts)
      BY <2>1, UnlinkKeeps
    <3> QED
      BY <2>1, <3>1
  <2>5. Drains'
    <3>1. /\ IsInjective(expiring')
          /\ \A i \in DOMAIN expiring' : \E j \in DOMAIN q : expiring'[i] = q[j]
      BY <2>1, UnlinkKeeps
    <3>2. \A j \in DOMAIN q : q[j] \in Timeouts
      BY LenProperties, ElementOfSeq
    <3>3. \A i \in DOMAIN expiring' : due'[expiring'[i]] <= 0
      BY <2>1, <3>1, <3>2
    <3> QED
      BY <3>1, <3>3 DEF Drains
  <2> QED
    BY <2>3, <2>4, <2>5 DEF WheelInv
<1>3. CASE NoCall(h, q)
  <2>1. home' = h /\ expiring' = q /\ due' = due /\ pending' = pending
    BY <1>3 DEF NoCall
  <2>2. \A x \in Timeouts : OnTime(x)'
    BY <2>1, StaysOnTime
  <2> QED
    BY <2>1, <2>2 DEF WheelInv, Drains
<1> QED
  BY <1>1, <1>2, <1>3 DEF Api

(* A tick empties the bucket of t, or brings it one tick nearer.            *)
LEMMA TickOne ==
  ASSUME TypeOK, NEW t \in Timeouts, OnTime(t), home[t] \in Bucket,
         NEW c, c = (clk + 1) % Period
  PROVE  \E f, k \in Int :
           LET g == Gran(home[t].lvl) IN
           /\ f \in 0 .. Size * g - 1
           /\ c + f = g * (home[t].idx + Size * k)
           /\ due[t] - 1 <= f /\ f < due[t] - 1 + g
           /\ t \in CollectBucket(c) <=> f = 0
           /\ OnEdge(c, home[t].lvl) /\ home[t].idx = Current(c, home[t].lvl) <=> f = 0
<1>1. PICK l \in Levels, i \in 0 .. Size - 1 : l = home[t].lvl /\ i = home[t].idx
  BY BucketFacts
<1>2. PICK g \in Nat \ {0}, s \in Nat \ {0} : g = Gran(l) /\ s = Size
  BY LevelFacts
<1>3. PICK n \in Int, k \in Int : Fires(t, n, k)
  BY DEF OnTime
<1>4. n \in 1 .. s * g /\ clk + n = g * (i + s * k) /\ due[t] <= n /\ n < due[t] + g
  BY <1>1, <1>2, <1>3 DEF Fires
<1>5. PICK m \in Int : Period = s * (g * m)
  BY <1>1, <1>2, PeriodTurns
<1>6. PICK p \in Nat \ {0}, x \in Nat : p = Period /\ x = clk /\ x \in 0 .. p - 1
  BY LevelFacts DEF TypeOK
<1>7. (x + 1) % p \in Int /\ \E j \in Int : Reaches((x + 1) % p, n - 1, g, s, i, j)
  <2>1. Reaches(x, n, g, s, i, k)
    BY <1>2, <1>4, <1>6 DEF Reaches
  <2>2. Wraps(x, g, s, m, p)
    BY <1>5, <1>6 DEF Wraps
  <2>3. i \in Int /\ x \in Int
    BY <1>2
  <2> QED
    BY <2>1, <2>2, <2>3, ClockWraps, Zenon
<1>8. PICK f \in Int : f = n - 1
  OBVIOUS
<1>9. PICK j \in Int : Reaches(c, f, g, s, i, j)
  BY <1>6, <1>7, <1>8, Zenon
<1>10. /\ c \in Int /\ s * g \in Int /\ due[t] \in Int /\ i \in Int
       /\ c + f = g * (i + s * j)
  BY <1>2, <1>6, <1>7, <1>9 DEF TypeOK, Reaches
<1>11. f \in 0 .. s * g - 1 /\ due[t] - 1 <= f /\ f < due[t] - 1 + g
  BY <1>4, <1>8, <1>10
<1>12. Emptied(c, g, s, i) <=> f = 0
  <2>1. WithinTurn(f, g, s)
    BY <1>10, <1>11 DEF WithinTurn
  <2> QED
    BY <1>9, <1>10, <2>1, EmptiedNow, Zenon
<1>13. OnEdge(c, l) /\ i = Current(c, l) <=> f = 0
  BY <1>2, <1>12 DEF OnEdge, Current, Emptied
<1>14. t \in CollectBucket(c) <=> f = 0
  BY <1>1, <1>13 DEF CollectBucket, OnTime
<1> QED
  BY <1>1, <1>2, <1>10, <1>11, <1>13, <1>14

LEMMA TickKeeps ==
  ASSUME WheelInv, Tick
  PROVE  WheelInv'
<1>1. PICK c, ts : c = (clk + 1) % Period /\ ts = CollectBucket(c)
  OBVIOUS
<1>2. /\ clk' = c
      /\ pending' = [l \in Levels |->
                      IF OnEdge(c, l) THEN pending[l] \ {Current(c, l)} ELSE pending[l]]
      /\ home' = [t \in Timeouts |-> IF t \in ts THEN Collected ELSE home[t]]
      /\ due' = [t \in Timeouts |-> IF home[t] = Unlinked THEN due[t] ELSE due[t] - 1]
      /\ expiring' \in SetToSeqs(ts)
  BY <1>1 DEF Tick
<1>3. TypeOK
  BY DEF WheelInv
<1>4. ts \subseteq Timeouts /\ \A t \in ts : home[t] \in Bucket
  BY <1>1 DEF CollectBucket
<1>5. Cardinality(ts) \in Nat
  BY <1>4, WheelAssumption, FS_Subset, FS_CardinalityType
<1>6. expiring' \in [1 .. Cardinality(ts) -> ts] /\ IsInjective(expiring')
  BY <1>2 DEF SetToSeqs, IsInjective
<1>7. \A t \in ts : due'[t] <= 0
  <2> SUFFICES ASSUME NEW t \in ts
               PROVE  due'[t] <= 0
    OBVIOUS
  <2>1. t \in Timeouts /\ home[t] \in Bucket /\ OnTime(t)
    BY <1>4 DEF WheelInv
  <2>2. PICK f \in Int, k \in Int : due[t] - 1 <= f /\ (t \in CollectBucket(c) <=> f = 0)
    BY <1>1, <1>3, <2>1, TickOne
  <2>3. due'[t] = due[t] - 1
    BY <1>2, <2>1, BucketFacts
  <2> QED
    BY <1>1, <2>2, <2>3
<1>8. Drains'
  BY <1>6, <1>7 DEF Drains
<1>9. TypeOK'
  <2>1. clk' \in 0 .. Period - 1
    <3>1. PICK p \in Nat \ {0}, x \in Int : p = Period /\ x = clk + 1
      BY <1>3, LevelFacts DEF TypeOK
    <3>2. x % p \in 0 .. p - 1
      OBVIOUS
    <3> QED
      BY <1>1, <1>2, <3>1, <3>2
  <2>2. pending' \in [Levels -> SUBSET (0 .. Size - 1)]
    BY <1>2, <1>3 DEF TypeOK
  <2>3. home' \in [Timeouts -> Bucket \cup {Unlinked, Collected}]
    BY <1>2, <1>3 DEF TypeOK
  <2>4. due' \in [Timeouts -> Int]
    BY <1>2, <1>3 DEF TypeOK
  <2>5. expiring' \in Seq(Timeouts)
    <3>1. expiring' \in [1 .. Cardinality(ts) -> Timeouts]
      BY <1>4, <1>6
    <3> QED
      BY <1>5, <3>1, IsASeq
  <2> QED
    BY <2>1, <2>2, <2>3, <2>4, <2>5 DEF TypeOK
<1>10. ASSUME NEW t \in Timeouts
       PROVE  OnTime(t)'
  <2> SUFFICES ASSUME home'[t] \in Bucket
               PROVE  /\ home'[t].idx \in pending'[home'[t].lvl]
                      /\ \E f, k \in Int : Fires(t, f, k)'
    BY DEF OnTime
  <2>1. home'[t] = home[t] /\ home[t] \in Bucket /\ t \notin ts
    BY <1>2, BucketFacts
  <2>2. OnTime(t)
    BY DEF WheelInv
  <2>3. PICK f \in Int, k \in Int :
           LET g == Gran(home[t].lvl) IN
           /\ f \in 0 .. Size * g - 1
           /\ c + f = g * (home[t].idx + Size * k)
           /\ due[t] - 1 <= f /\ f < due[t] - 1 + g
           /\ t \in CollectBucket(c) <=> f = 0
           /\ OnEdge(c, home[t].lvl) /\ home[t].idx = Current(c, home[t].lvl) <=> f = 0
    BY <1>1, <1>3, <2>1, <2>2, TickOne
  <2>4. due'[t] = due[t] - 1
    BY <1>2, <2>1, BucketFacts
  <2>5. PICK g \in Nat \ {0}, s \in Nat \ {0} : g = Gran(home[t].lvl) /\ s = Size
    BY <2>1, LevelFacts, BucketFacts
  <2>6. s * g \in Int
    OBVIOUS
  <2>7. f \in 1 .. s * g
    BY <1>1, <2>1, <2>3, <2>5, <2>6
  <2>8. Fires(t, f, k)'
    BY <1>2, <2>1, <2>3, <2>4, <2>5, <2>7 DEF Fires
  <2>9. home[t].idx \in pending[home[t].lvl] /\ home[t].lvl \in Levels
    BY <2>1, <2>2, BucketFacts DEF OnTime
  <2>10. home[t].idx \in pending'[home[t].lvl]
    BY <1>1, <1>2, <2>1, <2>3, <2>9
  <2> QED
    BY <2>1, <2>8, <2>10
<1> QED
  BY <1>8, <1>9, <1>10 DEF WheelInv

LEMMA WheelStep ==
  ASSUME AllClear, WheelInv, [Next]_vars
  PROVE  WheelInv'
<1>1. TypeOK /\ (\A t \in Timeouts : OnTime(t)) /\ Drains
  BY DEF WheelInv
<1>2. CASE ApiCall
  <2>1. Api(home, expiring) /\ clk' = clk
    BY <1>2 DEF ApiCall
  <2> QED
    BY <1>1, <2>1, ApiKeeps DEF TypeOK, Drains
<1>3. CASE ExpireList
  <2>1. PICK t, h, q : t = Head(expiring) /\ h = [home EXCEPT ![t] = Unlinked] /\ q = Tail(expiring)
    OBVIOUS
  <2>2. Api(h, q) /\ clk' = clk /\ expiring # <<>>
    BY <1>3, <2>1 DEF ExpireList
  <2>3. PICK n \in Nat : /\ n = Len(expiring) /\ DOMAIN expiring = 1 .. n /\ n > 0
                         /\ q \in Seq(Timeouts) /\ DOMAIN q = 1 .. n - 1
                         /\ \A i \in 1 .. n - 1 : q[i] = expiring[i + 1] /\ i + 1 \in 1 .. n
    BY <1>1, <2>1, <2>2, LenProperties, HeadTailProperties, EmptySeq DEF TypeOK
  <2>4. IsInjective(q)
    <3> SUFFICES ASSUME NEW i \in 1 .. n - 1, NEW j \in 1 .. n - 1, q[i] = q[j]
                 PROVE  i = j
      BY <2>3 DEF IsInjective
    <3>1. i + 1 = j + 1
      BY <1>1, <2>3 DEF Drains, IsInjective
    <3> QED
      BY <3>1
  <2>5. \A i \in DOMAIN q : due[q[i]] <= 0
    BY <1>1, <2>3 DEF Drains
  <2>6. /\ h \in [Timeouts -> Bucket \cup {Unlinked, Collected}]
        /\ \A x \in Timeouts : h[x] = home[x] \/ h[x] \notin Bucket
    BY <1>1, <2>1, BucketFacts DEF TypeOK
  <2> QED
    BY <1>1, <2>2, <2>3, <2>4, <2>5, <2>6, ApiKeeps
<1>4. CASE UNCHANGED vars
  BY <1>1, <1>4 DEF vars, WheelInv, TypeOK, OnTime, Fires, Drains
<1> QED
  BY <1>2, <1>3, <1>4, TickKeeps DEF Next

-----------------------------------------------------------------------------
LEMMA InitWheel == Init => WheelInv
<1> SUFFICES ASSUME Init PROVE WheelInv
  OBVIOUS
<1>1. TypeOK
  BY LevelFacts DEF Init, TypeOK
<1>2. \A t \in Timeouts : OnTime(t)
  BY BucketFacts DEF Init, OnTime
<1>3. Drains
  BY DEF Init, Drains, IsInjective
<1> QED
  BY <1>1, <1>2, <1>3 DEF WheelInv

(* The inductive invariant: every bucket with a timeout is emptied within   *)
(* the granule after the timeout's expiry, whatever threads and callbacks   *)
(* add, move and cancel.                                                    *)
THEOREM WheelInvariant == AllClear => (Spec => []WheelInv)
<1> SUFFICES ASSUME AllClear
             PROVE  Spec => []WheelInv
  OBVIOUS
<1>1. WheelInv /\ [Next]_vars => WheelInv'
  BY WheelStep
<1> QED
  BY <1>1, InitWheel, PTL DEF Spec

(* "A timer never fires before its requested time" (timer_wheel.c), for a   *)
(* wheel of any size.                                                       *)
THEOREM NothingEarly == AllClear => (Spec => []NeverEarly)
<1> SUFFICES ASSUME AllClear
             PROVE  Spec => []NeverEarly
  OBVIOUS
<1>1. ASSUME WheelInv
      PROVE  NeverEarly
  <2> SUFFICES ASSUME expiring # <<>>
               PROVE  due[Head(expiring)] <= 0
    BY DEF NeverEarly
  <2>1. 1 \in DOMAIN expiring /\ Head(expiring) = expiring[1]
    BY <1>1, LenProperties, EmptySeq DEF WheelInv, TypeOK
  <2> QED
    BY <1>1, <2>1 DEF WheelInv, Drains
<1> QED
  BY <1>1, WheelInvariant, PTL

(* No bucket is skipped and no timeout is forgotten: one that waits is late *)
(* by less than a granule of its level, for a wheel of any size.            *)
THEOREM NothingLate == AllClear => (Spec => []NeverLate)
<1> SUFFICES ASSUME AllClear
             PROVE  Spec => []NeverLate
  OBVIOUS
<1>1. ASSUME WheelInv
      PROVE  NeverLate
  <2>1. ASSUME NEW t \in Timeouts, home[t] \in Bucket
        PROVE  due[t] > - Gran(home[t].lvl)
    <3>1. PICK f \in Int, k \in Int : Fires(t, f, k)
      BY <1>1, <2>1 DEF WheelInv, OnTime
    <3>2. Gran(home[t].lvl) \in Nat /\ due[t] \in Int
      BY <1>1, <2>1, LevelFacts, BucketFacts DEF WheelInv, TypeOK
    <3>3. f >= 1 /\ f < due[t] + Gran(home[t].lvl)
      BY <3>1 DEF Fires
    <3> QED
      BY <3>2, <3>3
  <2> QED
    BY <1>1, <2>1 DEF NeverLate, FiresInTime, WheelInv
<1> QED
  BY <1>1, WheelInvariant, PTL
=============================================================================
