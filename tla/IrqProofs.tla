----------------------------- MODULE IrqProofs -----------------------------
(***************************************************************************)
(* Proofs about the interrupt bindings of module Irq: the table stays      *)
(* sound, no line storms and no interrupt is lost, whatever the numbers,   *)
(* lines, slots and notifications of the build.                            *)
(***************************************************************************)
EXTENDS Irq, WellFoundedInduction, TLAPS

Controllers ==
  [en: SUBSET Lines, latch: SUBSET Lines, busy: SUBSET Lines,
   route: [Srpns -> Lines \cup {Nil}], back: [Lines -> Srpns \cup {0}], next: First .. Last + 1]

Port == port \in {"plic", "plic_qemu", "clic", "nvic", "src"}

\* The completion of line l is taken.
Completes(h, l) == Plic /\ l \notin Clint /\ (port = "plic_qemu" \/ l \in h.en)

-----------------------------------------------------------------------------
(* The ports' functions, without their case distinctions.                   *)

LEMMA RegisterIs ==
  ASSUME NEW h, NEW s, NEW l, Port
  PROVE  Register(h, s, l) = IF l \in Clint THEN ClintRegister(h, s, l)
                             ELSE IF port = "clic" THEN ClicRegister(h, s, l) ELSE PlicRegister(h, s, l)
BY Zenon DEF Register, Port, Plic, PlicRegister, NvicRegister, NodeRegister

LEMMA ConfigureIs ==
  ASSUME NEW h, NEW s, Port
  PROVE  Configure(h, s) = IF Plic THEN PlicConfigure(h, s)
                           ELSE IF port = "src" THEN NodeConfigure(h, s) ELSE h
BY Zenon DEF Configure, Port, Plic

LEMMA SrcEnableIs ==
  ASSUME NEW h, NEW s
  PROVE  SrcEnable(h, s) = IF h.route[s] = Nil THEN h
                           ELSE IF h.route[s] \in Clint THEN ClintEnable(h, h.route[s])
                           ELSE [h EXCEPT !.en = @ \cup {h.route[s]}]
<1>1. Nil \notin Clint
  BY NilAssumption, Zenon DEF Lines
<1>2. CASE h.route[s] = Nil
  BY <1>1, <1>2, Zenon DEF SrcEnable
<1>3. CASE h.route[s] \in Clint
  BY <1>1, <1>3, Zenon DEF SrcEnable
<1> QED
  BY <1>2, <1>3, Zenon DEF SrcEnable

LEMMA SrcAckIs ==
  ASSUME NEW h, NEW s, Port
  PROVE  SrcAck(h, s) = IF h.route[s] \in Clint THEN ClintAck(h, h.route[s])
                        ELSE IF Plic THEN PlicAck(h, s)
                        ELSE IF port = "nvic" THEN NvicAck(h, s) ELSE ClicAck(h, s)
BY Zenon DEF SrcAck, Port, Plic, ClicAck, NodeAck

LEMMA EnteredIs ==
  ASSUME NEW h, NEW l, Port
  PROVE  Entered(h, l) = IF l = Soft \/ port = "clic" THEN h
                         ELSE IF Plic THEN PlicClaim(h, l)
                         ELSE IF port = "nvic" THEN NvicEntered(h, l)
                         ELSE [h EXCEPT !.latch = @ \ {l}]
BY Zenon DEF Entered, Port, Plic

LEMMA TargetsAre ==
  ASSUME NEW h, NEW l, Port
  PROVE  Targets(h, l) = Srpns \cap IF l = Soft THEN ClintTargets(h)
                                    ELSE IF port = "clic" THEN ClicTargets(h, l)
                                    ELSE IF Plic THEN PlicTargets(h, l) ELSE {h.back[l]}
BY Zenon DEF Targets, Port, Plic

-----------------------------------------------------------------------------
(* What each of the ports' functions changes.                               *)

LEMMA LinesOf ==
  /\ Fixed \subseteq Lines /\ Clint \subseteq Lines /\ First .. Last \subseteq Lines /\ Nil \notin Lines
  /\ 0 \notin Srpns /\ 0 \notin Slots
BY NilAssumption, IrqAssumption DEF Lines

LEMMA PlicRegisterDoes ==
  ASSUME NEW h \in Controllers, NEW s \in Srpns, NEW l \in Lines, NEW g, g = PlicRegister(h, s, l)
  PROVE  /\ g \in Controllers /\ g.busy = h.busy /\ g.en = h.en /\ g.next = h.next /\ g.latch = h.latch
         /\ g.route = [h.route EXCEPT ![s] = l] /\ g.back = [h.back EXCEPT ![l] = s]
<1>1. PICK r : r = [h.route EXCEPT ![s] = l]
  OBVIOUS
<1>2. PICK b : b = [h.back EXCEPT ![l] = s]
  OBVIOUS
<1>3. r \in [Srpns -> Lines \cup {Nil}] /\ b \in [Lines -> Srpns \cup {0}]
  BY <1>1, <1>2 DEF Controllers
<1>4. g = [h EXCEPT !.route = r, !.back = b]
  BY <1>1, <1>2 DEF PlicRegister, Controllers
<1> QED
  BY <1>1, <1>2, <1>3, <1>4 DEF Controllers

LEMMA RegisterDoes ==
  ASSUME NEW h \in Controllers, NEW s \in Srpns, NEW l \in Lines, Port, NEW g, g = Register(h, s, l)
  PROVE  /\ g \in Controllers
         /\ g.en = h.en /\ g.busy = h.busy /\ g.next = h.next
         /\ g.route = [h.route EXCEPT ![s] = l]
         /\ g.back = IF l \in Clint \/ port = "clic" THEN h.back ELSE [h.back EXCEPT ![l] = s]
<1>1. CASE l \in Clint
  <2>1. g = [h EXCEPT !.route[s] = l]
    BY <1>1, RegisterIs DEF ClintRegister
  <2> QED
    BY <1>1, <2>1 DEF Controllers
<1>2. CASE l \notin Clint /\ port = "clic"
  <2>1. g = [h EXCEPT !.route[s] = l]
    BY <1>2, RegisterIs DEF ClicRegister
  <2> QED
    BY <1>2, <2>1 DEF Controllers
<1>3. CASE ~(l \in Clint \/ port = "clic")
  <2>1. g = PlicRegister(h, s, l)
    BY <1>3, RegisterIs
  <2>2. /\ g \in Controllers /\ g.busy = h.busy /\ g.en = h.en /\ g.next = h.next
        /\ g.route = [h.route EXCEPT ![s] = l] /\ g.back = [h.back EXCEPT ![l] = s]
    BY <2>1, PlicRegisterDoes
  <2> QED
    BY <1>3, <2>2
<1> QED
  BY <1>1, <1>2, <1>3

LEMMA ConfigureDoes ==
  ASSUME NEW h \in Controllers, NEW s \in Srpns, h.next <= Last, Port, NEW g, g = Configure(h, s)
  PROVE  /\ g \in Controllers
         /\ g.busy = h.busy /\ g.en \subseteq h.en /\ h.en \ {h.next} \subseteq g.en
         /\ IF Plic \/ port = "src"
            THEN /\ g.route = [h.route EXCEPT ![s] = h.next]
                 /\ g.back = [h.back EXCEPT ![h.next] = s]
                 /\ g.next = h.next + 1 /\ h.next \in First .. Last
            ELSE g = h
<1>1. h.next \in First .. Last /\ h.next \in Lines /\ h.next + 1 \in First .. Last + 1
  BY IrqAssumption DEF Controllers, Lines
<1>2. PICK k : k = PlicRegister(h, s, h.next)
  OBVIOUS
<1>3. /\ k \in Controllers /\ k.busy = h.busy /\ k.en = h.en /\ k.next = h.next /\ k.latch = h.latch
      /\ k.route = [h.route EXCEPT ![s] = h.next] /\ k.back = [h.back EXCEPT ![h.next] = s]
  BY <1>1, <1>2, PlicRegisterDoes
<1>4. CASE Plic
  <2>1. g = [k EXCEPT !.next = k.next + 1]
    BY <1>2, <1>4, ConfigureIs DEF PlicConfigure
  <2> QED
    BY <1>1, <1>3, <1>4, <2>1 DEF Controllers
<1>5. CASE port = "src"
  <2>1. k = NodeRegister(h, s, h.next) /\ g = NodeConfigure(h, s)
    <3>1. PlicRegister(h, s, h.next) = NodeRegister(h, s, h.next)
      BY Zenon DEF NodeRegister, PlicRegister
    <3> QED
      BY <1>2, <1>5, <3>1, ConfigureIs DEF Plic
  <2>2. g = [k EXCEPT !.next = k.next + 1, !.en = k.en \ {h.next}]
    BY <2>1 DEF NodeConfigure
  <2>3. PICK e : e = k.en \ {h.next}
    OBVIOUS
  <2>4. e \in SUBSET Lines
    BY <1>3, <2>3 DEF Controllers
  <2>5. PICK n : n = k.next + 1
    OBVIOUS
  <2>6. n \in First .. Last + 1
    BY <1>1, <1>3, <2>5
  <2>7. g = [k EXCEPT !.next = n, !.en = e]
    BY <2>2, <2>3, <2>5
  <2>8. /\ g \in Controllers /\ g.busy = k.busy /\ g.en = e /\ g.next = n
        /\ g.route = k.route /\ g.back = k.back
    BY <1>3, <2>4, <2>6, <2>7 DEF Controllers
  <2> QED
    BY <1>1, <1>3, <1>5, <2>3, <2>5, <2>8
<1>6. CASE ~(Plic \/ port = "src")
  BY <1>6, ConfigureIs
<1> QED
  BY <1>4, <1>5, <1>6

\* Everything but the routes, the reverse table and the line counter.
Rewires(g, h) == g.route # h.route \/ g.back # h.back \/ g.next # h.next

LEMMA EnableDoes ==
  ASSUME NEW h \in Controllers, NEW s \in Srpns, NEW g, g = SrcEnable(h, s)
  PROVE  /\ g \in Controllers /\ ~Rewires(g, h) /\ g.busy = h.busy
         /\ g.en = h.en \cup ({h.route[s]} \ {Nil})
<1>1. h.route[s] \in Lines \cup {Nil} /\ Clint \subseteq Lines /\ Nil \notin Clint
  BY LinesOf DEF Controllers
<1>2. CASE h.route[s] = Nil
  BY <1>2, SrcEnableIs DEF Rewires
<1>3. CASE h.route[s] \in Clint
  <2>1. PICK k : k = ClintAck(h, h.route[s])
    OBVIOUS
  <2>2. /\ k \in Controllers /\ k.en = h.en /\ k.busy = h.busy
        /\ k.route = h.route /\ k.back = h.back /\ k.next = h.next
    BY <2>1 DEF ClintAck, Controllers
  <2>3. g = ClintEnable(h, h.route[s])
    BY <1>1, <1>3, SrcEnableIs
  <2>4. g = [k EXCEPT !.en = k.en \cup {h.route[s]}]
    BY <2>1, <2>3 DEF ClintEnable
  <2>5. /\ g \in Controllers /\ g.en = h.en \cup {h.route[s]} /\ g.busy = h.busy
        /\ g.route = h.route /\ g.back = h.back /\ g.next = h.next
    BY <1>1, <1>3, <2>2, <2>4 DEF Controllers
  <2> QED
    BY <1>1, <1>3, <2>5 DEF Rewires
<1>4. CASE h.route[s] \in Lines /\ h.route[s] \notin Clint /\ h.route[s] # Nil
  <2>1. g = [h EXCEPT !.en = @ \cup {h.route[s]}]
    BY <1>1, <1>4, SrcEnableIs
  <2> QED
    BY <1>4, <2>1 DEF Rewires, Controllers
<1> QED
  BY <1>1, <1>2, <1>3, <1>4 DEF Controllers

LEMMA DisableDoes ==
  ASSUME NEW h \in Controllers, NEW s \in Srpns, NEW g, g = SrcDisable(h, s)
  PROVE  /\ g \in Controllers /\ ~Rewires(g, h) /\ g.busy = h.busy
         /\ g.en = h.en \ {h.route[s]}
BY DEF SrcDisable, Rewires, Controllers

LEMMA AckDoes ==
  ASSUME NEW h \in Controllers, NEW s \in Srpns, Port, NEW g, g = SrcAck(h, s)
  PROVE  /\ g \in Controllers /\ ~Rewires(g, h)
         /\ g.busy = IF Completes(h, h.route[s]) THEN h.busy \ {h.route[s]} ELSE h.busy
         /\ g.en = IF port = "nvic" /\ h.route[s] \notin Clint \cup {Nil} THEN h.en \cup {h.route[s]} ELSE h.en
<1>1. h.route[s] \in Lines \cup {Nil}
  BY DEF Controllers
<1>2. CASE h.route[s] \in Clint
  <2>1. g = [h EXCEPT !.latch = @ \ {h.route[s]}]
    BY <1>2, SrcAckIs DEF ClintAck
  <2> QED
    BY <1>2, <2>1 DEF Rewires, Controllers, Completes, Plic
<1>3. CASE h.route[s] \notin Clint /\ Plic
  <2>1. g = IF port = "plic_qemu" \/ h.route[s] \in h.en THEN [h EXCEPT !.busy = @ \ {h.route[s]}] ELSE h
    BY <1>3, SrcAckIs DEF PlicAck, PlicComplete
  <2>2. port # "nvic"
    BY <1>3 DEF Plic
  <2> QED
    BY <1>3, <2>1, <2>2 DEF Rewires, Controllers, Completes
<1>4. CASE h.route[s] \notin Clint /\ port = "nvic"
  <2>1. g = NvicAck(h, s)
    BY <1>4, SrcAckIs DEF Plic
  <2>2. CASE h.route[s] = Nil
    BY <1>4, <2>1, <2>2 DEF NvicAck, Rewires, Completes, Plic
  <2>3. CASE h.route[s] # Nil
    <3>1. g = [h EXCEPT !.latch = @ \ {h.route[s]}, !.en = @ \cup {h.route[s]}]
      BY <2>1, <2>3, Zenon DEF NvicAck
    <3>2. PICK e : e = h.en \cup {h.route[s]}
      OBVIOUS
    <3>3. e \in SUBSET Lines
      BY <1>1, <2>3, <3>2 DEF Controllers
    <3>4. /\ g \in Controllers /\ g.busy = h.busy /\ g.en = e
          /\ g.route = h.route /\ g.back = h.back /\ g.next = h.next
      BY <3>1, <3>2, <3>3 DEF Controllers
    <3> QED
      BY <1>4, <2>3, <3>2, <3>4 DEF Rewires, Completes, Plic
  <2> QED
    BY <2>2, <2>3
<1>5. CASE h.route[s] \notin Clint /\ ~Plic /\ port # "nvic"
  <2>1. g = [h EXCEPT !.latch = @ \ {h.route[s]}]
    BY <1>5, SrcAckIs DEF ClicAck
  <2> QED
    BY <1>5, <2>1 DEF Rewires, Controllers, Completes, Plic
<1> QED
  BY <1>2, <1>3, <1>4, <1>5

LEMMA MaskedAndAckedDoes ==
  ASSUME hw \in Controllers, NEW s \in Srpns, Port, NEW g, g = MaskedAndAcked(s)
  PROVE  /\ g \in Controllers /\ ~Rewires(g, hw)
         /\ g.busy = IF port = "plic_qemu" /\ hw.route[s] \notin Clint THEN hw.busy \ {hw.route[s]} ELSE hw.busy
         /\ g.en = IF port = "nvic" /\ hw.route[s] \notin Clint \cup {Nil}
                   THEN (hw.en \ {hw.route[s]}) \cup {hw.route[s]} ELSE hw.en \ {hw.route[s]}
<1>1. PICK k : k = SrcDisable(hw, s)
  OBVIOUS
<1>2. k \in Controllers /\ ~Rewires(k, hw) /\ k.busy = hw.busy /\ k.en = hw.en \ {hw.route[s]}
  BY <1>1, DisableDoes
<1>3. g = SrcAck(k, s)
  BY <1>1 DEF MaskedAndAcked
<1>4. k.route = hw.route
  BY <1>2 DEF Rewires
<1>5. /\ g \in Controllers /\ ~Rewires(g, k)
      /\ g.busy = IF Completes(k, k.route[s]) THEN k.busy \ {k.route[s]} ELSE k.busy
      /\ g.en = IF port = "nvic" /\ k.route[s] \notin Clint \cup {Nil} THEN k.en \cup {k.route[s]} ELSE k.en
  BY <1>2, <1>3, AckDoes
<1>6. ~Rewires(g, hw)
  BY <1>2, <1>5 DEF Rewires
<1> QED
  BY <1>2, <1>4, <1>5, <1>6 DEF Completes, Plic

LEMMA ServedDoes ==
  ASSUME NEW h \in Controllers, NEW s \in Srpns, Port, NEW g, g = Served(h, s)
  PROVE  /\ g \in Controllers /\ ~Rewires(g, h) /\ g.busy = h.busy /\ g.en = h.en
<1>1. CASE h.route[s] \in Clint \/ port = "clic"
  BY <1>1, AckDoes DEF Served, Completes, Plic
<1>2. CASE ~(h.route[s] \in Clint \/ port = "clic")
  BY <1>2 DEF Served, Rewires
<1> QED
  BY <1>1, <1>2

LEMMA EnteredDoes ==
  ASSUME NEW h \in Controllers, NEW l \in Lines, Port, NEW g, g = Entered(h, l)
  PROVE  /\ g \in Controllers /\ ~Rewires(g, h)
         /\ g.busy = IF Plic /\ l # Soft THEN h.busy \cup {l} ELSE h.busy
         /\ g.en = IF port = "nvic" /\ l # Soft /\ h.back[l] # 0 THEN h.en \ {h.route[h.back[l]]} ELSE h.en
<1>1. CASE l = Soft \/ port = "clic"
  <2>1. g = h
    BY <1>1, EnteredIs
  <2> QED
    BY <1>1, <2>1 DEF Rewires, Plic
<1>2. CASE l # Soft /\ Plic
  <2>1. g = [h EXCEPT !.busy = @ \cup {l}]
    BY <1>2, EnteredIs DEF PlicClaim, Plic
  <2> QED
    BY <1>2, <2>1 DEF Rewires, Controllers, Plic
<1>3. CASE l # Soft /\ port = "nvic"
  <2>1. g = NvicEntered(h, l)
    BY <1>3, EnteredIs DEF Plic
  <2>2. PICK e : e = IF h.back[l] = 0 THEN h.en ELSE h.en \ {h.route[h.back[l]]}
    OBVIOUS
  <2>3. e \in SUBSET Lines
    BY <2>2 DEF Controllers
  <2>4. g = [h EXCEPT !.latch = h.latch \ {l}, !.en = e]
    BY <2>1, <2>2 DEF NvicEntered
  <2>5. /\ g \in Controllers /\ g.busy = h.busy /\ g.en = e
        /\ g.route = h.route /\ g.back = h.back /\ g.next = h.next
    BY <2>3, <2>4 DEF Controllers
  <2> QED
    BY <1>3, <2>2, <2>5 DEF Rewires, Plic
<1>4. CASE l # Soft /\ port = "src"
  <2>1. g = [h EXCEPT !.latch = @ \ {l}]
    BY <1>4, EnteredIs DEF Plic
  <2> QED
    BY <1>4, <2>1 DEF Rewires, Controllers, Plic
<1> QED
  BY <1>1, <1>2, <1>3, <1>4 DEF Port, Plic

LEMMA LeftDoes ==
  ASSUME NEW h \in Controllers, NEW l \in Lines, NEW g, g = Left(h, l)
  PROVE  /\ g \in Controllers /\ ~Rewires(g, h) /\ g.en = h.en
         /\ g.busy = IF Plic /\ l # Soft /\ (port = "plic_qemu" \/ l \in h.en) THEN h.busy \ {l} ELSE h.busy
BY DEF Left, PlicComplete, Rewires, Controllers, Plic

-----------------------------------------------------------------------------
(* Types.                                                                   *)

LEMMA MinIn ==
  ASSUME NEW B \in SUBSET Nat, B # {}
  PROVE  Min(B) \in B
<1> DEFINE R == {ss \in Nat \X Nat : ss[1] < ss[2]}
<1>1. IsWellFoundedOn(R, Nat)
  BY NatLessThanWellFounded, Zenon DEF OpToRel
<1>2. PICK x \in B : \A y \in B : ~ (<<y, x>> \in R)
  <2> HIDE DEF R
  <2> QED
    BY <1>1, WFMin
<1>3. \A y \in B : x <= y
  <2> SUFFICES ASSUME NEW y \in B, y < x
               PROVE  FALSE
    OBVIOUS
  <2>1. <<y, x>> \in Nat \X Nat /\ <<y, x>>[1] < <<y, x>>[2]
    OBVIOUS
  <2>2. <<y, x>> \in R
    BY <2>1
  <2> QED
    BY <1>2, <2>2
<1> QED
  BY <1>3 DEF Min

LEMMA TypesOf ==
  ASSUME TypeOK
  PROVE  /\ Port /\ hw \in Controllers
         /\ \A s \in Srpns : hw.route[s] \in Lines \cup {Nil}
         /\ \A l \in Lines : hw.back[l] \in Srpns \cup {0}
         /\ \A i \in InUse : i \in Slots /\ table[i] \in Bindings
         /\ \A c \in Cpus : isr[c] # Nil => isr[c] \in Handlers
<1>1. Port /\ hw \in Controllers
  BY IrqAssumption DEF TypeOK, Port, Controllers
<1>2. \A s \in Srpns : hw.route[s] \in Lines \cup {Nil}
  BY <1>1 DEF Controllers
<1>3. \A l \in Lines : hw.back[l] \in Srpns \cup {0}
  BY <1>1 DEF Controllers
<1>4. \A i \in InUse : i \in Slots /\ table[i] \in Bindings
  BY DEF TypeOK, InUse
<1>5. \A c \in Cpus : isr[c] # Nil => isr[c] \in Handlers
  BY DEF TypeOK
<1> QED
  BY <1>1, <1>2, <1>3, <1>4, <1>5

\* A new entry goes to a free slot.
LEMMA AddDoes ==
  ASSUME TypeOK, NEW s \in Srpns, NEW n \in Notifs, NEW t \in Threads \cup {Nil},
         NEW l \in Fixed \cup Clint \cup {Nil}, Add(s, n, t, l)
  PROVE  /\ hw' \in Controllers
         /\ Entry(s, n, t) \in Bindings
         /\ \E i \in Slots : table[i] = Nil /\ table' = [table EXCEPT ![i] = Entry(s, n, t)]
         /\ table' \in [Slots -> Bindings \cup {Nil}]
<1>1. Port /\ hw \in Controllers
  BY TypesOf
<1>2. hw' \in Controllers
  <2>1. CASE l # Nil /\ hw' = Register(hw, s, l)
    <3>1. l \in Lines
      BY <2>1, LinesOf
    <3> QED
      BY <1>1, <2>1, <3>1, RegisterDoes
  <2>2. CASE hw.next <= Last /\ hw' = Configure(hw, s)
    BY <1>1, <2>2, ConfigureDoes
  <2> QED
    BY <2>1, <2>2 DEF Add, LinesLeft
<1>3. Entry(s, n, t) \in Bindings
  BY DEF Entry, Bindings
<1>4. PICK i : i = Min(FreeSlots)
  OBVIOUS
<1>5. FreeSlots \in SUBSET Nat /\ FreeSlots # {}
  BY IrqAssumption DEF Add, FreeSlots
<1>6. i \in Slots /\ table[i] = Nil
  <2>1. i \in FreeSlots
    BY <1>4, <1>5, MinIn
  <2> QED
    BY <2>1 DEF FreeSlots, InUse
<1>7. table' = [table EXCEPT ![i] = Entry(s, n, t)]
  BY <1>4 DEF Add
<1> QED
  BY <1>2, <1>3, <1>6, <1>7 DEF TypeOK

LEMMA EnabledDoes ==
  ASSUME TypeOK, NEW s \in Srpns, NEW on \in BOOLEAN, Enabled(s, on)
  PROVE  /\ table' \in [Slots -> Bindings \cup {Nil}]
         /\ \A i \in Slots : table'[i] = IF i \in BySrpn(s) THEN [table[i] EXCEPT !.enabled = on] ELSE table[i]
         /\ \A i \in BySrpn(s) : i \in Slots /\ table[i] \in Bindings /\ table'[i] \in Bindings
<1>1. \A i \in BySrpn(s) : i \in Slots /\ table[i] \in Bindings
  BY TypesOf DEF BySrpn
<1>2. \A b \in Bindings : [b EXCEPT !.enabled = on] \in Bindings
  BY DEF Bindings
<1>3. \A i \in Slots : table'[i] = IF i \in BySrpn(s) THEN [table[i] EXCEPT !.enabled = on] ELSE table[i]
  BY DEF Enabled
<1>4. \A i \in Slots : table'[i] \in Bindings \cup {Nil}
  <2> SUFFICES ASSUME NEW i \in Slots
               PROVE  table'[i] \in Bindings \cup {Nil}
    OBVIOUS
  <2>1. CASE i \in BySrpn(s)
    <3>1. PICK b : b = table[i]
      OBVIOUS
    <3>2. b \in Bindings /\ table'[i] = [b EXCEPT !.enabled = on]
      BY <1>1, <1>3, <2>1, <3>1
    <3> QED
      BY <1>2, <3>2, Zenon
  <2>2. CASE i \notin BySrpn(s)
    BY <1>3, <2>2 DEF TypeOK
  <2> QED
    BY <2>1, <2>2
<1>5. table' \in [Slots -> Bindings \cup {Nil}]
  BY <1>4 DEF Enabled
<1> QED
  BY <1>1, <1>2, <1>3, <1>5

LEMMA RemovedDoes ==
  ASSUME TypeOK, NEW i \in InUse, Removed(i)
  PROVE  /\ table' \in [Slots -> Bindings \cup {Nil}] /\ table' = [table EXCEPT ![i] = Nil]
         /\ notifs' \subseteq Notifs
         /\ i \in Slots /\ table[i] \in Bindings
BY TypesOf DEF Removed, TypeOK

\* The handler after one of its srpns is done.
LEMMA DoneDoes ==
  ASSUME TypeOK, NEW c \in Cpus, isr[c] # Nil, NEW s \in Srpns, Done(c, s)
  PROVE  /\ isr' \in [Cpus -> Handlers \cup {Nil}]
         /\ isr'[c] # Nil /\ isr'[c].line = isr[c].line /\ isr'[c].todo = isr[c].todo \ {s} /\ isr'[c].slot = 0
         /\ isr[c].line \in Lines /\ isr[c].todo \subseteq Srpns
         /\ \A d \in Cpus : d # c => isr'[d] = isr[d]
<1>1. PICK k : k = isr[c]
  OBVIOUS
<1>2. k \in Handlers
  BY <1>1 DEF TypeOK
<1>3. PICK m : m = [k EXCEPT !.todo = @ \ {s}, !.slot = 0]
  OBVIOUS
<1>4. /\ m \in Handlers /\ m.line = k.line /\ m.todo = k.todo \ {s} /\ m.slot = 0
      /\ k.line \in Lines /\ k.todo \subseteq Srpns
  BY <1>2, <1>3 DEF Handlers
<1>5. isr' = [isr EXCEPT ![c] = m]
  BY <1>1, <1>2, <1>3 DEF Done, TypeOK
<1>6. Nil \notin Handlers
  BY NilAssumption
<1> QED
  BY <1>1, <1>4, <1>5, <1>6 DEF TypeOK

\* The variables but the controller, which Controllers types.
Typed ==
  /\ table \in [Slots -> Bindings \cup {Nil}]
  /\ notifs \subseteq Notifs /\ alive \subseteq Threads /\ high \subseteq Fixed \cup First .. Last
  /\ isr \in [Cpus -> Handlers \cup {Nil}]
  /\ gate \in [Cpus -> BOOLEAN]
  /\ owed \in [Srpns -> Lines \cup {Nil}]
  /\ lost \subseteq Threads

LEMMA TypeSplit == TypeOK <=> port \in Ports /\ Typed /\ hw \in Controllers
BY DEF TypeOK, Typed, Controllers

LEMMA CallType ==
  ASSUME TypeOK, NEW c \in Cpus, NEW t \in Threads, NEW s \in Srpns,
         \/ \E l \in Fixed \cup Clint \cup {Nil} : Attach(c, t, s, l) \/ \E n \in Notifs : Bind(c, t, s, n, l)
         \/ Detach(c, t, s) \/ Enable(c, t, s) \/ Disable(c, t, s) \/ Ack(c, t, s)
  PROVE  TypeOK'
<1>0. port \in Ports /\ Port /\ hw \in Controllers /\ Typed
  BY TypeSplit, TypesOf
<1> SUFFICES port' = port /\ Typed' /\ hw' \in Controllers
  BY <1>0 DEF TypeOK, Typed, Controllers
<1>1. CASE \E l \in Fixed \cup Clint \cup {Nil} : Attach(c, t, s, l)
  <2>1. PICK l \in Fixed \cup Clint \cup {Nil} : Attach(c, t, s, l)
    BY <1>1
  <2>2. PICK n \in Notifs \ notifs : Add(s, n, t, l) /\ notifs' = notifs \cup {n}
    BY <2>1 DEF Attach
  <2>3. hw' \in Controllers /\ table' \in [Slots -> Bindings \cup {Nil}]
    BY <2>2, AddDoes
  <2>4. notifs' \subseteq Notifs
    BY <1>0, <2>2 DEF Typed
  <2> QED
    BY <1>0, <2>1, <2>3, <2>4 DEF Attach, Typed
<1>2. CASE \E l \in Fixed \cup Clint \cup {Nil} : \E n \in Notifs : Bind(c, t, s, n, l)
  <2>1. PICK l \in Fixed \cup Clint \cup {Nil}, n \in Notifs : Bind(c, t, s, n, l)
    BY <1>2
  <2>2. hw' \in Controllers /\ table' \in [Slots -> Bindings \cup {Nil}]
    <3>1. Add(s, n, Nil, l) /\ Nil \in Threads \cup {Nil}
      BY <2>1 DEF Bind
    <3> QED
      BY <3>1, AddDoes
  <2> QED
    BY <1>0, <2>1, <2>2 DEF Bind, Typed
<1>3. owed[s] \in Lines \cup {Nil} /\ [owed EXCEPT ![s] = Nil] \in [Srpns -> Lines \cup {Nil}]
  BY <1>0 DEF Typed
<1>4. MaskedAndAcked(s) \in Controllers
  BY <1>0, MaskedAndAckedDoes
<1>5. CASE Detach(c, t, s)
  <2>1. PICK i \in BySrpn(s) : Removed(i)
    BY <1>5 DEF Detach
  <2>2. table' \in [Slots -> Bindings \cup {Nil}] /\ notifs' \subseteq Notifs
    BY <2>1, RemovedDoes DEF BySrpn
  <2> QED
    BY <1>0, <1>3, <1>4, <1>5, <2>2 DEF Detach, Typed
<1>6. CASE Enable(c, t, s)
  <2>1. table' \in [Slots -> Bindings \cup {Nil}]
    <3>1. Enabled(s, TRUE) /\ TRUE \in BOOLEAN
      BY <1>6 DEF Enable
    <3> QED
      BY <3>1, EnabledDoes
  <2>2. hw' \in Controllers
    BY <1>0, <1>6, EnableDoes DEF Enable
  <2> QED
    BY <1>0, <1>3, <1>6, <2>1, <2>2 DEF Enable, Typed
<1>7. CASE Disable(c, t, s)
  <2>1. table' \in [Slots -> Bindings \cup {Nil}]
    <3>1. Enabled(s, FALSE) /\ FALSE \in BOOLEAN
      BY <1>7 DEF Disable
    <3> QED
      BY <3>1, EnabledDoes
  <2> QED
    BY <1>0, <1>3, <1>4, <1>7, <2>1 DEF Disable, Typed
<1>8. CASE Ack(c, t, s)
  <2>1. PICK k : k = SrcAck(hw, s)
    OBVIOUS
  <2>2. k \in Controllers
    BY <1>0, <2>1, AckDoes
  <2>3. SrcEnable(k, s) \in Controllers
    BY <2>2, EnableDoes
  <2>4. hw' = k \/ hw' = SrcEnable(k, s)
    BY <1>8, <2>1 DEF Ack
  <2> QED
    BY <1>0, <1>3, <1>8, <2>2, <2>3, <2>4 DEF Ack, Typed
<1> QED
  BY <1>1, <1>2, <1>5, <1>6, <1>7, <1>8

LEMMA HandlerType ==
  ASSUME TypeOK, NEW c \in Cpus, NEW s \in Srpns,
         \/ DispatchNone(c, s) \/ DispatchThreaded(c, s) \/ DispatchAttached(c, s)
         \/ \E notify \in BOOLEAN : CallbackReturn(c, s, notify)
         \/ CallbackFault(c, s)
  PROVE  TypeOK'
<1>0. port \in Ports /\ Port /\ hw \in Controllers /\ Typed
  BY TypeSplit, TypesOf
<1> SUFFICES port' = port /\ Typed' /\ hw' \in Controllers
  BY <1>0 DEF TypeOK, Typed, Controllers
<1>1. isr[c] # Nil /\ isr[c] \in Handlers /\ isr[c].line \in Lines
  BY <1>0 DEF DispatchNone, DispatchThreaded, DispatchAttached, CallbackReturn, CallbackFault, Serving, InCallback,
              Typed, Handlers
<1>2. Done(c, s) => isr' \in [Cpus -> Handlers \cup {Nil}]
  BY <1>1, DoneDoes
<1>3. \A h \in Controllers : Served(h, s) \in Controllers
  BY <1>0, ServedDoes
<1>4. CASE DispatchNone(c, s)
  BY <1>0, <1>2, <1>3, <1>4 DEF DispatchNone, Typed
<1>5. CASE DispatchThreaded(c, s)
  <2>1. SrcDisable(hw, s) \in Controllers
    BY <1>0, DisableDoes
  <2>2. [owed EXCEPT ![s] = isr[c].line] \in [Srpns -> Lines \cup {Nil}]
    BY <1>0, <1>1 DEF Typed
  <2> QED
    BY <1>0, <1>2, <1>3, <1>5, <2>1, <2>2 DEF DispatchThreaded, Typed
<1>6. CASE DispatchAttached(c, s)
  <2>1. PICK i \in Slots : isr' = [isr EXCEPT ![c].slot = i]
    BY <1>6 DEF DispatchAttached, BySrpn, InUse
  <2>2. PICK k : k = isr[c]
    OBVIOUS
  <2>3. [k EXCEPT !.slot = i] \in Handlers
    BY <1>1, <2>2 DEF Handlers
  <2>4. isr' = [isr EXCEPT ![c] = [k EXCEPT !.slot = i]]
    BY <1>0, <2>1, <2>2 DEF Typed
  <2>5. isr' \in [Cpus -> Handlers \cup {Nil}]
    BY <1>0, <2>3, <2>4 DEF Typed
  <2> QED
    BY <1>0, <1>6, <2>5 DEF DispatchAttached, Typed
<1>7. CASE \E notify \in BOOLEAN : CallbackReturn(c, s, notify)
  <2>1. PICK notify \in BOOLEAN : CallbackReturn(c, s, notify)
    BY <1>7
  <2>2. PICK e : e = [hw EXCEPT !.en = IF port = "nvic" THEN @ \cup {isr[c].line} ELSE @]
    OBVIOUS
  <2>3. e \in Controllers
    BY <1>0, <1>1, <2>2 DEF Controllers
  <2>4. SrcAck(hw, s) \in Controllers
    BY <1>0, AckDoes
  <2>5. hw' = Served(IF notify THEN SrcAck(hw, s) ELSE e, s)
    BY <2>1, <2>2 DEF CallbackReturn
  <2>6. hw' \in Controllers
    BY <1>3, <2>3, <2>4, <2>5
  <2>7. isr' \in [Cpus -> Handlers \cup {Nil}]
    BY <1>2, <2>1 DEF CallbackReturn
  <2>8. high' \subseteq Fixed \cup First .. Last
    BY <1>0, <2>1 DEF CallbackReturn, Typed
  <2> QED
    BY <1>0, <2>1, <2>6, <2>7, <2>8 DEF CallbackReturn, Typed
<1>8. CASE CallbackFault(c, s)
  <2>1. PICK i \in BySrpn(s) : Removed(i) /\ alive' = alive \ {table[i].owner}
    BY <1>8 DEF CallbackFault
  <2>2. table' \in [Slots -> Bindings \cup {Nil}] /\ notifs' \subseteq Notifs
    BY <2>1, RemovedDoes DEF BySrpn
  <2>3. MaskedAndAcked(s) \in Controllers
    BY <1>0, MaskedAndAckedDoes
  <2>4. alive' \subseteq Threads
    BY <1>0, <2>1 DEF Typed
  <2>5. lost' \subseteq Threads
    BY <1>8, <2>4 DEF CallbackFault
  <2> QED
    BY <1>0, <1>8, <2>2, <2>3, <2>4, <2>5 DEF CallbackFault, Typed
<1> QED
  BY <1>4, <1>5, <1>6, <1>7, <1>8

LEMMA RestType ==
  ASSUME TypeOK,
         \/ \E c \in Cpus, t \in Threads :
              (\E n \in Notifs : CreateNotif(c, t, n) \/ DestroyNotif(c, t, n)) \/ Exit(c, t)
         \/ \E c \in Cpus :
              (\E l \in Lines, t \in (alive \ lost) \cup {Nil} : TakeInterrupt(c, t, l)) \/ LeaveInterrupt(c)
         \/ \E l \in Fixed \cup First .. Last : Raise(l)
         \/ RaiseSoft
         \/ \E s \in Srpns : Serve(s)
  PROVE  TypeOK'
<1>0. port \in Ports /\ Port /\ hw \in Controllers /\ Typed
  BY TypeSplit, TypesOf
<1> SUFFICES port' = port /\ Typed' /\ hw' \in Controllers
  BY <1>0 DEF TypeOK, Typed, Controllers
<1>1. ASSUME NEW c \in Cpus, NEW t \in Threads, NEW n \in Notifs, CreateNotif(c, t, n) \/ DestroyNotif(c, t, n)
      PROVE  port' = port /\ Typed' /\ hw' \in Controllers
  BY <1>0, <1>1 DEF CreateNotif, DestroyNotif, Typed
<1>2. ASSUME NEW c \in Cpus, NEW t \in Threads, Exit(c, t)
      PROVE  port' = port /\ Typed' /\ hw' \in Controllers
  BY <1>0, <1>2 DEF Exit, Typed
<1>3. ASSUME NEW c \in Cpus, NEW l \in Lines, NEW t \in (alive \ lost) \cup {Nil}, TakeInterrupt(c, t, l)
      PROVE  port' = port /\ Typed' /\ hw' \in Controllers
  <2>1. Entered(hw, l) \in Controllers
    BY <1>0, EnteredDoes
  <2>2. PICK k : k = [line |-> l, todo |-> Targets(hw, l), slot |-> 0, cur |-> t]
    OBVIOUS
  <2>3. Targets(hw, l) \subseteq Srpns
    BY DEF Targets
  <2>4. t \in Threads \cup {Nil}
    BY <1>0 DEF Typed
  <2>5. k \in Handlers
    BY <2>2, <2>3, <2>4 DEF Handlers
  <2>6. isr' = [isr EXCEPT ![c] = k]
    BY <1>3, <2>2 DEF TakeInterrupt
  <2>7. isr' \in [Cpus -> Handlers \cup {Nil}]
    BY <1>0, <2>5, <2>6 DEF Typed
  <2> QED
    BY <1>0, <1>3, <2>1, <2>7 DEF TakeInterrupt, Typed
<1>4. ASSUME NEW c \in Cpus, LeaveInterrupt(c)
      PROVE  port' = port /\ Typed' /\ hw' \in Controllers
  <2>1. isr[c] \in Handlers /\ isr[c].line \in Lines
    BY <1>0, <1>4 DEF LeaveInterrupt, Typed, Handlers
  <2>2. hw' \in Controllers
    BY <1>0, <1>4, <2>1, LeftDoes DEF LeaveInterrupt
  <2> QED
    BY <1>0, <1>4, <2>2 DEF LeaveInterrupt, Typed
<1>5. ASSUME NEW l \in Fixed \cup First .. Last, Raise(l)
      PROVE  port' = port /\ Typed' /\ hw' \in Controllers
  <2>1. l \in Lines
    BY LinesOf
  <2>2. hw' \in Controllers
    BY <1>0, <1>5, <2>1 DEF Raise, Controllers
  <2> QED
    BY <1>0, <1>5, <2>2 DEF Raise, Typed
<1>6. ASSUME RaiseSoft
      PROVE  port' = port /\ Typed' /\ hw' \in Controllers
  <2>1. hw' \in Controllers
    BY <1>0, <1>6, LinesOf DEF RaiseSoft, Controllers, Clint
  <2> QED
    BY <1>0, <1>6, <2>1 DEF RaiseSoft, Typed
<1>7. ASSUME NEW s \in Srpns, Serve(s)
      PROVE  port' = port /\ Typed' /\ hw' \in Controllers
  BY <1>0, <1>7 DEF Serve, Typed
<1> QED
  BY <1>1, <1>2, <1>3, <1>4, <1>5, <1>6, <1>7

(***************************************************************************)
(* Irq is typed, whatever programs and devices do.                         *)
(***************************************************************************)
THEOREM TypeCorrect == Spec => []TypeOK
<1>1. Init => TypeOK
  BY IrqAssumption DEF Init, TypeOK, TickInit, Lines, Clint
<1>2. TypeOK /\ [Next]_vars => TypeOK'
  <2> SUFFICES ASSUME TypeOK, [Next]_vars
               PROVE  TypeOK'
    OBVIOUS
  <2>1. CASE UNCHANGED vars
    BY <2>1 DEF vars, TypeOK
  <2>2. CASE Next
    BY <2>2, CallType, HandlerType, RestType DEF Next
  <2> QED
    BY <2>1, <2>2
<1> QED
  BY <1>1, <1>2, PTL DEF Spec

-----------------------------------------------------------------------------
(* The binding table.                                                       *)

\* The build has one CPU.  With more, one of them may take a binding away
\* while another runs its callback.
OneCpu == \A c, d \in Cpus : c = d

SrpnOnce == \A i, j \in InUse : table[i].srpn = table[j].srpn => i = j

\* The notification of a binding exists, and no other binding uses an owned one.
NotifsFit ==
  \A i \in InUse :
    /\ table[i].notif \in notifs
    /\ \A j \in InUse : table[i].owned /\ i # j => table[i].notif # table[j].notif

\* A running callback is that of the srpn being served, and closes the gate.
CallbackFits ==
  \A c \in Cpus :
    /\ gate[c] <=> isr[c] # Nil /\ isr[c].slot # 0
    /\ isr[c] # Nil /\ isr[c].slot # 0 =>
         /\ isr[c].slot \in InUse /\ table[isr[c].slot].attach
         /\ isr[c].todo # {} /\ table[isr[c].slot].srpn = Min(isr[c].todo)

TableInv == TypeOK /\ SrpnOnce /\ CallbackFits

\* On one CPU a system call that the router lets through finds no interrupt.
LEMMA Quiet ==
  ASSUME OneCpu, CallbackFits, NEW c \in Cpus, NEW t, Caller(c, t), ~gate[c]
  PROVE  \A d \in Cpus : isr[d] = Nil /\ ~gate[d]
BY DEF OneCpu, CallbackFits, Caller

LEMMA EntryFields ==
  ASSUME NEW s, NEW n, NEW t
  PROVE  /\ Entry(s, n, t).srpn = s /\ Entry(s, n, t).notif = n
         /\ ~Entry(s, n, t).enabled
         /\ (Entry(s, n, t).attach <=> t # Nil) /\ (Entry(s, n, t).owned <=> t # Nil)
<1>1. Entry(s, n, t).srpn = s /\ Entry(s, n, t).notif = n
  BY DEF Entry
<1>2. ~Entry(s, n, t).enabled
  BY Zenon DEF Entry
<1>3. (Entry(s, n, t).attach <=> t # Nil) /\ (Entry(s, n, t).owned <=> t # Nil)
  BY Zenon DEF Entry
<1> QED
  BY <1>1, <1>2, <1>3

\* What a slot holds after an entry is added, removed or enabled.
LEMMA AddedSlots ==
  ASSUME TypeOK, NEW s \in Srpns, NEW n \in Notifs, NEW t \in Threads \cup {Nil},
         NEW l \in Fixed \cup Clint \cup {Nil}, Add(s, n, t, l)
  PROVE  \E k \in Slots : /\ k \notin InUse /\ InUse' = InUse \cup {k}
                          /\ \A i \in InUse : table'[i] = table[i] /\ table[i].srpn # s
                          /\ table'[k] = Entry(s, n, t)
<1>1. PICK k \in Slots : table[k] = Nil /\ table' = [table EXCEPT ![k] = Entry(s, n, t)]
  BY AddDoes
<1>2. Entry(s, n, t) # Nil
  BY AddDoes, NilAssumption
<1>3. \A i \in InUse : i \in Slots /\ i # k
  BY <1>1 DEF InUse
<1>4. table'[k] = Entry(s, n, t) /\ \A i \in Slots : i # k => table'[i] = table[i]
  BY <1>1 DEF TypeOK
<1>5. InUse' = InUse \cup {k}
  BY <1>1, <1>2, <1>4 DEF InUse
<1>6. \A i \in InUse : table[i].srpn # s
  BY DEF Add, BySrpn
<1> QED
  BY <1>1, <1>3, <1>4, <1>5, <1>6

LEMMA RemovedSlots ==
  ASSUME TypeOK, NEW k \in InUse, Removed(k)
  PROVE  /\ InUse' = InUse \ {k} /\ \A i \in InUse : i # k => table'[i] = table[i]
         /\ notifs' = IF table[k].owned THEN notifs \ {table[k].notif} ELSE notifs
BY RemovedDoes DEF InUse, TypeOK, Removed

SameButEnabled(a, b) ==
  a.srpn = b.srpn /\ a.notif = b.notif /\ a.attach = b.attach /\ a.owner = b.owner /\ a.owned = b.owned

LEMMA EnabledSlots ==
  ASSUME TypeOK, NEW s \in Srpns, NEW on \in BOOLEAN, Enabled(s, on)
  PROVE  /\ InUse' = InUse /\ \A i \in InUse : SameButEnabled(table'[i], table[i])
         /\ \A i \in InUse : table'[i].enabled = IF table[i].srpn = s THEN on ELSE table[i].enabled
<1>1. /\ \A i \in Slots : table'[i] = IF i \in BySrpn(s) THEN [table[i] EXCEPT !.enabled = on] ELSE table[i]
      /\ \A i \in BySrpn(s) : i \in Slots /\ table[i] \in Bindings /\ table'[i] \in Bindings
  BY EnabledDoes
<1>2. Nil \notin Bindings
  BY NilAssumption
<1>3. \A i \in Slots : table'[i] # Nil <=> table[i] # Nil
  <2> SUFFICES ASSUME NEW i \in Slots
               PROVE  table'[i] # Nil <=> table[i] # Nil
    OBVIOUS
  <2>1. CASE i \in BySrpn(s)
    BY <1>1, <1>2, <2>1
  <2>2. CASE i \notin BySrpn(s)
    BY <1>1, <2>2
  <2> QED
    BY <2>1, <2>2
<1>4. InUse' = InUse
  BY <1>3 DEF InUse
<1>5. \A i \in InUse : /\ SameButEnabled(table'[i], table[i])
                       /\ table'[i].enabled = IF table[i].srpn = s THEN on ELSE table[i].enabled
  <2> SUFFICES ASSUME NEW i \in InUse
               PROVE  /\ SameButEnabled(table'[i], table[i])
                      /\ table'[i].enabled = IF table[i].srpn = s THEN on ELSE table[i].enabled
    OBVIOUS
  <2>0. i \in Slots /\ (i \in BySrpn(s) <=> table[i].srpn = s)
    BY DEF InUse, BySrpn
  <2>1. CASE i \in BySrpn(s)
    <3>1. PICK b : b = table[i]
      OBVIOUS
    <3>2. b \in Bindings /\ table'[i] = [b EXCEPT !.enabled = on]
      BY <1>1, <2>0, <2>1, <3>1
    <3>3. SameButEnabled([b EXCEPT !.enabled = on], b) /\ [b EXCEPT !.enabled = on].enabled = on
      BY <3>2 DEF Bindings, SameButEnabled
    <3> QED
      BY <2>0, <2>1, <3>1, <3>2, <3>3
  <2>2. CASE i \notin BySrpn(s)
    BY <1>1, <2>0, <2>2 DEF SameButEnabled
  <2> QED
    BY <2>1, <2>2
<1> QED
  BY <1>4, <1>5

\* The four things a step may do to the table.
LEMMA TableSteps ==
  ASSUME Next
  PROVE  \/ table' = table
         \/ \E s \in Srpns, n \in Notifs, t \in Threads \cup {Nil}, l \in Fixed \cup Clint \cup {Nil} : Add(s, n, t, l)
         \/ \E k \in InUse : Removed(k)
         \/ \E s \in Srpns, on \in BOOLEAN : Enabled(s, on)
<1> DEFINE Changes ==
         \/ table' = table
         \/ \E s \in Srpns, n \in Notifs, t \in Threads \cup {Nil}, l \in Fixed \cup Clint \cup {Nil} : Add(s, n, t, l)
         \/ \E k \in InUse : Removed(k)
         \/ \E s \in Srpns, on \in BOOLEAN : Enabled(s, on)
<1>1. ASSUME NEW c \in Cpus, NEW t \in Threads, NEW s \in Srpns, NEW l \in Fixed \cup Clint \cup {Nil}, Attach(c, t, s, l)
      PROVE  Changes
  <2>1. PICK n \in Notifs : Add(s, n, t, l)
    BY <1>1 DEF Attach
  <2> QED
    BY <2>1
<1>2. ASSUME NEW c \in Cpus, NEW t \in Threads, NEW s \in Srpns, NEW l \in Fixed \cup Clint \cup {Nil},
             NEW n \in Notifs, Bind(c, t, s, n, l)
      PROVE  Changes
  <2>1. Add(s, n, Nil, l) /\ Nil \in Threads \cup {Nil}
    BY <1>2 DEF Bind
  <2> QED
    BY <2>1
<1>3. ASSUME NEW c \in Cpus, NEW t \in Threads, NEW s \in Srpns, Detach(c, t, s) \/ CallbackFault(c, s)
      PROVE  Changes
  BY <1>3 DEF Detach, CallbackFault, BySrpn
<1>4. ASSUME NEW c \in Cpus, NEW t \in Threads, NEW s \in Srpns, Enable(c, t, s) \/ Disable(c, t, s)
      PROVE  Changes
  <2>1. Enabled(s, TRUE) \/ Enabled(s, FALSE)
    BY <1>4 DEF Enable, Disable
  <2> QED
    BY <2>1
<1>5. ASSUME NEW c \in Cpus, NEW t \in Threads,
             \/ \E s \in Srpns : Ack(c, t, s)
             \/ \E n \in Notifs : CreateNotif(c, t, n) \/ DestroyNotif(c, t, n)
             \/ Exit(c, t)
      PROVE  Changes
  BY <1>5 DEF Ack, CreateNotif, DestroyNotif, Exit
<1>6. ASSUME NEW c \in Cpus,
             \/ \E l \in Lines, t \in (alive \ lost) \cup {Nil} : TakeInterrupt(c, t, l)
             \/ \E s \in Srpns :
                  \/ DispatchNone(c, s) \/ DispatchThreaded(c, s) \/ DispatchAttached(c, s)
                  \/ \E notify \in BOOLEAN : CallbackReturn(c, s, notify)
             \/ LeaveInterrupt(c)
      PROVE  Changes
  BY <1>6 DEF TakeInterrupt, DispatchNone, DispatchThreaded, DispatchAttached, CallbackReturn, LeaveInterrupt
<1>7. ASSUME NEW c \in Cpus, NEW s \in Srpns, CallbackFault(c, s)
      PROVE  Changes
  BY <1>7 DEF CallbackFault, BySrpn
<1>8. ASSUME (\E l \in Fixed \cup First .. Last : Raise(l)) \/ RaiseSoft \/ \E s \in Srpns : Serve(s)
      PROVE  Changes
  BY <1>8 DEF Raise, RaiseSoft, Serve
<1> QED
  <2> HIDE DEF Changes
  <2>1. Changes
    BY <1>1, <1>2, <1>3, <1>4, <1>5, <1>6, <1>7, <1>8 DEF Next
  <2> QED
    BY <2>1 DEF Changes

LEMMA OnceStep ==
  ASSUME TypeOK, SrpnOnce, [Next]_vars
  PROVE  SrpnOnce'
<1>1. CASE table' = table
  BY <1>1 DEF SrpnOnce, InUse
<1>2. ASSUME NEW s \in Srpns, NEW n \in Notifs, NEW t \in Threads \cup {Nil}, NEW l \in Fixed \cup Clint \cup {Nil},
             Add(s, n, t, l)
      PROVE  SrpnOnce'
  <2>1. PICK k \in Slots : /\ k \notin InUse /\ InUse' = InUse \cup {k}
                           /\ \A i \in InUse : table'[i] = table[i] /\ table[i].srpn # s
                           /\ table'[k] = Entry(s, n, t)
    BY <1>2, AddedSlots
  <2>2. table'[k].srpn = s
    BY <2>1 DEF Entry
  <2> QED
    BY <2>1, <2>2 DEF SrpnOnce
<1>3. ASSUME NEW k \in InUse, Removed(k)
      PROVE  SrpnOnce'
  BY <1>3, RemovedSlots DEF SrpnOnce
<1>4. ASSUME NEW s \in Srpns, NEW on \in BOOLEAN, Enabled(s, on)
      PROVE  SrpnOnce'
  <2>1. InUse' = InUse /\ \A i \in InUse : table'[i].srpn = table[i].srpn
    BY <1>4, EnabledSlots DEF SameButEnabled
  <2> QED
    BY <2>1 DEF SrpnOnce
<1>5. CASE UNCHANGED vars
  BY <1>1, <1>5 DEF vars
<1> QED
  BY <1>1, <1>2, <1>3, <1>4, <1>5, TableSteps

-----------------------------------------------------------------------------
(* Callbacks, on one CPU.                                                   *)

LEMMA StillQuiet ==
  ASSUME \A d \in Cpus : isr[d] = Nil /\ ~gate[d], isr' = isr, gate' = gate
  PROVE  CallbackFits'
BY DEF CallbackFits

LEMMA CallCallbacks ==
  ASSUME OneCpu, TableInv, NEW c \in Cpus, NEW t \in Threads,
         \/ \E s \in Srpns :
              \/ \E l \in Fixed \cup Clint \cup {Nil} : Attach(c, t, s, l) \/ \E n \in Notifs : Bind(c, t, s, n, l)
              \/ Detach(c, t, s) \/ Enable(c, t, s) \/ Disable(c, t, s) \/ Ack(c, t, s)
         \/ \E n \in Notifs : CreateNotif(c, t, n) \/ DestroyNotif(c, t, n)
         \/ Exit(c, t)
  PROVE  /\ \A d \in Cpus : isr[d] = Nil /\ ~gate[d]
         /\ isr' = isr /\ gate' = gate
<1>1. Caller(c, t) /\ ~gate[c]
  BY DEF Attach, Bind, Detach, Enable, Disable, Ack, CreateNotif, DestroyNotif, Exit, Routed
<1>2. isr' = isr /\ gate' = gate
  BY DEF Attach, Bind, Detach, Enable, Disable, Ack, CreateNotif, DestroyNotif, Exit
<1> QED
  BY <1>1, <1>2, Quiet DEF TableInv

LEMMA ServingFree ==
  ASSUME OneCpu, TableInv, NEW c \in Cpus, NEW s \in Srpns, Serving(c, s)
  PROVE  s \in isr[c].todo /\ ~gate[c] /\ isr[c] \in Handlers
<1>1. isr[c] \in Handlers
  BY DEF Serving, TableInv, TypeOK
<1>2. isr[c].todo \in SUBSET Nat
  BY <1>1, IrqAssumption DEF Handlers
<1> QED
  BY <1>1, <1>2, MinIn DEF Serving, TableInv, CallbackFits

\* The entry of a running callback.
LEMMA CallbackEntry ==
  ASSUME TableInv, NEW c \in Cpus, NEW s \in Srpns, InCallback(c, s)
  PROVE  /\ isr[c] \in Handlers /\ s \in isr[c].todo
         /\ isr[c].slot \in InUse /\ table[isr[c].slot].attach /\ table[isr[c].slot].srpn = s
         /\ BySrpn(s) = {isr[c].slot}
<1>1. isr[c] \in Handlers
  BY DEF InCallback, TableInv, TypeOK
<1>2. /\ isr[c].slot \in InUse /\ table[isr[c].slot].attach /\ table[isr[c].slot].srpn = s
      /\ isr[c].todo # {} /\ s = Min(isr[c].todo)
  BY DEF InCallback, TableInv, CallbackFits
<1>3. isr[c].todo \in SUBSET Nat
  BY <1>1, IrqAssumption DEF Handlers
<1>4. BySrpn(s) = {isr[c].slot}
  BY <1>2 DEF BySrpn, TableInv, SrpnOnce
<1> QED
  BY <1>1, <1>2, <1>3, <1>4, MinIn

LEMMA CallbackStep ==
  ASSUME OneCpu, TableInv, [Next]_vars
  PROVE  CallbackFits'
<1>0. TypeOK /\ CallbackFits
  BY DEF TableInv
<1>1. ASSUME NEW c \in Cpus, NEW t \in Threads,
             \/ \E s \in Srpns :
                  \/ \E l \in Fixed \cup Clint \cup {Nil} : Attach(c, t, s, l) \/ \E n \in Notifs : Bind(c, t, s, n, l)
                  \/ Detach(c, t, s) \/ Enable(c, t, s) \/ Disable(c, t, s) \/ Ack(c, t, s)
             \/ \E n \in Notifs : CreateNotif(c, t, n) \/ DestroyNotif(c, t, n)
             \/ Exit(c, t)
      PROVE  CallbackFits'
  BY <1>1, CallCallbacks, StillQuiet
<1>2. ASSUME NEW c \in Cpus, NEW l \in Lines, NEW t \in (alive \ lost) \cup {Nil}, TakeInterrupt(c, t, l)
      PROVE  CallbackFits'
  <2>1. ~gate[c] /\ gate' = gate
    BY <1>0, <1>2 DEF TakeInterrupt, CallbackFits
  <2>2. isr'[c].slot = 0 /\ \A d \in Cpus : d = c
    BY <1>0, <1>2 DEF TakeInterrupt, TypeOK, OneCpu
  <2> QED
    BY <2>1, <2>2 DEF CallbackFits
<1>3. ASSUME NEW c \in Cpus, NEW s \in Srpns, DispatchNone(c, s) \/ DispatchThreaded(c, s)
      PROVE  CallbackFits'
  <2>1. isr[c] # Nil /\ Done(c, s) /\ ~gate[c] /\ gate' = gate
    BY <1>0, <1>3 DEF DispatchNone, DispatchThreaded, Serving, CallbackFits
  <2>2. isr'[c].slot = 0 /\ \A d \in Cpus : d = c
    BY <1>0, <2>1, DoneDoes DEF OneCpu
  <2> QED
    BY <2>1, <2>2 DEF CallbackFits
<1>4. ASSUME NEW c \in Cpus, NEW s \in Srpns, DispatchAttached(c, s)
      PROVE  CallbackFits'
  <2>1. PICK i \in BySrpn(s) : table[i].attach /\ isr' = [isr EXCEPT ![c].slot = i]
    BY <1>4 DEF DispatchAttached
  <2>2. PICK k : k = isr[c]
    OBVIOUS
  <2>3. k \in Handlers /\ s = Min(k.todo) /\ k.todo # {}
    BY <1>0, <1>4, <2>2 DEF DispatchAttached, Serving, TypeOK
  <2>4. PICK m : m = [k EXCEPT !.slot = i]
    OBVIOUS
  <2>5. i \in InUse /\ i \in Slots /\ i # 0 /\ table[i].srpn = s
    BY <2>1, LinesOf DEF BySrpn, InUse
  <2>6. m \in Handlers /\ m.slot = i /\ m.todo = k.todo
    BY <2>3, <2>4, <2>5 DEF Handlers
  <2>7. isr' = [isr EXCEPT ![c] = m]
    BY <1>0, <2>1, <2>2, <2>4 DEF TypeOK
  <2>8. isr'[c] = m /\ gate'[c] = TRUE /\ table' = table /\ InUse' = InUse /\ m # Nil
    BY <1>0, <1>4, <2>6, <2>7, NilAssumption DEF DispatchAttached, TypeOK, InUse
  <2>9. \A d \in Cpus : d = c
    BY DEF OneCpu
  <2>10. gate'[c] /\ isr'[c] # Nil /\ isr'[c].slot = i /\ i # 0 /\ i \in InUse' /\ isr'[c].todo = k.todo
    BY <2>5, <2>6, <2>8
  <2>11. table'[i].attach /\ table'[i].srpn = Min(k.todo) /\ k.todo # {}
    BY <2>1, <2>3, <2>5, <2>8
  <2> QED
    BY <2>9, <2>10, <2>11 DEF CallbackFits
<1>5. ASSUME NEW c \in Cpus, NEW s \in Srpns, NEW notify \in BOOLEAN, CallbackReturn(c, s, notify)
      PROVE  CallbackFits'
  <2>1. isr[c] # Nil /\ Done(c, s) /\ gate'[c] = FALSE
    BY <1>0, <1>5 DEF CallbackReturn, InCallback, TypeOK
  <2>2. isr'[c].slot = 0 /\ \A d \in Cpus : d = c
    BY <1>0, <2>1, DoneDoes DEF OneCpu
  <2> QED
    BY <2>1, <2>2 DEF CallbackFits
<1>6. ASSUME NEW c \in Cpus, NEW s \in Srpns, CallbackFault(c, s)
      PROVE  CallbackFits'
  <2>1. isr'[c] = Nil /\ gate'[c] = FALSE /\ \A d \in Cpus : d = c
    BY <1>0, <1>6 DEF CallbackFault, TypeOK, OneCpu
  <2> QED
    BY <2>1 DEF CallbackFits
<1>7. ASSUME NEW c \in Cpus, LeaveInterrupt(c)
      PROVE  CallbackFits'
  <2>1. isr'[c] = Nil /\ gate' = gate /\ ~gate[c] /\ \A d \in Cpus : d = c
    BY <1>0, <1>7 DEF LeaveInterrupt, TypeOK, OneCpu, CallbackFits
  <2> QED
    BY <2>1 DEF CallbackFits
<1>8. ASSUME isr' = isr, gate' = gate, table' = table
      PROVE  CallbackFits'
  BY <1>0, <1>8 DEF CallbackFits, InUse
<1>9. CASE (\E l \in Fixed \cup First .. Last : Raise(l)) \/ RaiseSoft \/ \E s \in Srpns : Serve(s)
  BY <1>8, <1>9 DEF Raise, RaiseSoft, Serve
<1>10. CASE UNCHANGED vars
  BY <1>8, <1>10 DEF vars
<1> QED
  BY <1>1, <1>2, <1>3, <1>4, <1>5, <1>6, <1>7, <1>9, <1>10 DEF Next

LEMMA TableInvariant == OneCpu => (Spec => []TableInv)
<1> SUFFICES ASSUME OneCpu
             PROVE  Spec => []TableInv
  OBVIOUS
<1>1. Init => TableInv
  <2> SUFFICES ASSUME Init
               PROVE  TableInv
    OBVIOUS
  <2>1. TypeOK
    BY IrqAssumption DEF Init, TypeOK, TickInit, Lines, Clint
  <2>2. InUse = {}
    BY DEF Init, InUse
  <2>3. SrpnOnce
    BY <2>2 DEF SrpnOnce
  <2>4. CallbackFits
    BY DEF CallbackFits, Init
  <2> QED
    BY <2>1, <2>3, <2>4 DEF TableInv
<1>2. TypeOK /\ [Next]_vars => TypeOK'
  <2> SUFFICES ASSUME TypeOK, [Next]_vars
               PROVE  TypeOK'
    OBVIOUS
  <2>1. CASE UNCHANGED vars
    BY <2>1 DEF vars, TypeOK
  <2>2. CASE Next
    BY <2>2, CallType, HandlerType, RestType DEF Next
  <2> QED
    BY <2>1, <2>2
<1>3. TableInv /\ [Next]_vars => TableInv'
  BY <1>2, OnceStep, CallbackStep DEF TableInv
<1> QED
  BY <1>1, <1>3, PTL DEF Spec

-----------------------------------------------------------------------------
(* Notifications of bindings, when drivers behave.                          *)

LEMMA FitAdd ==
  ASSUME TypeOK, NotifsFit, NEW s \in Srpns, NEW n \in Notifs, NEW t \in Threads \cup {Nil},
         NEW l \in Fixed \cup Clint \cup {Nil}, Add(s, n, t, l),
         notifs' = notifs \cup {n},
         \A i \in InUse : (table[i].owned \/ t # Nil) => table[i].notif # n
  PROVE  NotifsFit'
<1>1. PICK k \in Slots : /\ k \notin InUse /\ InUse' = InUse \cup {k}
                         /\ \A i \in InUse : table'[i] = table[i] /\ table[i].srpn # s
                         /\ table'[k] = Entry(s, n, t)
  BY AddedSlots
<1>2. table'[k].notif = n /\ (table'[k].owned <=> t # Nil)
  BY <1>1, EntryFields
<1> QED
  BY <1>1, <1>2 DEF NotifsFit

LEMMA FitRemoved ==
  ASSUME TypeOK, NotifsFit, NEW k \in InUse, Removed(k)
  PROVE  NotifsFit'
BY RemovedSlots DEF NotifsFit

LEMMA FitEnabled ==
  ASSUME TypeOK, NotifsFit, NEW s \in Srpns, NEW on \in BOOLEAN, Enabled(s, on), notifs' = notifs
  PROVE  NotifsFit'
<1>1. InUse' = InUse /\ \A i \in InUse : table'[i].notif = table[i].notif /\ table'[i].owned = table[i].owned
  BY EnabledSlots DEF SameButEnabled
<1> QED
  BY <1>1 DEF NotifsFit

LEMMA FitStep ==
  ASSUME Polite, TypeOK, NotifsFit, [Next]_vars
  PROVE  NotifsFit'
<1>1. ASSUME NEW c \in Cpus, NEW t \in Threads, NEW s \in Srpns, NEW l \in Fixed \cup Clint \cup {Nil}, Attach(c, t, s, l)
      PROVE  NotifsFit'
  <2>1. PICK n \in Notifs \ notifs : Add(s, n, t, l) /\ notifs' = notifs \cup {n}
    BY <1>1 DEF Attach
  <2>2. \A i \in InUse : table[i].notif # n
    BY <2>1 DEF NotifsFit
  <2> QED
    BY <2>1, <2>2, FitAdd
<1>2. ASSUME NEW c \in Cpus, NEW t \in Threads, NEW s \in Srpns, NEW l \in Fixed \cup Clint \cup {Nil},
             NEW n \in Notifs, Bind(c, t, s, n, l)
      PROVE  NotifsFit'
  <2>1. Add(s, n, Nil, l) /\ notifs' = notifs \cup {n} /\ Nil \in Threads \cup {Nil}
    BY <1>2 DEF Bind
  <2>2. \A i \in InUse : table[i].owned => table[i].notif # n
    BY <1>2 DEF Bind
  <2> QED
    BY <2>1, <2>2, FitAdd
<1>3. ASSUME NEW c \in Cpus, NEW t \in Threads, NEW s \in Srpns, Detach(c, t, s)
      PROVE  NotifsFit'
  BY <1>3, FitRemoved DEF Detach, BySrpn
<1>4. ASSUME NEW c \in Cpus, NEW t \in Threads, NEW s \in Srpns, Enable(c, t, s) \/ Disable(c, t, s)
      PROVE  NotifsFit'
  <2>1. (Enabled(s, TRUE) \/ Enabled(s, FALSE)) /\ notifs' = notifs
    BY <1>4 DEF Enable, Disable
  <2> QED
    BY <2>1, FitEnabled
<1>5. ASSUME NEW c \in Cpus, NEW t \in Threads, NEW n \in Notifs, CreateNotif(c, t, n) \/ DestroyNotif(c, t, n)
      PROVE  NotifsFit'
  <2>1. table' = table /\ InUse' = InUse
    BY <1>5 DEF CreateNotif, DestroyNotif, InUse
  <2>2. \A i \in InUse : table[i].notif \in notifs'
    BY <1>5 DEF CreateNotif, DestroyNotif, Unused, NotifsFit
  <2> QED
    BY <2>1, <2>2 DEF NotifsFit
<1>6. ASSUME NEW c \in Cpus, NEW s \in Srpns, CallbackFault(c, s)
      PROVE  NotifsFit'
  BY <1>6, FitRemoved DEF CallbackFault, BySrpn
<1>7. ASSUME table' = table, notifs' = notifs
      PROVE  NotifsFit'
  BY <1>7 DEF NotifsFit, InUse
<1>8. ASSUME NEW c \in Cpus,
             \/ \E t \in Threads : (\E s \in Srpns : Ack(c, t, s)) \/ Exit(c, t)
             \/ \E l \in Lines, t \in (alive \ lost) \cup {Nil} : TakeInterrupt(c, t, l)
             \/ \E s \in Srpns :
                  \/ DispatchNone(c, s) \/ DispatchThreaded(c, s) \/ DispatchAttached(c, s)
                  \/ \E notify \in BOOLEAN : CallbackReturn(c, s, notify)
             \/ LeaveInterrupt(c)
      PROVE  NotifsFit'
  <2>1. table' = table /\ notifs' = notifs
    BY <1>8 DEF Ack, Exit, TakeInterrupt, DispatchNone, DispatchThreaded, DispatchAttached, CallbackReturn, LeaveInterrupt
  <2> QED
    BY <1>7, <2>1
<1>9. CASE (\E l \in Fixed \cup First .. Last : Raise(l)) \/ RaiseSoft \/ \E s \in Srpns : Serve(s)
  BY <1>7, <1>9 DEF Raise, RaiseSoft, Serve
<1>10. CASE UNCHANGED vars
  BY <1>7, <1>10 DEF vars
<1> QED
  BY <1>1, <1>2, <1>3, <1>4, <1>5, <1>6, <1>8, <1>9, <1>10 DEF Next

LEMMA SoundFromInvariant ==
  ASSUME TableInv, NotifsFit
  PROVE  BindingsSound
<1>1. TypeOK /\ SrpnOnce /\ CallbackFits
  BY DEF TableInv
<1>2. BindingsDistinct
  BY <1>1 DEF NotifsFit, SrpnOnce, BindingsDistinct
<1>3. ASSUME NEW c \in Cpus
      PROVE  LET running == isr[c] # Nil /\ isr[c].slot # 0 IN
             /\ gate[c] = running
             /\ running => /\ table[isr[c].slot] # Nil
                           /\ table[isr[c].slot].srpn \in isr[c].todo
                           /\ table[isr[c].slot].notif \in notifs
  <2>1. gate[c] \in BOOLEAN
    BY <1>1 DEF TypeOK
  <2>2. gate[c] <=> isr[c] # Nil /\ isr[c].slot # 0
    BY <1>1 DEF CallbackFits
  <2>3. gate[c] = (isr[c] # Nil /\ isr[c].slot # 0)
    BY <2>1, <2>2, Zenon
  <2>4. ASSUME isr[c] # Nil, isr[c].slot # 0
        PROVE  /\ table[isr[c].slot] # Nil
               /\ table[isr[c].slot].srpn \in isr[c].todo
               /\ table[isr[c].slot].notif \in notifs
    <3>1. isr[c] \in Handlers
      BY <1>1, <2>4 DEF TypeOK
    <3>2. isr[c].todo \in SUBSET Nat
      BY <3>1, IrqAssumption DEF Handlers
    <3>3. /\ isr[c].slot \in InUse /\ isr[c].todo # {}
          /\ table[isr[c].slot].srpn = Min(isr[c].todo)
      BY <1>1, <2>4 DEF CallbackFits
    <3>4. table[isr[c].slot].srpn \in isr[c].todo
      BY <3>2, <3>3, MinIn
    <3> QED
      BY <3>3, <3>4 DEF NotifsFit, InUse
  <2> QED
    BY <2>3, <2>4
<1>4. CallbackKeepsBinding
  BY <1>3, Zenon DEF CallbackKeepsBinding
<1> QED
  BY <1>1, <1>2, <1>4 DEF BindingsSound

(***************************************************************************)
(* BindingsSound: on one CPU, and with drivers that destroy no             *)
(* notification they bound, the binding table stays sound                  *)
(* (ulmk_irq_binding_add, irq_binding_clear, ulmk_kern_irq_dispatch).      *)
(***************************************************************************)
THEOREM TableSound == OneCpu /\ Polite => (Spec => []BindingsSound)
<1> SUFFICES ASSUME OneCpu, Polite
             PROVE  Spec => []BindingsSound
  OBVIOUS
<1>1. Spec => []TableInv
  BY TableInvariant
<1>2. Init => NotifsFit
  BY DEF Init, NotifsFit, InUse
<1>3. TableInv /\ NotifsFit /\ [Next]_vars => NotifsFit'
  BY FitStep DEF TableInv
<1>4. TableInv /\ NotifsFit => BindingsSound
  BY SoundFromInvariant
<1> QED
  BY <1>1, <1>2, <1>3, <1>4, PTL DEF Spec

-----------------------------------------------------------------------------
(***************************************************************************)
(* Lines.  Each line belongs to one number and each number, on the NVIC,   *)
(* to one line: two drivers that wire the same line to two numbers, or one *)
(* number to two lines, take it from each other.                           *)
(***************************************************************************)
WiredOnce ==
  /\ Soft # Timer /\ Clint \cap Fixed = {} /\ (Fixed \cup Clint) \cap (First .. Last) = {}
  /\ \A p, q \in Wiring : p[2] = q[2] => p = q
  /\ "nvic" \in Ports => \A p, q \in Wiring : p[1] = q[1] /\ p[2] \notin Clint /\ q[2] \notin Clint => p = q

\* The line of a number is one that a driver registered for it or one that
\* configure handed out, and the reverse table leads back.
RouteFits(s) ==
  hw.route[s] # Nil =>
    /\ \/ <<s, hw.route[s]>> \in Wiring
       \/ (Plic \/ port = "src") /\ hw.route[s] \in First .. Last /\ hw.route[s] < hw.next
    /\ hw.route[s] \in Clint => Riscv
    /\ port # "clic" /\ hw.route[s] \notin Clint => hw.back[hw.route[s]] = s

RouteOnce == \A r, s \in Srpns : hw.route[r] = hw.route[s] /\ hw.route[s] # Nil => r = s

\* Only lines of some number are open, and the kernel's tick.
EnRouted == \A l \in hw.en \ {Timer} : \E s \in Srpns : hw.route[s] = l

\* A handler serves numbers of its line.
TodoRouted == \A c \in Cpus : isr[c] # Nil => \A s \in isr[c].todo : hw.route[s] = isr[c].line

\* The line of a number without a binding is masked (but the NVIC's ack opens it).
Masked(s) == port # "nvic" /\ BySrpn(s) = {} => hw.route[s] \notin hw.en

\* A signalled line is that of its number, masked, and its binding threaded.
OwedFits(s) ==
  owed[s] # Nil => /\ hw.route[s] = owed[s] /\ owed[s] \notin hw.en
                   /\ \E i \in InUse : table[i].srpn = s /\ ~table[i].attach

\* The line of an enabled binding is open, or its driver has yet to answer, or
\* the NVIC's dispatch masked it and is still at it.
OpenFor(s) ==
  \A i \in InUse : table[i].srpn = s /\ table[i].enabled /\ hw.route[s] # Nil =>
    \/ hw.route[s] \in hw.en
    \/ owed[s] # Nil
    \/ port = "nvic" /\ \E c \in Cpus : isr[c] # Nil /\ s \in isr[c].todo

SrpnFits(s) == Masked(s) /\ OwedFits(s) /\ OpenFor(s)

Routes == (\A s \in Srpns : RouteFits(s)) /\ RouteOnce

\* A claimed line is one of the PLIC, and on QEMU's it is being handled: every
\* handler completes it on its way out.
BusyHandled == \A l \in hw.busy : Plic /\ l \notin Clint /\ (port = "plic_qemu" => HandledNow(l))

LineInv == Routes /\ EnRouted /\ TodoRouted /\ BusyHandled /\ \A s \in Srpns : SrpnFits(s)

-----------------------------------------------------------------------------
(* A step about number s leaves the lines of the others alone.              *)

SameWires == hw'.route = hw.route /\ hw'.back = hw.back /\ hw'.next = hw.next /\ port' = port

Touches(s) ==
  /\ SameWires
  /\ hw'.en \subseteq hw.en \cup ({hw.route[s]} \ {Nil})
  /\ hw.en \ {hw.route[s]} \subseteq hw'.en

OthersKept(s) ==
  /\ \A r \in Srpns : r # s => owed'[r] = owed[r]
  /\ \A i \in InUse : table[i].srpn # s => i \in InUse' /\ table'[i] = table[i]
  /\ \A i \in InUse' : table'[i].srpn # s => i \in InUse /\ table'[i] = table[i]
  /\ \A c \in Cpus, r \in Srpns : r # s /\ isr[c] # Nil /\ r \in isr[c].todo => isr'[c] # Nil /\ r \in isr'[c].todo

LEMMA RoutesKept ==
  ASSUME SameWires, Routes
  PROVE  Routes'
BY DEF SameWires, Routes, RouteFits, RouteOnce, Riscv, Plic

LEMMA OtherFits ==
  ASSUME NEW s \in Srpns, NEW r \in Srpns, r # s, SrpnFits(r), port' = port, hw'.route[r] = hw.route[r],
         hw.route[r] # Nil => (hw.route[r] \in hw'.en <=> hw.route[r] \in hw.en),
         Nil \notin hw'.en,
         OthersKept(s)
  PROVE  SrpnFits(r)'
<1>1. owed'[r] = owed[r]
  BY DEF OthersKept
<1>2. \A i \in InUse : table[i].srpn = r => i \in InUse' /\ table'[i] = table[i]
  BY DEF OthersKept
<1>3. \A i \in InUse' : table'[i].srpn = r => i \in InUse /\ table'[i] = table[i]
  BY DEF OthersKept
<1>4. BySrpn(r)' = {} => BySrpn(r) = {}
  BY <1>2 DEF BySrpn
<1>5. Masked(r)'
  BY <1>4 DEF Masked, SrpnFits
<1>6. OwedFits(r)'
  <2> SUFFICES ASSUME owed[r] # Nil
               PROVE  /\ hw'.route[r] = owed[r] /\ owed[r] \notin hw'.en
                      /\ \E i \in InUse' : table'[i].srpn = r /\ ~table'[i].attach
    BY <1>1 DEF OwedFits
  <2>1. hw.route[r] = owed[r] /\ owed[r] \notin hw.en
    BY DEF SrpnFits, OwedFits
  <2>2. PICK i \in InUse : table[i].srpn = r /\ ~table[i].attach
    BY DEF SrpnFits, OwedFits
  <2>3. i \in InUse' /\ table'[i].srpn = r /\ ~table'[i].attach
    BY <1>2, <2>2
  <2> QED
    BY <2>1, <2>3
<1>7. OpenFor(r)'
  <2>1. \A c \in Cpus : isr[c] # Nil /\ r \in isr[c].todo => isr'[c] # Nil /\ r \in isr'[c].todo
    BY DEF OthersKept
  <2> SUFFICES ASSUME NEW i \in InUse', table'[i].srpn = r, table'[i].enabled, hw'.route[r] # Nil
               PROVE  \/ hw'.route[r] \in hw'.en
                      \/ owed'[r] # Nil
                      \/ port' = "nvic" /\ \E c \in Cpus : isr'[c] # Nil /\ r \in isr'[c].todo
    BY DEF OpenFor
  <2>2. i \in InUse /\ table[i].srpn = r /\ table[i].enabled
    BY <1>3
  <2>3. \/ hw.route[r] \in hw.en
        \/ owed[r] # Nil
        \/ port = "nvic" /\ \E c \in Cpus : isr[c] # Nil /\ r \in isr[c].todo
    BY <2>2 DEF SrpnFits, OpenFor
  <2> QED
    BY <1>1, <2>1, <2>3
<1> QED
  BY <1>5, <1>6, <1>7 DEF SrpnFits

LEMMA TouchStep ==
  ASSUME TypeOK, TypeOK', Routes, EnRouted, \A r \in Srpns : SrpnFits(r),
         NEW s \in Srpns, Touches(s), OthersKept(s), SrpnFits(s)'
  PROVE  Routes' /\ EnRouted' /\ \A r \in Srpns : SrpnFits(r)'
<1>1. Routes'
  BY RoutesKept DEF Touches
<1>2. EnRouted'
  BY DEF EnRouted, Touches, SameWires
<1>3. Nil \notin hw'.en
  <2>1. hw'.en \subseteq Lines
    BY DEF TypeOK
  <2> QED
    BY <2>1, LinesOf
<1>4. ASSUME NEW r \in Srpns, r # s
      PROVE  SrpnFits(r)'
  <2>1. hw'.route[r] = hw.route[r] /\ port' = port
    BY DEF Touches, SameWires
  <2>2. hw.route[r] # Nil => hw.route[r] # hw.route[s]
    BY <1>4 DEF Routes, RouteOnce
  <2>3. hw.route[r] # Nil => (hw.route[r] \in hw'.en <=> hw.route[r] \in hw.en)
    BY <2>2 DEF Touches
  <2> QED
    BY <1>3, <1>4, <2>1, <2>3, OtherFits
<1> QED
  BY <1>1, <1>2, <1>4

-----------------------------------------------------------------------------
(* A new binding, wired to a line of its own.                               *)

\* What the registration of number s on line m does to the controller.
Wires(s, m) ==
  /\ m \in Lines /\ \A r \in Srpns : r # s => hw.route[r] # m
  /\ hw'.route = [hw.route EXCEPT ![s] = m]
  /\ m \in Clint => Riscv
  /\ IF m \in Clint \/ port = "clic" THEN hw'.back = hw.back ELSE hw'.back = [hw.back EXCEPT ![m] = s]
  /\ hw'.next \in Int /\ hw.next <= hw'.next /\ hw'.busy = hw.busy
  /\ <<s, m>> \in Wiring \/ ((Plic \/ port = "src") /\ m \in First .. Last /\ m < hw'.next)
  /\ hw'.en \subseteq hw.en /\ hw.en \ {m} \subseteq hw'.en
  /\ port = "nvic" /\ hw.route[s] # Nil => hw.route[s] = m

LEMMA LineOfWiring ==
  ASSUME NEW s, NEW l, <<s, l>> \in Wiring
  PROVE  s \in Srpns /\ l \in Fixed \cup Clint
BY IrqAssumption

LEMMA RegisterWires ==
  ASSUME WiredOnce, TypeOK, Routes, NEW s \in Srpns, NEW l, l # Nil, <<s, l>> \in Wiring, l \in Clint => Riscv,
         hw' = Register(hw, s, l)
  PROVE  Wires(s, l)
<1>1. l \in Fixed \cup Clint /\ l \in Lines
  BY LineOfWiring, LinesOf
<1>2. Port /\ hw \in Controllers
  BY TypesOf
<1>3. /\ hw'.en = hw.en /\ hw'.next = hw.next /\ hw'.busy = hw.busy
      /\ hw'.route = [hw.route EXCEPT ![s] = l]
      /\ hw'.back = IF l \in Clint \/ port = "clic" THEN hw.back ELSE [hw.back EXCEPT ![l] = s]
  BY <1>1, <1>2, RegisterDoes
<1>4. ASSUME NEW r \in Srpns, hw.route[r] = l
      PROVE  r = s
  <2>1. <<r, l>> \in Wiring \/ l \in First .. Last
    BY <1>4 DEF Routes, RouteFits
  <2>2. l \notin First .. Last
    BY <1>1 DEF WiredOnce
  <2>3. <<r, l>>[2] = <<s, l>>[2] /\ <<r, l>> \in Wiring
    BY <2>1, <2>2
  <2>4. <<r, l>> = <<s, l>>
    BY <2>3 DEF WiredOnce
  <2> QED
    BY <2>4
<1>5. ASSUME port = "nvic", hw.route[s] # Nil
      PROVE  hw.route[s] = l
  <2>1. "nvic" \in Ports /\ ~Riscv
    BY <1>5 DEF TypeOK, Riscv, Plic
  <2>2. hw.route[s] \notin Clint /\ l \notin Clint /\ <<s, hw.route[s]>> \in Wiring
    BY <1>5, <2>1 DEF Routes, RouteFits, Plic
  <2>3. PICK p \in Wiring : p = <<s, hw.route[s]>>
    BY <2>2
  <2>4. PICK q \in Wiring : q = <<s, l>>
    OBVIOUS
  <2>5. p[1] = q[1] /\ p[2] \notin Clint /\ q[2] \notin Clint
    BY <2>2, <2>3, <2>4
  <2>6. p = q
    BY <2>1, <2>5 DEF WiredOnce
  <2> QED
    BY <2>3, <2>4, <2>6
<1>6. hw.next \in Int
  BY <1>2, IrqAssumption DEF Controllers
<1> QED
  BY <1>1, <1>3, <1>4, <1>5, <1>6 DEF Wires

LEMMA ConfigureWires ==
  ASSUME WiredOnce, TypeOK, Routes, NEW s \in Srpns, hw.next <= Last, hw' = Configure(hw, s),
         NEW m, m = hw.next
  PROVE  hw' = hw \/ Wires(s, m)
<1>1. Port /\ hw \in Controllers /\ hw.next \in Int
  BY TypesOf, IrqAssumption DEF Controllers
<1>2. /\ hw'.en \subseteq hw.en /\ hw.en \ {hw.next} \subseteq hw'.en /\ hw'.busy = hw.busy
      /\ IF Plic \/ port = "src"
         THEN /\ hw'.route = [hw.route EXCEPT ![s] = hw.next]
              /\ hw'.back = [hw.back EXCEPT ![hw.next] = s]
              /\ hw'.next = hw.next + 1 /\ hw.next \in First .. Last
         ELSE hw' = hw
  BY <1>1, ConfigureDoes
<1>3. CASE ~(Plic \/ port = "src")
  BY <1>2, <1>3
<1>4. CASE Plic \/ port = "src"
  <2>1. hw.next \in First .. Last /\ hw.next \in Lines /\ hw.next \notin Fixed \cup Clint
    BY <1>2, <1>4, LinesOf DEF WiredOnce
  <2>2. ASSUME NEW r \in Srpns, hw.route[r] = hw.next
        PROVE  FALSE
    <3>1. hw.route[r] # Nil
      BY <2>1, <2>2, LinesOf
    <3>2. <<r, hw.next>> \in Wiring \/ hw.next < hw.next
      BY <2>2, <3>1 DEF Routes, RouteFits
    <3>3. <<r, hw.next>> \in Wiring
      BY <1>1, <3>2
    <3> QED
      BY <2>1, <3>3, LineOfWiring
  <2>3. hw'.next \in Int /\ hw.next <= hw'.next /\ hw.next < hw'.next
    BY <1>1, <1>2, <1>4
  <2>4. hw'.back = [hw.back EXCEPT ![hw.next] = s] /\ hw'.route = [hw.route EXCEPT ![s] = hw.next]
    BY <1>2, <1>4
  <2>5. port # "nvic" /\ port # "clic"
    BY <1>4 DEF Plic
  <2> QED
    BY <1>2, <1>4, <2>1, <2>2, <2>3, <2>4, <2>5 DEF Wires
<1> QED
  BY <1>3, <1>4

LEMMA WiredRoutes ==
  ASSUME TypeOK, Routes, NEW s \in Srpns, NEW m, Wires(s, m), port' = port
  PROVE  Routes'
<1>1. hw.route \in [Srpns -> Lines \cup {Nil}] /\ hw.back \in [Lines -> Srpns \cup {0}] /\ hw.next \in Int
  BY IrqAssumption DEF TypeOK
<1>2. m \in Lines /\ m # Nil
  BY LinesOf DEF Wires
<1>3. hw'.route[s] = m /\ \A r \in Srpns : r # s => hw'.route[r] = hw.route[r] /\ hw.route[r] # m
  BY <1>1 DEF Wires
<1>4. RouteOnce'
  BY <1>2, <1>3 DEF Routes, RouteOnce
<1>5. RouteFits(s)'
  <2>1. port # "clic" /\ m \notin Clint => hw'.back[m] = s
    BY <1>1, <1>2 DEF Wires
  <2>2. m \in Clint => Riscv'
    BY DEF Wires, Riscv, Plic
  <2> QED
    BY <1>3, <2>1, <2>2 DEF RouteFits, Wires, Plic
<1>6. ASSUME NEW r \in Srpns, r # s
      PROVE  RouteFits(r)'
  <2> SUFFICES ASSUME hw.route[r] # Nil
               PROVE  RouteFits(r)'
    BY <1>3, <1>6 DEF RouteFits
  <2>1. hw'.route[r] = hw.route[r] /\ hw.route[r] # m /\ hw.route[r] \in Lines
    BY <1>1, <1>3, <1>6
  <2>2. hw'.back[hw.route[r]] = hw.back[hw.route[r]]
    BY <1>1, <2>1 DEF Wires
  <2>3. RouteFits(r)
    BY DEF Routes
  <2>4. hw.route[r] \in First .. Last /\ hw.route[r] < hw.next => hw.route[r] < hw'.next
    <3>1. hw'.next \in Int /\ hw.next <= hw'.next
      BY DEF Wires
    <3> QED
      BY <1>1, <3>1, IrqAssumption
  <2> QED
    BY <2>1, <2>2, <2>3, <2>4 DEF RouteFits, Riscv, Plic
<1> QED
  BY <1>4, <1>5, <1>6 DEF Routes

LEMMA AddOthers ==
  ASSUME TypeOK, NEW s \in Srpns, NEW n \in Notifs, NEW t \in Threads \cup {Nil},
         NEW l \in Fixed \cup Clint \cup {Nil}, Add(s, n, t, l), owed' = owed, isr' = isr, SrpnFits(s)
  PROVE  OthersKept(s) /\ SrpnFits(s)'
<1>1. PICK k \in Slots : /\ k \notin InUse /\ InUse' = InUse \cup {k}
                         /\ \A i \in InUse : table'[i] = table[i] /\ table[i].srpn # s
                         /\ table'[k] = Entry(s, n, t)
  BY AddedSlots
<1>2. table'[k].srpn = s /\ ~table'[k].enabled
  BY <1>1, EntryFields
<1>3. OthersKept(s)
  BY <1>1, <1>2 DEF OthersKept
<1>4. k \in BySrpn(s)'
  BY <1>1, <1>2 DEF BySrpn
<1>5. Masked(s)'
  BY <1>4 DEF Masked
<1>6. owed[s] = Nil
  BY <1>1 DEF SrpnFits, OwedFits
<1>7. OwedFits(s)'
  BY <1>6 DEF OwedFits
<1>8. OpenFor(s)'
  BY <1>1, <1>2 DEF OpenFor
<1> QED
  BY <1>3, <1>5, <1>7, <1>8 DEF SrpnFits

LEMMA AddStep ==
  ASSUME WiredOnce, TypeOK, TypeOK', Routes, EnRouted, \A r \in Srpns : SrpnFits(r),
         NEW s \in Srpns, NEW n \in Notifs, NEW t \in Threads \cup {Nil},
         NEW l \in Fixed \cup Clint \cup {Nil}, Add(s, n, t, l), owed' = owed, isr' = isr, port' = port
  PROVE  Routes' /\ EnRouted' /\ (\A r \in Srpns : SrpnFits(r)') /\ hw'.busy = hw.busy
<1>1. OthersKept(s) /\ SrpnFits(s)'
  BY AddOthers
<1>2. hw' = hw \/ \E m \in Lines : Wires(s, m)
  <2>1. CASE l # Nil /\ <<s, l>> \in Wiring /\ (l \in Clint => Riscv) /\ hw' = Register(hw, s, l)
    <3>1. Wires(s, l)
      BY <2>1, RegisterWires
    <3> QED
      BY <3>1 DEF Wires
  <2>2. CASE hw.next <= Last /\ hw' = Configure(hw, s)
    <3>1. PICK m : m = hw.next
      OBVIOUS
    <3>2. hw' = hw \/ Wires(s, m)
      BY <2>2, <3>1, ConfigureWires
    <3>3. Wires(s, m) => m \in Lines
      BY DEF Wires
    <3> QED
      BY <3>2, <3>3
  <2> QED
    BY <2>1, <2>2 DEF Add, LinesLeft
<1>3. hw'.busy = hw.busy
  BY <1>2 DEF Wires
<1>4. CASE hw' = hw
  <2>1. Touches(s)
    BY <1>4 DEF Touches, SameWires
  <2> QED
    BY <1>1, <1>3, <2>1, TouchStep
<1>5. ASSUME NEW m \in Lines, Wires(s, m)
      PROVE  Routes' /\ EnRouted' /\ \A r \in Srpns : SrpnFits(r)'
  <2>1. Routes'
    BY <1>5, WiredRoutes
  <2>2. hw'.route[s] = m /\ \A r \in Srpns : r # s => hw'.route[r] = hw.route[r] /\ hw.route[r] # m
    BY <1>5 DEF Wires, TypeOK
  <2>3. BySrpn(s) = {}
    BY DEF Add
  <2>4. EnRouted'
    <3> SUFFICES ASSUME NEW e \in hw'.en \ {Timer}
                 PROVE  \E r \in Srpns : hw'.route[r] = e
      BY DEF EnRouted
    <3>1. e \in hw.en
      BY <1>5 DEF Wires
    <3>2. PICK r \in Srpns : hw.route[r] = e
      BY <3>1 DEF EnRouted
    <3>3. CASE r # s
      BY <2>2, <3>2, <3>3
    <3>4. CASE r = s
      <4>1. port = "nvic"
        BY <2>3, <3>1, <3>2, <3>4 DEF SrpnFits, Masked
      <4>2. e # Nil
        <5>1. e \in Lines
          BY <3>1 DEF TypeOK
        <5> QED
          BY <5>1, LinesOf
      <4>3. hw.route[s] = m
        BY <1>5, <3>2, <3>4, <4>1, <4>2 DEF Wires
      <4> QED
        BY <2>2, <3>2, <3>4, <4>3
    <3> QED
      BY <3>3, <3>4
  <2>5. Nil \notin hw'.en
    <3>1. hw'.en \subseteq Lines
      BY DEF TypeOK
    <3> QED
      BY <3>1, LinesOf
  <2>6. ASSUME NEW r \in Srpns, r # s
        PROVE  SrpnFits(r)'
    <3>1. hw'.route[r] = hw.route[r] /\ hw.route[r] # m
      BY <2>2, <2>6
    <3>2. hw.route[r] \in hw'.en <=> hw.route[r] \in hw.en
      BY <1>5, <3>1 DEF Wires
    <3> QED
      BY <1>1, <2>5, <2>6, <3>1, <3>2, OtherFits
  <2> QED
    BY <1>1, <2>1, <2>4, <2>6
<1> QED
  BY <1>2, <1>3, <1>4, <1>5

-----------------------------------------------------------------------------
(* The other system calls, on one CPU: no interrupt is being handled.       *)

LEMMA MaskTouches ==
  ASSUME TypeOK, NEW s \in Srpns, hw' = MaskedAndAcked(s), port' = port
  PROVE  /\ Touches(s) /\ hw'.busy \subseteq hw.busy
         /\ port = "plic_qemu" /\ hw.route[s] \notin Clint => hw.route[s] \notin hw'.busy
         /\ port # "nvic" => hw.route[s] \notin hw'.en
<1>1. Port /\ hw \in Controllers
  BY TypesOf
<1>2. PICK g : g = MaskedAndAcked(s)
  OBVIOUS
<1>3. /\ ~Rewires(g, hw)
      /\ g.busy = IF port = "plic_qemu" /\ hw.route[s] \notin Clint THEN hw.busy \ {hw.route[s]} ELSE hw.busy
      /\ g.en = IF port = "nvic" /\ hw.route[s] \notin Clint \cup {Nil}
                THEN (hw.en \ {hw.route[s]}) \cup {hw.route[s]} ELSE hw.en \ {hw.route[s]}
  BY <1>1, <1>2, MaskedAndAckedDoes
<1>4. hw' = g
  BY <1>2
<1>5. SameWires
  BY <1>3, <1>4 DEF SameWires, Rewires
<1> QED
  BY <1>3, <1>4, <1>5 DEF Touches

LEMMA DetachLines ==
  ASSUME TypeOK, SrpnOnce, NEW s \in Srpns, NEW k \in BySrpn(s), Removed(k),
         hw' = MaskedAndAcked(s), port' = port, owed' = [owed EXCEPT ![s] = Nil],
         \A c \in Cpus, r \in Srpns :
           r # s /\ isr[c] # Nil /\ r \in isr[c].todo => isr'[c] # Nil /\ r \in isr'[c].todo
  PROVE  Touches(s) /\ OthersKept(s) /\ SrpnFits(s)'
<1>1. k \in InUse /\ table[k].srpn = s
  BY DEF BySrpn
<1>2. InUse' = InUse \ {k} /\ \A i \in InUse : i # k => table'[i] = table[i]
  BY <1>1, RemovedSlots
<1>3. \A i \in InUse : table[i].srpn = s => i = k
  BY <1>1 DEF SrpnOnce
<1>4. owed'[s] = Nil /\ \A r \in Srpns : r # s => owed'[r] = owed[r]
  BY DEF TypeOK
<1>5. OthersKept(s)
  BY <1>1, <1>2, <1>3, <1>4 DEF OthersKept
<1>6. Touches(s) /\ (port # "nvic" => hw.route[s] \notin hw'.en)
  BY MaskTouches
<1>7. \A i \in InUse' : table'[i].srpn # s
  BY <1>2, <1>3
<1>8. Masked(s)'
  BY <1>6 DEF Masked, Touches, SameWires
<1>9. OwedFits(s)' /\ OpenFor(s)'
  BY <1>4, <1>7 DEF OwedFits, OpenFor
<1> QED
  BY <1>5, <1>6, <1>8, <1>9 DEF SrpnFits

LEMMA EnabledOthers ==
  ASSUME TypeOK, NEW s \in Srpns, NEW on \in BOOLEAN, Enabled(s, on), owed' = [owed EXCEPT ![s] = Nil], isr' = isr
  PROVE  /\ OthersKept(s) /\ owed'[s] = Nil /\ BySrpn(s)' # {}
         /\ \A i \in InUse' : table'[i].srpn = s => table'[i].enabled = on
<1>1. /\ InUse' = InUse /\ \A i \in InUse : table'[i].srpn = table[i].srpn
      /\ \A i \in InUse : table'[i].enabled = IF table[i].srpn = s THEN on ELSE table[i].enabled
  BY EnabledSlots DEF SameButEnabled
<1>2. \A i \in InUse : table[i].srpn # s => table'[i] = table[i]
  <2>1. \A i \in Slots : table'[i] = IF i \in BySrpn(s) THEN [table[i] EXCEPT !.enabled = on] ELSE table[i]
    BY EnabledDoes
  <2> QED
    BY <2>1 DEF BySrpn, InUse
<1>3. owed'[s] = Nil /\ \A r \in Srpns : r # s => owed'[r] = owed[r]
  BY DEF TypeOK
<1>4. OthersKept(s)
  BY <1>1, <1>2, <1>3 DEF OthersKept
<1>5. BySrpn(s)' # {}
  BY <1>1 DEF Enabled, BySrpn
<1> QED
  BY <1>1, <1>3, <1>4, <1>5

LEMMA EnableLines ==
  ASSUME TypeOK, NEW s \in Srpns, NEW c \in Cpus, NEW t \in Threads, Enable(c, t, s)
  PROVE  Touches(s) /\ OthersKept(s) /\ SrpnFits(s)' /\ hw'.busy \subseteq hw.busy
<1>1. Enabled(s, TRUE) /\ TRUE \in BOOLEAN /\ owed' = [owed EXCEPT ![s] = Nil] /\ isr' = isr /\ port' = port
  BY DEF Enable
<1>2. OthersKept(s) /\ owed'[s] = Nil /\ BySrpn(s)' # {}
  BY <1>1, EnabledOthers
<1>3. PICK g : g = SrcEnable(hw, s)
  OBVIOUS
<1>4. ~Rewires(g, hw) /\ g.busy = hw.busy /\ g.en = hw.en \cup ({hw.route[s]} \ {Nil})
  BY <1>3, TypesOf, EnableDoes
<1>5. hw' = g
  BY <1>3 DEF Enable
<1>6. SameWires
  BY <1>1, <1>4, <1>5 DEF SameWires, Rewires
<1>7. Touches(s)
  BY <1>4, <1>5, <1>6 DEF Touches
<1>8. OpenFor(s)'
  BY <1>4, <1>5, <1>6 DEF OpenFor, SameWires
<1> QED
  BY <1>2, <1>4, <1>5, <1>7, <1>8 DEF SrpnFits, Masked, OwedFits

LEMMA DisableLines ==
  ASSUME TypeOK, NEW s \in Srpns, NEW c \in Cpus, NEW t \in Threads, Disable(c, t, s)
  PROVE  Touches(s) /\ OthersKept(s) /\ SrpnFits(s)' /\ hw'.busy \subseteq hw.busy
<1>1. /\ Enabled(s, FALSE) /\ FALSE \in BOOLEAN /\ owed' = [owed EXCEPT ![s] = Nil] /\ isr' = isr /\ port' = port
      /\ hw' = MaskedAndAcked(s)
  BY DEF Disable
<1>2. /\ OthersKept(s) /\ owed'[s] = Nil /\ BySrpn(s)' # {}
      /\ \A i \in InUse' : table'[i].srpn = s => table'[i].enabled = FALSE
  BY <1>1, EnabledOthers
<1>3. Touches(s) /\ hw'.busy \subseteq hw.busy
  BY <1>1, MaskTouches
<1> QED
  BY <1>2, <1>3 DEF SrpnFits, Masked, OwedFits, OpenFor

LEMMA AckLines ==
  ASSUME TypeOK, SrpnOnce, NEW s \in Srpns, SrpnFits(s), NEW c \in Cpus, NEW t \in Threads, Ack(c, t, s),
         \A d \in Cpus : isr[d] = Nil
  PROVE  Touches(s) /\ OthersKept(s) /\ SrpnFits(s)' /\ hw'.busy \subseteq hw.busy
<1>1. owed' = [owed EXCEPT ![s] = Nil] /\ isr' = isr /\ port' = port /\ table' = table /\ InUse' = InUse
  BY DEF Ack, InUse
<1>2. owed'[s] = Nil /\ \A r \in Srpns : r # s => owed'[r] = owed[r]
  BY <1>1 DEF TypeOK
<1>3. OthersKept(s)
  BY <1>1, <1>2 DEF OthersKept
<1>4. PICK k : k = SrcAck(hw, s)
  OBVIOUS
<1>5. /\ k \in Controllers /\ ~Rewires(k, hw) /\ k.busy \subseteq hw.busy
      /\ hw.en \subseteq k.en /\ k.en \subseteq hw.en \cup ({hw.route[s]} \ {Nil})
  <2>1. Port /\ hw \in Controllers
    BY TypesOf
  <2>2. /\ k \in Controllers /\ ~Rewires(k, hw)
        /\ k.busy = IF Completes(hw, hw.route[s]) THEN hw.busy \ {hw.route[s]} ELSE hw.busy
        /\ k.en = IF port = "nvic" /\ hw.route[s] \notin Clint \cup {Nil} THEN hw.en \cup {hw.route[s]} ELSE hw.en
    BY <1>4, <2>1, AckDoes
  <2> QED
    BY <2>2
<1>6. PICK g : g = SrcEnable(k, s)
  OBVIOUS
<1>7. ~Rewires(g, hw) /\ g.busy = k.busy /\ g.en = k.en \cup ({hw.route[s]} \ {Nil})
  <2>1. ~Rewires(g, k) /\ g.busy = k.busy /\ g.en = k.en \cup ({k.route[s]} \ {Nil})
    BY <1>5, <1>6, EnableDoes
  <2> QED
    BY <1>5, <2>1 DEF Rewires
<1>8. PICK i \in BySrpn(s) : hw' = IF table[i].enabled /\ ~table[i].attach THEN g ELSE k
  BY <1>4, <1>6 DEF Ack
<1>9. hw' = g \/ hw' = k
  BY <1>8
<1>10. SameWires
  BY <1>1, <1>5, <1>7, <1>9 DEF SameWires, Rewires
<1>11. Touches(s) /\ hw'.busy \subseteq hw.busy /\ hw.en \subseteq hw'.en
  BY <1>5, <1>7, <1>9, <1>10 DEF Touches
<1>12. i \in InUse /\ table[i].srpn = s /\ \A j \in InUse : table[j].srpn = s => j = i
  BY DEF BySrpn, SrpnOnce
<1>13. Masked(s)' /\ OwedFits(s)'
  BY <1>1, <1>2, <1>12 DEF Masked, OwedFits, BySrpn
<1>14. OpenFor(s)'
  <2> SUFFICES ASSUME table[i].enabled, hw.route[s] # Nil
               PROVE  hw.route[s] \in hw'.en
    BY <1>1, <1>10, <1>12 DEF OpenFor, SameWires
  <2>1. CASE ~table[i].attach
    BY <1>7, <1>8, <2>1
  <2>2. CASE table[i].attach
    <3>1. owed[s] = Nil
      BY <1>12, <2>2 DEF SrpnFits, OwedFits
    <3>2. hw.route[s] \in hw.en
      BY <1>12, <3>1 DEF SrpnFits, OpenFor
    <3> QED
      BY <1>11, <3>2
  <2> QED
    BY <2>1, <2>2
<1> QED
  BY <1>3, <1>11, <1>13, <1>14 DEF SrpnFits

-----------------------------------------------------------------------------
(* Interrupt handlers.                                                      *)

LEMMA StillLines ==
  ASSUME Routes, EnRouted, \A s \in Srpns : SrpnFits(s),
         SameWires, hw'.en = hw.en, table' = table, owed' = owed,
         \A c \in Cpus, r \in Srpns : isr[c] # Nil /\ r \in isr[c].todo => isr'[c] # Nil /\ r \in isr'[c].todo
  PROVE  Routes' /\ EnRouted' /\ \A s \in Srpns : SrpnFits(s)'
<1>1. Routes'
  BY RoutesKept
<1>2. EnRouted'
  BY DEF EnRouted, SameWires
<1>3. ASSUME NEW s \in Srpns
      PROVE  SrpnFits(s)'
  <2>1. SrpnFits(s) /\ InUse' = InUse /\ BySrpn(s)' = BySrpn(s)
    BY DEF InUse, BySrpn
  <2>2. hw'.route = hw.route /\ port' = port
    BY DEF SameWires
  <2>3. Masked(s)'
    BY <2>1, <2>2 DEF SrpnFits, Masked
  <2>4. OwedFits(s)'
    BY <2>1, <2>2 DEF SrpnFits, OwedFits
  <2>5. OpenFor(s)'
    <3>1. OpenFor(s)
      BY <2>1 DEF SrpnFits
    <3>2. \A c \in Cpus : isr[c] # Nil /\ s \in isr[c].todo => isr'[c] # Nil /\ s \in isr'[c].todo
      OBVIOUS
    <3> QED
      BY <2>1, <2>2, <3>1, <3>2 DEF OpenFor
  <2> QED
    BY <2>3, <2>4, <2>5 DEF SrpnFits
<1> QED
  BY <1>1, <1>2, <1>3

\* A handler goes on, or the controller changes under handlers that stay.
LEMMA HandlersStay ==
  ASSUME SameWires, hw'.busy \subseteq hw.busy, TodoRouted, BusyHandled,
         \A c \in Cpus : isr'[c] # Nil <=> isr[c] # Nil,
         \A c \in Cpus : isr[c] # Nil => isr'[c].line = isr[c].line /\ isr'[c].todo \subseteq isr[c].todo
  PROVE  TodoRouted' /\ BusyHandled'
BY DEF SameWires, TodoRouted, BusyHandled, HandledNow, Plic

LEMMA DoneLines ==
  ASSUME TypeOK, NEW c \in Cpus, isr[c] # Nil, NEW s \in Srpns, Done(c, s),
         SameWires, hw'.busy \subseteq hw.busy, TodoRouted, BusyHandled
  PROVE  /\ TodoRouted' /\ BusyHandled'
         /\ \A d \in Cpus, r \in Srpns :
              r # s /\ isr[d] # Nil /\ r \in isr[d].todo => isr'[d] # Nil /\ r \in isr'[d].todo
<1>1. /\ isr'[c] # Nil /\ isr'[c].line = isr[c].line /\ isr'[c].todo = isr[c].todo \ {s}
      /\ \A d \in Cpus : d # c => isr'[d] = isr[d]
  BY DoneDoes
<1>2. \A d \in Cpus : isr'[d] # Nil <=> isr[d] # Nil
  BY <1>1
<1>3. \A d \in Cpus : isr[d] # Nil => isr'[d].line = isr[d].line /\ isr'[d].todo \subseteq isr[d].todo
  BY <1>1
<1>4. TodoRouted' /\ BusyHandled'
  BY <1>2, <1>3, HandlersStay
<1> QED
  BY <1>1, <1>4

LEMMA TargetsRouted ==
  ASSUME TypeOK, Routes, NEW l \in Lines, l # Timer, NEW s \in Srpns, hw.route[s] = l
  PROVE  /\ \A r \in Targets(hw, l) : hw.route[r] = l
         /\ port # "clic" /\ l # Soft => hw.back[l] = s /\ s \in Targets(hw, l)
<1>1. Port
  BY TypesOf
<1>2. l # Nil
  BY LinesOf
<1>3. port # "clic" /\ l # Soft => hw.back[l] = s
  BY <1>2 DEF Routes, RouteFits, Clint
<1>4. s # 0
  BY LinesOf
<1>5. CASE l = Soft
  BY <1>1, <1>5, TargetsAre DEF ClintTargets
<1>6. CASE l # Soft /\ port = "clic"
  BY <1>1, <1>6, TargetsAre DEF ClicTargets
<1>7. CASE l # Soft /\ port # "clic"
  <2>1. PlicTargets(hw, l) = {s}
    BY <1>3, <1>4, <1>7 DEF PlicTargets
  <2>2. Targets(hw, l) = Srpns \cap {s}
    BY <1>1, <1>3, <1>7, <2>1, TargetsAre
  <2> QED
    BY <1>3, <1>7, <2>2
<1> QED
  BY <1>5, <1>6, <1>7

LEMMA TakeLines ==
  ASSUME TypeOK, TypeOK', LineInv, NEW c \in Cpus, NEW l \in Lines,
         NEW t \in Threads \cup {Nil}, TakeInterrupt(c, t, l)
  PROVE  LineInv'
<1>1. Routes /\ EnRouted /\ TodoRouted /\ BusyHandled /\ \A s \in Srpns : SrpnFits(s)
  BY DEF LineInv
<1>2. PICK s \in Srpns : hw.route[s] = l
  BY <1>1 DEF TakeInterrupt, Takes, EnRouted
<1>3. /\ \A r \in Targets(hw, l) : hw.route[r] = l
      /\ port # "clic" /\ l # Soft => hw.back[l] = s /\ s \in Targets(hw, l)
  BY <1>1, <1>2, TargetsRouted DEF TakeInterrupt
<1>4. PICK g : g = Entered(hw, l)
  OBVIOUS
<1>5. /\ ~Rewires(g, hw)
      /\ g.busy = IF Plic /\ l # Soft THEN hw.busy \cup {l} ELSE hw.busy
      /\ g.en = IF port = "nvic" /\ l # Soft /\ hw.back[l] # 0 THEN hw.en \ {hw.route[hw.back[l]]} ELSE hw.en
  BY <1>4, TypesOf, EnteredDoes
<1>6. hw' = g /\ port' = port /\ table' = table /\ owed' = owed /\ isr[c] = Nil
  BY <1>4 DEF TakeInterrupt
<1>7. SameWires
  BY <1>5, <1>6 DEF SameWires, Rewires
<1>8. s # 0
  BY LinesOf
<1>9. hw'.en = hw.en \/ (port = "nvic" /\ l # Soft /\ hw'.en = hw.en \ {l})
  BY <1>2, <1>3, <1>5, <1>6, <1>8
<1>10. Touches(s)
  BY <1>2, <1>7, <1>9 DEF Touches
<1>11. PICK k : k = [line |-> l, todo |-> Targets(hw, l), slot |-> 0, cur |-> t]
  OBVIOUS
<1>12. k.line = l /\ k.todo = Targets(hw, l)
  BY <1>11
<1>13. isr'[c] = k /\ \A d \in Cpus : d # c => isr'[d] = isr[d]
  BY <1>11 DEF TakeInterrupt, TypeOK
<1>14. k # Nil
  <2>1. k \in Handlers
    BY <1>11 DEF Handlers, Targets
  <2> QED
    BY <2>1, NilAssumption
<1>15. \A d \in Cpus, r \in Srpns : isr[d] # Nil /\ r \in isr[d].todo => isr'[d] # Nil /\ r \in isr'[d].todo
  BY <1>6, <1>13
<1>16. InUse' = InUse /\ BySrpn(s)' = BySrpn(s)
  BY <1>6 DEF InUse, BySrpn
<1>17. OthersKept(s)
  BY <1>6, <1>15, <1>16 DEF OthersKept
<1>18. SrpnFits(s)'
  <2>1. SrpnFits(s) /\ hw'.route = hw.route
    BY <1>1, <1>7 DEF SameWires
  <2>2. Masked(s)'
    BY <1>6, <1>9, <1>16, <2>1 DEF SrpnFits, Masked
  <2>3. OwedFits(s)'
    BY <1>6, <1>9, <1>16, <2>1 DEF SrpnFits, OwedFits
  <2>4. OpenFor(s)'
    <3>1. CASE hw'.en = hw.en
      <4>1. OpenFor(s)
        BY <2>1 DEF SrpnFits
      <4>2. \A d \in Cpus : isr[d] # Nil /\ s \in isr[d].todo => isr'[d] # Nil /\ s \in isr'[d].todo
        BY <1>15
      <4> QED
        BY <1>6, <1>16, <2>1, <3>1, <4>1, <4>2 DEF OpenFor
    <3>2. CASE port = "nvic" /\ l # Soft
      <4>1. isr'[c] # Nil /\ s \in isr'[c].todo /\ port' = "nvic"
        BY <1>3, <1>6, <1>12, <1>13, <1>14, <3>2
      <4> QED
        BY <4>1 DEF OpenFor
    <3> QED
      BY <1>9, <3>1, <3>2
  <2> QED
    BY <2>2, <2>3, <2>4 DEF SrpnFits
<1>19. Routes' /\ EnRouted' /\ \A r \in Srpns : SrpnFits(r)'
  BY <1>1, <1>10, <1>17, <1>18, TouchStep
<1>20. TodoRouted'
  <2>1. ASSUME NEW d \in Cpus, isr'[d] # Nil, NEW r \in isr'[d].todo
        PROVE  hw'.route[r] = isr'[d].line
    <3>1. CASE d = c
      BY <1>3, <1>7, <1>12, <1>13, <2>1, <3>1 DEF SameWires
    <3>2. CASE d # c
      BY <1>1, <1>7, <1>13, <2>1, <3>2 DEF SameWires, TodoRouted
    <3> QED
      BY <3>1, <3>2
  <2> QED
    BY <2>1 DEF TodoRouted
<1>21. BusyHandled'
  <2>0. Plic' <=> Plic
    BY <1>6 DEF Plic
  <2>1. ASSUME NEW e \in hw'.busy
        PROVE  Plic /\ e \notin Clint /\ (port = "plic_qemu" => \E d \in Cpus : isr'[d] # Nil /\ isr'[d].line = e)
    <3>1. CASE e \in hw.busy
      <4>1. Plic /\ e \notin Clint
        BY <1>1, <3>1 DEF BusyHandled
      <4>2. ASSUME port = "plic_qemu"
            PROVE  \E d \in Cpus : isr'[d] # Nil /\ isr'[d].line = e
        <5>1. PICK d \in Cpus : isr[d] # Nil /\ isr[d].line = e
          BY <1>1, <3>1, <4>2 DEF BusyHandled, HandledNow
        <5> QED
          BY <1>6, <1>13, <5>1
      <4> QED
        BY <4>1, <4>2
    <3>2. CASE e \notin hw.busy
      <4>1. Plic /\ l # Soft /\ e = l
        BY <1>5, <1>6, <2>1, <3>2
      <4>2. e \notin Clint
        BY <4>1 DEF Clint, TakeInterrupt
      <4> QED
        BY <1>12, <1>13, <1>14, <4>1, <4>2
    <3> QED
      BY <3>1, <3>2
  <2> QED
    BY <1>6, <2>0, <2>1 DEF BusyHandled, HandledNow
<1> QED
  BY <1>19, <1>20, <1>21 DEF LineInv

LEMMA DispatchNoneLines ==
  ASSUME TypeOK, TypeOK', LineInv, NEW c \in Cpus, NEW s \in Srpns, DispatchNone(c, s)
  PROVE  LineInv'
<1>1. Routes /\ EnRouted /\ TodoRouted /\ BusyHandled /\ \A r \in Srpns : SrpnFits(r)
  BY DEF LineInv
<1>2. /\ isr[c] # Nil /\ Done(c, s) /\ port' = port /\ table' = table /\ owed' = owed
      /\ \A i \in InUse : table[i].srpn = s => ~table[i].enabled
  BY DEF DispatchNone, Serving, BySrpn
<1>3. SameWires /\ hw'.en = hw.en /\ hw'.busy = hw.busy
  <2>1. PICK g : g = Served(hw, s)
    OBVIOUS
  <2>2. ~Rewires(g, hw) /\ g.busy = hw.busy /\ g.en = hw.en
    BY <2>1, TypesOf, ServedDoes
  <2>3. hw' = g
    BY <2>1 DEF DispatchNone
  <2> QED
    BY <1>2, <2>2, <2>3 DEF SameWires, Rewires
<1>4. /\ TodoRouted' /\ BusyHandled'
      /\ \A d \in Cpus, r \in Srpns :
           r # s /\ isr[d] # Nil /\ r \in isr[d].todo => isr'[d] # Nil /\ r \in isr'[d].todo
  BY <1>1, <1>2, <1>3, DoneLines
<1>5. InUse' = InUse /\ BySrpn(s)' = BySrpn(s)
  BY <1>2 DEF InUse, BySrpn
<1>6. OthersKept(s)
  BY <1>2, <1>4, <1>5 DEF OthersKept
<1>7. Touches(s)
  BY <1>3 DEF Touches
<1>8. SrpnFits(s)'
  <2>1. SrpnFits(s) /\ hw'.route = hw.route
    BY <1>1, <1>3 DEF SameWires
  <2>2. Masked(s)' /\ OwedFits(s)'
    BY <1>2, <1>3, <1>5, <2>1 DEF SrpnFits, Masked, OwedFits
  <2>3. OpenFor(s)'
    BY <1>2, <1>5 DEF OpenFor
  <2> QED
    BY <2>2, <2>3 DEF SrpnFits
<1> QED
  BY <1>1, <1>4, <1>6, <1>7, <1>8, TouchStep DEF LineInv

LEMMA DispatchThreadedLines ==
  ASSUME OneCpu, TableInv, TypeOK', LineInv, NEW c \in Cpus, NEW s \in Srpns, DispatchThreaded(c, s)
  PROVE  LineInv'
<1>0. TypeOK
  BY DEF TableInv
<1>1. Routes /\ EnRouted /\ TodoRouted /\ BusyHandled /\ \A r \in Srpns : SrpnFits(r)
  BY DEF LineInv
<1>2. /\ isr[c] # Nil /\ Done(c, s) /\ port' = port /\ table' = table
      /\ owed' = [owed EXCEPT ![s] = isr[c].line]
      /\ \E i \in InUse : table[i].srpn = s /\ ~table[i].attach
  BY DEF DispatchThreaded, Serving, BySrpn
<1>3. SameWires /\ hw'.en = hw.en \ {hw.route[s]} /\ hw'.busy = hw.busy
  <2>1. PICK k : k = SrcDisable(hw, s)
    OBVIOUS
  <2>2. k \in Controllers /\ ~Rewires(k, hw) /\ k.busy = hw.busy /\ k.en = hw.en \ {hw.route[s]}
    BY <1>0, <2>1, TypesOf, DisableDoes
  <2>3. PICK g : g = Served(k, s)
    OBVIOUS
  <2>4. ~Rewires(g, k) /\ g.busy = k.busy /\ g.en = k.en
    BY <1>0, <2>2, <2>3, TypesOf, ServedDoes
  <2>5. hw' = g
    BY <2>1, <2>3 DEF DispatchThreaded
  <2> QED
    BY <1>2, <2>2, <2>4, <2>5 DEF SameWires, Rewires
<1>4. /\ TodoRouted' /\ BusyHandled'
      /\ \A d \in Cpus, r \in Srpns :
           r # s /\ isr[d] # Nil /\ r \in isr[d].todo => isr'[d] # Nil /\ r \in isr'[d].todo
  BY <1>0, <1>1, <1>2, <1>3, DoneLines
<1>5. InUse' = InUse /\ BySrpn(s)' = BySrpn(s)
  BY <1>2 DEF InUse, BySrpn
<1>6. owed'[s] = isr[c].line /\ \A r \in Srpns : r # s => owed'[r] = owed[r]
  BY <1>0, <1>2 DEF TypeOK
<1>7. OthersKept(s)
  BY <1>2, <1>4, <1>5, <1>6 DEF OthersKept
<1>8. Touches(s)
  BY <1>3 DEF Touches
<1>9. hw.route[s] = isr[c].line /\ isr[c].line # Nil
  <2>1. s \in isr[c].todo /\ isr[c] \in Handlers
    BY ServingFree DEF DispatchThreaded
  <2>2. isr[c].line \in Lines
    BY <2>1 DEF Handlers
  <2> QED
    BY <1>1, <1>2, <2>1, <2>2, LinesOf DEF TodoRouted
<1>10. SrpnFits(s)'
  <2>1. hw'.route[s] = isr[c].line /\ isr[c].line \notin hw'.en
    BY <1>3, <1>9 DEF SameWires
  <2>2. Masked(s)'
    BY <2>1 DEF Masked
  <2>3. OwedFits(s)'
    BY <1>2, <1>5, <1>6, <2>1 DEF OwedFits
  <2>4. OpenFor(s)'
    BY <1>6, <1>9 DEF OpenFor
  <2> QED
    BY <2>2, <2>3, <2>4 DEF SrpnFits
<1> QED
  BY <1>0, <1>1, <1>4, <1>7, <1>8, <1>10, TouchStep DEF LineInv

LEMMA DispatchAttachedLines ==
  ASSUME TypeOK, LineInv, NEW c \in Cpus, NEW s \in Srpns, DispatchAttached(c, s)
  PROVE  LineInv'
<1>1. Routes /\ EnRouted /\ TodoRouted /\ BusyHandled /\ \A r \in Srpns : SrpnFits(r)
  BY DEF LineInv
<1>2. isr[c] # Nil /\ port' = port /\ table' = table /\ owed' = owed /\ hw' = hw
  BY DEF DispatchAttached, Serving
<1>3. PICK i \in Slots : isr' = [isr EXCEPT ![c].slot = i]
  BY DEF DispatchAttached, BySrpn, InUse
<1>4. PICK k : k = isr[c]
  OBVIOUS
<1>5. k \in Handlers
  BY <1>2, <1>4 DEF TypeOK
<1>6. PICK m : m = [k EXCEPT !.slot = i]
  OBVIOUS
<1>7. m \in Handlers /\ m.line = k.line /\ m.todo = k.todo
  BY <1>5, <1>6 DEF Handlers
<1>8. m # Nil
  BY <1>7, NilAssumption
<1>9. isr'[c] = m /\ \A d \in Cpus : d # c => isr'[d] = isr[d]
  BY <1>3, <1>4, <1>6 DEF TypeOK
<1>10. SameWires /\ hw'.en = hw.en /\ hw'.busy \subseteq hw.busy
  BY <1>2 DEF SameWires
<1>11. \A d \in Cpus : isr'[d] # Nil <=> isr[d] # Nil
  BY <1>2, <1>8, <1>9
<1>12. \A d \in Cpus : isr[d] # Nil => isr'[d].line = isr[d].line /\ isr'[d].todo = isr[d].todo
  BY <1>4, <1>7, <1>9
<1>13. TodoRouted' /\ BusyHandled'
  BY <1>1, <1>10, <1>11, <1>12, HandlersStay
<1>14. Routes' /\ EnRouted' /\ \A r \in Srpns : SrpnFits(r)'
  BY <1>1, <1>2, <1>10, <1>11, <1>12, StillLines
<1> QED
  BY <1>13, <1>14 DEF LineInv

\* The callback's binding is open again when it is done.
LEMMA CallbackReturnLines ==
  ASSUME TableInv, TypeOK', LineInv, NEW c \in Cpus, NEW s \in Srpns, NEW notify \in BOOLEAN,
         CallbackReturn(c, s, notify)
  PROVE  LineInv'
<1>0. TypeOK /\ SrpnOnce /\ Port /\ hw \in Controllers
  BY TypesOf DEF TableInv
<1>1. Routes /\ EnRouted /\ TodoRouted /\ BusyHandled /\ \A r \in Srpns : SrpnFits(r)
  BY DEF LineInv
<1>2. isr[c] # Nil /\ Done(c, s) /\ port' = port /\ table' = table /\ owed' = owed /\ InCallback(c, s)
  BY DEF CallbackReturn, InCallback
<1>3. /\ isr[c] \in Handlers /\ s \in isr[c].todo
      /\ isr[c].slot \in InUse /\ table[isr[c].slot].attach /\ table[isr[c].slot].srpn = s
  BY <1>2, CallbackEntry
<1>4. hw.route[s] = isr[c].line /\ isr[c].line \in Lines /\ isr[c].line # Nil
  <2>1. isr[c].line \in Lines
    BY <1>3 DEF Handlers
  <2> QED
    BY <1>1, <1>2, <1>3, <2>1, LinesOf DEF TodoRouted
<1>5. /\ SameWires /\ hw'.busy \subseteq hw.busy
      /\ hw.en \subseteq hw'.en /\ hw'.en \subseteq hw.en \cup {hw.route[s]}
      /\ port = "nvic" => hw.route[s] \in hw'.en
      /\ port # "nvic" => hw'.en = hw.en
  <2>1. port = "nvic" => hw.route[s] \notin Clint
    BY <1>1, <1>4 DEF Routes, RouteFits, Riscv, Plic
  <2>2. PICK k : k = IF notify THEN SrcAck(hw, s)
                     ELSE [hw EXCEPT !.en = IF port = "nvic" THEN @ \cup {isr[c].line} ELSE @]
    OBVIOUS
  <2>3. /\ k \in Controllers /\ ~Rewires(k, hw) /\ k.busy \subseteq hw.busy
        /\ k.en = IF port = "nvic" THEN hw.en \cup {hw.route[s]} ELSE hw.en
    <3>1. CASE notify
      <4>1. k = SrcAck(hw, s)
        BY <2>2, <3>1
      <4>2. /\ k \in Controllers /\ ~Rewires(k, hw)
            /\ k.busy = IF Completes(hw, hw.route[s]) THEN hw.busy \ {hw.route[s]} ELSE hw.busy
            /\ k.en = IF port = "nvic" /\ hw.route[s] \notin Clint \cup {Nil} THEN hw.en \cup {hw.route[s]} ELSE hw.en
        BY <1>0, <4>1, AckDoes
      <4> QED
        BY <1>4, <2>1, <4>2
    <3>2. CASE ~notify
      <4>1. k = [hw EXCEPT !.en = IF port = "nvic" THEN hw.en \cup {isr[c].line} ELSE hw.en]
        BY <2>2, <3>2
      <4>2. PICK e : e = IF port = "nvic" THEN hw.en \cup {isr[c].line} ELSE hw.en
        OBVIOUS
      <4>3. e \in SUBSET Lines
        BY <1>0, <1>4, <4>2 DEF Controllers
      <4>4. k = [hw EXCEPT !.en = e]
        BY <4>1, <4>2
      <4>5. /\ k \in Controllers /\ k.busy = hw.busy /\ k.en = e
            /\ k.route = hw.route /\ k.back = hw.back /\ k.next = hw.next
        BY <1>0, <4>3, <4>4 DEF Controllers
      <4> QED
        BY <1>4, <4>2, <4>5 DEF Rewires
    <3> QED
      BY <3>1, <3>2
  <2>4. PICK g : g = Served(k, s)
    OBVIOUS
  <2>5. ~Rewires(g, k) /\ g.busy = k.busy /\ g.en = k.en
    BY <1>0, <2>3, <2>4, ServedDoes
  <2>6. hw' = g
    BY <2>2, <2>4 DEF CallbackReturn
  <2>7. SameWires
    BY <1>2, <2>3, <2>5, <2>6 DEF SameWires, Rewires
  <2> QED
    BY <2>3, <2>5, <2>6, <2>7
<1>6. /\ TodoRouted' /\ BusyHandled'
      /\ \A d \in Cpus, r \in Srpns :
           r # s /\ isr[d] # Nil /\ r \in isr[d].todo => isr'[d] # Nil /\ r \in isr'[d].todo
  BY <1>0, <1>1, <1>2, <1>5, DoneLines
<1>7. InUse' = InUse /\ BySrpn(s)' = BySrpn(s)
  BY <1>2 DEF InUse, BySrpn
<1>8. OthersKept(s)
  BY <1>2, <1>6, <1>7 DEF OthersKept
<1>9. Touches(s)
  BY <1>4, <1>5 DEF Touches
<1>10. owed[s] = Nil
  <2> SUFFICES ASSUME owed[s] # Nil
               PROVE  FALSE
    OBVIOUS
  <2>1. PICK j \in InUse : table[j].srpn = s /\ ~table[j].attach
    BY <1>1 DEF SrpnFits, OwedFits
  <2> QED
    BY <1>0, <1>3, <2>1 DEF SrpnOnce
<1>11. SrpnFits(s)'
  <2>1. SrpnFits(s) /\ hw'.route = hw.route
    BY <1>1, <1>5 DEF SameWires
  <2>2. Masked(s)'
    BY <1>2, <1>5, <1>7, <2>1 DEF SrpnFits, Masked
  <2>3. OwedFits(s)'
    BY <1>2, <1>10 DEF OwedFits
  <2>4. OpenFor(s)'
    <3>1. CASE port = "nvic"
      BY <1>5, <2>1, <3>1 DEF OpenFor
    <3>2. CASE port # "nvic"
      <4>1. \A i \in InUse : table[i].srpn = s /\ table[i].enabled /\ hw.route[s] # Nil => hw.route[s] \in hw.en
        BY <1>10, <2>1, <3>2 DEF SrpnFits, OpenFor
      <4> QED
        BY <1>2, <1>5, <1>7, <2>1, <4>1 DEF OpenFor
    <3> QED
      BY <3>1, <3>2
  <2> QED
    BY <2>2, <2>3, <2>4 DEF SrpnFits
<1> QED
  BY <1>0, <1>1, <1>6, <1>8, <1>9, <1>11, TouchStep DEF LineInv

\* The handler of a callback that faults served no other number: its line has
\* one, so none is forgotten.
LEMMA CallbackFaultLines ==
  ASSUME OneCpu, TableInv, TypeOK', LineInv, NEW c \in Cpus, NEW s \in Srpns, CallbackFault(c, s)
  PROVE  LineInv'
<1>0. TypeOK /\ SrpnOnce
  BY DEF TableInv
<1>1. Routes /\ EnRouted /\ TodoRouted /\ BusyHandled /\ \A r \in Srpns : SrpnFits(r)
  BY DEF LineInv
<1>2. /\ isr[c] # Nil /\ port' = port /\ InCallback(c, s) /\ owed' = [owed EXCEPT ![s] = Nil]
      /\ hw' = MaskedAndAcked(s)
  BY DEF CallbackFault, InCallback
<1>3. PICK k \in BySrpn(s) : Removed(k)
  BY DEF CallbackFault
<1>4. isr'[c] = Nil /\ \A d \in Cpus : d = c
  BY <1>0 DEF CallbackFault, TypeOK, OneCpu
<1>5. isr[c] \in Handlers /\ s \in isr[c].todo
  BY <1>2, CallbackEntry
<1>6. hw.route[s] = isr[c].line /\ isr[c].line \in Lines /\ isr[c].line # Nil /\ isr[c].todo \subseteq Srpns
  <2>1. isr[c].line \in Lines /\ isr[c].todo \subseteq Srpns
    BY <1>5 DEF Handlers
  <2> QED
    BY <1>1, <1>2, <1>5, <2>1, LinesOf DEF TodoRouted
<1>7. \A r \in isr[c].todo : r = s
  BY <1>1, <1>2, <1>6 DEF TodoRouted, Routes, RouteOnce
<1>8. \A d \in Cpus, r \in Srpns :
        r # s /\ isr[d] # Nil /\ r \in isr[d].todo => isr'[d] # Nil /\ r \in isr'[d].todo
  BY <1>4, <1>7
<1>9. Touches(s) /\ OthersKept(s) /\ SrpnFits(s)'
  BY <1>0, <1>2, <1>3, <1>8, DetachLines
<1>10. TodoRouted'
  BY <1>4 DEF TodoRouted
<1>11. hw'.busy \subseteq hw.busy /\ (port = "plic_qemu" => hw'.busy = {})
  <2>1. /\ hw'.busy \subseteq hw.busy
        /\ port = "plic_qemu" /\ hw.route[s] \notin Clint => hw.route[s] \notin hw'.busy
    BY <1>0, <1>2, MaskTouches
  <2>2. ASSUME port = "plic_qemu", NEW e \in hw'.busy
        PROVE  FALSE
    <3>1. e \notin Clint /\ HandledNow(e)
      BY <1>1, <2>1, <2>2 DEF BusyHandled
    <3>2. isr[c].line = e
      BY <1>4, <3>1 DEF HandledNow
    <3> QED
      BY <1>6, <2>1, <2>2, <3>1, <3>2
  <2> QED
    BY <2>1, <2>2
<1>12. BusyHandled'
  BY <1>1, <1>2, <1>11 DEF BusyHandled, Plic
<1> QED
  BY <1>0, <1>1, <1>9, <1>10, <1>12, TouchStep DEF LineInv

LEMMA LeaveLines ==
  ASSUME OneCpu, TypeOK, LineInv, NEW c \in Cpus, LeaveInterrupt(c)
  PROVE  LineInv'
<1>1. Routes /\ EnRouted /\ TodoRouted /\ BusyHandled /\ \A r \in Srpns : SrpnFits(r)
  BY DEF LineInv
<1>2. isr[c] # Nil /\ isr[c].todo = {} /\ port' = port /\ table' = table /\ owed' = owed
  BY DEF LeaveInterrupt
<1>3. isr'[c] = Nil /\ \A d \in Cpus : d = c
  BY DEF LeaveInterrupt, TypeOK, OneCpu
<1>4. isr[c].line \in Lines
  BY <1>2 DEF TypeOK, Handlers
<1>5. /\ SameWires /\ hw'.en = hw.en
      /\ hw'.busy \subseteq hw.busy
      /\ port = "plic_qemu" /\ isr[c].line # Soft => isr[c].line \notin hw'.busy
  <2>1. PICK l : l = isr[c].line
    OBVIOUS
  <2>2. PICK g : g = Left(hw, l)
    OBVIOUS
  <2>3. /\ ~Rewires(g, hw) /\ g.en = hw.en
        /\ g.busy = IF Plic /\ l # Soft /\ (port = "plic_qemu" \/ l \in hw.en) THEN hw.busy \ {l} ELSE hw.busy
    BY <1>4, <2>1, <2>2, TypesOf, LeftDoes
  <2>4. hw' = g
    BY <2>1, <2>2 DEF LeaveInterrupt
  <2> QED
    BY <1>2, <2>1, <2>3, <2>4 DEF SameWires, Rewires, Plic
<1>6. \A d \in Cpus, r \in Srpns : isr[d] # Nil /\ r \in isr[d].todo => isr'[d] # Nil /\ r \in isr'[d].todo
  BY <1>2, <1>3
<1>7. Routes' /\ EnRouted' /\ \A r \in Srpns : SrpnFits(r)'
  BY <1>1, <1>2, <1>5, <1>6, StillLines
<1>8. TodoRouted'
  BY <1>3 DEF TodoRouted
<1>9. ASSUME port = "plic_qemu", NEW e \in hw'.busy
      PROVE  FALSE
  <2>1. e \notin Clint /\ HandledNow(e)
    BY <1>1, <1>5, <1>9 DEF BusyHandled
  <2>2. isr[c].line = e
    BY <1>3, <2>1 DEF HandledNow
  <2> QED
    BY <1>5, <1>9, <2>1, <2>2 DEF Clint
<1>10. BusyHandled'
  BY <1>1, <1>2, <1>5, <1>9 DEF BusyHandled, Plic
<1> QED
  BY <1>7, <1>8, <1>10 DEF LineInv

-----------------------------------------------------------------------------
(* Every step keeps the lines.                                              *)

LEMMA QuietLines ==
  ASSUME BusyHandled, \A d \in Cpus : isr[d] = Nil, isr' = isr, port' = port, hw'.busy \subseteq hw.busy
  PROVE  TodoRouted' /\ BusyHandled'
BY DEF TodoRouted, BusyHandled, HandledNow, Plic

LEMMA CallLines ==
  ASSUME OneCpu, WiredOnce, TableInv, TypeOK', LineInv, NEW c \in Cpus, NEW t \in Threads, NEW s \in Srpns,
         \/ \E l \in Fixed \cup Clint \cup {Nil} : Attach(c, t, s, l) \/ \E n \in Notifs : Bind(c, t, s, n, l)
         \/ Detach(c, t, s) \/ Enable(c, t, s) \/ Disable(c, t, s) \/ Ack(c, t, s)
  PROVE  LineInv'
<1>0. TypeOK /\ SrpnOnce
  BY DEF TableInv
<1>1. Routes /\ EnRouted /\ TodoRouted /\ BusyHandled /\ \A r \in Srpns : SrpnFits(r)
  BY DEF LineInv
<1>2. (\A d \in Cpus : isr[d] = Nil) /\ isr' = isr
  BY CallCallbacks
<1>3. ASSUME Touches(s), OthersKept(s), SrpnFits(s)', hw'.busy \subseteq hw.busy
      PROVE  LineInv'
  BY <1>0, <1>1, <1>2, <1>3, TouchStep, QuietLines DEF LineInv, Touches, SameWires
<1>4. ASSUME NEW n \in Notifs, NEW o \in Threads \cup {Nil}, NEW l \in Fixed \cup Clint \cup {Nil},
             Add(s, n, o, l), owed' = owed, port' = port
      PROVE  LineInv'
  <2>1. Routes' /\ EnRouted' /\ (\A r \in Srpns : SrpnFits(r)') /\ hw'.busy = hw.busy
    BY <1>0, <1>1, <1>2, <1>4, AddStep
  <2>2. TodoRouted' /\ BusyHandled'
    BY <1>1, <1>2, <1>4, <2>1, QuietLines
  <2> QED
    BY <2>1, <2>2 DEF LineInv
<1>5. CASE \E l \in Fixed \cup Clint \cup {Nil} : Attach(c, t, s, l)
  <2>1. PICK l \in Fixed \cup Clint \cup {Nil}, n \in Notifs : Add(s, n, t, l) /\ owed' = owed /\ port' = port
    BY <1>5 DEF Attach
  <2> QED
    BY <1>4, <2>1
<1>6. CASE \E l \in Fixed \cup Clint \cup {Nil} : \E n \in Notifs : Bind(c, t, s, n, l)
  <2>1. PICK l \in Fixed \cup Clint \cup {Nil}, n \in Notifs : Add(s, n, Nil, l) /\ owed' = owed /\ port' = port
    BY <1>6 DEF Bind
  <2>2. Nil \in Threads \cup {Nil}
    OBVIOUS
  <2> QED
    BY <1>4, <2>1, <2>2
<1>7. CASE Detach(c, t, s)
  <2>1. /\ hw' = MaskedAndAcked(s) /\ port' = port /\ owed' = [owed EXCEPT ![s] = Nil]
        /\ \E k \in BySrpn(s) : Removed(k)
    BY <1>7 DEF Detach
  <2>2. \A d \in Cpus, r \in Srpns :
          r # s /\ isr[d] # Nil /\ r \in isr[d].todo => isr'[d] # Nil /\ r \in isr'[d].todo
    BY <1>2
  <2>3. Touches(s) /\ OthersKept(s) /\ SrpnFits(s)'
    BY <1>0, <2>1, <2>2, DetachLines
  <2>4. hw'.busy \subseteq hw.busy
    BY <1>0, <2>1, MaskTouches
  <2> QED
    BY <1>3, <2>3, <2>4
<1>8. CASE Enable(c, t, s)
  BY <1>0, <1>3, <1>8, EnableLines
<1>9. CASE Disable(c, t, s)
  BY <1>0, <1>3, <1>9, DisableLines
<1>10. CASE Ack(c, t, s)
  BY <1>0, <1>1, <1>2, <1>3, <1>10, AckLines
<1> QED
  BY <1>5, <1>6, <1>7, <1>8, <1>9, <1>10

LEMMA IdleLines ==
  ASSUME LineInv, SameWires, hw'.en = hw.en, hw'.busy = hw.busy, table' = table, owed' = owed, isr' = isr
  PROVE  LineInv'
<1>1. Routes /\ EnRouted /\ TodoRouted /\ BusyHandled /\ \A r \in Srpns : SrpnFits(r)
  BY DEF LineInv
<1>2. Routes' /\ EnRouted' /\ \A r \in Srpns : SrpnFits(r)'
  BY <1>1, StillLines
<1>3. TodoRouted' /\ BusyHandled'
  BY <1>1, HandlersStay
<1> QED
  BY <1>2, <1>3 DEF LineInv

LEMMA DeviceLines ==
  ASSUME TypeOK, LineInv,
         \/ \E c \in Cpus, t \in Threads :
              (\E n \in Notifs : CreateNotif(c, t, n) \/ DestroyNotif(c, t, n)) \/ Exit(c, t)
         \/ \E l \in Fixed \cup First .. Last : Raise(l)
         \/ RaiseSoft
         \/ \E s \in Srpns : Serve(s)
         \/ UNCHANGED vars
  PROVE  LineInv'
<1>1. table' = table /\ owed' = owed /\ isr' = isr /\ port' = port
  BY DEF CreateNotif, DestroyNotif, Exit, Raise, RaiseSoft, Serve, vars
<1>2. hw' = hw \/ \E e : hw' = [hw EXCEPT !.latch = e]
  <2>1. ASSUME NEW l \in Fixed \cup First .. Last, Raise(l)
        PROVE  \E e : hw' = [hw EXCEPT !.latch = e]
    BY <2>1 DEF Raise
  <2>2. ASSUME RaiseSoft
        PROVE  \E e : hw' = [hw EXCEPT !.latch = e]
    BY <2>2 DEF RaiseSoft
  <2>3. ASSUME \/ \E c \in Cpus, t \in Threads :
                    (\E n \in Notifs : CreateNotif(c, t, n) \/ DestroyNotif(c, t, n)) \/ Exit(c, t)
               \/ \E s \in Srpns : Serve(s)
               \/ UNCHANGED vars
        PROVE  hw' = hw
    BY <2>3 DEF CreateNotif, DestroyNotif, Exit, Serve, vars
  <2> QED
    BY <2>1, <2>2, <2>3
<1>3. hw \in Controllers
  BY TypesOf
<1>4. SameWires /\ hw'.en = hw.en /\ hw'.busy = hw.busy
  BY <1>1, <1>2, <1>3 DEF SameWires, Controllers
<1> QED
  BY <1>1, <1>4, IdleLines

LEMMA LineStep ==
  ASSUME OneCpu, WiredOnce, TableInv, TableInv', LineInv, [Next]_vars
  PROVE  LineInv'
<1>0. TypeOK /\ TypeOK'
  BY DEF TableInv
<1>1. ASSUME NEW c \in Cpus, NEW l \in Lines, NEW t \in (alive \ lost) \cup {Nil}, TakeInterrupt(c, t, l)
      PROVE  LineInv'
  <2>1. t \in Threads \cup {Nil}
    BY <1>0 DEF TypeOK
  <2> QED
    BY <1>0, <1>1, <2>1, TakeLines
<1>2. ASSUME NEW c \in Cpus, NEW s \in Srpns,
             \/ DispatchNone(c, s) \/ DispatchThreaded(c, s) \/ DispatchAttached(c, s)
             \/ \E notify \in BOOLEAN : CallbackReturn(c, s, notify)
             \/ CallbackFault(c, s)
      PROVE  LineInv'
  BY <1>0, <1>2, DispatchNoneLines, DispatchThreadedLines, DispatchAttachedLines, CallbackReturnLines,
     CallbackFaultLines
<1>3. ASSUME NEW c \in Cpus, LeaveInterrupt(c)
      PROVE  LineInv'
  BY <1>0, <1>3, LeaveLines
<1> QED
  BY <1>0, <1>1, <1>2, <1>3, CallLines, DeviceLines DEF Next

LEMMA LineInvariant == OneCpu /\ WiredOnce => (Spec => [](TableInv /\ LineInv))
<1> SUFFICES ASSUME OneCpu, WiredOnce
             PROVE  Spec => [](TableInv /\ LineInv)
  OBVIOUS
<1>1. Spec => []TableInv
  BY TableInvariant
<1>2. Init => LineInv
  <2> SUFFICES ASSUME Init
               PROVE  LineInv
    OBVIOUS
  <2>1. hw.en \subseteq {Timer} /\ Nil # Timer
    BY LinesOf DEF Init, TickInit, Clint
  <2>2. \A s \in Srpns : hw.route[s] = Nil
    BY DEF Init
  <2>3. hw.busy = {} /\ InUse = {} /\ \A s \in Srpns : owed[s] = Nil
    BY DEF Init, InUse
  <2>4. \A c \in Cpus : isr[c] = Nil
    BY DEF Init
  <2>5. \A s \in Srpns : SrpnFits(s)
    BY <2>1, <2>2, <2>3, <2>4 DEF SrpnFits, Masked, OwedFits, OpenFor
  <2> QED
    BY <2>1, <2>2, <2>3, <2>4, <2>5 DEF LineInv, Routes, RouteFits, RouteOnce, EnRouted, TodoRouted, BusyHandled
<1>3. TableInv /\ TableInv' /\ LineInv /\ [Next]_vars => LineInv'
  BY LineStep
<1> QED
  BY <1>1, <1>2, <1>3, PTL DEF Spec

(***************************************************************************)
(* NoStorm: after ulmk_kern_irq_dispatch masked a line and signalled its   *)
(* driver, the line does not interrupt before the driver acknowledges,     *)
(* disables or detaches.                                                   *)
(***************************************************************************)
THEOREM SignalledLinesQuiet == OneCpu /\ WiredOnce => (Spec => []NoStorm)
<1> SUFFICES ASSUME OneCpu, WiredOnce
             PROVE  Spec => []NoStorm
  OBVIOUS
<1>1. Spec => [](TableInv /\ LineInv)
  BY LineInvariant
<1>2. TableInv /\ LineInv => NoStorm
  BY DEF LineInv, SrpnFits, OwedFits, NoStorm, Takes
<1> QED
  BY <1>1, <1>2, PTL

(***************************************************************************)
(* NoLostInterrupt: a device that asks, on an enabled binding, will        *)
(* interrupt, is being handled, or waits for a driver that was signalled   *)
(* (ulmk_kern_irq_ack and the callback's return open the line again), on a *)
(* PLIC that takes the completion of a masked line, the CLIC and the NVIC. *)
(***************************************************************************)
THEOREM InterruptsArrive == OneCpu /\ WiredOnce => (Spec => []NoLostInterrupt)
<1> SUFFICES ASSUME OneCpu, WiredOnce
             PROVE  Spec => []NoLostInterrupt
  OBVIOUS
<1>1. Spec => [](TableInv /\ LineInv)
  BY LineInvariant
<1>2. TableInv /\ LineInv => NoLostInterrupt
  <2> SUFFICES ASSUME TableInv, LineInv, port \notin {"src", "plic"}, NEW s \in Srpns,
                      BySrpn(s) # {}, hw.route[s] \in high, Binding(s).enabled, owed[s] = Nil,
                      ~HandledNow(hw.route[s])
               PROVE  Takes(hw, hw.route[s])
    BY DEF NoLostInterrupt, SourceReopened
  <2>1. PICK i \in BySrpn(s) : table[i].enabled
    BY DEF Binding
  <2>2. i \in InUse /\ table[i].srpn = s
    BY DEF BySrpn
  <2>3. hw.route[s] # Nil
    <3>1. hw.route[s] \in Lines
      BY LinesOf DEF TableInv, TypeOK
    <3> QED
      BY <3>1, LinesOf
  <2>4. \A c \in Cpus : isr[c] # Nil => s \notin isr[c].todo
    BY DEF LineInv, TodoRouted, HandledNow
  <2>5. hw.route[s] \in hw.en
    BY <2>1, <2>2, <2>3, <2>4 DEF LineInv, SrpnFits, OpenFor
  <2>6. hw.route[s] \notin hw.busy
    BY DEF LineInv, BusyHandled, Plic
  <2> QED
    BY <2>5, <2>6 DEF Takes, Pending
<1> QED
  BY <1>1, <1>2, PTL
=============================================================================
