---------------------------- MODULE DeviceProofs ----------------------------
(***************************************************************************)
(* The device manager for any number of clients, servers, paths and table  *)
(* slots.  Three layers, each an inductive invariant over the one below:   *)
(*                                                                         *)
(*   Fits       a client waits for the call of the function it is in, and  *)
(*              the pending path belongs to a registration under way;      *)
(*   Tracked    handles and grants agree, for clients that open closed     *)
(*              handles only, unmap no granted buffer and pass static data *)
(*              or the base of an area (Careful, Places);                  *)
(*   Honest     an answer decodes to what the server did, for transfers    *)
(*              shorter than the 16 bits of a reply's count.               *)
(***************************************************************************)
EXTENDS Device, WellFoundedInduction, TLAPS

(* The call a client waits for is the one its library function makes.       *)
RequestFits(c) ==
  \/ /\ fn[c].name = "path" /\ req[c].to = Nil /\ req[c].label = "PATH"
     /\ req[c].path \in Paths /\ PathOk(req[c].path)
     /\ <<req[c].path, fn[c].server>> \in asked
  \/ /\ fn[c].name = "simple"
     /\ req[c].label \in {"REGISTER", "UNREGISTER", "CLOSE", "INFO", "IOCTL"}
  \/ fn[c].name = "lookup" /\ req[c].label = "LOOKUP"
  \/ fn[c].name = "open" /\ req[c].label = "OPEN"
  \/ /\ fn[c].name \in Transfers /\ req[c].label = fn[c].name
     /\ \/ fn[c].len <= INLINE_BYTES /\ req[c].inline = TRUE /\ req[c].words[1] = fn[c].len
        \/ (fn[c].len = 0 \/ fn[c].len > INLINE_BYTES) /\ req[c].inline = FALSE

InFunction(c) ==
  /\ fn[c] # Nil => fn[c] \in Fns
  /\ req[c] # Nil => fn[c] # Nil /\ ans[c] = Nil /\ RequestFits(c)
  /\ ans[c] # Nil => fn[c] # Nil

(* g_pending_path is that of a client between its two messages, and what    *)
(* the client will register under it is what it asked for.                  *)
PendingFits ==
  pending # Nil =>
    /\ pending.tid \in Clients /\ fn[pending.tid] # Nil
    /\ \/ /\ fn[pending.tid].name = "path" /\ req[pending.tid] = Nil
          /\ <<pending.path, fn[pending.tid].server>> \in asked
       \/ /\ fn[pending.tid].name = "simple" /\ ans[pending.tid] = Nil
          /\ req[pending.tid].to = Nil /\ req[pending.tid].label = "REGISTER"
          /\ <<pending.path, req[pending.tid].server>> \in asked

Domains ==
  /\ DOMAIN tab = Slots
  /\ DOMAIN fn = Clients /\ DOMAIN req = Clients /\ DOMAIN ans = Clients
  /\ DOMAIN moved = Clients /\ DOMAIN out = Clients

Fits ==
  /\ Domains
  /\ asked \subseteq Paths \X Servers
  /\ PublishedAsAsked /\ PendingFits
  /\ \A c \in Clients : InFunction(c)

(* The handle is closed while it is being opened, the grant recorded in it  *)
(* is the one the server has, and a client keeps what it lends.             *)
HandleFits(c) ==
  /\ fn[c] # Nil /\ fn[c].name = "lookup" => dev[c].server = Nil
  /\ fn[c] # Nil /\ fn[c].name \in {"lookup", "open"} => dev[c].grant = Nil
  /\ fn[c] # Nil /\ fn[c].name = "lookup" /\ ans[c] # Nil
       => ans[c].server \in Servers \cup {Nil}

MayTouch(c) ==
  req[c] # Nil /\ req[c].label \in Transfers =>
    req[c].inline \/ req[c].words[1] \in {0, StaticAt} \/ <<c, req[c].to>> \in granted

Lends(c) ==
  /\ \A s \in Servers : <<c, s>> \in granted <=> dev[c].server = s /\ dev[c].grant # Nil
  /\ c \notin mapped => \A s \in Servers : <<c, s>> \notin granted

Tracked ==
  /\ dev \in [Clients -> [server : Servers \cup {Nil}, grant : Grants \cup {Nil}]]
  /\ granted \subseteq Clients \X Servers
  /\ \A c \in Clients : HandleFits(c) /\ MayTouch(c) /\ Lends(c)

(* Clients that open closed handles only, unmap no buffer that a handle has *)
(* granted, and pass static data or the base of an area.                    *)
CarefulClients == Careful /\ Places \subseteq {StaticAt, AreaAt}

(* What is decoded from an answer is what the server did.                   *)
AnswerHonest(c) ==
  /\ fn[c].name \in {"WRITE", "SUBMIT"} => ans[c].word = moved[c]
  /\ fn[c].name \in {"READ", "WAIT"} =>
       LET r == Received(fn[c].len, ans[c].word, moved[c])
       IN  r.ret = r.did /\ ~r.spoilt

TransferFits(c) ==
  fn[c] # Nil /\ fn[c].name \in Transfers =>
    /\ req[c] # Nil => moved[c] = ERROR
    /\ ans[c] # Nil => AnswerHonest(c)

ReturnedHonest(c) == out[c] # Nil => out[c].ret = out[c].did /\ ~out[c].spoilt

Honest == \A c \in Clients : TransferFits(c) /\ ReturnedHonest(c)

(* A count that fits the lower half of a reply's first word.                *)
ShortTransfers == \A n \in Lengths : n < F_INLINE

-----------------------------------------------------------------------------
(* Pathnames and minima.                                                    *)

LEMMA MinOfTwo ==
  ASSUME NEW a \in Int, NEW b \in Int
  PROVE  Min({a, b}) = IF a <= b THEN a ELSE b
<1>1. \E x \in {a, b} : \A y \in {a, b} : x <= y
  OBVIOUS
<1>2. Min({a, b}) \in {a, b} /\ \A y \in {a, b} : Min({a, b}) <= y
  BY <1>1 DEF Min
<1> QED
  BY <1>2

(* A path that is accepted fits the message whole.                          *)
LEMMA PathCarried ==
  ASSUME NEW p \in Paths, PathOk(p)
  PROVE  Carried(p) = p
<1>1. /\ p \in [slash : BOOLEAN, len : Nat, id : {q.id : q \in Paths}]
      /\ p.len <= INLINE_BYTES
  BY InputAssumption DEF PathOk, INLINE_BYTES
<1>2. Min({p.len, INLINE_BYTES}) = p.len
  BY <1>1, MinOfTwo DEF INLINE_BYTES
<1> QED
  BY <1>1, <1>2 DEF Carried

-----------------------------------------------------------------------------
(* The shapes of steps.                                                     *)

(* Nothing of client d's call changes.                                      *)
SameCall(d) == fn'[d] = fn[d] /\ req'[d] = req[d] /\ ans'[d] = ans[d]

OnlyClient(c) == \A d \in Clients \ {c} : SameCall(d)

LEMMA CallFrame ==
  ASSUME Fits, NEW c \in Clients, OnlyClient(c), asked \subseteq asked', InFunction(c)'
  PROVE  \A d \in Clients : InFunction(d)'
<1> SUFFICES ASSUME NEW d \in Clients, d # c
             PROVE  InFunction(d)'
  OBVIOUS
<1>1. InFunction(d) /\ SameCall(d)
  BY DEF Fits, OnlyClient
<1> QED
  BY <1>1 DEF InFunction, SameCall, RequestFits

(* The registry and the pending path stay, and so does the call of the      *)
(* client that announced it.                                                *)
LEMMA RegistryFrame ==
  ASSUME Fits, UNCHANGED <<tab, pending>>, asked \subseteq asked',
         pending # Nil => SameCall(pending.tid)
  PROVE  PublishedAsAsked' /\ PendingFits'
<1>1. PublishedAsAsked'
  BY DEF Fits, PublishedAsAsked, Used
<1>2. PendingFits'
  BY DEF Fits, PendingFits, SameCall
<1> QED
  BY <1>1, <1>2

(* The client whose call is answered.                                       *)
LEMMA Replied ==
  ASSUME Fits, NEW c \in Clients, req[c] # Nil, NEW r, Reply(c, r), UNCHANGED fn
  PROVE  /\ OnlyClient(c) /\ InFunction(c)'
         /\ req'[c] = Nil /\ DOMAIN req' = Clients /\ DOMAIN ans' = Clients
<1>1. /\ OnlyClient(c) /\ req'[c] = Nil /\ ans'[c] = r
      /\ DOMAIN req' = Clients /\ DOMAIN ans' = Clients
  BY DEF Fits, Domains, Reply, OnlyClient, SameCall
<1>2. InFunction(c)'
  BY <1>1 DEF Fits, InFunction
<1> QED
  BY <1>1, <1>2

LEMMA ReplyKeepsPending ==
  ASSUME Fits, NEW c \in Clients, req[c] # Nil, req[c].label # "REGISTER", OnlyClient(c)
  PROVE  pending # Nil => SameCall(pending.tid)
<1>1. pending # Nil => pending.tid # c
  BY DEF Fits, PendingFits
<1> QED
  BY <1>1 DEF OnlyClient, Fits, PendingFits

(* A server or the manager answers, and the registry stays.                 *)
LEMMA AnswerFits ==
  ASSUME Fits, NEW c \in Clients, req[c] # Nil, NEW r, Reply(c, r),
         req[c].label # "REGISTER", UNCHANGED <<tab, pending, fn, asked, out>>,
         DOMAIN moved' = Clients
  PROVE  Fits'
<1>1. /\ OnlyClient(c) /\ InFunction(c)'
      /\ DOMAIN req' = Clients /\ DOMAIN ans' = Clients
  BY Replied
<1>2. PublishedAsAsked' /\ PendingFits'
  BY <1>1, ReplyKeepsPending, RegistryFrame
<1>3. \A d \in Clients : InFunction(d)'
  BY <1>1, CallFrame
<1> QED
  BY <1>1, <1>2, <1>3 DEF Fits, Domains

-----------------------------------------------------------------------------
(* The registry's steps.                                                    *)

LEMMA MgrPathFits ==
  ASSUME Fits, NEW c \in Clients, MgrPath(c)
  PROVE  Fits'
<1>1. /\ req[c] # Nil /\ req[c].label = "PATH" /\ UNCHANGED <<tab, fn, asked, out, moved>>
      /\ req[c].path \in Paths /\ PathOk(req[c].path) /\ fn[c].name = "path" /\ fn[c] # Nil
      /\ <<req[c].path, fn[c].server>> \in asked
  BY DEF MgrPath, ToManager, Fits, InFunction, RequestFits, Transfers
<1>2. Carried(req[c].path) = req[c].path
  BY <1>1, PathCarried
<1>3. pending' = [path |-> req[c].path, tid |-> c] /\ Reply(c, Word(0))
  BY <1>1, <1>2 DEF MgrPath
<1>4. /\ OnlyClient(c) /\ InFunction(c)' /\ req'[c] = Nil
      /\ DOMAIN req' = Clients /\ DOMAIN ans' = Clients
  BY <1>1, <1>3, Replied
<1>5. PendingFits'
  BY <1>1, <1>3, <1>4 DEF PendingFits
<1>6. PublishedAsAsked'
  BY <1>1 DEF Fits, PublishedAsAsked, Used
<1>7. \A d \in Clients : InFunction(d)'
  BY <1>1, <1>4, CallFrame
<1> QED
  BY <1>1, <1>4, <1>5, <1>6, <1>7 DEF Fits, Domains

LEMMA MgrRegisterFits ==
  ASSUME Fits, NEW c \in Clients, MgrRegister(c)
  PROVE  Fits'
<1>1. /\ req[c] # Nil /\ req[c].label = "REGISTER" /\ UNCHANGED <<fn, asked, out, moved>>
  BY DEF MgrRegister, ToManager
<1>2. PICK r : Reply(c, r)
  BY DEF MgrRegister
<1>3. /\ OnlyClient(c) /\ InFunction(c)'
      /\ DOMAIN req' = Clients /\ DOMAIN ans' = Clients
  BY <1>1, <1>2, Replied
<1>4. \A d \in Clients : InFunction(d)'
  BY <1>1, <1>3, CallFrame
<1>5. PublishedAsAsked' /\ PendingFits' /\ DOMAIN tab' = Slots
  <2>1. CASE ~Announced(c)
    <3>1. UNCHANGED <<tab, pending>>
      BY <2>1 DEF MgrRegister
    <3>2. pending # Nil => SameCall(pending.tid)
      BY <1>3, <2>1 DEF Announced, Fits, PendingFits, OnlyClient
    <3> QED
      BY <1>1, <3>1, <3>2, RegistryFrame DEF Fits, Domains
  <2>2. CASE Announced(c) /\ UNCHANGED tab
    BY <1>1, <2>2 DEF MgrRegister, Fits, Domains, PublishedAsAsked, Used, PendingFits
  <2>3. CASE Announced(c) /\ At(pending.path) = {}
             /\ tab' = [tab EXCEPT ![Min(Free)] =
                          [path |-> pending.path, server |-> req[c].server]]
    <3>1. <<pending.path, req[c].server>> \in asked /\ pending' = Nil
      BY <1>1, <2>3 DEF MgrRegister, Announced, Fits, PendingFits
    <3>2. PICK m, new : m = Min(Free) /\ new = [path |-> pending.path, server |-> req[c].server]
      OBVIOUS
    <3>3. /\ DOMAIN tab' = Slots
          /\ \A i \in Slots : tab'[i] = IF i = m THEN new ELSE tab[i]
      BY <2>3, <3>2 DEF Fits, Domains
    <3>4. /\ new.path = pending.path /\ <<new.path, new.server>> \in asked
          /\ \A i \in Used : tab[i].path # new.path
      BY <2>3, <3>1, <3>2 DEF At
    <3>5. \A i \in Used' : i # m => i \in Used /\ tab'[i] = tab[i]
      BY <3>3 DEF Used
    <3>6. \A i \in Used' : i = m => tab'[i] = new
      BY <3>3 DEF Used
    <3>7. PublishedAsAsked'
      BY <1>1, <3>4, <3>5, <3>6 DEF Fits, PublishedAsAsked
    <3> QED
      BY <3>1, <3>3, <3>7 DEF PendingFits
  <2> QED
    BY <2>1, <2>2, <2>3 DEF MgrRegister
<1> QED
  BY <1>1, <1>3, <1>4, <1>5 DEF Fits, Domains

LEMMA MgrUnregisterFits ==
  ASSUME Fits, NEW c \in Clients, MgrUnregister(c)
  PROVE  Fits'
<1>1. /\ req[c] # Nil /\ req[c].label = "UNREGISTER"
      /\ UNCHANGED <<pending, fn, asked, out, moved>>
  BY DEF MgrUnregister, ToManager
<1>2. PICK r : Reply(c, r)
  BY DEF MgrUnregister
<1>3. /\ OnlyClient(c) /\ InFunction(c)'
      /\ DOMAIN req' = Clients /\ DOMAIN ans' = Clients
  BY <1>1, <1>2, Replied
<1>4. \A d \in Clients : InFunction(d)'
  BY <1>1, <1>3, CallFrame
<1>5. PendingFits'
  BY <1>1, <1>3, ReplyKeepsPending DEF Fits, PendingFits, SameCall
<1>6. DOMAIN tab' = Slots /\ \A i \in Slots : tab'[i] \in {tab[i], Nil}
  BY DEF MgrUnregister
<1>7. PublishedAsAsked'
  <2>1. \A i \in Used' : i \in Used /\ tab'[i] = tab[i]
    BY <1>6 DEF Used
  <2> QED
    BY <1>1, <2>1 DEF Fits, PublishedAsAsked
<1> QED
  BY <1>1, <1>3, <1>4, <1>5, <1>6, <1>7 DEF Fits, Domains

-----------------------------------------------------------------------------
(* The clients' steps.                                                      *)

(* An idle client enters a function whose call fits it.                     *)
LEMMA EnterFits ==
  ASSUME Fits, NEW c \in Clients, Idle(c), NEW f \in Fns, Enter(c, f), NEW m, Call(c, m),
         fn'[c] = f /\ req'[c] = m /\ req'[c] # Nil => RequestFits(c)',
         UNCHANGED <<tab, pending>>, asked \subseteq asked',
         asked' \subseteq Paths \X Servers, DOMAIN moved' = Clients
  PROVE  Fits'
<1>1. /\ fn'[c] = f /\ OnlyClient(c) /\ f # Nil
      /\ \/ req'[c] = m /\ ans'[c] = ans[c]
         \/ req'[c] = req[c]
      /\ DOMAIN fn' = Clients /\ DOMAIN req' = Clients /\ DOMAIN ans' = Clients
      /\ DOMAIN out' = Clients
  BY NilAssumption DEF Fits, Domains, Enter, Call, OnlyClient, SameCall
<1>2. req[c] = Nil /\ ans[c] = Nil
  BY DEF Fits, InFunction, Idle
<1>3. InFunction(c)'
  BY <1>1, <1>2 DEF InFunction
<1>4. pending # Nil => SameCall(pending.tid)
  BY <1>1 DEF Fits, PendingFits, Idle, OnlyClient
<1>5. PublishedAsAsked' /\ PendingFits'
  BY <1>4, RegistryFrame
<1>6. \A d \in Clients : InFunction(d)'
  BY <1>1, <1>3, CallFrame
<1> QED
  BY <1>1, <1>5, <1>6 DEF Fits, Domains

LEMMA CallsFit ==
  ASSUME Fits, NEW c \in Clients,
         \/ \E p \in Paths : \/ \E s \in Servers : Register(c, p, s)
                             \/ Unregister(c, p) \/ Open(c, p)
         \/ Close(c)
         \/ \E label \in {"INFO", "IOCTL"} : Plain(c, label)
         \/ \E len \in Lengths, label \in Transfers :
              SendInline(c, label, len) \/ \E a \in Places : SendGranted(c, label, a, len)
         \/ \E label \in {"SUBMIT", "WAIT"} : SendEmpty(c, label)
  PROVE  Fits'
<1>0. /\ asked \subseteq Paths \X Servers /\ DOMAIN moved = Clients
      /\ [name |-> "simple"] \in Fns /\ [name |-> "lookup"] \in Fns
  BY DEF Fits, Domains, Fns
<1>1. ASSUME NEW p \in Paths, NEW s \in Servers, Register(c, p, s)
      PROVE  Fits'
  <2>1. PICK f, m : /\ f = [name |-> "path", server |-> s]
                    /\ m = [to |-> Nil, label |-> "PATH", path |-> p]
    OBVIOUS
  <2>2. /\ Idle(c) /\ PathOk(p) /\ Enter(c, f) /\ Call(c, m)
        /\ asked' = asked \cup {<<p, s>>} /\ UNCHANGED <<tab, pending, moved>>
    BY <1>1, <2>1 DEF Register
  <2>3. f \in Fns /\ f.name = "path" /\ f.server = s
    BY <2>1 DEF Fns
  <2>4. fn'[c] = f /\ req'[c] = m => RequestFits(c)'
    BY <2>1, <2>2, <2>3 DEF RequestFits, PathOk
  <2> QED
    BY <1>0, <2>2, <2>3, <2>4, EnterFits
<1>2. ASSUME NEW p \in Paths, Unregister(c, p)
      PROVE  Fits'
  <2>1. PICK f, m : /\ f = [name |-> "simple"]
                    /\ m = [to |-> Nil, label |-> "UNREGISTER", path |-> p]
    OBVIOUS
  <2>2. Idle(c) /\ Enter(c, f) /\ Call(c, m) /\ UNCHANGED <<tab, pending, asked, moved>>
    BY <1>2, <2>1 DEF Unregister
  <2>3. fn'[c] = f /\ req'[c] = m => RequestFits(c)'
    BY <2>1 DEF RequestFits
  <2> QED
    BY <1>0, <2>1, <2>2, <2>3, EnterFits
<1>3. ASSUME NEW p \in Paths, Open(c, p)
      PROVE  Fits'
  <2>1. PICK f, m : /\ f = [name |-> "lookup"]
                    /\ m = [to |-> Nil, label |-> "LOOKUP", path |-> p]
    OBVIOUS
  <2>2. Idle(c) /\ Enter(c, f) /\ Call(c, m) /\ UNCHANGED <<tab, pending, asked, moved>>
    BY <1>3, <2>1 DEF Open
  <2>3. fn'[c] = f /\ req'[c] = m => RequestFits(c)'
    BY <2>1 DEF RequestFits
  <2> QED
    BY <1>0, <2>1, <2>2, <2>3, EnterFits
<1>4. ASSUME NEW label \in {"CLOSE", "INFO", "IOCTL"}, NEW f, f = [name |-> "simple"],
             NEW m, m = [to |-> dev[c].server, label |-> label],
             Idle(c), Enter(c, f), Call(c, m), UNCHANGED <<tab, pending, asked, moved>>
      PROVE  Fits'
  <2>1. fn'[c] = f /\ req'[c] = m => RequestFits(c)'
    BY <1>4 DEF RequestFits
  <2> QED
    BY <1>0, <1>4, <2>1, EnterFits
<1>5. CASE Close(c) \/ \E label \in {"INFO", "IOCTL"} : Plain(c, label)
  BY <1>4, <1>5 DEF Close, Plain
<1>6. ASSUME NEW len \in Lengths \cup {0}, NEW label \in Transfers,
             NEW inline \in BOOLEAN, NEW words,
             inline => len <= INLINE_BYTES /\ words[1] = len,
             ~inline => len = 0 \/ len > INLINE_BYTES,
             NEW f, f = [name |-> label, len |-> len],
             NEW m, m = Message(c, label, inline, words),
             Idle(c), Enter(c, f), Call(c, m), UNCHANGED <<tab, pending, asked>>,
             moved' = [moved EXCEPT ![c] = ERROR]
      PROVE  Fits'
  <2>1. f \in Fns /\ f.name = label /\ f.len = len /\ m.label = label
        /\ m.inline = inline /\ m.words = words
    BY <1>6 DEF Fns, Message
  <2>2. fn'[c] = f /\ req'[c] = m => RequestFits(c)'
    BY <1>6, <2>1 DEF RequestFits
  <2>3. DOMAIN moved' = Clients
    BY <1>0, <1>6
  <2> QED
    BY <1>0, <1>6, <2>1, <2>2, <2>3, EnterFits
<1>7. ASSUME NEW len \in Lengths, NEW label \in Transfers, SendInline(c, label, len)
      PROVE  Fits'
  <2>1. len <= INLINE_BYTES /\ <<len, 0>>[1] = len
    BY <1>7, InputAssumption DEF SendInline, INLINE_BYTES
  <2> QED
    BY <1>6, <1>7, <2>1 DEF SendInline
<1>8. ASSUME NEW len \in Lengths, NEW label \in Transfers, NEW a \in Places,
             SendGranted(c, label, a, len)
      PROVE  Fits'
  BY <1>6, <1>8 DEF SendGranted
<1>9. ASSUME NEW label \in {"SUBMIT", "WAIT"}, SendEmpty(c, label)
      PROVE  Fits'
  BY <1>6, <1>9 DEF SendEmpty, Transfers
<1> QED
  BY <1>1, <1>2, <1>3, <1>5, <1>7, <1>8, <1>9

(* The library function returns.                                            *)
LEMMA LeaveFits ==
  ASSUME Fits, NEW c \in Clients, ans[c] # Nil, fn[c].name # "path", Leave(c),
         UNCHANGED <<tab, pending, req, asked>>,
         DOMAIN moved' = Clients, DOMAIN out' = Clients
  PROVE  Fits'
<1>1. /\ fn'[c] = Nil /\ ans'[c] = Nil /\ req'[c] = req[c] /\ OnlyClient(c)
      /\ DOMAIN fn' = Clients /\ DOMAIN ans' = Clients /\ DOMAIN req' = Clients
  BY DEF Leave, Fits, Domains, OnlyClient, SameCall
<1>2. req[c] = Nil
  BY DEF Fits, InFunction
<1>3. InFunction(c)'
  BY <1>1, <1>2 DEF InFunction
<1>4. pending # Nil => SameCall(pending.tid)
  BY <1>1 DEF Fits, PendingFits, OnlyClient
<1>5. PublishedAsAsked' /\ PendingFits'
  BY <1>4, RegistryFrame
<1>6. \A d \in Clients : InFunction(d)'
  BY <1>1, <1>3, CallFrame
<1> QED
  BY <1>1, <1>5, <1>6 DEF Fits, Domains

LEMMA RegisterRestFits ==
  ASSUME Fits, NEW c \in Clients, RegisterRest(c)
  PROVE  Fits'
<1>1. /\ fn[c] # Nil /\ fn[c].name = "path" /\ ans[c] # Nil
      /\ UNCHANGED <<tab, pending, asked, moved, out>>
  BY DEF RegisterRest, Answered
<1>2. PICK f, m : /\ f = [name |-> "simple"]
                  /\ m = [to |-> Nil, label |-> "REGISTER", server |-> fn[c].server]
  OBVIOUS
<1>3. /\ fn'[c] = f /\ req'[c] = m /\ ans'[c] = Nil /\ OnlyClient(c)
      /\ DOMAIN fn' = Clients /\ DOMAIN ans' = Clients /\ DOMAIN req' = Clients
  BY <1>2 DEF RegisterRest, Fits, Domains, OnlyClient, SameCall
<1>4. f \in Fns /\ f # Nil
  BY <1>2, NilAssumption DEF Fns
<1>5. InFunction(c)'
  BY <1>2, <1>3, <1>4 DEF InFunction, RequestFits
<1>6. PendingFits'
  <2>1. CASE pending # Nil /\ pending.tid = c
    BY <1>1, <1>2, <1>3, <1>4, <2>1 DEF Fits, PendingFits
  <2>2. CASE pending # Nil /\ pending.tid # c
    BY <1>1, <1>3, <2>2 DEF Fits, PendingFits, OnlyClient, SameCall
  <2>3. CASE pending = Nil
    BY <1>1, <2>3 DEF PendingFits
  <2> QED
    BY <2>1, <2>2, <2>3
<1>7. PublishedAsAsked'
  BY <1>1 DEF Fits, PublishedAsAsked, Used
<1>8. \A d \in Clients : InFunction(d)'
  BY <1>1, <1>3, <1>5, CallFrame
<1> QED
  BY <1>1, <1>3, <1>6, <1>7, <1>8 DEF Fits, Domains

LEMMA OpenFoundFits ==
  ASSUME Fits, NEW c \in Clients, OpenFound(c)
  PROVE  Fits'
<1>1. /\ fn[c] # Nil /\ fn[c].name = "lookup" /\ ans[c] # Nil
      /\ UNCHANGED <<tab, pending, asked, moved, out>>
  BY DEF OpenFound, Answered
<1>2. PICK f, m : f = [name |-> "open"] /\ m = [to |-> ans[c].server, label |-> "OPEN"]
  OBVIOUS
<1>3. /\ fn'[c] = f /\ OnlyClient(c)
      /\ \/ req'[c] = m /\ ans'[c] = Nil
         \/ req'[c] = req[c]
      /\ DOMAIN fn' = Clients /\ DOMAIN ans' = Clients /\ DOMAIN req' = Clients
  BY <1>2 DEF OpenFound, Fits, Domains, OnlyClient, SameCall
<1>4. f \in Fns /\ f # Nil /\ req[c] = Nil
  BY <1>1, <1>2, NilAssumption DEF Fns, Fits, InFunction
<1>5. InFunction(c)'
  BY <1>2, <1>3, <1>4 DEF InFunction, RequestFits
<1>6. pending # Nil => SameCall(pending.tid)
  BY <1>1, <1>3 DEF Fits, PendingFits, OnlyClient
<1>7. PublishedAsAsked' /\ PendingFits'
  BY <1>1, <1>6, RegistryFrame
<1>8. \A d \in Clients : InFunction(d)'
  BY <1>1, <1>3, <1>5, CallFrame
<1> QED
  BY <1>1, <1>3, <1>7, <1>8 DEF Fits, Domains

(* Calls waiting at the server are cut; the manager's are not.              *)
LEMMA ServerStopsFits ==
  ASSUME Fits, NEW s \in Servers, ServerStops(s)
  PROVE  Fits'
<1>1. PICK cut : cut = {c \in Clients : req[c] # Nil /\ req[c].to = s}
  OBVIOUS
<1>2. /\ ans' = [c \in Clients |-> IF c \in cut THEN Word(ERROR) ELSE ans[c]]
      /\ req' = [c \in Clients |-> IF c \in cut THEN Nil ELSE req[c]]
      /\ DOMAIN moved' = Clients
      /\ UNCHANGED <<tab, pending, fn, asked, out>>
  BY <1>1 DEF ServerStops
<1>3. \A c \in Clients : IF c \in cut THEN req'[c] = Nil /\ fn[c] # Nil ELSE SameCall(c)
  BY <1>1, <1>2 DEF SameCall, Fits, InFunction
<1>4. ASSUME NEW c \in Clients
      PROVE  InFunction(c)'
  BY <1>2, <1>3 DEF Fits, InFunction, RequestFits, SameCall
<1>5. pending # Nil => SameCall(pending.tid)
  BY <1>1, <1>3, NilAssumption DEF Fits, PendingFits
<1>6. PublishedAsAsked' /\ PendingFits'
  BY <1>2, <1>5, RegistryFrame
<1> QED
  BY <1>2, <1>4, <1>6 DEF Fits, Domains

-----------------------------------------------------------------------------
(* The registry.                                                            *)

LEMMA InitFits == Init => Fits
<1> SUFFICES ASSUME Init
             PROVE  Fits
  OBVIOUS
<1>1. Domains /\ asked \subseteq Paths \X Servers /\ PublishedAsAsked /\ PendingFits
  BY DEF Init, Domains, PublishedAsAsked, Used, PendingFits
<1>2. ASSUME NEW c \in Clients
      PROVE  InFunction(c)
  BY DEF Init, InFunction
<1> QED
  BY <1>1, <1>2 DEF Fits

(* A server answers.                                                        *)
LEMMA ServeFits ==
  ASSUME Fits, NEW c \in Clients,
         \/ MgrLookup(c)
         \/ \E s \in Servers :
              \/ ServeMissing(c, s)
              \/ \E rc \in {0, ERROR} : ServePlain(c, s, rc)
              \/ \E n \in Counts : ServeIn(c, s, n) \/ ServeOut(c, s, n)
  PROVE  Fits'
<1>1. /\ req[c] # Nil /\ req[c].label # "REGISTER"
      /\ UNCHANGED <<tab, pending, fn, asked, out>>
  BY DEF MgrLookup, ToManager, ServeMissing, ServePlain, ServeIn, ServeOut, ToServer
<1>2. \E r : Reply(c, r)
  BY DEF MgrLookup, ServeMissing, ServePlain, ServeIn, ServeOut
<1>3. DOMAIN moved' = Clients
  BY DEF MgrLookup, ServeMissing, ServePlain, ServeIn, ServeOut, Fits, Domains
<1> QED
  BY <1>1, <1>2, <1>3, AnswerFits

LEMMA DoneFits ==
  ASSUME Fits, NEW c \in Clients,
         OpenFails(c) \/ OpenDone(c) \/ SimpleDone(c) \/ InDone(c) \/ OutDone(c)
  PROVE  Fits'
<1>1. /\ ans[c] # Nil /\ fn[c].name # "path" /\ Leave(c)
      /\ UNCHANGED <<tab, pending, req, asked>>
  BY DEF OpenFails, OpenDone, SimpleDone, InDone, OutDone, Answered
<1>2. DOMAIN moved' = Clients /\ DOMAIN out' = Clients
  BY DEF OpenFails, OpenDone, SimpleDone, InDone, OutDone, Fits, Domains
<1> QED
  BY <1>1, <1>2, LeaveFits

LEMMA FitsStep ==
  ASSUME Fits, [Next]_vars
  PROVE  Fits'
<1>1. ASSUME UNCHANGED <<tab, pending, fn, req, ans, asked, moved, out>>
      PROVE  Fits'
  BY <1>1 DEF Fits, Domains, PublishedAsAsked, Used, PendingFits, InFunction, RequestFits
<1>2. CASE UNCHANGED vars
  BY <1>1, <1>2 DEF vars
<1>3. CASE \E s \in Servers : ServerStops(s)
  BY <1>3, ServerStopsFits
<1>4. ASSUME NEW c \in Clients,
             \/ \E len \in Lengths : GrantFails(c, AreaAt, len)
             \/ Unmap(c) \/ Remap(c)
      PROVE  Fits'
  BY <1>1, <1>4 DEF GrantFails, Unmap, Remap
<1> QED
  BY <1>2, <1>3, <1>4, MgrPathFits, MgrRegisterFits, MgrUnregisterFits, ServeFits,
     CallsFit, RegisterRestFits, OpenFoundFits, DoneFits DEF Next

(* A published name leads to a server that somebody published under that    *)
(* name, and to one only, whatever registrations overlap: the pending path  *)
(* is only used by the client that announced it (registry.c, mgr_server).   *)
THEOREM RegistryCorrect == Spec => []PublishedAsAsked
<1>1. Fits => PublishedAsAsked
  BY DEF Fits
<1> QED
  BY <1>1, InitFits, FitsStep, PTL DEF Spec

-----------------------------------------------------------------------------
(* Grants.                                                                  *)

LEMMA MinIn ==
  ASSUME NEW S \in SUBSET Nat, S # {}
  PROVE  Min(S) \in S
<1> DEFINE R == {ss \in Nat \X Nat : ss[1] < ss[2]}
<1>1. IsWellFoundedOn(R, Nat)
  BY NatLessThanWellFounded, Zenon DEF OpToRel
<1>2. PICK x \in S : \A y \in S : ~ (<<y, x>> \in R)
  <2> HIDE DEF R
  <2> QED
    BY <1>1, WFMin
<1>3. \A y \in S : x <= y
  <2> SUFFICES ASSUME NEW y \in S, y < x
               PROVE  FALSE
    OBVIOUS
  <2>1. <<y, x>> \in Nat \X Nat /\ <<y, x>>[1] < <<y, x>>[2]
    OBVIOUS
  <2>2. <<y, x>> \in R
    BY <2>1
  <2> QED
    BY <1>2, <2>2
<1> QED
  BY <1>3 DEF Min

(* Nothing of client d's handle and memory changes.                         *)
SameLoans(d) ==
  /\ dev'[d] = dev[d] /\ (d \in mapped' <=> d \in mapped)
  /\ \A s : <<d, s>> \in granted' <=> <<d, s>> \in granted

Handles == [server : Servers \cup {Nil}, grant : Grants \cup {Nil}]

LEMMA TrackFrame ==
  ASSUME Tracked, NEW c \in Clients, OnlyClient(c),
         \A d \in Clients \ {c} : SameLoans(d),
         dev' \in [Clients -> Handles], granted' \subseteq Clients \X Servers,
         HandleFits(c)', MayTouch(c)', Lends(c)'
  PROVE  Tracked'
<1>1. ASSUME NEW d \in Clients, d # c
      PROVE  HandleFits(d)' /\ MayTouch(d)' /\ Lends(d)'
  <2>1. SameCall(d) /\ SameLoans(d) /\ HandleFits(d) /\ MayTouch(d) /\ Lends(d)
    BY <1>1 DEF Tracked, OnlyClient
  <2>2. HandleFits(d)'
    BY <2>1 DEF SameCall, SameLoans, HandleFits
  <2>3. MayTouch(d)'
    BY <2>1 DEF SameCall, SameLoans, MayTouch
  <2>4. Lends(d)'
    BY <2>1 DEF SameLoans, Lends
  <2> QED
    BY <2>2, <2>3, <2>4
<1> QED
  BY <1>1 DEF Tracked, Handles

(* Handles and memory stay.                                                 *)
LEMMA TrackQuiet ==
  ASSUME Tracked, NEW c \in Clients, OnlyClient(c), UNCHANGED <<dev, mapped, granted>>,
         HandleFits(c)', MayTouch(c)'
  PROVE  Tracked'
<1>1. /\ \A d \in Clients \ {c} : SameLoans(d)
      /\ Lends(c)' /\ dev' \in [Clients -> Handles] /\ granted' \subseteq Clients \X Servers
  BY DEF SameLoans, Lends, Tracked, Handles
<1> QED
  BY <1>1, TrackFrame

(* What the manager finds is a server.                                      *)
LEMMA FoundIsServer ==
  ASSUME Fits, NEW p, At(p) # {}
  PROVE  tab[Min(At(p))].server \in Servers
<1>1. At(p) \in SUBSET Nat /\ At(p) \subseteq Used
  BY InputAssumption DEF At, Used
<1>2. Min(At(p)) \in Used
  BY <1>1, MinIn
<1>3. <<tab[Min(At(p))].path, tab[Min(At(p))].server>> \in Paths \X Servers
  BY <1>2 DEF Fits, PublishedAsAsked
<1> QED
  BY <1>3

LEMMA RepliesTracked ==
  ASSUME Fits, Tracked, NEW c \in Clients, req[c] # Nil,
         NEW r, r.server \in Servers \cup {Nil}, Reply(c, r),
         UNCHANGED <<fn, dev, mapped, granted>>
  PROVE  Tracked'
<1>1. OnlyClient(c) /\ req'[c] = Nil /\ ans'[c] = r
  BY Replied DEF Reply, Fits, Domains
<1>2. HandleFits(c)' /\ MayTouch(c)'
  BY <1>1 DEF Tracked, HandleFits, MayTouch
<1> QED
  BY <1>1, <1>2, TrackQuiet

LEMMA ServersTracked ==
  ASSUME Fits, Tracked, NEW c \in Clients,
         \/ MgrPath(c) \/ MgrRegister(c) \/ MgrUnregister(c) \/ MgrLookup(c)
         \/ \E s \in Servers :
              \/ ServeMissing(c, s)
              \/ \E rc \in {0, ERROR} : ServePlain(c, s, rc)
              \/ \E n \in Counts : ServeIn(c, s, n) \/ ServeOut(c, s, n)
  PROVE  Tracked'
<1>1. req[c] # Nil /\ UNCHANGED <<fn, dev, mapped, granted>>
  BY DEF MgrPath, MgrRegister, MgrUnregister, MgrLookup, ToManager,
     ServeMissing, ServePlain, ServeIn, ServeOut, ToServer
<1>2. \E r : r.server \in Servers \cup {Nil} /\ Reply(c, r)
  <2>1. ASSUME NEW w
        PROVE  Word(w).server \in Servers \cup {Nil}
    BY DEF Word
  <2>2. CASE MgrLookup(c)
    BY <2>1, <2>2, FoundIsServer DEF MgrLookup
  <2>3. CASE ~MgrLookup(c)
    BY <2>1, <2>3 DEF MgrPath, MgrRegister, MgrUnregister, ServeMissing, ServePlain,
       ServeIn, ServeOut
  <2> QED
    BY <2>2, <2>3
<1> QED
  BY <1>1, <1>2, RepliesTracked

(* What entering a function does to the client's call.                      *)
LEMMA EnterCall ==
  ASSUME Fits, NEW c \in Clients, Idle(c), NEW f, Enter(c, f), NEW m, Call(c, m)
  PROVE  /\ OnlyClient(c) /\ fn'[c] = f
         /\ \/ req'[c] = m /\ ans'[c] = Nil
            \/ req'[c] = Nil /\ ans'[c] = Word(ERROR) /\ m.to # Nil
<1>1. req[c] = Nil /\ ans[c] = Nil
  BY DEF Fits, InFunction, Idle
<1> QED
  BY <1>1 DEF Fits, Domains, Enter, Call, OnlyClient, SameCall

(* Functions that leave the handle alone and send no buffer by address.     *)
LEMMA PlainCallsTracked ==
  ASSUME Fits, Tracked, NEW c \in Clients, Idle(c), NEW f, Enter(c, f), NEW m, Call(c, m),
         f.name \notin {"lookup", "open"}, m.label \in Transfers => m.inline \/ m.words[1] = 0,
         UNCHANGED <<dev, mapped, granted>>
  PROVE  Tracked'
<1>1. /\ OnlyClient(c) /\ fn'[c] = f /\ req'[c] \in {m, Nil}
  BY EnterCall
<1>2. HandleFits(c)' /\ MayTouch(c)'
  BY <1>1 DEF HandleFits, MayTouch
<1> QED
  BY <1>1, <1>2, TrackQuiet

LEMMA CallsTracked ==
  ASSUME Fits, Tracked, NEW c \in Clients,
         \/ \E p \in Paths : (\E s \in Servers : Register(c, p, s)) \/ Unregister(c, p)
         \/ \E label \in {"INFO", "IOCTL"} : Plain(c, label)
         \/ \E len \in Lengths, label \in Transfers : SendInline(c, label, len)
         \/ \E label \in {"SUBMIT", "WAIT"} : SendEmpty(c, label)
  PROVE  Tracked'
<1>1. ASSUME NEW p \in Paths, NEW s \in Servers, Register(c, p, s)
      PROVE  Tracked'
  <2>1. PICK f, m : /\ f = [name |-> "path", server |-> s]
                    /\ m = [to |-> Nil, label |-> "PATH", path |-> p]
    OBVIOUS
  <2>2. f.name \notin {"lookup", "open"} /\ m.label \notin Transfers
    BY <2>1 DEF Transfers
  <2> QED
    BY <1>1, <2>1, <2>2, PlainCallsTracked DEF Register
<1>2. ASSUME NEW p \in Paths, Unregister(c, p)
      PROVE  Tracked'
  <2>1. PICK f, m : /\ f = [name |-> "simple"]
                    /\ m = [to |-> Nil, label |-> "UNREGISTER", path |-> p]
    OBVIOUS
  <2>2. f.name \notin {"lookup", "open"} /\ m.label \notin Transfers
    BY <2>1 DEF Transfers
  <2> QED
    BY <1>2, <2>1, <2>2, PlainCallsTracked DEF Unregister
<1>3. ASSUME NEW label \in {"INFO", "IOCTL"}, Plain(c, label)
      PROVE  Tracked'
  <2>1. PICK f, m : f = [name |-> "simple"] /\ m = [to |-> dev[c].server, label |-> label]
    OBVIOUS
  <2>2. f.name \notin {"lookup", "open"} /\ m.label \notin Transfers
    BY <2>1 DEF Transfers
  <2> QED
    BY <1>3, <2>1, <2>2, PlainCallsTracked DEF Plain
<1>4. ASSUME NEW len \in Lengths, NEW label \in Transfers, SendInline(c, label, len)
      PROVE  Tracked'
  <2>1. PICK f, m : /\ f = [name |-> label, len |-> len]
                    /\ m = Message(c, label, TRUE, <<len, 0>>)
    OBVIOUS
  <2>2. f.name \notin {"lookup", "open"} /\ m.inline
    BY <2>1 DEF Transfers, Message
  <2> QED
    BY <1>4, <2>1, <2>2, PlainCallsTracked DEF SendInline
<1>5. ASSUME NEW label \in {"SUBMIT", "WAIT"}, SendEmpty(c, label)
      PROVE  Tracked'
  <2>1. PICK f, m : /\ f = [name |-> label, len |-> 0]
                    /\ m = Message(c, label, FALSE, <<0, 0>>)
    OBVIOUS
  <2>2. f.name \notin {"lookup", "open"} /\ m.words[1] = 0
    BY <2>1 DEF Message
  <2> QED
    BY <1>5, <2>1, <2>2, PlainCallsTracked DEF SendEmpty
<1> QED
  BY <1>1, <1>2, <1>3, <1>4, <1>5

LEMMA HandleType ==
  ASSUME Tracked, NEW c \in Clients
  PROVE  dev[c].server \in Servers \cup {Nil} /\ dev[c].grant \in Grants \cup {Nil}
  BY DEF Tracked

LEMMA ClosedHandle == Closed \in Handles /\ Closed.server = Nil /\ Closed.grant = Nil
  BY DEF Closed, Handles

LEMMA OpenTracked ==
  ASSUME Fits, Tracked, CarefulClients, NEW c \in Clients, NEW p, Open(c, p)
  PROVE  Tracked'
<1>1. PICK f, m : /\ f = [name |-> "lookup"]
                  /\ m = [to |-> Nil, label |-> "LOOKUP", path |-> p]
  OBVIOUS
<1>2. /\ Idle(c) /\ Enter(c, f) /\ Call(c, m) /\ dev[c].server = Nil
      /\ dev' = [dev EXCEPT ![c] = Closed] /\ UNCHANGED <<mapped, granted>>
  BY <1>1 DEF Open, CarefulClients
<1>3. /\ OnlyClient(c) /\ req'[c] = m /\ ans'[c] = Nil
  BY <1>1, <1>2, EnterCall
<1>4. /\ dev'[c] = Closed /\ dev' \in [Clients -> Handles]
      /\ granted' \subseteq Clients \X Servers
      /\ \A d \in Clients \ {c} : SameLoans(d)
  BY <1>2, ClosedHandle DEF Tracked, Handles, SameLoans
<1>5. HandleFits(c)' /\ MayTouch(c)'
  BY <1>1, <1>3, <1>4, ClosedHandle DEF HandleFits, MayTouch, Transfers
<1>6. Lends(c)'
  BY <1>2, <1>4, ClosedHandle, NilAssumption DEF Tracked, Lends
<1> QED
  BY <1>3, <1>4, <1>5, <1>6, TrackFrame

LEMMA CloseTracked ==
  ASSUME Fits, Tracked, NEW c \in Clients, Close(c)
  PROVE  Tracked'
<1>1. PICK f, m, s : /\ f = [name |-> "simple"] /\ s = dev[c].server
                     /\ m = [to |-> dev[c].server, label |-> "CLOSE"]
  OBVIOUS
<1>2. /\ Idle(c) /\ Enter(c, f) /\ Call(c, m)
      /\ dev' = [dev EXCEPT ![c] = Closed] /\ UNCHANGED mapped
      /\ granted' = IF dev[c].grant # Nil THEN granted \ {<<c, s>>} ELSE granted
  BY <1>1 DEF Close
<1>3. OnlyClient(c) /\ fn'[c] = f /\ req'[c] \in {m, Nil}
  BY <1>2, EnterCall
<1>4. /\ dev'[c] = Closed /\ dev' \in [Clients -> Handles]
      /\ granted' \subseteq Clients \X Servers
      /\ \A d \in Clients \ {c} : SameLoans(d)
  BY <1>2, ClosedHandle DEF Tracked, Handles, SameLoans
<1>5. HandleFits(c)' /\ MayTouch(c)'
  BY <1>1, <1>3 DEF HandleFits, MayTouch, Transfers
<1>6. \A x \in Servers : <<c, x>> \notin granted'
  BY <1>1, <1>2 DEF Tracked, Lends
<1>7. Lends(c)'
  BY <1>4, <1>6, ClosedHandle DEF Lends
<1> QED
  BY <1>3, <1>4, <1>5, <1>7, TrackFrame

(* Sending a buffer by address: it was covered, or is lent now, or is       *)
(* static data.                                                             *)
LEMMA SendGrantedTracked ==
  ASSUME Fits, Tracked, CarefulClients, NEW c \in Clients, NEW label \in Transfers,
         NEW a \in Places, NEW len \in Lengths, SendGranted(c, label, a, len)
  PROVE  Tracked'
<1>1. PICK s, g, cached, lend, left :
        /\ s = dev[c].server /\ g = dev[c].grant
        /\ cached = Covered(g, a, len)
        /\ lend = (~cached /\ a = AreaAt /\ c \in mapped)
        /\ left = IF cached \/ g = Nil THEN granted ELSE granted \ {<<c, s>>}
  OBVIOUS
<1>2. PICK f, m : /\ f = [name |-> label, len |-> len]
                  /\ m = Message(c, label, FALSE, <<a, len>>)
  OBVIOUS
<1>3. /\ Idle(c) /\ s # Nil /\ Enter(c, f) /\ Call(c, m) /\ UNCHANGED mapped
      /\ a # StaticAt => c \in mapped
      /\ granted' = IF lend THEN left \cup {<<c, s>>} ELSE left
      /\ dev' = [dev EXCEPT ![c].grant =
                   IF cached THEN @ ELSE IF lend THEN [at |-> a, size |-> len] ELSE Nil]
  BY <1>1, <1>2 DEF SendGranted
<1>4. OnlyClient(c) /\ fn'[c] = f /\ req'[c] \in {m, Nil}
  BY <1>3, EnterCall
<1>5. PICK new : new = IF cached THEN g ELSE IF lend THEN [at |-> a, size |-> len] ELSE Nil
  OBVIOUS
<1>6. /\ s \in Servers /\ g \in Grants \cup {Nil} /\ new \in Grants \cup {Nil}
      /\ dev \in [Clients -> Handles]
  <2>1. [at |-> a, size |-> len] \in Grants
    BY DEF Grants
  <2> QED
    BY <1>1, <1>3, <1>5, <2>1, HandleType DEF Tracked, Handles
<1>7. cached => g # Nil
  BY <1>1 DEF Covered
<1>8. new # Nil <=> cached \/ lend
  <2>1. [at |-> a, size |-> len] # Nil
    BY NilAssumption DEF Grants
  <2> QED
    BY <1>5, <1>7, <2>1
<1>9. dev'[c] = [dev[c] EXCEPT !.grant = new]
  BY <1>1, <1>3, <1>5, <1>6
<1>10. /\ dev'[c].server = s /\ dev'[c].grant = new /\ dev'[c] \in Handles
  BY <1>1, <1>6, <1>9 DEF Handles
<1>11. /\ dev' \in [Clients -> Handles] /\ \A d \in Clients \ {c} : dev'[d] = dev[d]
  BY <1>3, <1>6, <1>10
<1>12. granted' \subseteq Clients \X Servers /\ \A d \in Clients \ {c} : SameLoans(d)
  <2>1. granted \subseteq Clients \X Servers
    BY DEF Tracked
  <2>2. \A d \in Clients \ {c} : \A x : <<d, x>> \in granted' <=> <<d, x>> \in granted
    BY <1>1, <1>3
  <2> QED
    BY <1>1, <1>3, <1>6, <1>11, <2>1, <2>2 DEF SameLoans
<1>13. \A x \in Servers : <<c, x>> \in granted <=> s = x /\ g # Nil
  BY <1>1 DEF Tracked, Lends
<1>14. \A x \in Servers : <<c, x>> \in granted' <=> s = x /\ (cached \/ lend)
  BY <1>1, <1>3, <1>6, <1>7, <1>13
<1>15. Lends(c)'
  <2>1. cached \/ lend => c \in mapped
    BY <1>1, <1>6, <1>7, <1>13 DEF Tracked, Lends
  <2> QED
    BY <1>3, <1>8, <1>10, <1>14, <2>1 DEF Lends
<1>16. MayTouch(c)'
  <2>1. m.label = label /\ m.to = s /\ m.words[1] = a
    BY <1>1, <1>2 DEF Message
  <2>2. a = StaticAt \/ cached \/ lend
    BY <1>1, <1>3 DEF CarefulClients
  <2>3. a = StaticAt \/ <<c, s>> \in granted'
    BY <1>6, <1>14, <2>2
  <2> QED
    BY <1>4, <2>1, <2>3 DEF MayTouch
<1>17. HandleFits(c)'
  BY <1>2, <1>4 DEF HandleFits, Transfers
<1> QED
  BY <1>4, <1>11, <1>12, <1>15, <1>16, <1>17, TrackFrame

(* An idle client waits for nothing.                                        *)
LEMMA IdleWaitsForNothing ==
  ASSUME Fits, NEW c \in Clients, Idle(c)
  PROVE  req[c] = Nil /\ ans[c] = Nil /\ fn[c] = Nil
  BY DEF Fits, InFunction, Idle

LEMMA MemoryTracked ==
  ASSUME Fits, Tracked, CarefulClients, NEW c \in Clients,
         \/ \E len \in Lengths : GrantFails(c, AreaAt, len)
         \/ Unmap(c) \/ Remap(c)
  PROVE  Tracked'
<1>1. /\ OnlyClient(c) /\ req'[c] = Nil /\ fn'[c] = Nil
      /\ fn' = fn /\ ans' = ans /\ req' = req
  BY IdleWaitsForNothing DEF GrantFails, Unmap, Remap, OnlyClient, SameCall
<1>2. HandleFits(c)' /\ MayTouch(c)'
  BY <1>1 DEF HandleFits, MayTouch
<1>3. dev \in [Clients -> Handles] /\ granted \subseteq Clients \X Servers /\ Lends(c)
  BY DEF Tracked, Handles
<1>4. CASE \E len \in Lengths : GrantFails(c, AreaAt, len)
  <2>1. PICK s, g : s = dev[c].server /\ g = dev[c].grant
    OBVIOUS
  <2>2. /\ granted' = (IF g = Nil THEN granted ELSE granted \ {<<c, s>>})
        /\ dev' = [dev EXCEPT ![c].grant = Nil] /\ UNCHANGED mapped
    BY <1>4, <2>1 DEF GrantFails
  <2>3. /\ dev'[c] = [dev[c] EXCEPT !.grant = Nil]
        /\ \A d \in Clients \ {c} : dev'[d] = dev[d]
    BY <1>3, <2>2
  <2>4. dev'[c] \in Handles /\ dev'[c].grant = Nil
    BY <1>3, <2>3 DEF Handles
  <2>5. /\ dev' \in [Clients -> Handles] /\ granted' \subseteq Clients \X Servers
        /\ \A d \in Clients \ {c} : SameLoans(d)
    BY <1>3, <2>2, <2>3, <2>4 DEF SameLoans
  <2>6. Lends(c)'
    BY <1>3, <2>1, <2>2, <2>4 DEF Lends
  <2> QED
    BY <1>1, <1>2, <2>5, <2>6, TrackFrame
<1>5. CASE Unmap(c)
  <2>1. /\ dev[c].grant = Nil /\ UNCHANGED dev
        /\ mapped' = mapped \ {c} /\ granted' = {g \in granted : g[1] # c}
    BY <1>5 DEF Unmap, CarefulClients
  <2>2. \A d \in Clients \ {c} : SameLoans(d)
    BY <2>1 DEF SameLoans
  <2>3. Lends(c)'
    BY <2>1 DEF Lends
  <2> QED
    BY <1>1, <1>2, <1>3, <2>1, <2>2, <2>3, TrackFrame
<1>6. CASE Remap(c)
  <2>1. UNCHANGED <<dev, granted>> /\ mapped' = mapped \cup {c}
    BY <1>6 DEF Remap
  <2>2. (\A d \in Clients \ {c} : SameLoans(d)) /\ Lends(c)'
    BY <1>3, <2>1 DEF SameLoans, Lends
  <2> QED
    BY <1>1, <1>2, <1>3, <2>1, <2>2, TrackFrame
<1> QED
  BY <1>4, <1>5, <1>6

LEMMA RegisterRestTracked ==
  ASSUME Fits, Tracked, NEW c \in Clients, RegisterRest(c)
  PROVE  Tracked'
<1>1. PICK f, m : /\ f = [name |-> "simple"]
                  /\ m = [to |-> Nil, label |-> "REGISTER", server |-> fn[c].server]
  OBVIOUS
<1>2. OnlyClient(c) /\ fn'[c] = f /\ req'[c] = m /\ UNCHANGED <<dev, mapped, granted>>
  BY <1>1 DEF RegisterRest, Fits, Domains, OnlyClient, SameCall
<1>3. HandleFits(c)' /\ MayTouch(c)'
  BY <1>1, <1>2 DEF HandleFits, MayTouch, Transfers
<1> QED
  BY <1>2, <1>3, TrackQuiet

LEMMA OpenFoundTracked ==
  ASSUME Fits, Tracked, NEW c \in Clients, OpenFound(c)
  PROVE  Tracked'
<1>1. PICK f, m, s : /\ f = [name |-> "open"] /\ s = ans[c].server
                     /\ m = [to |-> ans[c].server, label |-> "OPEN"]
  OBVIOUS
<1>2. /\ fn[c] # Nil /\ fn[c].name = "lookup" /\ ans[c] # Nil
      /\ dev' = [dev EXCEPT ![c].server = s] /\ UNCHANGED <<mapped, granted>>
  BY <1>1 DEF OpenFound, Answered
<1>3. req[c] = Nil /\ s \in Servers \cup {Nil} /\ dev[c].server = Nil /\ dev[c].grant = Nil
  BY <1>1, <1>2 DEF Fits, InFunction, Tracked, HandleFits
<1>4. OnlyClient(c) /\ fn'[c] = f /\ req'[c] \in {m, Nil}
  BY <1>1, <1>3 DEF OpenFound, Fits, Domains, OnlyClient, SameCall
<1>5. dev \in [Clients -> Handles] /\ granted \subseteq Clients \X Servers /\ Lends(c)
  BY DEF Tracked, Handles
<1>6. /\ dev'[c] = [dev[c] EXCEPT !.server = s]
      /\ \A d \in Clients \ {c} : dev'[d] = dev[d]
  BY <1>2, <1>5
<1>7. dev'[c] \in Handles /\ dev'[c].grant = Nil
  BY <1>3, <1>5, <1>6 DEF Handles
<1>8. /\ dev' \in [Clients -> Handles] /\ granted' \subseteq Clients \X Servers
      /\ \A d \in Clients \ {c} : SameLoans(d)
  BY <1>2, <1>5, <1>6, <1>7 DEF SameLoans
<1>9. HandleFits(c)' /\ MayTouch(c)'
  BY <1>1, <1>4, <1>7 DEF HandleFits, MayTouch, Transfers
<1>10. Lends(c)'
  BY <1>2, <1>3, <1>5, <1>7 DEF Lends
<1> QED
  BY <1>4, <1>8, <1>9, <1>10, TrackFrame

LEMMA DoneTracked ==
  ASSUME Fits, Tracked, NEW c \in Clients,
         OpenFails(c) \/ OpenDone(c) \/ SimpleDone(c) \/ InDone(c) \/ OutDone(c)
  PROVE  Tracked'
<1>1. ans[c] # Nil /\ fn[c] # Nil /\ Leave(c) /\ UNCHANGED <<req, mapped, granted>>
  BY DEF OpenFails, OpenDone, SimpleDone, InDone, OutDone, Answered
<1>2. OnlyClient(c) /\ fn'[c] = Nil /\ req'[c] = Nil
  BY <1>1 DEF Leave, Fits, Domains, InFunction, OnlyClient, SameCall
<1>3. HandleFits(c)' /\ MayTouch(c)'
  BY <1>2 DEF HandleFits, MayTouch
<1>4. CASE UNCHANGED dev
  BY <1>1, <1>2, <1>3, <1>4, TrackQuiet
<1>5. CASE ~UNCHANGED dev
  <2>1. OpenDone(c)
    BY <1>5 DEF OpenFails, SimpleDone, InDone, OutDone
  <2>2. dev[c].grant = Nil /\ Lends(c) /\ dev \in [Clients -> Handles]
    BY <1>1, <2>1 DEF OpenDone, Answered, Tracked, HandleFits, Handles
  <2>3. dev' = [dev EXCEPT ![c] = Closed]
    BY <1>5, <2>1, <2>2 DEF OpenDone
  <2>4. /\ dev'[c] = Closed /\ dev' \in [Clients -> Handles]
        /\ granted' \subseteq Clients \X Servers
        /\ \A d \in Clients \ {c} : SameLoans(d)
    BY <1>1, <2>2, <2>3, ClosedHandle DEF SameLoans, Tracked
  <2>5. Lends(c)'
    BY <1>1, <2>2, <2>4, ClosedHandle DEF Lends
  <2> QED
    BY <1>2, <1>3, <2>4, <2>5, TrackFrame
<1> QED
  BY <1>4, <1>5

LEMMA ServerStopsTracked ==
  ASSUME Fits, Tracked, NEW s \in Servers, ServerStops(s)
  PROVE  Tracked'
<1>1. UNCHANGED <<fn, dev, mapped, granted>>
  BY DEF ServerStops
<1>2. ASSUME NEW c \in Clients
      PROVE  HandleFits(c)' /\ MayTouch(c)' /\ Lends(c)'
  <2>1. (req'[c] = Nil /\ ans'[c].server = Nil) \/ (req'[c] = req[c] /\ ans'[c] = ans[c])
    BY DEF ServerStops, Word
  <2>2. HandleFits(c) /\ MayTouch(c) /\ Lends(c)
    BY DEF Tracked
  <2> QED
    BY <1>1, <2>1, <2>2 DEF HandleFits, MayTouch, Lends
<1> QED
  BY <1>1, <1>2 DEF Tracked

LEMMA TrackedStep ==
  ASSUME Fits, Tracked, CarefulClients, [Next]_vars
  PROVE  Tracked'
<1>1. CASE UNCHANGED vars
  BY <1>1 DEF vars, Tracked, HandleFits, MayTouch, Lends
<1>2. CASE \E s \in Servers : ServerStops(s)
  BY <1>2, ServerStopsTracked
<1> QED
  BY <1>1, <1>2, ServersTracked, CallsTracked, OpenTracked, CloseTracked,
     SendGrantedTracked, MemoryTracked, RegisterRestTracked, OpenFoundTracked,
     DoneTracked DEF Next

LEMMA InitTracked == Init => Tracked
<1> SUFFICES ASSUME Init
             PROVE  Tracked
  OBVIOUS
<1>1. dev \in [Clients -> Handles] /\ granted \subseteq Clients \X Servers
  BY ClosedHandle DEF Init
<1>2. ASSUME NEW c \in Clients
      PROVE  HandleFits(c) /\ MayTouch(c) /\ Lends(c)
  BY ClosedHandle DEF Init, HandleFits, MayTouch, Lends
<1> QED
  BY <1>1, <1>2 DEF Tracked, Handles

(* A device server never touches memory it may not, and keeps no buffer     *)
(* beyond the handle: the grant a handle records is the one the server has  *)
(* (client.c, ensure_grant and ulmk_close).                                 *)
THEOREM GrantsCorrect ==
  ASSUME CarefulClients
  PROVE  Spec => []BuffersGranted
<1>1. Fits /\ Tracked => BuffersGranted
  <2> SUFFICES ASSUME Fits, Tracked
               PROVE  BuffersGranted
    OBVIOUS
  <2>1. ServerMayTouch
    BY DEF Tracked, MayTouch, ServerMayTouch
  <2>2. GrantsTracked
    BY DEF Tracked, Lends, GrantsTracked
  <2> QED
    BY <2>1, <2>2 DEF BuffersGranted
<1>2. Init => Fits /\ Tracked
  BY InitFits, InitTracked
<1>3. Fits /\ Tracked /\ [Next]_vars => Fits' /\ Tracked'
  BY FitsStep, TrackedStep
<1> QED
  BY <1>1, <1>2, <1>3, PTL DEF Spec

-----------------------------------------------------------------------------
(* Transfers.                                                               *)

LEMMA MinOfThree ==
  ASSUME NEW a \in Int, NEW b \in Int, NEW c \in Int, a <= b, a <= c
  PROVE  Min({a, b, c}) = a
<1>1. \E x \in {a, b, c} : \A y \in {a, b, c} : x <= y
  OBVIOUS
<1>2. Min({a, b, c}) \in {a, b, c} /\ \A y \in {a, b, c} : Min({a, b, c}) <= y
  BY <1>1 DEF Min
<1> QED
  BY <1>2

LEMMA ErrorDecodes ==
  ASSUME NEW len
  PROVE  LET r == Received(len, ERROR, ERROR) IN r.ret = r.did /\ ~r.spoilt
<1>1. ERROR \in -16 .. -1
  BY DEF ERROR
<1> QED
  BY <1>1 DEF Received

(* An inline answer: the flag is in the upper half, the count below.        *)
LEMMA InlineDecodes ==
  ASSUME NEW len \in Nat, len <= INLINE_BYTES, NEW n \in Nat, n <= len
  PROVE  LET r == Received(len, n + F_INLINE, n) IN r.ret = r.did /\ ~r.spoilt
<1>1. (n + F_INLINE) % F_INLINE = n /\ n + F_INLINE \notin -16 .. -1
  BY DEF F_INLINE, INLINE_BYTES
<1>2. Min({n, len, INLINE_BYTES}) = n
  BY MinOfThree DEF INLINE_BYTES
<1>3. ~(len > INLINE_BYTES)
  BY DEF INLINE_BYTES
<1> QED
  BY <1>1, <1>2, <1>3 DEF Received

(* An answer by address, or to a call without a buffer: the bare count.     *)
LEMMA CountDecodes ==
  ASSUME NEW len \in Nat, len = 0 \/ len > INLINE_BYTES, NEW n \in Nat, n < F_INLINE
  PROVE  LET r == Received(len, n, n) IN r.ret = r.did /\ ~r.spoilt
<1>1. n % F_INLINE = n /\ n \div F_INLINE = 0 /\ n \notin -16 .. -1
  BY DEF F_INLINE
<1>2. ~(len > 0 /\ len <= INLINE_BYTES)
  BY DEF INLINE_BYTES
<1>3. 0 % 2 = 0
  OBVIOUS
<1>4. ~(len > 0 /\ ((n \div F_INLINE) % 2 = 1 \/ len <= INLINE_BYTES))
  BY <1>1, <1>2, <1>3
<1> QED
  BY <1>1, <1>4 DEF Received

LEMMA HonestFrame ==
  ASSUME Honest, NEW c \in Clients, OnlyClient(c), TransferFits(c)', ReturnedHonest(c)',
         \A d \in Clients \ {c} : moved'[d] = moved[d] /\ out'[d] = out[d]
  PROVE  Honest'
<1> SUFFICES ASSUME NEW d \in Clients, d # c
             PROVE  TransferFits(d)' /\ ReturnedHonest(d)'
  BY DEF Honest
<1>1. SameCall(d) /\ TransferFits(d) /\ ReturnedHonest(d)
      /\ moved'[d] = moved[d] /\ out'[d] = out[d]
  BY DEF Honest, OnlyClient
<1>2. AnswerHonest(d) => AnswerHonest(d)'
  BY <1>1 DEF SameCall, AnswerHonest
<1> QED
  BY <1>1, <1>2 DEF SameCall, TransferFits, ReturnedHonest

(* The client is in no transfer after the step, and has returned from none. *)
LEMMA HonestElsewhere ==
  ASSUME Fits, Honest, NEW c \in Clients, OnlyClient(c), UNCHANGED moved,
         fn'[c] # Nil => fn'[c].name \notin Transfers,
         out' = out \/ out' = [out EXCEPT ![c] = Nil]
  PROVE  Honest'
<1>1. TransferFits(c)' /\ ReturnedHonest(c)'
  BY DEF TransferFits, ReturnedHonest, Honest, Fits, Domains
<1>2. \A d \in Clients \ {c} : moved'[d] = moved[d] /\ out'[d] = out[d]
  BY DEF Fits, Domains
<1> QED
  BY <1>1, <1>2, HonestFrame

(* The answer to a transfer.                                                *)
LEMMA HonestAnswer ==
  ASSUME Fits, Honest, NEW c \in Clients, req[c] # Nil, NEW w, Reply(c, Word(w)), NEW n,
         moved'[c] = n, \A d \in Clients \ {c} : moved'[d] = moved[d], UNCHANGED <<fn, out>>,
         fn[c].name \in {"WRITE", "SUBMIT"} => w = n,
         fn[c].name \in {"READ", "WAIT"} =>
           LET r == Received(fn[c].len, w, n) IN r.ret = r.did /\ ~r.spoilt
  PROVE  Honest'
<1>1. /\ OnlyClient(c) /\ req'[c] = Nil /\ ans'[c].word = w /\ moved'[c] = n
      /\ fn'[c] = fn[c] /\ out'[c] = out[c]
      /\ \A d \in Clients \ {c} : moved'[d] = moved[d] /\ out'[d] = out[d]
  BY Replied DEF Fits, Domains, Reply, Word
<1>2. AnswerHonest(c)'
  BY <1>1 DEF AnswerHonest
<1>3. TransferFits(c)' /\ ReturnedHonest(c)'
  BY <1>1, <1>2 DEF TransferFits, ReturnedHonest, Honest
<1> QED
  BY <1>1, <1>3, HonestFrame

LEMMA ServeHonest ==
  ASSUME Fits, Honest, ShortTransfers, NEW c \in Clients, NEW s \in Servers,
         \/ ServeMissing(c, s)
         \/ \E n \in Counts : ServeIn(c, s, n) \/ ServeOut(c, s, n)
  PROVE  Honest'
<1>1. req[c] # Nil /\ fn[c] # Nil /\ RequestFits(c) /\ fn[c] \in Fns
  BY DEF ServeMissing, ServeIn, ServeOut, ToServer, Fits, InFunction
<1>2. CASE ServeMissing(c, s)
  <2>1. Reply(c, Word(ERROR)) /\ UNCHANGED <<fn, out, moved>>
    BY <1>2 DEF ServeMissing
  <2>2. CASE fn[c].name \in Transfers
    <3>1. moved'[c] = ERROR /\ \A d \in Clients \ {c} : moved'[d] = moved[d]
      BY <1>1, <2>1, <2>2 DEF Honest, TransferFits, Fits, Domains
    <3>2. PICK w, n : w = ERROR /\ n = ERROR
      OBVIOUS
    <3>3. LET r == Received(fn[c].len, w, n) IN r.ret = r.did /\ ~r.spoilt
      BY <3>2, ErrorDecodes
    <3>4. Reply(c, Word(w)) /\ moved'[c] = n /\ w = n
      BY <2>1, <3>1, <3>2
    <3> QED
      BY <1>1, <2>1, <3>1, <3>3, <3>4, HonestAnswer
  <2>3. CASE fn[c].name \notin Transfers
    BY <1>1, <2>1, <2>3, Replied, HonestElsewhere
  <2> QED
    BY <2>2, <2>3
<1>3. ASSUME NEW n \in Counts, ServeIn(c, s, n)
      PROVE  Honest'
  <2>1. fn[c].name \in {"WRITE", "SUBMIT"}
    BY <1>1, <1>3 DEF ServeIn, ToServer, RequestFits, Transfers
  <2>2. moved'[c] = n /\ \A d \in Clients \ {c} : moved'[d] = moved[d]
    BY <1>3 DEF ServeIn, Fits, Domains
  <2> QED
    BY <1>1, <1>3, <2>1, <2>2, HonestAnswer DEF ServeIn
<1>4. ASSUME NEW n \in Counts, ServeOut(c, s, n)
      PROVE  Honest'
  <2>1. /\ fn[c].name \in {"READ", "WAIT"} /\ req[c].label = fn[c].name
        /\ MayAnswer(req[c], n)
    BY <1>1, <1>4 DEF ServeOut, ToServer, RequestFits, Transfers
  <2>2. fn[c].len \in Lengths \cup {0}
    BY <1>1, <2>1 DEF Fns, Transfers
  <2>3. PICK len \in Nat : len = fn[c].len /\ len < F_INLINE
    BY <2>2, InputAssumption DEF ShortTransfers, F_INLINE
  <2>4. n \in Int /\ (n < 0 => n = ERROR) /\ n < F_INLINE
    BY InputAssumption DEF Counts, ERROR, F_INLINE, ShortTransfers
  <2>5. \/ len <= INLINE_BYTES /\ req[c].inline = TRUE /\ req[c].words[1] = len
        \/ (len = 0 \/ len > INLINE_BYTES) /\ req[c].inline = FALSE
    BY <1>1, <2>1, <2>3 DEF RequestFits, Transfers
  <2>6. req[c].inline = TRUE => n <= len
    <3>1. len % F_INLINE = len /\ (len <= INLINE_BYTES => Min({len, INLINE_BYTES}) = len)
      BY <2>3, MinOfTwo DEF F_INLINE, INLINE_BYTES
    <3> QED
      BY <2>1, <2>5, <3>1 DEF AskedLen, MayAnswer, Empty
  <2>7. PICK w : w = IF req[c].inline /\ n >= 0 THEN n + F_INLINE ELSE n
    OBVIOUS
  <2>8. LET r == Received(len, w, n) IN r.ret = r.did /\ ~r.spoilt
    <3>1. CASE n < 0
      <4>1. w = ERROR /\ n = ERROR
        BY <2>4, <2>7, <3>1
      <4> QED
        BY <4>1, ErrorDecodes
    <3>2. CASE n >= 0 /\ req[c].inline = TRUE
      <4>1. w = n + F_INLINE /\ len <= INLINE_BYTES /\ n \in Nat /\ n <= len
        BY <2>4, <2>5, <2>6, <2>7, <3>2
      <4> QED
        BY <4>1, InlineDecodes
    <3>3. CASE n >= 0 /\ req[c].inline = FALSE
      <4>1. w = n /\ (len = 0 \/ len > INLINE_BYTES) /\ n \in Nat
        BY <2>4, <2>5, <2>7, <3>3
      <4> QED
        BY <2>4, <4>1, CountDecodes
    <3>4. \/ n < 0
          \/ n >= 0 /\ req[c].inline = TRUE
          \/ n >= 0 /\ req[c].inline = FALSE
      BY <2>4, <2>5
    <3> QED
      BY <3>1, <3>2, <3>3, <3>4
  <2>9. /\ Reply(c, Word(w)) /\ moved'[c] = n /\ UNCHANGED <<fn, out>>
        /\ \A d \in Clients \ {c} : moved'[d] = moved[d]
    BY <1>4, <2>7 DEF ServeOut, Fits, Domains
  <2> QED
    BY <1>1, <2>1, <2>3, <2>8, <2>9, HonestAnswer
<1> QED
  BY <1>2, <1>3, <1>4

(* The other answers are to clients in no transfer.                         *)
LEMMA RepliesHonest ==
  ASSUME Fits, Honest, NEW c \in Clients,
         \/ MgrPath(c) \/ MgrRegister(c) \/ MgrUnregister(c) \/ MgrLookup(c)
         \/ \E s \in Servers, rc \in {0, ERROR} : ServePlain(c, s, rc)
  PROVE  Honest'
<1>1. req[c] # Nil /\ req[c].label \notin Transfers /\ UNCHANGED <<fn, moved, out>>
  BY DEF MgrPath, MgrRegister, MgrUnregister, MgrLookup, ToManager, ServePlain, ToServer,
     Transfers
<1>2. \E r : Reply(c, r)
  BY DEF MgrPath, MgrRegister, MgrUnregister, MgrLookup, ServePlain
<1>3. fn[c].name \notin Transfers
  BY <1>1 DEF Fits, InFunction, RequestFits, Transfers
<1> QED
  BY <1>1, <1>2, <1>3, Replied, HonestElsewhere

(* A client enters a function that is no transfer.                          *)
LEMMA EntersHonest ==
  ASSUME Fits, Honest, NEW c \in Clients, Idle(c), NEW f, Enter(c, f), NEW m, Call(c, m),
         f.name \notin Transfers, UNCHANGED moved
  PROVE  Honest'
<1>1. OnlyClient(c) /\ fn'[c] = f
  BY EnterCall
<1>2. out' = [out EXCEPT ![c] = Nil]
  BY DEF Enter
<1> QED
  BY <1>1, <1>2, HonestElsewhere

LEMMA CallsHonest ==
  ASSUME Fits, Honest, NEW c \in Clients,
         \/ \E p \in Paths : \/ \E s \in Servers : Register(c, p, s)
                             \/ Unregister(c, p) \/ Open(c, p)
         \/ Close(c)
         \/ \E label \in {"INFO", "IOCTL"} : Plain(c, label)
  PROVE  Honest'
<1>1. Idle(c) /\ UNCHANGED moved
  BY DEF Register, Unregister, Open, Close, Plain
<1>2. \E f : Enter(c, f) /\ f.name \notin Transfers
  <2>1. ASSUME NEW p, NEW s, Register(c, p, s)
        PROVE  \E f : Enter(c, f) /\ f.name \notin Transfers
    <3>1. PICK f : f = [name |-> "path", server |-> s]
      OBVIOUS
    <3> QED
      BY <2>1, <3>1 DEF Register, Transfers
  <2>2. PICK f, g : f = [name |-> "simple"] /\ g = [name |-> "lookup"]
    OBVIOUS
  <2>3. f.name \notin Transfers /\ g.name \notin Transfers
    BY <2>2 DEF Transfers
  <2> QED
    BY <2>1, <2>2, <2>3 DEF Unregister, Open, Close, Plain
<1>3. \E m : Call(c, m)
  BY DEF Register, Unregister, Open, Close, Plain
<1> QED
  BY <1>1, <1>2, <1>3, EntersHonest

(* A client starts a transfer: nothing has moved, and a server that is gone *)
(* is an error that decodes to one.                                         *)
LEMMA SendsHonest ==
  ASSUME Fits, Honest, NEW c \in Clients,
         \/ \E len \in Lengths, label \in Transfers :
              SendInline(c, label, len) \/ \E a \in Places : SendGranted(c, label, a, len)
         \/ \E label \in {"SUBMIT", "WAIT"} : SendEmpty(c, label)
  PROVE  Honest'
<1>1. Idle(c) /\ moved' = [moved EXCEPT ![c] = ERROR]
  BY DEF SendInline, SendGranted, SendEmpty
<1>2. PICK f : Enter(c, f)
  BY DEF SendInline, SendGranted, SendEmpty
<1>3. PICK m : Call(c, m)
  BY DEF SendInline, SendGranted, SendEmpty
<1>4. /\ OnlyClient(c) /\ fn'[c] = f
      /\ \/ req'[c] = m /\ ans'[c] = Nil
         \/ req'[c] = Nil /\ ans'[c] = Word(ERROR) /\ m.to # Nil
  BY <1>1, <1>2, <1>3, EnterCall
<1>5. /\ moved'[c] = ERROR /\ out'[c] = Nil
      /\ \A d \in Clients \ {c} : moved'[d] = moved[d] /\ out'[d] = out[d]
  BY <1>1, <1>2 DEF Enter, Fits, Domains
<1>6. ans'[c] # Nil => AnswerHonest(c)'
  <2> SUFFICES ASSUME ans'[c] # Nil
               PROVE  AnswerHonest(c)'
    OBVIOUS
  <2>1. PICK w : w = ERROR /\ ans'[c].word = w
    BY <1>4 DEF Word
  <2>2. LET r == Received(fn'[c].len, w, w) IN r.ret = r.did /\ ~r.spoilt
    BY <2>1, ErrorDecodes
  <2> QED
    BY <1>5, <2>1, <2>2 DEF AnswerHonest
<1>7. TransferFits(c)' /\ ReturnedHonest(c)'
  BY <1>5, <1>6 DEF TransferFits, ReturnedHonest
<1> QED
  BY <1>4, <1>5, <1>7, HonestFrame

LEMMA RestHonest ==
  ASSUME Fits, Honest, NEW c \in Clients,
         RegisterRest(c) \/ OpenFound(c) \/ OpenFails(c) \/ OpenDone(c) \/ SimpleDone(c)
  PROVE  Honest'
<1>1. UNCHANGED <<moved, out>>
  BY DEF RegisterRest, OpenFound, OpenFails, OpenDone, SimpleDone
<1>2. OnlyClient(c)
  BY DEF RegisterRest, OpenFound, OpenFails, OpenDone, SimpleDone, Leave, OnlyClient,
     SameCall, Fits, Domains
<1>3. fn'[c] # Nil => fn'[c].name \notin Transfers
  <2>1. PICK f, g : f = [name |-> "simple"] /\ g = [name |-> "open"]
    OBVIOUS
  <2>2. f.name \notin Transfers /\ g.name \notin Transfers
    BY <2>1 DEF Transfers
  <2>3. fn'[c] \in {f, g, Nil}
    BY <2>1 DEF RegisterRest, OpenFound, OpenFails, OpenDone, SimpleDone, Leave, Fits, Domains
  <2> QED
    BY <2>2, <2>3
<1> QED
  BY <1>1, <1>2, <1>3, HonestElsewhere

(* A transfer returns what its answer decodes to.                           *)
LEMMA DoneHonest ==
  ASSUME Fits, Honest, NEW c \in Clients, InDone(c) \/ OutDone(c)
  PROVE  Honest'
<1>1. /\ fn[c] # Nil /\ fn[c].name \in Transfers /\ ans[c] # Nil
      /\ Leave(c) /\ UNCHANGED req /\ moved' = [moved EXCEPT ![c] = 0]
  BY DEF InDone, OutDone, Answered, Transfers
<1>2. /\ OnlyClient(c) /\ fn'[c] = Nil
      /\ \A d \in Clients \ {c} : moved'[d] = moved[d]
  BY <1>1 DEF Leave, OnlyClient, SameCall, Fits, Domains
<1>3. AnswerHonest(c)
  BY <1>1 DEF Honest, TransferFits
<1>4. ReturnedHonest(c)' /\ \A d \in Clients \ {c} : out'[d] = out[d]
  <2>1. CASE InDone(c)
    <3>1. PICK r : r = [ret |-> ans[c].word, did |-> moved[c], spoilt |-> FALSE]
      OBVIOUS
    <3>2. r.ret = r.did /\ ~r.spoilt
      BY <1>3, <2>1, <3>1 DEF AnswerHonest, InDone, Answered
    <3>3. out' = [out EXCEPT ![c] = r]
      BY <2>1, <3>1 DEF InDone
    <3> QED
      BY <3>2, <3>3 DEF ReturnedHonest, Fits, Domains
  <2>2. CASE OutDone(c)
    <3>1. PICK r : r = Received(fn[c].len, ans[c].word, moved[c])
      OBVIOUS
    <3>2. r.ret = r.did /\ ~r.spoilt
      BY <1>3, <2>2, <3>1 DEF AnswerHonest, OutDone, Answered
    <3>3. out' = [out EXCEPT ![c] = r]
      BY <2>2, <3>1 DEF OutDone
    <3> QED
      BY <3>2, <3>3 DEF ReturnedHonest, Fits, Domains
  <2> QED
    BY <2>1, <2>2
<1>5. TransferFits(c)'
  BY <1>2 DEF TransferFits
<1> QED
  BY <1>2, <1>4, <1>5, HonestFrame

LEMMA ServerStopsHonest ==
  ASSUME Fits, Honest, NEW s \in Servers, ServerStops(s)
  PROVE  Honest'
<1> SUFFICES ASSUME NEW c \in Clients
             PROVE  TransferFits(c)' /\ ReturnedHonest(c)'
  BY DEF Honest
<1>1. /\ fn'[c] = fn[c] /\ out'[c] = out[c]
      /\ \/ /\ req'[c] = Nil /\ ans'[c] = Word(ERROR) /\ moved'[c] = ERROR
         \/ /\ req'[c] = req[c] /\ ans'[c] = ans[c] /\ moved'[c] = moved[c]
  BY DEF ServerStops
<1>2. TransferFits(c) /\ ReturnedHonest(c)
  BY DEF Honest
<1>3. CASE req'[c] = Nil /\ ans'[c] = Word(ERROR) /\ moved'[c] = ERROR
  <2>1. PICK w : w = ERROR /\ ans'[c].word = w /\ moved'[c] = w
    BY <1>3 DEF Word
  <2>2. LET r == Received(fn'[c].len, w, w) IN r.ret = r.did /\ ~r.spoilt
    BY <2>1, ErrorDecodes
  <2>3. AnswerHonest(c)'
    BY <2>1, <2>2 DEF AnswerHonest
  <2> QED
    BY <1>1, <1>2, <1>3, <2>3 DEF TransferFits, ReturnedHonest
<1>4. CASE req'[c] = req[c] /\ ans'[c] = ans[c] /\ moved'[c] = moved[c]
  BY <1>1, <1>2, <1>4 DEF TransferFits, ReturnedHonest, AnswerHonest
<1> QED
  BY <1>1, <1>3, <1>4

LEMMA HonestStep ==
  ASSUME Fits, Honest, ShortTransfers, [Next]_vars
  PROVE  Honest'
<1>1. ASSUME UNCHANGED <<fn, req, ans, moved, out>>
      PROVE  Honest'
  BY <1>1 DEF Honest, TransferFits, ReturnedHonest, AnswerHonest
<1>2. CASE UNCHANGED vars
  BY <1>1, <1>2 DEF vars
<1>3. CASE \E s \in Servers : ServerStops(s)
  BY <1>3, ServerStopsHonest
<1>4. ASSUME NEW c \in Clients,
             \/ \E len \in Lengths : GrantFails(c, AreaAt, len)
             \/ Unmap(c) \/ Remap(c)
      PROVE  Honest'
  BY <1>1, <1>4 DEF GrantFails, Unmap, Remap
<1> QED
  BY <1>2, <1>3, <1>4, ServeHonest, RepliesHonest, CallsHonest, SendsHonest, RestHonest,
     DoneHonest DEF Next

LEMMA InitHonest == Init => Honest
  BY DEF Init, Honest, TransferFits, ReturnedHonest

(* A transfer returns the count the server answered with and the data where *)
(* the server put it: the flag in the upper half of a reply is never taken  *)
(* for a count, nor a count for a flag (serve.c, ulmk_dev_serve, and        *)
(* client.c, ulmk_read and ulmk_dev_wait).  ShortTransfers is needed: a     *)
(* count of 65536 bytes would set the flag.                                 *)
THEOREM TransfersHonest ==
  ASSUME ShortTransfers
  PROVE  Spec => []TransferHonest
<1>1. Fits /\ Honest => TransferHonest
  BY DEF Honest, ReturnedHonest, TransferHonest
<1>2. Init => Fits /\ Honest
  BY InitFits, InitHonest
<1>3. Fits /\ Honest /\ [Next]_vars => Fits' /\ Honest'
  BY FitsStep, HonestStep
<1> QED
  BY <1>1, <1>2, <1>3, PTL DEF Spec
=============================================================================
