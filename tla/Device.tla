------------------------------- MODULE Device -------------------------------
(***************************************************************************)
(* The device manager (components/ulmk_device_manager): the registry and   *)
(* its server (registry.c), the loop of a device server (serve.c) and the  *)
(* client library (client.c).  Every library function is a sequence of     *)
(* endpoint calls; `req' holds the call a client is blocked in and `ans'   *)
(* the answer it has not looked at yet.  Servers receive, act and reply in *)
(* one step: they do nothing else, and the caller is blocked meanwhile.    *)
(*                                                                         *)
(* A pathname is its length, whether it starts with a slash, and who it    *)
(* names.  A client has static data, which everyone may read and write,    *)
(* and one memory area, which a server may touch only while it is granted. *)
(* A server is told apart by its thread; it has one endpoint.              *)
(***************************************************************************)
EXTENDS Integers, FiniteSets, FiniteSetsExt

CONSTANTS
  Clients, Servers, Nil,
  Paths,      \* [slash: BOOLEAN, len: Nat, id]
  Offers,     \* <<client, path, server>>: what clients register
  Users,      \* clients that open devices
  Slots,      \* 1 .. ULMK_DEV_MAX
  Ops,        \* server -> the operations that are not NULL
  Places,     \* addresses clients pass: members of StaticAt, AreaAt, AreaAt + n
  StaticAt,   \* a buffer in static data
  AreaAt,     \* the base of the client's area
  Lengths,    \* transfer sizes
  Careful     \* clients open closed handles only and unmap no buffer a handle has granted

INLINE_BYTES == 20
PATH_MAX == INLINE_BYTES + 1
F_INLINE == 65536          \* ULMK_DEV_F_INLINE << 16 in a reply's first word
ERROR == -3                \* any ULMK_E* value

\* What a client's stack frame and its handle hold.
Transfers == {"READ", "WRITE", "SUBMIT", "WAIT"}
Fns == [name : {"path"}, server : Servers] \cup [name : {"simple", "lookup", "open"}]
         \cup [name : Transfers, len : Lengths \cup {0}]
Grants == [at : Places, size : Lengths]

ASSUME NilAssumption == Nil \notin Servers \cup Fns \cup Grants
ASSUME InputAssumption ==
  /\ Paths \subseteq [slash : BOOLEAN, len : Nat, id : {p.id : p \in Paths}]
  /\ Lengths \subseteq Nat /\ Places \subseteq Nat \ {0} /\ AreaAt \in Places
  /\ Slots \subseteq Nat

VARIABLES
  tab,      \* g_tab
  pending,  \* g_pending_path and g_pending_tid, or Nil
  fn,       \* per client: the library function it is in and its arguments, or Nil
  req,      \* per client: the message it waits to be answered, or Nil
  ans,      \* per client: the reply words, or Nil
  dev,      \* per client: its handle, [server, grant] with server Nil when closed
  mapped,   \* clients whose area is mapped
  granted,  \* <<client, server>>: the server has an alias of the client's area
  up,       \* servers whose endpoint exists
  asked,    \* history: <<path, server>> some client asked to publish
  moved,    \* history: bytes the server moved in the client's transfer
  out       \* history: [ret, did, spoilt]: what the last transfer returned and did, or Nil

vars == <<tab, pending, fn, req, ans, dev, mapped, granted, up, asked, moved, out>>

Closed == [server |-> Nil, grant |-> Nil]

Init ==
  /\ tab = [i \in Slots |-> Nil]
  /\ pending = Nil
  /\ fn = [c \in Clients |-> Nil]
  /\ req = [c \in Clients |-> Nil]
  /\ ans = [c \in Clients |-> Nil]
  /\ dev = [c \in Clients |-> Closed]
  /\ mapped = Clients /\ granted = {} /\ up = Servers /\ asked = {}
  /\ moved = [c \in Clients |-> 0]
  /\ out = [c \in Clients |-> Nil]

-----------------------------------------------------------------------------
(* Pathnames. *)

\* ulmk_dev_path_ok: a slash, a name, and room for the NUL inline.
PathOk(p) == p.slash /\ p.len \in 2 .. INLINE_BYTES - 1

\* ulmk_dev_msg_pack_path and ulmk_dev_msg_unpack_path: the inline window cuts
\* what does not fit.
Carried(p) == [p EXCEPT !.len = Min({@, INLINE_BYTES})]

-----------------------------------------------------------------------------
(* The registry. *)

Used == {i \in Slots : tab[i] # Nil}
At(p) == {i \in Used : tab[i].path = p}
Free == Slots \ Used
Word(w) == [word |-> w, server |-> Nil]

\* ulmk_ep_reply: the answer ends the client's call.
Reply(c, r) == ans' = [ans EXCEPT ![c] = r] /\ req' = [req EXCEPT ![c] = Nil]
ToManager(c, label) == req[c] # Nil /\ req[c].to = Nil /\ req[c].label = label

\* mgr_server, ULMK_DEV_MGR_PATH.
MgrPath(c) ==
  /\ ToManager(c, "PATH")
  /\ IF PathOk(Carried(req[c].path))
     THEN pending' = [path |-> Carried(req[c].path), tid |-> c] /\ Reply(c, Word(0))
     ELSE UNCHANGED pending /\ Reply(c, Word(ERROR))
  /\ UNCHANGED <<tab, fn, dev, mapped, granted, up, asked, moved, out>>

\* Mutant: whoever registers next gets the path.
AnnouncedByAny(c) == pending # Nil

\* Whether the pending path is this sender's.
Announced(c) == pending # Nil /\ pending.tid = c

\* mgr_server, ULMK_DEV_MGR_REGISTER, with ulmk_dev_table_register: the path
\* is forgotten whether or not there was room.
MgrRegister(c) ==
  /\ ToManager(c, "REGISTER")
  /\ IF Announced(c)
     THEN LET ok == At(pending.path) = {} /\ Free # {} IN
          /\ tab' = IF ok THEN [tab EXCEPT ![Min(Free)] = [path |-> pending.path, server |-> req[c].server]] ELSE tab
          /\ pending' = Nil
          /\ Reply(c, Word(IF ok THEN 0 ELSE ERROR))
     ELSE UNCHANGED <<tab, pending>> /\ Reply(c, Word(ERROR))
  /\ UNCHANGED <<fn, dev, mapped, granted, up, asked, moved, out>>

\* mgr_server, ULMK_DEV_MGR_UNREGISTER: anyone may.
MgrUnregister(c) ==
  /\ ToManager(c, "UNREGISTER")
  /\ LET hit == At(Carried(req[c].path)) IN
     /\ tab' = [i \in Slots |-> IF hit # {} /\ i = Min(hit) THEN Nil ELSE tab[i]]
     /\ Reply(c, Word(IF hit # {} THEN 0 ELSE ERROR))
  /\ UNCHANGED <<pending, fn, dev, mapped, granted, up, asked, moved, out>>

\* mgr_server, ULMK_DEV_MGR_LOOKUP.
MgrLookup(c) ==
  /\ ToManager(c, "LOOKUP")
  /\ LET hit == At(Carried(req[c].path)) IN
     Reply(c, IF hit = {} THEN Word(ERROR) ELSE [word |-> 0, server |-> tab[Min(hit)].server])
  /\ UNCHANGED <<tab, pending, fn, dev, mapped, granted, up, asked, moved, out>>

-----------------------------------------------------------------------------
(* Device servers. *)

ToServer(c, s, ops) == req[c] # Nil /\ req[c].to = s /\ req[c].label \in ops

\* ulmk_dev_serve, a NULL operation.
ServeMissing(c, s) ==
  /\ ToServer(c, s, {"OPEN", "CLOSE", "READ", "WRITE", "INFO", "SUBMIT", "WAIT", "IOCTL"} \ Ops[s])
  /\ Reply(c, Word(ERROR))
  /\ UNCHANGED <<tab, pending, fn, dev, mapped, granted, up, asked, moved, out>>

\* ulmk_dev_serve, operations that move no data through a buffer.
ServePlain(c, s, rc) ==
  /\ ToServer(c, s, {"OPEN", "CLOSE", "INFO", "IOCTL"} \cap Ops[s])
  /\ Reply(c, Word(rc))
  /\ UNCHANGED <<tab, pending, fn, dev, mapped, granted, up, asked, moved, out>>

\* The length a server works with: words[0] under the inline flag, else
\* words[1].
AskedLen(m) == IF m.inline THEN Min({m.words[1] % F_INLINE, INLINE_BYTES}) ELSE m.words[2]

\* SUBMIT and WAIT with a first word of zero: the operation gets no buffer,
\* and what it answers is its own affair.
Empty(m) == ~m.inline /\ m.words[1] = 0
MayAnswer(m, n) == Empty(m) \/ n <= AskedLen(m)

\* ulmk_dev_serve, WRITE and SUBMIT: the count is the answer.
ServeIn(c, s, n) ==
  /\ ToServer(c, s, {"WRITE", "SUBMIT"} \cap Ops[s])
  /\ MayAnswer(req[c], n)
  /\ Reply(c, Word(n))
  /\ moved' = [moved EXCEPT ![c] = n]
  /\ UNCHANGED <<tab, pending, fn, dev, mapped, granted, up, asked, out>>

\* ulmk_dev_serve, READ and WAIT: an inline answer carries its data, and says
\* so in the upper half of the first word.
ServeOut(c, s, n) ==
  /\ ToServer(c, s, {"READ", "WAIT"} \cap Ops[s])
  /\ MayAnswer(req[c], n)
  /\ Reply(c, Word(IF req[c].inline /\ n >= 0 THEN n + F_INLINE ELSE n))
  /\ moved' = [moved EXCEPT ![c] = n]
  /\ UNCHANGED <<tab, pending, fn, dev, mapped, granted, up, asked, out>>

\* The server destroys its endpoint: calls waiting there end with an error.
ServerStops(s) ==
  /\ s \in up
  /\ up' = up \ {s}
  /\ LET cut == {c \in Clients : req[c] # Nil /\ req[c].to = s} IN
     /\ ans' = [c \in Clients |-> IF c \in cut THEN Word(ERROR) ELSE ans[c]]
     /\ req' = [c \in Clients |-> IF c \in cut THEN Nil ELSE req[c]]
     /\ moved' = [c \in Clients |-> IF c \in cut THEN ERROR ELSE moved[c]]
  /\ UNCHANGED <<tab, pending, fn, dev, mapped, granted, asked, out>>

-----------------------------------------------------------------------------
(* The client library. *)

\* ulmk_ep_call: queue the message, or fail at once when the endpoint is gone.
Call(c, m) ==
  IF m.to # Nil /\ m.to \notin up THEN ans' = [ans EXCEPT ![c] = Word(ERROR)] /\ UNCHANGED req
  ELSE req' = [req EXCEPT ![c] = m] /\ UNCHANGED ans

Idle(c) == fn[c] = Nil
Enter(c, f) == fn' = [fn EXCEPT ![c] = f] /\ out' = [out EXCEPT ![c] = Nil]
Answered(c, name) == fn[c] # Nil /\ fn[c].name = name /\ ans[c] # Nil
Leave(c) == fn' = [fn EXCEPT ![c] = Nil] /\ ans' = [ans EXCEPT ![c] = Nil]

\* ulmk_dev_register: first the path, then the rest.
Register(c, p, s) ==
  /\ Idle(c) /\ PathOk(p)
  /\ Enter(c, [name |-> "path", server |-> s])
  /\ Call(c, [to |-> Nil, label |-> "PATH", path |-> p])
  /\ asked' = asked \cup {<<p, s>>}
  /\ UNCHANGED <<tab, pending, dev, mapped, granted, up, moved>>

\* The manager makes the check made above again, so it never refuses the path.
RegisterRest(c) ==
  /\ Answered(c, "path") /\ ans[c].word = 0
  /\ fn' = [fn EXCEPT ![c] = [name |-> "simple"]]
  /\ req' = [req EXCEPT ![c] = [to |-> Nil, label |-> "REGISTER", server |-> fn[c].server]]
  /\ ans' = [ans EXCEPT ![c] = Nil]
  /\ UNCHANGED <<tab, pending, dev, mapped, granted, up, asked, moved, out>>

\* ulmk_dev_unregister.
Unregister(c, p) ==
  /\ Idle(c) /\ PathOk(p)
  /\ Enter(c, [name |-> "simple"])
  /\ Call(c, [to |-> Nil, label |-> "UNREGISTER", path |-> p])
  /\ UNCHANGED <<tab, pending, dev, mapped, granted, up, asked, moved>>

\* ulmk_open: look the path up, then open the device.
Open(c, p) ==
  /\ Idle(c) /\ PathOk(p)
  /\ Careful => dev[c].server = Nil
  /\ Enter(c, [name |-> "lookup"])
  /\ dev' = [dev EXCEPT ![c] = Closed]
  /\ Call(c, [to |-> Nil, label |-> "LOOKUP", path |-> p])
  /\ UNCHANGED <<tab, pending, mapped, granted, up, asked, moved>>

OpenFound(c) ==
  /\ Answered(c, "lookup") /\ ans[c].word = 0
  /\ fn' = [fn EXCEPT ![c] = [name |-> "open"]]
  /\ dev' = [dev EXCEPT ![c].server = ans[c].server]
  /\ IF ans[c].server \in up
     THEN req' = [req EXCEPT ![c] = [to |-> ans[c].server, label |-> "OPEN"]] /\ ans' = [ans EXCEPT ![c] = Nil]
     ELSE ans' = [ans EXCEPT ![c] = Word(ERROR)] /\ UNCHANGED req
  /\ UNCHANGED <<tab, pending, mapped, granted, up, asked, moved, out>>

OpenFails(c) ==
  /\ Answered(c, "lookup") /\ ans[c].word # 0
  /\ Leave(c)
  /\ UNCHANGED <<tab, pending, req, dev, mapped, granted, up, asked, moved, out>>

OpenDone(c) ==
  /\ Answered(c, "open")
  /\ dev' = [dev EXCEPT ![c] = IF ans[c].word = 0 THEN @ ELSE Closed]
  /\ Leave(c)
  /\ UNCHANGED <<tab, pending, req, mapped, granted, up, asked, moved, out>>

\* ulmk_close: takes the grant back first; the handle is closed whatever the
\* server answers.
Close(c) ==
  /\ Idle(c) /\ dev[c].server # Nil
  /\ granted' = IF dev[c].grant # Nil THEN granted \ {<<c, dev[c].server>>} ELSE granted
  /\ dev' = [dev EXCEPT ![c] = Closed]
  /\ Enter(c, [name |-> "simple"])
  /\ Call(c, [to |-> dev[c].server, label |-> "CLOSE"])
  /\ UNCHANGED <<tab, pending, mapped, up, asked, moved>>

\* ulmk_ioctl, ulmk_dev_info.
Plain(c, label) ==
  /\ Idle(c) /\ dev[c].server # Nil
  /\ Enter(c, [name |-> "simple"])
  /\ Call(c, [to |-> dev[c].server, label |-> label])
  /\ UNCHANGED <<tab, pending, dev, mapped, granted, up, asked, moved>>

SimpleDone(c) ==
  /\ Answered(c, "simple")
  /\ Leave(c)
  /\ UNCHANGED <<tab, pending, req, dev, mapped, granted, up, asked, moved, out>>

\* ulmk_write, ulmk_read, ulmk_dev_submit, ulmk_dev_wait of what fits a
\* message: the label says that it is inline.  Reading or writing nothing
\* returns without a call.
Message(c, label, inline, words) ==
  [to |-> dev[c].server, label |-> label, inline |-> inline, words |-> words]

SendInline(c, label, len) ==
  /\ Idle(c) /\ dev[c].server # Nil
  /\ len \in 1 .. INLINE_BYTES
  /\ Enter(c, [name |-> label, len |-> len])
  /\ Call(c, Message(c, label, TRUE, <<len, 0>>))
  /\ moved' = [moved EXCEPT ![c] = ERROR]
  /\ UNCHANGED <<tab, pending, dev, mapped, granted, up, asked>>

\* ulmk_dev_submit, ulmk_dev_wait of nothing: a null address under a plain
\* label.  The second word is not written, and no server looks at it.
SendEmpty(c, label) ==
  /\ Idle(c) /\ dev[c].server # Nil
  /\ Enter(c, [name |-> label, len |-> 0])
  /\ Call(c, Message(c, label, FALSE, <<0, 0>>))
  /\ moved' = [moved EXCEPT ![c] = ERROR]
  /\ UNCHANGED <<tab, pending, dev, mapped, granted, up, asked>>

\* Mutant: an empty record covers everything.
CoveredFrom(g, a, len) == a >= (IF g = Nil THEN 0 ELSE g.at)

\* Whether the range granted last covers the buffer: ensure_grant.
Covered(g, a, len) == g # Nil /\ a >= g.at /\ a + len <= g.at + g.size

\* ... and of more: ensure_grant, then the address.  A buffer that is not the
\* base of an area cannot be granted and is passed all the same.
SendGranted(c, label, a, len) ==
  LET s == dev[c].server
      cached == Covered(dev[c].grant, a, len)
      lend == ~cached /\ a = AreaAt /\ c \in mapped
      left == IF cached \/ dev[c].grant = Nil THEN granted ELSE granted \ {<<c, s>>}
  IN
  /\ Idle(c) /\ s # Nil
  /\ len > INLINE_BYTES
  /\ a # StaticAt => c \in mapped
  /\ lend => <<c, s>> \notin left
  /\ granted' = IF lend THEN left \cup {<<c, s>>} ELSE left
  /\ dev' = [dev EXCEPT ![c].grant = IF cached THEN @ ELSE IF lend THEN [at |-> a, size |-> len] ELSE Nil]
  /\ Enter(c, [name |-> label, len |-> len])
  /\ Call(c, Message(c, label, FALSE, <<a, len>>))
  /\ moved' = [moved EXCEPT ![c] = ERROR]
  /\ UNCHANGED <<tab, pending, mapped, up, asked>>

\* ensure_grant fails: no memory for the alias, or the server has it already.
GrantFails(c, a, len) ==
  /\ Idle(c) /\ dev[c].server # Nil
  /\ len > INLINE_BYTES /\ a = AreaAt /\ c \in mapped
  /\ ~Covered(dev[c].grant, a, len)
  /\ granted' = IF dev[c].grant = Nil THEN granted ELSE granted \ {<<c, dev[c].server>>}
  /\ dev' = [dev EXCEPT ![c].grant = Nil]
  /\ UNCHANGED <<tab, pending, fn, req, ans, mapped, up, asked, moved, out>>

\* The end of ulmk_write and ulmk_dev_submit.
InDone(c) ==
  /\ Answered(c, "WRITE") \/ Answered(c, "SUBMIT")
  /\ out' = [out EXCEPT ![c] = [ret |-> ans[c].word, did |-> moved[c], spoilt |-> FALSE]]
  /\ moved' = [moved EXCEPT ![c] = 0]
  /\ Leave(c)
  /\ UNCHANGED <<tab, pending, req, dev, mapped, granted, up, asked>>

\* Mutant: the flag is taken for part of the count.
ReceivedWhole(len, w, did) ==
  IF w < 0 THEN [ret |-> w, did |-> did, spoilt |-> FALSE]
  ELSE [ret |-> IF len \in 1 .. INLINE_BYTES THEN Min({w, len}) ELSE w, did |-> did, spoilt |-> FALSE]

\* The end of ulmk_read and ulmk_dev_wait: the lower half of the word is the
\* count; inline data is copied out of the message over the buffer, if any.
Received(len, w, did) ==
  LET count == w % F_INLINE
      inline == len > 0 /\ ((w \div F_INLINE) % 2 = 1 \/ len <= INLINE_BYTES)
      got == IF inline THEN Min({count, len, INLINE_BYTES}) ELSE count
  IN IF w \in -16 .. -1 THEN [ret |-> w, did |-> did, spoilt |-> FALSE]
     ELSE [ret |-> got, did |-> did, spoilt |-> inline /\ got > 0 /\ len > INLINE_BYTES]

OutDone(c) ==
  /\ Answered(c, "READ") \/ Answered(c, "WAIT")
  /\ out' = [out EXCEPT ![c] = Received(fn[c].len, ans[c].word, moved[c])]
  /\ moved' = [moved EXCEPT ![c] = 0]
  /\ Leave(c)
  /\ UNCHANGED <<tab, pending, req, dev, mapped, granted, up, asked>>

\* The client unmaps its area, which takes it from every server, or maps it
\* again at the same address.
Unmap(c) ==
  /\ Idle(c) /\ c \in mapped
  /\ Careful => dev[c].grant = Nil
  /\ mapped' = mapped \ {c}
  /\ granted' = {g \in granted : g[1] # c}
  /\ UNCHANGED <<tab, pending, fn, req, ans, dev, up, asked, moved, out>>

Remap(c) ==
  /\ Idle(c) /\ c \notin mapped
  /\ mapped' = mapped \cup {c}
  /\ UNCHANGED <<tab, pending, fn, req, ans, dev, granted, up, asked, moved, out>>

-----------------------------------------------------------------------------
Counts == {ERROR, 0} \cup Lengths

Next ==
  \/ \E c \in Clients :
       \/ MgrPath(c) \/ MgrRegister(c) \/ MgrUnregister(c) \/ MgrLookup(c)
       \/ \E s \in Servers :
            \/ ServeMissing(c, s)
            \/ \E rc \in {0, ERROR} : ServePlain(c, s, rc)
            \/ \E n \in Counts : ServeIn(c, s, n) \/ ServeOut(c, s, n)
       \/ \E p \in Paths :
            \/ \E s \in Servers : <<c, p, s>> \in Offers /\ Register(c, p, s)
            \/ Unregister(c, p)
            \/ c \in Users /\ Open(c, p)
       \/ RegisterRest(c)
       \/ OpenFound(c) \/ OpenFails(c) \/ OpenDone(c)
       \/ Close(c) \/ (\E label \in {"INFO", "IOCTL"} : Plain(c, label)) \/ SimpleDone(c)
       \/ \E len \in Lengths, label \in Transfers :
            SendInline(c, label, len) \/ \E a \in Places : SendGranted(c, label, a, len)
       \/ \E label \in {"SUBMIT", "WAIT"} : SendEmpty(c, label)
       \/ \E len \in Lengths : GrantFails(c, AreaAt, len)
       \/ InDone(c) \/ OutDone(c)
       \/ Unmap(c) \/ Remap(c)
  \/ \E s \in Servers : ServerStops(s)

Spec == Init /\ [][Next]_vars

-----------------------------------------------------------------------------
\* Two clients that register at the same time share the one pending path: a
\* published name leads to a server somebody published under that very name,
\* and to one only.
PublishedAsAsked ==
  \A i, j \in Used :
    /\ <<tab[i].path, tab[i].server>> \in asked
    /\ tab[i].path = tab[j].path => i = j

\* A device server never touches memory it may not: a buffer passed by address
\* is static data, or an area the server holds an alias of.  (A null address
\* is passed on as no buffer.)
ServerMayTouch ==
  \A c \in Clients :
    req[c] # Nil /\ req[c].label \in Transfers =>
      req[c].inline \/ req[c].words[1] \in {0, StaticAt} \/ <<c, req[c].to>> \in granted

\* The library's record of its grant is right: a server holds a client's area
\* exactly while a handle of that client says so, and then the client still
\* has it.
GrantsTracked ==
  /\ \A c \in Clients, s \in Servers :
       <<c, s>> \in granted <=> dev[c].server = s /\ dev[c].grant # Nil
  /\ \A g \in granted : g[1] \in mapped

\* Servers have the buffers they are sent and keep none beyond the handle
\* (ensure_grant, ulmk_close).
BuffersGranted == ServerMayTouch /\ GrantsTracked

\* A transfer returns what the server did, and leaves the data where it was put.
TransferHonest ==
  \A c \in Clients : out[c] # Nil => out[c].ret = out[c].did /\ ~out[c].spoilt
=============================================================================
