------------------------------ MODULE Station -------------------------------
(***************************************************************************)
(* The station functions of the API (esp_sta.c) and the lines they live    *)
(* by: joining and quitting an access point, and the address that          *)
(* eESPstaCopyIP keeps in espGlobal.dev.sta.                               *)
(*                                                                         *)
(* Requests are served one at a time, as ATCore has it in detail.  A line  *)
(* is parsed as RespLine has it; here the lines of an answer matter, and   *)
(* where the chunks that carry them end: a request completes at the end of *)
(* the first chunk that ends it, and what the device still has to say      *)
(* meets the next request, or none.  A semaphore given just as its request *)
(* times out is left to ATCore.                                            *)
(***************************************************************************)
EXTENDS RespLine, Naturals, Sequences

CONSTANTS
  Apps,    (* threads that call the API, in blocking mode                   *)
  Nobody,  (* stands for no thread                                          *)
  Ops,     (* what they call                                                *)
  MaxNet,  (* times the device gets an address (bound)                      *)
  MaxLines,(* lines of an answer and of the busy ones before it (bound)     *)
  Roams,   (* the device may lose and find its access point by itself       *)
  Late     (* an answer may come after the timeout of its request           *)

AllOps == {"join", "quit", "copy", "reset"}
NoOp == "none"
ASSUME StationAssumption ==
  /\ Nobody \notin Apps /\ Ops \subseteq AllOps /\ MaxNet \in Nat
  /\ MaxLines \in Nat
  /\ Roams \in BOOLEAN /\ Late \in BOOLEAN

VARIABLES
  pc,      \* each thread: "idle", about to "ask", "wait" for its request, about to
           \* "store" has_ip, to copy that field, or to "return" an address
  op,      \* the operation it is in, or a join or quit that reported espOK
  box,     \* mbox_cmd_req: the threads whose requests wait
  cur,     \* espGlobal.msg: whose request is served
  res,     \* its msg->res
  sync,    \* sem_th_sync
  sta,     \* espGlobal.dev.sta
  behind,  \* the text from offset 12 of recv_data_line_buf, as an address
  work,    \* lines the device has still to send
  chunk,   \* how many of them are in the chunk being parsed
  pend,    \* isEndOfATresp of that chunk
  net,     \* the device: 0, or the address it has
  nets,    \* addresses it has had (bound)
  seen,    \* history: the device's addresses during that operation
  out,     \* what eESPstaCopyIP has copied for its caller
  lost,    \* history: what may have spoiled that address
  astray,  \* history: a line met another request than its own, or a status a
           \* command that does not read it
  raced    \* history: has_ip was stored over what a status line or a reset that
           \* came before it had cleared

callVars == <<pc, op, out, lost>>
reqVars  == <<box, cur, res, sync>>
devVars  == <<work, net, nets>>
respVars == <<behind, chunk, pend>>
histVars == <<astray, raced>>
vars == <<callVars, reqVars, devVars, respVars, sta, seen, histVars>>

-----------------------------------------------------------------------------
(* Addresses and lines.                                                    *)

Nets == 0..MaxNet
\* The gateway comes between these two, and goes where they go.
Fields == {"ip", "nm"}
Unset == 0
NoField == "none"
Spoils == {"line", "race", "torn"}
Text(f, v) == [field |-> f, val |-> v]
NoText == Text(NoField, 0)

\* A line of the device in answer to a request of a, or Nobody.  A line as long
\* as covers offset 12 of the buffer, or a shorter one.
Line(k, a, f, v, long) == [kind |-> k, own |-> a, text |-> Text(f, v), long |-> long]
Long(k, a)  == Line(k, a, NoField, 0, TRUE)
Short(k, a) == Line(k, a, NoField, 0, FALSE)
Given(f, v, a) == Line("text", a, f, v, TRUE)

\* WIFI CONNECTED and WIFI GOT IP
Associate(a) == <<Long("joined", a), Long("text", a)>>

\* What the device may answer; it need not.
Answers(a, o) ==
  {<<>>} \cup
  CASE o = "join" ->
         {<<Long("joinerr", a), Short("text", a)>>}
         \cup (IF nets = MaxNet THEN {}
               ELSE IF net = 0 THEN {Associate(a) \o <<Short("ok", a)>>}
               ELSE {<<Long("gone", a)>> \o Associate(a) \o <<Short("ok", a)>>})
    [] o = "quit" ->
         IF net = 0 THEN {<<Short("ok", a)>>}
         ELSE {<<Short("ok", a), Long("gone", a)>>, <<Long("gone", a), Short("ok", a)>>}
    [] o = "copy" ->
         {<<Given("ip", net, a), Given("nm", net, a), Short("ok", a)>>}

Cmd(o) == CASE o = "join" -> "CWJAP" [] o = "quit" -> "CWQAP" [] o = "copy" -> "GMR"

NoSta == [connected |-> FALSE, hasIp |-> FALSE, addr |-> [f \in Fields |-> Unset]]

Init ==
  /\ pc = [a \in Apps |-> "idle"] /\ op = [a \in Apps |-> NoOp]
  /\ box = <<>> /\ cur = Nobody /\ res = "inprog" /\ sync = FALSE
  /\ sta = NoSta /\ behind = NoText
  /\ work = <<>> /\ chunk = 0 /\ pend = FALSE /\ net = 0 /\ nets = 0
  /\ seen = [a \in Apps |-> {}] /\ out = [a \in Apps |-> NoSta.addr]
  /\ lost = [a \in Apps |-> {}]
  /\ astray = FALSE /\ raced = FALSE

-----------------------------------------------------------------------------
(* The calls.                                                              *)

\* Only what reports espOK is remembered.
Returns(a, r) ==
  /\ pc' = [pc EXCEPT ![a] = "idle"]
  /\ op' = IF r = "ok" THEN op ELSE [op EXCEPT ![a] = NoOp]

Begins(a, o, at) ==
  /\ pc[a] = "idle" /\ o \in Ops
  /\ pc' = [pc EXCEPT ![a] = at] /\ op' = [op EXCEPT ![a] = o]
  /\ UNCHANGED <<out, lost>>
  /\ seen' = [seen EXCEPT ![a] = IF o \in {"copy", "quit"} THEN {net} ELSE {}]

\* A call that is one request.
Call(a, o) ==
  /\ o # "copy" /\ Begins(a, o, "wait")
  /\ box' = Append(box, a)
  /\ UNCHANGED <<cur, res, sync, devVars, respVars, sta, histVars>>

\* eESPstaCopyIP holds no lock: it looks whether an address is at hand,
AfterTest == IF sta.hasIp THEN "store" ELSE "ask"
CopyTest(a) ==
  /\ Begins(a, "copy", AfterTest)
  /\ UNCHANGED <<reqVars, devVars, respVars, sta, histVars>>

\* if not it calls eESPstaGetIP,
CopyAsk(a) ==
  /\ pc[a] = "ask"
  /\ pc' = [pc EXCEPT ![a] = "wait"] /\ box' = Append(box, a)
  /\ UNCHANGED <<op, out, lost, cur, res, sync, devVars, respVars, sta, seen, histVars>>

\* in either case it then marks the address as at hand,
CopyStore(a) ==
  /\ pc[a] = "store"
  /\ pc' = [pc EXCEPT ![a] = "ip"]
  /\ sta' = [sta EXCEPT !.hasIp = TRUE]
  /\ lost' = [lost EXCEPT ![a] = {c \in {"line", "race"} : IF c = "line" THEN astray ELSE raced}]
  /\ UNCHANGED <<op, out, reqVars, devVars, respVars, seen, histVars>>

\* and copies one field after the other.
CopyField(a, f) ==
  /\ pc[a] = f
  /\ pc' = [pc EXCEPT ![a] = IF f = "ip" THEN "nm" ELSE "return"]
  /\ out' = [out EXCEPT ![a][f] = sta.addr[f]]
  /\ UNCHANGED <<op, lost, reqVars, devVars, respVars, sta, seen, histVars>>

\* The caller has its address; nothing of the call is remembered.
CopyReturn(a) ==
  /\ pc[a] = "return"
  /\ pc' = [pc EXCEPT ![a] = "idle"] /\ op' = [op EXCEPT ![a] = NoOp]
  /\ out' = [out EXCEPT ![a] = NoSta.addr] /\ lost' = [lost EXCEPT ![a] = {}]
  /\ seen' = [seen EXCEPT ![a] = {}]
  /\ UNCHANGED <<reqVars, devVars, respVars, sta, histVars>>

\* The address changes under the hands of those who copy it.
Tear == lost' = [a \in Apps |-> IF pc[a] \in Fields /\ sta'.addr # sta.addr
                                THEN lost[a] \cup {"torn"} ELSE lost[a]]

\* Somebody is about to store has_ip, as found or as fetched.
Storing == \E a \in Apps : pc[a] = "store"

-----------------------------------------------------------------------------
(* The request thread.                                                     *)

\* The device answers a command; it may say that it is busy with the last one.
DevTake(a) ==
  IF work = <<>> THEN work' \in Answers(a, op[a])
  ELSE \/ UNCHANGED work
       \/ Len(work) < MaxLines /\ work' = <<Short("text", a)>> \o work

ReqTake ==
  /\ cur = Nobody /\ box # <<>> /\ chunk = 0 /\ op[Head(box)] # "reset"
  /\ cur' = Head(box) /\ box' = Tail(box) /\ res' = "inprog"
  /\ DevTake(Head(box))
  /\ UNCHANGED <<callVars, sync, net, nets, respVars, sta, seen, histVars>>

\* What the calls in progress have seen of the device.
Seeing == seen' = [a \in Apps |-> IF pc[a] = "idle" \/ op[a] = "reset" THEN seen[a]
                                  ELSE seen[a] \cup ({net'} \ {net})]

\* AT+RST by the reset pin, the receiver being off.
ReqReset ==
  LET a == Head(box) IN
  /\ cur = Nobody /\ box # <<>> /\ chunk = 0 /\ op[a] = "reset"
  /\ box' = Tail(box) /\ sta' = NoSta
  /\ work' = <<>> /\ net' = 0
  /\ Returns(a, "oknocmd")
  /\ Seeing /\ Tear
  /\ astray' = FALSE /\ raced' = Storing
  /\ UNCHANGED <<out, cur, res, sync, nets, respVars>>

\* The rest of an answer belongs to nobody once its request is complete.
Disown(a) == [i \in DOMAIN work |-> IF work[i].own = a THEN [work[i] EXCEPT !.own = Nobody]
                                                       ELSE work[i]]
Complete(r) ==
  /\ cur' = Nobody /\ res' = "inprog" /\ work' = Disown(cur)
  /\ IF op[cur] = "copy" /\ r = "ok"
       THEN pc' = [pc EXCEPT ![cur] = "store"] /\ UNCHANGED op
       ELSE Returns(cur, r)
  /\ seen' = IF r = "ok" THEN seen ELSE [seen EXCEPT ![cur] = {}]
  /\ UNCHANGED <<out, lost, box, net, nets, respVars, sta, histVars>>

ReqWake == cur # Nobody /\ chunk = 0 /\ sync /\ sync' = FALSE /\ Complete(res)
ReqTimeout ==
  /\ cur # Nobody /\ chunk = 0 /\ ~sync /\ (work = <<>> \/ Late)
  /\ UNCHANGED sync /\ Complete("timeout")

-----------------------------------------------------------------------------
(* The device and the response thread.                                     *)

\* The next lines arrive in one chunk.
DevSend ==
  /\ chunk = 0 /\ work # <<>>
  /\ chunk' \in 1..Len(work)
  /\ UNCHANGED <<callVars, reqVars, devVars, behind, pend, sta, seen, histVars>>

DevRoam ==
  /\ Roams /\ work = <<>> /\ (net = 0 => nets < MaxNet)
  /\ work' = IF net = 0 THEN Associate(Nobody) ELSE <<Long("gone", Nobody)>>
  /\ UNCHANGED <<callVars, reqVars, net, nets, respVars, sta, seen, histVars>>

\* vESPparseJoinStatus
JoinStatusKeepsIp(c) == [sta EXCEPT !.connected = c]
JoinStatus(c) == [sta EXCEPT !.connected = c, !.hasIp = FALSE]

\* vESPparseAPstaIP, at offset 12 of the buffer.
ParseAnyText(t) ==
  [sta EXCEPT !.addr = [f \in Fields \cup {t.field} |-> IF f = t.field THEN t.val ELSE @[f]]]
ParseAPstaIP(t) ==
  IF t.field \in Fields THEN [sta EXCEPT !.addr[t.field] = t.val] ELSE sta

\* What line l, with t behind offset 12, does to dev.sta.
StaAfterNoQuit(l, t) ==
  CASE op[cur] = "join" /\ l.kind = "joined" -> JoinStatus(TRUE)
    [] op[cur] = "copy" -> ParseAPstaIP(t)
    [] OTHER -> sta
StaAfter(l, t) ==
  CASE op[cur] = "join" /\ l.kind = "joined" -> JoinStatus(TRUE)
    [] op[cur] = "quit" /\ l.kind = "gone"   -> JoinStatus(FALSE)
    [] op[cur] = "copy" -> ParseAPstaIP(t)
    [] OTHER -> sta

\* The device has changed its mind as the line says.
Told(l) ==
  /\ net' = (CASE l.kind = "joined" -> nets + 1 [] l.kind = "gone" -> 0 [] OTHER -> net)
  /\ nets' = (IF l.kind = "joined" THEN nets + 1 ELSE nets)
  /\ Seeing

Status(l) == l.kind \in {"joined", "gone"}

\* WIFI CONNECTED is read in answer to AT+CWJAP only, WIFI DISCONNECT to AT+CWQAP.
Unread(l) ==
  /\ Status(l)
  /\ cur # Nobody => op[cur] # (IF l.kind = "joined" THEN "join" ELSE "quit")

\* One line; the lock is held until the chunk ends.
RespParse ==
  LET l == Head(work)
      t == IF l.long THEN l.text ELSE behind
  IN
  /\ chunk > 0 /\ chunk' = chunk - 1
  /\ work' = Tail(work) /\ behind' = t
  /\ Told(l)
  /\ astray' = (astray \/ l.own # cur \/ Unread(l))
  /\ raced' = IF Status(l) THEN Storing ELSE raced
  /\ IF cur = Nobody
       THEN UNCHANGED <<res, pend, sync, sta>>
       ELSE \E p \in ParseLine(Cmd(op[cur]), l.kind, res, pend) :
              /\ res' = p.res /\ pend' = (p.end /\ chunk > 1)
              /\ sta' = StaAfter(l, t)
              /\ sync' = (sync \/ (chunk = 1 /\ p.end))
  /\ Tear
  /\ UNCHANGED <<pc, op, out, box, cur>>

-----------------------------------------------------------------------------
Next ==
  \/ \E a \in Apps, o \in Ops : Call(a, o)
  \/ \E a \in Apps : CopyTest(a) \/ CopyAsk(a) \/ CopyStore(a) \/ CopyReturn(a)
  \/ \E a \in Apps, f \in Fields : CopyField(a, f)
  \/ ReqTake \/ ReqReset \/ ReqWake \/ ReqTimeout
  \/ DevSend \/ DevRoam \/ RespParse

Spec == Init /\ [][Next]_vars

-----------------------------------------------------------------------------
(* Properties.                                                             *)

\* Types; a thread waits when its request is queued or served.
TypeOK ==
  /\ pc \in [Apps -> {"idle", "ask", "wait", "store", "return"} \cup Fields] /\ op \in [Apps -> AllOps \cup {NoOp}]
  /\ box \in Seq(Apps) /\ cur \in Apps \cup {Nobody}
  /\ \A a \in Apps : pc[a] = "wait" <=> cur = a \/ \E i \in DOMAIN box : box[i] = a
  /\ res \in ResKinds /\ sync \in BOOLEAN /\ pend \in BOOLEAN
  /\ astray \in BOOLEAN /\ raced \in BOOLEAN
  /\ sta.connected \in BOOLEAN /\ sta.hasIp \in BOOLEAN /\ sta.addr \in [Fields -> Nets]
  /\ out \in [Apps -> [Fields -> Nets]] /\ lost \in [Apps -> SUBSET Spoils]
  /\ behind.field \in Fields \cup {NoField} /\ behind.val \in Nets
  /\ \A i \in DOMAIN work : work[i].kind \in LineKinds /\ work[i].own \in Apps \cup {Nobody}
  /\ chunk \in 0..Len(work) /\ net \in Nets /\ nets \in Nets

\* The last call of a was o and reported espOK.
Done(a, o) == pc[a] = "idle" /\ op[a] = o

\* A join that reports espOK has seen the device get an address meanwhile, and
\* a quit that does has seen it without one, however their lines are cut, mixed
\* with those of earlier requests, late, or nobody's (eESPparseStaJoinResult,
\* eESPparseStaQuitResult).
JoinOk == \A a \in Apps : Done(a, "join") => seen[a] \ {0} # {}
QuitOk == \A a \in Apps : Done(a, "quit") => 0 \in seen[a]

\* What eESPstaCopyIP reports is one address, all of it, that the device had
\* during the call (esp_sta.c:137-146), except when a line met the wrong request or
\* none that reads it, when has_ip was stored over what a status line or reset had
\* cleared, or when the address was written while it was being copied.
Copied(a) ==
  pc[a] = "return" => \E n \in seen[a] : \A f \in Fields : out[a][f] = n
CopiedIP == \A a \in Apps : lost[a] = {} => Copied(a)

\* When the device is quiet and no line has gone astray, is_connected is true, and
\* an address marked as at hand is that of the device but for a raced store of has_ip.
TracksDevice ==
  ~astray /\ work = <<>> /\ cur = Nobody =>
    /\ sta.connected = (net # 0)
    /\ ~raced /\ sta.hasIp => \A f \in Fields : sta.addr[f] = net

\* The address is that of the device, without exception (esp_parser.c:194).
AlwaysCopied == \A a \in Apps : Copied(a)
=============================================================================
