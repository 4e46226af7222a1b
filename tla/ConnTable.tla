----------------------------- MODULE ConnTable -----------------------------
(***************************************************************************)
(* The table of connections, espGlobal.dev: what the lines of the device   *)
(* make of it (eESPparseNetConnStatus, eESPparseCIPstatus in               *)
(* esp_parser.c) and how applications take a free connection, start it,    *)
(* close it and release it, and start and stop the server (esp_conn.c),    *)
(* while remote clients connect to that server and leave it.               *)
(*                                                                         *)
(* Requests reach the device one at a time (ATCore); each application      *)
(* blocks on its own.                                                      *)
(***************************************************************************)
EXTENDS Naturals, Sequences

CONSTANTS
  MaxConns,   (* ESP_CFG_MAX_CONNS                                          *)
  Apps,       (* application threads, each with one client connection       *)
  Server,     (* the server, and its callback evt_server                    *)
  NoCb,       (* the NULL callback                                          *)
  Junk,       (* what another command has where CIPSTART keeps its callback *)
  Ext,        (* connections are announced with +LINK_CONN, not n,CONNECT   *)
  Late,       (* a command may be carried out after its timeout             *)
  FreeRelease,(* a netconn is deleted whatever its connection has become    *)
  MaxCmds,    (* commands in the hands of the device (bound)                *)
  MaxVisits   (* remote clients that connect (bound)                        *)

Closed == "closed"

ASSUME ConnAssumption ==
  /\ MaxConns \in Nat \ {0} /\ MaxCmds \in Nat \ {0} /\ MaxVisits \in Nat
  /\ Server \notin Apps /\ NoCb \notin Apps /\ Junk \notin Apps
  /\ Server # NoCb /\ Server # Junk /\ NoCb # Junk /\ Closed \notin Apps \cup {Server}
  /\ Ext \in BOOLEAN /\ Late \in BOOLEAN /\ FreeRelease \in BOOLEAN

Links  == 0..(MaxConns - 1)
Owners == Apps \cup {Server}

VARIABLES
  conn,    \* dev.conns[]: status.flg.active, status.flg.client, cb
  bits,    \* dev.active_conns
  evt,     \* evt_server
  apc,     \* where each application is
  slot,    \* the connection it has chosen
  cur,     \* espGlobal.msg
  heard,   \* the end of its response has been parsed
  inbox,   \* the device: commands it has not carried out
  link,    \* the device: whose each of its connections is
  serving, \* the device: it lets remote clients connect
  wire,    \* lines it has sent that are not parsed yet
  visits   \* remote clients so far (bound)

vars == <<conn, bits, evt, apc, slot, cur, heard, inbox, link, serving, wire, visits>>

-----------------------------------------------------------------------------
ZeroConn == [active |-> FALSE, client |-> FALSE, cb |-> NoCb]
CmdKinds == {"start", "close", "status", "serve", "limit", "unserve"}
Command(k, a) == [cmd |-> k, app |-> a]
NoCmd == Command("none", NoCb)
Line(k, l, o) == [kind |-> k, link |-> l, own |-> o]
End(r) == Line(r, 0, Server)

Init ==
  /\ conn = [l \in Links |-> ZeroConn] /\ bits = {} /\ evt = NoCb
  /\ apc = [a \in Apps |-> "idle"] /\ slot = [a \in Apps |-> 0]
  /\ cur = NoCmd /\ heard = FALSE
  /\ inbox = <<>> /\ link = [l \in Links |-> Closed]
  /\ serving = FALSE /\ wire = <<>> /\ visits = 0

-----------------------------------------------------------------------------
(* Applications.                                                           *)

FirstOf(s) == {l \in s : \A k \in s : l <= k}
Goto(a, p) == apc' = [apc EXCEPT ![a] = p]

\* pxESPgetNxtAvailConn: the first connection that is not active, NULL if there
\* is none; nothing reserves it.
Free == {l \in Links : ~conn[l].active}
FirstFreePastEnd == IF Free = {} THEN {MaxConns} ELSE FirstOf(Free)
FirstFree == FirstOf(Free)
AppPick(a) ==
  /\ apc[a] = "idle"
  /\ \E l \in FirstFree : slot' = [slot EXCEPT ![a] = l]
  /\ Goto(a, "picked")
  /\ UNCHANGED <<conn, bits, evt, cur, heard, inbox, link, serving, wire, visits>>

\* eESPconnClientStart: refused if the connection has become active, queued
\* otherwise.  An application goes on either way.
AppStart(a) ==
  /\ apc[a] = "picked"
  /\ Goto(a, IF conn[slot[a]].active THEN "up" ELSE "start")
  /\ UNCHANGED <<conn, bits, evt, slot, cur, heard, inbox, link, serving, wire, visits>>

\* eESPconnClientClose, and eESPgetConnStatus.
AppClose(a) ==
  /\ apc[a] = "up" /\ Goto(a, "close")
  /\ UNCHANGED <<conn, bits, evt, slot, cur, heard, inbox, link, serving, wire, visits>>

AppStatus(a) ==
  /\ apc[a] = "idle" /\ Goto(a, "status")
  /\ UNCHANGED <<conn, bits, evt, slot, cur, heard, inbox, link, serving, wire, visits>>

\* eESPstartServer and eESPstopServer; the first asks AT+CIPSTO as well.
AppServer(a) ==
  /\ apc[a] = "idle" /\ (Goto(a, "serve") \/ Goto(a, "unserve"))
  /\ UNCHANGED <<conn, bits, evt, slot, cur, heard, inbox, link, serving, wire, visits>>

\* eESPnetconnDelete zeroes the connection, and leaves active_conns alone.
AppDelete(a) ==
  /\ apc[a] = "closed"
  /\ FreeRelease \/ (~conn[slot[a]].active /\ link[slot[a]] = Closed)
  /\ conn' = [conn EXCEPT ![slot[a]] = ZeroConn]
  /\ Goto(a, "idle")
  /\ UNCHANGED <<bits, evt, slot, cur, heard, inbox, link, serving, wire, visits>>

-----------------------------------------------------------------------------
(* The request thread.                                                     *)

ReqSend(a) ==
  /\ cur = NoCmd /\ apc[a] \in CmdKinds /\ Len(inbox) < MaxCmds
  /\ cur' = Command(apc[a], a) /\ heard' = FALSE
  /\ inbox' = Append(inbox, [cmd |-> apc[a], app |-> a, slot |-> slot[a]])
  /\ UNCHANGED <<conn, bits, evt, apc, slot, link, serving, wire, visits>>

\* The request is complete and its caller goes on.
Return(a) == Goto(a, CASE apc[a] = "start"  -> "up"
                       [] apc[a] = "close"  -> "closed"
                       [] apc[a] = "serve"  -> "limit"
                       [] OTHER             -> "idle")

ReqDone ==
  /\ cur # NoCmd /\ heard
  /\ Return(cur.app) /\ cur' = NoCmd /\ heard' = FALSE
  /\ UNCHANGED <<conn, bits, evt, slot, inbox, link, serving, wire, visits>>

\* The device has not answered in time: it never will, unless Late.
ReqTimeout ==
  /\ cur # NoCmd /\ ~heard
  /\ Late \/ inbox # <<>>
  /\ inbox' = IF Late THEN inbox ELSE <<>>
  /\ Return(cur.app) /\ cur' = NoCmd
  /\ UNCHANGED <<conn, bits, evt, slot, heard, link, serving, wire, visits>>

-----------------------------------------------------------------------------
(* The device.                                                             *)

Say(s) == wire' = wire \o s

\* The connections that are open, from the first to the last.
Open == {l \in Links : link[l] # Closed}
Listings ==
  {s \in UNION {[1..n -> Open] : n \in 0..MaxConns} :
     /\ \A l \in Open : \E i \in DOMAIN s : s[i] = l
     /\ \A i, j \in DOMAIN s : i < j => s[i] < s[j]}
Entries(s) == [i \in DOMAIN s |-> Line("entry", s[i], link[s[i]])]

\* It carries out its next command: a connection is opened, or not; it is
\* closed; or all are listed; or the server is started or stopped, or not.
DevCommand ==
  /\ inbox # <<>>
  /\ inbox' = Tail(inbox)
  /\ LET c == Head(inbox)  l == c.slot  open == link[l] # Closed IN
       \/ /\ c.cmd = "start" /\ ~open
          /\ link' = [link EXCEPT ![l] = c.app]
          /\ Say(<<Line("up", l, c.app), End("ok")>>) /\ UNCHANGED serving
       \/ /\ c.cmd = "close" /\ open
          /\ link' = [link EXCEPT ![l] = Closed]
          /\ Say(<<Line("down", l, link[l]), End("ok")>>) /\ UNCHANGED serving
       \/ /\ c.cmd \in {"start", "serve", "unserve"} \/ (c.cmd = "close" /\ ~open)
          /\ Say(<<End("err")>>) /\ UNCHANGED <<link, serving>>
       \/ /\ c.cmd \in {"serve", "unserve", "limit"}
          /\ serving' = (IF c.cmd = "limit" THEN serving ELSE c.cmd = "serve")
          /\ Say(<<End("ok")>>) /\ UNCHANGED link
       \/ /\ c.cmd = "status"
          /\ \E s \in Listings : Say(<<Line("status", 0, Server)>> \o Entries(s) \o <<End("ok")>>)
          /\ UNCHANGED <<link, serving>>
  /\ UNCHANGED <<conn, bits, evt, apc, slot, cur, heard, visits>>

\* A remote client is given the first link that is free.
DevVisit ==
  /\ serving /\ visits < MaxVisits /\ visits' = visits + 1
  /\ \E l \in FirstOf({k \in Links : link[k] = Closed}) :
       /\ link' = [link EXCEPT ![l] = Server]
       /\ Say(<<Line("up", l, Server)>>)
  /\ UNCHANGED <<conn, bits, evt, apc, slot, cur, heard, inbox, serving>>

\* The remote end closes a connection.
DevHangup ==
  /\ \E l \in Links : /\ link[l] # Closed
                      /\ link' = [link EXCEPT ![l] = Closed]
                      /\ Say(<<Line("down", l, link[l])>>)
  /\ UNCHANGED <<conn, bits, evt, apc, slot, cur, heard, inbox, serving, visits>>

-----------------------------------------------------------------------------
(* The response thread, a line at a time.                                  *)

Hears(k) == wire # <<>> /\ Head(wire).kind = k /\ wire' = Tail(wire)

\* +LINK_CONN says whether the device acts as a client; n,CONNECT does not, and
\* is taken for the answer to the AT+CIPSTART in progress, if one is.
ClientOf(c, line) == IF Ext THEN line.own # Server ELSE c.client \/ cur.cmd = "start"

\* msg->body.conn_start.cb for a client, nothing when no command is in progress;
\* evt_server for a server.
CallbackUntested(c, client) ==
  IF cur = NoCmd THEN evt ELSE IF cur.cmd = "start" THEN cur.app ELSE Junk
CallbackOf(c, client) ==
  CASE ~client -> evt
    [] client /\ cur = NoCmd -> c.cb
    [] client /\ cur.cmd = "start" -> cur.app
    [] OTHER -> Junk

\* eESPparseNetConnStatus, a connection opens.
RespUp ==
  /\ Hears("up")
  /\ LET l == Head(wire).link
         client == ClientOf(conn[l], Head(wire))
     IN /\ conn' = [conn EXCEPT ![l] = [active |-> TRUE, client |-> client,
                                       cb |-> CallbackOf(@, client)]]
        /\ bits' = bits \cup {l}
  /\ UNCHANGED <<evt, apc, slot, cur, heard, inbox, link, serving, visits>>

\* eESPparseNetConnStatus, a connection closes.
BitKept(l) == bits
BitCleared(l) == bits \ {l}
RespDown ==
  /\ Hears("down")
  /\ conn' = [conn EXCEPT ![Head(wire).link] = ZeroConn]
  /\ bits' = BitCleared(Head(wire).link)
  /\ UNCHANGED <<evt, apc, slot, cur, heard, inbox, link, serving, visits>>

\* eESPparseCIPstatus, only while AT+CIPSTATUS is in progress: the STATUS line
\* forgets all connections, an entry adds one and the part the device plays
\* in it.
RespStatus ==
  /\ Hears("status")
  /\ bits' = IF cur.cmd = "status" THEN {} ELSE bits
  /\ UNCHANGED <<conn, evt, apc, slot, cur, heard, inbox, link, serving, visits>>

RespEntry ==
  /\ Hears("entry")
  /\ LET l == Head(wire).link IN
       IF cur.cmd = "status"
       THEN /\ bits' = bits \cup {l}
            /\ conn' = [conn EXCEPT ![l].client = Head(wire).own # Server]
       ELSE UNCHANGED <<bits, conn>>
  /\ UNCHANGED <<evt, apc, slot, cur, heard, inbox, link, serving, visits>>

\* OK and ERROR; the OK of AT+CIPSERVER sets evt_server.
TCPserverEnAnyEnd(r) ==
  CASE cur.cmd = "serve" -> Server [] cur.cmd = "unserve" -> NoCb [] OTHER -> evt
TCPserverEn(r) ==
  CASE r = "ok" /\ cur.cmd = "serve"   -> Server
    [] r = "ok" /\ cur.cmd = "unserve" -> NoCb
    [] OTHER -> evt
RespEnd(r) ==
  /\ Hears(r)
  /\ heard' = (cur # NoCmd) /\ evt' = TCPserverEn(r)
  /\ UNCHANGED <<conn, bits, apc, slot, cur, inbox, link, serving, visits>>

-----------------------------------------------------------------------------
AppStep(a) == \/ AppPick(a) \/ AppStart(a) \/ AppClose(a) \/ AppStatus(a)
              \/ AppServer(a) \/ AppDelete(a) \/ ReqSend(a)
RespStep == RespUp \/ RespDown \/ RespStatus \/ RespEntry
            \/ RespEnd("ok") \/ RespEnd("err")

Next == \/ \E a \in Apps : AppStep(a)
        \/ ReqDone \/ ReqTimeout \/ DevCommand \/ DevVisit \/ DevHangup \/ RespStep

Spec == Init /\ [][Next]_vars

-----------------------------------------------------------------------------
(* Properties                                                              *)

\* Every variable has its type.
TypeOK ==
  /\ conn \in [Links -> [active : BOOLEAN, client : BOOLEAN,
                         cb : Owners \cup {NoCb, Junk}]]
  /\ bits \subseteq Links
  /\ evt \in {Server, NoCb} /\ serving \in BOOLEAN
  /\ apc \in [Apps -> CmdKinds \cup {"idle", "picked", "up", "closed"}]
  /\ slot \in [Apps -> Links]
  /\ cur \in {NoCmd} \cup [cmd : CmdKinds, app : Apps]
  /\ heard \in BOOLEAN
  /\ inbox \in Seq([cmd : CmdKinds, app : Apps, slot : Links])
  /\ Len(inbox) <= MaxCmds
  /\ link \in [Links -> Owners \cup {Closed}]
  /\ wire \in Seq([kind : {"up", "down", "status", "entry", "ok", "err"}, link : Links,
                   own : Owners])
  /\ visits \in 0..MaxVisits

\* Once every line has been parsed the table is the device's: each connection is
\* active exactly when the device has it open, and its bit in active_conns says
\* the same, although flag and bit are written by different lines.
TableTracks ==
  wire = <<>> => /\ \A l \in Links : conn[l].active <=> link[l] # Closed
                 /\ bits = {l \in Links : conn[l].active}

\* An active connection has the callback of the one it belongs to, and the part
\* the device plays in it: a client connection is never given the callback of
\* another command, or none at all, which vESPconnRunEvtCallback would call.
RoleRight ==
  wire = <<>> => \A l \in Links : conn[l].active =>
                   /\ conn[l].cb = link[l]
                   /\ conn[l].client <=> link[l] \in Apps

\* Once every line has been parsed eESPconnIsServerActive says whether the device
\* lets remote clients in, though it may have refused to start or to stop.
ServerTracks == wire = <<>> => (evt = Server <=> serving)
=============================================================================
