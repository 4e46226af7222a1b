------------------------------ MODULE NetData ------------------------------
(***************************************************************************)
(* Incoming network data: the response thread collects the bytes after a   *)
(* "+IPD" header in a chain of packet buffers (esp_recv_buf.c,             *)
(* esp_parser.c, esp_pktbuf.c) and, when the packet is complete, runs the  *)
(* callback of its connection, which puts the chain in the mailbox of a    *)
(* netconn; an application thread takes it from there, uses it and frees   *)
(* it, and in the end deletes the netconn (esp_conn.c).                    *)
(*                                                                         *)
(* A chain is named after the packet whose header began it.  One unit of a *)
(* chunk is a header, a status line, or one byte of payload.               *)
(*                                                                         *)
(* A reset and the deletion of the netconn come at any time, and may do    *)
(* harm that the code does not guard against; the model follows it, and    *)
(* the properties say what holds without it.                               *)
(***************************************************************************)
EXTENDS Naturals, Sequences

CONSTANTS
  Links,       (* connection ids                                            *)
  NcLink,      (* the connection the netconn was created with               *)
  NoLink,      (* the NULL last_active_ipd                                  *)
  NumPackets,  (* packets the device sends (bound)                          *)
  MaxLen,      (* bytes in the longest packet (bound)                       *)
  Lens,        (* how many bytes a packet may have (bound)                  *)
  RecvQLen,    (* ESP_CFG_NETCONN_RECV_Q_LEN                                *)
  Replies,     (* the application answers a packet with a blocking call     *)
  Resets       (* resets of the device (bound)                              *)

ASSUME NetAssumption ==
  /\ NcLink \in Links /\ NoLink \notin Links
  /\ NumPackets \in Nat /\ MaxLen \in Nat \ {0} /\ RecvQLen \in Nat \ {0}
  /\ Lens \subseteq 1..MaxLen
  /\ Resets \in Nat /\ Replies \in BOOLEAN

Packets == 1..NumPackets
NoPkt == 0

VARIABLES
  lock,    \* who holds the core lock: "free" or "resp"
  conn,    \* dev.conns[]: status.flg.active, cb set, pbuf, and its ipd
  last,    \* last_active_ipd
  rpc,     \* response thread: where it is
  todo,    \* response thread: what remains of recv_buf
  arg,     \* response thread: the pbuf a callback puts in the mailbox
  box,     \* mbox_recv of the netconn
  nc,      \* the netconn: "live" or "deleted"
  mem,     \* each chain: "none", "live", "freed" or "double"
  bytes,   \* what it holds, the packet of each byte
  cpc,     \* application thread: where it is
  held,    \* application thread: the packet it took
  req,     \* its request: "none", "queued" or "sent"
  open,    \* the device: its open connections
  pkt,     \* the device: connection and length of each packet it has begun
  left,    \* the device: bytes of the last one still to send
  resets,  \* the device: resets so far
  taken,   \* history: the packets that have left the mailbox
  harm     \* history: what resets and the deletion have done

appVars  == <<cpc, held, req>>
devVars  == <<open, pkt, left>>
histVars == <<taken, harm>>
vars == <<lock, conn, last, rpc, todo, arg, box, nc, mem, bytes, appVars, devVars,
          resets, histVars>>

-----------------------------------------------------------------------------
Sent == Len(pkt)
\* The application deletes the netconn, or has.
Deleting == cpc \in {"zero", "delete"}
Line(k, l) == [kind |-> k, link |-> l, pkt |-> NoPkt]
\* The kinds of harm: something was on its way from the device or being parsed; a
\* packet was being read of a connection that was zeroed; the netconn was deleted
\* while another connection had its callback; its own connection was in use.
Harms == {"between", "packet", "callback", "open"}

Payload(p, n) == [i \in 1..n |-> [kind |-> "data", link |-> NoLink, pkt |-> p]]

\* A connection and its IPD object after memset.
ZeroIpd  == [conn |-> FALSE, head |-> NoPkt, rem |-> 0, read |-> FALSE]
ZeroConn == [active |-> FALSE, cb |-> FALSE, pbuf |-> NoPkt, ipd |-> ZeroIpd]

\* What the memset at a CLOSED line leaves of a connection.
ClosedKeepsPbuf(c) == [ZeroConn EXCEPT !.pbuf = c.pbuf]
Closed(c) == ZeroConn

\* vESPpktBufChainDelete
Free(m, p) == [m EXCEPT ![p] = IF @ = "live" THEN "freed" ELSE "double"]

Init ==
  /\ lock = "free"
  /\ conn = [l \in Links |-> ZeroConn]
  /\ last = NoLink /\ rpc = "get" /\ todo = <<>> /\ arg = NoPkt
  /\ box = <<>> /\ nc = "live"
  /\ mem = [p \in Packets |-> "none"] /\ bytes = [p \in Packets |-> <<>>]
  /\ cpc = "grab" /\ held = NoPkt /\ req = "none"
  /\ open = {} /\ pkt = <<>> /\ left = 0 /\ resets = 0
  /\ taken = <<>> /\ harm = {}

-----------------------------------------------------------------------------
(* The device: the next chunk it sends, cut anywhere.  A packet is sent     *)
(* without interruption once its header is.                                *)

BeginPacket(rest) ==
  /\ Sent < NumPackets
  /\ \E l \in open, len \in Lens : \E k \in 0..len :
       /\ pkt' = Append(pkt, [link |-> l, len |-> len])
       /\ todo' = rest \o <<[kind |-> "hdr", link |-> l, pkt |-> Sent + 1]>>
                       \o Payload(Sent + 1, k)
       /\ left' = len - k
  /\ UNCHANGED open

\* Clients come as long as the netconn is there to serve them.
SendLine(rest) ==
  /\ \/ /\ open' = open
        /\ todo' = Append(rest, Line("text", NoLink))
     \/ \E l \in open : /\ open' = open \ {l}
                        /\ todo' = Append(rest, Line("closed", l))
     \/ \E l \in Links \ open : /\ ~Deleting /\ Sent < NumPackets
                                /\ open' = open \cup {l}
                                /\ todo' = Append(rest, Line("connect", l))
  /\ left' = 0 /\ UNCHANGED pkt

\* The mailbox get of eESPthreadATrespIteration returns a chunk: a piece of the
\* packet being sent, or its end and the beginning of something else.
RespGet ==
  /\ rpc = "get"
  /\ \/ \E k \in 1..left : /\ todo' = Payload(Sent, k)
                           /\ left' = left - k
                           /\ UNCHANGED <<open, pkt>>
     \/ BeginPacket(Payload(Sent, left))
     \/ SendLine(Payload(Sent, left))
  /\ rpc' = "start"
  /\ UNCHANGED <<lock, conn, last, arg, box, nc, mem, bytes, appVars, resets, histVars>>

-----------------------------------------------------------------------------
(* The response thread.                                                    *)

RespLock ==
  /\ rpc = "start" /\ lock = "free"
  /\ lock' = "resp" /\ rpc' = "parse"
  /\ UNCHANGED <<conn, last, todo, arg, box, nc, mem, bytes, appVars, devVars, resets,
                 histVars>>

Parsing(ks) == rpc = "parse" /\ last = NoLink /\ todo # <<>> /\ Head(todo).kind \in ks

\* eESPparseNetConnStatus: "n,CONNECT" of a connection to the server, whose
\* evt_server eESPstopServer has cleared before the netconn is deleted.
RespConnect ==
  /\ Parsing({"connect"})
  /\ conn' = [conn EXCEPT ![Head(todo).link].active = TRUE,
                          ![Head(todo).link].cb = ~Deleting]
  /\ todo' = Tail(todo)
  /\ UNCHANGED <<lock, last, rpc, arg, box, nc, mem, bytes, appVars, devVars, resets,
                 histVars>>

\* eESPparseNetConnStatus: "n,CLOSED".
RespClosed ==
  /\ Parsing({"closed"})
  /\ conn' = [conn EXCEPT ![Head(todo).link] = Closed(@)]
  /\ todo' = Tail(todo)
  /\ UNCHANGED <<lock, last, rpc, arg, box, nc, mem, bytes, appVars, devVars, resets,
                 histVars>>

\* eESPparseIPDsetup; a connection whose packet is being read takes no header.
RespSetup ==
  /\ Parsing({"hdr"})
  /\ LET l == Head(todo).link IN
       IF conn[l].ipd.read THEN UNCHANGED <<conn, last>>
       ELSE /\ conn' = [conn EXCEPT ![l].ipd = [conn |-> TRUE, head |-> Head(todo).pkt,
                                   rem |-> pkt[Head(todo).pkt].len, read |-> TRUE]]
            /\ last' = l
  /\ todo' = Tail(todo)
  /\ UNCHANGED <<lock, rpc, arg, box, nc, mem, bytes, appVars, devVars, resets, histVars>>

\* Other lines, and payload bytes outside a packet, which are read as text.
RespText ==
  /\ Parsing({"text", "data"})
  /\ todo' = Tail(todo)
  /\ UNCHANGED <<lock, conn, last, rpc, arg, box, nc, mem, bytes, appVars, devVars,
                 resets, histVars>>

\* How much of the chunk belongs to the packet, and whether it ends there.
CopyWhole(rem) == Len(todo)
CopyLen(rem) == IF Len(todo) < rem THEN Len(todo) ELSE rem
CompletesLate(rem) == Len(todo) > rem
Completes(rem) == Len(todo) >= rem

\* eESPparseIPDcopyData.
CopyData ==
  LET d == conn[last].ipd
      n == CopyLen(d.rem)
      h == d.head
      whole == Completes(d.rem)
  IN /\ mem' = [mem EXCEPT ![h] = "live"]
     /\ bytes' = [bytes EXCEPT ![h] = @ \o [i \in 1..n |-> todo[i].pkt]]
     /\ todo' = SubSeq(todo, n + 1, Len(todo))
     /\ conn' = [conn EXCEPT ![last].ipd.rem = IF whole THEN 0 ELSE @ - Len(todo),
                             ![last].pbuf = IF whole THEN h ELSE @]
     /\ rpc' = IF whole THEN "callback" ELSE rpc

\* An IPD object that has been zeroed has no connection: the response thread
\* follows a NULL.
Dies == rpc' = "dead"

RespCopy ==
  /\ rpc = "parse" /\ last # NoLink /\ todo # <<>>
  /\ IF conn[last].ipd.conn THEN CopyData
     ELSE Dies /\ UNCHANGED <<mem, bytes, todo, conn>>
  /\ UNCHANGED <<lock, last, arg, box, nc, appVars, devVars, resets, histVars>>

\* vESPconnRunEvtCallback; without a callback of its own a connection has the
\* default ones, which take no packet.
RespCallback ==
  /\ rpc = "callback"
  /\ arg' = conn[last].pbuf
  /\ IF ~conn[last].ipd.conn \/ (conn[last].cb /\ nc = "deleted") THEN Dies
     ELSE rpc' = IF conn[last].cb THEN "put" ELSE "reset"
  /\ UNCHANGED <<lock, conn, last, todo, box, nc, mem, bytes, appVars, devVars, resets,
                 histVars>>

\* eESPsysMboxPut appends, once there is room.
RoomOffByOne == Len(box) <= RecvQLen
Room == Len(box) < RecvQLen
PutInFront(p) == <<p>> \o box
PutIn(p) == Append(box, p)

\* eESPnetconnRecvPkt waits without limit; the netconn must still be there.
RespPut ==
  /\ rpc = "put"
  /\ IF nc = "deleted" THEN Dies /\ UNCHANGED box
     ELSE Room /\ box' = PutIn(arg) /\ rpc' = "reset"
  /\ UNCHANGED <<lock, conn, last, todo, arg, nc, mem, bytes, appVars, devVars, resets,
                 histVars>>

\* eESPparseIPDreset.
LastKept == last
LastCleared == NoLink
RespReset ==
  /\ rpc = "reset"
  /\ IF conn[last].ipd.conn
     THEN conn' = [conn EXCEPT ![last].ipd = ZeroIpd] /\ rpc' = "parse"
     ELSE Dies /\ UNCHANGED conn
  /\ last' = LastCleared
  /\ arg' = NoPkt
  /\ UNCHANGED <<lock, todo, box, nc, mem, bytes, appVars, devVars, resets, histVars>>

RespUnlock ==
  /\ rpc = "parse" /\ todo = <<>>
  /\ lock' = "free" /\ rpc' = "get"
  /\ UNCHANGED <<conn, last, todo, arg, box, nc, mem, bytes, appVars, devVars, resets,
                 histVars>>

-----------------------------------------------------------------------------
(* The request thread, as far as it needs the lock.                        *)

\* It sends the request of the application, and some time later takes the lock
\* again and completes it, answered or not.
ReqSend ==
  /\ req = "queued" /\ lock = "free"
  /\ req' = "sent"
  /\ UNCHANGED <<lock, conn, last, rpc, todo, arg, box, nc, mem, bytes, cpc, held,
                 devVars, resets, histVars>>

ReqComplete ==
  /\ req = "sent" /\ lock = "free"
  /\ req' = "none" /\ cpc' = "free"
  /\ UNCHANGED <<lock, conn, last, rpc, todo, arg, box, nc, mem, bytes, held, devVars,
                 resets, histVars>>

\* A hardware reset: the device forgets its connections and what it was sending,
\* and eESPinitATcmd zeroes espGlobal.dev.
ReqReset ==
  /\ resets < Resets /\ lock = "free" /\ req # "sent"
  /\ resets' = resets + 1
  /\ conn' = [l \in Links |-> ZeroConn]
  /\ open' = {} /\ left' = 0
  /\ harm' = harm \cup (IF left = 0 /\ rpc = "get" THEN {} ELSE {"between"})
                  \cup (IF last = NoLink THEN {} ELSE {"packet"})
  /\ UNCHANGED <<lock, last, rpc, todo, arg, box, nc, mem, bytes, appVars, pkt, taken>>

-----------------------------------------------------------------------------
(* The application thread.                                                 *)

\* eESPnetconnGrabNextPkt
AppGrab ==
  /\ cpc = "grab" /\ box # <<>>
  /\ held' = Head(box) /\ box' = Tail(box)
  /\ taken' = Append(taken, held')
  /\ cpc' = IF Replies THEN "reply" ELSE "free"
  /\ UNCHANGED <<lock, conn, last, rpc, todo, arg, nc, mem, bytes, req, devVars, resets,
                 harm>>

\* eESPconnClientSend, blocking, to the connection of the packet; refused when
\* that is not active.
AppReply ==
  /\ cpc = "reply"
  /\ IF conn[pkt[held].link].active
     THEN req' = "queued" /\ cpc' = "waiting"
     ELSE cpc' = "free" /\ UNCHANGED req
  /\ UNCHANGED <<lock, conn, last, rpc, todo, arg, box, nc, mem, bytes, held, devVars,
                 resets, histVars>>

\* vESPpktBufChainDelete
AppFree ==
  /\ cpc = "free"
  /\ mem' = Free(mem, held)
  /\ held' = NoPkt /\ cpc' = "grab"
  /\ UNCHANGED <<lock, conn, last, rpc, todo, arg, box, nc, bytes, req, devVars, resets,
                 histVars>>

\* eESPnetconnDelete takes no lock and asks nothing of the connections: first the
\* packet its connection points to is freed,
AppDelete ==
  /\ cpc = "grab"
  /\ LET p == conn[NcLink].pbuf IN
       mem' = IF p = NoPkt THEN mem ELSE Free(mem, p)
  /\ cpc' = "zero"
  /\ harm' = harm
       \cup (IF rpc = "get" /\ open = {} /\ \A l \in Links : ~conn[l].active
               THEN {} ELSE {"between"})
       \cup (IF conn[NcLink].active THEN {"open"} ELSE {})
  /\ UNCHANGED <<lock, conn, last, rpc, todo, arg, box, nc, bytes, held, req, devVars,
                 resets, taken>>

\* then the connection is zeroed,
AppZero ==
  /\ cpc = "zero"
  /\ conn' = [conn EXCEPT ![NcLink] = ZeroConn]
  /\ cpc' = "delete"
  /\ harm' = harm
       \cup (IF last = NcLink THEN {"packet"} ELSE {})
       \cup (IF \E l \in Links \ {NcLink} : conn[l].cb THEN {"callback"} ELSE {})
  /\ UNCHANGED <<lock, last, rpc, todo, arg, box, nc, mem, bytes, held, req, devVars,
                 resets, taken>>

\* the mailbox is flushed, packet by packet,
AppFlush ==
  /\ cpc = "delete" /\ box # <<>>
  /\ mem' = Free(mem, Head(box))
  /\ taken' = Append(taken, Head(box)) /\ box' = Tail(box)
  /\ UNCHANGED <<lock, conn, last, rpc, todo, arg, nc, bytes, appVars, devVars, resets,
                 harm>>

\* and deleted with the netconn.
AppDeleted ==
  /\ cpc = "delete" /\ nc = "live" /\ box = <<>>
  /\ nc' = "deleted"
  /\ UNCHANGED <<lock, conn, last, rpc, todo, arg, box, mem, bytes, appVars, devVars,
                 resets, histVars>>

-----------------------------------------------------------------------------
RespStep == \/ RespLock \/ RespConnect \/ RespClosed \/ RespSetup \/ RespText
            \/ RespCopy \/ RespCallback \/ RespPut \/ RespReset \/ RespUnlock
ReqStep  == ReqSend \/ ReqComplete
AppStep  == AppGrab \/ AppReply \/ AppFree \/ AppZero \/ AppFlush \/ AppDeleted

Next == RespGet \/ RespStep \/ ReqStep \/ ReqReset \/ AppStep \/ AppDelete

Spec == Init /\ [][Next]_vars

\* The scheduler runs every thread that can run, and the core lock goes to its
\* waiters; the device may fall silent.
Fairness == WF_vars(RespStep) /\ SF_vars(ReqStep) /\ WF_vars(AppStep)
FairSpec == Spec /\ Fairness

-----------------------------------------------------------------------------
(* Properties                                                              *)

\* Every variable has its type and the receive mailbox keeps to its slots.
TypeOK ==
  /\ lock \in {"free", "resp"}
  /\ conn \in [Links -> [active : BOOLEAN, cb : BOOLEAN, pbuf : Packets \cup {NoPkt},
                         ipd : [conn : BOOLEAN, head : Packets \cup {NoPkt},
                                rem : 0..MaxLen, read : BOOLEAN]]]
  /\ last \in Links \cup {NoLink}
  /\ rpc \in {"get", "start", "parse", "callback", "put", "reset", "dead"}
  /\ todo \in Seq([kind : {"connect", "closed", "hdr", "text", "data"},
                   link : Links \cup {NoLink}, pkt : Packets \cup {NoPkt}])
  /\ box \in Seq(Packets) /\ Len(box) <= RecvQLen
  /\ nc \in {"live", "deleted"}
  /\ mem \in [Packets -> {"none", "live", "freed", "double"}]
  /\ bytes \in [Packets -> Seq(Packets \cup {NoPkt})]
  /\ cpc \in {"grab", "reply", "waiting", "free", "zero", "delete"}
  /\ held \in Packets \cup {NoPkt} /\ arg \in Packets \cup {NoPkt}
  /\ req \in {"none", "queued", "sent"}
  /\ open \subseteq Links
  /\ pkt \in Seq([link : Links, len : 1..MaxLen]) /\ Sent <= NumPackets
  /\ left \in 0..MaxLen /\ resets \in 0..Resets
  /\ taken \in Seq(Packets) /\ harm \subseteq Harms

\* Whatever the cut of the chunks, an application gets all the bytes of a
\* packet, in one chain, and no others (esp_parser.c:562-599).
Whole(p) == p <= Sent /\ bytes[p] = [i \in 1..pkt[p].len |-> p]
PacketsWhole == \A i \in DOMAIN box : Whole(box[i])

\* Packets reach the application in the order the device sent them, those of
\* different connections too, and none is left out as long as neither reset nor
\* deletion came in between (esp_conn.c:385-399).
InOrder ==
  LET seen == taken \o box IN
  /\ \A i, j \in DOMAIN seen : i < j => seen[i] < seen[j]
  /\ "between" \notin harm => \A i \in DOMAIN seen : seen[i] = i

\* A packet is freed once, and no pointer the application or the mailbox still
\* uses is to a packet that was freed, unless the netconn was deleted while its own
\* connection was open (esp_conn.c:132-150).
FreedOnce ==
  /\ \A p \in Packets : mem[p] # "double"
  /\ \A i \in DOMAIN box : mem[box[i]] = "live"
  /\ held # NoPkt => mem[held] = "live"
NoDoubleFree == "open" \notin harm => FreedOnce

\* The response thread never follows a NULL or deleted object, unless the connection
\* whose packet it reads was zeroed or a connection has the callback of a netconn
\* that was deleted (esp_recv_buf.c:76-90).
NeverDead == rpc # "dead"
NoCrash == harm \cap {"packet", "callback"} = {} => NeverDead

\* Every packet that arrives whole is freed in the end, unless a reset or deletion
\* comes in between: the response thread does not stay in eESPnetconnRecvPkt for
\* ever (esp_conn.c:390).
PacketsFreed ==
  \A p \in Packets :
    mem[p] = "live" /\ Whole(p) ~> mem[p] = "freed" \/ "between" \in harm
=============================================================================
