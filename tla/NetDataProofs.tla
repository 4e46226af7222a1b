--------------------------- MODULE NetDataProofs ----------------------------
(***************************************************************************)
(* Incoming network data: every packet reaches the application whole, in    *)
(* order, and is freed once, and the response thread follows no dangling   *)
(* pointer, whatever resets and the deletion of the netconn do but for the *)
(* harm that the properties name.  For any number of connections and       *)
(* packets, any sizes, and any cut of the chunks.                          *)
(***************************************************************************)
EXTENDS NetData, SequenceTheorems, TLAPS

-----------------------------------------------------------------------------
(* Until a reset or the deletion comes in between: the inductive invariant. *)

\* The bytes the response thread still has to read of the packet it collects.
Awaited == IF last = NoLink THEN 0 ELSE conn[last].ipd.rem

\* What follows them, if the chunk goes on.
Beyond == Len(todo) > Awaited
Following == todo[Awaited + 1]
HdrAhead == Beyond /\ Following.kind = "hdr"

\* The last packet whose header has been read.
CurPkt == IF HdrAhead THEN Sent - 1 ELSE Sent

Byte(p) == [kind |-> "data", link |-> NoLink, pkt |-> p]

\* A chunk holds awaited bytes, then at most one header or line, and after a
\* header bytes of its packet; the device has still to send the rest of it.
ChunkInv ==
  /\ rpc = "get" => todo = <<>>
  /\ \A i \in DOMAIN todo : i <= Awaited => todo[i] = Byte(CurPkt)
  /\ ~Beyond => Len(todo) + left = Awaited
  /\ HdrAhead =>
       /\ Sent >= 1 /\ Following.pkt = Sent
       /\ Following.link = pkt[Sent].link /\ Following.link \in open
       /\ \A i \in DOMAIN todo : i > Awaited + 1 => todo[i] = Byte(Sent)
       /\ Len(todo) - (Awaited + 1) + left = pkt[Sent].len
  /\ Beyond /\ ~HdrAhead =>
       /\ Following.kind # "data" /\ Len(todo) = Awaited + 1 /\ left = 0
       /\ Following.kind = "connect" => Following.link \in open
       /\ Following.kind = "closed"  => Following.link \in Links \ open

\* A connection that is not active is zero, and only the one in progress has an
\* IPD object in use; but for a line not yet parsed they are those of the device.
ConnInv ==
  /\ \A l \in Links :
       /\ conn[l].cb = conn[l].active
       /\ ~conn[l].active => conn[l] = ZeroConn
       /\ l # last => conn[l].ipd = ZeroIpd
       /\ ~(conn[l].active <=> l \in open) =>
            /\ Beyond /\ Following.link = l
            /\ Following.kind = (IF conn[l].active THEN "closed" ELSE "connect")
  /\ Deleting => open = {} /\ \A l \in Links : ~conn[l].active
  /\ nc = "deleted" => Deleting

\* The packet in progress, and its connection.
CurInv ==
  /\ last # NoLink =>
       /\ conn[last].ipd.conn /\ conn[last].ipd.read /\ conn[last].active
       /\ CurPkt >= 1 /\ pkt[CurPkt].link = last
       /\ conn[last].ipd.rem <= pkt[CurPkt].len
       /\ conn[last].ipd.head = CurPkt
       /\ rpc \in {"get", "start", "parse"} => conn[last].ipd.rem > 0
  /\ rpc \in {"callback", "put", "reset"} =>
       /\ last # NoLink
       /\ conn[last].ipd.rem = 0 /\ conn[last].pbuf = CurPkt
  /\ rpc = "put" => arg = CurPkt
  /\ rpc # "dead"

\* How many packets have reached the mailbox.
Arrived == IF last # NoLink /\ rpc # "reset" THEN CurPkt - 1 ELSE CurPkt

\* They are there in the order of the device, or have been taken in that order.
QueueInv ==
  /\ Len(taken) + Len(box) = Arrived
  /\ \A i \in DOMAIN taken : taken[i] = i
  /\ \A i \in DOMAIN box : box[i] = Len(taken) + i
  /\ held \in 0..Len(taken)
  /\ held = NoPkt <=> cpc \in {"grab", "zero", "delete"}
  /\ req # "none" => cpc = "waiting"

\* How much of packet p has been read.
Got(p) == IF p > CurPkt THEN 0
          ELSE IF p = CurPkt /\ last # NoLink THEN pkt[p].len - conn[last].ipd.rem
          ELSE pkt[p].len

\* That much is in its chain, and the chains in the mailbox, in the hands of the
\* application or about to be put are live.
ChainInv ==
  /\ \A p \in Packets : bytes[p] = [i \in 1..Got(p) |-> p]
  /\ \A p \in Packets : mem[p] # "double"
  /\ \A p \in Packets : p > Len(taken) /\ p <= Arrived => mem[p] = "live"
  /\ rpc \in {"callback", "put"} => mem[CurPkt] = "live"
  /\ held # NoPkt => mem[held] = "live"

NetInv == TypeOK /\ ChunkInv /\ ConnInv /\ CurInv /\ QueueInv /\ ChainInv

-----------------------------------------------------------------------------
(* Chunks.                                                                 *)

UnitType == [kind : {"connect", "closed", "hdr", "text", "data"},
             link : Links \cup {NoLink}, pkt : Packets \cup {NoPkt}]
IpdType  == [conn : BOOLEAN, head : Packets \cup {NoPkt}, rem : 0..MaxLen, read : BOOLEAN]
ConnType == [active : BOOLEAN, cb : BOOLEAN, pbuf : Packets \cup {NoPkt}, ipd : IpdType]

\* n bytes of packet p.
LEMMA PayloadSeq ==
  ASSUME NEW p \in Packets \cup {NoPkt}, NEW n \in Nat
  PROVE  /\ Payload(p, n) \in Seq(UnitType) /\ Len(Payload(p, n)) = n
         /\ \A i \in 1..n : Payload(p, n)[i] = Byte(p)
<1>1. Byte(p) \in UnitType
  BY DEF Byte, UnitType
<1>2. Payload(p, n) = [i \in 1..n |-> Byte(p)]
  BY DEF Payload, Byte
<1>3. QED
  BY <1>1, <1>2

\* A unit behind them.
LEMMA PayloadAppend ==
  ASSUME NEW p \in Packets \cup {NoPkt}, NEW n \in Nat, NEW u \in UnitType
  PROVE  /\ Append(Payload(p, n), u) \in Seq(UnitType)
         /\ Len(Append(Payload(p, n), u)) = n + 1
         /\ \A i \in 1..n : Append(Payload(p, n), u)[i] = Byte(p)
         /\ Append(Payload(p, n), u)[n + 1] = u
BY PayloadSeq

\* And bytes of the packet after it.
Across(p, n, u, q, k) == Payload(p, n) \o <<u>> \o Payload(q, k)

IsAcross(s, p, n, u, q, k) ==
  /\ s \in Seq(UnitType) /\ Len(s) = n + 1 + k
  /\ \A i \in 1..n : s[i] = Byte(p)
  /\ s[n + 1] = u
  /\ \A i \in (n + 2)..(n + 1 + k) : s[i] = Byte(q)

LEMMA PayloadConcat ==
  ASSUME NEW p \in Packets \cup {NoPkt}, NEW n \in Nat, NEW u \in UnitType,
         NEW q \in Packets, NEW k \in Nat
  PROVE  IsAcross(Across(p, n, u, q, k), p, n, u, q, k)
<1> DEFINE s == Across(p, n, u, q, k)
           a == Payload(p, n)
           b == Payload(q, k)
           c == a \o <<u>>
<1>1. /\ a \in Seq(UnitType) /\ Len(a) = n /\ \A i \in 1..n : a[i] = Byte(p)
      /\ b \in Seq(UnitType) /\ Len(b) = k /\ \A i \in 1..k : b[i] = Byte(q)
  BY PayloadSeq
<1> HIDE DEF a, b
<1>2. /\ c \in Seq(UnitType) /\ Len(c) = n + 1
      /\ \A i \in 1..n : c[i] = Byte(p)
      /\ c[n + 1] = u
  BY <1>1
<1> HIDE DEF c
<1>3. c \o b \in Seq(UnitType) /\ Len(c \o b) = n + 1 + k
  BY <1>1, <1>2, ConcatProperties
<1>4. \A i \in 1..(n + 1 + k) : (c \o b)[i] = IF i <= Len(c) THEN c[i] ELSE b[i - Len(c)]
  BY <1>1, <1>2, ConcatProperties
<1>5. s = c \o b
  BY DEF a, b, c, Across
<1> HIDE DEF s
<1>6. \A i \in 1..n : s[i] = Byte(p)
  <2>1. TAKE i \in 1..n
  <2>2. i \in 1..(n + 1 + k) /\ i <= Len(c) /\ c[i] = Byte(p)
    BY <1>2
  <2>3. QED
    BY <2>2, <1>4, <1>5
<1>7. s[n + 1] = u
  <2>1. n + 1 \in 1..(n + 1 + k) /\ n + 1 <= Len(c)
    BY <1>2
  <2>2. QED
    BY <2>1, <1>2, <1>4, <1>5
<1>8. \A i \in (n + 2)..(n + 1 + k) : s[i] = Byte(q)
  <2>1. TAKE i \in (n + 2)..(n + 1 + k)
  <2>2. /\ i \in 1..(n + 1 + k) /\ ~(i <= Len(c)) 
        /\ i - Len(c) \in 1..k
    BY <1>2
  <2>3. QED
    BY <2>2, <1>1, <1>4, <1>5
<1>9. QED
  BY <1>3, <1>5, <1>6, <1>7, <1>8 DEF s, IsAcross

-----------------------------------------------------------------------------
(* What the invariant says of the numbers the proofs calculate with.       *)

LEMMA Numbers ==
  ASSUME TypeOK, ChunkInv
  PROVE  /\ Awaited \in 0..MaxLen /\ MaxLen \in Nat
         /\ todo \in Seq(UnitType) /\ Len(todo) \in Nat
         /\ Sent \in Nat /\ Sent <= NumPackets
         /\ CurPkt \in 0..Sent
         /\ left \in Nat
         /\ \A l \in Links : conn[l] \in ConnType /\ conn[l].ipd \in IpdType
         /\ last # NoLink => last \in Links
         /\ \A p \in 1..Sent : pkt[p] \in [link : Links, len : 1..MaxLen]
<1>1. \A l \in Links : conn[l] \in ConnType /\ conn[l].ipd \in IpdType
  BY DEF TypeOK, ConnType, IpdType
<1>2. Awaited \in 0..MaxLen /\ MaxLen \in Nat
  BY <1>1, NetAssumption DEF TypeOK, Awaited, IpdType
<1>3. todo \in Seq(UnitType) /\ Len(todo) \in Nat
  BY DEF TypeOK, UnitType
<1>4. /\ Sent \in Nat /\ Sent <= NumPackets
      /\ \A p \in 1..Sent : pkt[p] \in [link : Links, len : 1..MaxLen]
  <2>1. pkt \in Seq([link : Links, len : 1..MaxLen]) /\ Len(pkt) <= NumPackets
    BY DEF TypeOK, Sent
  <2>2. QED
    BY <2>1, ElementOfSeq, LenProperties DEF Sent
<1>5. CurPkt \in 0..Sent
  BY <1>4 DEF CurPkt, ChunkInv
<1>6. QED
  BY <1>1, <1>2, <1>3, <1>4, <1>5 DEF TypeOK

\* A step that neither finishes nor begins the reading of a packet keeps what is
\* said of the packets.
LEMMA PacketsKept ==
  ASSUME TypeOK, ChunkInv, CurInv, QueueInv, ChainInv,
         UNCHANGED <<last, arg, box, mem, bytes, cpc, held, req, taken>>,
         last # NoLink => conn'[last] = conn[last],
         CurPkt' = CurPkt, \A p \in 1..Sent : pkt'[p] = pkt[p],
         rpc \in {"get", "start", "parse"}, rpc' \in {"get", "start", "parse"}
  PROVE  CurInv' /\ QueueInv' /\ ChainInv'
<1>1. CurPkt \in 0..Sent /\ NumPackets \in Nat /\ Sent \in Nat
  BY Numbers, NetAssumption
<1>2. CurInv'
  BY <1>1 DEF CurInv
<1>3. Arrived' = Arrived
  BY DEF Arrived
<1>4. QueueInv'
  BY <1>3 DEF QueueInv
<1>5. \A p \in Packets : Got(p)' = Got(p)
  BY <1>1 DEF Got, Packets
<1>6. ChainInv'
  BY <1>3, <1>5 DEF ChainInv
<1>7. QED
  BY <1>2, <1>4, <1>6

-----------------------------------------------------------------------------
(* The initial state.                                                      *)

LEMMA NetInit == Init => NetInv
<1> SUFFICES ASSUME Init PROVE NetInv
  OBVIOUS
<1>1. Sent = 0 /\ Awaited = 0 /\ ~Beyond /\ ~HdrAhead /\ CurPkt = 0 /\ Arrived = 0
  BY DEF Init, Sent, Awaited, Beyond, HdrAhead, CurPkt, Arrived
<1>2. TypeOK
  BY <1>1, NetAssumption DEF Init, TypeOK, Sent, ZeroConn, ZeroIpd, NoPkt, Packets
<1>3. ChunkInv
  BY <1>1 DEF Init, ChunkInv
<1>4. ConnInv
  BY <1>1 DEF Init, ConnInv, ZeroConn
<1>5. CurInv
  BY <1>1 DEF Init, CurInv
<1>6. QueueInv
  BY <1>1 DEF Init, QueueInv, NoPkt
<1>7. \A p \in Packets : Got(p) = 0
  BY <1>1 DEF Got, Packets
<1>8. ChainInv
  <2>1. \A p \in Packets : bytes[p] = [i \in 1..Got(p) |-> p]
    <3>1. TAKE p \in Packets
    <3>2. bytes[p] = << >>
      BY DEF Init
    <3>3. [i \in 1..0 |-> p] = << >>
      OBVIOUS
    <3>4. QED
      BY <3>2, <3>3, <1>7
  <2>2. QED
    BY <1>1, <2>1 DEF Init, ChainInv, Packets, NoPkt
<1>9. QED
  BY <1>2, <1>3, <1>4, <1>5, <1>6, <1>8 DEF NetInv

-----------------------------------------------------------------------------
(* A chunk arrives.                                                        *)

\* Nothing was left of the one before.
LEMMA ChunkRead ==
  ASSUME TypeOK, ChunkInv, CurInv, rpc = "get"
  PROVE  /\ todo = << >> /\ ~Beyond /\ ~HdrAhead /\ left = Awaited /\ CurPkt = Sent
         /\ last = NoLink <=> left = 0
<1>1. todo = << >> /\ Len(todo) = 0
  BY DEF ChunkInv
<1>2. ~Beyond /\ ~HdrAhead /\ CurPkt = Sent
  BY <1>1, Numbers DEF Beyond, HdrAhead, CurPkt
<1>3. left = Awaited
  BY <1>1, <1>2, Numbers DEF ChunkInv
<1>4. last # NoLink => Awaited > 0
  BY DEF CurInv, Awaited
<1>5. QED
  BY <1>1, <1>2, <1>3, <1>4 DEF Awaited

LEMMA NetRespGet ==
  ASSUME NetInv, RespGet
  PROVE  NetInv'
<1>1. /\ UNCHANGED <<lock, conn, last, arg, box, nc, mem, bytes, cpc, held, req,
                     resets, taken, harm>>
      /\ rpc = "get" /\ rpc' = "start"
      /\ TypeOK /\ ChunkInv /\ ConnInv /\ CurInv /\ QueueInv /\ ChainInv
  BY DEF RespGet, appVars, histVars, NetInv
<1>2. /\ todo = << >> /\ ~Beyond /\ left = Awaited /\ CurPkt = Sent
      /\ last = NoLink <=> left = 0
  BY <1>1, ChunkRead
<1>3. /\ Awaited \in 0..MaxLen /\ MaxLen \in Nat /\ Sent \in Nat /\ NumPackets \in Nat
      /\ Sent <= NumPackets /\ Sent \in Packets \cup {NoPkt}
  BY <1>1, Numbers, NetAssumption DEF Packets, NoPkt
<1>4. Awaited' = Awaited
  BY <1>1 DEF Awaited
<1>5. \A l \in Links : conn[l].active <=> l \in open
  BY <1>1, <1>2 DEF ConnInv
<1>6. CASE \E k \in 1..left : /\ todo' = Payload(Sent, k)
                              /\ left' = left - k
                              /\ UNCHANGED <<open, pkt>>
  <2>1. PICK k \in 1..left : /\ todo' = Payload(Sent, k)
                             /\ left' = left - k
                             /\ UNCHANGED <<open, pkt>>
    BY <1>6
  <2>2. /\ todo' \in Seq(UnitType) /\ Len(todo') = k
        /\ \A i \in 1..k : todo'[i] = Byte(Sent)
    BY <2>1, <1>2, <1>3, PayloadSeq
  <2>3. Sent' = Sent /\ ~Beyond' /\ ~HdrAhead' /\ CurPkt' = Sent
    <3>1. Sent' = Sent
      BY <2>1 DEF Sent
    <3>2. ~Beyond'
      BY <2>2, <1>2, <1>3, <1>4 DEF Beyond
    <3>3. QED
      BY <3>1, <3>2 DEF HdrAhead, CurPkt
  <2>4. TypeOK'
    BY <2>1, <2>2, <2>3, <1>1, <1>2, <1>3 DEF TypeOK, UnitType
  <2>5. ChunkInv'
    BY <2>1, <2>2, <2>3, <1>1, <1>2, <1>3, <1>4 DEF ChunkInv
  <2>6. ConnInv'
    BY <2>1, <1>1, <1>5 DEF ConnInv, Deleting
  <2>7. CurInv' /\ QueueInv' /\ ChainInv'
    BY <2>1, <2>3, <1>1, <1>2, PacketsKept
  <2>8. QED
    BY <2>4, <2>5, <2>6, <2>7 DEF NetInv
<1>7. CASE BeginPacket(Payload(Sent, left))
  <2>1. PICK l \in open, len \in 1..MaxLen : \E k \in 0..len :
          /\ pkt' = Append(pkt, [link |-> l, len |-> len])
          /\ todo' = Payload(Sent, left) \o <<[kind |-> "hdr", link |-> l, pkt |-> Sent + 1]>>
                          \o Payload(Sent + 1, k)
          /\ left' = len - k
    BY <1>7, NetAssumption DEF BeginPacket
  <2>2. PICK k \in 0..len :
          /\ pkt' = Append(pkt, [link |-> l, len |-> len])
          /\ todo' = Payload(Sent, left) \o <<[kind |-> "hdr", link |-> l, pkt |-> Sent + 1]>>
                          \o Payload(Sent + 1, k)
          /\ left' = len - k
    BY <2>1
  <2> DEFINE u == [kind |-> "hdr", link |-> l, pkt |-> Sent + 1]
  <2>3. l \in Links /\ Sent + 1 \in Packets /\ u \in UnitType /\ open' = open
    BY <1>1, <1>3, <1>7 DEF TypeOK, BeginPacket, Packets, UnitType
  <2>4. /\ u.kind = "hdr" /\ u.link = l /\ u.pkt = Sent + 1
    OBVIOUS
  <2> HIDE DEF u
  <2>5. /\ todo' \in Seq(UnitType) /\ Len(todo') = left + 1 + k
        /\ \A i \in 1..left : todo'[i] = Byte(Sent)
        /\ todo'[left + 1] = u
        /\ \A i \in (left + 2)..(left + 1 + k) : todo'[i] = Byte(Sent + 1)
    <3>1. PICK q \in Packets : q = Sent + 1
      BY <2>3
    <3>2. todo' = Payload(Sent, left) \o <<u>> \o Payload(q, k)
      BY <2>2, <3>1 DEF u
    <3>3. k \in Nat /\ left \in Nat
      BY <1>2, <1>3
    <3>4. IsAcross(Across(Sent, left, u, q, k), Sent, left, u, q, k)
      BY <3>3, <2>3, <1>3, PayloadConcat
    <3>5. IsAcross(todo', Sent, left, u, q, k)
      BY <3>2, <3>4 DEF Across
    <3>6. QED
      BY <3>1, <3>5 DEF IsAcross
  <2>6. /\ Sent' = Sent + 1
        /\ pkt' \in Seq([link : Links, len : 1..MaxLen])
        /\ \A p \in 1..Sent : pkt'[p] = pkt[p]
        /\ pkt'[Sent + 1] = [link |-> l, len |-> len]
    <3>1. [link |-> l, len |-> len] \in [link : Links, len : 1..MaxLen]
      BY <2>3
    <3>2. QED
      BY <3>1, <2>2, <1>1, AppendProperties DEF TypeOK, Sent
  <2>7. Beyond' /\ Following' = u /\ HdrAhead' /\ CurPkt' = Sent
    <3>1. Awaited' = left /\ Len(todo') > left
      BY <2>5, <1>2, <1>3, <1>4
    <3>2. Beyond' /\ Following' = u
      BY <3>1, <2>5 DEF Beyond, Following
    <3>3. QED
      BY <3>2, <2>4, <2>6, <1>3 DEF HdrAhead, CurPkt
  <2>8. TypeOK'
    <3>1. left' \in 0..MaxLen /\ Sent' <= NumPackets
      BY <2>2, <2>3, <2>6, <1>3 DEF Packets, NoPkt
    <3>2. todo' \in Seq(UnitType)
      BY <2>5
    <3>3. QED
      BY <3>1, <3>2, <2>3, <2>6, <1>1 DEF TypeOK, UnitType
  <2>9. ChunkInv'
    <3>1. \A i \in DOMAIN todo' : i <= Awaited' => todo'[i] = Byte(CurPkt')
      BY <2>5, <2>7, <1>2, <1>3, <1>4
    <3>2. HdrAhead' =>
           /\ Sent' >= 1 /\ Following'.pkt = Sent'
           /\ Following'.link = pkt'[Sent'].link /\ Following'.link \in open'
           /\ Len(todo') - (Awaited' + 1) + left' = pkt'[Sent'].len
      <4>1. /\ Sent' >= 1 /\ Following'.pkt = Sent'
            /\ Following'.link = pkt'[Sent'].link /\ Following'.link \in open'
            /\ pkt'[Sent'].len = len
        BY <2>3, <2>4, <2>6, <2>7, <1>3
      <4>2. Len(todo') - (Awaited' + 1) + left' = len
        <5>1. Len(todo') = left + 1 + k /\ left' = len - k /\ Awaited' = left
          BY <2>2, <2>5, <1>2, <1>4
        <5>2. left \in Nat /\ len \in Nat /\ k \in Nat
          BY <1>2, <1>3
        <5>3. QED
          BY <5>1, <5>2
      <4>3. QED
        BY <4>1, <4>2
    <3>3. \A i \in DOMAIN todo' : i > Awaited' + 1 => todo'[i] = Byte(Sent')
      <4>1. TAKE i \in DOMAIN todo'
      <4>2. HAVE i > Awaited' + 1
      <4>3. i \in (left + 2)..(left + 1 + k)
        BY <4>2, <2>5, <1>2, <1>3, <1>4
      <4>4. QED
        BY <4>3, <2>5, <2>6
    <3>4. (\A i \in DOMAIN todo : i <= Awaited => todo[i] = Byte(CurPkt))'
      BY <3>1
    <3>5. (\A i \in DOMAIN todo : i > Awaited + 1 => todo[i] = Byte(Sent))'
      BY <3>3
    <3>6. QED
      BY <3>2, <3>4, <3>5, <2>7, <1>1 DEF ChunkInv
  <2>10. ConnInv'
    BY <2>3, <1>1, <1>5 DEF ConnInv, Deleting
  <2>11. CurInv' /\ QueueInv' /\ ChainInv'
    BY <2>6, <2>7, <1>1, <1>2, PacketsKept
  <2>12. QED
    BY <2>8, <2>9, <2>10, <2>11 DEF NetInv
<1>8. CASE SendLine(Payload(Sent, left))
  <2>1. PICK k \in {"text", "closed", "connect"}, l \in Links \cup {NoLink} :
          /\ todo' = Append(Payload(Sent, left), Line(k, l))
          /\ k = "text" => open' = open /\ l = NoLink
          /\ k = "closed" => l \in open /\ open' = open \ {l}
          /\ k = "connect" => ~Deleting /\ l \in Links \ open /\ open' = open \cup {l}
    BY <1>8, <1>1 DEF SendLine, TypeOK
  <2>2. /\ left' = 0 /\ UNCHANGED pkt /\ Sent' = Sent /\ open' \subseteq Links
    BY <2>1, <1>8, <1>1 DEF SendLine, Sent, TypeOK
  <2> DEFINE u == Line(k, l)
  <2>3. u \in UnitType /\ u.kind = k /\ u.link = l
    BY DEF Line, UnitType
  <2> HIDE DEF u
  <2>4. /\ todo' \in Seq(UnitType) /\ Len(todo') = left + 1
        /\ \A i \in 1..left : todo'[i] = Byte(Sent)
        /\ todo'[left + 1] = u
    <3>1. todo' = Append(Payload(Sent, left), u) /\ left \in Nat
      BY <2>1, <1>2, <1>3 DEF u
    <3>2. QED
      BY <3>1, <2>3, <1>3, PayloadAppend
  <2>5. Beyond' /\ Following' = u /\ ~HdrAhead' /\ CurPkt' = Sent
    BY <2>2, <2>3, <2>4, <1>2, <1>3, <1>4 DEF Beyond, Following, HdrAhead, CurPkt
  <2>6. TypeOK'
    BY <2>2, <2>4, <1>1, <1>2, <1>3 DEF TypeOK, UnitType
  <2>7. ChunkInv'
    <3>1. (\A i \in DOMAIN todo : i <= Awaited => todo[i] = Byte(CurPkt))'
      BY <2>4, <2>5, <1>2, <1>3, <1>4
    <3>2. /\ Following'.kind # "data" /\ Len(todo') = Awaited' + 1 /\ left' = 0
          /\ Following'.kind = "connect" => Following'.link \in open'
          /\ Following'.kind = "closed"  => Following'.link \in Links \ open'
      BY <2>1, <2>2, <2>3, <2>4, <2>5, <1>1, <1>2, <1>3, <1>4 DEF TypeOK
    <3>3. QED
      BY <3>1, <3>2, <2>5, <1>1 DEF ChunkInv
  <2>8. ConnInv'
    <3>1. \A c \in Links : ~(conn[c].active <=> c \in open') =>
             /\ l = c /\ k = (IF conn[c].active THEN "closed" ELSE "connect")
      BY <2>1, <1>5
    <3>2. \A c \in Links : ~(conn'[c].active <=> c \in open') =>
             /\ Beyond' /\ Following'.link = c
             /\ Following'.kind = (IF conn'[c].active THEN "closed" ELSE "connect")
      BY <3>1, <2>3, <2>5, <1>1
    <3>3. Deleting' => open' = {}
      BY <2>1, <1>1 DEF ConnInv, Deleting
    <3>4. QED
      BY <3>2, <3>3, <1>1 DEF ConnInv, Deleting
  <2>9. CurInv' /\ QueueInv' /\ ChainInv'
    BY <2>2, <2>5, <1>1, <1>2, PacketsKept
  <2>10. QED
    BY <2>6, <2>7, <2>8, <2>9 DEF NetInv
<1>9. QED
  BY <1>6, <1>7, <1>8 DEF RespGet
-----------------------------------------------------------------------------
(* The response thread reads lines and headers.                            *)

\* A step that leaves the chunk and the connections alone.
LEMMA ChunkKept ==
  ASSUME ChunkInv, UNCHANGED <<conn, last, todo, open, pkt, left>>,
         rpc' = "get" => todo = << >>
  PROVE  /\ Awaited' = Awaited /\ (Beyond' <=> Beyond) /\ Following' = Following
         /\ (HdrAhead' <=> HdrAhead) /\ CurPkt' = CurPkt /\ Sent' = Sent
         /\ ChunkInv'
<1>1. /\ Awaited' = Awaited /\ (Beyond' <=> Beyond) /\ Following' = Following
      /\ Sent' = Sent
  BY DEF Awaited, Beyond, Following, Sent
<1>2. (HdrAhead' <=> HdrAhead) /\ CurPkt' = CurPkt
  BY <1>1 DEF HdrAhead, CurPkt
<1>3. ChunkInv'
  BY <1>1, <1>2 DEF ChunkInv
<1>4. QED
  BY <1>1, <1>2, <1>3

LEMMA ConnKept ==
  ASSUME ConnInv, UNCHANGED <<conn, last, todo, open>>,
         Deleting' => Deleting, nc' = "deleted" => Deleting'
  PROVE  ConnInv'
<1>1. Awaited' = Awaited /\ (Beyond' <=> Beyond) /\ Following' = Following
  BY DEF Awaited, Beyond, Following
<1>2. QED
  BY <1>1 DEF ConnInv

LEMMA NetRespLock ==
  ASSUME NetInv, RespLock \/ RespUnlock
  PROVE  NetInv'
<1>1. /\ UNCHANGED <<conn, last, todo, arg, box, nc, mem, bytes, cpc, held, req, open,
                     pkt, left, resets, taken, harm>>
      /\ rpc \in {"start", "parse"} /\ rpc' \in {"get", "parse"}
      /\ rpc' = "get" => todo = << >>
      /\ lock' \in {"free", "resp"}
      /\ TypeOK /\ ChunkInv /\ ConnInv /\ CurInv /\ QueueInv /\ ChainInv
  BY DEF RespLock, RespUnlock, appVars, devVars, histVars, NetInv
<1>2. ChunkInv' /\ CurPkt' = CurPkt /\ Sent' = Sent
  BY <1>1, ChunkKept
<1>3. TypeOK'
  BY <1>1, <1>2 DEF TypeOK
<1>4. ConnInv'
  BY <1>1, ConnKept DEF ConnInv, Deleting
<1>5. CurInv' /\ QueueInv' /\ ChainInv'
  BY <1>1, <1>2, PacketsKept
<1>6. QED
  BY <1>2, <1>3, <1>4, <1>5 DEF NetInv

\* A line is the end of its chunk.
LEMMA LineLast ==
  ASSUME TypeOK, ChunkInv, rpc = "parse", last = NoLink, todo # << >>,
         Head(todo).kind # "hdr",
         UNCHANGED <<last, rpc, open, pkt, left>>, todo' = Tail(todo)
  PROVE  /\ Beyond /\ Following = Head(todo) /\ Following.kind # "data"
         /\ ~Beyond' /\ CurPkt' = CurPkt /\ Sent' = Sent
         /\ todo' \in Seq(UnitType) /\ ChunkInv'
<1>1. todo \in Seq(UnitType) /\ Len(todo) \in Nat /\ Len(todo) > 0 /\ left \in Nat
  BY Numbers, EmptySeq
<1>2. Awaited = 0 /\ Awaited' = 0
  BY DEF Awaited
<1>3. Beyond /\ Following = Head(todo) /\ ~HdrAhead
  BY <1>1, <1>2 DEF Beyond, Following, HdrAhead
<1>4. Following.kind # "data" /\ Len(todo) = 1 /\ left = 0
  BY <1>2, <1>3 DEF ChunkInv
<1>5. todo' \in Seq(UnitType) /\ Len(todo') = 0
  BY <1>1, <1>4, HeadTailProperties
<1>6. ~Beyond' /\ ~HdrAhead' /\ Sent' = Sent
  BY <1>2, <1>5 DEF Beyond, HdrAhead, Sent
<1>7. CurPkt' = CurPkt
  BY <1>3, <1>6 DEF CurPkt
<1>8. \A i \in DOMAIN todo' : FALSE
  BY <1>5, LenProperties
<1>9. ChunkInv'
  BY <1>2, <1>4, <1>5, <1>6, <1>8 DEF ChunkInv
<1>10. QED
  BY <1>3, <1>4, <1>5, <1>6, <1>7, <1>9

LEMMA NetRespText ==
  ASSUME NetInv, RespText
  PROVE  NetInv'
<1>1. /\ UNCHANGED <<lock, conn, last, rpc, arg, box, nc, mem, bytes, cpc, held, req,
                     open, pkt, left, resets, taken, harm>>
      /\ rpc = "parse" /\ last = NoLink /\ todo # << >> /\ todo' = Tail(todo)
      /\ Head(todo).kind \in {"text", "data"}
      /\ TypeOK /\ ChunkInv /\ ConnInv /\ CurInv /\ QueueInv /\ ChainInv
  BY DEF RespText, Parsing, appVars, devVars, histVars, NetInv
<1>2. /\ Following = Head(todo) /\ Following.kind # "data"
      /\ CurPkt' = CurPkt /\ Sent' = Sent
      /\ todo' \in Seq(UnitType) /\ ChunkInv'
  BY <1>1, LineLast
<1>3. TypeOK'
  BY <1>1, <1>2 DEF TypeOK, UnitType
<1>4. \A l \in Links : conn[l].active <=> l \in open
  BY <1>1, <1>2 DEF ConnInv
<1>5. ConnInv'
  BY <1>1, <1>4 DEF ConnInv, Deleting
<1>6. CurInv' /\ QueueInv' /\ ChainInv'
  BY <1>1, <1>2, PacketsKept
<1>7. QED
  BY <1>2, <1>3, <1>5, <1>6 DEF NetInv

LEMMA NetRespStatus ==
  ASSUME NetInv, RespConnect \/ RespClosed
  PROVE  NetInv'
<1> DEFINE l == Head(todo).link
<1>1. /\ UNCHANGED <<lock, last, rpc, arg, box, nc, mem, bytes, cpc, held, req,
                     open, pkt, left, resets, taken, harm>>
      /\ rpc = "parse" /\ last = NoLink /\ todo # << >> /\ todo' = Tail(todo)
      /\ Head(todo).kind \in {"connect", "closed"}
      /\ TypeOK /\ ChunkInv /\ ConnInv /\ CurInv /\ QueueInv /\ ChainInv
  BY DEF RespConnect, RespClosed, Parsing, appVars, devVars, histVars, NetInv
<1>2. \/ /\ Head(todo).kind = "connect"
         /\ conn' = [conn EXCEPT ![l].active = TRUE, ![l].cb = ~Deleting]
      \/ /\ Head(todo).kind = "closed"
         /\ conn' = [conn EXCEPT ![l] = ZeroConn]
  BY DEF RespConnect, RespClosed, Parsing, Closed
<1>3. /\ Beyond /\ Following = Head(todo) /\ ~Beyond'
      /\ CurPkt' = CurPkt /\ Sent' = Sent
      /\ todo' \in Seq(UnitType) /\ ChunkInv'
  BY <1>1, LineLast
<1>4. /\ Head(todo).kind = "connect" => l \in open
      /\ Head(todo).kind = "closed" => l \in Links \ open
      /\ l \in Links
  <2>1. ~HdrAhead
    BY <1>1, <1>3 DEF HdrAhead
  <2>2. QED
    BY <2>1, <1>1, <1>3 DEF ChunkInv, TypeOK
<1> HIDE DEF l
<1>5. /\ conn \in [Links -> ConnType]
      /\ \A c \in Links : conn[c].ipd = ZeroIpd
  <2>1. conn \in [Links -> ConnType]
    BY <1>1 DEF TypeOK, ConnType, IpdType
  <2>2. QED
    BY <2>1, <1>1, NetAssumption DEF ConnInv
<1>6. /\ conn' \in [Links -> ConnType]
      /\ \A c \in Links \ {l} : conn'[c] = conn[c]
      /\ Head(todo).kind = "connect" =>
           conn'[l].active /\ conn'[l].cb /\ conn'[l].ipd = ZeroIpd
      /\ Head(todo).kind = "closed" => conn'[l] = ZeroConn
  <2>1. CASE conn' = [conn EXCEPT ![l].active = TRUE, ![l].cb = ~Deleting]
                /\ Head(todo).kind = "connect"
    <3>1. ~Deleting
      BY <2>1, <1>1, <1>4 DEF ConnInv
    <3>2. conn' = [conn EXCEPT ![l].active = TRUE, ![l].cb = TRUE]
      BY <2>1, <3>1
    <3>3. /\ conn' \in [Links -> ConnType]
          /\ \A c \in Links \ {l} : conn'[c] = conn[c]
          /\ conn'[l].active /\ conn'[l].cb /\ conn'[l].ipd = ZeroIpd
      BY <3>2, <1>4, <1>5 DEF ConnType
    <3>4. QED
      BY <2>1, <3>3
  <2>2. CASE conn' = [conn EXCEPT ![l] = ZeroConn] /\ Head(todo).kind = "closed"
    <3>1. ZeroConn \in ConnType
      BY NetAssumption DEF ZeroConn, ZeroIpd, ConnType, IpdType
    <3>2. QED
      BY <2>2, <3>1, <1>4, <1>5
  <2>3. QED
    BY <2>1, <2>2, <1>2
<1>7. TypeOK'
  BY <1>1, <1>3, <1>6 DEF TypeOK, UnitType, ConnType, IpdType
<1>8. ConnInv'
  <2>1. \A c \in Links \ {l} :
           /\ conn'[c].cb = conn'[c].active
           /\ ~conn'[c].active => conn'[c] = ZeroConn
           /\ conn'[c].ipd = ZeroIpd
           /\ conn'[c].active <=> c \in open
    BY <1>1, <1>3, <1>5, <1>6 DEF ConnInv, l
  <2>2. CASE Head(todo).kind = "connect"
    <3>1. conn'[l].active = TRUE /\ conn'[l].cb = TRUE
      BY <2>2, <1>4, <1>6 DEF ConnType
    <3>2. ~Deleting /\ nc # "deleted"
      BY <2>2, <1>1, <1>4 DEF ConnInv
    <3>3. QED
      BY <2>1, <2>2, <3>1, <3>2, <1>1, <1>4, <1>6 DEF ConnInv, Deleting
  <2>3. CASE Head(todo).kind = "closed"
    <3>1. /\ conn'[l].active = FALSE /\ conn'[l].cb = FALSE /\ conn'[l].ipd = ZeroIpd
          /\ conn'[l] = ZeroConn
      BY <2>3, <1>6 DEF ZeroConn
    <3>2. Deleting' => open' = {} /\ \A c \in Links : ~conn'[c].active
      BY <2>1, <3>1, <1>1 DEF ConnInv, Deleting
    <3>3. \A c \in Links :
           /\ conn'[c].cb = conn'[c].active
           /\ ~conn'[c].active => conn'[c] = ZeroConn
           /\ conn'[c].ipd = ZeroIpd
           /\ conn'[c].active <=> c \in open
      BY <2>1, <2>3, <3>1, <1>4
    <3>4. QED
      BY <3>2, <3>3, <1>1 DEF ConnInv, Deleting
  <2>4. QED
    BY <2>2, <2>3, <1>1
<1>9. CurInv' /\ QueueInv' /\ ChainInv'
  BY <1>1, <1>3, PacketsKept
<1>10. QED
  BY <1>3, <1>7, <1>8, <1>9 DEF NetInv

LEMMA NetRespSetup ==
  ASSUME NetInv, RespSetup
  PROVE  NetInv'
<1> DEFINE l == Head(todo).link
           n == pkt[Sent].len
           ipd == [conn |-> TRUE, head |-> Sent, rem |-> n, read |-> TRUE]
<1>1. /\ UNCHANGED <<lock, rpc, arg, box, nc, mem, bytes, cpc, held, req,
                     open, pkt, left, resets, taken, harm>>
      /\ rpc = "parse" /\ last = NoLink /\ todo # << >> /\ todo' = Tail(todo)
      /\ Head(todo).kind = "hdr"
      /\ TypeOK /\ ChunkInv /\ ConnInv /\ CurInv /\ QueueInv /\ ChainInv
  BY DEF RespSetup, Parsing, appVars, devVars, histVars, NetInv
<1>2. /\ todo \in Seq(UnitType) /\ Len(todo) \in Nat /\ Len(todo) > 0
      /\ Head(todo) = todo[1]
      /\ todo' \in Seq(UnitType) /\ Len(todo') = Len(todo) - 1
      /\ \A i \in 1..Len(todo') : todo'[i] = todo[i + 1]
  <2>1. todo \in Seq(UnitType) /\ Len(todo) \in Nat /\ Len(todo) > 0
    BY <1>1, Numbers, EmptySeq
  <2>2. QED
    BY <2>1, <1>1, HeadTailProperties
<1>3. Awaited = 0 /\ Beyond /\ Following = Head(todo) /\ HdrAhead
  BY <1>1, <1>2 DEF Awaited, Beyond, Following, HdrAhead
<1>4. /\ Sent >= 1 /\ Head(todo).pkt = Sent
      /\ l = pkt[Sent].link /\ l \in open /\ l \in Links
      /\ \A i \in DOMAIN todo : i > 1 => todo[i] = Byte(Sent)
      /\ Len(todo) - 1 + left = n
      /\ CurPkt = Sent - 1
  BY <1>1, <1>3 DEF ChunkInv, CurPkt, TypeOK
<1>5. /\ Sent \in Nat /\ left \in Nat /\ MaxLen \in Nat /\ n \in 1..MaxLen
      /\ pkt[Sent] \in [link : Links, len : 1..MaxLen]
  BY <1>1, <1>4, Numbers
<1>6. conn \in [Links -> ConnType] /\ conn[l] \in ConnType /\ ipd \in IpdType
  <2>1. conn \in [Links -> ConnType]
    BY <1>1 DEF TypeOK, ConnType, IpdType
  <2>2. n \in 0..MaxLen /\ Sent \in Packets \cup {NoPkt}
    BY <1>1, <1>4, <1>5 DEF TypeOK, Packets
  <2> HIDE DEF n
  <2>3. ipd \in IpdType
    BY <2>2 DEF IpdType
  <2>4. QED
    BY <1>4, <2>1, <2>3
<1>7. conn[l].active /\ conn[l].ipd = ZeroIpd
  BY <1>1, <1>3, <1>4, NetAssumption DEF ConnInv
<1>8. conn' = [conn EXCEPT ![l].ipd = ipd] /\ last' = l
  <2>1. ~conn[l].ipd.read
    BY <1>7 DEF ZeroIpd
  <2>2. /\ conn' = [conn EXCEPT ![l].ipd = [conn |-> TRUE, head |-> Head(todo).pkt,
                               rem |-> pkt[Head(todo).pkt].len, read |-> TRUE]]
        /\ last' = l
    BY <2>1 DEF RespSetup
  <2>3. QED
    BY <2>2, <1>4
<1> HIDE DEF l, n
<1>9. /\ conn' \in [Links -> ConnType]
      /\ \A c \in Links \ {l} : conn'[c] = conn[c]
      /\ conn'[l].ipd = ipd
      /\ conn'[l].active = conn[l].active /\ conn'[l].cb = conn[l].cb
  BY <1>4, <1>6, <1>8 DEF ConnType
<1>10. last' # NoLink /\ Awaited' = n
  BY <1>4, <1>8, <1>9, NetAssumption DEF Awaited
<1>11. Sent' = Sent /\ ~Beyond' /\ ~HdrAhead' /\ CurPkt' = Sent
  <2>1. Sent' = Sent
    BY <1>1 DEF Sent
  <2>2. ~Beyond'
    BY <1>2, <1>4, <1>5, <1>10 DEF Beyond
  <2>3. QED
    BY <2>1, <2>2 DEF HdrAhead, CurPkt
<1>12. TypeOK'
  BY <1>1, <1>2, <1>4, <1>8, <1>9, <1>11 DEF TypeOK, UnitType, ConnType, IpdType
<1>13. ChunkInv'
  <2>1. \A i \in DOMAIN todo' : todo'[i] = Byte(Sent)
    BY <1>2, <1>4
  <2>2. Len(todo') + left' = Awaited'
    BY <1>1, <1>2, <1>4, <1>5, <1>10
  <2>3. QED
    BY <2>1, <2>2, <1>1, <1>11 DEF ChunkInv
<1>14. ConnInv'
  <2>1. \A c \in Links : conn[c].active <=> c \in open
    BY <1>1, <1>3 DEF ConnInv
  <2>2. /\ conn'[l].cb = conn'[l].active
        /\ conn'[l].active
    BY <1>1, <1>4, <1>7, <1>9 DEF ConnInv
  <2>3. \A c \in Links \ {l} : conn'[c].ipd = ZeroIpd
    BY <1>1, <1>9, NetAssumption DEF ConnInv
  <2>4. \A c \in Links :
           /\ conn'[c].cb = conn'[c].active
           /\ ~conn'[c].active => conn'[c] = ZeroConn
           /\ c # last' => conn'[c].ipd = ZeroIpd
           /\ conn'[c].active <=> c \in open
    BY <2>1, <2>2, <2>3, <1>1, <1>4, <1>8, <1>9 DEF ConnInv
  <2>5. ~Deleting
    BY <1>1, <1>4 DEF ConnInv
  <2>6. QED
    BY <2>4, <2>5, <1>1 DEF ConnInv, Deleting
<1>15. CurInv'
  <2>1. conn'[last'].ipd.conn /\ conn'[last'].ipd.read /\ conn'[last'].ipd.rem = n
        /\ conn'[last'].ipd.head = Sent /\ conn'[last'].active
    BY <1>7, <1>8, <1>9
  <2>2. CurPkt' >= 1 /\ pkt'[CurPkt'].link = last' /\ pkt'[CurPkt'].len = n
    BY <1>1, <1>4, <1>8, <1>11 DEF n
  <2>3. QED
    BY <2>1, <2>2, <1>1, <1>5, <1>11 DEF CurInv
<1>16. Arrived' = Arrived
  BY <1>1, <1>4, <1>5, <1>10, <1>11 DEF Arrived
<1>17. QueueInv'
  BY <1>1, <1>16 DEF QueueInv
<1>18. \A p \in Packets : Got(p)' = Got(p)
  <2>1. conn'[last'].ipd.rem = n
    BY <1>8, <1>9
  <2>2. QED
    BY <2>1, <1>1, <1>4, <1>5, <1>10, <1>11 DEF Got, Packets, n
<1>19. ChainInv'
  BY <1>1, <1>16, <1>18 DEF ChainInv
<1>20. QED
  BY <1>12, <1>13, <1>14, <1>15, <1>17, <1>19 DEF NetInv
-----------------------------------------------------------------------------
(* The response thread copies the bytes of a packet.                       *)

LEMMA ConstConcat ==
  ASSUME NEW c \in Packets \cup {NoPkt}, NEW m \in Nat, NEW n \in Nat
  PROVE  [i \in 1..m |-> c] \o [i \in 1..n |-> c] = [i \in 1..(m + n) |-> c]
<1> DEFINE a == [i \in 1..m |-> c]
           b == [i \in 1..n |-> c]
           d == [i \in 1..(m + n) |-> c]
<1>1. /\ a \in Seq(Packets \cup {NoPkt}) /\ Len(a) = m
      /\ b \in Seq(Packets \cup {NoPkt}) /\ Len(b) = n
      /\ d \in Seq(Packets \cup {NoPkt}) /\ Len(d) = m + n
  OBVIOUS
<1>2. /\ \A i \in 1..m : a[i] = c
      /\ \A i \in 1..n : b[i] = c
      /\ \A i \in 1..(m + n) : d[i] = c
  OBVIOUS
<1> HIDE DEF a, b, d
<1>3. /\ a \o b \in Seq(Packets \cup {NoPkt}) /\ Len(a \o b) = m + n
      /\ \A i \in 1..(m + n) : (a \o b)[i] = IF i <= m THEN a[i] ELSE b[i - m]
  BY <1>1, ConcatProperties
<1>4. \A i \in 1..(m + n) : (a \o b)[i] = d[i]
  <2>1. TAKE i \in 1..(m + n)
  <2>2. i <= m => i \in 1..m
    OBVIOUS
  <2>3. ~(i <= m) => i - m \in 1..n
    OBVIOUS
  <2>4. QED
    BY <2>2, <2>3, <1>2, <1>3
<1>5. a \o b = d
  BY <1>1, <1>3, <1>4, SeqEqual
<1>6. QED
  BY <1>5 DEF a, b, d

LEMMA NetRespCopy ==
  ASSUME NetInv, RespCopy
  PROVE  NetInv'
<1> DEFINE rem == conn[last].ipd.rem
           n == CopyLen(rem)
           c == CurPkt
           whole == Len(todo) >= rem
<1>1. /\ UNCHANGED <<lock, last, arg, box, nc, cpc, held, req,
                     open, pkt, left, resets, taken, harm>>
      /\ rpc = "parse" /\ last # NoLink /\ todo # << >>
      /\ TypeOK /\ ChunkInv /\ ConnInv /\ CurInv /\ QueueInv /\ ChainInv
      /\ last \in Links
  BY DEF RespCopy, appVars, devVars, histVars, NetInv, TypeOK
<1>2. /\ conn[last].ipd.conn /\ conn[last].ipd.read /\ conn[last].active
      /\ pkt[c].link = last /\ rem <= pkt[c].len /\ rem > 0
      /\ conn[last].ipd.head = c
  BY <1>1 DEF CurInv
<1>3. /\ c \in 1..Sent /\ c \in Packets /\ Sent \in Nat /\ NumPackets \in Nat
      /\ pkt[c].len \in 1..MaxLen /\ MaxLen \in Nat /\ left \in Nat
      /\ rem \in 0..MaxLen /\ Awaited = rem
  <2>1. c \in 1..Sent /\ Sent \in Nat /\ Sent <= NumPackets /\ NumPackets \in Nat
    BY <1>1, Numbers, NetAssumption DEF CurInv
  <2>2. /\ pkt[c].len \in 1..MaxLen /\ MaxLen \in Nat /\ left \in Nat
        /\ Awaited \in 0..MaxLen
    BY <1>1, <2>1, Numbers
  <2>3. Awaited = rem
    BY <1>1 DEF Awaited
  <2>4. QED
    BY <2>1, <2>2, <2>3 DEF Packets
<1>4. /\ todo \in Seq(UnitType) /\ Len(todo) \in Nat /\ Len(todo) > 0
      /\ Head(todo) = todo[1]
  BY <1>1, Numbers, EmptySeq
<1>5. /\ n \in 1..Len(todo) /\ n <= rem
      /\ whole <=> n = rem
      /\ ~whole => n = Len(todo)
  BY <1>2, <1>3, <1>4 DEF CopyLen
<1>6. /\ \A i \in 1..n : todo[i] = Byte(c)
      /\ Head(todo).pkt = c
  <2>1. \A i \in 1..n : i \in DOMAIN todo /\ i <= Awaited
    BY <1>3, <1>4, <1>5
  <2>2. \A i \in 1..n : todo[i] = Byte(c)
    BY <2>1, <1>1 DEF ChunkInv
  <2>3. 1 \in 1..n
    BY <1>4, <1>5
  <2>4. QED
    BY <2>2, <2>3, <1>4 DEF Byte
<1>7. /\ mem' = [mem EXCEPT ![c] = "live"]
      /\ bytes' = [bytes EXCEPT ![c] = @ \o [i \in 1..n |-> todo[i].pkt]]
      /\ todo' = SubSeq(todo, n + 1, Len(todo))
      /\ conn' = [conn EXCEPT ![last].ipd.rem = IF whole THEN 0 ELSE @ - Len(todo),
                              ![last].pbuf = IF whole THEN c ELSE @]
      /\ rpc' = IF whole THEN "callback" ELSE rpc
  <2>1. conn[last].ipd.head = c
    BY <1>2
  <2>2. CopyData
    BY <1>2 DEF RespCopy
  <2>3. QED
    BY <2>1, <2>2 DEF CopyData, Completes
<1>8. /\ todo' \in Seq(UnitType) /\ Len(todo') = Len(todo) - n
      /\ \A i \in 1..Len(todo') : todo'[i] = todo[n + i]
  <2>1. \A i \in (n + 1)..Len(todo) : todo[i] \in UnitType
    BY <1>4, <1>5, ElementOfSeq
  <2>2. n + 1 \in Int /\ Len(todo) \in Int
    BY <1>4, <1>5
  <2>3. /\ todo' \in Seq(UnitType)
        /\ Len(todo') = (IF n + 1 <= Len(todo) THEN Len(todo) - (n + 1) + 1 ELSE 0)
        /\ \A i \in 1..(Len(todo) - (n + 1) + 1) : todo'[i] = todo[n + 1 + i - 1]
    BY <2>1, <2>2, <1>7, SubSeqProperties
  <2>4. Len(todo') = Len(todo) - n /\ Len(todo) - (n + 1) + 1 = Len(todo) - n
    BY <2>3, <1>4, <1>5
  <2>5. \A i \in 1..(Len(todo) - n) : n + 1 + i - 1 = n + i
    BY <1>4, <1>5
  <2>6. QED
    BY <2>3, <2>4, <2>5
<1>9. conn \in [Links -> ConnType]
  BY <1>1 DEF TypeOK, ConnType, IpdType
<1> HIDE DEF n, c, rem, whole
<1>10. /\ conn' \in [Links -> ConnType]
       /\ \A l \in Links \ {last} : conn'[l] = conn[l]
       /\ conn'[last].active = conn[last].active /\ conn'[last].cb = conn[last].cb
       /\ conn'[last].ipd.conn = conn[last].ipd.conn
       /\ conn'[last].ipd.read = conn[last].ipd.read
       /\ conn'[last].ipd.head = c
       /\ conn'[last].ipd.rem = rem - n
       /\ whole => conn'[last].pbuf = c
  <2>1. conn[last] \in ConnType /\ conn[last].ipd \in IpdType
    BY <1>1, <1>9 DEF ConnType
  <2>2. /\ \A l \in Links \ {last} : conn'[l] = conn[l]
        /\ conn' = [conn EXCEPT ![last] = conn'[last]]
        /\ conn'[last] = [conn[last] EXCEPT !.ipd = [conn[last].ipd EXCEPT
                              !.rem = IF whole THEN 0 ELSE conn[last].ipd.rem - Len(todo)],
                                            !.pbuf = IF whole THEN c ELSE conn[last].pbuf]
    BY <1>1, <1>7, <1>9, <2>1 DEF ConnType, IpdType
  <2>3. (IF whole THEN 0 ELSE conn[last].ipd.rem - Len(todo)) = rem - n
    BY <1>3, <1>4, <1>5 DEF rem
  <2>4. rem - n \in 0..MaxLen
    BY <1>3, <1>5
  <2>5. /\ conn'[last].ipd = [conn[last].ipd EXCEPT !.rem = rem - n]
        /\ conn'[last].active = conn[last].active /\ conn'[last].cb = conn[last].cb
        /\ conn'[last].pbuf = (IF whole THEN c ELSE conn[last].pbuf)
    BY <2>1, <2>2, <2>3 DEF ConnType
  <2>6. /\ conn'[last].ipd.conn = conn[last].ipd.conn
        /\ conn'[last].ipd.read = conn[last].ipd.read
        /\ conn'[last].ipd.head = c
        /\ conn'[last].ipd.rem = rem - n
        /\ conn'[last].ipd \in IpdType
    BY <2>1, <2>4, <2>5, <1>2, <1>3 DEF IpdType
  <2>7. conn'[last] \in ConnType
    BY <2>1, <2>2, <2>5, <2>6, <1>3 DEF ConnType
  <2>8. QED
    BY <2>2, <2>5, <2>6, <2>7, <1>1, <1>9
<1>11. /\ Awaited' = rem - n /\ Sent' = Sent
       /\ Beyond' <=> Beyond
       /\ Beyond => Following' = Following
  <2>1. Awaited' = rem - n /\ Sent' = Sent
    BY <1>1, <1>10 DEF Awaited, Sent
  <2>2. Beyond' <=> Beyond
    BY <2>1, <1>3, <1>4, <1>5, <1>8 DEF Beyond
  <2>3. ASSUME Beyond PROVE Following' = Following
    <3>1. rem - n + 1 \in 1..Len(todo') /\ n + (rem - n + 1) = rem + 1
      BY <2>1, <2>3, <1>3, <1>4, <1>5, <1>8 DEF Beyond
    <3>2. todo'[rem - n + 1] = todo[rem + 1]
      BY <3>1, <1>8
    <3>3. QED
      BY <3>2, <2>1, <1>3 DEF Following
  <2>4. QED
    BY <2>1, <2>2, <2>3
<1>12. (HdrAhead' <=> HdrAhead) /\ CurPkt' = c
  BY <1>11 DEF HdrAhead, CurPkt, c
<1>13. \A p \in Packets : bytes'[p] = IF p = c THEN bytes[c] \o [i \in 1..n |-> c]
                                                 ELSE bytes[p]
  <2>1. [i \in 1..n |-> todo[i].pkt] = [i \in 1..n |-> c]
    BY <1>6 DEF Byte
  <2>2. QED
    BY <2>1, <1>1, <1>3, <1>7 DEF TypeOK
<1>14. \A p \in Packets : Got(p)' = IF p = c THEN Got(c) + n ELSE Got(p)
  <2>1. ASSUME NEW p \in Packets, p = c PROVE Got(p)' = Got(c) + n
    <3>1. Got(c) = pkt[c].len - rem
      BY <1>1, <1>3 DEF Got, c, rem
    <3>2. ~(p > CurPkt') /\ p = CurPkt' /\ last' # NoLink /\ pkt'[p] = pkt[c]
      BY <2>1, <1>1, <1>3, <1>12
    <3>3. conn'[last'].ipd.rem = rem - n
      BY <1>1, <1>10
    <3>4. Got(p)' = pkt[c].len - (rem - n)
      BY <3>2, <3>3 DEF Got
    <3>5. /\ pkt[c].len \in Int /\ rem \in Int /\ n \in Int
      BY <1>3, <1>4, <1>5
    <3>6. QED
      BY <3>1, <3>4, <3>5
  <2>2. ASSUME NEW p \in Packets, p # c PROVE Got(p)' = Got(p)
    BY <2>2, <1>1, <1>12 DEF Got, c
  <2>3. QED
    BY <2>1, <2>2
<1>15. \A p \in Packets : bytes'[p] = [i \in 1..Got(p)' |-> p]
  <2>1. \A p \in Packets : bytes[p] = [i \in 1..Got(p) |-> p]
    BY <1>1 DEF ChainInv
  <2>2. Got(c) \in Nat
    BY <1>1, <1>2, <1>3 DEF Got, c, rem
  <2>3. ASSUME NEW p \in Packets, p = c PROVE bytes'[p] = [i \in 1..Got(p)' |-> p]
    <3>1. bytes'[p] = [i \in 1..Got(c) |-> c] \o [i \in 1..n |-> c]
      BY <2>1, <2>3, <1>3, <1>13
    <3>2. bytes'[p] = [i \in 1..(Got(c) + n) |-> c]
      BY <3>1, <2>2, <1>3, <1>4, <1>5, ConstConcat
    <3>3. Got(p)' = Got(c) + n
      BY <2>3, <1>14
    <3>4. QED
      BY <3>2, <3>3, <2>3
  <2>4. ASSUME NEW p \in Packets, p # c PROVE bytes'[p] = [i \in 1..Got(p)' |-> p]
    <3>1. bytes'[p] = bytes[p] /\ Got(p)' = Got(p)
      BY <2>4, <1>13, <1>14
    <3>2. QED
      BY <3>1, <2>1
  <2>5. QED
    BY <2>3, <2>4
<1>16. /\ mem' \in [Packets -> {"none", "live", "freed", "double"}]
       /\ mem'[c] = "live" /\ \A p \in Packets \ {c} : mem'[p] = mem[p]
  BY <1>1, <1>3, <1>7 DEF TypeOK
<1>17. TypeOK'
  <2>1. bytes' \in [Packets -> Seq(Packets \cup {NoPkt})]
    <3>1. DOMAIN bytes' = Packets
      BY <1>1, <1>7 DEF TypeOK
    <3>2. \A p \in Packets : bytes'[p] \in Seq(Packets \cup {NoPkt})
      <4>1. [i \in 1..n |-> c] \in Seq(Packets \cup {NoPkt})
        BY <1>3, <1>4, <1>5
      <4>2. bytes[c] \o [i \in 1..n |-> c] \in Seq(Packets \cup {NoPkt})
        BY <4>1, <1>1, <1>3, ConcatProperties DEF TypeOK
      <4>3. QED
        BY <4>2, <1>1, <1>13 DEF TypeOK
    <3>3. bytes' = [p \in Packets |-> bytes'[p]]
      BY <1>1, <3>1, <1>7 DEF TypeOK
    <3>4. QED
      BY <3>2, <3>3
  <2>2. rpc' \in {"parse", "callback"}
    BY <1>1, <1>7
  <2>3. QED
    BY <2>1, <2>2, <1>1, <1>8, <1>10, <1>11, <1>16 DEF TypeOK, UnitType, ConnType, IpdType
<1>18. ChunkInv'
  <2>1. \A i \in DOMAIN todo' : i <= Awaited' => todo'[i] = Byte(CurPkt')
    <3>1. TAKE i \in DOMAIN todo'
    <3>2. HAVE i <= Awaited'
    <3>3. i \in 1..Len(todo') /\ n + i \in 1..Len(todo) /\ n + i <= rem
      BY <3>1, <3>2, <1>3, <1>4, <1>5, <1>8, <1>11
    <3>4. todo[n + i] = Byte(c)
      BY <3>3, <1>1, <1>3, <1>4 DEF ChunkInv, c
    <3>5. QED
      BY <3>3, <3>4, <1>8, <1>12
  <2>2. ~Beyond' => Len(todo') + left' = Awaited'
    <3>1. ~Beyond => Len(todo) + left = rem
      BY <1>1, <1>3 DEF ChunkInv
    <3>2. QED
      BY <3>1, <1>1, <1>3, <1>4, <1>5, <1>8, <1>11
  <2>3. HdrAhead' => Beyond /\ HdrAhead /\ Following' = Following
    BY <1>11, <1>12 DEF HdrAhead
  <2>4. HdrAhead' => \A i \in DOMAIN todo' : i > Awaited' + 1 => todo'[i] = Byte(Sent')
    <3>1. HAVE HdrAhead'
    <3>2. TAKE i \in DOMAIN todo'
    <3>3. HAVE i > Awaited' + 1
    <3>4. i \in 1..Len(todo') /\ n + i \in 1..Len(todo) /\ n + i > rem + 1
      BY <3>2, <3>3, <1>3, <1>4, <1>5, <1>8, <1>11
    <3>5. todo[n + i] = Byte(Sent)
      BY <3>1, <3>4, <2>3, <1>1, <1>3, <1>4 DEF ChunkInv
    <3>6. QED
      BY <3>4, <3>5, <1>8, <1>11
  <2>5. Len(todo') - (Awaited' + 1) = Len(todo) - (Awaited + 1)
    BY <1>3, <1>4, <1>5, <1>8, <1>11
  <2>6. Len(todo') = Awaited' + 1 <=> Len(todo) = Awaited + 1
    BY <1>3, <1>4, <1>5, <1>8, <1>11
  <2>7. rpc' # "get"
    BY <1>1, <1>7
  <2>8. HdrAhead' =>
           /\ Sent' >= 1 /\ Following'.pkt = Sent'
           /\ Following'.link = pkt'[Sent'].link /\ Following'.link \in open'
           /\ Len(todo') - (Awaited' + 1) + left' = pkt'[Sent'].len
    BY <2>3, <2>5, <1>1, <1>11 DEF ChunkInv
  <2>9. Beyond' /\ ~HdrAhead' =>
           /\ Following'.kind # "data" /\ Len(todo') = Awaited' + 1 /\ left' = 0
           /\ Following'.kind = "connect" => Following'.link \in open'
           /\ Following'.kind = "closed"  => Following'.link \in Links \ open'
    BY <2>6, <1>1, <1>11, <1>12 DEF ChunkInv
  <2>10. QED
    BY <2>1, <2>2, <2>4, <2>7, <2>8, <2>9 DEF ChunkInv
<1>19. ConnInv'
  <2>1. \A l \in Links :
           /\ conn'[l].active = conn[l].active /\ conn'[l].cb = conn[l].cb
           /\ l # last => conn'[l] = conn[l]
    BY <1>1, <1>10
  <2>2. QED
    BY <2>1, <1>1, <1>2, <1>11 DEF ConnInv, Deleting
<1>20. CurInv'
  <2>1. conn'[last'].ipd.rem = 0 <=> whole
    BY <1>1, <1>3, <1>5, <1>10
  <2>2. /\ rem - n <= pkt[c].len /\ rem - n # pkt[c].len
        /\ ~whole => rem - n > 0
    BY <1>2, <1>3, <1>4, <1>5
  <2>3. rpc' = IF whole THEN "callback" ELSE "parse"
    BY <1>1, <1>7
  <2>4. QED
    BY <2>1, <2>2, <2>3, <1>1, <1>2, <1>3, <1>10, <1>12 DEF CurInv
<1>21. Arrived' = Arrived /\ Arrived = c - 1
  BY <1>1, <1>7, <1>12 DEF Arrived, c
<1>22. QueueInv'
  BY <1>1, <1>21 DEF QueueInv
<1>23. held # c /\ Len(taken) \in Nat
  BY <1>1, <1>3, <1>21 DEF QueueInv, TypeOK
<1>24. ChainInv'
  <2>1. \A p \in Packets : mem'[p] # "double"
    BY <1>1, <1>16 DEF ChainInv
  <2>2. \A p \in Packets : p > Len(taken) /\ p <= Arrived => mem'[p] = "live"
    BY <1>1, <1>16 DEF ChainInv
  <2>3. held # NoPkt => mem'[held] = "live"
    BY <1>1, <1>16, <1>23 DEF ChainInv, TypeOK
  <2>4. mem'[CurPkt'] = "live"
    BY <1>12, <1>16
  <2>5. QED
    BY <2>1, <2>2, <2>3, <2>4, <1>1, <1>15, <1>21 DEF ChainInv
<1>25. QED
  BY <1>17, <1>18, <1>19, <1>20, <1>22, <1>24 DEF NetInv
-----------------------------------------------------------------------------
(* The response thread delivers a packet.                                  *)

\* What does not depend on how far the delivery is.
LEMMA GotKept ==
  ASSUME ChainInv, UNCHANGED <<bytes, pkt>>, CurPkt' = CurPkt,
         last' = last, last # NoLink => conn'[last].ipd.rem = conn[last].ipd.rem
  PROVE  \A p \in Packets : bytes'[p] = [i \in 1..Got(p)' |-> p]
<1>1. \A p \in Packets : Got(p)' = Got(p)
  BY DEF Got
<1>2. QED
  BY <1>1 DEF ChainInv

LEMMA NetRespCallback ==
  ASSUME NetInv, RespCallback
  PROVE  NetInv'
<1>1. /\ UNCHANGED <<lock, conn, last, todo, box, nc, mem, bytes, cpc, held, req,
                     open, pkt, left, resets, taken, harm>>
      /\ rpc = "callback" /\ arg' = conn[last].pbuf
      /\ TypeOK /\ ChunkInv /\ ConnInv /\ CurInv /\ QueueInv /\ ChainInv
  BY DEF RespCallback, appVars, devVars, histVars, NetInv
<1>2. /\ last # NoLink /\ last \in Links /\ conn[last].ipd.conn /\ conn[last].active
      /\ conn[last].cb /\ conn[last].pbuf = CurPkt /\ nc # "deleted"
      /\ CurPkt \in Nat
  BY <1>1, Numbers DEF CurInv, ConnInv, TypeOK
<1>3. rpc' = "put"
  BY <1>2 DEF RespCallback
<1>4. ChunkInv' /\ CurPkt' = CurPkt /\ Sent' = Sent
  BY <1>1, <1>3, ChunkKept
<1>5. ConnInv'
  BY <1>1, ConnKept DEF ConnInv, Deleting
<1>6. TypeOK'
  BY <1>1, <1>2, <1>3, <1>4 DEF TypeOK
<1>7. CurInv'
  BY <1>1, <1>2, <1>3, <1>4 DEF CurInv
<1>8. Arrived' = Arrived
  BY <1>1, <1>3, <1>4 DEF Arrived
<1>9. QueueInv'
  BY <1>1, <1>8 DEF QueueInv
<1>10. ChainInv'
  BY <1>1, <1>3, <1>4, <1>8, GotKept DEF ChainInv
<1>11. QED
  BY <1>4, <1>5, <1>6, <1>7, <1>9, <1>10 DEF NetInv

LEMMA NetRespPut ==
  ASSUME NetInv, RespPut
  PROVE  NetInv'
<1>1. /\ UNCHANGED <<lock, conn, last, todo, arg, nc, mem, bytes, cpc, held, req,
                     open, pkt, left, resets, taken, harm>>
      /\ rpc = "put" /\ rpc' = "reset" /\ Len(box) < RecvQLen /\ box' = Append(box, arg)
      /\ TypeOK /\ ChunkInv /\ ConnInv /\ CurInv /\ QueueInv /\ ChainInv
  <2>1. TypeOK /\ CurInv /\ ConnInv /\ rpc = "put"
    BY DEF RespPut, histVars, NetInv
  <2>2. nc # "deleted"
    BY <2>1 DEF TypeOK, CurInv, ConnInv
  <2>3. QED
    BY <2>2 DEF RespPut, Room, PutIn, appVars, devVars, histVars, NetInv
<1>2. ChunkInv' /\ CurPkt' = CurPkt /\ Sent' = Sent
  BY <1>1, ChunkKept
<1>3. ConnInv'
  BY <1>1, ConnKept DEF ConnInv, Deleting
<1>4. /\ CurPkt \in Nat /\ last # NoLink /\ arg = CurPkt /\ arg \in Packets
      /\ box \in Seq(Packets) /\ Len(box) \in Nat /\ Len(taken) \in Nat
      /\ RecvQLen \in Nat
  <2>1. CurPkt \in 1..Sent /\ Sent \in Nat /\ Sent <= NumPackets /\ NumPackets \in Nat
    BY <1>1, Numbers, NetAssumption DEF CurInv
  <2>2. last # NoLink /\ arg = CurPkt /\ arg \in Packets
    BY <2>1, <1>1 DEF CurInv, Packets
  <2>3. QED
    BY <2>1, <2>2, <1>1, NetAssumption DEF TypeOK
<1>5. /\ box' \in Seq(Packets) /\ Len(box') = Len(box) + 1
      /\ \A i \in 1..Len(box) : box'[i] = box[i]
      /\ box'[Len(box) + 1] = arg
  BY <1>1, <1>4, AppendProperties
<1>6. TypeOK'
  <2>1. Len(box') <= RecvQLen
    BY <1>1, <1>4, <1>5
  <2>2. QED
    BY <2>1, <1>1, <1>2, <1>5 DEF TypeOK
<1>7. CurInv'
  BY <1>1, <1>2 DEF CurInv
<1>8. Arrived' = CurPkt /\ Arrived = CurPkt - 1
  BY <1>1, <1>2, <1>4 DEF Arrived
<1>9. Len(taken) + Len(box) + 1 = CurPkt
  BY <1>1, <1>4, <1>8 DEF QueueInv
<1>10. QueueInv'
  <2>1. \A i \in DOMAIN box' : box'[i] = Len(taken) + i
    <3>1. TAKE i \in DOMAIN box'
    <3>2. CASE i \in 1..Len(box)
      BY <3>2, <1>1, <1>4, <1>5 DEF QueueInv
    <3>3. CASE i = Len(box) + 1
      BY <3>3, <1>4, <1>5, <1>9
    <3>4. QED
      BY <3>1, <3>2, <3>3, <1>4, <1>5
  <2>2. Len(taken) + Len(box') = Arrived'
    BY <1>4, <1>5, <1>8, <1>9
  <2>3. QED
    BY <2>1, <2>2, <1>1 DEF QueueInv
<1>11. ChainInv'
  <2>1. \A p \in Packets : p > Len(taken) /\ p <= Arrived' => mem[p] = "live"
    <3>1. TAKE p \in Packets
    <3>2. HAVE p > Len(taken) /\ p <= Arrived'
    <3>3. p \in Nat /\ (p = CurPkt \/ p <= Arrived)
      BY <3>1, <3>2, <1>4, <1>8, NetAssumption DEF Packets
    <3>4. mem[CurPkt] = "live"
      BY <1>1 DEF ChainInv
    <3>5. QED
      BY <3>2, <3>3, <3>4, <1>1 DEF ChainInv
  <2>2. QED
    BY <2>1, <1>1, <1>2, GotKept DEF ChainInv
<1>12. QED
  BY <1>2, <1>3, <1>6, <1>7, <1>10, <1>11 DEF NetInv

LEMMA NetRespReset ==
  ASSUME NetInv, RespReset
  PROVE  NetInv'
<1>1. /\ UNCHANGED <<lock, todo, box, nc, mem, bytes, cpc, held, req,
                     open, pkt, left, resets, taken, harm>>
      /\ rpc = "reset" /\ last' = NoLink /\ arg' = NoPkt
      /\ TypeOK /\ ChunkInv /\ ConnInv /\ CurInv /\ QueueInv /\ ChainInv
  BY DEF RespReset, LastCleared, appVars, devVars, histVars, NetInv
<1>2. /\ last # NoLink /\ last \in Links /\ conn[last].ipd.conn /\ conn[last].active
      /\ conn[last].ipd.rem = 0 /\ CurPkt \in 1..Sent /\ Sent \in Nat
  BY <1>1, Numbers DEF CurInv, TypeOK
<1>3. conn' = [conn EXCEPT ![last].ipd = ZeroIpd] /\ rpc' = "parse"
  BY <1>2 DEF RespReset
<1>4. /\ conn' \in [Links -> ConnType]
      /\ \A l \in Links \ {last} : conn'[l] = conn[l]
      /\ conn'[last].ipd = ZeroIpd
      /\ conn'[last].active = conn[last].active /\ conn'[last].cb = conn[last].cb
  <2>1. conn \in [Links -> ConnType] /\ conn[last] \in ConnType
    BY <1>1, <1>2 DEF TypeOK, ConnType, IpdType
  <2>2. ZeroIpd \in IpdType
    BY NetAssumption DEF ZeroIpd, IpdType
  <2>3. QED
    BY <2>1, <2>2, <1>2, <1>3 DEF ConnType
<1>5. /\ Awaited = 0 /\ Awaited' = 0 /\ Sent' = Sent
      /\ (Beyond' <=> Beyond) /\ Following' = Following
  <2>1. Awaited = 0 /\ Awaited' = 0 /\ Sent' = Sent
    BY <1>1, <1>2 DEF Awaited, Sent
  <2>2. QED
    BY <2>1, <1>1 DEF Beyond, Following
<1>6. (HdrAhead' <=> HdrAhead) /\ CurPkt' = CurPkt
  BY <1>5 DEF HdrAhead, CurPkt
<1>7. ChunkInv'
  BY <1>1, <1>3, <1>5, <1>6 DEF ChunkInv
<1>8. TypeOK'
  BY <1>1, <1>3, <1>4, <1>5 DEF TypeOK, ConnType, IpdType, NoPkt
<1>9. ConnInv'
  <2>1. \A l \in Links :
           /\ conn'[l].active = conn[l].active /\ conn'[l].cb = conn[l].cb
           /\ l # last => conn'[l] = conn[l]
           /\ conn'[l].ipd = ZeroIpd
    BY <1>1, <1>2, <1>4 DEF ConnInv
  <2>2. QED
    BY <2>1, <1>1, <1>2, <1>5 DEF ConnInv, Deleting
<1>10. CurInv'
  BY <1>1, <1>3 DEF CurInv
<1>11. Arrived' = Arrived
  BY <1>1, <1>3, <1>6 DEF Arrived
<1>12. QueueInv'
  BY <1>1, <1>11 DEF QueueInv
<1>13. \A p \in Packets : Got(p)' = Got(p)
  <2>1. pkt[CurPkt].len \in 1..MaxLen /\ MaxLen \in Nat
    BY <1>1, <1>2, Numbers
  <2>2. QED
    BY <2>1, <1>1, <1>2, <1>6 DEF Got
<1>14. ChainInv'
  BY <1>1, <1>3, <1>11, <1>13 DEF ChainInv
<1>15. QED
  BY <1>7, <1>8, <1>9, <1>10, <1>12, <1>14 DEF NetInv

-----------------------------------------------------------------------------
(* The request thread and the application.                                 *)

\* A step that touches neither the chunk nor what is known of the connections.
LEMMA NetKept ==
  ASSUME TypeOK, ChunkInv, ConnInv, CurInv, ChainInv,
         UNCHANGED <<conn, last, rpc, todo, arg, bytes, open, pkt, left>>
  PROVE  /\ ChunkInv' /\ CurInv'
         /\ Arrived' = Arrived /\ CurPkt' = CurPkt /\ Sent' = Sent
         /\ \A p \in Packets : bytes'[p] = [i \in 1..Got(p)' |-> p]
<1>1. ChunkInv' /\ CurPkt' = CurPkt /\ Sent' = Sent
  BY ChunkKept DEF ChunkInv
<1>2. CurInv'
  BY <1>1 DEF CurInv
<1>3. Arrived' = Arrived
  BY <1>1 DEF Arrived
<1>4. QED
  BY <1>1, <1>2, <1>3, GotKept

LEMMA NetReqStep ==
  ASSUME NetInv, ReqStep
  PROVE  NetInv'
<1>1. /\ UNCHANGED <<lock, conn, last, rpc, todo, arg, box, nc, mem, bytes, held,
                     open, pkt, left, resets, taken, harm>>
      /\ \/ req = "queued" /\ req' = "sent" /\ cpc' = cpc
         \/ req = "sent" /\ req' = "none" /\ cpc' = "free"
      /\ TypeOK /\ ChunkInv /\ ConnInv /\ CurInv /\ QueueInv /\ ChainInv
  BY DEF ReqStep, ReqSend, ReqComplete, devVars, histVars, NetInv
<1>2. cpc = "waiting"
  BY <1>1 DEF QueueInv
<1>3. /\ ChunkInv' /\ CurInv' /\ Arrived' = Arrived /\ CurPkt' = CurPkt /\ Sent' = Sent
      /\ \A p \in Packets : bytes'[p] = [i \in 1..Got(p)' |-> p]
  BY <1>1, NetKept
<1>4. TypeOK'
  BY <1>1, <1>3 DEF TypeOK
<1>5. ConnInv'
  BY <1>1, <1>2, ConnKept DEF ConnInv, Deleting
<1>6. QueueInv'
  BY <1>1, <1>2, <1>3 DEF QueueInv
<1>7. ChainInv'
  BY <1>1, <1>3 DEF ChainInv
<1>8. QED
  BY <1>3, <1>4, <1>5, <1>6, <1>7 DEF NetInv

LEMMA NetReqReset ==
  ASSUME NetInv, ReqReset, "between" \notin harm'
  PROVE  NetInv'
<1>1. /\ UNCHANGED <<lock, last, rpc, todo, arg, box, nc, mem, bytes, cpc, held, req,
                     pkt, taken>>
      /\ resets < Resets /\ resets' = resets + 1
      /\ rpc = "get" /\ left = 0 /\ left' = 0
      /\ conn' = [l \in Links |-> ZeroConn] /\ open' = {}
      /\ harm' \subseteq harm \cup Harms
      /\ TypeOK /\ ChunkInv /\ ConnInv /\ CurInv /\ QueueInv /\ ChainInv
  BY DEF ReqReset, Harms, appVars, NetInv
<1>2. /\ todo = << >> /\ ~Beyond /\ ~HdrAhead /\ CurPkt = Sent /\ last = NoLink
  BY <1>1, ChunkRead
<1>3. Awaited' = 0 /\ Awaited = 0 /\ Sent' = Sent
  BY <1>1, <1>2 DEF Awaited, Sent
<1>4. ~Beyond' /\ ~HdrAhead' /\ CurPkt' = CurPkt
  BY <1>1, <1>2, <1>3 DEF Beyond, HdrAhead, CurPkt
<1>5. TypeOK'
  <2>1. ZeroConn \in ConnType
    BY NetAssumption DEF ZeroConn, ZeroIpd, ConnType, IpdType
  <2>2. conn' \in [Links -> ConnType]
    BY <2>1, <1>1
  <2>3. left' \in 0..MaxLen /\ resets' \in 0..Resets
    BY <1>1, NetAssumption DEF TypeOK
  <2>4. QED
    BY <2>2, <2>3, <1>1, <1>3 DEF TypeOK, ConnType, IpdType
<1>6. ChunkInv'
  BY <1>1, <1>2, <1>3, <1>4 DEF ChunkInv
<1>7. ConnInv'
  <2>1. /\ ~ZeroConn.active /\ ~ZeroConn.cb /\ ZeroConn.cb = ZeroConn.active
        /\ ZeroConn.ipd = ZeroIpd
    BY DEF ZeroConn
  <2>2. \A l \in Links : conn'[l] = ZeroConn
    BY <1>1
  <2>3. QED
    BY <2>1, <2>2, <1>1 DEF ConnInv, Deleting
<1>8. CurInv'
  BY <1>1, <1>2 DEF CurInv
<1>9. Arrived' = Arrived
  BY <1>1, <1>4 DEF Arrived
<1>10. QueueInv'
  BY <1>1, <1>9 DEF QueueInv
<1>11. ChainInv'
  BY <1>1, <1>2, <1>4, <1>9, GotKept DEF ChainInv
<1>12. QED
  BY <1>5, <1>6, <1>7, <1>8, <1>10, <1>11 DEF NetInv

\* A packet leaves the mailbox: the oldest of those the application has not seen.
LEMMA BoxHead ==
  ASSUME TypeOK, QueueInv, box # << >>,
         box' = Tail(box), taken' = Append(taken, Head(box))
  PROVE  /\ Head(box) \in Packets /\ Head(box) = Len(taken) + 1
         /\ Len(taken) \in Nat /\ Len(taken') = Len(taken) + 1
         /\ Head(box) <= Arrived /\ Arrived \in Nat
         /\ box' \in Seq(Packets) /\ Len(box') <= RecvQLen
         /\ taken' \in Seq(Packets)
         /\ Len(taken') + Len(box') = Arrived
         /\ \A i \in DOMAIN taken' : taken'[i] = i
         /\ \A i \in DOMAIN box' : box'[i] = Len(taken') + i
<1>1. /\ box \in Seq(Packets) /\ taken \in Seq(Packets)
      /\ Len(box) \in Nat /\ Len(box) > 0 /\ Len(taken) \in Nat /\ RecvQLen \in Nat
      /\ Len(box) <= RecvQLen /\ Len(taken) + Len(box) = Arrived
  BY EmptySeq, NetAssumption DEF TypeOK, QueueInv
<1>2. /\ Head(box) \in Packets /\ Head(box) = box[1]
      /\ box' \in Seq(Packets) /\ Len(box') = Len(box) - 1
      /\ \A i \in 1..Len(box') : box'[i] = box[i + 1]
  BY <1>1, HeadTailProperties
<1>3. Head(box) = Len(taken) + 1
  <2>1. 1 \in DOMAIN box
    BY <1>1
  <2>2. \A i \in DOMAIN box : box[i] = Len(taken) + i
    BY DEF QueueInv
  <2>3. QED
    BY <2>1, <2>2, <1>2
<1>4. /\ taken' \in Seq(Packets) /\ Len(taken') = Len(taken) + 1
      /\ \A i \in 1..Len(taken) : taken'[i] = taken[i]
      /\ taken'[Len(taken) + 1] = Len(taken) + 1
  BY <1>1, <1>2, <1>3, AppendProperties
<1>5. \A i \in DOMAIN taken' : taken'[i] = i
  <2>1. TAKE i \in DOMAIN taken'
  <2>2. i \in 1..Len(taken) \/ i = Len(taken) + 1
    BY <1>1, <1>4
  <2>3. QED
    BY <2>2, <1>1, <1>4 DEF QueueInv
<1>6. \A i \in DOMAIN box' : box'[i] = Len(taken') + i
  <2>1. TAKE i \in DOMAIN box'
  <2>2. i \in 1..Len(box') /\ i + 1 \in DOMAIN box /\ i \in Nat
    BY <1>1, <1>2
  <2>3. box'[i] = Len(taken) + (i + 1)
    BY <2>2, <1>2 DEF QueueInv
  <2>4. QED
    BY <2>2, <2>3, <1>1, <1>4
<1>7. /\ Len(taken') + Len(box') = Arrived /\ Head(box) <= Arrived /\ Arrived \in Nat
      /\ Len(box') <= RecvQLen
  BY <1>1, <1>2, <1>3, <1>4
<1>8. QED
  BY <1>1, <1>2, <1>3, <1>4, <1>5, <1>6, <1>7

LEMMA NetAppGrab ==
  ASSUME NetInv, AppGrab
  PROVE  NetInv'
<1>1. /\ UNCHANGED <<lock, conn, last, rpc, todo, arg, nc, mem, bytes, req,
                     open, pkt, left, resets, harm>>
      /\ cpc = "grab" /\ cpc' \in {"reply", "free"} /\ box # << >>
      /\ held' = Head(box) /\ box' = Tail(box) /\ taken' = Append(taken, Head(box))
      /\ TypeOK /\ ChunkInv /\ ConnInv /\ CurInv /\ QueueInv /\ ChainInv
  BY DEF AppGrab, devVars, histVars, NetInv
<1>2. /\ held' \in Packets /\ held' = Len(taken) + 1
      /\ Len(taken) \in Nat /\ Len(taken') = Len(taken) + 1
      /\ held' <= Arrived
      /\ box' \in Seq(Packets) /\ Len(box') <= RecvQLen
      /\ taken' \in Seq(Packets)
      /\ Len(taken') + Len(box') = Arrived
      /\ \A i \in DOMAIN taken' : taken'[i] = i
      /\ \A i \in DOMAIN box' : box'[i] = Len(taken') + i
  BY <1>1, BoxHead
<1>3. /\ ChunkInv' /\ CurInv' /\ Arrived' = Arrived /\ CurPkt' = CurPkt /\ Sent' = Sent
      /\ \A p \in Packets : bytes'[p] = [i \in 1..Got(p)' |-> p]
  BY <1>1, NetKept
<1>4. TypeOK'
  BY <1>1, <1>2, <1>3 DEF TypeOK
<1>5. ConnInv'
  BY <1>1, ConnKept DEF ConnInv, Deleting
<1>6. QueueInv'
  <2>1. held' # NoPkt /\ held' \in 0..Len(taken')
    BY <1>2 DEF NoPkt
  <2>2. req' = "none"
    BY <1>1 DEF QueueInv, TypeOK
  <2>3. QED
    BY <2>1, <2>2, <1>1, <1>2, <1>3 DEF QueueInv
<1>7. ChainInv'
  <2>1. mem[held'] = "live"
    BY <1>1, <1>2 DEF ChainInv
  <2>2. \A p \in Packets : p > Len(taken') => p > Len(taken)
    BY <1>2, NetAssumption DEF Packets
  <2>3. QED
    BY <2>1, <2>2, <1>1, <1>3 DEF ChainInv
<1>8. QED
  BY <1>3, <1>4, <1>5, <1>6, <1>7 DEF NetInv

LEMMA NetAppReply ==
  ASSUME NetInv, AppReply
  PROVE  NetInv'
<1>1. /\ UNCHANGED <<lock, conn, last, rpc, todo, arg, box, nc, mem, bytes, held,
                     open, pkt, left, resets, taken, harm>>
      /\ cpc = "reply"
      /\ \/ req' = "queued" /\ cpc' = "waiting"
         \/ cpc' = "free" /\ req' = req
      /\ TypeOK /\ ChunkInv /\ ConnInv /\ CurInv /\ QueueInv /\ ChainInv
  BY DEF AppReply, devVars, histVars, NetInv
<1>2. /\ ChunkInv' /\ CurInv' /\ Arrived' = Arrived /\ CurPkt' = CurPkt /\ Sent' = Sent
      /\ \A p \in Packets : bytes'[p] = [i \in 1..Got(p)' |-> p]
  BY <1>1, NetKept
<1>3. TypeOK'
  BY <1>1, <1>2 DEF TypeOK
<1>4. ConnInv'
  BY <1>1, ConnKept DEF ConnInv, Deleting
<1>5. QueueInv'
  BY <1>1, <1>2 DEF QueueInv
<1>6. ChainInv'
  BY <1>1, <1>2 DEF ChainInv
<1>7. QED
  BY <1>2, <1>3, <1>4, <1>5, <1>6 DEF NetInv

\* A live packet that has left the mailbox is freed.
LEMMA FreeLive ==
  ASSUME TypeOK, QueueInv, ChainInv, NEW p \in Packets, mem[p] = "live",
         p <= Len(taken'), Len(taken') \in Nat, Len(taken') <= Arrived, Arrived \in Nat,
         Len(taken) <= Len(taken'), Len(taken) \in Nat,
         mem' = Free(mem, p), UNCHANGED <<last, rpc>>,
         CurPkt' = CurPkt, CurPkt \in Nat, CurInv,
         Arrived' = Arrived, held' = NoPkt,
         \A q \in Packets : bytes'[q] = [i \in 1..Got(q)' |-> q]
  PROVE  ChainInv' /\ mem' \in [Packets -> {"none", "live", "freed", "double"}]
<1>1. /\ mem' = [mem EXCEPT ![p] = "freed"]
      /\ mem \in [Packets -> {"none", "live", "freed", "double"}]
  BY DEF Free, TypeOK
<1>2. /\ mem' \in [Packets -> {"none", "live", "freed", "double"}]
      /\ mem'[p] = "freed" /\ \A q \in Packets \ {p} : mem'[q] = mem[q]
  BY <1>1
<1>3. \A q \in Packets : mem'[q] # "double"
  BY <1>2 DEF ChainInv
<1>4. \A q \in Packets : q > Len(taken') => q > Len(taken) /\ q # p
  BY NetAssumption DEF Packets
<1>5. rpc \in {"callback", "put"} => mem'[CurPkt] = "live"
  <2>1. HAVE rpc \in {"callback", "put"}
  <2>2. last # NoLink
    BY <2>1 DEF CurInv
  <2>3. Arrived = CurPkt - 1
    BY <2>1, <2>2 DEF Arrived
  <2>4. CurPkt # p
    BY <2>3, NetAssumption DEF Packets
  <2>5. mem[CurPkt] = "live"
    BY <2>1 DEF ChainInv
  <2>6. mem'[CurPkt] = mem[CurPkt]
    BY <2>4, <1>1
  <2>7. QED
    BY <2>5, <2>6
<1>6. QED
  BY <1>2, <1>3, <1>4, <1>5 DEF ChainInv

LEMMA NetAppFree ==
  ASSUME NetInv, AppFree
  PROVE  NetInv'
<1>1. /\ UNCHANGED <<lock, conn, last, rpc, todo, arg, box, nc, bytes, req,
                     open, pkt, left, resets, taken, harm>>
      /\ cpc = "free" /\ cpc' = "grab" /\ held' = NoPkt /\ mem' = Free(mem, held)
      /\ TypeOK /\ ChunkInv /\ ConnInv /\ CurInv /\ QueueInv /\ ChainInv
  BY DEF AppFree, devVars, histVars, NetInv
<1>2. /\ ChunkInv' /\ CurInv' /\ Arrived' = Arrived /\ CurPkt' = CurPkt /\ Sent' = Sent
      /\ \A p \in Packets : bytes'[p] = [i \in 1..Got(p)' |-> p]
  BY <1>1, NetKept
<1>3. /\ held \in Packets /\ mem[held] = "live" /\ req = "none"
      /\ held <= Len(taken') /\ Len(taken') \in Nat /\ Len(taken') = Len(taken)
      /\ Len(taken') <= Arrived /\ Arrived \in Nat /\ CurPkt \in Nat
  <2>1. held # NoPkt /\ held \in Packets /\ req = "none"
    BY <1>1 DEF QueueInv, TypeOK
  <2>2. mem[held] = "live"
    BY <2>1, <1>1 DEF ChainInv
  <2>3. Len(taken) \in Nat /\ Len(box) \in Nat /\ Len(taken) + Len(box) = Arrived
    BY <1>1 DEF TypeOK, QueueInv
  <2>4. held \in 0..Len(taken) /\ CurPkt \in Nat
    BY <1>1, Numbers DEF QueueInv
  <2>5. QED
    BY <2>1, <2>2, <2>3, <2>4, <1>1
<1>4. ChainInv' /\ mem' \in [Packets -> {"none", "live", "freed", "double"}]
  BY <1>1, <1>2, <1>3, FreeLive
<1>5. TypeOK'
  BY <1>1, <1>2, <1>4 DEF TypeOK
<1>6. ConnInv'
  BY <1>1, ConnKept DEF ConnInv, Deleting
<1>7. QueueInv'
  BY <1>1, <1>2, <1>3 DEF QueueInv, NoPkt
<1>8. QED
  BY <1>2, <1>4, <1>5, <1>6, <1>7 DEF NetInv

LEMMA NetAppFlush ==
  ASSUME NetInv, AppFlush
  PROVE  NetInv'
<1>1. /\ UNCHANGED <<lock, conn, last, rpc, todo, arg, nc, bytes, cpc, held, req,
                     open, pkt, left, resets, harm>>
      /\ cpc = "delete" /\ box # << >> /\ mem' = Free(mem, Head(box))
      /\ box' = Tail(box) /\ taken' = Append(taken, Head(box))
      /\ TypeOK /\ ChunkInv /\ ConnInv /\ CurInv /\ QueueInv /\ ChainInv
  BY DEF AppFlush, appVars, devVars, histVars, NetInv
<1>2. /\ ChunkInv' /\ CurInv' /\ Arrived' = Arrived /\ CurPkt' = CurPkt /\ Sent' = Sent
      /\ \A p \in Packets : bytes'[p] = [i \in 1..Got(p)' |-> p]
  BY <1>1, NetKept
<1> DEFINE p == Head(box)
<1>3. /\ p \in Packets /\ p = Len(taken) + 1
      /\ Len(taken) \in Nat /\ Len(taken') = Len(taken) + 1
      /\ p <= Arrived /\ Arrived \in Nat
      /\ box' \in Seq(Packets) /\ Len(box') <= RecvQLen
      /\ taken' \in Seq(Packets)
      /\ Len(taken') + Len(box') = Arrived
      /\ \A i \in DOMAIN taken' : taken'[i] = i
      /\ \A i \in DOMAIN box' : box'[i] = Len(taken') + i
  BY <1>1, BoxHead
<1>4. held = NoPkt /\ req = "none"
  BY <1>1 DEF QueueInv, TypeOK
<1> HIDE DEF p
<1>5. /\ mem[p] = "live" /\ p <= Len(taken') /\ Len(taken') \in Nat
      /\ Len(taken') <= Arrived /\ Len(taken) <= Len(taken') /\ CurPkt \in Nat
  <2>1. mem[p] = "live"
    BY <1>1, <1>3 DEF ChainInv
  <2>2. CurPkt \in Nat
    BY <1>1, Numbers
  <2>3. QED
    BY <2>1, <2>2, <1>3
<1>6. ChainInv' /\ mem' \in [Packets -> {"none", "live", "freed", "double"}]
  <2>1. mem' = Free(mem, p)
    BY <1>1 DEF p
  <2>2. QED
    BY <2>1, <1>1, <1>2, <1>3, <1>4, <1>5, FreeLive
<1>7. TypeOK'
  BY <1>1, <1>2, <1>3, <1>6 DEF TypeOK
<1>8. ConnInv'
  BY <1>1, ConnKept DEF ConnInv, Deleting
<1>9. QueueInv'
  BY <1>1, <1>2, <1>3, <1>4, <1>5 DEF QueueInv, NoPkt
<1>10. QED
  BY <1>2, <1>6, <1>7, <1>8, <1>9 DEF NetInv

\* The connection of a netconn that is deleted in peace is zero already.
LEMMA NetAppDelete ==
  ASSUME NetInv, AppDelete \/ AppZero \/ AppDeleted, "between" \notin harm'
  PROVE  NetInv'
<1>1. TypeOK /\ ChunkInv /\ ConnInv /\ CurInv /\ QueueInv /\ ChainInv
  BY DEF NetInv
<1>2. /\ UNCHANGED <<lock, conn, last, rpc, todo, arg, box, mem, bytes, held, req,
                     open, pkt, left, resets, taken>>
      /\ cpc \in {"grab", "zero", "delete"} /\ cpc' \in {"zero", "delete"}
      /\ nc' \in {nc, "deleted"} /\ harm' \subseteq harm \cup Harms
      /\ open = {} /\ \A l \in Links : ~conn[l].active
  <2>1. CASE AppDelete
    <3>1. /\ open = {} /\ \A l \in Links : ~conn[l].active
          /\ cpc = "grab" /\ cpc' = "zero" /\ harm' \subseteq harm \cup Harms
          /\ UNCHANGED <<lock, conn, last, rpc, todo, arg, box, nc, bytes, held, req,
                         open, pkt, left, resets, taken>>
      BY <2>1 DEF AppDelete, Harms, devVars
    <3>2. conn[NcLink] = ZeroConn
      BY <3>1, <1>1, NetAssumption DEF ConnInv
    <3>3. mem' = mem
      BY <2>1, <3>2 DEF AppDelete, ZeroConn
    <3>4. QED
      BY <3>1, <3>3
  <2>2. CASE AppZero
    <3>1. /\ cpc = "zero" /\ cpc' = "delete" /\ harm' \subseteq harm \cup Harms
          /\ UNCHANGED <<lock, last, rpc, todo, arg, box, nc, mem, bytes, held, req,
                         open, pkt, left, resets, taken>>
      BY <2>2 DEF AppZero, Harms, devVars
    <3>2. open = {} /\ \A l \in Links : ~conn[l].active
      BY <3>1, <1>1 DEF ConnInv, Deleting
    <3>3. conn[NcLink] = ZeroConn
      BY <3>2, <1>1, NetAssumption DEF ConnInv
    <3>4. conn' = [conn EXCEPT ![NcLink] = ZeroConn]
      BY <2>2 DEF AppZero
    <3>5. conn' = conn
      BY <3>3, <3>4, <1>1, NetAssumption DEF TypeOK
    <3>6. QED
      BY <3>1, <3>2, <3>5
  <2>3. CASE AppDeleted
    BY <2>3, <1>1 DEF AppDeleted, ConnInv, Deleting, appVars, devVars, histVars
  <2>4. QED
    BY <2>1, <2>2, <2>3
<1>3. /\ ChunkInv' /\ CurInv' /\ Arrived' = Arrived /\ CurPkt' = CurPkt /\ Sent' = Sent
      /\ \A p \in Packets : bytes'[p] = [i \in 1..Got(p)' |-> p]
  BY <1>1, <1>2, NetKept
<1>4. TypeOK'
  BY <1>1, <1>2, <1>3 DEF TypeOK
<1>5. ConnInv'
  <2>1. Awaited' = Awaited /\ (Beyond' <=> Beyond) /\ Following' = Following
    BY <1>2 DEF Awaited, Beyond, Following
  <2>2. Deleting'
    BY <1>2 DEF Deleting
  <2>3. QED
    BY <2>1, <2>2, <1>1, <1>2 DEF ConnInv
<1>6. QueueInv'
  BY <1>1, <1>2, <1>3 DEF QueueInv
<1>7. ChainInv'
  BY <1>1, <1>2, <1>3 DEF ChainInv
<1>8. QED
  BY <1>3, <1>4, <1>5, <1>6, <1>7 DEF NetInv
-----------------------------------------------------------------------------
(* Pointers and their owners, whatever resets and the deletion do.         *)

\* A header is still to be read.
Coming == \E i \in DOMAIN todo : todo[i].kind = "hdr"

\* A chunk has one at most, that of the last packet, and its lines name connections.
LinesInv ==
  /\ \A i \in DOMAIN todo :
       todo[i].kind \in {"connect", "closed", "hdr"} => todo[i].link \in Links
  /\ \A i \in DOMAIN todo : todo[i].kind = "hdr" => Sent >= 1 /\ todo[i].pkt = Sent
  /\ \A i, j \in DOMAIN todo : todo[i].kind = "hdr" /\ todo[j].kind = "hdr" => i = j

\* The IPD object that last_active_ipd points to.
Cur == conn[last].ipd

\* The packet in the hands of the response thread.
HandInv ==
  /\ lock = "resp" <=> rpc \in {"parse", "callback", "put", "reset", "dead"}
  /\ rpc \in {"callback", "put", "reset"} => last # NoLink
  /\ last # NoLink /\ Cur.conn =>
       Cur.head \in Packets /\ Cur.head <= Sent /\ (Coming => Cur.head < Sent)
  /\ rpc = "callback" /\ Cur.conn => conn[last].pbuf = Cur.head
  /\ rpc = "put" => arg \in Packets /\ arg <= Sent /\ (Coming => arg < Sent)
  /\ rpc = "put" /\ cpc # "delete" => conn[last].cb

\* What is true of the connections for want of harm.
HarmInv ==
  /\ \A l \in Links : conn[l].cb => conn[l].active
  /\ "packet" \notin harm /\ last # NoLink => Cur.conn
  /\ "callback" \notin harm /\ cpc = "delete" => \A l \in Links : ~conn[l].cb
  /\ nc = "deleted" => cpc = "delete"
  /\ harm \cap {"packet", "callback"} = {} =>
       rpc # "dead" /\ (rpc = "put" => conn[last].cb)

\* p is of an earlier packet than any that is still to be put in the mailbox.
Before(p) ==
  /\ p <= Sent
  /\ Coming => p < Sent
  /\ last # NoLink /\ Cur.conn /\ rpc \in {"get", "start", "parse", "callback", "put"} =>
       p < Cur.head
  /\ rpc = "put" => p < arg

OrderInv ==
  /\ \A i \in DOMAIN taken : Before(taken[i])
  /\ \A i \in DOMAIN box : Before(box[i])
  /\ \A i, j \in DOMAIN taken : i < j => taken[i] < taken[j]
  /\ \A i, j \in DOMAIN box : i < j => box[i] < box[j]
  /\ \A i \in DOMAIN taken : \A j \in DOMAIN box : taken[i] < box[j]

\* The application has one it took, until it frees it.
HeldInv ==
  /\ held # NoPkt => \E i \in DOMAIN taken : taken[i] = held
  /\ held # NoPkt <=> cpc \in {"reply", "waiting", "free"}
  /\ req # "none" => cpc = "waiting"

\* The one the connection of the netconn still points to is earlier too.
NcPbuf == conn[NcLink].pbuf
PbufInv ==
  /\ NcPbuf <= Sent /\ (Coming => NcPbuf < Sent)
  /\ ~(last = NcLink /\ rpc \in {"callback", "put"}) => Before(NcPbuf)

\* Nothing the mailbox, the application or the response thread has is freed, nor
\* what an idle connection of the netconn points to, which nobody has.
OwnInv ==
  /\ \A p \in Packets : mem[p] # "double"
  /\ \A i \in DOMAIN box : mem[box[i]] = "live"
  /\ held # NoPkt => mem[held] = "live"
  /\ rpc = "callback" /\ conn[last].cb /\ Cur.conn => mem[Cur.head] = "live"
  /\ rpc = "put" => mem[arg] = "live"
  /\ ~Deleting /\ ~conn[NcLink].active /\ NcPbuf # NoPkt =>
       /\ mem[NcPbuf] = "live"
       /\ \A i \in DOMAIN taken : taken[i] # NcPbuf
       /\ \A i \in DOMAIN box : box[i] # NcPbuf
OwnSafe == "open" \notin harm => OwnInv

PointerInv == /\ TypeOK /\ LinesInv /\ HandInv /\ HarmInv
              /\ OrderInv /\ HeldInv /\ PbufInv /\ OwnSafe

LEMMA PointerTypes ==
  ASSUME TypeOK
  PROVE  /\ Sent \in Nat /\ Sent <= NumPackets /\ NumPackets \in Nat /\ MaxLen \in Nat
         /\ Packets \subseteq Nat /\ 0 \notin Packets /\ left \in Nat /\ left \in 0..MaxLen
         /\ todo \in Seq(UnitType) /\ Len(todo) \in Nat
         /\ \A i \in DOMAIN todo : todo[i] \in UnitType
         /\ taken \in Seq(Packets) /\ Len(taken) \in Nat
         /\ box \in Seq(Packets) /\ Len(box) \in Nat /\ RecvQLen \in Nat
         /\ \A i \in DOMAIN taken : taken[i] \in Packets
         /\ \A i \in DOMAIN box : box[i] \in Packets
         /\ conn \in [Links -> ConnType]
         /\ \A l \in Links : conn[l].pbuf \in Packets \cup {0}
         /\ NcPbuf \in Packets \cup {0} /\ NcPbuf \in Nat
         /\ \A p \in 1..Sent : pkt[p] \in [link : Links, len : 1..MaxLen]
<1>1. /\ pkt \in Seq([link : Links, len : 1..MaxLen]) /\ Len(pkt) <= NumPackets
      /\ NumPackets \in Nat /\ MaxLen \in Nat /\ RecvQLen \in Nat /\ left \in 0..MaxLen
  BY NetAssumption DEF TypeOK, Sent
<1>2. /\ Sent \in Nat /\ Sent <= NumPackets
      /\ \A p \in 1..Sent : pkt[p] \in [link : Links, len : 1..MaxLen]
  BY <1>1, ElementOfSeq, LenProperties DEF Sent
<1>3. Packets \subseteq Nat /\ 0 \notin Packets
  BY <1>1 DEF Packets
<1>4. /\ todo \in Seq(UnitType) /\ Len(todo) \in Nat
      /\ \A i \in DOMAIN todo : todo[i] \in UnitType
  <2>1. todo \in Seq(UnitType)
    BY DEF TypeOK, UnitType
  <2>2. QED
    BY <2>1, LenProperties, ElementOfSeq
<1>5. /\ taken \in Seq(Packets) /\ Len(taken) \in Nat
      /\ \A i \in DOMAIN taken : taken[i] \in Packets
      /\ box \in Seq(Packets) /\ Len(box) \in Nat
      /\ \A i \in DOMAIN box : box[i] \in Packets
  <2>1. taken \in Seq(Packets) /\ box \in Seq(Packets)
    BY DEF TypeOK
  <2>2. QED
    BY <2>1, LenProperties, ElementOfSeq
<1>6. conn \in [Links -> ConnType]
  BY DEF TypeOK, ConnType, IpdType
<1>7. \A l \in Links : conn[l].pbuf \in Packets \cup {0}
  BY <1>6 DEF ConnType, NoPkt
<1>8. NcPbuf \in Packets \cup {0} /\ NcPbuf \in Nat
  <2>1. NcLink \in Links
    BY NetAssumption
  <2>2. NcPbuf \in Packets \cup {0}
    BY <2>1, <1>7 DEF NcPbuf
  <2>3. QED
    BY <2>2, <1>3
<1>9. QED
  BY <1>1, <1>2, <1>3, <1>4, <1>5, <1>6, <1>7, <1>8

LEMMA ZeroTyped == ZeroConn \in ConnType /\ ZeroIpd \in IpdType
BY NetAssumption DEF ZeroConn, ZeroIpd, ConnType, IpdType

\* The first n units of a chunk are read.
LEMMA LinesRead ==
  ASSUME TypeOK, LinesInv, NEW n \in Nat, n <= Len(todo), pkt' = pkt,
         todo' \in Seq(UnitType), Len(todo') = Len(todo) - n,
         \A i \in 1..Len(todo') : todo'[i] = todo[i + n]
  PROVE  /\ LinesInv' /\ (Coming' => Coming)
         /\ n > 0 /\ todo[1].kind = "hdr" => ~Coming'
<1>1. Len(todo) \in Nat /\ Sent' = Sent
  BY PointerTypes DEF Sent
<1>2. \A i \in DOMAIN todo' : i + n \in DOMAIN todo /\ todo'[i] = todo[i + n] /\ i \in Nat
  BY <1>1
<1>3. LinesInv'
  BY <1>1, <1>2 DEF LinesInv
<1>4. Coming' => Coming
  BY <1>2 DEF Coming
<1>5. n > 0 /\ todo[1].kind = "hdr" => ~Coming'
  <2>1. ASSUME n > 0, todo[1].kind = "hdr", NEW i \in DOMAIN todo', todo'[i].kind = "hdr"
        PROVE  FALSE
    <3>1. 1 \in DOMAIN todo /\ i + n \in DOMAIN todo /\ i >= 1 /\ i \in Nat
      BY <2>1, <1>1, <1>2
    <3>2. i + n = 1
      BY <3>1, <2>1, <1>2 DEF LinesInv
    <3>3. QED
      BY <3>1, <3>2, <2>1
  <2>2. QED
    BY <2>1 DEF Coming
<1>6. QED
  BY <1>3, <1>4, <1>5

LEMMA LinesTail ==
  ASSUME TypeOK, LinesInv, todo # << >>, todo' = Tail(todo), pkt' = pkt
  PROVE  /\ todo' \in Seq(UnitType) /\ Head(todo) \in UnitType /\ LinesInv'
         /\ Head(todo) = todo[1] /\ 1 \in DOMAIN todo
         /\ Coming' => Coming
         /\ Head(todo).kind = "hdr" => Coming /\ ~Coming'
<1>1. todo \in Seq(UnitType) /\ Len(todo) \in Nat /\ Len(todo) > 0
  BY PointerTypes, EmptySeq
<1>2. /\ Head(todo) = todo[1] /\ Head(todo) \in UnitType
      /\ todo' \in Seq(UnitType) /\ Len(todo') = Len(todo) - 1
      /\ \A i \in 1..Len(todo') : todo'[i] = todo[i + 1]
  BY <1>1, HeadTailProperties
<1>3. /\ LinesInv' /\ (Coming' => Coming)
      /\ todo[1].kind = "hdr" => ~Coming'
  BY <1>1, <1>2, LinesRead
<1>4. 1 \in DOMAIN todo
  BY <1>1
<1>5. QED
  BY <1>2, <1>3, <1>4 DEF Coming

-----------------------------------------------------------------------------
(* Steps that deliver nothing.                                             *)

\* Between packets, or with the one in progress as it was.
LEMMA PointersKept ==
  ASSUME TypeOK, Sent' \in Nat, LinesInv', HandInv, HarmInv, OrderInv, HeldInv, PbufInv, OwnSafe,
         UNCHANGED <<last, arg, box, nc, mem, cpc, held, req, taken, harm>>,
         lock' = "resp" <=> rpc' = "parse",
         rpc \in {"get", "start", "parse"}, rpc' \in {"get", "start", "parse"},
         Sent' >= Sent, Coming' => Coming \/ Sent' > Sent,
         last # NoLink => conn'[last] = conn[last],
         \A l \in Links : conn'[l].cb => conn'[l].active /\ (conn[l].cb \/ ~Deleting),
         \/ NcPbuf' = NcPbuf /\ (conn[NcLink].active => conn'[NcLink].active)
         \/ NcPbuf' = NoPkt
  PROVE  HandInv' /\ HarmInv' /\ OrderInv' /\ HeldInv' /\ PbufInv' /\ OwnSafe'
<1>1. /\ Sent \in Nat /\ Sent' \in Nat /\ Packets \subseteq Nat /\ NcPbuf \in Nat
      /\ \A i \in DOMAIN taken : taken[i] \in Nat
      /\ \A i \in DOMAIN box : box[i] \in Nat
  BY PointerTypes
<1>2. Coming' => Sent' >= 1
  BY DEF Coming, LinesInv
<1>3. last # NoLink => Cur' = Cur
  BY DEF Cur
<1>4. HandInv'
  <2>1. last # NoLink /\ Cur'.conn =>
          Cur'.head \in Packets /\ Cur'.head <= Sent' /\ (Coming' => Cur'.head < Sent')
    <3>1. HAVE last # NoLink /\ Cur'.conn
    <3>2. Cur.head \in Packets /\ Cur.head <= Sent /\ (Coming => Cur.head < Sent)
      BY <3>1, <1>3 DEF HandInv
    <3>3. Cur.head \in Nat /\ Cur'.head = Cur.head
      BY <3>1, <3>2, <1>1, <1>3
    <3>4. QED
      BY <3>2, <3>3, <1>1
  <2>2. QED
    BY <2>1 DEF HandInv
<1>5. HarmInv'
  BY <1>3 DEF HarmInv, Deleting
<1>6. \A p \in Nat : Before(p) => Before(p)'
  BY <1>1, <1>3 DEF Before
<1>7. OrderInv'
  BY <1>1, <1>6 DEF OrderInv
<1>8. HeldInv'
  BY DEF HeldInv
<1>9. PbufInv'
  <2>1. Before(NcPbuf)
    BY DEF PbufInv
  <2>2. CASE NcPbuf' = NcPbuf
    BY <2>1, <2>2, <1>1, <1>6 DEF PbufInv, Before
  <2>3. CASE NcPbuf' = NoPkt
    <3>1. last # NoLink /\ Cur'.conn => Cur'.head \in Packets
      BY <1>3 DEF HandInv
    <3>2. NcPbuf' <= Sent' /\ (Coming' => NcPbuf' < Sent')
      BY <2>3, <1>1, <1>2 DEF NoPkt
    <3>3. Before(NcPbuf)'
      BY <2>3, <3>1, <3>2, <1>1, NetAssumption DEF Before, NoPkt, Packets
    <3>4. QED
      BY <3>2, <3>3 DEF PbufInv
  <2>4. QED
    BY <2>2, <2>3
<1>10. OwnSafe'
  BY DEF OwnSafe, OwnInv, Deleting
<1>11. QED
  BY <1>4, <1>5, <1>7, <1>8, <1>9, <1>10

LEMMA PtrRespGet ==
  ASSUME PointerInv, RespGet
  PROVE  PointerInv'
<1>1. /\ UNCHANGED <<lock, conn, last, arg, box, nc, mem, bytes, cpc, held, req,
                     resets, taken, harm>>
      /\ rpc = "get" /\ rpc' = "start"
      /\ TypeOK /\ LinesInv /\ HandInv /\ HarmInv /\ OrderInv /\ HeldInv /\ PbufInv /\ OwnSafe
  BY DEF RespGet, appVars, histVars, PointerInv
<1>2. /\ Sent \in Nat /\ Sent <= NumPackets /\ NumPackets \in Nat /\ MaxLen \in Nat
      /\ left \in Nat /\ left \in 0..MaxLen /\ Sent \in Packets \cup {NoPkt}
      /\ open \subseteq Links
  BY <1>1, PointerTypes DEF Packets, NoPkt, TypeOK
<1>3. /\ todo' \in Seq(UnitType) /\ left' \in 0..MaxLen /\ open' \subseteq Links
      /\ pkt' \in Seq([link : Links, len : 1..MaxLen]) /\ Sent' <= NumPackets
      /\ Sent' \in Nat /\ Sent' >= Sent /\ (Coming' => Sent' > Sent) /\ LinesInv'
  <2>1. CASE \E k \in 1..left : /\ todo' = Payload(Sent, k)
                                /\ left' = left - k
                                /\ UNCHANGED <<open, pkt>>
    <3>1. PICK k \in 1..left : /\ todo' = Payload(Sent, k)
                               /\ left' = left - k
                               /\ UNCHANGED <<open, pkt>>
      BY <2>1
    <3>2. /\ todo' \in Seq(UnitType) /\ Len(todo') = k
          /\ \A i \in 1..k : todo'[i] = Byte(Sent)
      BY <3>1, <1>2, PayloadSeq
    <3>3. Sent' = Sent
      BY <3>1 DEF Sent
    <3>4. \A i \in DOMAIN todo' : todo'[i].kind = "data"
      BY <3>2 DEF Byte
    <3>5. LinesInv' /\ ~Coming'
      BY <3>4 DEF LinesInv, Coming
    <3>6. QED
      BY <3>1, <3>2, <3>3, <3>5, <1>1, <1>2 DEF TypeOK
  <2>2. CASE BeginPacket(Payload(Sent, left))
    <3>1. PICK l \in open, len \in 1..MaxLen : \E k \in 0..len :
            /\ pkt' = Append(pkt, [link |-> l, len |-> len])
            /\ todo' = Payload(Sent, left) \o <<[kind |-> "hdr", link |-> l, pkt |-> Sent + 1]>>
                            \o Payload(Sent + 1, k)
            /\ left' = len - k
      BY <2>2, NetAssumption DEF BeginPacket
    <3>2. PICK k \in 0..len :
            /\ pkt' = Append(pkt, [link |-> l, len |-> len])
            /\ todo' = Payload(Sent, left) \o <<[kind |-> "hdr", link |-> l, pkt |-> Sent + 1]>>
                            \o Payload(Sent + 1, k)
            /\ left' = len - k
      BY <3>1
    <3> DEFINE u == [kind |-> "hdr", link |-> l, pkt |-> Sent + 1]
    <3>3. l \in Links /\ Sent + 1 \in Packets /\ u \in UnitType /\ open' = open
      BY <1>2, <2>2 DEF BeginPacket, Packets, UnitType
    <3>4. u.kind = "hdr" /\ u.link = l /\ u.pkt = Sent + 1
      OBVIOUS
    <3> HIDE DEF u
    <3>5. PICK q \in Packets : q = Sent + 1
      BY <3>3
    <3>6. IsAcross(todo', Sent, left, u, q, k)
      <4>1. todo' = Across(Sent, left, u, q, k)
        BY <3>2, <3>5 DEF u, Across
      <4>2. k \in Nat
        BY <1>2
      <4>3. QED
        BY <4>1, <4>2, <3>3, <1>2, PayloadConcat
    <3>7. /\ pkt' \in Seq([link : Links, len : 1..MaxLen]) /\ Sent' = Sent + 1
      BY <3>2, <3>3, <1>1, AppendProperties DEF TypeOK, Sent
    <3>8. /\ todo' \in Seq(UnitType) /\ Len(todo') = left + 1 + k
          /\ \A i \in DOMAIN todo' : i # left + 1 => todo'[i].kind = "data"
          /\ todo'[left + 1] = u
      <4>1. /\ todo' \in Seq(UnitType) /\ Len(todo') = left + 1 + k
            /\ \A i \in 1..left : todo'[i] = Byte(Sent)
            /\ todo'[left + 1] = u
            /\ \A i \in (left + 2)..(left + 1 + k) : todo'[i] = Byte(q)
        BY <3>6 DEF IsAcross
      <4>2. \A i \in DOMAIN todo' : i # left + 1 => i \in 1..left \/ i \in (left + 2)..(left + 1 + k)
        BY <4>1, <1>2
      <4>3. QED
        BY <4>1, <4>2 DEF Byte
    <3>9. LinesInv'
      <4>1. \A i \in DOMAIN todo' : todo'[i].kind \in {"connect", "closed", "hdr"} =>
                                     i = left + 1 /\ todo'[i] = u
        BY <3>8
      <4>2. \A i \in DOMAIN todo' : todo'[i].kind = "hdr" => i = left + 1 /\ todo'[i] = u
        BY <4>1
      <4>3. u.link \in Links /\ u.pkt = Sent' /\ Sent' >= 1
        BY <3>3, <3>4, <3>7, <1>2
      <4>4. QED
        BY <4>1, <4>2, <4>3 DEF LinesInv
    <3>10. left' \in 0..MaxLen /\ Sent' <= NumPackets
      BY <3>2, <3>3, <3>7, <1>2 DEF Packets
    <3>11. QED
      BY <3>3, <3>7, <3>8, <3>9, <3>10, <1>2
  <2>3. CASE SendLine(Payload(Sent, left))
    <3>1. PICK k \in {"text", "closed", "connect"}, l \in Links \cup {NoLink} :
            /\ todo' = Append(Payload(Sent, left), Line(k, l))
            /\ k # "text" => l \in Links
      BY <2>3, <1>2 DEF SendLine
    <3>2. /\ left' = 0 /\ UNCHANGED pkt /\ Sent' = Sent /\ open' \subseteq Links
      BY <2>3, <1>2 DEF SendLine, Sent
    <3> DEFINE u == Line(k, l)
    <3>3. u \in UnitType /\ u.kind = k /\ u.link = l
      BY DEF Line, UnitType
    <3> HIDE DEF u
    <3>4. /\ todo' \in Seq(UnitType) /\ Len(todo') = left + 1
          /\ \A i \in 1..left : todo'[i] = Byte(Sent)
          /\ todo'[left + 1] = u
      BY <3>1, <3>3, <1>2, PayloadAppend DEF u
    <3>5. \A i \in DOMAIN todo' : \/ todo'[i].kind = "data"
                                  \/ todo'[i].kind = k /\ todo'[i].link = l
      <4>1. \A i \in DOMAIN todo' : i \in 1..left \/ i = left + 1
        BY <3>4, <1>2
      <4>2. QED
        BY <4>1, <3>3, <3>4 DEF Byte
    <3>6. LinesInv' /\ ~Coming'
      BY <3>1, <3>5 DEF LinesInv, Coming
    <3>7. QED
      BY <3>2, <3>4, <3>6, <1>1, <1>2 DEF TypeOK
  <2>4. QED
    BY <2>1, <2>2, <2>3 DEF RespGet
<1>4. TypeOK'
  BY <1>1, <1>3 DEF TypeOK, UnitType
<1>5. NcPbuf' = NcPbuf
  BY <1>1 DEF NcPbuf
<1>6. lock' # "resp"
  BY <1>1 DEF HandInv
<1>7. HandInv' /\ HarmInv' /\ OrderInv' /\ HeldInv' /\ PbufInv' /\ OwnSafe'
  <2>1. \A l \in Links : conn'[l].cb => conn'[l].active /\ (conn[l].cb \/ ~Deleting)
    BY <1>1 DEF HarmInv
  <2>2. QED
    BY <2>1, <1>1, <1>3, <1>5, <1>6, PointersKept
<1>8. QED
  BY <1>3, <1>4, <1>7 DEF PointerInv

LEMMA PtrRespLock ==
  ASSUME PointerInv, RespLock \/ RespUnlock
  PROVE  PointerInv'
<1>1. /\ UNCHANGED <<conn, last, todo, arg, box, nc, mem, bytes, cpc, held, req, open,
                     pkt, left, resets, taken, harm>>
      /\ rpc \in {"start", "parse"} /\ rpc' \in {"get", "parse"}
      /\ lock' \in {"free", "resp"} /\ (lock' = "resp" <=> rpc' = "parse")
      /\ TypeOK /\ LinesInv /\ HandInv /\ HarmInv /\ OrderInv /\ HeldInv /\ PbufInv /\ OwnSafe
  BY DEF RespLock, RespUnlock, appVars, devVars, histVars, PointerInv
<1>2. Sent' = Sent /\ Sent \in Nat /\ (Coming' <=> Coming) /\ NcPbuf' = NcPbuf /\ LinesInv'
  BY <1>1, PointerTypes DEF Sent, Coming, NcPbuf, LinesInv
<1>3. TypeOK'
  BY <1>1, <1>2 DEF TypeOK
<1>4. HandInv' /\ HarmInv' /\ OrderInv' /\ HeldInv' /\ PbufInv' /\ OwnSafe'
  <2>1. \A l \in Links : conn'[l].cb => conn'[l].active /\ (conn[l].cb \/ ~Deleting)
    BY <1>1 DEF HarmInv
  <2>2. QED
    BY <2>1, <1>1, <1>2, PointersKept
<1>5. QED
  BY <1>2, <1>3, <1>4 DEF PointerInv

LEMMA PtrRespLine ==
  ASSUME PointerInv, RespText \/ RespConnect \/ RespClosed
  PROVE  PointerInv'
<1> DEFINE l == Head(todo).link
<1>1. /\ UNCHANGED <<lock, last, rpc, arg, box, nc, mem, bytes, cpc, held, req,
                     open, pkt, left, resets, taken, harm>>
      /\ rpc = "parse" /\ last = NoLink /\ todo # << >> /\ todo' = Tail(todo)
      /\ TypeOK /\ LinesInv /\ HandInv /\ HarmInv /\ OrderInv /\ HeldInv /\ PbufInv /\ OwnSafe
  BY DEF RespText, RespConnect, RespClosed, Parsing, appVars, devVars, histVars, PointerInv
<1>2. /\ todo' \in Seq(UnitType) /\ LinesInv' /\ (Coming' => Coming)
      /\ Head(todo) = todo[1] /\ 1 \in DOMAIN todo
  BY <1>1, LinesTail
<1>3. /\ Sent' = Sent /\ Sent \in Nat /\ conn \in [Links -> ConnType] /\ NcLink \in Links
      /\ ZeroConn \in ConnType
  BY <1>1, PointerTypes, ZeroTyped, NetAssumption DEF Sent
<1>4. \A c \in Links : conn[c].cb => conn[c].active
  BY <1>1 DEF HarmInv
<1>5. /\ conn' \in [Links -> ConnType]
      /\ \A c \in Links : conn'[c].cb => conn'[c].active /\ (conn[c].cb \/ ~Deleting)
      /\ \/ NcPbuf' = NcPbuf /\ (conn[NcLink].active => conn'[NcLink].active)
         \/ NcPbuf' = NoPkt
  <2>1. CASE RespText
    BY <2>1, <1>3, <1>4 DEF RespText, NcPbuf
  <2>2. CASE RespConnect
    <3>1. l \in Links /\ conn' = [conn EXCEPT ![l].active = TRUE, ![l].cb = ~Deleting]
      BY <2>2, <1>1, <1>2 DEF RespConnect, Parsing, LinesInv
    <3> HIDE DEF l
    <3>2. conn[l] \in ConnType /\ Deleting \in BOOLEAN
      BY <3>1, <1>3 DEF Deleting
    <3>3. /\ conn' \in [Links -> ConnType]
          /\ \A c \in Links \ {l} : conn'[c] = conn[c]
          /\ conn'[l].active = TRUE /\ conn'[l].cb = ~Deleting
          /\ conn'[l].pbuf = conn[l].pbuf
      BY <3>1, <3>2, <1>3 DEF ConnType
    <3>4. QED
      BY <3>1, <3>3, <1>3, <1>4 DEF NcPbuf
  <2>3. CASE RespClosed
    <3>1. l \in Links /\ conn' = [conn EXCEPT ![l] = ZeroConn]
      BY <2>3, <1>1, <1>2 DEF RespClosed, Closed, Parsing, LinesInv
    <3> HIDE DEF l
    <3>2. /\ conn' \in [Links -> ConnType]
          /\ \A c \in Links \ {l} : conn'[c] = conn[c]
          /\ conn'[l] = ZeroConn
      BY <3>1, <1>3
    <3>3. ~ZeroConn.cb /\ ZeroConn.pbuf = NoPkt
      BY DEF ZeroConn
    <3>4. QED
      BY <3>1, <3>2, <3>3, <1>3, <1>4 DEF NcPbuf
  <2>4. QED
    BY <2>1, <2>2, <2>3
<1>6. TypeOK'
  BY <1>1, <1>2, <1>3, <1>5 DEF TypeOK, UnitType, ConnType, IpdType
<1>7. lock' = "resp" <=> rpc' = "parse"
  BY <1>1 DEF HandInv
<1>8. HandInv' /\ HarmInv' /\ OrderInv' /\ HeldInv' /\ PbufInv' /\ OwnSafe'
  BY <1>1, <1>2, <1>3, <1>5, <1>7, PointersKept
<1>9. QED
  BY <1>2, <1>6, <1>8 DEF PointerInv

LEMMA PtrRespSetup ==
  ASSUME PointerInv, RespSetup
  PROVE  PointerInv'
<1> DEFINE l == Head(todo).link
           q == Head(todo).pkt
           ipd == [conn |-> TRUE, head |-> q, rem |-> pkt[q].len, read |-> TRUE]
<1>1. /\ UNCHANGED <<lock, rpc, arg, box, nc, mem, bytes, cpc, held, req,
                     open, pkt, left, resets, taken, harm>>
      /\ rpc = "parse" /\ last = NoLink /\ todo # << >> /\ todo' = Tail(todo)
      /\ Head(todo).kind = "hdr"
      /\ TypeOK /\ LinesInv /\ HandInv /\ HarmInv /\ OrderInv /\ HeldInv /\ PbufInv /\ OwnSafe
  BY DEF RespSetup, Parsing, appVars, devVars, histVars, PointerInv
<1>2. /\ todo' \in Seq(UnitType) /\ LinesInv' /\ Coming /\ ~Coming'
      /\ Head(todo) = todo[1] /\ 1 \in DOMAIN todo
  BY <1>1, LinesTail
<1>3. /\ Sent' = Sent /\ Sent \in Nat /\ conn \in [Links -> ConnType] /\ NcLink \in Links
      /\ Packets \subseteq Nat /\ NcPbuf \in Nat
      /\ \A i \in DOMAIN taken : taken[i] \in Nat
      /\ \A i \in DOMAIN box : box[i] \in Nat
      /\ \A p \in 1..Sent : pkt[p] \in [link : Links, len : 1..MaxLen]
      /\ Sent <= NumPackets /\ NumPackets \in Nat /\ MaxLen \in Nat
  BY <1>1, PointerTypes, NetAssumption DEF Sent
<1>4. l \in Links /\ q = Sent /\ Sent \in 1..NumPackets /\ Sent \in Packets
  BY <1>1, <1>2, <1>3 DEF LinesInv, Packets
<1>5. ipd \in IpdType
  <2>1. pkt[q].len \in 0..MaxLen
    BY <1>3, <1>4
  <2>2. QED
    BY <2>1, <1>4 DEF IpdType
<1>6. \A c \in Links : conn[c].cb => conn[c].active
  BY <1>1 DEF HarmInv
<1>7. CASE conn[l].ipd.read
  <2>1. conn' = conn /\ last' = last
    BY <1>7 DEF RespSetup
  <2>2. TypeOK'
    BY <2>1, <1>1, <1>2, <1>3 DEF TypeOK, UnitType
  <2>3. lock' = "resp" <=> rpc' = "parse"
    BY <1>1 DEF HandInv
  <2>4. NcPbuf' = NcPbuf
    BY <2>1 DEF NcPbuf
  <2>5. HandInv' /\ HarmInv' /\ OrderInv' /\ HeldInv' /\ PbufInv' /\ OwnSafe'
    BY <2>1, <2>3, <2>4, <1>1, <1>2, <1>3, <1>6, PointersKept
  <2>6. QED
    BY <2>2, <2>5, <1>2 DEF PointerInv
<1>8. CASE ~conn[l].ipd.read
  <2>1. conn' = [conn EXCEPT ![l].ipd = ipd] /\ last' = l
    BY <1>8 DEF RespSetup
  <2> HIDE DEF l, q, ipd
  <2>2. /\ conn' \in [Links -> ConnType]
        /\ \A c \in Links : /\ conn'[c].active = conn[c].active /\ conn'[c].cb = conn[c].cb
                            /\ conn'[c].pbuf = conn[c].pbuf
        /\ conn'[l].ipd = ipd
    BY <2>1, <1>3, <1>4, <1>5 DEF ConnType
  <2>3. Cur'.conn /\ Cur'.head = Sent /\ NcPbuf' = NcPbuf
    <3>1. ipd.conn /\ ipd.head = Sent
      BY <1>4 DEF ipd
    <3>2. QED
      BY <3>1, <2>1, <2>2, <1>3 DEF Cur, NcPbuf
  <2>4. TypeOK'
    BY <2>1, <2>2, <1>1, <1>2, <1>3, <1>4 DEF TypeOK, UnitType, ConnType, IpdType
  <2>5. HandInv'
    BY <2>3, <1>1, <1>2, <1>3, <1>4 DEF HandInv
  <2>6. HarmInv'
    BY <2>2, <2>3, <1>1 DEF HarmInv
  <2>7. \A p \in Nat : Before(p) => Before(p)'
    BY <2>3, <1>1, <1>2, <1>3 DEF Before
  <2>8. OrderInv'
    BY <2>7, <1>1, <1>3 DEF OrderInv
  <2>9. PbufInv'
    <3>1. Before(NcPbuf)
      BY <1>1 DEF PbufInv
    <3>2. QED
      BY <3>1, <2>3, <2>7, <1>1, <1>2, <1>3 DEF PbufInv, Before
  <2>10. HeldInv'
    BY <1>1 DEF HeldInv
  <2>11. OwnSafe'
    BY <2>2, <2>3, <1>1, <1>3 DEF OwnSafe, OwnInv, Deleting
  <2>12. QED
    BY <2>4, <2>5, <2>6, <2>8, <2>9, <2>10, <2>11, <1>2 DEF PointerInv
<1>9. QED
  BY <1>7, <1>8

LEMMA PtrRespCopy ==
  ASSUME PointerInv, RespCopy
  PROVE  PointerInv'
<1>1. /\ UNCHANGED <<lock, last, arg, box, nc, cpc, held, req,
                     open, pkt, left, resets, taken, harm>>
      /\ rpc = "parse" /\ last # NoLink /\ todo # << >> /\ last \in Links
      /\ TypeOK /\ LinesInv /\ HandInv /\ HarmInv /\ OrderInv /\ HeldInv /\ PbufInv /\ OwnSafe
  BY DEF RespCopy, appVars, devVars, histVars, PointerInv, TypeOK
<1>2. /\ Sent' = Sent /\ Sent \in Nat /\ conn \in [Links -> ConnType] /\ NcLink \in Links
      /\ Packets \subseteq Nat /\ NcPbuf \in Nat
      /\ \A i \in DOMAIN taken : taken[i] \in Nat
      /\ \A i \in DOMAIN box : box[i] \in Nat
      /\ todo \in Seq(UnitType) /\ Len(todo) \in Nat /\ MaxLen \in Nat
      /\ \A i \in DOMAIN todo : todo[i] \in UnitType
  BY <1>1, PointerTypes, NetAssumption DEF Sent
<1>3. CASE ~conn[last].ipd.conn
  <2>1. rpc' = "dead" /\ UNCHANGED <<mem, bytes, todo, conn>>
    BY <1>3 DEF RespCopy, Dies
  <2>2. Cur' = Cur /\ NcPbuf' = NcPbuf /\ (Coming' <=> Coming) /\ ~Cur.conn
    BY <2>1, <1>1, <1>3 DEF Cur, NcPbuf, Coming
  <2>3. TypeOK' /\ LinesInv'
    BY <2>1, <1>1, <1>2 DEF TypeOK, LinesInv
  <2>4. HandInv' /\ HeldInv'
    BY <2>1, <2>2, <1>1, <1>2 DEF HandInv, HeldInv
  <2>5. HarmInv'
    BY <2>1, <2>2, <1>1 DEF HarmInv
  <2>6. \A p \in Nat : Before(p) => Before(p)'
    BY <2>1, <2>2, <1>1, <1>2 DEF Before
  <2>7. OrderInv'
    BY <2>6, <1>1, <1>2 DEF OrderInv
  <2>8. PbufInv'
    BY <2>1, <2>2, <2>6, <1>1, <1>2 DEF PbufInv
  <2>9. OwnSafe'
    BY <2>1, <2>2, <1>1 DEF OwnSafe, OwnInv, Deleting
  <2>10. QED
    BY <2>3, <2>4, <2>5, <2>7, <2>8, <2>9 DEF PointerInv
<1>4. CASE conn[last].ipd.conn
  <2> DEFINE rem == conn[last].ipd.rem
             h == conn[last].ipd.head
             n == CopyLen(rem)
             whole == Len(todo) >= rem
  <2>1. /\ mem' = [mem EXCEPT ![h] = "live"]
        /\ bytes' = [bytes EXCEPT ![h] = @ \o [i \in 1..n |-> todo[i].pkt]]
        /\ todo' = SubSeq(todo, n + 1, Len(todo))
        /\ conn' = [conn EXCEPT ![last].ipd.rem = IF whole THEN 0 ELSE @ - Len(todo),
                                ![last].pbuf = IF whole THEN h ELSE @]
        /\ rpc' = IF whole THEN "callback" ELSE rpc
    BY <1>4 DEF RespCopy, CopyData, Completes
  <2>2. /\ conn[last] \in ConnType /\ conn[last].ipd \in IpdType /\ rem \in 0..MaxLen
        /\ h \in Packets /\ h <= Sent /\ h \in Nat /\ (Coming => h < Sent) /\ Cur.conn
        /\ Cur.head = h
    BY <1>1, <1>2, <1>4 DEF ConnType, IpdType, HandInv, Cur
  <2>3. n \in 0..Len(todo) /\ n \in Nat
    BY <2>2, <1>2 DEF CopyLen
  <2>4. /\ todo' \in Seq(UnitType) /\ Len(todo') = Len(todo) - n
        /\ \A i \in 1..Len(todo') : todo'[i] = todo[i + n]
    <3>1. \A i \in (n + 1)..Len(todo) : todo[i] \in UnitType
      BY <2>3, <1>2
    <3>2. n + 1 \in Int /\ Len(todo) \in Int
      BY <2>3, <1>2
    <3>3. /\ todo' \in Seq(UnitType)
          /\ Len(todo') = (IF n + 1 <= Len(todo) THEN Len(todo) - (n + 1) + 1 ELSE 0)
          /\ \A i \in 1..(Len(todo) - (n + 1) + 1) : todo'[i] = todo[n + 1 + i - 1]
      BY <3>1, <3>2, <2>1, SubSeqProperties
    <3>4. Len(todo') = Len(todo) - n /\ Len(todo) - (n + 1) + 1 = Len(todo) - n
      BY <3>3, <2>3, <1>2
    <3>5. \A i \in 1..(Len(todo) - n) : n + 1 + i - 1 = i + n
      BY <2>3, <1>2
    <3>6. QED
      BY <3>3, <3>4, <3>5
  <2>5. LinesInv' /\ (Coming' => Coming)
    BY <2>3, <2>4, <1>1, LinesRead
  <2>6. [i \in 1..n |-> todo[i].pkt] \in Seq(Packets \cup {NoPkt})
    <3>1. \A i \in 1..n : todo[i].pkt \in Packets \cup {NoPkt}
      BY <2>3, <1>2 DEF UnitType
    <3>2. QED
      BY <3>1, <2>3
  <2> HIDE DEF n, h, rem, whole
  <2>7. /\ conn' \in [Links -> ConnType]
        /\ \A c \in Links : conn'[c].active = conn[c].active /\ conn'[c].cb = conn[c].cb
        /\ \A c \in Links \ {last} : conn'[c] = conn[c]
        /\ conn'[last].pbuf = (IF whole THEN h ELSE conn[last].pbuf)
        /\ conn'[last].ipd.conn = conn[last].ipd.conn
        /\ conn'[last].ipd.head = conn[last].ipd.head
    <3> DEFINE r == IF whole THEN 0 ELSE rem - Len(todo)
               b == IF whole THEN h ELSE conn[last].pbuf
    <3>1. r \in 0..MaxLen /\ b \in Packets \cup {NoPkt}
      BY <2>2, <1>2 DEF whole, ConnType
    <3>2. /\ conn' = [conn EXCEPT ![last] = conn'[last]]
          /\ conn'[last] = [conn[last] EXCEPT !.ipd = [conn[last].ipd EXCEPT !.rem = r],
                                              !.pbuf = b]
      BY <2>1, <2>2, <1>1, <1>2 DEF ConnType, IpdType, rem
    <3> HIDE DEF r, b
    <3>3. /\ conn'[last].ipd = [conn[last].ipd EXCEPT !.rem = r] /\ conn'[last].pbuf = b
          /\ conn'[last].active = conn[last].active /\ conn'[last].cb = conn[last].cb
      BY <3>2, <2>2 DEF ConnType
    <3>4. /\ conn'[last].ipd \in IpdType
          /\ conn'[last].ipd.conn = conn[last].ipd.conn
          /\ conn'[last].ipd.head = conn[last].ipd.head
      BY <3>1, <3>3, <2>2 DEF IpdType
    <3>5. conn'[last] \in ConnType
      BY <3>1, <3>2, <3>3, <3>4, <2>2 DEF ConnType
    <3>6. QED
      BY <3>2, <3>3, <3>4, <3>5, <1>1, <1>2 DEF b
  <2>8. Cur'.conn /\ Cur'.head = h
    BY <2>2, <2>7, <1>1 DEF Cur
  <2>9. /\ mem' \in [Packets -> {"none", "live", "freed", "double"}]
        /\ mem'[h] = "live" /\ \A p \in Packets : mem'[p] \in {mem[p], "live"}
    BY <2>1, <2>2, <1>1 DEF TypeOK
  <2>10. bytes' \in [Packets -> Seq(Packets \cup {NoPkt})]
    <3>1. bytes \in [Packets -> Seq(Packets \cup {NoPkt})]
      BY <1>1 DEF TypeOK
    <3>2. bytes[h] \o [i \in 1..n |-> todo[i].pkt] \in Seq(Packets \cup {NoPkt})
      BY <3>1, <2>2, <2>6, ConcatProperties
    <3>3. QED
      BY <3>1, <3>2, <2>1, <2>2
  <2>11. rpc' \in {"parse", "callback"} /\ (rpc' = "callback" <=> whole)
    BY <2>1, <1>1
  <2>12. TypeOK'
    BY <2>4, <2>7, <2>9, <2>10, <2>11, <1>1, <1>2 DEF TypeOK, UnitType, ConnType, IpdType
  <2>13. HandInv'
    BY <2>2, <2>5, <2>7, <2>8, <2>11, <1>1, <1>2 DEF HandInv
  <2>14. HarmInv'
    BY <2>7, <2>8, <2>11, <1>1 DEF HarmInv
  <2>15. \A p \in Nat : Before(p) => Before(p)' /\ p < h
    BY <2>2, <2>5, <2>8, <2>11, <1>1, <1>2 DEF Before
  <2>16. OrderInv'
    BY <2>15, <1>1, <1>2 DEF OrderInv
  <2>17. HeldInv'
    BY <1>1 DEF HeldInv
  <2>18. NcPbuf' = (IF last = NcLink /\ whole THEN h ELSE NcPbuf)
    BY <2>7, <1>2 DEF NcPbuf
  <2>19. PbufInv'
    <3>1. Before(NcPbuf)
      BY <1>1 DEF PbufInv
    <3>2. CASE last = NcLink /\ whole
      BY <3>2, <2>2, <2>5, <2>11, <2>18, <1>1, <1>2 DEF PbufInv
    <3>3. CASE ~(last = NcLink /\ whole)
      BY <3>1, <3>3, <2>5, <2>15, <2>18, <1>1, <1>2 DEF PbufInv, Before
    <3>4. QED
      BY <3>2, <3>3
  <2>20. OwnSafe'
    <3> SUFFICES ASSUME "open" \notin harm' PROVE OwnInv'
      BY DEF OwnSafe
    <3>1. OwnInv
      BY <1>1 DEF OwnSafe
    <3>2. /\ \A p \in Packets : mem[p] = "live" => mem'[p] = "live"
          /\ \A p \in Packets : mem'[p] # "double"
      BY <3>1, <2>9 DEF OwnInv
    <3>3. /\ \A i \in DOMAIN box : mem'[box[i]] = "live"
          /\ held # NoPkt => mem'[held] = "live"
      BY <3>1, <3>2, <1>1, PointerTypes DEF OwnInv, TypeOK
    <3>4. ~Deleting' /\ ~conn'[NcLink].active /\ NcPbuf' # NoPkt =>
            /\ mem'[NcPbuf'] = "live"
            /\ \A i \in DOMAIN taken : taken[i] # NcPbuf'
            /\ \A i \in DOMAIN box : box[i] # NcPbuf'
      <4>1. HAVE ~Deleting' /\ ~conn'[NcLink].active /\ NcPbuf' # NoPkt
      <4>2. CASE last = NcLink /\ whole
        <5>1. \A i \in DOMAIN taken : taken[i] < h
          BY <2>15, <1>1, <1>2 DEF OrderInv
        <5>2. \A i \in DOMAIN box : box[i] < h
          BY <2>15, <1>1, <1>2 DEF OrderInv
        <5>3. QED
          BY <4>2, <5>1, <5>2, <2>2, <2>9, <2>18, <1>2
      <4>3. CASE ~(last = NcLink /\ whole)
        <5>1. NcPbuf' = NcPbuf /\ NcPbuf \in Packets
          BY <4>1, <4>3, <2>18, <1>1, PointerTypes DEF NoPkt
        <5>2. ~Deleting /\ ~conn[NcLink].active
          BY <4>1, <2>7, <1>1, <1>2 DEF Deleting
        <5>3. QED
          BY <4>1, <5>1, <5>2, <3>1, <3>2 DEF OwnInv
      <4>4. QED
        BY <4>2, <4>3
    <3>5. QED
      BY <3>2, <3>3, <3>4, <2>8, <2>9, <2>11, <1>1 DEF OwnInv
  <2>21. QED
    BY <2>5, <2>12, <2>13, <2>14, <2>16, <2>17, <2>19, <2>20 DEF PointerInv
<1>5. QED
  BY <1>3, <1>4

-----------------------------------------------------------------------------
(* Delivery.                                                               *)

LEMMA PtrRespCallback ==
  ASSUME PointerInv, RespCallback
  PROVE  PointerInv'
<1>1. /\ UNCHANGED <<lock, conn, last, todo, box, nc, mem, bytes, cpc, held, req,
                     open, pkt, left, resets, taken, harm>>
      /\ rpc = "callback" /\ arg' = conn[last].pbuf /\ last # NoLink /\ last \in Links
      /\ TypeOK /\ LinesInv /\ HandInv /\ HarmInv /\ OrderInv /\ HeldInv /\ PbufInv /\ OwnSafe
  BY DEF RespCallback, HandInv, TypeOK, appVars, devVars, histVars, PointerInv
<1>2. /\ Sent' = Sent /\ Sent \in Nat /\ conn \in [Links -> ConnType] /\ NcLink \in Links
      /\ Packets \subseteq Nat /\ NcPbuf \in Nat
      /\ \A i \in DOMAIN taken : taken[i] \in Nat
      /\ \A i \in DOMAIN box : box[i] \in Nat
      /\ conn[last].pbuf \in Packets \cup {NoPkt}
  BY <1>1, PointerTypes, NetAssumption DEF Sent, NoPkt
<1>3. Cur' = Cur /\ NcPbuf' = NcPbuf /\ (Coming' <=> Coming) /\ LinesInv'
  BY <1>1, <1>2 DEF Cur, NcPbuf, Coming, LinesInv
<1>4. \/ rpc' = "dead" /\ (~Cur.conn \/ (conn[last].cb /\ nc = "deleted"))
      \/ rpc' = "put" /\ Cur.conn /\ conn[last].cb
      \/ rpc' = "reset"
  BY DEF RespCallback, Dies, Cur
<1>5. rpc' = "put" => arg' = Cur.head /\ arg' \in Packets
  BY <1>1, <1>4 DEF HandInv
<1>6. TypeOK'
  BY <1>1, <1>2, <1>4 DEF TypeOK
<1>7. HandInv' /\ HeldInv'
  BY <1>1, <1>2, <1>3, <1>4, <1>5 DEF HandInv, HeldInv
<1>8. HarmInv'
  <2>1. rpc' = "dead" => "packet" \in harm \/ "callback" \in harm
    BY <1>1, <1>4 DEF HarmInv
  <2>2. QED
    BY <2>1, <1>1, <1>3, <1>4 DEF HarmInv
<1>9. \A p \in Nat : Before(p) => Before(p)'
  BY <1>1, <1>2, <1>3, <1>4, <1>5 DEF Before
<1>10. OrderInv'
  BY <1>9, <1>1, <1>2 DEF OrderInv
<1>11. PbufInv'
  <2>1. CASE last = NcLink /\ rpc' # "put"
    BY <2>1, <1>1, <1>2, <1>3, <1>4 DEF PbufInv, Before
  <2>2. CASE last = NcLink /\ rpc' = "put"
    BY <2>2, <1>1, <1>2, <1>3 DEF PbufInv
  <2>3. CASE last # NcLink
    BY <2>3, <1>1, <1>2, <1>3, <1>9 DEF PbufInv
  <2>4. QED
    BY <2>1, <2>2, <2>3
<1>12. OwnSafe'
  BY <1>1, <1>3, <1>4, <1>5 DEF OwnSafe, OwnInv, Deleting
<1>13. QED
  BY <1>3, <1>6, <1>7, <1>8, <1>10, <1>11, <1>12 DEF PointerInv

LEMMA PtrRespPut ==
  ASSUME PointerInv, RespPut
  PROVE  PointerInv'
<1>1. /\ UNCHANGED <<lock, conn, last, todo, arg, nc, mem, bytes, cpc, held, req,
                     open, pkt, left, resets, taken, harm>>
      /\ rpc = "put" /\ last # NoLink /\ last \in Links
      /\ TypeOK /\ LinesInv /\ HandInv /\ HarmInv /\ OrderInv /\ HeldInv /\ PbufInv /\ OwnSafe
  BY DEF RespPut, HandInv, TypeOK, appVars, devVars, histVars, PointerInv
<1>2. \/ rpc' = "dead" /\ nc = "deleted" /\ box' = box
      \/ rpc' = "reset" /\ Len(box) < RecvQLen /\ box' = Append(box, arg)
  BY DEF RespPut, Dies, Room, PutIn
<1>3. /\ Sent' = Sent /\ Sent \in Nat /\ conn \in [Links -> ConnType] /\ NcLink \in Links
      /\ Packets \subseteq Nat /\ NcPbuf \in Nat
      /\ \A i \in DOMAIN taken : taken[i] \in Nat
      /\ \A i \in DOMAIN box : box[i] \in Packets
      /\ box \in Seq(Packets) /\ Len(box) \in Nat /\ RecvQLen \in Nat
      /\ arg \in Packets /\ arg \in Nat /\ arg <= Sent /\ (Coming => arg < Sent)
  BY <1>1, PointerTypes, NetAssumption DEF Sent, HandInv
<1>4. Cur' = Cur /\ NcPbuf' = NcPbuf /\ (Coming' <=> Coming) /\ LinesInv'
  BY <1>1, <1>3 DEF Cur, NcPbuf, Coming, LinesInv
<1>5. /\ box' \in Seq(Packets) /\ Len(box') <= RecvQLen
      /\ \A i \in DOMAIN box' :
           \/ i \in DOMAIN box /\ box'[i] = box[i]
           \/ i = Len(box) + 1 /\ box'[i] = arg /\ rpc' = "reset"
  <2>1. CASE box' = box
    <3>1. Len(box) <= RecvQLen
      BY <1>1 DEF TypeOK
    <3>2. QED
      BY <2>1, <3>1, <1>3
  <2>2. CASE rpc' = "reset" /\ Len(box) < RecvQLen /\ box' = Append(box, arg)
    <3>1. /\ box' \in Seq(Packets) /\ Len(box') = Len(box) + 1
          /\ \A i \in 1..Len(box) : box'[i] = box[i]
          /\ box'[Len(box) + 1] = arg
      BY <2>2, <1>3, AppendProperties
    <3>2. \A i \in DOMAIN box' : i \in DOMAIN box \/ i = Len(box) + 1
      BY <3>1, <1>3
    <3>3. \A i \in DOMAIN box : box'[i] = box[i]
      BY <3>1, <1>3
    <3>4. Len(box') <= RecvQLen
      BY <2>2, <3>1, <1>3
    <3>5. QED
      BY <2>2, <3>1, <3>2, <3>3, <3>4
  <2>3. QED
    BY <2>1, <2>2, <1>2
<1>6. TypeOK'
  BY <1>1, <1>2, <1>3, <1>5 DEF TypeOK
<1>7. HandInv' /\ HeldInv'
  BY <1>1, <1>2, <1>3, <1>4 DEF HandInv, HeldInv
<1>8. HarmInv'
  <2>1. rpc' = "dead" => "packet" \in harm \/ "callback" \in harm
    BY <1>1, <1>2 DEF HarmInv
  <2>2. QED
    BY <2>1, <1>1, <1>2, <1>4 DEF HarmInv
<1>9. \A p \in Nat : Before(p) => Before(p)' /\ p < arg
  BY <1>1, <1>2, <1>3, <1>4 DEF Before
<1>10. rpc' = "reset" => \E p \in Nat : p = arg /\ Before(p)'
  BY <1>1, <1>3, <1>4 DEF Before
<1>11. OrderInv'
  <2>1. \A i \in DOMAIN taken : Before(taken[i])' /\ taken[i] < arg
    BY <1>1, <1>3, <1>9 DEF OrderInv
  <2>2. \A i \in DOMAIN box : Before(box[i]) /\ box[i] < arg
    BY <1>1, <1>3, <1>9 DEF OrderInv
  <2>3. \A i \in DOMAIN box' : \E p \in Nat : p = box'[i] /\ Before(p)'
    <3>1. TAKE i \in DOMAIN box'
    <3>2. CASE i \in DOMAIN box /\ box'[i] = box[i]
      BY <3>2, <2>2, <1>3, <1>9
    <3>3. CASE box'[i] = arg /\ rpc' = "reset"
      BY <3>3, <1>3, <1>10
    <3>4. QED
      BY <3>1, <3>2, <3>3, <1>5
  <2>4. \A i, j \in DOMAIN box' : i < j => box'[i] < box'[j]
    <3>1. TAKE i, j \in DOMAIN box'
    <3>2. HAVE i < j
    <3>3. CASE j \in DOMAIN box /\ box'[j] = box[j]
      <4>1. i \in DOMAIN box /\ box'[i] = box[i]
        BY <3>1, <3>2, <3>3, <1>3, <1>5
      <4>2. QED
        BY <3>2, <3>3, <4>1, <1>1 DEF OrderInv
    <3>4. CASE j = Len(box) + 1 /\ box'[j] = arg
      <4>1. i \in DOMAIN box /\ box'[i] = box[i]
        BY <3>1, <3>2, <3>4, <1>3, <1>5
      <4>2. QED
        BY <3>4, <4>1, <2>2
    <3>5. QED
      BY <3>1, <3>3, <3>4, <1>5
  <2>5. \A i \in DOMAIN taken : \A j \in DOMAIN box' : taken[i] < box'[j]
    BY <2>1, <1>1, <1>5 DEF OrderInv
  <2>6. QED
    BY <2>1, <2>3, <2>4, <2>5, <1>1 DEF OrderInv
<1>12. PbufInv'
  BY <1>1, <1>2, <1>3, <1>4 DEF PbufInv, Before
<1>13. OwnSafe'
  <2> SUFFICES ASSUME "open" \notin harm' PROVE OwnInv'
    BY DEF OwnSafe
  <2>1. OwnInv
    BY <1>1 DEF OwnSafe
  <2>2. \A i \in DOMAIN box' : mem[box'[i]] = "live"
    BY <2>1, <1>1, <1>5 DEF OwnInv
  <2>3. ~Deleting /\ ~conn[NcLink].active /\ NcPbuf # NoPkt =>
          \A i \in DOMAIN box' : box'[i] # NcPbuf
    <3>1. HAVE ~Deleting /\ ~conn[NcLink].active /\ NcPbuf # NoPkt
    <3>2. last # NcLink
      BY <3>1, <1>1 DEF HandInv, HarmInv, Deleting
    <3>3. NcPbuf < arg
      BY <3>2, <1>1, <1>3, <1>9 DEF PbufInv
    <3>4. QED
      BY <3>1, <3>3, <2>1, <1>3, <1>5 DEF OwnInv
  <2>4. QED
    BY <2>1, <2>2, <2>3, <1>1, <1>2, <1>4 DEF OwnInv, Deleting
<1>14. QED
  BY <1>4, <1>6, <1>7, <1>8, <1>11, <1>12, <1>13 DEF PointerInv

LEMMA PtrRespReset ==
  ASSUME PointerInv, RespReset
  PROVE  PointerInv'
<1>1. /\ UNCHANGED <<lock, todo, box, nc, mem, bytes, cpc, held, req,
                     open, pkt, left, resets, taken, harm>>
      /\ rpc = "reset" /\ last' = NoLink /\ arg' = NoPkt /\ last # NoLink /\ last \in Links
      /\ TypeOK /\ LinesInv /\ HandInv /\ HarmInv /\ OrderInv /\ HeldInv /\ PbufInv /\ OwnSafe
  BY DEF RespReset, LastCleared, HandInv, TypeOK, appVars, devVars, histVars, PointerInv
<1>2. /\ Sent' = Sent /\ Sent \in Nat /\ conn \in [Links -> ConnType] /\ NcLink \in Links
      /\ NcPbuf \in Nat /\ ZeroIpd \in IpdType
      /\ \A i \in DOMAIN taken : taken[i] \in Nat
      /\ \A i \in DOMAIN box : box[i] \in Nat /\ box[i] \in Packets
  BY <1>1, PointerTypes, ZeroTyped, NetAssumption DEF Sent
<1>3. \/ conn' = [conn EXCEPT ![last].ipd = ZeroIpd] /\ rpc' = "parse"
      \/ conn' = conn /\ rpc' = "dead" /\ ~Cur.conn
  BY DEF RespReset, Dies, Cur
<1>4. /\ conn' \in [Links -> ConnType]
      /\ \A c \in Links : /\ conn'[c].active = conn[c].active /\ conn'[c].cb = conn[c].cb
                          /\ conn'[c].pbuf = conn[c].pbuf
  <2>1. CASE conn' = [conn EXCEPT ![last].ipd = ZeroIpd]
    BY <2>1, <1>1, <1>2 DEF ConnType
  <2>2. QED
    BY <2>1, <1>2, <1>3
<1>5. NcPbuf' = NcPbuf /\ (Coming' <=> Coming) /\ LinesInv'
  BY <1>1, <1>2, <1>4 DEF NcPbuf, Coming, LinesInv
<1>6. TypeOK'
  BY <1>1, <1>2, <1>3, <1>4 DEF TypeOK, ConnType, IpdType, NoPkt
<1>7. HandInv' /\ HeldInv'
  BY <1>1, <1>3 DEF HandInv, HeldInv
<1>8. HarmInv'
  BY <1>1, <1>3, <1>4 DEF HarmInv
<1>9. \A p \in Nat : Before(p) => Before(p)'
  BY <1>1, <1>2, <1>3, <1>5 DEF Before
<1>10. OrderInv'
  BY <1>9, <1>1, <1>2 DEF OrderInv
<1>11. PbufInv'
  BY <1>1, <1>2, <1>3, <1>5 DEF PbufInv, Before
<1>12. OwnSafe'
  BY <1>1, <1>2, <1>3, <1>4, <1>5 DEF OwnSafe, OwnInv, Deleting
<1>13. QED
  BY <1>5, <1>6, <1>7, <1>8, <1>10, <1>11, <1>12 DEF PointerInv

LEMMA PtrReqReset ==
  ASSUME PointerInv, ReqReset
  PROVE  PointerInv'
<1>1. /\ UNCHANGED <<lock, last, rpc, todo, arg, box, nc, mem, bytes, cpc, held, req,
                     pkt, taken>>
      /\ resets < Resets /\ resets' = resets + 1 /\ lock = "free" /\ left' = 0
      /\ conn' = [l \in Links |-> ZeroConn] /\ open' = {}
      /\ harm \subseteq harm' /\ harm' \subseteq harm \cup Harms
      /\ last # NoLink => "packet" \in harm'
      /\ TypeOK /\ LinesInv /\ HandInv /\ HarmInv /\ OrderInv /\ HeldInv /\ PbufInv /\ OwnSafe
  BY DEF ReqReset, Harms, appVars, PointerInv
<1>2. /\ Sent' = Sent /\ Sent \in Nat /\ NcLink \in Links /\ MaxLen \in Nat /\ Resets \in Nat
      /\ \A i \in DOMAIN taken : taken[i] \in Nat
      /\ \A i \in DOMAIN box : box[i] \in Nat
      /\ ZeroConn \in ConnType
  BY <1>1, PointerTypes, ZeroTyped, NetAssumption DEF Sent
<1>3. rpc \in {"get", "start"}
  BY <1>1 DEF HandInv, TypeOK
<1>4. /\ conn' \in [Links -> ConnType]
      /\ \A l \in Links : /\ ~conn'[l].active /\ ~conn'[l].cb /\ conn'[l].pbuf = NoPkt
                          /\ ~conn'[l].ipd.conn
  BY <1>1, <1>2 DEF ZeroConn, ZeroIpd
<1>5. /\ NcPbuf' = NoPkt /\ (Coming' <=> Coming) /\ LinesInv'
      /\ last' # NoLink => ~Cur'.conn
  BY <1>1, <1>2, <1>4 DEF NcPbuf, Coming, LinesInv, Cur, TypeOK
<1>6. TypeOK'
  <2>1. left' \in 0..MaxLen /\ resets' \in 0..Resets
    BY <1>1, <1>2 DEF TypeOK
  <2>2. QED
    BY <2>1, <1>1, <1>2, <1>4 DEF TypeOK, ConnType, IpdType
<1>7. HandInv' /\ HeldInv'
  BY <1>1, <1>3, <1>5 DEF HandInv, HeldInv
<1>8. HarmInv'
  BY <1>1, <1>3, <1>4 DEF HarmInv
<1>9. \A p \in Nat : Before(p) => Before(p)'
  BY <1>1, <1>2, <1>3, <1>5 DEF Before
<1>10. OrderInv'
  BY <1>9, <1>1, <1>2 DEF OrderInv
<1>11. PbufInv'
  <2>1. Coming => Sent >= 1
    BY <1>1 DEF Coming, LinesInv
  <2>2. QED
    BY <2>1, <1>1, <1>2, <1>3, <1>5 DEF PbufInv, Before, NoPkt
<1>12. OwnSafe'
  BY <1>1, <1>3, <1>5 DEF OwnSafe, OwnInv, Deleting
<1>13. QED
  BY <1>5, <1>6, <1>7, <1>8, <1>10, <1>11, <1>12 DEF PointerInv

-----------------------------------------------------------------------------
(* The request thread, the application and the deletion.                   *)

LEMMA BeforeSame ==
  ASSUME UNCHANGED <<conn, last, rpc, todo, arg, pkt>>
  PROVE  /\ Sent' = Sent /\ (Coming' <=> Coming) /\ NcPbuf' = NcPbuf
         /\ (LinesInv => LinesInv') /\ \A p \in Nat : Before(p) => Before(p)'
<1>1. Sent' = Sent /\ (Coming' <=> Coming) /\ NcPbuf' = NcPbuf /\ Cur' = Cur
  BY DEF Sent, Coming, NcPbuf, Cur
<1>2. LinesInv => LinesInv'
  BY <1>1 DEF LinesInv
<1>3. \A p \in Nat : Before(p) => Before(p)'
  BY <1>1 DEF Before
<1>4. QED
  BY <1>1, <1>2, <1>3

\* Only the application has changed.
LEMMA HandsKept ==
  ASSUME TypeOK, LinesInv, HandInv, PbufInv,
         UNCHANGED <<lock, conn, last, rpc, todo, arg, pkt>>,
         cpc = "delete" => cpc' = "delete"
  PROVE  LinesInv' /\ HandInv' /\ PbufInv' /\ Sent' = Sent /\ NcPbuf' = NcPbuf
<1>1. /\ Sent' = Sent /\ (Coming' <=> Coming) /\ NcPbuf' = NcPbuf
      /\ LinesInv' /\ \A p \in Nat : Before(p) => Before(p)'
  BY BeforeSame
<1>2. NcPbuf \in Nat
  BY PointerTypes
<1>3. HandInv'
  BY <1>1 DEF HandInv, Cur
<1>4. PbufInv'
  BY <1>1, <1>2 DEF PbufInv
<1>5. QED
  BY <1>1, <1>3, <1>4

LEMMA OrderKept ==
  ASSUME TypeOK, OrderInv, UNCHANGED <<conn, last, rpc, todo, arg, pkt, box, taken>>
  PROVE  OrderInv'
<1>1. /\ \A i \in DOMAIN taken : taken[i] \in Nat
      /\ \A i \in DOMAIN box : box[i] \in Nat
  BY PointerTypes
<1>2. \A p \in Nat : Before(p) => Before(p)'
  BY BeforeSame
<1>3. QED
  BY <1>1, <1>2 DEF OrderInv

\* The first of the mailbox becomes the last of those taken.
LEMMA HeadTaken ==
  ASSUME TypeOK, OrderInv, box # << >>, box' = Tail(box), taken' = Append(taken, Head(box)),
         UNCHANGED <<conn, last, rpc, todo, arg, pkt>>
  PROVE  /\ OrderInv' /\ Head(box) \in Packets /\ 1 \in DOMAIN box /\ Head(box) = box[1]
         /\ box' \in Seq(Packets) /\ Len(box') <= RecvQLen /\ taken' \in Seq(Packets)
         /\ \A i \in DOMAIN box' : /\ box'[i] # Head(box)
                                   /\ \E j \in DOMAIN box : box'[i] = box[j]
         /\ \A i \in DOMAIN taken' : \/ taken'[i] = Head(box)
                                     \/ \E j \in DOMAIN taken : taken'[i] = taken[j]
         /\ \E i \in DOMAIN taken' : taken'[i] = Head(box)
<1> DEFINE p == Head(box)
<1>1. /\ box \in Seq(Packets) /\ Len(box) \in Nat /\ Len(box) > 0 /\ Len(box) <= RecvQLen
      /\ taken \in Seq(Packets) /\ Len(taken) \in Nat /\ Packets \subseteq Nat
      /\ RecvQLen \in Nat
      /\ \A i \in DOMAIN taken : taken[i] \in Nat
      /\ \A i \in DOMAIN box : box[i] \in Nat
  <2>1. /\ box \in Seq(Packets) /\ Len(box) \in Nat /\ Packets \subseteq Nat
        /\ taken \in Seq(Packets) /\ Len(taken) \in Nat /\ RecvQLen \in Nat
        /\ \A i \in DOMAIN taken : taken[i] \in Packets
        /\ \A i \in DOMAIN box : box[i] \in Packets
    BY PointerTypes
  <2>2. Len(box) <= RecvQLen
    BY DEF TypeOK
  <2>3. Len(box) > 0
    BY <2>1, EmptySeq
  <2>4. QED
    BY <2>1, <2>2, <2>3
<1>2. /\ p = box[1] /\ p \in Packets /\ 1 \in DOMAIN box
      /\ box' \in Seq(Packets) /\ Len(box') = Len(box) - 1
      /\ \A i \in 1..Len(box') : box'[i] = box[i + 1]
  BY <1>1, HeadTailProperties
<1>3. \A i \in DOMAIN box' : box'[i] = box[i + 1] /\ i + 1 \in DOMAIN box /\ i \in Nat /\ i >= 1
  BY <1>1, <1>2
<1>4. /\ taken' \in Seq(Packets) /\ Len(taken') = Len(taken) + 1
      /\ \A i \in 1..Len(taken) : taken'[i] = taken[i]
      /\ taken'[Len(taken) + 1] = p
  BY <1>1, <1>2, AppendProperties
<1> HIDE DEF p
<1>5. \A i \in DOMAIN taken' : \/ i \in DOMAIN taken /\ taken'[i] = taken[i]
                               \/ i = Len(taken) + 1 /\ taken'[i] = p
  <2>1. \A i \in DOMAIN taken' : i \in 1..Len(taken) \/ i = Len(taken) + 1
    BY <1>1, <1>4
  <2>2. QED
    BY <2>1, <1>1, <1>4
<1>6. \A i \in DOMAIN box' : p < box'[i]
  BY <1>1, <1>2, <1>3 DEF OrderInv
<1>7. \A i \in DOMAIN taken : taken[i] < p
  BY <1>2 DEF OrderInv
<1>8. OrderInv'
  <2>1. \A q \in Nat : Before(q) => Before(q)'
    BY BeforeSame
  <2>2. \A i \in DOMAIN taken' : \E q \in Nat : q = taken'[i] /\ Before(q)'
    <3>1. TAKE i \in DOMAIN taken'
    <3>2. Before(p)
      BY <1>2 DEF OrderInv
    <3>3. CASE i \in DOMAIN taken /\ taken'[i] = taken[i]
      BY <3>3, <2>1, <1>1 DEF OrderInv
    <3>4. CASE taken'[i] = p
      BY <3>2, <3>4, <2>1, <1>1, <1>2
    <3>5. QED
      BY <3>1, <3>3, <3>4, <1>5
  <2>3. \A i \in DOMAIN box' : \E q \in Nat : q = box'[i] /\ Before(q)'
    BY <2>1, <1>1, <1>3 DEF OrderInv
  <2>4. \A i, j \in DOMAIN taken' : i < j => taken'[i] < taken'[j]
    <3>1. TAKE i, j \in DOMAIN taken'
    <3>2. HAVE i < j
    <3>3. i \in DOMAIN taken /\ taken'[i] = taken[i]
      BY <3>1, <3>2, <1>1, <1>4, <1>5
    <3>4. QED
      BY <3>1, <3>2, <3>3, <1>5, <1>7 DEF OrderInv
  <2>5. \A i, j \in DOMAIN box' : i < j => box'[i] < box'[j]
    <3>1. TAKE i, j \in DOMAIN box'
    <3>2. HAVE i < j
    <3>3. i + 1 < j + 1
      BY <3>1, <3>2, <1>3
    <3>4. QED
      BY <3>1, <3>3, <1>3 DEF OrderInv
  <2>6. \A i \in DOMAIN taken' : \A j \in DOMAIN box' : taken'[i] < box'[j]
    BY <1>3, <1>5, <1>6 DEF OrderInv
  <2>7. QED
    BY <2>2, <2>3, <2>4, <2>5, <2>6 DEF OrderInv
<1>9. /\ \A i \in DOMAIN box' : /\ box'[i] # p
                                /\ \E j \in DOMAIN box : box'[i] = box[j]
      /\ \A i \in DOMAIN taken' : \/ taken'[i] = p
                                  \/ \E j \in DOMAIN taken : taken'[i] = taken[j]
      /\ \E i \in DOMAIN taken' : taken'[i] = p
  <2>1. \A i \in DOMAIN box' : box'[i] # p
    BY <1>1, <1>2, <1>3, <1>6
  <2>2. Len(taken) + 1 \in DOMAIN taken'
    BY <1>1, <1>4
  <2>3. QED
    BY <2>1, <2>2, <1>3, <1>4, <1>5
<1>10. QED
  BY <1>1, <1>2, <1>4, <1>8, <1>9 DEF p

LEMMA PtrReqStep ==
  ASSUME PointerInv, ReqStep \/ AppReply
  PROVE  PointerInv'
<1>1. /\ UNCHANGED <<lock, conn, last, rpc, todo, arg, box, nc, mem, bytes, held,
                     open, pkt, left, resets, taken, harm>>
      /\ \/ req = "queued" /\ req' = "sent" /\ cpc' = cpc
         \/ req = "sent" /\ req' = "none" /\ cpc' = "free"
         \/ cpc = "reply" /\ req' = "queued" /\ cpc' = "waiting"
         \/ cpc = "reply" /\ req' = req /\ cpc' = "free"
      /\ TypeOK /\ LinesInv /\ HandInv /\ HarmInv /\ OrderInv /\ HeldInv /\ PbufInv /\ OwnSafe
  BY DEF ReqStep, ReqSend, ReqComplete, AppReply, devVars, histVars, PointerInv
<1>2. cpc \in {"reply", "waiting"} /\ cpc' \in {"waiting", "free"}
  BY <1>1 DEF HeldInv
<1>3. LinesInv' /\ HandInv' /\ PbufInv' /\ Sent' = Sent /\ NcPbuf' = NcPbuf
  BY <1>1, <1>2, HandsKept
<1>4. OrderInv'
  BY <1>1, OrderKept
<1>5. TypeOK'
  BY <1>1, <1>2, <1>3 DEF TypeOK
<1>6. HarmInv'
  BY <1>1, <1>2 DEF HarmInv, Cur
<1>7. HeldInv'
  BY <1>1, <1>2 DEF HeldInv
<1>8. OwnSafe'
  BY <1>1, <1>2, <1>3 DEF OwnSafe, OwnInv, Deleting, Cur
<1>9. QED
  BY <1>3, <1>4, <1>5, <1>6, <1>7, <1>8 DEF PointerInv

LEMMA PtrAppGrab ==
  ASSUME PointerInv, AppGrab
  PROVE  PointerInv'
<1>1. /\ UNCHANGED <<lock, conn, last, rpc, todo, arg, nc, mem, bytes, req,
                     open, pkt, left, resets, harm>>
      /\ cpc = "grab" /\ cpc' \in {"reply", "free"} /\ box # << >>
      /\ held' = Head(box) /\ box' = Tail(box) /\ taken' = Append(taken, Head(box))
      /\ TypeOK /\ LinesInv /\ HandInv /\ HarmInv /\ OrderInv /\ HeldInv /\ PbufInv /\ OwnSafe
  BY DEF AppGrab, devVars, PointerInv
<1>2. /\ OrderInv' /\ Head(box) \in Packets /\ 1 \in DOMAIN box /\ Head(box) = box[1]
      /\ box' \in Seq(Packets) /\ Len(box') <= RecvQLen /\ taken' \in Seq(Packets)
      /\ \A i \in DOMAIN box' : \E j \in DOMAIN box : box'[i] = box[j]
      /\ \A i \in DOMAIN taken' : \/ taken'[i] = Head(box)
                                  \/ \E j \in DOMAIN taken : taken'[i] = taken[j]
      /\ \E i \in DOMAIN taken' : taken'[i] = Head(box)
  BY <1>1, HeadTaken
<1>3. LinesInv' /\ HandInv' /\ PbufInv' /\ Sent' = Sent /\ NcPbuf' = NcPbuf
  BY <1>1, HandsKept
<1>4. TypeOK'
  BY <1>1, <1>2, <1>3 DEF TypeOK
<1>5. HarmInv'
  BY <1>1 DEF HarmInv, Cur
<1>6. HeldInv'
  <2>1. Head(box) # NoPkt
    BY <1>1, <1>2, PointerTypes DEF NoPkt
  <2>2. QED
    BY <2>1, <1>1, <1>2 DEF HeldInv
<1>7. OwnSafe'
  <2> SUFFICES ASSUME "open" \notin harm' PROVE OwnInv'
    BY DEF OwnSafe
  <2>1. OwnInv
    BY <1>1 DEF OwnSafe
  <2>2. mem[held'] = "live" /\ \A i \in DOMAIN box' : mem[box'[i]] = "live"
    BY <2>1, <1>1, <1>2 DEF OwnInv
  <2>3. ~Deleting /\ ~conn[NcLink].active /\ NcPbuf # NoPkt =>
           /\ \A i \in DOMAIN taken' : taken'[i] # NcPbuf
           /\ \A i \in DOMAIN box' : box'[i] # NcPbuf
    BY <2>1, <1>2 DEF OwnInv
  <2>4. ~Deleting
    BY <1>1 DEF Deleting
  <2>5. QED
    BY <2>1, <2>2, <2>3, <2>4, <1>1, <1>3 DEF OwnInv, Cur
<1>8. QED
  BY <1>2, <1>3, <1>4, <1>5, <1>6, <1>7 DEF PointerInv

\* A chain nobody else has is freed.
LEMMA FreeOwned ==
  ASSUME TypeOK, OwnInv, NEW p \in Packets, mem' = Free(mem, p), mem[p] = "live"
  PROVE  /\ mem' \in [Packets -> {"none", "live", "freed", "double"}]
         /\ \A q \in Packets : mem'[q] # "double" /\ (q # p => mem'[q] = mem[q])
<1>1. /\ mem \in [Packets -> {"none", "live", "freed", "double"}]
      /\ mem' = [mem EXCEPT ![p] = "freed"]
  BY DEF TypeOK, Free
<1>2. QED
  BY <1>1 DEF OwnInv

LEMMA FreeTyped ==
  ASSUME TypeOK, NEW p \in Packets
  PROVE  Free(mem, p) \in [Packets -> {"none", "live", "freed", "double"}]
BY DEF TypeOK, Free

LEMMA PtrAppFree ==
  ASSUME PointerInv, AppFree
  PROVE  PointerInv'
<1>1. /\ UNCHANGED <<lock, conn, last, rpc, todo, arg, box, nc, bytes, req,
                     open, pkt, left, resets, taken, harm>>
      /\ cpc = "free" /\ cpc' = "grab" /\ held' = NoPkt /\ mem' = Free(mem, held)
      /\ TypeOK /\ LinesInv /\ HandInv /\ HarmInv /\ OrderInv /\ HeldInv /\ PbufInv /\ OwnSafe
  BY DEF AppFree, devVars, histVars, PointerInv
<1>2. LinesInv' /\ HandInv' /\ PbufInv' /\ Sent' = Sent /\ NcPbuf' = NcPbuf
  BY <1>1, HandsKept
<1>3. OrderInv'
  BY <1>1, OrderKept
<1>4. held # NoPkt /\ held \in Packets /\ req = "none"
  BY <1>1 DEF HeldInv, TypeOK
<1>5. TypeOK'
  BY <1>1, <1>2, <1>4, FreeTyped DEF TypeOK
<1>6. HarmInv' /\ HeldInv'
  BY <1>1, <1>4 DEF HarmInv, HeldInv, Cur
<1>7. OwnSafe'
  <2> SUFFICES ASSUME "open" \notin harm' PROVE OwnInv'
    BY DEF OwnSafe
  <2>1. OwnInv /\ mem[held] = "live"
    BY <1>1, <1>4 DEF OwnSafe, OwnInv
  <2>2. \A q \in Packets : mem'[q] # "double" /\ (q # held => mem'[q] = mem[q])
    BY <2>1, <1>1, <1>4, FreeOwned
  <2>3. PICK i \in DOMAIN taken : taken[i] = held
    BY <1>1, <1>4 DEF HeldInv
  <2>4. /\ \A j \in DOMAIN box : box[j] # held /\ box[j] \in Packets
        /\ Before(held) /\ held \in Nat
    BY <2>3, <1>1, <1>4, PointerTypes DEF OrderInv
  <2>5. rpc = "callback" /\ conn[last].cb /\ Cur.conn => mem'[Cur.head] = "live"
    <3>1. HAVE rpc = "callback" /\ conn[last].cb /\ Cur.conn
    <3>2. Cur.head \in Packets /\ Cur.head # held
      BY <3>1, <2>4, <1>1, NetAssumption DEF HandInv, Before, Packets
    <3>3. QED
      BY <3>1, <3>2, <2>1, <2>2 DEF OwnInv
  <2>6. rpc = "put" => mem'[arg] = "live"
    <3>1. HAVE rpc = "put"
    <3>2. arg \in Packets /\ arg # held
      BY <3>1, <2>4, <1>1, NetAssumption DEF HandInv, Before, Packets
    <3>3. QED
      BY <3>1, <3>2, <2>1, <2>2 DEF OwnInv
  <2>7. ~Deleting /\ ~conn[NcLink].active /\ NcPbuf # NoPkt => mem'[NcPbuf] = "live"
    <3>1. NcPbuf # NoPkt => NcPbuf \in Packets
      BY <1>1, PointerTypes DEF NoPkt
    <3>2. QED
      BY <3>1, <2>1, <2>2, <2>3 DEF OwnInv
  <2>8. Deleting' => Deleting
    BY <1>1 DEF Deleting
  <2>9. ~Deleting
    BY <1>1 DEF Deleting
  <2>10. QED
    BY <2>1, <2>2, <2>4, <2>5, <2>6, <2>7, <2>9, <1>1, <1>2 DEF OwnInv, Cur
<1>8. QED
  BY <1>2, <1>3, <1>5, <1>6, <1>7 DEF PointerInv

\* An idle connection of the netconn points to nothing that anybody else has.
LEMMA PtrAppDelete ==
  ASSUME PointerInv, AppDelete
  PROVE  PointerInv'
<1>1. /\ UNCHANGED <<lock, conn, last, rpc, todo, arg, box, nc, bytes, held, req,
                     open, pkt, left, resets, taken>>
      /\ cpc = "grab" /\ cpc' = "zero"
      /\ mem' = IF NcPbuf = NoPkt THEN mem ELSE Free(mem, NcPbuf)
      /\ harm \subseteq harm' /\ harm' \subseteq harm \cup Harms
      /\ conn[NcLink].active => "open" \in harm'
      /\ harm' \cap {"packet", "callback"} = harm \cap {"packet", "callback"}
      /\ TypeOK /\ LinesInv /\ HandInv /\ HarmInv /\ OrderInv /\ HeldInv /\ PbufInv /\ OwnSafe
  BY DEF AppDelete, Harms, NcPbuf, devVars, PointerInv
<1>2. LinesInv' /\ HandInv' /\ PbufInv' /\ Sent' = Sent /\ NcPbuf' = NcPbuf
  BY <1>1, HandsKept
<1>3. OrderInv'
  BY <1>1, OrderKept
<1>4. NcPbuf # NoPkt => NcPbuf \in Packets
  BY <1>1, PointerTypes DEF NoPkt
<1>5. TypeOK'
  BY <1>1, <1>2, <1>4, FreeTyped DEF TypeOK
<1>6. HarmInv' /\ HeldInv'
  BY <1>1 DEF HarmInv, HeldInv, Cur
<1>7. OwnSafe'
  <2> SUFFICES ASSUME "open" \notin harm' PROVE OwnInv'
    BY DEF OwnSafe
  <2>1. OwnInv /\ ~conn[NcLink].active /\ ~Deleting /\ Deleting' /\ held = NoPkt
    BY <1>1 DEF OwnSafe, Deleting, HeldInv
  <2>2. CASE NcPbuf = NoPkt
    BY <2>1, <2>2, <1>1, <1>2 DEF OwnInv, Cur
  <2>3. CASE NcPbuf # NoPkt
    <3>1. /\ mem[NcPbuf] = "live" /\ NcPbuf \in Packets
          /\ \A i \in DOMAIN box : box[i] # NcPbuf /\ box[i] \in Packets
      BY <2>1, <2>3, <1>1, <1>4, PointerTypes DEF OwnInv
    <3>2. \A q \in Packets : mem'[q] # "double" /\ (q # NcPbuf => mem'[q] = mem[q])
      BY <3>1, <2>1, <2>3, <1>1, FreeOwned
    <3>3. rpc = "callback" /\ conn[last].cb /\ Cur.conn => mem'[Cur.head] = "live"
      <4>1. HAVE rpc = "callback" /\ conn[last].cb /\ Cur.conn
      <4>2. last # NcLink /\ last # NoLink /\ last \in Links
        BY <4>1, <2>1, <1>1 DEF HarmInv, HandInv, TypeOK
      <4>3. Cur.head \in Packets /\ Cur.head # NcPbuf
        BY <3>1, <4>1, <4>2, <1>1, NetAssumption DEF HandInv, PbufInv, Before, Packets
      <4>4. QED
        BY <3>2, <4>1, <4>3, <2>1 DEF OwnInv
    <3>4. rpc = "put" => mem'[arg] = "live"
      <4>1. HAVE rpc = "put"
      <4>2. last # NcLink
        BY <4>1, <2>1, <1>1, NetAssumption DEF HarmInv, HandInv
      <4>3. arg \in Packets /\ arg # NcPbuf
        BY <3>1, <4>1, <4>2, <1>1, NetAssumption DEF HandInv, PbufInv, Before, Packets
      <4>4. QED
        BY <3>2, <4>1, <4>3, <2>1 DEF OwnInv
    <3>5. QED
      BY <3>1, <3>2, <3>3, <3>4, <2>1, <1>1, <1>2 DEF OwnInv, Cur
  <2>4. QED
    BY <2>2, <2>3
<1>8. QED
  BY <1>2, <1>3, <1>5, <1>6, <1>7 DEF PointerInv

LEMMA PtrAppZero ==
  ASSUME PointerInv, AppZero
  PROVE  PointerInv'
<1>1. /\ UNCHANGED <<lock, last, rpc, todo, arg, box, nc, mem, bytes, held, req,
                     open, pkt, left, resets, taken>>
      /\ cpc = "zero" /\ cpc' = "delete"
      /\ conn' = [conn EXCEPT ![NcLink] = ZeroConn]
      /\ harm \subseteq harm' /\ harm' \subseteq harm \cup Harms
      /\ last = NcLink => "packet" \in harm'
      /\ (\E l \in Links \ {NcLink} : conn[l].cb) => "callback" \in harm'
      /\ TypeOK /\ LinesInv /\ HandInv /\ HarmInv /\ OrderInv /\ HeldInv /\ PbufInv /\ OwnSafe
  BY DEF AppZero, Harms, devVars, PointerInv
<1>2. /\ Sent' = Sent /\ Sent \in Nat /\ conn \in [Links -> ConnType] /\ NcLink \in Links
      /\ NoLink \notin Links
      /\ ZeroConn \in ConnType /\ NcPbuf \in Nat
      /\ \A i \in DOMAIN taken : taken[i] \in Nat
      /\ \A i \in DOMAIN box : box[i] \in Nat
  BY <1>1, PointerTypes, ZeroTyped, NetAssumption DEF Sent
<1>3. /\ conn' \in [Links -> ConnType]
      /\ \A l \in Links \ {NcLink} : conn'[l] = conn[l]
      /\ ~conn'[NcLink].active /\ ~conn'[NcLink].cb /\ conn'[NcLink].pbuf = NoPkt
      /\ ~conn'[NcLink].ipd.conn
  BY <1>1, <1>2 DEF ZeroConn, ZeroIpd
<1>4. /\ NcPbuf' = NoPkt /\ (Coming' <=> Coming) /\ LinesInv' /\ (Coming => Sent >= 1)
      /\ last # NoLink => \/ last # NcLink /\ Cur' = Cur /\ conn'[last] = conn[last]
                          \/ last = NcLink /\ ~Cur'.conn
  BY <1>1, <1>2, <1>3 DEF NcPbuf, Coming, LinesInv, Cur, TypeOK
<1>5. TypeOK'
  BY <1>1, <1>2, <1>3 DEF TypeOK, ConnType, IpdType
<1>6. HandInv'
  BY <1>1, <1>2, <1>4 DEF HandInv
<1>7. HarmInv'
  <2>1. \A l \in Links : conn'[l].cb => conn'[l].active
    BY <1>1, <1>3 DEF HarmInv
  <2>2. "packet" \notin harm' /\ last # NoLink => Cur'.conn
    BY <1>1, <1>4 DEF HarmInv
  <2>3. "callback" \notin harm' => \A l \in Links : ~conn'[l].cb
    BY <1>1, <1>3
  <2>4. harm' \cap {"packet", "callback"} = {} =>
          rpc' # "dead" /\ (rpc' = "put" => conn'[last'].cb)
    <3>1. HAVE harm' \cap {"packet", "callback"} = {}
    <3>2. harm \cap {"packet", "callback"} = {} /\ last # NcLink
      BY <3>1, <1>1
    <3>3. QED
      BY <3>2, <1>1, <1>4 DEF HarmInv, HandInv
  <2>5. QED
    BY <2>1, <2>2, <2>3, <2>4, <1>1 DEF HarmInv
<1>8. \A p \in Nat : Before(p) => Before(p)'
  BY <1>1, <1>2, <1>4 DEF Before
<1>9. OrderInv'
  BY <1>8, <1>1, <1>2 DEF OrderInv
<1>10. HeldInv'
  BY <1>1 DEF HeldInv
<1>11. PbufInv'
  <2>1. NcPbuf' <= Sent' /\ (Coming' => NcPbuf' < Sent')
    BY <1>2, <1>4 DEF NoPkt
  <2>2. Before(NcPbuf)'
    <3>1. last # NoLink /\ Cur'.conn => Cur'.head \in Packets
      BY <1>1, <1>4 DEF HandInv
    <3>2. rpc = "put" => arg \in Packets
      BY <1>1 DEF HandInv
    <3>3. QED
      BY <2>1, <3>1, <3>2, <1>1, <1>4, NetAssumption DEF Before, NoPkt, Packets
  <2>3. QED
    BY <2>1, <2>2 DEF PbufInv
<1>12. OwnSafe'
  <2> SUFFICES ASSUME "open" \notin harm' PROVE OwnInv'
    BY DEF OwnSafe
  <2>1. OwnInv /\ Deleting'
    BY <1>1 DEF OwnSafe, Deleting
  <2>2. rpc = "callback" /\ conn'[last].cb /\ Cur'.conn => mem[Cur'.head] = "live"
    BY <2>1, <1>1, <1>3, <1>4 DEF OwnInv, HandInv
  <2>3. QED
    BY <2>1, <2>2, <1>1 DEF OwnInv
<1>13. QED
  BY <1>4, <1>5, <1>6, <1>7, <1>9, <1>10, <1>11, <1>12 DEF PointerInv

LEMMA PtrAppFlush ==
  ASSUME PointerInv, AppFlush
  PROVE  PointerInv'
<1>1. /\ UNCHANGED <<lock, conn, last, rpc, todo, arg, nc, bytes, cpc, held, req,
                     open, pkt, left, resets, harm>>
      /\ cpc = "delete" /\ box # << >> /\ mem' = Free(mem, Head(box))
      /\ box' = Tail(box) /\ taken' = Append(taken, Head(box))
      /\ TypeOK /\ LinesInv /\ HandInv /\ HarmInv /\ OrderInv /\ HeldInv /\ PbufInv /\ OwnSafe
  BY DEF AppFlush, appVars, devVars, PointerInv
<1>2. /\ OrderInv' /\ Head(box) \in Packets /\ 1 \in DOMAIN box /\ Head(box) = box[1]
      /\ box' \in Seq(Packets) /\ Len(box') <= RecvQLen /\ taken' \in Seq(Packets)
      /\ \A i \in DOMAIN box' : /\ box'[i] # Head(box)
                                /\ \E j \in DOMAIN box : box'[i] = box[j]
  BY <1>1, HeadTaken
<1>3. LinesInv' /\ HandInv' /\ PbufInv' /\ Sent' = Sent /\ NcPbuf' = NcPbuf
  BY <1>1, HandsKept
<1>4. TypeOK'
  BY <1>1, <1>2, <1>3, FreeTyped DEF TypeOK
<1>5. HarmInv'
  BY <1>1 DEF HarmInv, Cur
<1>6. HeldInv' /\ held = NoPkt
  BY <1>1 DEF HeldInv
<1>7. OwnSafe'
  <2> SUFFICES ASSUME "open" \notin harm' PROVE OwnInv'
    BY DEF OwnSafe
  <2> DEFINE p == Head(box)
  <2>1. OwnInv /\ Deleting' /\ mem[p] = "live"
    BY <1>1, <1>2 DEF OwnSafe, OwnInv, Deleting
  <2>2. \A q \in Packets : mem'[q] # "double" /\ (q # p => mem'[q] = mem[q])
    BY <2>1, <1>1, <1>2, FreeOwned
  <2>3. Before(p) /\ p \in Packets
    BY <1>1, <1>2 DEF OrderInv
  <2> HIDE DEF p
  <2>4. \A i \in DOMAIN box' : mem'[box'[i]] = "live"
    <3>1. TAKE i \in DOMAIN box'
    <3>2. PICK j \in DOMAIN box : box'[i] = box[j]
      BY <3>1, <1>2
    <3>3. box[j] \in Packets /\ box[j] # p /\ mem[box[j]] = "live"
      BY <3>1, <3>2, <2>1, <1>1, <1>2, PointerTypes DEF OwnInv, p
    <3>4. QED
      BY <3>2, <3>3, <2>2
  <2>5. rpc = "callback" /\ conn[last].cb /\ Cur.conn => mem'[Cur.head] = "live"
    <3>1. HAVE rpc = "callback" /\ conn[last].cb /\ Cur.conn
    <3>2. Cur.head \in Packets /\ Cur.head # p
      BY <3>1, <2>3, <1>1, NetAssumption DEF HandInv, Before, Packets
    <3>3. QED
      BY <3>1, <3>2, <2>1, <2>2 DEF OwnInv
  <2>6. rpc = "put" => mem'[arg] = "live"
    <3>1. HAVE rpc = "put"
    <3>2. arg \in Packets /\ arg # p
      BY <3>1, <2>3, <1>1, NetAssumption DEF HandInv, Before, Packets
    <3>3. QED
      BY <3>1, <3>2, <2>1, <2>2 DEF OwnInv
  <2>7. QED
    BY <2>1, <2>2, <2>4, <2>5, <2>6, <1>1, <1>6 DEF OwnInv, Cur
<1>8. QED
  BY <1>2, <1>3, <1>4, <1>5, <1>6, <1>7 DEF PointerInv

LEMMA PtrAppDeleted ==
  ASSUME PointerInv, AppDeleted
  PROVE  PointerInv'
<1>1. /\ UNCHANGED <<lock, conn, last, rpc, todo, arg, box, mem, bytes, cpc, held, req,
                     open, pkt, left, resets, taken, harm>>
      /\ cpc = "delete" /\ nc' = "deleted"
      /\ TypeOK /\ LinesInv /\ HandInv /\ HarmInv /\ OrderInv /\ HeldInv /\ PbufInv /\ OwnSafe
  BY DEF AppDeleted, appVars, devVars, histVars, PointerInv
<1>2. LinesInv' /\ HandInv' /\ PbufInv' /\ Sent' = Sent /\ NcPbuf' = NcPbuf
  BY <1>1, HandsKept
<1>3. OrderInv'
  BY <1>1, OrderKept
<1>4. TypeOK'
  BY <1>1, <1>2 DEF TypeOK
<1>5. HarmInv' /\ HeldInv'
  BY <1>1 DEF HarmInv, HeldInv, Cur
<1>6. OwnSafe'
  BY <1>1, <1>2 DEF OwnSafe, OwnInv, Deleting, Cur
<1>7. QED
  BY <1>2, <1>3, <1>4, <1>5, <1>6 DEF PointerInv
-----------------------------------------------------------------------------
(* The bytes of a packet, whatever resets and the deletion do.             *)

\* Behind a header that is still to be read come bytes of its packet, and the device
\* has the rest, unless the connection has no callback: a reset cuts packets short.
AheadInv ==
  \A i \in DOMAIN todo : todo[i].kind = "hdr" =>
    /\ bytes[Sent] = <<>>
    /\ \A j \in DOMAIN todo : todo[j].kind # "connect"
    /\ conn[todo[i].link].cb =>
         /\ \A j \in DOMAIN todo : j > i => todo[j] = Byte(Sent)
         /\ Len(todo) - i + left = pkt[Sent].len

\* A packet has no bytes before its header.
UnsentInv == \A p \in Packets : p > Sent => bytes[p] = <<>>

\* The packet of a connection with a callback: so many bytes have come as are in its
\* chain, and the rest is next in the chunk and then in the device.
GatherInv ==
  last # NoLink /\ Cur.conn /\ conn[last].cb =>
    /\ Cur.rem <= pkt[Cur.head].len
    /\ bytes[Cur.head] = [i \in 1..(pkt[Cur.head].len - Cur.rem) |-> Cur.head]
    /\ rpc = "callback" => Cur.rem = 0
    /\ rpc \in {"get", "start", "parse"} =>
         /\ \A i \in DOMAIN todo : i <= Cur.rem => todo[i] = Byte(Cur.head)
         /\ Len(todo) <= Cur.rem => Cur.head = Sent /\ Len(todo) + left = Cur.rem

\* What is put, and what has been, is whole.
PutInv == rpc = "put" => Whole(arg)

ByteInv == /\ rpc = "get" => todo = <<>>
           /\ AheadInv /\ UnsentInv /\ GatherInv /\ PutInv /\ PacketsWhole

\* The first n units of a chunk are read, or none.
LEMMA AheadShift ==
  ASSUME TypeOK, LinesInv, AheadInv, NEW n \in Nat, n <= Len(todo),
         Len(todo') = Len(todo) - n, todo' \in Seq(UnitType),
         \A i \in 1..Len(todo') : todo'[i] = todo[i + n],
         pkt' = pkt, Coming => bytes'[Sent] = bytes[Sent],
         left' = left \/ \A l \in Links : ~conn'[l].cb,
         \A l \in Links : \/ conn'[l].cb => conn[l].cb
                          \/ \E j \in DOMAIN todo : todo[j].kind = "connect"
  PROVE  AheadInv'
<1>1. /\ Len(todo) \in Nat /\ Len(todo') \in Nat /\ Sent' = Sent /\ left \in Nat
      /\ Sent \in Nat /\ DOMAIN todo = 1..Len(todo) /\ DOMAIN todo' = 1..Len(todo')
  BY PointerTypes DEF Sent
<1>2. \A i \in DOMAIN todo' : i + n \in DOMAIN todo /\ todo'[i] = todo[i + n] /\ i \in Nat
  BY <1>1
<1>3. SUFFICES ASSUME NEW i \in DOMAIN todo', todo'[i].kind = "hdr"
               PROVE  /\ bytes'[Sent] = << >>
                      /\ \A j \in DOMAIN todo' : todo'[j].kind # "connect"
                      /\ conn'[todo'[i].link].cb =>
                           /\ \A j \in DOMAIN todo' : j > i => todo'[j] = Byte(Sent)
                           /\ Len(todo') - i + left' = pkt[Sent].len
  BY <1>1 DEF AheadInv
<1>4. i + n \in DOMAIN todo /\ todo[i + n].kind = "hdr" /\ todo'[i] = todo[i + n] /\ i \in Nat
  BY <1>2, <1>3
<1>5. todo[i + n].link \in Links /\ Coming
  BY <1>4 DEF LinesInv, Coming
<1>6. /\ bytes[Sent] = << >>
      /\ \A j \in DOMAIN todo : todo[j].kind # "connect"
      /\ conn[todo[i + n].link].cb =>
           /\ \A j \in DOMAIN todo : j > i + n => todo[j] = Byte(Sent)
           /\ Len(todo) - (i + n) + left = pkt[Sent].len
  BY <1>4 DEF AheadInv
<1>7. bytes'[Sent] = << >> /\ \A j \in DOMAIN todo' : todo'[j].kind # "connect"
  BY <1>2, <1>5, <1>6
<1>8. ASSUME conn'[todo'[i].link].cb
      PROVE  /\ \A j \in DOMAIN todo' : j > i => todo'[j] = Byte(Sent)
             /\ Len(todo') - i + left' = pkt[Sent].len
  <2>1. left' = left /\ conn[todo[i + n].link].cb
    BY <1>4, <1>5, <1>6, <1>8
  <2>2. ASSUME NEW j \in DOMAIN todo', j > i PROVE todo'[j] = Byte(Sent)
    <3>1. j + n \in DOMAIN todo /\ todo'[j] = todo[j + n] /\ j + n > i + n
      BY <2>2, <1>1, <1>2, <1>4
    <3>2. QED
      BY <3>1, <2>1, <1>6
  <2>3. Len(todo') - i = Len(todo) - (i + n)
    BY <1>1, <1>4
  <2>4. QED
    BY <2>1, <2>2, <2>3, <1>6
<1>9. QED
  BY <1>7, <1>8

\* Most steps read nothing, and take callbacks away rather than give them.
LEMMA BytesStay ==
  ASSUME TypeOK, LinesInv, ByteInv, UNCHANGED <<todo, pkt, bytes, last>>,
         left' = left \/ \A l \in Links : ~conn'[l].cb,
         \A l \in Links : conn'[l].cb => conn[l].cb /\ conn'[l].ipd = conn[l].ipd,
         rpc' = "callback" => rpc = "callback", rpc' = "get" => todo = << >>,
         rpc' \in {"get", "start", "parse"} => rpc \in {"get", "start", "parse"},
         rpc' = "put" => Whole(arg'),
         \A i \in DOMAIN box' : Whole(box'[i])
  PROVE  ByteInv'
<1>1. Sent' = Sent /\ \A p : Whole(p)' <=> Whole(p)
  BY DEF Sent, Whole
<1>2. /\ todo \in Seq(UnitType) /\ Len(todo) \in Nat
      /\ AheadInv /\ UnsentInv /\ GatherInv
  BY PointerTypes DEF ByteInv
<1>3. AheadInv'
  <2>1. /\ 0 \in Nat /\ 0 <= Len(todo) /\ Len(todo') = Len(todo) - 0
        /\ todo' \in Seq(UnitType) /\ \A i \in 1..Len(todo') : todo'[i] = todo[i + 0]
    BY <1>2
  <2>2. QED
    BY <2>1, <1>2, AheadShift
<1>4. UnsentInv'
  BY <1>1, <1>2 DEF UnsentInv
<1>5. GatherInv'
  <2>1. SUFFICES ASSUME last # NoLink, Cur'.conn, conn'[last].cb
                 PROVE  GatherInv'
    BY DEF GatherInv
  <2>2. last \in Links
    BY <2>1 DEF TypeOK
  <2>3. Cur' = Cur /\ conn[last].cb /\ left' = left
    BY <2>1, <2>2 DEF Cur
  <2>4. QED
    BY <2>1, <2>3, <1>1, <1>2 DEF GatherInv
<1>6. PutInv' /\ PacketsWhole'
  BY <1>1 DEF PutInv, PacketsWhole
<1>7. QED
  BY <1>3, <1>4, <1>5, <1>6 DEF ByteInv

LEMMA ByteIdle ==
  ASSUME PointerInv, ByteInv,
         \/ RespLock \/ RespUnlock \/ ReqStep \/ AppReply \/ AppFree \/ AppDelete
         \/ AppDeleted \/ UNCHANGED vars
  PROVE  ByteInv'
<1>1. /\ UNCHANGED <<conn, last, todo, arg, box, bytes, pkt, left>>
      /\ rpc' = rpc \/ (rpc = "start" /\ rpc' = "parse")
                    \/ (rpc = "parse" /\ rpc' = "get" /\ todo = << >>)
  <2>1. CASE RespLock \/ RespUnlock
    BY <2>1 DEF RespLock, RespUnlock, devVars
  <2>2. CASE ReqStep \/ AppReply
    BY <2>2 DEF ReqStep, ReqSend, ReqComplete, AppReply, devVars
  <2>3. CASE AppFree \/ AppDelete \/ AppDeleted
    BY <2>3 DEF AppFree, AppDelete, AppDeleted, devVars
  <2>4. CASE UNCHANGED vars
    BY <2>4 DEF vars, devVars
  <2>5. QED
    BY <2>1, <2>2, <2>3, <2>4
<1>2. /\ TypeOK /\ LinesInv /\ PutInv /\ PacketsWhole /\ (rpc = "get" => todo = << >>)
  BY DEF PointerInv, ByteInv
<1>3. /\ rpc' = "put" => Whole(arg')
      /\ \A i \in DOMAIN box' : Whole(box'[i])
  BY <1>1, <1>2 DEF PutInv, PacketsWhole
<1>4. QED
  BY <1>1, <1>2, <1>3, BytesStay

\* Taking a packet from the mailbox.
LEMMA ByteTake ==
  ASSUME PointerInv, ByteInv, AppGrab \/ AppFlush
  PROVE  ByteInv'
<1>1. /\ UNCHANGED <<conn, last, rpc, todo, arg, bytes, pkt, left>>
      /\ box # << >> /\ box' = Tail(box)
  BY DEF AppGrab, AppFlush, appVars, devVars
<1>2. /\ TypeOK /\ LinesInv /\ PutInv /\ PacketsWhole /\ (rpc = "get" => todo = << >>)
      /\ box \in Seq(Packets) /\ Len(box) \in Nat
  BY PointerTypes DEF PointerInv, ByteInv
<1>3. \A i \in DOMAIN box' : Whole(box'[i])
  <2>1. Len(box) > 0
    BY <1>1, <1>2, EmptySeq
  <2>2. /\ box' \in Seq(Packets) /\ Len(box') = Len(box) - 1
        /\ \A i \in 1..Len(box') : box'[i] = box[i + 1]
    BY <1>1, <1>2, <2>1, HeadTailProperties
  <2>3. \A i \in DOMAIN box' : i + 1 \in DOMAIN box /\ box'[i] = box[i + 1]
    BY <2>2, <1>2
  <2>4. QED
    BY <2>3, <1>2 DEF PacketsWhole
<1>4. rpc' = "put" => Whole(arg')
  BY <1>1, <1>2 DEF PutInv
<1>5. QED
  BY <1>1, <1>2, <1>3, <1>4, BytesStay

\* Zeroing a connection, or all of them.
LEMMA ByteZero ==
  ASSUME PointerInv, ByteInv, AppZero \/ ReqReset
  PROVE  ByteInv'
<1>1. /\ UNCHANGED <<last, rpc, todo, arg, box, bytes, pkt>>
      /\ TypeOK /\ LinesInv /\ PutInv /\ PacketsWhole /\ (rpc = "get" => todo = << >>)
      /\ ~ZeroConn.cb
  BY DEF AppZero, ReqReset, PointerInv, ByteInv, ZeroConn, appVars, devVars
<1>2. /\ \A l \in Links : conn'[l].cb => conn'[l] = conn[l]
      /\ left' = left \/ \A l \in Links : ~conn'[l].cb
  <2>1. CASE AppZero
    <3>1. conn' = [conn EXCEPT ![NcLink] = ZeroConn] /\ left' = left
      BY <2>1 DEF AppZero, devVars
    <3>2. conn \in [Links -> ConnType]
      BY <1>1, PointerTypes
    <3>3. QED
      BY <3>1, <3>2, <1>1
  <2>2. CASE ReqReset
    <3>1. conn' = [l \in Links |-> ZeroConn]
      BY <2>2 DEF ReqReset
    <3>2. QED
      BY <3>1, <1>1
  <2>3. QED
    BY <2>1, <2>2
<1>3. /\ rpc' = "put" => Whole(arg')
      /\ \A i \in DOMAIN box' : Whole(box'[i])
  BY <1>1 DEF PutInv, PacketsWhole
<1>4. QED
  BY <1>1, <1>2, <1>3, BytesStay

\* A packet is handed over when its last byte is in its chain.
LEMMA ByteCallback ==
  ASSUME PointerInv, ByteInv, RespCallback
  PROVE  ByteInv'
<1>1. /\ UNCHANGED <<conn, last, todo, box, bytes, pkt, left>>
      /\ rpc = "callback" /\ arg' = conn[last].pbuf
      /\ rpc' \in {"dead", "put", "reset"}
      /\ rpc' = "put" => Cur.conn /\ conn[last].cb
      /\ TypeOK /\ LinesInv /\ HandInv /\ GatherInv /\ PacketsWhole
  BY DEF RespCallback, Dies, devVars, PointerInv, ByteInv, Cur
<1>2. ASSUME rpc' = "put" PROVE Whole(arg')
  <2>1. /\ last # NoLink /\ Cur.conn /\ conn[last].cb
        /\ arg' = Cur.head /\ Cur.head \in Packets /\ Cur.head <= Sent
    BY <1>1, <1>2 DEF HandInv
  <2>2. /\ Cur.rem = 0
        /\ bytes[Cur.head] = [i \in 1..(pkt[Cur.head].len - Cur.rem) |-> Cur.head]
    BY <2>1, <1>1 DEF GatherInv
  <2>3. pkt[Cur.head].len \in Int
    <3>1. Cur.head \in 1..Sent /\ MaxLen \in Nat
      BY <2>1, <1>1, PointerTypes DEF Packets
    <3>2. pkt[Cur.head] \in [link : Links, len : 1..MaxLen]
      BY <3>1, <1>1, PointerTypes
    <3>3. QED
      BY <3>1, <3>2
  <2>4. pkt[Cur.head].len - Cur.rem = pkt[Cur.head].len
    BY <2>2, <2>3
  <2>5. QED
    BY <2>1, <2>2, <2>4 DEF Whole
<1>3. \A i \in DOMAIN box' : Whole(box'[i])
  BY <1>1 DEF PacketsWhole
<1>4. QED
  BY <1>1, <1>2, <1>3, BytesStay

LEMMA BytePut ==
  ASSUME PointerInv, ByteInv, RespPut
  PROVE  ByteInv'
<1>1. /\ UNCHANGED <<conn, last, todo, arg, bytes, pkt, left>>
      /\ rpc = "put" /\ rpc' \in {"dead", "reset"}
      /\ box' = box \/ box' = Append(box, arg)
      /\ TypeOK /\ LinesInv /\ HandInv /\ PutInv /\ PacketsWhole
  BY DEF RespPut, Dies, PutIn, devVars, PointerInv, ByteInv
<1>2. \A i \in DOMAIN box' : Whole(box'[i])
  <2>1. box \in Seq(Packets) /\ Len(box) \in Nat /\ arg \in Packets /\ Whole(arg)
    BY <1>1, PointerTypes DEF HandInv, PutInv
  <2>2. CASE box' = Append(box, arg)
    <3>1. /\ Len(box') = Len(box) + 1 /\ box' \in Seq(Packets)
          /\ \A i \in 1..Len(box) : box'[i] = box[i]
          /\ box'[Len(box) + 1] = arg
      BY <2>1, <2>2, AppendProperties
    <3>2. \A i \in DOMAIN box' : i \in DOMAIN box \/ i = Len(box) + 1
      BY <3>1, <2>1
    <3>3. QED
      BY <3>1, <3>2, <2>1, <1>1 DEF PacketsWhole
  <2>3. QED
    BY <2>2, <1>1 DEF PacketsWhole
<1>3. QED
  BY <1>1, <1>2, BytesStay

\* Reading a line, or a header whose connection takes none.
LEMMA ByteLine ==
  ASSUME PointerInv, ByteInv, RespText \/ RespConnect \/ RespClosed \/ RespSetup
  PROVE  ByteInv'
<1> DEFINE l == Head(todo).link
           q == Head(todo).pkt
<1>1. /\ UNCHANGED <<rpc, arg, box, bytes, pkt, left>>
      /\ rpc = "parse" /\ last = NoLink /\ todo # << >> /\ todo' = Tail(todo)
      /\ TypeOK /\ LinesInv /\ AheadInv /\ UnsentInv /\ PutInv /\ PacketsWhole
  BY DEF RespText, RespConnect, RespClosed, RespSetup, Parsing, devVars, PointerInv, ByteInv
<1>2. /\ todo \in Seq(UnitType) /\ Len(todo) \in Nat /\ Len(todo) > 0
      /\ conn \in [Links -> ConnType] /\ Sent' = Sent
  BY <1>1, PointerTypes, EmptySeq DEF Sent
<1>3. /\ todo' \in Seq(UnitType) /\ Len(todo') = Len(todo) - 1 /\ Head(todo) = todo[1]
      /\ \A i \in 1..Len(todo') : todo'[i] = todo[i + 1]
      /\ 1 \in DOMAIN todo
  BY <1>1, <1>2, HeadTailProperties
<1>4. \A c \in Links : \/ conn'[c].cb => conn[c].cb
                        \/ \E j \in DOMAIN todo : todo[j].kind = "connect"
  <2>1. CASE RespText
    BY <2>1 DEF RespText
  <2>2. CASE RespConnect
    BY <2>2, <1>3 DEF RespConnect, Parsing
  <2>3. CASE RespClosed
    <3>1. conn' = [conn EXCEPT ![l] = ZeroConn] /\ ~ZeroConn.cb
      BY <2>3 DEF RespClosed, Closed, ZeroConn
    <3>2. QED
      BY <3>1, <1>2
  <2>4. CASE RespSetup
    <3> DEFINE x == [conn |-> TRUE, head |-> q, rem |-> pkt[q].len, read |-> TRUE]
    <3>1. \/ conn' = conn
          \/ conn' = [conn EXCEPT ![l].ipd = x]
      BY <2>4 DEF RespSetup
    <3> HIDE DEF x, l
    <3>2. QED
      BY <3>1, <1>2 DEF ConnType
  <2>5. QED
    BY <2>1, <2>2, <2>3, <2>4
<1>5. AheadInv'
  <2>1. 1 \in Nat /\ 1 <= Len(todo)
    BY <1>2
  <2>2. QED
    BY <2>1, <1>1, <1>2, <1>3, <1>4, AheadShift
<1>6. GatherInv'
  <2>1. CASE last' = NoLink
    BY <2>1 DEF GatherInv
  <2>2. CASE last' # NoLink
    <3>1. /\ RespSetup /\ Head(todo).kind = "hdr" /\ last' = l
          /\ conn' = [conn EXCEPT ![l].ipd = [conn |-> TRUE, head |-> q,
                                              rem |-> pkt[q].len, read |-> TRUE]]
      BY <2>2, <1>1 DEF RespText, RespConnect, RespClosed, RespSetup, Parsing
    <3>2. /\ l \in Links /\ q = Sent /\ Sent >= 1 /\ Sent \in Nat
          /\ pkt[q] \in [link : Links, len : 1..MaxLen] /\ MaxLen \in Nat
      <4>1. l \in Links /\ q = Sent /\ Sent >= 1
        BY <3>1, <1>1, <1>3 DEF LinesInv
      <4>2. Sent \in Nat /\ MaxLen \in Nat
        BY <1>1, PointerTypes
      <4>3. q \in 1..Sent
        BY <4>1, <4>2
      <4>4. QED
        BY <4>1, <4>2, <4>3, <1>1, PointerTypes
    <3>3. /\ bytes[Sent] = << >>
          /\ conn[l].cb => /\ \A j \in DOMAIN todo : j > 1 => todo[j] = Byte(Sent)
                           /\ Len(todo) - 1 + left = pkt[Sent].len
      BY <3>1, <1>1, <1>3 DEF AheadInv
    <3>4. /\ Cur'.head = q /\ Cur'.rem = pkt[q].len /\ conn'[l].cb = conn[l].cb
      BY <3>1, <3>2, <1>2 DEF Cur, ConnType
    <3>5. SUFFICES ASSUME conn[l].cb PROVE GatherInv'
      BY <3>1, <3>4 DEF GatherInv
    <3>6. pkt[q].len \in Int /\ pkt[q].len >= 1
      BY <3>2
    <3>7. bytes'[q] = [i \in 1..(pkt[q].len - pkt[q].len) |-> q]
      <4>1. 1..(pkt[q].len - pkt[q].len) = {}
        BY <3>6
      <4>2. [i \in 1..(pkt[q].len - pkt[q].len) |-> q] = << >>
        BY <4>1
      <4>3. QED
        BY <4>2, <3>2, <3>3, <1>1
    <3>8. \A i \in DOMAIN todo' : todo'[i] = Byte(q)
      <4>1. ASSUME NEW i \in DOMAIN todo' PROVE todo'[i] = Byte(q)
        <5>1. i + 1 \in DOMAIN todo /\ todo'[i] = todo[i + 1] /\ i + 1 > 1
          BY <4>1, <1>2, <1>3
        <5>2. QED
          BY <5>1, <3>2, <3>3, <3>5
      <4>2. QED
        BY <4>1
    <3>9. Len(todo') + left' = pkt[q].len
      BY <3>2, <3>3, <3>5, <1>1, <1>3
    <3> HIDE DEF q, l
    <3>10. /\ Cur'.rem <= pkt'[Cur'.head].len /\ rpc' = "parse"
           /\ bytes'[Cur'.head] = [i \in 1..(pkt'[Cur'.head].len - Cur'.rem) |-> Cur'.head]
           /\ \A i \in DOMAIN todo' : todo'[i] = Byte(Cur'.head)
           /\ Cur'.head = Sent' /\ Len(todo') + left' = Cur'.rem
      BY <3>2, <3>4, <3>6, <3>7, <3>8, <3>9, <1>1, <1>2
    <3>11. QED
      BY <3>10 DEF GatherInv
  <2>3. QED
    BY <2>1, <2>2
<1>7. UnsentInv' /\ PutInv' /\ PacketsWhole' /\ rpc' # "get"
  BY <1>1, <1>2 DEF UnsentInv, PutInv, PacketsWhole, Whole
<1>8. QED
  BY <1>5, <1>6, <1>7 DEF ByteInv

LEMMA ByteReset ==
  ASSUME PointerInv, ByteInv, RespReset
  PROVE  ByteInv'
<1>1. /\ UNCHANGED <<todo, box, bytes, pkt, left>>
      /\ rpc = "reset" /\ rpc' \in {"parse", "dead"} /\ last' = NoLink
      /\ \/ conn' = conn
         \/ conn' = [conn EXCEPT ![last].ipd = ZeroIpd]
      /\ TypeOK /\ LinesInv /\ AheadInv /\ UnsentInv /\ PacketsWhole
  BY DEF RespReset, Dies, LastCleared, devVars, PointerInv, ByteInv
<1>2. /\ todo \in Seq(UnitType) /\ Len(todo) \in Nat
      /\ conn \in [Links -> ConnType] /\ Sent' = Sent
  BY <1>1, PointerTypes DEF Sent
<1>3. \A l \in Links : conn'[l].cb = conn[l].cb
  BY <1>1, <1>2 DEF ConnType
<1>4. AheadInv'
  <2>1. /\ 0 \in Nat /\ 0 <= Len(todo) /\ Len(todo') = Len(todo) - 0
        /\ todo' \in Seq(UnitType) /\ \A i \in 1..Len(todo') : todo'[i] = todo[i + 0]
    BY <1>1, <1>2
  <2>2. QED
    BY <2>1, <1>1, <1>3, AheadShift
<1>5. GatherInv' /\ PutInv'
  BY <1>1 DEF GatherInv, PutInv
<1>6. UnsentInv' /\ PacketsWhole'
  BY <1>1, <1>2 DEF UnsentInv, PacketsWhole, Whole
<1>7. QED
  BY <1>1, <1>4, <1>5, <1>6 DEF ByteInv

\* The next bytes of a packet go to the end of its chain.
LEMMA ByteCopy ==
  ASSUME PointerInv, ByteInv, RespCopy
  PROVE  ByteInv'
<1>1. /\ UNCHANGED <<last, arg, box, pkt, left>>
      /\ rpc = "parse" /\ last # NoLink /\ last \in Links /\ todo # << >>
      /\ TypeOK /\ LinesInv /\ HandInv /\ OrderInv
      /\ AheadInv /\ UnsentInv /\ GatherInv /\ PacketsWhole
  BY DEF RespCopy, devVars, PointerInv, ByteInv, TypeOK
<1>2. CASE ~conn[last].ipd.conn
  <2>1. rpc' = "dead" /\ UNCHANGED <<bytes, todo, conn>>
    BY <1>2 DEF RespCopy, Dies
  <2>2. \A i \in DOMAIN box' : Whole(box'[i])
    BY <1>1 DEF PacketsWhole
  <2>3. QED
    BY <2>1, <2>2, <1>1, BytesStay
<1>3. CASE conn[last].ipd.conn
  <2> DEFINE rem == conn[last].ipd.rem
             h == conn[last].ipd.head
             n == CopyLen(rem)
             whole == Len(todo) >= rem
  <2>1. /\ bytes' = [bytes EXCEPT ![h] = @ \o [i \in 1..n |-> todo[i].pkt]]
        /\ todo' = SubSeq(todo, n + 1, Len(todo))
        /\ conn' = [conn EXCEPT ![last].ipd.rem = IF whole THEN 0 ELSE @ - Len(todo),
                                ![last].pbuf = IF whole THEN h ELSE @]
        /\ rpc' = IF whole THEN "callback" ELSE "parse"
    BY <1>1, <1>3 DEF RespCopy, CopyData, Completes
  <2>2. /\ conn[last] \in ConnType /\ conn[last].ipd \in IpdType /\ rem \in 0..MaxLen
        /\ MaxLen \in Nat /\ Sent \in Nat /\ Packets \subseteq Nat /\ Sent' = Sent
        /\ conn \in [Links -> ConnType] /\ left \in Nat
        /\ todo \in Seq(UnitType) /\ Len(todo) \in Nat
        /\ \A i \in DOMAIN todo : todo[i] \in UnitType
        /\ bytes \in [Packets -> Seq(Packets \cup {NoPkt})]
    <3>1. conn \in [Links -> ConnType]
      BY <1>1, PointerTypes
    <3>2. conn[last] \in ConnType /\ conn[last].ipd \in IpdType /\ rem \in 0..MaxLen
      BY <3>1, <1>1 DEF ConnType, IpdType
    <3>3. QED
      BY <3>1, <3>2, <1>1, PointerTypes DEF Sent, TypeOK
  <2>3. /\ Cur.conn /\ Cur.head = h /\ Cur.rem = rem
        /\ h \in Packets /\ h <= Sent /\ h \in Nat /\ (Coming => h < Sent)
    BY <1>1, <1>3, <2>2 DEF Cur, HandInv
  <2>4. n \in 0..Len(todo) /\ n <= rem /\ (whole <=> n = rem) /\ (~whole => n = Len(todo))
    BY <2>2 DEF CopyLen
  <2>5. /\ todo' \in Seq(UnitType) /\ Len(todo') = Len(todo) - n
        /\ \A i \in 1..Len(todo') : todo'[i] = todo[i + n]
    <3>1. \A i \in (n + 1)..Len(todo) : todo[i] \in UnitType
      BY <2>2, <2>4
    <3>2. n + 1 \in Int /\ Len(todo) \in Int
      BY <2>2, <2>4
    <3>3. /\ todo' \in Seq(UnitType)
          /\ Len(todo') = (IF n + 1 <= Len(todo) THEN Len(todo) - (n + 1) + 1 ELSE 0)
          /\ \A i \in 1..(Len(todo) - (n + 1) + 1) : todo'[i] = todo[n + 1 + i - 1]
      BY <3>1, <3>2, <2>1, SubSeqProperties
    <3>4. Len(todo') = Len(todo) - n /\ Len(todo) - (n + 1) + 1 = Len(todo) - n
      BY <3>3, <2>2, <2>4
    <3>5. \A i \in 1..(Len(todo) - n) : n + 1 + i - 1 = i + n
      BY <2>2, <2>4
    <3>6. QED
      BY <3>3, <3>4, <3>5
  <2>6. /\ \A l \in Links : conn'[l].cb = conn[l].cb
        /\ conn'[last].ipd.head = h /\ conn'[last].ipd.rem = rem - n
    <3> DEFINE r == IF whole THEN 0 ELSE rem - Len(todo)
               b == IF whole THEN h ELSE conn[last].pbuf
    <3>1. /\ conn' = [conn EXCEPT ![last] = conn'[last]]
          /\ conn'[last] = [conn[last] EXCEPT !.ipd = [conn[last].ipd EXCEPT !.rem = r],
                                              !.pbuf = b]
      BY <2>1, <2>2, <1>1 DEF ConnType, IpdType
    <3>2. r = rem - n
      BY <2>2, <2>4
    <3> HIDE DEF r, b
    <3>3. conn'[last].ipd = [conn[last].ipd EXCEPT !.rem = r] /\ conn'[last].cb = conn[last].cb
      BY <3>1, <2>2 DEF ConnType
    <3>4. conn'[last].ipd.head = h /\ conn'[last].ipd.rem = r
      BY <3>3, <2>2 DEF IpdType
    <3>5. QED
      BY <3>1, <3>2, <3>3, <3>4, <2>2, <1>1
  <2>7. \A p \in Packets : p # h => bytes'[p] = bytes[p]
    BY <2>1, <2>2
  <2>8. bytes'[h] = bytes[h] \o [i \in 1..n |-> todo[i].pkt]
    BY <2>1, <2>2, <2>3
  <2> HIDE DEF n, h, rem, whole
  <2>9. AheadInv'
    <3>1. Coming => bytes'[Sent] = bytes[Sent]
      <4>1. ASSUME Coming PROVE Sent \in Packets /\ Sent # h
        <5>1. Sent >= 1 /\ h < Sent /\ Sent <= NumPackets
          BY <4>1, <1>1, <2>3, PointerTypes DEF Coming, LinesInv
        <5>2. QED
          BY <5>1, <2>2, <2>3, NetAssumption DEF Packets
      <4>2. QED
        BY <4>1, <2>7
    <3>2. n \in Nat /\ n <= Len(todo)
      BY <2>2, <2>4
    <3>3. QED
      BY <3>1, <3>2, <1>1, <2>5, <2>6, AheadShift
  <2>10. UnsentInv'
    BY <1>1, <2>2, <2>3, <2>7 DEF UnsentInv
  <2>11. PacketsWhole'
    <3>1. ASSUME NEW i \in DOMAIN box PROVE Whole(box[i])'
      <4>1. box[i] < h /\ box[i] \in Packets /\ Whole(box[i])
        BY <3>1, <1>1, <2>3, PointerTypes DEF OrderInv, Before, PacketsWhole
      <4>2. box[i] # h
        BY <4>1, <2>2, <2>3
      <4>3. QED
        BY <4>1, <4>2, <2>2, <2>7, <1>1 DEF Whole
    <3>2. QED
      BY <3>1, <1>1 DEF PacketsWhole
  <2>12. GatherInv'
    <3>1. SUFFICES ASSUME conn[last].cb PROVE GatherInv'
      BY <1>1, <2>6 DEF GatherInv
    <3>2. /\ rem <= pkt[h].len
          /\ bytes[h] = [i \in 1..(pkt[h].len - rem) |-> h]
          /\ \A i \in DOMAIN todo : i <= rem => todo[i] = Byte(h)
          /\ Len(todo) <= rem => h = Sent /\ Len(todo) + left = rem
      BY <3>1, <1>1, <2>3 DEF GatherInv
    <3>3. pkt[h].len \in Int /\ pkt[h].len - rem \in Nat /\ n \in Nat /\ rem \in Nat
      <4>1. h \in 1..Sent /\ MaxLen \in Nat
        BY <2>2, <2>3, NetAssumption DEF Packets
      <4>2. pkt[h] \in [link : Links, len : 1..MaxLen]
        BY <4>1, <1>1, PointerTypes
      <4>3. QED
        BY <4>1, <4>2, <3>2, <2>2, <2>4
    <3>4. [i \in 1..n |-> todo[i].pkt] = [i \in 1..n |-> h]
      <4>1. \A i \in 1..n : i \in DOMAIN todo /\ i <= rem
        BY <2>2, <2>4, <3>3
      <4>2. \A i \in 1..n : todo[i].pkt = h
        BY <4>1, <3>2 DEF Byte
      <4>3. QED
        BY <4>2
    <3>5. bytes'[h] = [i \in 1..((pkt[h].len - rem) + n) |-> h]
      <4>1. h \in Packets \cup {NoPkt}
        BY <2>3
      <4>2. bytes'[h] = [i \in 1..(pkt[h].len - rem) |-> h] \o [i \in 1..n |-> h]
        BY <2>8, <3>2, <3>4
      <4>3. QED
        BY <4>1, <4>2, <3>3, ConstConcat
    <3>6. (pkt[h].len - rem) + n = pkt[h].len - (rem - n) /\ rem - n <= pkt[h].len
      BY <3>2, <3>3, <2>4
    <3>7. rpc' = "callback" => rem - n = 0
      BY <2>1, <2>4, <3>3
    <3>8. ASSUME rpc' # "callback"
          PROVE  /\ \A i \in DOMAIN todo' : i <= rem - n => todo'[i] = Byte(h)
                 /\ Len(todo') <= rem - n => h = Sent /\ Len(todo') + left = rem - n
      <4>1. ~whole /\ n = Len(todo) /\ Len(todo') = 0
        BY <3>8, <2>1, <2>2, <2>4, <2>5
      <4>2. DOMAIN todo' = {}
        BY <4>1, <2>5
      <4>3. Len(todo) <= rem
        BY <4>1, <2>4, <3>3
      <4>4. QED
        BY <4>1, <4>2, <4>3, <3>2, <3>3, <2>2
    <3>9. Cur'.head = h /\ Cur'.rem = rem - n
      BY <2>6, <1>1 DEF Cur
    <3>10. QED
      BY <3>5, <3>6, <3>7, <3>8, <3>9, <2>2, <1>1 DEF GatherInv
  <2>13. PutInv' /\ rpc' # "get"
    BY <2>1 DEF PutInv
  <2>14. QED
    BY <2>9, <2>10, <2>11, <2>12, <2>13 DEF ByteInv
<1>4. QED
  BY <1>2, <1>3

\* A chunk comes when the one before has been read.
LEMMA ByteGet ==
  ASSUME PointerInv, ByteInv, RespGet
  PROVE  ByteInv'
<1>1. /\ UNCHANGED <<conn, last, arg, box, bytes>>
      /\ rpc = "get" /\ rpc' = "start" /\ todo = << >>
      /\ TypeOK /\ HandInv /\ UnsentInv /\ GatherInv /\ PacketsWhole
  BY DEF RespGet, PointerInv, ByteInv
<1>2. /\ Sent \in Nat /\ Sent <= NumPackets /\ NumPackets \in Nat /\ MaxLen \in Nat
      /\ left \in Nat /\ left \in 0..MaxLen /\ Sent \in Packets \cup {NoPkt}
      /\ open \subseteq Links /\ Packets \subseteq Nat /\ Len(todo) = 0
      /\ pkt \in Seq([link : Links, len : 1..MaxLen]) /\ DOMAIN pkt = 1..Sent
  BY <1>1, PointerTypes DEF Packets, NoPkt, TypeOK, Sent
\* What is left of a packet in progress is the first thing in the chunk.
<1> DEFINE Goes(p) == p <= Sent' /\ pkt'[p] = pkt[p]
<1>3. /\ \A p \in 1..Sent : Goes(p)
      /\ Sent' \in Nat /\ Sent' >= Sent /\ AheadInv'
      /\ DOMAIN todo' = 1..Len(todo') /\ Len(todo') \in Nat
      /\ \A i \in DOMAIN todo' : i <= left => todo'[i] = Byte(Sent)
      /\ \/ Len(todo') > left
         \/ Sent' = Sent /\ left' = left - Len(todo') /\ Len(todo') <= left
  <2>1. CASE \E k \in 1..left : /\ todo' = Payload(Sent, k)
                                /\ left' = left - k
                                /\ UNCHANGED <<open, pkt>>
    <3>1. PICK k \in 1..left : /\ todo' = Payload(Sent, k)
                               /\ left' = left - k
                               /\ UNCHANGED <<open, pkt>>
      BY <2>1
    <3>2. /\ todo' \in Seq(UnitType) /\ Len(todo') = k /\ k \in Nat /\ k <= left
          /\ \A i \in 1..k : todo'[i] = Byte(Sent)
      BY <3>1, <1>2, PayloadSeq
    <3>3. Sent' = Sent
      BY <3>1 DEF Sent
    <3>4. AheadInv'
      BY <3>2 DEF AheadInv, Byte
    <3>5. QED
      BY <3>1, <3>2, <3>3, <3>4, <1>2
  <2>2. CASE BeginPacket(Payload(Sent, left))
    <3>1. PICK l \in open, len \in 1..MaxLen : \E k \in 0..len :
            /\ pkt' = Append(pkt, [link |-> l, len |-> len])
            /\ todo' = Payload(Sent, left) \o <<[kind |-> "hdr", link |-> l, pkt |-> Sent + 1]>>
                            \o Payload(Sent + 1, k)
            /\ left' = len - k
      BY <2>2, NetAssumption DEF BeginPacket
    <3>2. PICK k \in 0..len :
            /\ pkt' = Append(pkt, [link |-> l, len |-> len])
            /\ todo' = Payload(Sent, left) \o <<[kind |-> "hdr", link |-> l, pkt |-> Sent + 1]>>
                            \o Payload(Sent + 1, k)
            /\ left' = len - k
      BY <3>1
    <3> DEFINE u == [kind |-> "hdr", link |-> l, pkt |-> Sent + 1]
    <3>3. /\ l \in Links /\ Sent + 1 \in Packets /\ u \in UnitType /\ u.kind = "hdr"
          /\ len \in Nat /\ k \in Nat /\ k <= len
      BY <1>2, <2>2 DEF BeginPacket, Packets, UnitType
    <3> HIDE DEF u
    <3>4. PICK q \in Packets : q = Sent + 1
      BY <3>3
    <3>5. IsAcross(todo', Sent, left, u, q, k)
      <4>1. todo' = Across(Sent, left, u, q, k)
        BY <3>2, <3>4 DEF u, Across
      <4>2. QED
        BY <4>1, <3>3, <1>2, PayloadConcat
    <3>6. /\ todo' \in Seq(UnitType) /\ Len(todo') = left + 1 + k
          /\ \A i \in 1..left : todo'[i] = Byte(Sent)
          /\ todo'[left + 1] = u
          /\ \A i \in (left + 2)..(left + 1 + k) : todo'[i] = Byte(q)
      BY <3>5 DEF IsAcross
    <3>7. /\ Sent' = q /\ pkt'[q].len = len
          /\ \A p \in 1..Sent : pkt'[p] = pkt[p]
      <4>1. [link |-> l, len |-> len] \in [link : Links, len : 1..MaxLen]
        BY <3>3
      <4>2. /\ Len(pkt') = Len(pkt) + 1 /\ \A p \in 1..Len(pkt) : pkt'[p] = pkt[p]
            /\ pkt'[Len(pkt) + 1] = [link |-> l, len |-> len]
        BY <3>2, <1>2, <4>1, AppendProperties
      <4>3. QED
        BY <4>2, <3>4 DEF Sent
    <3>8. /\ \A i \in DOMAIN todo' : i < left + 1 => todo'[i] = Byte(Sent)
          /\ \A i \in DOMAIN todo' : i > left + 1 => todo'[i] = Byte(q)
          /\ \A i \in DOMAIN todo' : i \in Nat /\ i >= 1
      BY <3>3, <3>6, <1>2
    <3>9. AheadInv'
      <4>1. bytes'[Sent'] = << >>
        BY <3>4, <3>7, <1>1, <1>2 DEF UnsentInv
      <4>2. \A i \in DOMAIN todo' : todo'[i].kind = "hdr" => i = left + 1
        BY <3>8, <1>2 DEF Byte
      <4>3. \A i \in DOMAIN todo' : todo'[i].kind # "connect"
        <5>1. TAKE i \in DOMAIN todo'
        <5>2. CASE i = left + 1
          BY <5>2, <3>3, <3>6
        <5>3. CASE i # left + 1
          BY <5>3, <3>8, <1>2 DEF Byte
        <5>4. QED
          BY <5>2, <5>3
      <4>4. \A j \in DOMAIN todo' : j > left + 1 => todo'[j] = Byte(Sent')
        BY <3>7, <3>8
      <4>5. Len(todo') - (left + 1) + left' = pkt'[Sent'].len
        <5>1. Len(todo') = left + 1 + k /\ left' = len - k /\ pkt'[Sent'].len = len
          BY <3>2, <3>6, <3>7
        <5>2. left \in Int /\ k \in Int /\ len \in Int
          BY <3>3, <1>2
        <5>3. QED
          BY <5>1, <5>2
      <4>6. QED
        BY <4>1, <4>2, <4>3, <4>4, <4>5 DEF AheadInv
    <3>10. Len(todo') > left /\ Sent' >= Sent /\ Sent' \in Nat
      BY <3>3, <3>4, <3>6, <3>7, <1>2
    <3>11. \A i \in DOMAIN todo' : i <= left => todo'[i] = Byte(Sent)
      BY <3>8, <1>2
    <3>12. QED
      BY <3>6, <3>7, <3>9, <3>10, <3>11, <1>2
  <2>3. CASE SendLine(Payload(Sent, left))
    <3>1. PICK k \in {"text", "closed", "connect"}, l \in Links \cup {NoLink} :
            todo' = Append(Payload(Sent, left), Line(k, l))
      BY <2>3, <1>2 DEF SendLine
    <3>2. UNCHANGED pkt /\ Sent' = Sent
      BY <2>3 DEF SendLine, Sent
    <3> DEFINE u == Line(k, l)
    <3>3. u \in UnitType /\ u.kind # "hdr"
      BY DEF Line, UnitType
    <3> HIDE DEF u
    <3>4. /\ todo' \in Seq(UnitType) /\ Len(todo') = left + 1
          /\ \A i \in 1..left : todo'[i] = Byte(Sent)
          /\ todo'[left + 1] = u
      <4>1. todo' = Append(Payload(Sent, left), u)
        BY <3>1 DEF u
      <4>2. Sent \in Packets \cup {NoPkt} /\ left \in Nat
        BY <1>2
      <4>3. QED
        BY <4>1, <4>2, <3>3, PayloadAppend
    <3>5. AheadInv'
      <4>1. \A i \in DOMAIN todo' : i \in 1..left \/ i = left + 1
        BY <3>4, <1>2
      <4>2. \A i \in DOMAIN todo' : todo'[i].kind # "hdr"
        BY <4>1, <3>3, <3>4 DEF Byte
      <4>3. QED
        BY <4>2 DEF AheadInv
    <3>6. Len(todo') > left /\ \A i \in DOMAIN todo' : i <= left => todo'[i] = Byte(Sent)
      BY <3>4, <1>2
    <3>7. QED
      BY <3>2, <3>4, <3>5, <3>6, <1>2
  <2>4. QED
    BY <2>1, <2>2, <2>3 DEF RespGet
<1> HIDE DEF Goes
<1>4. UnsentInv'
  BY <1>1, <1>2, <1>3 DEF UnsentInv
<1>5. PacketsWhole'
  <2>1. ASSUME NEW i \in DOMAIN box PROVE Whole(box[i])'
    <3>1. Whole(box[i]) /\ box[i] \in Packets
      BY <2>1, <1>1, PointerTypes DEF PacketsWhole
    <3>2. box[i] \in 1..Sent
      BY <3>1, <1>2 DEF Whole, Packets
    <3>3. Goes(box[i])
      BY <3>2, <1>3
    <3>4. QED
      BY <3>1, <3>3, <1>1 DEF Whole, Goes
  <2>2. QED
    BY <2>1, <1>1 DEF PacketsWhole
<1>6. GatherInv'
  <2>1. SUFFICES ASSUME last # NoLink, Cur.conn, conn[last].cb PROVE GatherInv'
    BY <1>1 DEF GatherInv, Cur
  <2>2. /\ Cur.rem <= pkt[Cur.head].len
        /\ bytes[Cur.head] = [i \in 1..(pkt[Cur.head].len - Cur.rem) |-> Cur.head]
        /\ Cur.head \in Packets /\ Cur.head <= Sent
        /\ Len(todo) <= Cur.rem => Cur.head = Sent /\ Len(todo) + left = Cur.rem
    BY <2>1, <1>1 DEF GatherInv, HandInv
  <2>3. Cur.rem \in Nat
    <3>1. last \in Links /\ conn \in [Links -> ConnType]
      BY <2>1, <1>1, PointerTypes DEF TypeOK
    <3>2. QED
      BY <3>1, <1>2 DEF Cur, ConnType, IpdType
  <2>4. Cur.head = Sent /\ Cur.rem = left
    BY <2>2, <2>3, <1>2
  <2>5. Goes(Cur.head)
    <3>1. Cur.head \in 1..Sent
      BY <2>2, <1>2 DEF Packets
    <3>2. QED
      BY <3>1, <1>3
  <2>6. Len(todo') <= left => Cur.head = Sent' /\ Len(todo') + left' = left
    BY <2>4, <1>2, <1>3
  <2>7. Cur' = Cur
    BY <1>1 DEF Cur
  <2>8. QED
    BY <2>2, <2>4, <2>5, <2>6, <2>7, <1>1, <1>3 DEF GatherInv, Goes
<1>7. QED
  BY <1>1, <1>3, <1>4, <1>5, <1>6 DEF ByteInv, PutInv

LEMMA ByteInit == Init => ByteInv
<1> SUFFICES ASSUME Init PROVE ByteInv
  OBVIOUS
<1>1. Sent = 0
  BY DEF Init, Sent
<1>2. QED
  BY <1>1 DEF Init, ByteInv, AheadInv, UnsentInv, GatherInv, PutInv, PacketsWhole

LEMMA ByteNext ==
  ASSUME PointerInv, ByteInv, [Next]_vars
  PROVE  ByteInv'
<1>1. CASE RespGet
  BY <1>1, ByteGet
<1>2. CASE RespStep
  BY <1>2, ByteIdle, ByteLine, ByteCopy, ByteCallback, BytePut, ByteReset DEF RespStep
<1>3. CASE ReqStep
  BY <1>3, ByteIdle
<1>4. CASE ReqReset
  BY <1>4, ByteZero
<1>5. CASE AppStep \/ AppDelete
  BY <1>5, ByteTake, ByteIdle, ByteZero DEF AppStep
<1>6. CASE UNCHANGED vars
  BY <1>6, ByteIdle
<1>7. QED
  BY <1>1, <1>2, <1>3, <1>4, <1>5, <1>6 DEF Next

-----------------------------------------------------------------------------
(* The pointers of a step.                                                 *)

LEMMA PtrInit == Init => PointerInv
<1> SUFFICES ASSUME Init PROVE PointerInv
  OBVIOUS
<1>1. /\ TypeOK /\ Sent = 0 /\ NcPbuf = 0 /\ todo = << >> /\ taken = << >> /\ box = << >>
      /\ last = NoLink /\ rpc = "get" /\ lock = "free" /\ held = NoPkt /\ cpc = "grab"
      /\ req = "none" /\ nc = "live"
      /\ \A p \in Packets : mem[p] = "none"
      /\ \A l \in Links : ~conn[l].cb
  BY NetInit, NetAssumption DEF Init, NetInv, Sent, NcPbuf, ZeroConn, NoPkt
<1>2. LinesInv /\ HandInv /\ HarmInv /\ HeldInv
  BY <1>1 DEF LinesInv, HandInv, HarmInv, HeldInv
<1>3. OrderInv /\ PbufInv
  BY <1>1 DEF OrderInv, PbufInv, Before, Coming
<1>4. OwnSafe
  BY <1>1 DEF OwnSafe, OwnInv, NoPkt
<1>5. QED
  BY <1>1, <1>2, <1>3, <1>4 DEF PointerInv

LEMMA PtrNext ==
  ASSUME PointerInv, [Next]_vars
  PROVE  PointerInv'
<1>1. CASE RespGet
  BY <1>1, PtrRespGet
<1>2. CASE RespStep
  BY <1>2, PtrRespLock, PtrRespLine, PtrRespSetup, PtrRespCopy, PtrRespCallback,
     PtrRespPut, PtrRespReset DEF RespStep
<1>3. CASE ReqStep
  BY <1>3, PtrReqStep
<1>4. CASE ReqReset
  BY <1>4, PtrReqReset
<1>5. CASE AppStep \/ AppDelete
  BY <1>5, PtrAppGrab, PtrReqStep, PtrAppFree, PtrAppDelete, PtrAppZero, PtrAppFlush,
     PtrAppDeleted DEF AppStep
<1>6. CASE UNCHANGED vars
  <2>1. /\ UNCHANGED <<lock, conn, last, rpc, todo, arg, box, nc, mem, bytes, cpc, held,
                       req, open, pkt, left, resets, taken, harm>>
        /\ TypeOK /\ LinesInv /\ HandInv /\ HarmInv /\ OrderInv /\ HeldInv /\ PbufInv
        /\ OwnSafe
    BY <1>6 DEF vars, appVars, devVars, histVars, PointerInv
  <2>2. LinesInv' /\ HandInv' /\ PbufInv' /\ NcPbuf' = NcPbuf /\ Sent' = Sent
    BY <2>1, HandsKept
  <2>3. OrderInv'
    BY <2>1, OrderKept
  <2>4. TypeOK'
    BY <2>1, <2>2 DEF TypeOK
  <2>5. HarmInv' /\ HeldInv'
    BY <2>1 DEF HarmInv, HeldInv, Cur
  <2>6. OwnSafe'
    BY <2>1, <2>2 DEF OwnSafe, OwnInv, Cur, Deleting
  <2>7. QED
    BY <2>2, <2>3, <2>4, <2>5, <2>6 DEF PointerInv
<1>7. QED
  BY <1>1, <1>2, <1>3, <1>4, <1>5, <1>6 DEF Next

\* What has been harmed stays so.
LEMMA HarmGrows ==
  ASSUME [Next]_vars
  PROVE  harm \subseteq harm'
<1>1. CASE RespGet \/ RespStep
  BY <1>1 DEF RespGet, RespStep, RespLock, RespConnect, RespClosed, RespSetup, RespText,
     RespCopy, RespCallback, RespPut, RespReset, RespUnlock, histVars
<1>2. CASE ReqStep \/ ReqReset
  BY <1>2 DEF ReqStep, ReqSend, ReqComplete, ReqReset, histVars
<1>3. CASE AppStep \/ AppDelete
  BY <1>3 DEF AppStep, AppGrab, AppReply, AppFree, AppDelete, AppZero, AppFlush,
     AppDeleted, histVars
<1>4. CASE UNCHANGED vars
  BY <1>4 DEF vars, histVars
<1>5. QED
  BY <1>1, <1>2, <1>3, <1>4 DEF Next

-----------------------------------------------------------------------------
(* The theorems.                                                           *)

LEMMA NetNext ==
  ASSUME NetInv, [Next]_vars, "between" \notin harm'
  PROVE  NetInv'
<1>1. CASE RespGet
  BY <1>1, NetRespGet
<1>2. CASE RespStep
  BY <1>2, NetRespLock, NetRespStatus, NetRespSetup, NetRespText, NetRespCopy,
     NetRespCallback, NetRespPut, NetRespReset DEF RespStep
<1>3. CASE ReqStep
  BY <1>3, NetReqStep
<1>4. CASE ReqReset
  BY <1>4, NetReqReset
<1>5. CASE AppStep \/ AppDelete
  BY <1>5, NetAppGrab, NetAppReply, NetAppFree, NetAppFlush, NetAppDelete DEF AppStep
<1>6. CASE UNCHANGED vars
  <2>1. /\ UNCHANGED <<lock, conn, last, rpc, todo, arg, box, nc, mem, bytes, cpc, held,
                       req, open, pkt, left, resets, taken, harm>>
        /\ TypeOK /\ ChunkInv /\ ConnInv /\ CurInv /\ QueueInv /\ ChainInv
    BY <1>6 DEF vars, appVars, devVars, histVars, NetInv
  <2>2. /\ ChunkInv' /\ CurInv' /\ Arrived' = Arrived /\ CurPkt' = CurPkt /\ Sent' = Sent
        /\ \A p \in Packets : bytes'[p] = [i \in 1..Got(p)' |-> p]
    BY <2>1, NetKept
  <2>3. TypeOK' /\ ConnInv'
    BY <2>1, <2>2, ConnKept DEF TypeOK, ConnInv, Deleting
  <2>4. QueueInv'
    BY <2>1, <2>2 DEF QueueInv
  <2>5. ChainInv'
    BY <2>1, <2>2 DEF ChainInv
  <2>6. QED
    BY <2>2, <2>3, <2>4, <2>5 DEF NetInv
<1>7. QED
  BY <1>1, <1>2, <1>3, <1>4, <1>5, <1>6 DEF Next

\* No reset and no deletion has come between the parts of what the device sends.
Unbroken == "between" \notin harm

\* Where every packet and every pointer is at any time, whatever resets and the
\* deletion of the netconn do; and, until one of them comes in between, where every
\* byte is: the chunk being read, the IPD object in use, the chains and the mailbox
\* agree with what the device has sent (esp_parser.c:521-618, esp_conn.c:385-399).
THEOREM NetCorrect == Spec => [](PointerInv /\ ByteInv /\ (Unbroken => NetInv))
<1> DEFINE Inv == PointerInv /\ ByteInv /\ (Unbroken => NetInv)
<1>1. Init => Inv
  BY PtrInit, ByteInit, NetInit
<1>2. Inv /\ [Next]_vars => Inv'
  <2> SUFFICES ASSUME Inv, [Next]_vars PROVE Inv'
    OBVIOUS
  <2>1. PointerInv' /\ ByteInv'
    BY PtrNext, ByteNext
  <2>2. ASSUME Unbroken' PROVE NetInv'
    <3>1. "between" \notin harm' /\ Unbroken
      BY <2>2, HarmGrows DEF Unbroken
    <3>2. QED
      BY <3>1, NetNext
  <2>3. QED
    BY <2>1, <2>2
<1>3. QED
  BY <1>1, <1>2, PTL DEF Spec

\* Every variable has its type and the receive mailbox keeps to its slots
\* (esp_conn.c:390).
THEOREM NetTypeCorrect == Spec => []TypeOK
<1>1. PointerInv => TypeOK
  BY DEF PointerInv
<1>2. QED
  BY NetCorrect, <1>1, PTL

\* The response thread follows a NULL or deleted object only when the connection whose
\* packet it reads was zeroed, by a reset or by eESPnetconnDelete, or when another
\* connection has the callback of a netconn that was deleted (esp_recv_buf.c:76-90).
THEOREM NoCrashCorrect == Spec => []NoCrash
<1>1. PointerInv => NoCrash
  BY DEF PointerInv, HarmInv, NoCrash, NeverDead
<1>2. QED
  BY NetCorrect, <1>1, PTL

\* A packet is freed once, and never while the mailbox or the application has it,
\* unless the netconn was deleted while its own connection was open; resets, other
\* connections and packets in progress do not matter (esp_conn.c:132-150).
THEOREM NoDoubleFreeCorrect == Spec => []NoDoubleFree
<1>1. PointerInv => NoDoubleFree
  BY DEF PointerInv, OwnSafe, OwnInv, NoDoubleFree, FreedOnce
<1>2. QED
  BY NetCorrect, <1>1, PTL

\* The application gets packets in the order of the device whatever resets and the
\* deletion leave out, and all of them until one comes in between (esp_conn.c:385-399).
THEOREM InOrderCorrect == Spec => []InOrder
<1>1. PointerInv /\ (Unbroken => NetInv) => InOrder
  <2> SUFFICES ASSUME PointerInv, Unbroken => NetInv PROVE InOrder
    OBVIOUS
  <2>1. /\ taken \in Seq(Packets) /\ box \in Seq(Packets)
        /\ Len(taken) \in Nat /\ Len(box) \in Nat
        /\ DOMAIN taken = 1..Len(taken) /\ DOMAIN box = 1..Len(box)
    BY PointerTypes DEF PointerInv
  <2> DEFINE seen == taken \o box
  <2>3. /\ DOMAIN seen = 1..(Len(taken) + Len(box))
        /\ \A i \in 1..(Len(taken) + Len(box)) :
             seen[i] = IF i <= Len(taken) THEN taken[i] ELSE box[i - Len(taken)]
    BY <2>1, ConcatProperties, LenProperties
  <2> HIDE DEF seen
  <2>4. \A i, j \in DOMAIN seen : i < j => seen[i] < seen[j]
    <3>1. SUFFICES ASSUME NEW i \in DOMAIN seen, NEW j \in DOMAIN seen, i < j
                   PROVE  seen[i] < seen[j]
      OBVIOUS
    <3>2. OrderInv /\ i \in Nat /\ j \in Nat /\ i >= 1 /\ j >= 1
      BY <2>1, <2>3 DEF PointerInv
    <3>3. CASE j <= Len(taken)
      <4>1. i \in DOMAIN taken /\ j \in DOMAIN taken
            /\ seen[i] = taken[i] /\ seen[j] = taken[j]
        BY <3>1, <3>2, <3>3, <2>1, <2>3
      <4>2. QED
        BY <3>1, <3>2, <4>1 DEF OrderInv
    <3>4. CASE i <= Len(taken) /\ ~(j <= Len(taken))
      <4>1. i \in DOMAIN taken /\ j - Len(taken) \in DOMAIN box
            /\ seen[i] = taken[i] /\ seen[j] = box[j - Len(taken)]
        BY <3>1, <3>2, <3>4, <2>1, <2>3
      <4>2. QED
        BY <3>2, <4>1 DEF OrderInv
    <3>5. CASE ~(i <= Len(taken))
      <4>1. i - Len(taken) \in DOMAIN box /\ j - Len(taken) \in DOMAIN box
            /\ i - Len(taken) < j - Len(taken)
            /\ seen[i] = box[i - Len(taken)] /\ seen[j] = box[j - Len(taken)]
        BY <3>1, <3>2, <3>5, <2>1, <2>3
      <4>2. QED
        BY <3>2, <4>1 DEF OrderInv
    <3>6. QED
      BY <3>2, <3>3, <3>4, <3>5, <2>1
  <2>5. ASSUME Unbroken, NEW i \in DOMAIN seen PROVE seen[i] = i
    <3>1. /\ \A k \in 1..Len(taken) : taken[k] = k
          /\ \A k \in 1..Len(box) : box[k] = Len(taken) + k
      BY <2>1, <2>5 DEF NetInv, QueueInv
    <3>2. CASE i <= Len(taken)
      BY <2>5, <3>1, <3>2, <2>1, <2>3
    <3>3. CASE ~(i <= Len(taken))
      <4>1. i - Len(taken) \in 1..Len(box) /\ i \in Int
        BY <2>5, <3>3, <2>1, <2>3
      <4>2. box[i - Len(taken)] = Len(taken) + (i - Len(taken))
        BY <4>1, <3>1
      <4>3. QED
        BY <2>5, <3>3, <4>1, <4>2, <2>1, <2>3
    <3>4. QED
      BY <3>2, <3>3
  <2>6. QED
    BY <2>4, <2>5 DEF InOrder, seen, Unbroken
<1>2. QED
  BY NetCorrect, <1>1, PTL

\* A packet in the mailbox is whole: all its bytes in one chain, and no others, whatever
\* the cut of the chunks, and whatever resets and the deletion do (esp_parser.c:562-599).
THEOREM PacketsWholeCorrect == Spec => []PacketsWhole
<1>1. ByteInv => PacketsWhole
  BY DEF ByteInv
<1>2. QED
  BY NetCorrect, <1>1, PTL
=============================================================================
