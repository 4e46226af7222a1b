-------------------------- MODULE ConnTableProofs ---------------------------
(***************************************************************************)
(* Proofs about the table of connections, for any number of connections,   *)
(* applications and remote clients: types; and, as long as no command is   *)
(* carried out after its timeout, that the table, the callbacks and        *)
(* evt_server come to agree with the device.                               *)
(***************************************************************************)
EXTENDS ConnTable, SequenceTheorems, TLAPS

-----------------------------------------------------------------------------
(* The inductive invariants.                                               *)

Lines  == [kind : {"up", "down", "status", "entry", "ok", "err"}, link : Links,
           own : Owners]
Inputs == [cmd : CmdKinds, app : Apps, slot : Links]

\* An answer ends with one of these; the OK of two commands sets evt_server.
Ends(e)     == e.kind \in {"ok", "err"}
Turns(e, k) == e.kind = "ok" /\ k \in {"serve", "unserve"}

\* The device has at most the command in progress in its hands; what is on the
\* wire of an answer is its answer, is not parsed to the end, and has one end.
CmdInv ==
  /\ cur = NoCmd => ~heard /\ inbox = <<>>
  /\ inbox # <<>> => ~heard /\ Len(inbox) = 1
                     /\ inbox[1].cmd = cur.cmd /\ inbox[1].app = cur.app
  /\ \A i \in DOMAIN wire : Ends(wire[i]) =>
       /\ cur # NoCmd /\ ~heard /\ inbox = <<>>
       /\ \A j \in DOMAIN wire : Ends(wire[j]) => i = j

\* Line e is sent in the answer to cur only.
Answers(e) == e.kind \in {"status", "entry"} \/ (e.kind = "up" /\ e.own # Server)
IsToCur(e) == IF e.kind = "up" THEN cur.cmd = "start" /\ cur.app = e.own
                               ELSE cur.cmd = "status"
AnswerInv ==
  \A i \in DOMAIN wire : Answers(wire[i]) =>
    /\ IsToCur(wire[i])
    /\ \E j \in DOMAIN wire : i < j /\ Ends(wire[j])

\* evt_server is behind the device only by an OK that is on the wire, and a
\* client of the server meets the evt_server under which it was let in.
Turned(w, k, n) == \E j \in DOMAIN w : j < n /\ Turns(w[j], k)
ServeInv ==
  /\ IF Turned(wire, cur.cmd, Len(wire) + 1) THEN serving <=> cur.cmd = "serve"
                                             ELSE serving <=> evt = Server
  /\ \A i \in DOMAIN wire : wire[i].kind = "up" /\ wire[i].own = Server =>
       IF Turned(wire, cur.cmd, i) THEN cur.cmd = "serve" ELSE evt = Server

\* The lines that say whether connection l is open, those that say whose it is,
\* and those that set its bit: a STATUS line clears them all.
Of(K, l) == {e \in Lines : e.kind \in K /\ e.link = l}
FlagLines(l) == Of({"up", "down"}, l)
PartLines(l) == Of({"up", "down", "entry"}, l)
BitLines(l)  == PartLines(l) \cup {e \in Lines : e.kind = "status"}
SetsOf(l)    == {FlagLines(l), PartLines(l), BitLines(l)}

\* The lines that are right about a connection that belongs to o, or is closed.
Right(o) == {e \in Lines : IF o = Closed THEN e.kind \notin {"up", "entry"}
                           ELSE e.kind \in {"up", "entry"} /\ e.own = o}

\* None of the lines of T is in w; or the last of them in w is good.
Untouched(w, T) == \A i \in DOMAIN w : w[i] \notin T
LastGood(w, T, Good) ==
  \A i \in DOMAIN w :
    w[i] \in T /\ (\A j \in DOMAIN w : i < j => w[j] \notin T) => w[i] \in Good

WireInv == \A l \in Links : \A T \in SetsOf(l) : LastGood(wire, T, Right(link[l]))

\* What no line on the wire will set is as the device has it.
IsOpen(l)    == link[l] # Closed
ActiveInv(l) == Untouched(wire, FlagLines(l)) => (conn[l].active <=> IsOpen(l))
BitInv(l)    == Untouched(wire, BitLines(l)) => (l \in bits <=> IsOpen(l))
CbInv(l)     == Untouched(wire, FlagLines(l)) /\ conn[l].active
                  => IsOpen(l) /\ conn[l].cb = link[l]
ClientInv(l) == Untouched(wire, PartLines(l)) /\ conn[l].active
                  => (conn[l].client <=> link[l] \in Apps)

OrderInv == TypeOK /\ CmdInv /\ AnswerInv
TableInv == \A l \in Links : ActiveInv(l) /\ BitInv(l)
RoleInv  == \A l \in Links : CbInv(l) /\ ClientInv(l)

-----------------------------------------------------------------------------
(* Sequences of lines.                                                     *)

LEMMA OneLine ==
  ASSUME NEW e \in Lines
  PROVE  <<e>> \in Seq(Lines) /\ Len(<<e>>) = 1 /\ DOMAIN <<e>> = 1..1 /\ <<e>>[1] = e
  OBVIOUS

LEMMA TwoLines ==
  ASSUME NEW e \in Lines, NEW f \in Lines
  PROVE  /\ <<e, f>> \in Seq(Lines) /\ Len(<<e, f>>) = 2 /\ DOMAIN <<e, f>> = 1..2
         /\ <<e, f>>[1] = e /\ <<e, f>>[2] = f
  OBVIOUS

\* Lines w on the wire, and then s.
LEMMA Said ==
  ASSUME NEW w \in Seq(Lines), NEW s \in Seq(Lines)
  PROVE  /\ w \o s \in Seq(Lines) /\ Len(w \o s) = Len(w) + Len(s)
         /\ Len(w) \in Nat /\ Len(s) \in Nat
         /\ DOMAIN w = 1..Len(w) /\ DOMAIN s = 1..Len(s)
         /\ DOMAIN (w \o s) = 1..(Len(w) + Len(s))
         /\ \A i \in 1..Len(w) : (w \o s)[i] = w[i]
         /\ \A i \in 1..Len(s) : (w \o s)[Len(w) + i] = s[i]
         /\ \A i \in 1..(Len(w) + Len(s)) : i \notin 1..Len(w) =>
              i - Len(w) \in 1..Len(s) /\ (w \o s)[i] = s[i - Len(w)]
<1>1. /\ w \o s \in Seq(Lines) /\ Len(w \o s) = Len(w) + Len(s)
      /\ \A i \in 1..(Len(w) + Len(s)) :
           (w \o s)[i] = IF i <= Len(w) THEN w[i] ELSE s[i - Len(w)]
  BY ConcatProperties
<1>2. /\ Len(w) \in Nat /\ Len(s) \in Nat /\ DOMAIN w = 1..Len(w) /\ DOMAIN s = 1..Len(s)
      /\ DOMAIN (w \o s) = 1..(Len(w) + Len(s))
  BY <1>1, LenProperties
<1>3. \A i \in 1..Len(w) : (w \o s)[i] = w[i]
  BY <1>1, <1>2
<1>4. ASSUME NEW i \in 1..Len(s) PROVE (w \o s)[Len(w) + i] = s[i]
  <2>1. Len(w) + i \in 1..(Len(w) + Len(s)) /\ ~(Len(w) + i <= Len(w))
        /\ (Len(w) + i) - Len(w) = i
    BY <1>2
  <2>2. QED
    BY <1>1, <2>1
<1>5. ASSUME NEW i \in 1..(Len(w) + Len(s)), i \notin 1..Len(w)
      PROVE  i - Len(w) \in 1..Len(s) /\ (w \o s)[i] = s[i - Len(w)]
  <2>1. i - Len(w) \in 1..Len(s) /\ ~(i <= Len(w))
    BY <1>2, <1>5
  <2>2. QED
    BY <1>1, <2>1
<1>6. QED
  BY <1>1, <1>2, <1>3, <1>4, <1>5

LEMMA Parsed ==
  ASSUME NEW w \in Seq(Lines), w # <<>>
  PROVE  /\ Head(w) = w[1] /\ Head(w) \in Lines /\ Tail(w) \in Seq(Lines)
         /\ Len(w) \in Nat /\ Len(w) >= 1 /\ Len(Tail(w)) = Len(w) - 1
         /\ DOMAIN w = 1..Len(w) /\ DOMAIN Tail(w) = 1..(Len(w) - 1)
         /\ \A i \in 1..(Len(w) - 1) : i + 1 \in 1..Len(w) /\ Tail(w)[i] = w[i + 1]
         /\ \A i \in 1..Len(w) : i # 1 =>
              i - 1 \in 1..(Len(w) - 1) /\ Tail(w)[i - 1] = w[i]
<1>1. /\ Head(w) \in Lines /\ Tail(w) \in Seq(Lines) /\ Len(Tail(w)) = Len(w) - 1
      /\ \A i \in 1..Len(Tail(w)) : Tail(w)[i] = w[i + 1]
  BY HeadTailProperties
<1>2. Len(w) \in Nat /\ Len(w) >= 1 /\ DOMAIN w = 1..Len(w)
      /\ DOMAIN Tail(w) = 1..(Len(w) - 1)
  BY <1>1, LenProperties, EmptySeq
<1>3. Head(w) = w[1]
  OBVIOUS
<1>4. \A i \in 1..(Len(w) - 1) : i + 1 \in 1..Len(w) /\ Tail(w)[i] = w[i + 1]
  BY <1>1, <1>2
<1>5. ASSUME NEW i \in 1..Len(w), i # 1
      PROVE  i - 1 \in 1..(Len(w) - 1) /\ Tail(w)[i - 1] = w[i]
  <2>1. i - 1 \in 1..(Len(w) - 1) /\ (i - 1) + 1 = i
    BY <1>2, <1>5
  <2>2. QED
    BY <1>4, <2>1
<1>6. QED
  BY <1>1, <1>2, <1>3, <1>4, <1>5

\* The lines of an answer and what they list.
LEMMA LineTypes ==
  /\ \A r \in {"ok", "err"} : End(r) \in Lines /\ End(r).kind = r
  /\ \A k \in {"up", "down", "status", "entry"}, l \in Links, o \in Owners :
       /\ Line(k, l, o) \in Lines
       /\ Line(k, l, o).kind = k /\ Line(k, l, o).link = l /\ Line(k, l, o).own = o
  /\ 0 \in Links /\ Server \in Owners /\ Server \notin Apps /\ Closed \notin Owners
  BY ConnAssumption DEF End, Line, Lines, Links, Owners

IsListing(w) ==
  /\ w \in Seq(Lines) /\ Len(w) \in Nat /\ Len(w) >= 2 /\ DOMAIN w = 1..Len(w)
  /\ w[1].kind = "status" /\ w[Len(w)].kind = "ok"
  /\ \A i \in 1..Len(w) : i # 1 /\ i # Len(w) =>
       w[i].kind = "entry" /\ w[i].link \in Open /\ w[i].own = link[w[i].link]
  /\ \A l \in Open : \E i \in 1..Len(w) : i # 1 /\ i # Len(w) /\ w[i].link = l

LEMMA ListingLines ==
  ASSUME link \in [Links -> Owners \cup {Closed}], NEW s \in Listings,
         NEW w, w = <<Line("status", 0, Server)>> \o Entries(s) \o <<End("ok")>>
  PROVE  IsListing(w)
<1> DEFINE a == <<Line("status", 0, Server)>>
           b == Entries(s)
           c == <<End("ok")>>
<1>1. PICK n \in 0..MaxConns : s \in [1..n -> Open]
  BY DEF Listings
<1>2. n \in Nat
  BY ConnAssumption
<1>3. ASSUME NEW l \in Open PROVE l \in Links /\ link[l] \in Owners
  BY <1>3 DEF Open
<1>4. b = [i \in 1..n |-> Line("entry", s[i], link[s[i]])]
  BY <1>1 DEF Entries
<1>5. \A i \in 1..n : s[i] \in Open /\ b[i] = Line("entry", s[i], link[s[i]]) /\ b[i] \in Lines
  BY <1>1, <1>3, <1>4, LineTypes
<1>6. b \in Seq(Lines) /\ Len(b) = n
  <2>1. b \in [1..n -> Lines]
    BY <1>4, <1>5
  <2>2. QED
    BY <1>2, <2>1, SeqDef, LenProperties
<1>7. \A i \in 1..n : b[i].kind = "entry" /\ b[i].link = s[i] /\ b[i].own = link[s[i]]
  BY <1>3, <1>5, LineTypes
<1>8. /\ a \in Seq(Lines) /\ Len(a) = 1 /\ a[1] = Line("status", 0, Server)
      /\ c \in Seq(Lines) /\ Len(c) = 1 /\ c[1] = End("ok")
  BY OneLine, LineTypes
<1> HIDE DEF a, b, c
<1>9. /\ a \o b \in Seq(Lines) /\ Len(a \o b) = 1 + n
      /\ (a \o b)[1] = a[1] /\ \A i \in 1..n : (a \o b)[1 + i] = b[i]
  <2>1. /\ a \o b \in Seq(Lines) /\ Len(a \o b) = Len(a) + Len(b)
        /\ \A i \in 1..Len(a) : (a \o b)[i] = a[i]
        /\ \A i \in 1..Len(b) : (a \o b)[Len(a) + i] = b[i]
    BY <1>6, <1>8, Said
  <2>2. Len(a) = 1 /\ Len(b) = n /\ 1 \in 1..1
    BY <1>6, <1>8
  <2>3. QED
    BY <2>1, <2>2
<1> DEFINE ab == a \o b
<1>10. ab \o c = w
  BY DEF a, b, c, ab
<1> HIDE DEF ab
<1>11. /\ w \in Seq(Lines) /\ Len(w) = 2 + n /\ DOMAIN w = 1..Len(w)
       /\ \A i \in 1..(1 + n) : w[i] = ab[i]
       /\ w[2 + n] = c[1]
  <2>1. ab \in Seq(Lines) /\ Len(ab) = 1 + n
    BY <1>9 DEF ab
  <2>2. /\ w \in Seq(Lines) /\ Len(w) = (1 + n) + 1 /\ DOMAIN w = 1..((1 + n) + 1)
        /\ \A i \in 1..(1 + n) : w[i] = ab[i]
        /\ w[(1 + n) + 1] = c[1]
    <3>1. /\ ab \o c \in Seq(Lines) /\ Len(ab \o c) = Len(ab) + Len(c)
          /\ DOMAIN (ab \o c) = 1..(Len(ab) + Len(c))
          /\ \A i \in 1..Len(ab) : (ab \o c)[i] = ab[i]
          /\ \A i \in 1..Len(c) : (ab \o c)[Len(ab) + i] = c[i]
      BY <1>8, <2>1, Said
    <3>2. Len(ab) = 1 + n /\ Len(c) = 1 /\ 1 \in 1..1
      BY <1>8, <2>1
    <3>3. QED
      BY <1>10, <3>1, <3>2
  <2>3. QED
    BY <1>2, <2>2
<1>12. w[1] = a[1] /\ \A i \in 1..n : w[1 + i] = b[i]
  <2>1. 1 \in 1..(1 + n) /\ \A i \in 1..n : 1 + i \in 1..(1 + n)
    BY <1>2
  <2>2. QED
    BY <1>9, <1>11, <2>1 DEF ab
<1>13. ASSUME NEW i \in 1..Len(w), i # 1, i # Len(w)
       PROVE  w[i].kind = "entry" /\ w[i].link \in Open /\ w[i].own = link[w[i].link]
  <2>1. i - 1 \in 1..n /\ 1 + (i - 1) = i
    BY <1>2, <1>11, <1>13
  <2>2. w[i] = b[i - 1]
    BY <1>12, <2>1
  <2>3. QED
    BY <1>5, <1>7, <2>1, <2>2
<1>14. ASSUME NEW l \in Open
       PROVE  \E i \in 1..Len(w) : i # 1 /\ i # Len(w) /\ w[i].link = l
  <2>1. PICK i \in 1..n : s[i] = l
    BY <1>1, <1>14 DEF Listings
  <2>2. 1 + i \in 1..Len(w) /\ 1 + i # 1 /\ 1 + i # Len(w)
    BY <1>2, <1>11
  <2>3. w[1 + i].link = l
    BY <1>7, <1>12, <2>1
  <2>4. QED
    BY <2>2, <2>3
<1>15. Len(w) \in Nat /\ Len(w) >= 2 /\ w[Len(w)] = c[1]
  <2>1. Len(w) = 2 + n /\ w[2 + n] = c[1]
    BY <1>11
  <2>2. QED
    BY <1>2, <2>1
<1>16. w[1].kind = "status" /\ w[Len(w)].kind = "ok"
  <2>1. w[1] = Line("status", 0, Server) /\ w[Len(w)] = End("ok")
    BY <1>8, <1>12, <1>15
  <2>2. QED
    BY <2>1 DEF Line, End
<1>17. QED
  BY <1>11, <1>13, <1>14, <1>15, <1>16 DEF IsListing

-----------------------------------------------------------------------------
(* Lines and what they set.                                                *)

\* Parsing a line: what is left alone then was set by it, or left alone before.
LEMMA LastTail ==
  ASSUME NEW w \in Seq(Lines), w # <<>>, NEW T, NEW G, LastGood(w, T, G)
  PROVE  /\ LastGood(Tail(w), T, G)
         /\ Untouched(Tail(w), T) =>
              IF Head(w) \in T THEN Head(w) \in G ELSE Untouched(w, T)
<1> DEFINE t == Tail(w)
<1>1. /\ Head(w) = w[1] /\ Len(w) \in Nat /\ Len(w) >= 1
      /\ DOMAIN w = 1..Len(w) /\ DOMAIN t = 1..(Len(w) - 1)
      /\ \A i \in 1..(Len(w) - 1) : i + 1 \in 1..Len(w) /\ t[i] = w[i + 1]
      /\ \A i \in 1..Len(w) : i # 1 => i - 1 \in 1..(Len(w) - 1) /\ t[i - 1] = w[i]
  BY Parsed
<1> HIDE DEF t
<1>2. ASSUME Untouched(t, T)
      PROVE  IF Head(w) \in T THEN Head(w) \in G ELSE Untouched(w, T)
  <2>1. \A i \in 1..Len(w) : i # 1 => w[i] \notin T
    BY <1>1, <1>2 DEF Untouched
  <2>2. CASE Head(w) \in T
    <3>1. 1 \in DOMAIN w /\ w[1] \in T /\ \A j \in DOMAIN w : 1 < j => w[j] \notin T
      BY <1>1, <2>1, <2>2
    <3>2. w[1] \in G
      BY <3>1 DEF LastGood
    <3>3. QED
      BY <1>1, <2>2, <3>2
  <2>3. CASE Head(w) \notin T
    BY <1>1, <2>1, <2>3 DEF Untouched
  <2>4. QED
    BY <2>2, <2>3
<1>3. ASSUME NEW i \in DOMAIN t, t[i] \in T, \A j \in DOMAIN t : i < j => t[j] \notin T
      PROVE  t[i] \in G
  <2>1. i + 1 \in DOMAIN w /\ w[i + 1] = t[i]
    BY <1>1
  <2>2. ASSUME NEW j \in DOMAIN w, i + 1 < j PROVE w[j] \notin T
    <3>1. j # 1 /\ j - 1 \in DOMAIN t /\ i < j - 1
      BY <1>1, <2>2
    <3>2. t[j - 1] = w[j]
      BY <1>1, <3>1
    <3>3. QED
      BY <1>3, <3>1, <3>2
  <2>3. w[i + 1] \in G
    BY <1>3, <2>1, <2>2 DEF LastGood
  <2>4. QED
    BY <2>1, <2>3
<1>4. QED
  BY <1>2, <1>3 DEF LastGood, t

\* What is sent next is right, or leaves things as they are.
LEMMA LastSaid ==
  ASSUME NEW w \in Seq(Lines), NEW s \in Seq(Lines), NEW T, NEW G, NEW H,
         LastGood(w, T, G), Untouched(s, T) => G \subseteq H, LastGood(s, T, H)
  PROVE  /\ LastGood(w \o s, T, H)
         /\ Untouched(w \o s, T) => Untouched(w, T) /\ Untouched(s, T)
<1> DEFINE u == w \o s
<1>1. /\ Len(w) \in Nat /\ Len(s) \in Nat
      /\ DOMAIN w = 1..Len(w) /\ DOMAIN s = 1..Len(s) /\ DOMAIN u = 1..(Len(w) + Len(s))
      /\ \A i \in 1..Len(w) : u[i] = w[i]
      /\ \A i \in 1..Len(s) : u[Len(w) + i] = s[i]
      /\ \A i \in 1..(Len(w) + Len(s)) : i \notin 1..Len(w) =>
           i - Len(w) \in 1..Len(s) /\ u[i] = s[i - Len(w)]
  BY Said
<1> HIDE DEF u
<1>2. ASSUME NEW i \in DOMAIN s PROVE Len(w) + i \in DOMAIN u /\ u[Len(w) + i] = s[i]
  BY <1>1
<1>3. ASSUME NEW i \in DOMAIN w PROVE i \in DOMAIN u /\ u[i] = w[i]
  BY <1>1
<1>4. Untouched(u, T) => Untouched(w, T) /\ Untouched(s, T)
  BY <1>2, <1>3 DEF Untouched
<1>5. ASSUME NEW i \in DOMAIN u, u[i] \in T, \A j \in DOMAIN u : i < j => u[j] \notin T
      PROVE  u[i] \in H
  <2>1. CASE i \in DOMAIN w
    <3>1. ASSUME NEW j \in DOMAIN s PROVE s[j] \notin T
      <4>1. i < Len(w) + j
        BY <1>1, <2>1
      <4>2. QED
        BY <1>2, <1>5, <4>1
    <3>2. Untouched(s, T)
      BY <3>1 DEF Untouched
    <3>3. u[i] = w[i] /\ \A j \in DOMAIN w : i < j => w[j] \notin T
      BY <1>3, <1>5, <2>1
    <3>4. w[i] \in G
      BY <1>5, <2>1, <3>3 DEF LastGood
    <3>5. QED
      BY <3>2, <3>3, <3>4
  <2>2. CASE i \notin DOMAIN w
    <3> DEFINE k == i - Len(w)
    <3>1. k \in DOMAIN s /\ u[i] = s[k] /\ i = Len(w) + k
      BY <1>1, <2>2
    <3>2. ASSUME NEW j \in DOMAIN s, k < j PROVE s[j] \notin T
      <4>1. i < Len(w) + j
        BY <1>1, <3>1, <3>2
      <4>2. QED
        BY <1>2, <1>5, <4>1
    <3> HIDE DEF k
    <3>3. s[k] \in H
      BY <1>5, <3>1, <3>2 DEF LastGood
    <3>4. QED
      BY <3>1, <3>3
  <2>3. QED
    BY <2>1, <2>2
<1>6. QED
  BY <1>4, <1>5 DEF LastGood, u

-----------------------------------------------------------------------------
(* What the device sends.                                                  *)

\* Lines w tell of each change of the owner of l, from o to p.
Tells(w, l, o, p) ==
  \A T \in SetsOf(l) :
    (Untouched(w, T) => p = o) /\ LastGood(w, T, Right(p))

\* The answer to command c ends with its last line.
OneAnswer(w, c) ==
  \A i \in DOMAIN w :
    /\ Ends(w[i]) <=> i = Len(w)
    /\ w[i].kind = "up" => w[i].own # Server
    /\ Answers(w[i]) => IF w[i].kind = "up" THEN c.cmd = "start" /\ c.app = w[i].own
                                            ELSE c.cmd = "status"

LEMMA TellsFirst ==
  ASSUME NEW w \in Seq(Lines), 1 \in DOMAIN w, NEW l \in Links, NEW o, NEW p,
         \A i \in DOMAIN w : i # 1 => Ends(w[i]),
         w[1].kind \in {"up", "down", "ok", "err"},
         ~Ends(w[1]) /\ w[1].link = l => w[1] \in Right(p),
         Ends(w[1]) \/ w[1].link # l => p = o
  PROVE  Tells(w, l, o, p)
<1> SUFFICES ASSUME NEW T \in SetsOf(l)
             PROVE  (Untouched(w, T) => p = o) /\ LastGood(w, T, Right(p))
  BY DEF Tells
<1>1. \A i \in DOMAIN w : w[i] \in Lines
  BY LenProperties
<1>2. \A e \in Lines : e \in T => ~Ends(e)
  BY DEF SetsOf, FlagLines, PartLines, BitLines, Of, Ends
<1>3. \A e \in Lines : e.kind \in {"up", "down"} => (e \in T <=> e.link = l)
  BY DEF SetsOf, FlagLines, PartLines, BitLines, Of
<1>4. ~Ends(w[1]) => w[1].kind \in {"up", "down"}
  BY DEF Ends
<1>5. Untouched(w, T) => p = o
  BY <1>1, <1>3, <1>4 DEF Untouched
<1>6. ASSUME NEW i \in DOMAIN w, w[i] \in T PROVE w[i] \in Right(p)
  <2>1. i = 1 /\ ~Ends(w[1])
    BY <1>1, <1>2, <1>6
  <2>2. QED
    BY <1>1, <1>3, <1>4, <1>6, <2>1
<1>7. QED
  BY <1>5, <1>6 DEF LastGood

LEMMA TellsListing ==
  ASSUME link \in [Links -> Owners \cup {Closed}], NEW w, IsListing(w), NEW l \in Links
  PROVE  Tells(w, l, link[l], link[l])
<1>1. DOMAIN w = 1..Len(w) /\ \A i \in DOMAIN w : w[i] \in Lines
  BY LenProperties DEF IsListing
<1>2. w[1].kind = "status" /\ w[Len(w)].kind = "ok"
  BY DEF IsListing
<1>3. \A i \in DOMAIN w : w[i].kind \in {"up", "down", "entry"} =>
        w[i].kind = "entry" /\ w[i].link \in Open /\ w[i].own = link[w[i].link]
  BY <1>1, <1>2 DEF IsListing
<1>4. \A i \in DOMAIN w : w[i].kind = "status" => i = 1
  BY <1>1, <1>2 DEF IsListing
<1>5. LastGood(w, FlagLines(l), Right(link[l]))
  <2>1. \A i \in DOMAIN w : w[i] \notin FlagLines(l)
    BY <1>3 DEF FlagLines, Of
  <2>2. QED
    BY <2>1 DEF LastGood
<1>6. \A i \in DOMAIN w : w[i] \in PartLines(l) => w[i] \in Right(link[l])
  <2>1. SUFFICES ASSUME NEW i \in DOMAIN w, w[i] \in PartLines(l)
                 PROVE  w[i] \in Right(link[l])
    OBVIOUS
  <2>2. w[i].kind = "entry" /\ l \in Open /\ w[i].own = link[l]
    BY <1>3, <2>1 DEF PartLines, Of
  <2>3. QED
    BY <1>1, <2>2 DEF Right, Open
<1>7. ASSUME NEW i \in DOMAIN w, w[i].kind = "status",
             \A j \in DOMAIN w : i < j => w[j] \notin BitLines(l)
      PROVE  w[i] \in Right(link[l])
  <2>1. i = 1 /\ w[i].kind = "status"
    BY <1>4, <1>7
  <2>2. l \notin Open
    <3>1. SUFFICES ASSUME l \in Open PROVE FALSE
      OBVIOUS
    <3>2. PICK j \in 1..Len(w) : j # 1 /\ j # Len(w) /\ w[j].link = l
      BY <3>1 DEF IsListing
    <3>3. j \in DOMAIN w /\ w[j].kind = "entry"
      BY <1>1, <3>2 DEF IsListing
    <3>4. 1 < j
      BY <3>2
    <3>5. w[j] \in BitLines(l)
      BY <1>1, <3>2, <3>3 DEF PartLines, BitLines, Of
    <3>6. QED
      BY <1>7, <2>1, <3>3, <3>4, <3>5
  <2>3. QED
    BY <1>1, <2>1, <2>2 DEF Right, Open
<1>8. QED
  BY <1>5, <1>6, <1>7 DEF Tells, SetsOf, BitLines, LastGood

\* What carrying out a command does: the owners of the connections, the server
\* and the lines of the answer.
LEMMA DevSays ==
  ASSUME TypeOK, DevCommand
  PROVE  \E c \in Inputs, w \in Seq(Lines) :
           /\ inbox # <<>> /\ c = inbox[1] /\ inbox' = Tail(inbox)
           /\ Len(w) \in Nat /\ Len(w) >= 1 /\ wire' = wire \o w
           /\ link' \in [Links -> Owners \cup {Closed}] /\ serving' \in BOOLEAN
           /\ OneAnswer(w, c)
           /\ IF w[Len(w)].kind = "ok" /\ c.cmd \in {"serve", "unserve"}
                THEN serving' <=> c.cmd = "serve" ELSE serving' = serving
           /\ \A l \in Links : Tells(w, l, link[l], link'[l])
<1> DEFINE c == Head(inbox)
<1>1. inbox # <<>> /\ c = inbox[1] /\ c \in Inputs /\ inbox' = Tail(inbox)
  <2>1. inbox \in Seq(Inputs)
    BY DEF TypeOK, Inputs
  <2>2. inbox # <<>> /\ inbox' = Tail(inbox)
    BY DEF DevCommand
  <2>3. QED
    BY <2>1, <2>2, HeadTailProperties
<1>2. c.slot \in Links /\ c.app \in Apps /\ c.cmd \in CmdKinds /\ c.app # Server
      /\ c.app \in Owners /\ c.app # Closed
  BY <1>1, ConnAssumption DEF Inputs, Owners
<1>3. link \in [Links -> Owners \cup {Closed}] /\ serving \in BOOLEAN
  BY DEF TypeOK
<1>4. /\ \/ /\ c.cmd = "start" /\ link[c.slot] = Closed
            /\ link' = [link EXCEPT ![c.slot] = c.app] /\ serving' = serving
            /\ wire' = wire \o <<Line("up", c.slot, c.app), End("ok")>>
         \/ /\ c.cmd = "close" /\ link[c.slot] # Closed
            /\ link' = [link EXCEPT ![c.slot] = Closed] /\ serving' = serving
            /\ wire' = wire \o <<Line("down", c.slot, link[c.slot]), End("ok")>>
         \/ /\ c.cmd # "status"
            /\ link' = link /\ serving' = serving /\ wire' = wire \o <<End("err")>>
         \/ /\ c.cmd \in {"serve", "unserve", "limit"} /\ link' = link
            /\ serving' = (IF c.cmd = "limit" THEN serving ELSE c.cmd = "serve")
            /\ wire' = wire \o <<End("ok")>>
         \/ /\ c.cmd = "status" /\ link' = link /\ serving' = serving
            /\ \E s \in Listings :
                 wire' = wire \o (<<Line("status", 0, Server)>> \o Entries(s) \o <<End("ok")>>)
  BY DEF DevCommand, Say
<1> HIDE DEF c
<1> DEFINE Goal(w) ==
           /\ Len(w) \in Nat /\ Len(w) >= 1 /\ wire' = wire \o w
           /\ link' \in [Links -> Owners \cup {Closed}] /\ serving' \in BOOLEAN
           /\ OneAnswer(w, c)
           /\ IF w[Len(w)].kind = "ok" /\ c.cmd \in {"serve", "unserve"}
                THEN serving' <=> c.cmd = "serve" ELSE serving' = serving
           /\ \A l \in Links : Tells(w, l, link[l], link'[l])
<1>5. SUFFICES \E w \in Seq(Lines) : Goal(w)
  BY <1>1
\* A connection opens or closes.
<1>6. ASSUME NEW e \in Lines, NEW o \in Owners \cup {Closed},
             e.kind \in {"up", "down"}, e.link = c.slot, e \in Right(o),
             e.kind = "up" => c.cmd = "start" /\ c.app = e.own,
             c.cmd \in {"start", "close"},
             link' = [link EXCEPT ![c.slot] = o], serving' = serving,
             wire' = wire \o <<e, End("ok")>>
      PROVE  \E w \in Seq(Lines) : Goal(w)
  <2> DEFINE w == <<e, End("ok")>>
  <2>1. /\ w \in Seq(Lines) /\ Len(w) = 2 /\ DOMAIN w = 1..2 /\ w[1] = e /\ w[2] = End("ok")
        /\ wire' = wire \o w
    BY <1>6, TwoLines, LineTypes
  <2> HIDE DEF w
  <2>2. w[2].kind = "ok" /\ Ends(w[2]) /\ ~Ends(w[1]) /\ ~Answers(w[2])
    BY <1>6, <2>1, LineTypes DEF Ends, Answers
  <2>3. OneAnswer(w, c)
    BY <1>2, <1>6, <2>1, <2>2 DEF OneAnswer, Answers
  <2>4. link' \in [Links -> Owners \cup {Closed}] /\ serving' \in BOOLEAN
    BY <1>2, <1>3, <1>6
  <2>5. ASSUME NEW l \in Links PROVE Tells(w, l, link[l], link'[l])
    <3>1. link'[l] = IF l = c.slot THEN o ELSE link[l]
      BY <1>2, <1>3, <1>6
    <3>2. 1 \in DOMAIN w /\ \A i \in DOMAIN w : i # 1 => Ends(w[i])
      BY <2>1, <2>2
    <3>3. w[1].kind \in {"up", "down", "ok", "err"} /\ w[1].link = c.slot /\ w[1] \in Right(o)
      BY <1>6, <2>1
    <3>4. QED
      BY <2>1, <2>2, <3>1, <3>2, <3>3, TellsFirst
  <2>6. Goal(w)
    <3>1. Len(w) \in Nat /\ Len(w) >= 1
      BY <2>1
    <3>2. c.cmd \notin {"serve", "unserve"}
      BY <1>6
    <3>3. QED
      BY <1>6, <2>1, <2>3, <2>4, <2>5, <3>1, <3>2
  <2>7. QED
    BY <2>1, <2>6
\* Nothing does.
<1>7. ASSUME NEW r \in {"ok", "err"}, link' = link, wire' = wire \o <<End(r)>>,
             serving' \in BOOLEAN,
             IF r = "ok" /\ c.cmd \in {"serve", "unserve"}
               THEN serving' <=> c.cmd = "serve" ELSE serving' = serving
      PROVE  \E w \in Seq(Lines) : Goal(w)
  <2> DEFINE w == <<End(r)>>
  <2>1. /\ w \in Seq(Lines) /\ Len(w) = 1 /\ DOMAIN w = 1..1 /\ w[1] = End(r)
        /\ wire' = wire \o w
    BY <1>7, OneLine, LineTypes
  <2> HIDE DEF w
  <2>2. w[1].kind = r /\ w[1].kind \in {"ok", "err"}
    BY <1>7, <2>1, LineTypes
  <2>3. OneAnswer(w, c)
    BY <2>1, <2>2 DEF OneAnswer, Answers, Ends
  <2>4. ASSUME NEW l \in Links PROVE Tells(w, l, link[l], link'[l])
    <3>1. Ends(w[1]) /\ 1 \in DOMAIN w /\ \A i \in DOMAIN w : i # 1 => Ends(w[i])
      BY <2>1, <2>2 DEF Ends
    <3>2. QED
      BY <1>7, <2>1, <2>2, <3>1, TellsFirst
  <2>5. Goal(w)
    BY <1>3, <1>7, <2>1, <2>2, <2>3, <2>4
  <2>6. QED
    BY <2>1, <2>5
\* All are listed.
<1>8. ASSUME NEW s \in Listings, c.cmd = "status", link' = link, serving' = serving,
             NEW w, w = <<Line("status", 0, Server)>> \o Entries(s) \o <<End("ok")>>,
             wire' = wire \o w
      PROVE  \E v \in Seq(Lines) : Goal(v)
  <2>1. IsListing(w)
    BY <1>3, <1>8, ListingLines
  <2>2. w \in Seq(Lines) /\ Len(w) \in Nat /\ Len(w) >= 1 /\ w[Len(w)].kind = "ok"
    <3>1. /\ w \in Seq(Lines) /\ Len(w) \in Nat /\ Len(w) >= 2
          /\ w[Len(w)].kind = "ok"
      BY <2>1 DEF IsListing
    <3>2. QED
      BY <3>1
  <2>3. ASSUME NEW i \in DOMAIN w
        PROVE  /\ i = Len(w) => w[i].kind = "ok"
               /\ i # Len(w) => w[i].kind \in {"status", "entry"}
    BY <2>1 DEF IsListing
  <2>4. OneAnswer(w, c)
    BY <1>8, <2>3 DEF OneAnswer, Answers, Ends
  <2>5. ASSUME NEW l \in Links PROVE Tells(w, l, link[l], link'[l])
    BY <1>3, <1>8, <2>1, TellsListing
  <2>6. c.cmd \notin {"serve", "unserve"}
    BY <1>8
  <2>7. Goal(w)
    BY <1>3, <1>8, <2>2, <2>4, <2>5, <2>6
  <2>8. QED
    BY <2>2, <2>7
<1> HIDE DEF Goal
<1>9. CASE /\ c.cmd = "start" /\ link[c.slot] = Closed
           /\ link' = [link EXCEPT ![c.slot] = c.app] /\ serving' = serving
           /\ wire' = wire \o <<Line("up", c.slot, c.app), End("ok")>>
  <2> DEFINE e == Line("up", c.slot, c.app)
  <2>1. e \in Lines /\ e.kind = "up" /\ e.link = c.slot /\ e.own = c.app
    BY <1>2, LineTypes
  <2>2. e \in Right(c.app)
    BY <1>2, <2>1 DEF Right
  <2>3. wire' = wire \o <<e, End("ok")>>
    BY <1>9
  <2> HIDE DEF e
  <2>4. QED
    BY <1>2, <1>6, <1>9, <2>1, <2>2, <2>3
<1>10. CASE /\ c.cmd = "close" /\ link[c.slot] # Closed
            /\ link' = [link EXCEPT ![c.slot] = Closed] /\ serving' = serving
            /\ wire' = wire \o <<Line("down", c.slot, link[c.slot]), End("ok")>>
  <2> DEFINE e == Line("down", c.slot, link[c.slot])
  <2>1. link[c.slot] \in Owners
    BY <1>2, <1>3, <1>10
  <2>2. e \in Lines /\ e.kind = "down" /\ e.link = c.slot
    BY <1>2, <2>1, LineTypes
  <2>3. e \in Right(Closed)
    BY <2>2 DEF Right
  <2>4. wire' = wire \o <<e, End("ok")>>
    BY <1>10
  <2> HIDE DEF e
  <2>5. QED
    BY <1>6, <1>10, <2>2, <2>3, <2>4
<1>11. CASE /\ c.cmd # "status"
            /\ link' = link /\ serving' = serving /\ wire' = wire \o <<End("err")>>
  BY <1>3, <1>7, <1>11
<1>12. CASE /\ c.cmd \in {"serve", "unserve", "limit"} /\ link' = link
            /\ serving' = (IF c.cmd = "limit" THEN serving ELSE c.cmd = "serve")
            /\ wire' = wire \o <<End("ok")>>
  <2>1. serving' \in BOOLEAN
    BY <1>3, <1>12
  <2>2. IF c.cmd \in {"serve", "unserve"} THEN serving' <=> c.cmd = "serve" ELSE serving' = serving
    BY <1>12
  <2>3. QED
    BY <1>7, <1>12, <2>1, <2>2
<1>13. CASE /\ c.cmd = "status" /\ link' = link /\ serving' = serving
            /\ \E s \in Listings :
                 wire' = wire \o (<<Line("status", 0, Server)>> \o Entries(s) \o <<End("ok")>>)
  BY <1>8, <1>13
<1>14. QED
  BY <1>4, <1>9, <1>10, <1>11, <1>12, <1>13

-----------------------------------------------------------------------------
(* Type correctness.                                                       *)

LEMMA InitType == Init => TypeOK
<1> SUFFICES ASSUME Init PROVE TypeOK
  OBVIOUS
<1>1. 0 \in Links /\ MaxVisits \in Nat /\ 0 \in 0..MaxVisits
  BY ConnAssumption DEF Links
<1>2. /\ conn \in [Links -> [active : BOOLEAN, client : BOOLEAN, cb : Owners \cup {NoCb, Junk}]]
      /\ link \in [Links -> Owners \cup {Closed}]
  BY DEF Init, ZeroConn
<1>3. /\ apc \in [Apps -> CmdKinds \cup {"idle", "picked", "up", "closed"}]
      /\ slot \in [Apps -> Links]
  BY <1>1 DEF Init
<1>4. inbox \in Seq([cmd : CmdKinds, app : Apps, slot : Links]) /\ Len(inbox) <= MaxCmds
  BY EmptySeq, ConnAssumption DEF Init
<1>5. wire \in Seq([kind : {"up", "down", "status", "entry", "ok", "err"}, link : Links,
                   own : Owners])
  BY EmptySeq DEF Init
<1>6. QED
  BY <1>1, <1>2, <1>3, <1>4, <1>5 DEF Init, TypeOK

\* A device that says one line of a connection.
LEMMA DevLine ==
  ASSUME TypeOK, NEW l \in Links, NEW k \in {"up", "down"}, NEW o \in Owners \cup {Closed},
         NEW e \in Lines, e.kind = k, e.link = l, e \in Right(o),
         link' = [link EXCEPT ![l] = o]
  PROVE  /\ <<e>> \in Seq(Lines) /\ DOMAIN <<e>> = 1..1 /\ <<e>>[1] = e
         /\ link' \in [Links -> Owners \cup {Closed}]
         /\ \A m \in Links : Tells(<<e>>, m, link[m], link'[m])
<1> DEFINE w == <<e>>
<1>1. w \in Seq(Lines) /\ Len(w) = 1 /\ DOMAIN w = 1..1 /\ w[1] = e
  BY OneLine
<1> HIDE DEF w
<1>2. link \in [Links -> Owners \cup {Closed}]
  BY DEF TypeOK
<1>3. ASSUME NEW m \in Links PROVE Tells(w, m, link[m], link'[m])
  <2>1. link'[m] = IF m = l THEN o ELSE link[m]
    BY <1>2
  <2>2. 1 \in DOMAIN w /\ (\A i \in DOMAIN w : i # 1 => Ends(w[i])) /\ ~Ends(w[1])
    BY <1>1 DEF Ends
  <2>3. w[1].kind \in {"up", "down", "ok", "err"} /\ w[1].link = l /\ w[1] \in Right(o)
    BY <1>1
  <2>4. QED
    BY <1>1, <2>1, <2>2, <2>3, TellsFirst
<1>4. link' \in [Links -> Owners \cup {Closed}]
  BY <1>2
<1>5. QED
  BY <1>1, <1>3, <1>4 DEF w

LEMMA VisitSays ==
  ASSUME TypeOK, DevVisit
  PROVE  \E e \in Lines :
           /\ serving /\ wire' = wire \o <<e>> /\ e.kind = "up" /\ e.own = Server
           /\ <<e>> \in Seq(Lines) /\ DOMAIN <<e>> = 1..1 /\ <<e>>[1] = e
           /\ link' \in [Links -> Owners \cup {Closed}]
           /\ \A m \in Links : Tells(<<e>>, m, link[m], link'[m])
<1>1. PICK l \in Links : /\ link' = [link EXCEPT ![l] = Server]
                         /\ wire' = wire \o <<Line("up", l, Server)>>
  BY DEF DevVisit, FirstOf, Say
<1> DEFINE e == Line("up", l, Server)
<1>2. e \in Lines /\ e.kind = "up" /\ e.link = l /\ e.own = Server
  BY LineTypes
<1>3. Server \in Owners /\ Server # Closed
  BY LineTypes
<1>4. e \in Right(Server)
  BY <1>2, <1>3 DEF Right
<1>5. serving /\ wire' = wire \o <<e>>
  BY <1>1 DEF DevVisit
<1> HIDE DEF e
<1>6. QED
  BY <1>1, <1>2, <1>3, <1>4, <1>5, DevLine

LEMMA HangupSays ==
  ASSUME TypeOK, DevHangup
  PROVE  \E e \in Lines :
           /\ wire' = wire \o <<e>> /\ e.kind = "down"
           /\ <<e>> \in Seq(Lines) /\ DOMAIN <<e>> = 1..1 /\ <<e>>[1] = e
           /\ link' \in [Links -> Owners \cup {Closed}]
           /\ \A m \in Links : Tells(<<e>>, m, link[m], link'[m])
<1>1. PICK l \in Links : /\ link[l] # Closed /\ link' = [link EXCEPT ![l] = Closed]
                         /\ wire' = wire \o <<Line("down", l, link[l])>>
  BY DEF DevHangup, Say
<1> DEFINE e == Line("down", l, link[l])
<1>2. link[l] \in Owners
  BY <1>1 DEF TypeOK
<1>3. e \in Lines /\ e.kind = "down" /\ e.link = l
  BY <1>2, LineTypes
<1>4. e \in Right(Closed)
  BY <1>3 DEF Right
<1>5. wire' = wire \o <<e>>
  BY <1>1
<1> HIDE DEF e
<1>6. QED
  BY <1>1, <1>3, <1>4, <1>5, DevLine

LEMMA TypeStep == TypeOK /\ [Next]_vars => TypeOK'
<1> SUFFICES ASSUME TypeOK, [Next]_vars PROVE TypeOK'
  OBVIOUS
<1> USE ConnAssumption
<1>1. wire \in Seq(Lines) /\ inbox \in Seq(Inputs)
  BY DEF TypeOK, Lines, Inputs
<1>2. ZeroConn \in [active : BOOLEAN, client : BOOLEAN, cb : Owners \cup {NoCb, Junk}]
  BY DEF ZeroConn
<1>3. ASSUME NEW a \in Apps, AppPick(a) PROVE TypeOK'
  <2>1. PICK l \in Links : slot' = [slot EXCEPT ![a] = l]
    BY <1>3 DEF AppPick, FirstFree, FirstOf, Free
  <2>2. slot' \in [Apps -> Links]
    BY <2>1 DEF TypeOK
  <2>3. apc' \in [Apps -> CmdKinds \cup {"idle", "picked", "up", "closed"}]
    BY <1>3 DEF AppPick, Goto, TypeOK
  <2>4. QED
    BY <1>3, <2>2, <2>3 DEF AppPick, TypeOK
<1>4. ASSUME NEW a \in Apps, AppStart(a) PROVE TypeOK'
  BY <1>4 DEF AppStart, Goto, TypeOK, CmdKinds
<1>5. ASSUME NEW a \in Apps, AppClose(a) \/ AppStatus(a) \/ AppServer(a) PROVE TypeOK'
  BY <1>5 DEF AppClose, AppStatus, AppServer, Goto, TypeOK, CmdKinds
<1>6. ASSUME NEW a \in Apps, AppDelete(a) PROVE TypeOK'
  <2>1. slot[a] \in Links
    BY DEF TypeOK
  <2>2. conn' \in [Links -> [active : BOOLEAN, client : BOOLEAN, cb : Owners \cup {NoCb, Junk}]]
    BY <1>2, <1>6 DEF AppDelete, TypeOK
  <2>3. apc' \in [Apps -> CmdKinds \cup {"idle", "picked", "up", "closed"}]
    BY <1>6 DEF AppDelete, Goto, TypeOK
  <2>4. QED
    BY <1>6, <2>2, <2>3 DEF AppDelete, TypeOK
<1>7. ASSUME NEW a \in Apps, ReqSend(a) PROVE TypeOK'
  <2> DEFINE c == [cmd |-> apc[a], app |-> a, slot |-> slot[a]]
  <2>1. slot[a] \in Links /\ apc[a] \in CmdKinds /\ Len(inbox) < MaxCmds
        /\ inbox' = Append(inbox, c) /\ cur' = [cmd |-> apc[a], app |-> a]
    BY <1>7 DEF ReqSend, TypeOK, Command
  <2>2. c \in Inputs /\ cur' \in [cmd : CmdKinds, app : Apps]
    BY <2>1 DEF Inputs
  <2> HIDE DEF c
  <2>3. inbox' \in Seq(Inputs) /\ Len(inbox') = Len(inbox) + 1 /\ Len(inbox) \in Nat
    BY <1>1, <2>1, <2>2, AppendProperties, LenProperties
  <2>4. Len(inbox') <= MaxCmds
    BY <2>1, <2>3
  <2>5. QED
    BY <1>7, <2>2, <2>3, <2>4 DEF ReqSend, TypeOK, Inputs
<1>8. ASSUME NEW a \in Apps, Return(a), cur' = NoCmd
      PROVE  apc' \in [Apps -> CmdKinds \cup {"idle", "picked", "up", "closed"}]
  BY <1>8 DEF Return, Goto, TypeOK, CmdKinds
<1>9. CASE ReqDone
  <2>1. cur.app \in Apps /\ Return(cur.app) /\ cur' = NoCmd
    BY <1>9 DEF ReqDone, TypeOK
  <2>2. PICK a \in Apps : Return(a)
    BY <2>1
  <2>3. QED
    BY <1>8, <1>9, <2>1, <2>2 DEF ReqDone, TypeOK
<1>10. CASE ReqTimeout
  <2>1. cur.app \in Apps /\ Return(cur.app) /\ cur' = NoCmd
    BY <1>10 DEF ReqTimeout, TypeOK
  <2>2. PICK a \in Apps : Return(a)
    BY <2>1
  <2>3. inbox' \in Seq(Inputs) /\ Len(inbox') <= MaxCmds
    <3>1. inbox' = inbox \/ inbox' = <<>>
      BY <1>10 DEF ReqTimeout
    <3>2. <<>> \in Seq(Inputs) /\ Len(<<>>) = 0 /\ 0 <= MaxCmds
      BY EmptySeq
    <3>3. Len(inbox) <= MaxCmds
      BY DEF TypeOK
    <3>4. QED
      BY <1>1, <3>1, <3>2, <3>3
  <2>4. QED
    BY <1>8, <1>10, <2>1, <2>2, <2>3 DEF ReqTimeout, TypeOK, Inputs
<1>11. CASE DevCommand
  <2>1. PICK c \in Inputs, w \in Seq(Lines) :
          /\ inbox # <<>> /\ inbox' = Tail(inbox) /\ wire' = wire \o w
          /\ link' \in [Links -> Owners \cup {Closed}] /\ serving' \in BOOLEAN
    BY <1>11, DevSays
  <2>2. wire' \in Seq(Lines)
    BY <1>1, <2>1, Said
  <2>3. inbox' \in Seq(Inputs) /\ Len(inbox') = Len(inbox) - 1 /\ Len(inbox) \in Nat
    BY <1>1, <2>1, HeadTailProperties, LenProperties
  <2>4. Len(inbox') <= MaxCmds
    BY <2>3 DEF TypeOK
  <2>5. UNCHANGED <<conn, bits, evt, apc, slot, cur, heard, visits>>
    BY <1>11 DEF DevCommand
  <2>6. QED
    BY <2>1, <2>2, <2>3, <2>4, <2>5 DEF TypeOK, Lines, Inputs
<1>12. CASE DevVisit
  <2>1. PICK e \in Lines : /\ wire' = wire \o <<e>> /\ <<e>> \in Seq(Lines)
                           /\ link' \in [Links -> Owners \cup {Closed}]
    BY <1>12, VisitSays
  <2>2. wire' \in Seq(Lines)
    BY <1>1, <2>1, Said
  <2>3. visits' \in 0..MaxVisits
    BY <1>12 DEF DevVisit, TypeOK
  <2>4. UNCHANGED <<conn, bits, evt, apc, slot, cur, heard, inbox, serving>>
    BY <1>12 DEF DevVisit
  <2>5. QED
    BY <2>1, <2>2, <2>3, <2>4 DEF TypeOK, Lines
<1>13. CASE DevHangup
  <2>1. PICK e \in Lines : /\ wire' = wire \o <<e>> /\ <<e>> \in Seq(Lines)
                           /\ link' \in [Links -> Owners \cup {Closed}]
    BY <1>13, HangupSays
  <2>2. wire' \in Seq(Lines)
    BY <1>1, <2>1, Said
  <2>3. UNCHANGED <<conn, bits, evt, apc, slot, cur, heard, inbox, serving, visits>>
    BY <1>13 DEF DevHangup
  <2>4. QED
    BY <2>1, <2>2, <2>3 DEF TypeOK, Lines
\* The response thread.
<1>14. ASSUME NEW k, Hears(k)
       PROVE  wire' \in Seq(Lines) /\ Head(wire) \in Lines
  BY <1>1, <1>14, Parsed DEF Hears
<1>15. CASE RespUp
  <2>1. wire' \in Seq(Lines) /\ Head(wire) \in Lines
    BY <1>14, <1>15 DEF RespUp
  <2>2. PICK e \in Lines : e = Head(wire)
    BY <2>1
  <2>3. e.link \in Links /\ e.own \in Owners
    BY DEF Lines
  <2>4. ClientOf(conn[e.link], e) \in BOOLEAN
    BY <2>3 DEF ClientOf, TypeOK
  <2>5. ASSUME NEW b \in BOOLEAN PROVE CallbackOf(conn[e.link], b) \in Owners \cup {NoCb, Junk}
    <3>1. evt \in Owners \cup {NoCb} /\ conn[e.link].cb \in Owners \cup {NoCb, Junk}
      BY <2>3 DEF TypeOK, Owners
    <3>2. cur # NoCmd => cur.app \in Owners
      BY DEF TypeOK, Owners
    <3>3. CASE ~b
      BY <3>1, <3>3 DEF CallbackOf
    <3>4. CASE b /\ cur = NoCmd
      BY <3>1, <3>4 DEF CallbackOf, NoCmd, Command
    <3>5. CASE b /\ cur # NoCmd /\ cur.cmd = "start"
      BY <3>2, <3>5 DEF CallbackOf
    <3>6. CASE b /\ cur # NoCmd /\ cur.cmd # "start"
      BY <3>6 DEF CallbackOf
    <3>7. QED
      BY <3>3, <3>4, <3>5, <3>6
  <2>6. /\ conn' \in [Links -> [active : BOOLEAN, client : BOOLEAN, cb : Owners \cup {NoCb, Junk}]]
        /\ bits' \subseteq Links
    BY <1>15, <2>2, <2>3, <2>4, <2>5 DEF RespUp, TypeOK
  <2>7. QED
    BY <1>15, <2>1, <2>6 DEF RespUp, TypeOK, Lines
<1>16. CASE RespDown
  <2>1. wire' \in Seq(Lines) /\ Head(wire) \in Lines
    BY <1>14, <1>16 DEF RespDown
  <2>2. Head(wire).link \in Links
    BY <2>1 DEF Lines
  <2>3. conn' \in [Links -> [active : BOOLEAN, client : BOOLEAN, cb : Owners \cup {NoCb, Junk}]]
    BY <1>2, <1>16, <2>2 DEF RespDown, TypeOK
  <2>4. bits' \subseteq Links
    BY <1>16 DEF RespDown, BitCleared, TypeOK
  <2>5. QED
    BY <1>16, <2>1, <2>3, <2>4 DEF RespDown, TypeOK, Lines
<1>17. CASE RespStatus
  <2>1. wire' \in Seq(Lines)
    BY <1>14, <1>17 DEF RespStatus
  <2>2. QED
    BY <1>17, <2>1 DEF RespStatus, TypeOK, Lines
<1>18. CASE RespEntry
  <2>1. wire' \in Seq(Lines) /\ Head(wire) \in Lines
    BY <1>14, <1>18 DEF RespEntry
  <2>2. PICK e \in Lines : e = Head(wire)
    BY <2>1
  <2>3. e.link \in Links
    BY DEF Lines
  <2>4. conn' \in [Links -> [active : BOOLEAN, client : BOOLEAN, cb : Owners \cup {NoCb, Junk}]]
    <3>1. CASE cur.cmd = "status"
      <4>1. PICK b \in BOOLEAN : b = (e.own # Server)
        OBVIOUS
      <4>2. conn' = [conn EXCEPT ![e.link].client = b]
        BY <1>18, <2>2, <3>1, <4>1 DEF RespEntry
      <4>3. QED
        BY <2>3, <4>2 DEF TypeOK
    <3>2. CASE cur.cmd # "status"
      BY <1>18, <3>2 DEF RespEntry, TypeOK
    <3>3. QED
      BY <3>1, <3>2
  <2>5. bits' \subseteq Links
    BY <1>18, <2>2, <2>3 DEF RespEntry, TypeOK
  <2>6. QED
    BY <1>18, <2>1, <2>4, <2>5 DEF RespEntry, TypeOK, Lines
<1>19. ASSUME NEW r \in {"ok", "err"}, RespEnd(r) PROVE TypeOK'
  <2>1. wire' \in Seq(Lines)
    BY <1>14, <1>19 DEF RespEnd
  <2>2. evt' \in {Server, NoCb} /\ heard' \in BOOLEAN
    BY <1>19 DEF RespEnd, TCPserverEn, TypeOK
  <2>3. QED
    BY <1>19, <2>1, <2>2 DEF RespEnd, TypeOK, Lines
<1>20. CASE UNCHANGED vars
  BY <1>20 DEF vars, TypeOK
<1>21. QED
  BY <1>3, <1>4, <1>5, <1>6, <1>7, <1>9, <1>10, <1>11, <1>12, <1>13, <1>15, <1>16,
     <1>17, <1>18, <1>19, <1>20 DEF Next, AppStep, RespStep

\* Type correctness, for any number of connections, applications and clients.
THEOREM ConnTypeCorrect == Spec => []TypeOK
<1>1. QED
  BY InitType, TypeStep, PTL DEF Spec

-----------------------------------------------------------------------------
(* Commands and answers keep together when none is carried out late.       *)

LEMMA InitOrder == Init => OrderInv
<1> SUFFICES ASSUME Init PROVE OrderInv
  OBVIOUS
<1>1. wire = <<>> /\ DOMAIN wire = {} /\ inbox = <<>> /\ ~heard
  BY DEF Init
<1>2. CmdInv /\ AnswerInv
  BY <1>1 DEF CmdInv, AnswerInv
<1>3. QED
  BY <1>2, InitType DEF OrderInv

\* Nothing of an answer is on the wire without its end.
LEMMA NoAnswers ==
  ASSUME AnswerInv, \A i \in DOMAIN wire : ~Ends(wire[i])
  PROVE  \A i \in DOMAIN wire : ~Answers(wire[i])
  BY DEF AnswerInv

\* A step that parses the first line, which ends nothing.
LEMMA OrderParse ==
  ASSUME CmdInv, AnswerInv, wire \in Seq(Lines), wire # <<>>, ~Ends(Head(wire)),
         wire' = Tail(wire), UNCHANGED <<cur, heard, inbox>>
  PROVE  CmdInv' /\ AnswerInv'
<1>1. /\ Head(wire) = wire[1] /\ Len(wire) \in Nat /\ Len(wire) >= 1
      /\ DOMAIN wire = 1..Len(wire) /\ DOMAIN wire' = 1..(Len(wire) - 1)
      /\ \A i \in 1..(Len(wire) - 1) : i + 1 \in 1..Len(wire) /\ wire'[i] = wire[i + 1]
      /\ \A i \in 1..Len(wire) : i # 1 =>
           i - 1 \in 1..(Len(wire) - 1) /\ wire'[i - 1] = wire[i]
  BY Parsed
<1>2. ASSUME NEW i \in DOMAIN wire', Ends(wire'[i])
      PROVE  /\ cur # NoCmd /\ ~heard /\ inbox = <<>>
             /\ \A j \in DOMAIN wire' : Ends(wire'[j]) => i = j
  <2>1. i + 1 \in DOMAIN wire /\ Ends(wire[i + 1])
    BY <1>1, <1>2
  <2>2. ASSUME NEW j \in DOMAIN wire', Ends(wire'[j]) PROVE i = j
    <3>1. j + 1 \in DOMAIN wire /\ Ends(wire[j + 1])
      BY <1>1, <2>2
    <3>2. i + 1 = j + 1
      BY <2>1, <3>1 DEF CmdInv
    <3>3. QED
      BY <1>1, <3>2
  <2>3. QED
    BY <2>1, <2>2 DEF CmdInv
<1>3. CmdInv'
  BY <1>2 DEF CmdInv
<1>4. ASSUME NEW i \in DOMAIN wire', Answers(wire'[i])
      PROVE  /\ IsToCur(wire'[i])
             /\ \E j \in DOMAIN wire' : i < j /\ Ends(wire'[j])
  <2>1. i + 1 \in DOMAIN wire /\ wire'[i] = wire[i + 1]
    BY <1>1
  <2>2. IsToCur(wire[i + 1]) /\ \E j \in DOMAIN wire : i + 1 < j /\ Ends(wire[j])
    BY <1>4, <2>1 DEF AnswerInv
  <2>3. PICK j \in DOMAIN wire : i + 1 < j /\ Ends(wire[j])
    BY <2>2
  <2>4. j # 1 /\ i < j - 1
    BY <1>1, <2>3
  <2>5. j - 1 \in DOMAIN wire' /\ wire'[j - 1] = wire[j]
    BY <1>1, <2>4
  <2>6. QED
    BY <2>1, <2>2, <2>3, <2>4, <2>5
<1>5. AnswerInv'
  BY <1>4 DEF AnswerInv, IsToCur
<1>6. QED
  BY <1>3, <1>5

\* A step that sends one line that is no part of an answer.
LEMMA OrderUnasked ==
  ASSUME CmdInv, AnswerInv, wire \in Seq(Lines), NEW e \in Lines,
         <<e>> \in Seq(Lines), DOMAIN <<e>> = 1..1, <<e>>[1] = e,
         ~Ends(e), ~Answers(e), wire' = wire \o <<e>>, UNCHANGED <<cur, heard, inbox>>
  PROVE  CmdInv' /\ AnswerInv'
<1> DEFINE w == <<e>>
<1>1. w \in Seq(Lines) /\ DOMAIN w = 1..1 /\ w[1] = e /\ wire' = wire \o w
  OBVIOUS
<1> HIDE DEF w
<1>2. /\ DOMAIN wire = 1..Len(wire) /\ DOMAIN w = 1..Len(w)
      /\ Len(wire) \in Nat /\ Len(w) \in Nat
      /\ DOMAIN wire' = 1..(Len(wire) + Len(w))
      /\ \A i \in 1..Len(wire) : wire'[i] = wire[i]
      /\ \A i \in 1..(Len(wire) + Len(w)) : i \notin 1..Len(wire) =>
           i - Len(wire) \in 1..Len(w) /\ wire'[i] = w[i - Len(wire)]
  BY <1>1, Said
<1>3. \A i \in DOMAIN wire : i \in DOMAIN wire' /\ wire'[i] = wire[i]
  BY <1>2
<1>4. \A i \in DOMAIN wire' : i \notin DOMAIN wire => wire'[i] = e
  BY <1>1, <1>2
<1>5. \A i \in DOMAIN wire' : Ends(wire'[i]) \/ Answers(wire'[i]) =>
        i \in DOMAIN wire /\ wire'[i] = wire[i]
  BY <1>3, <1>4
<1>6. CmdInv'
  BY <1>5 DEF CmdInv
<1>7. AnswerInv'
  BY <1>3, <1>5 DEF AnswerInv, IsToCur
<1>8. QED
  BY <1>6, <1>7

\* A step that leaves the wire alone when nothing of an answer is on it.
LEMMA OrderQuiet ==
  ASSUME AnswerInv, \A i \in DOMAIN wire : ~Ends(wire[i]), wire' = wire,
         cur' = NoCmd => ~heard' /\ inbox' = <<>>,
         inbox' # <<>> => ~heard' /\ Len(inbox') = 1
                     /\ inbox'[1].cmd = cur'.cmd /\ inbox'[1].app = cur'.app
  PROVE  CmdInv' /\ AnswerInv'
<1>1. \A i \in DOMAIN wire : ~Answers(wire[i])
  BY NoAnswers
<1>2. QED
  BY <1>1 DEF CmdInv, AnswerInv

LEMMA OrderAnswer ==
  ASSUME TypeOK, CmdInv, AnswerInv, DevCommand
  PROVE  CmdInv' /\ AnswerInv'
<1>1. wire \in Seq(Lines) /\ inbox \in Seq(Inputs)
  BY DEF TypeOK, Lines, Inputs
<1>2. PICK c \in Inputs, w \in Seq(Lines) :
        /\ inbox # <<>> /\ c = inbox[1] /\ inbox' = Tail(inbox)
        /\ Len(w) \in Nat /\ Len(w) >= 1 /\ wire' = wire \o w /\ OneAnswer(w, c)
  BY DevSays
<1>3. cur # NoCmd /\ ~heard /\ Len(inbox) = 1 /\ c.cmd = cur.cmd /\ c.app = cur.app
  BY <1>2 DEF CmdInv
<1>4. inbox' = <<>>
  <2>1. Tail(inbox) \in Seq(Inputs) /\ Len(Tail(inbox)) = 0
    BY <1>1, <1>2, <1>3, HeadTailProperties
  <2>2. QED
    BY <1>2, <2>1, EmptySeq
<1>5. UNCHANGED <<cur, heard>>
  BY DEF DevCommand
<1>6. \A i \in DOMAIN wire : ~Ends(wire[i]) /\ ~Answers(wire[i])
  BY <1>2, NoAnswers DEF CmdInv
<1>7. /\ DOMAIN wire = 1..Len(wire) /\ DOMAIN w = 1..Len(w) /\ Len(wire) \in Nat
      /\ DOMAIN wire' = 1..(Len(wire) + Len(w))
      /\ \A i \in 1..Len(wire) : wire'[i] = wire[i]
      /\ \A i \in 1..Len(w) : wire'[Len(wire) + i] = w[i]
      /\ \A i \in 1..(Len(wire) + Len(w)) : i \notin 1..Len(wire) =>
           i - Len(wire) \in 1..Len(w) /\ wire'[i] = w[i - Len(wire)]
  BY <1>1, <1>2, Said
<1> DEFINE n == Len(wire) + Len(w)
<1>8. n \in DOMAIN wire' /\ Ends(wire'[n])
  <2>1. Len(w) \in DOMAIN w /\ n \in DOMAIN wire'
    BY <1>2, <1>7
  <2>2. Ends(w[Len(w)])
    BY <1>2, <2>1 DEF OneAnswer
  <2>3. QED
    BY <1>7, <2>1, <2>2
<1>9. ASSUME NEW i \in DOMAIN wire', Ends(wire'[i]) PROVE i = n
  <2>1. i \notin DOMAIN wire
    BY <1>6, <1>7, <1>9
  <2>2. i - Len(wire) \in DOMAIN w /\ Ends(w[i - Len(wire)])
    BY <1>7, <1>9, <2>1
  <2>3. i - Len(wire) = Len(w)
    BY <1>2, <2>2 DEF OneAnswer
  <2>4. i \in Nat /\ Len(wire) \in Nat /\ Len(w) \in Nat
    BY <1>2, <1>7
  <2>5. QED
    BY <2>3, <2>4
<1>10. ASSUME NEW i \in DOMAIN wire', Answers(wire'[i])
       PROVE  IsToCur(wire'[i]) /\ i < n
  <2>1. i \notin DOMAIN wire
    BY <1>6, <1>7, <1>10
  <2>2. PICK k \in DOMAIN w : k = i - Len(wire) /\ wire'[i] = w[k]
    BY <1>7, <2>1
  <2>3. ~Ends(w[k])
    BY <1>10, <2>2 DEF Answers, Ends
  <2>4. k # Len(w)
    BY <1>2, <2>3 DEF OneAnswer
  <2>5. i < n
    BY <1>2, <1>7, <2>2, <2>4
  <2>6. IF w[k].kind = "up" THEN c.cmd = "start" /\ c.app = w[k].own ELSE c.cmd = "status"
    BY <1>2, <1>10, <2>2 DEF OneAnswer
  <2>7. QED
    BY <1>3, <2>2, <2>5, <2>6 DEF IsToCur
<1> HIDE DEF n
<1>11. CmdInv'
  BY <1>3, <1>4, <1>5, <1>9 DEF CmdInv
<1>12. AnswerInv'
  BY <1>5, <1>8, <1>10 DEF AnswerInv, IsToCur
<1>13. QED
  BY <1>11, <1>12

LEMMA OrderEnd ==
  ASSUME TypeOK, CmdInv, AnswerInv, NEW r \in {"ok", "err"}, RespEnd(r)
  PROVE  CmdInv' /\ AnswerInv'
<1>1. wire \in Seq(Lines) /\ wire # <<>> /\ Head(wire).kind = r /\ wire' = Tail(wire)
  BY DEF TypeOK, Lines, RespEnd, Hears
<1>2. /\ Head(wire) = wire[1] /\ Len(wire) \in Nat /\ Len(wire) >= 1
      /\ DOMAIN wire = 1..Len(wire) /\ DOMAIN wire' = 1..(Len(wire) - 1)
      /\ \A i \in 1..(Len(wire) - 1) : i + 1 \in 1..Len(wire) /\ wire'[i] = wire[i + 1]
  BY <1>1, Parsed
<1>3. 1 \in DOMAIN wire /\ Ends(wire[1])
  BY <1>1, <1>2 DEF Ends
<1>4. cur # NoCmd /\ inbox = <<>> /\ \A j \in DOMAIN wire : Ends(wire[j]) => j = 1
  BY <1>3 DEF CmdInv
<1>5. UNCHANGED <<cur, inbox>>
  BY DEF RespEnd
<1>6. ASSUME NEW i \in DOMAIN wire' PROVE ~Ends(wire'[i]) /\ ~Answers(wire'[i])
  <2>1. i + 1 \in DOMAIN wire /\ wire'[i] = wire[i + 1] /\ i + 1 # 1
    BY <1>2
  <2>2. ~Ends(wire[i + 1])
    BY <1>4, <2>1
  <2>3. ASSUME Answers(wire[i + 1]) PROVE FALSE
    <3>1. PICK j \in DOMAIN wire : i + 1 < j /\ Ends(wire[j])
      BY <2>1, <2>3 DEF AnswerInv
    <3>2. j = 1
      BY <1>4, <3>1
    <3>3. QED
      BY <1>2, <3>1, <3>2
  <2>4. QED
    BY <2>1, <2>2, <2>3
<1>7. QED
  BY <1>4, <1>5, <1>6 DEF CmdInv, AnswerInv

LEMMA OrderStep == ~Late /\ OrderInv /\ [Next]_vars => OrderInv'
<1> SUFFICES ASSUME ~Late, OrderInv, [Next]_vars PROVE CmdInv' /\ AnswerInv'
  BY TypeStep DEF OrderInv
<1>1. TypeOK /\ CmdInv /\ AnswerInv /\ wire \in Seq(Lines)
  BY DEF OrderInv, TypeOK, Lines
<1>2. ASSUME UNCHANGED <<cur, heard, inbox, wire>> PROVE CmdInv' /\ AnswerInv'
  BY <1>1, <1>2 DEF CmdInv, AnswerInv, IsToCur
<1>3. ASSUME NEW a \in Apps, \/ AppPick(a) \/ AppStart(a) \/ AppClose(a) \/ AppStatus(a)
                             \/ AppServer(a) \/ AppDelete(a)
      PROVE  CmdInv' /\ AnswerInv'
  BY <1>2, <1>3 DEF AppPick, AppStart, AppClose, AppStatus, AppServer, AppDelete
<1>4. ASSUME NEW a \in Apps, ReqSend(a) PROVE CmdInv' /\ AnswerInv'
  <2>1. /\ cur = NoCmd /\ apc[a] \in CmdKinds /\ cur' = Command(apc[a], a) /\ heard' = FALSE
        /\ inbox' = Append(inbox, [cmd |-> apc[a], app |-> a, slot |-> slot[a]])
        /\ wire' = wire
    BY <1>4 DEF ReqSend
  <2>2. inbox = <<>> /\ \A i \in DOMAIN wire : ~Ends(wire[i])
    BY <1>1, <2>1 DEF CmdInv
  <2>3. /\ inbox' = <<[cmd |-> apc[a], app |-> a, slot |-> slot[a]]>>
        /\ cur'.cmd = apc[a] /\ cur'.app = a
    BY <2>1, <2>2 DEF Command
  <2>4. Len(inbox') = 1 /\ inbox'[1].cmd = cur'.cmd /\ inbox'[1].app = cur'.app
    BY <2>3
  <2>5. cur' # NoCmd
    BY <2>1, <2>3 DEF NoCmd, Command, CmdKinds
  <2>6. QED
    BY <1>1, <2>1, <2>2, <2>4, <2>5, OrderQuiet
<1>5. CASE ReqDone
  <2>1. heard /\ cur' = NoCmd /\ ~heard' /\ inbox' = inbox /\ wire' = wire
    BY <1>5 DEF ReqDone
  <2>2. inbox = <<>> /\ \A i \in DOMAIN wire : ~Ends(wire[i])
    BY <1>1, <2>1 DEF CmdInv
  <2>3. QED
    BY <1>1, <2>1, <2>2, OrderQuiet
<1>6. CASE ReqTimeout
  <2>1. ~heard' /\ inbox # <<>> /\ inbox' = <<>> /\ wire' = wire
    BY <1>6 DEF ReqTimeout
  <2>2. \A i \in DOMAIN wire : ~Ends(wire[i])
    BY <1>1, <2>1 DEF CmdInv
  <2>3. QED
    BY <1>1, <2>1, <2>2, OrderQuiet
<1>7. CASE DevCommand
  BY <1>1, <1>7, OrderAnswer
<1>8. CASE DevVisit
  <2>1. PICK e \in Lines : /\ wire' = wire \o <<e>> /\ e.kind = "up" /\ e.own = Server
                           /\ <<e>> \in Seq(Lines) /\ DOMAIN <<e>> = 1..1 /\ <<e>>[1] = e
    BY <1>1, <1>8, VisitSays
  <2>2. ~Ends(e) /\ ~Answers(e)
    BY <2>1 DEF Ends, Answers
  <2>3. UNCHANGED <<cur, heard, inbox>>
    BY <1>8 DEF DevVisit
  <2>4. QED
    BY <1>1, <2>1, <2>2, <2>3, OrderUnasked
<1>9. CASE DevHangup
  <2>1. PICK e \in Lines : /\ wire' = wire \o <<e>> /\ e.kind = "down"
                           /\ <<e>> \in Seq(Lines) /\ DOMAIN <<e>> = 1..1 /\ <<e>>[1] = e
    BY <1>1, <1>9, HangupSays
  <2>2. ~Ends(e) /\ ~Answers(e)
    BY <2>1 DEF Ends, Answers
  <2>3. UNCHANGED <<cur, heard, inbox>>
    BY <1>9 DEF DevHangup
  <2>4. QED
    BY <1>1, <2>1, <2>2, <2>3, OrderUnasked
<1>10. ASSUME NEW k \in {"up", "down", "status", "entry"}, Hears(k),
              UNCHANGED <<cur, heard, inbox>>
       PROVE  CmdInv' /\ AnswerInv'
  <2>1. wire # <<>> /\ ~Ends(Head(wire)) /\ wire' = Tail(wire)
    BY <1>10 DEF Hears, Ends
  <2>2. QED
    BY <1>1, <1>10, <2>1, OrderParse
<1>11. CASE RespUp \/ RespDown \/ RespStatus \/ RespEntry
  BY <1>10, <1>11 DEF RespUp, RespDown, RespStatus, RespEntry
<1>12. ASSUME NEW r \in {"ok", "err"}, RespEnd(r) PROVE CmdInv' /\ AnswerInv'
  BY <1>1, <1>12, OrderEnd
<1>13. CASE UNCHANGED vars
  BY <1>2, <1>13 DEF vars
<1>14. QED
  BY <1>3, <1>4, <1>5, <1>6, <1>7, <1>8, <1>9, <1>11, <1>12, <1>13
     DEF Next, AppStep, RespStep

-----------------------------------------------------------------------------
(* evt_server.                                                             *)

LEMMA InitServe == Init => ServeInv
<1> SUFFICES ASSUME Init PROVE ServeInv
  OBVIOUS
<1>1. DOMAIN wire = {} /\ ~serving /\ evt # Server
  BY ConnAssumption DEF Init
<1>2. QED
  BY <1>1 DEF ServeInv, Turned

LEMMA TurnsEnds == \A e, k : Turns(e, k) => Ends(e)
  BY DEF Turns, Ends

\* No answer is on the wire and none is sent.
LEMMA ServeQuiet ==
  ASSUME ServeInv, \A i \in DOMAIN wire : ~Ends(wire[i]), UNCHANGED <<wire, evt, serving>>
  PROVE  ServeInv'
<1>1. \A n, k : ~Turned(wire, k, n)
  BY TurnsEnds DEF Turned
<1>2. QED
  BY <1>1 DEF ServeInv

LEMMA ServeUnasked ==
  ASSUME ServeInv, wire \in Seq(Lines), NEW e \in Lines,
         <<e>> \in Seq(Lines), DOMAIN <<e>> = 1..1, <<e>>[1] = e,
         ~Ends(e), e.kind = "up" => serving,
         wire' = wire \o <<e>>, UNCHANGED <<cur, evt, serving>>
  PROVE  ServeInv'
<1> DEFINE w == <<e>>
<1>1. w \in Seq(Lines) /\ DOMAIN w = 1..1 /\ w[1] = e /\ wire' = wire \o w
  OBVIOUS
<1>2. Len(w) = 1
  BY OneLine
<1> HIDE DEF w
<1>3. /\ DOMAIN wire = 1..Len(wire) /\ Len(wire) \in Nat
      /\ Len(wire') = Len(wire) + 1 /\ DOMAIN wire' = 1..(Len(wire) + 1)
      /\ \A i \in 1..Len(wire) : wire'[i] = wire[i]
      /\ wire'[Len(wire) + 1] = e
  <2>1. /\ DOMAIN wire = 1..Len(wire) /\ Len(wire) \in Nat
        /\ Len(wire') = Len(wire) + Len(w) /\ DOMAIN wire' = 1..(Len(wire) + Len(w))
        /\ \A i \in 1..Len(wire) : wire'[i] = wire[i]
        /\ \A i \in 1..Len(w) : wire'[Len(wire) + i] = w[i]
    BY <1>1, Said
  <2>2. 1 \in 1..Len(w)
    BY <1>2
  <2>3. QED
    BY <1>1, <1>2, <2>1, <2>2
<1> DEFINE k == cur.cmd
<1>4. cur'.cmd = k /\ evt' = evt /\ serving' = serving
  OBVIOUS
<1>5. ~Turns(e, k)
  BY TurnsEnds
<1>6. \A n \in Nat : Turned(wire', k, n) <=> Turned(wire, k, n)
  <2>1. SUFFICES ASSUME NEW n \in Nat PROVE Turned(wire', k, n) <=> Turned(wire, k, n)
    OBVIOUS
  <2>2. ASSUME NEW j \in DOMAIN wire', j < n, Turns(wire'[j], k)
        PROVE  j \in DOMAIN wire /\ Turns(wire[j], k)
    BY <1>3, <1>5, <2>2
  <2>3. ASSUME NEW j \in DOMAIN wire, j < n, Turns(wire[j], k)
        PROVE  j \in DOMAIN wire' /\ Turns(wire'[j], k)
    BY <1>3, <2>3
  <2>4. QED
    BY <1>4, <2>2, <2>3 DEF Turned
<1>7. Turned(wire, k, Len(wire) + 2) <=> Turned(wire, k, Len(wire) + 1)
  BY <1>3 DEF Turned
<1>8. Turned(wire', k, Len(wire') + 1) <=> Turned(wire, k, Len(wire) + 1)
  <2>1. Len(wire') + 1 = Len(wire) + 2 /\ Len(wire) + 2 \in Nat
    BY <1>3
  <2>2. QED
    BY <1>6, <1>7, <2>1
<1>9. ASSUME NEW i \in DOMAIN wire', wire'[i].kind = "up", wire'[i].own = Server
      PROVE  IF Turned(wire, k, i) THEN cur.cmd = "serve" ELSE evt = Server
  <2>1. CASE i \in DOMAIN wire
    BY <1>3, <1>9, <2>1 DEF ServeInv
  <2>2. CASE i \notin DOMAIN wire
    <3>1. i = Len(wire) + 1 /\ serving
      BY <1>3, <1>9, <2>2
    <3>2. QED
      BY <3>1 DEF ServeInv
  <2>3. QED
    BY <2>1, <2>2
<1>10. ASSUME NEW i \in DOMAIN wire' PROVE Turned(wire', k, i) <=> Turned(wire, k, i)
  <2>1. i \in Nat
    BY <1>3
  <2>2. QED
    BY <1>6, <2>1
<1>11. IF Turned(wire', k, Len(wire') + 1) THEN serving <=> cur.cmd = "serve"
                                        ELSE serving <=> evt = Server
  BY <1>8 DEF ServeInv
<1>12. QED
  BY <1>9, <1>10, <1>11 DEF ServeInv

LEMMA ServeParse ==
  ASSUME ServeInv, wire \in Seq(Lines), wire # <<>>, ~Ends(Head(wire)),
         wire' = Tail(wire), UNCHANGED <<cur, evt, serving>>
  PROVE  ServeInv'
<1>1. /\ Head(wire) = wire[1] /\ Len(wire) \in Nat /\ Len(wire) >= 1
      /\ Len(wire') = Len(wire) - 1
      /\ DOMAIN wire = 1..Len(wire) /\ DOMAIN wire' = 1..(Len(wire) - 1)
      /\ \A i \in 1..(Len(wire) - 1) : i + 1 \in 1..Len(wire) /\ wire'[i] = wire[i + 1]
      /\ \A i \in 1..Len(wire) : i # 1 =>
           i - 1 \in 1..(Len(wire) - 1) /\ wire'[i - 1] = wire[i]
  BY Parsed
<1> DEFINE k == cur.cmd
<1>2. cur'.cmd = k /\ evt' = evt /\ serving' = serving
  OBVIOUS
<1>3. ~Turns(wire[1], k)
  BY <1>1, TurnsEnds
<1>4. ASSUME NEW n \in Nat PROVE Turned(wire', k, n) <=> Turned(wire, k, n + 1)
  <2>1. ASSUME NEW j \in DOMAIN wire', j < n, Turns(wire'[j], k)
        PROVE  j + 1 \in DOMAIN wire /\ j + 1 < n + 1 /\ Turns(wire[j + 1], k)
    BY <1>1, <2>1
  <2>2. ASSUME NEW j \in DOMAIN wire, j < n + 1, Turns(wire[j], k)
        PROVE  j - 1 \in DOMAIN wire' /\ j - 1 < n /\ Turns(wire'[j - 1], k)
    <3>1. j # 1
      BY <1>3, <2>2
    <3>2. QED
      BY <1>1, <2>2, <3>1
  <2>3. QED
    BY <1>2, <2>1, <2>2 DEF Turned
<1>5. Turned(wire', k, Len(wire') + 1) <=> Turned(wire, k, Len(wire) + 1)
  <2>1. Len(wire') + 1 = Len(wire)
    BY <1>1
  <2>2. QED
    BY <1>1, <1>4, <2>1
<1>6. ASSUME NEW i \in DOMAIN wire', wire'[i].kind = "up", wire'[i].own = Server
      PROVE  IF Turned(wire', k, i) THEN cur.cmd = "serve" ELSE evt = Server
  <2>1. i \in Nat /\ i + 1 \in DOMAIN wire /\ wire'[i] = wire[i + 1]
    BY <1>1
  <2>2. IF Turned(wire, k, i + 1) THEN cur.cmd = "serve" ELSE evt = Server
    BY <1>6, <2>1 DEF ServeInv
  <2>3. QED
    BY <1>4, <2>1, <2>2
<1>7. IF Turned(wire', k, Len(wire') + 1) THEN serving <=> cur.cmd = "serve"
                                       ELSE serving <=> evt = Server
  BY <1>5 DEF ServeInv
<1>8. QED
  BY <1>6, <1>7 DEF ServeInv

LEMMA ServeEnd ==
  ASSUME TypeOK, CmdInv, ServeInv, NEW r \in {"ok", "err"}, RespEnd(r)
  PROVE  ServeInv'
<1> DEFINE k == cur.cmd
<1>1. wire \in Seq(Lines) /\ wire # <<>> /\ Head(wire).kind = r /\ wire' = Tail(wire)
  BY DEF TypeOK, Lines, RespEnd, Hears
<1>2. /\ Head(wire) = wire[1] /\ Len(wire) \in Nat /\ Len(wire) >= 1
      /\ DOMAIN wire = 1..Len(wire) /\ DOMAIN wire' = 1..(Len(wire) - 1)
      /\ \A i \in 1..(Len(wire) - 1) : i + 1 \in 1..Len(wire) /\ wire'[i] = wire[i + 1]
  BY <1>1, Parsed
<1>3. 1 \in DOMAIN wire /\ Ends(wire[1])
  BY <1>1, <1>2 DEF Ends
<1>4. \A j \in DOMAIN wire : Ends(wire[j]) => j = 1
  BY <1>3 DEF CmdInv
<1>5. UNCHANGED <<cur, serving>>
  BY DEF RespEnd
<1>6. ASSUME NEW i \in DOMAIN wire' PROVE ~Ends(wire'[i])
  <2>1. i + 1 \in DOMAIN wire /\ wire'[i] = wire[i + 1] /\ i + 1 # 1
    BY <1>2
  <2>2. QED
    BY <1>4, <2>1
<1>7. \A n : ~Turned(wire', k, n)
  BY <1>6 DEF Turned, Turns, Ends
<1>8. \A n \in Nat : n > 1 => (Turned(wire, k, n) <=> Turns(wire[1], k))
  BY <1>3, <1>4, TurnsEnds DEF Turned
<1>9. Turns(wire[1], k) <=> r = "ok" /\ cur.cmd \in {"serve", "unserve"}
  BY <1>1, <1>2 DEF Turns
<1>10. IF Turns(wire[1], k) THEN evt' = Server <=> cur.cmd = "serve" ELSE evt' = evt
  <2>1. evt' = TCPserverEn(r)
    BY DEF RespEnd
  <2>2. CASE r = "ok" /\ cur.cmd = "serve"
    BY <1>9, <2>1, <2>2 DEF TCPserverEn
  <2>3. CASE r = "ok" /\ cur.cmd = "unserve"
    BY <1>9, <2>1, <2>3, ConnAssumption DEF TCPserverEn
  <2>4. CASE ~(r = "ok" /\ cur.cmd \in {"serve", "unserve"})
    BY <1>9, <2>1, <2>4 DEF TCPserverEn
  <2>5. QED
    BY <2>2, <2>3, <2>4
<1>11. serving <=> evt' = Server
  <2>1. Len(wire) + 1 \in Nat /\ Len(wire) + 1 > 1
    BY <1>2
  <2>2. IF Turns(wire[1], k) THEN serving <=> cur.cmd = "serve" ELSE serving <=> evt = Server
    BY <1>8, <2>1 DEF ServeInv
  <2>3. QED
    BY <1>10, <2>2
<1>12. ASSUME NEW i \in DOMAIN wire', wire'[i].kind = "up", wire'[i].own = Server
       PROVE  evt' = Server
  <2>1. i + 1 \in DOMAIN wire /\ wire'[i] = wire[i + 1] /\ i + 1 \in Nat /\ i + 1 > 1
    BY <1>2
  <2>2. IF Turned(wire, k, i + 1) THEN cur.cmd = "serve" ELSE evt = Server
    BY <1>12, <2>1 DEF ServeInv
  <2>3. QED
    BY <1>8, <1>10, <2>1, <2>2
<1>13. QED
  BY <1>5, <1>7, <1>11, <1>12 DEF ServeInv

LEMMA ServeAnswer ==
  ASSUME TypeOK, CmdInv, ServeInv, DevCommand
  PROVE  ServeInv'
<1> DEFINE k == cur.cmd
<1>1. wire \in Seq(Lines)
  BY DEF TypeOK, Lines
<1>2. PICK c \in Inputs, w \in Seq(Lines) :
        /\ inbox # <<>> /\ c = inbox[1]
        /\ Len(w) \in Nat /\ Len(w) >= 1 /\ wire' = wire \o w /\ OneAnswer(w, c)
        /\ IF w[Len(w)].kind = "ok" /\ c.cmd \in {"serve", "unserve"}
             THEN serving' <=> c.cmd = "serve" ELSE serving' = serving
  BY DevSays
<1>3. c.cmd = cur.cmd /\ UNCHANGED <<cur, evt>>
  BY <1>2 DEF CmdInv, DevCommand
<1>4. \A i \in DOMAIN wire : ~Ends(wire[i])
  BY <1>2 DEF CmdInv
<1>5. /\ DOMAIN wire = 1..Len(wire) /\ DOMAIN w = 1..Len(w) /\ Len(wire) \in Nat
      /\ Len(wire') = Len(wire) + Len(w) /\ DOMAIN wire' = 1..(Len(wire) + Len(w))
      /\ \A i \in 1..Len(wire) : wire'[i] = wire[i]
      /\ \A i \in 1..Len(w) : wire'[Len(wire) + i] = w[i]
      /\ \A i \in 1..(Len(wire) + Len(w)) : i \notin 1..Len(wire) =>
           i - Len(wire) \in 1..Len(w) /\ wire'[i] = w[i - Len(wire)]
  BY <1>1, <1>2, Said
<1>6. \A n : ~Turned(wire, k, n)
  BY <1>4 DEF Turned, Turns, Ends
<1>7. serving <=> evt = Server
  BY <1>6 DEF ServeInv
<1>8. ASSUME NEW i \in DOMAIN wire', wire'[i].kind = "up", wire'[i].own = Server
      PROVE  evt' = Server /\ ~Turned(wire', k, i)
  <2>1. i \in DOMAIN wire
    <3>1. SUFFICES ASSUME i \notin DOMAIN wire PROVE FALSE
      OBVIOUS
    <3>2. PICK j \in DOMAIN w : wire'[i] = w[j]
      BY <1>5, <3>1
    <3>3. QED
      BY <1>2, <1>8, <3>2 DEF OneAnswer
  <2>2. evt = Server
    BY <1>5, <1>6, <1>8, <2>1 DEF ServeInv
  <2>3. ASSUME NEW j \in DOMAIN wire', j < i PROVE ~Ends(wire'[j])
    BY <1>4, <1>5, <2>1, <2>3
  <2>4. QED
    BY <1>3, <2>2, <2>3 DEF Turned, Turns, Ends
<1>9. Turned(wire', k, Len(wire') + 1) <=> w[Len(w)].kind = "ok" /\ c.cmd \in {"serve", "unserve"}
  <2> DEFINE n == Len(wire) + Len(w)
  <2>1. n \in DOMAIN wire' /\ wire'[n] = w[Len(w)] /\ n < Len(wire') + 1
    BY <1>2, <1>5
  <2>2. ASSUME NEW j \in DOMAIN wire', Ends(wire'[j]) PROVE j = n
    <3>1. j \notin DOMAIN wire
      BY <1>4, <1>5, <2>2
    <3>2. j - Len(wire) \in DOMAIN w /\ Ends(w[j - Len(wire)])
      BY <1>5, <2>2, <3>1
    <3>3. j - Len(wire) = Len(w)
      BY <1>2, <3>2 DEF OneAnswer
    <3>4. j \in Nat /\ Len(wire) \in Nat /\ Len(w) \in Nat
      BY <1>2, <1>5
    <3>5. QED
      BY <3>3, <3>4
  <2>3. Turns(wire'[n], k) <=> w[Len(w)].kind = "ok" /\ c.cmd \in {"serve", "unserve"}
    BY <1>3, <2>1 DEF Turns
  <2>4. QED
    BY <2>1, <2>2, <2>3, TurnsEnds DEF Turned
<1>10. IF Turned(wire', k, Len(wire') + 1) THEN serving' <=> cur'.cmd = "serve"
                                        ELSE serving' <=> evt' = Server
  BY <1>2, <1>3, <1>7, <1>9
<1>11. QED
  BY <1>3, <1>8, <1>10 DEF ServeInv

-----------------------------------------------------------------------------
(* The table.                                                              *)

LEMMA InitTable == Init => WireInv /\ TableInv /\ RoleInv
<1> SUFFICES ASSUME Init PROVE WireInv /\ TableInv /\ RoleInv
  OBVIOUS
<1>1. /\ DOMAIN wire = {} /\ bits = {}
      /\ \A l \in Links : ~conn[l].active /\ link[l] = Closed
  BY DEF Init, ZeroConn
<1>2. WireInv
  BY <1>1 DEF WireInv, LastGood
<1>3. QED
  BY <1>1, <1>2 DEF TableInv, RoleInv, ActiveInv, BitInv, CbInv, ClientInv, IsOpen

\* What the device sends leaves alone only what it has not changed.
LEMMA DevWire ==
  ASSUME TypeOK, WireInv, DevCommand \/ DevVisit \/ DevHangup
  PROVE  /\ WireInv' /\ UNCHANGED <<conn, bits>>
         /\ \A l \in Links : \A T \in SetsOf(l) :
              Untouched(wire', T) => Untouched(wire, T) /\ link'[l] = link[l]
<1>1. wire \in Seq(Lines)
  BY DEF TypeOK, Lines
<1>2. PICK w \in Seq(Lines) :
        /\ wire' = wire \o w /\ \A l \in Links : Tells(w, l, link[l], link'[l])
  <2>1. CASE DevCommand
    BY <2>1, DevSays
  <2>2. CASE DevVisit
    BY <2>2, VisitSays
  <2>3. CASE DevHangup
    BY <2>3, HangupSays
  <2>4. QED
    BY <2>1, <2>2, <2>3
<1>3. ASSUME NEW l \in Links, NEW T \in SetsOf(l)
      PROVE  /\ LastGood(wire', T, Right(link'[l]))
             /\ Untouched(wire', T) => Untouched(wire, T) /\ link'[l] = link[l]
  <2>1. (Untouched(w, T) => link'[l] = link[l]) /\ LastGood(w, T, Right(link'[l]))
    BY <1>2 DEF Tells
  <2>2. LastGood(wire, T, Right(link[l]))
    BY DEF WireInv
  <2>3. /\ LastGood(wire \o w, T, Right(link'[l]))
        /\ Untouched(wire \o w, T) => Untouched(wire, T) /\ Untouched(w, T)
    BY <1>1, <2>1, <2>2, LastSaid
  <2>4. QED
    BY <1>2, <2>1, <2>3
<1>4. WireInv'
  BY <1>3 DEF WireInv
<1>5. UNCHANGED <<conn, bits>>
  BY DEF DevCommand, DevVisit, DevHangup
<1>6. QED
  BY <1>3, <1>4, <1>5

\* What is left alone once a line is parsed was set by it, or left alone before.
LEMMA RespWire ==
  ASSUME TypeOK, WireInv, NEW k, Hears(k), link' = link, NEW e, e = Head(wire)
  PROVE  /\ WireInv' /\ e \in Lines /\ e.kind = k /\ 1 \in DOMAIN wire /\ wire[1] = e
         /\ \A l \in Links : \A T \in SetsOf(l) :
              Untouched(wire', T) =>
                IF e \in T THEN e \in Right(link[l]) ELSE Untouched(wire, T)
<1>1. wire \in Seq(Lines) /\ wire # <<>> /\ wire' = Tail(wire) /\ e.kind = k
  BY DEF TypeOK, Lines, Hears
<1>2. e \in Lines /\ 1 \in DOMAIN wire /\ wire[1] = e
  BY <1>1, Parsed
<1>3. ASSUME NEW l \in Links, NEW T \in SetsOf(l)
      PROVE  /\ LastGood(wire', T, Right(link[l]))
             /\ Untouched(wire', T) =>
                  IF e \in T THEN e \in Right(link[l]) ELSE Untouched(wire, T)
  <2>1. LastGood(wire, T, Right(link[l]))
    BY DEF WireInv
  <2>2. QED
    BY <1>1, <2>1, LastTail
<1>4. WireInv'
  BY <1>3 DEF WireInv
<1>5. QED
  BY <1>1, <1>2, <1>3, <1>4

\* Which lines set what.
LEMMA SetBy ==
  ASSUME NEW e \in Lines, NEW l \in Links
  PROVE  /\ FlagLines(l) \in SetsOf(l) /\ PartLines(l) \in SetsOf(l) /\ BitLines(l) \in SetsOf(l)
         /\ e \in FlagLines(l) <=> e.kind \in {"up", "down"} /\ e.link = l
         /\ e \in PartLines(l) <=> e.kind \in {"up", "down", "entry"} /\ e.link = l
         /\ e \in BitLines(l) <=> \/ e.kind \in {"up", "down", "entry"} /\ e.link = l
                                  \/ e.kind = "status"
  BY DEF SetsOf, FlagLines, PartLines, BitLines, Of

LEMMA WireStill ==
  ASSUME WireInv, UNCHANGED <<link, wire>>
  PROVE  WireInv'
  BY DEF WireInv

LEMMA WireStep == TypeOK /\ WireInv /\ [Next]_vars => WireInv'
<1> SUFFICES ASSUME TypeOK, WireInv, [Next]_vars PROVE WireInv'
  OBVIOUS
<1>1. CASE UNCHANGED <<link, wire>>
  BY <1>1, WireStill
<1>2. CASE DevCommand \/ DevVisit \/ DevHangup
  BY <1>2, DevWire
<1>3. CASE RespStep
  <2>1. PICK k : Hears(k) /\ link' = link
    BY <1>3 DEF RespStep, RespUp, RespDown, RespStatus, RespEntry, RespEnd
  <2>2. QED
    BY <2>1, RespWire
<1>4. ASSUME NEW a \in Apps, AppStep(a) PROVE UNCHANGED <<link, wire>>
  BY <1>4 DEF AppStep, AppPick, AppStart, AppClose, AppStatus, AppServer, AppDelete, ReqSend
<1>5. ReqDone \/ ReqTimeout => UNCHANGED <<link, wire>>
  BY DEF ReqDone, ReqTimeout
<1>6. QED
  BY <1>1, <1>2, <1>3, <1>4, <1>5 DEF Next, vars

\* active and its bit.
LEMMA TableStep ==
  ~Late /\ ~FreeRelease /\ OrderInv /\ WireInv /\ TableInv /\ [Next]_vars => TableInv'
<1> SUFFICES ASSUME ~Late, ~FreeRelease, OrderInv, WireInv, TableInv, [Next]_vars,
                    NEW l \in Links
             PROVE  ActiveInv(l)' /\ BitInv(l)'
  BY DEF TableInv
<1>1. TypeOK /\ AnswerInv /\ ActiveInv(l) /\ BitInv(l)
  BY DEF OrderInv, TableInv
<1>2. CASE UNCHANGED <<conn, bits, link, wire>>
  BY <1>1, <1>2 DEF ActiveInv, BitInv, IsOpen
<1>3. ASSUME NEW a \in Apps, AppDelete(a) PROVE ActiveInv(l)' /\ BitInv(l)'
  <2>1. /\ link[slot[a]] = Closed /\ conn' = [conn EXCEPT ![slot[a]] = ZeroConn]
        /\ UNCHANGED <<bits, link, wire>>
    BY <1>3 DEF AppDelete
  <2>2. conn'[l].active = conn[l].active \/ (link[l] = Closed /\ ~conn'[l].active)
    BY <1>1, <2>1 DEF TypeOK, ZeroConn
  <2>3. QED
    BY <1>1, <2>1, <2>2 DEF ActiveInv, BitInv, IsOpen
<1>4. CASE DevCommand \/ DevVisit \/ DevHangup
  <2>1. /\ UNCHANGED <<conn, bits>>
        /\ \A T \in SetsOf(l) : Untouched(wire', T) => Untouched(wire, T) /\ link'[l] = link[l]
    BY <1>1, <1>4, DevWire
  <2>2. FlagLines(l) \in SetsOf(l) /\ BitLines(l) \in SetsOf(l)
    BY DEF SetsOf
  <2>3. ActiveInv(l)'
    BY <1>1, <2>1, <2>2 DEF ActiveInv, IsOpen
  <2>4. BitInv(l)'
    BY <1>1, <2>1, <2>2 DEF BitInv, IsOpen
  <2>5. QED
    BY <2>3, <2>4
<1>5. CASE RespStep
  <2> DEFINE e == Head(wire)
  <2>1. PICK k \in {"up", "down", "status", "entry", "ok", "err"} : Hears(k) /\ link' = link
    BY <1>5 DEF RespStep, RespUp, RespDown, RespStatus, RespEntry, RespEnd
  <2>2. /\ e \in Lines /\ e.kind = k /\ 1 \in DOMAIN wire /\ wire[1] = e
        /\ \A T \in SetsOf(l) :
             Untouched(wire', T) => IF e \in T THEN e \in Right(link[l]) ELSE Untouched(wire, T)
    BY <1>1, <2>1, RespWire
  <2>3. e \in Right(link[l]) <=> IF IsOpen(l) THEN e.kind \in {"up", "entry"} /\ e.own = link[l]
                                 ELSE e.kind \notin {"up", "entry"}
    BY <2>2 DEF Right, IsOpen
  <2>4. e.kind \in {"status", "entry"} => cur.cmd = "status"
    BY <1>1, <2>2 DEF AnswerInv, Answers, IsToCur
  <2>5. e.link \in Links /\ conn \in [Links -> [active : BOOLEAN, client : BOOLEAN,
                                             cb : Owners \cup {NoCb, Junk}]]
    BY <1>1, <2>2 DEF Lines, TypeOK
  <2>6. /\ e \in FlagLines(l) => e.kind \in {"up", "down"} /\ conn'[l].active = (e.kind = "up")
        /\ e \notin FlagLines(l) => conn'[l].active = conn[l].active
    <3>1. e \in FlagLines(l) <=> e.kind \in {"up", "down"} /\ e.link = l
      BY <2>2, SetBy
    <3>2. CASE RespUp
      BY <2>2, <2>5, <3>1, <3>2 DEF RespUp, Hears
    <3>3. CASE RespDown
      BY <2>2, <2>5, <3>1, <3>3 DEF RespDown, Hears, ZeroConn
    <3>4. CASE RespStatus
      BY <2>2, <3>1, <3>4 DEF RespStatus, Hears
    <3>5. CASE RespEntry
      <4>1. e.kind = "entry"
        BY <3>5 DEF RespEntry, Hears
      <4>2. PICK b : conn' = conn \/ conn' = [conn EXCEPT ![e.link].client = b]
        BY <3>5 DEF RespEntry
      <4>3. conn'[l].active = conn[l].active
        BY <2>5, <4>2
      <4>4. QED
        BY <3>1, <4>1, <4>3
    <3>6. ASSUME NEW r \in {"ok", "err"}, RespEnd(r) PROVE e \notin FlagLines(l) /\ conn' = conn
      BY <3>1, <3>6 DEF RespEnd, Hears
    <3>7. QED
      BY <1>5, <3>2, <3>3, <3>4, <3>5, <3>6 DEF RespStep
  <2>7. /\ e \in BitLines(l) => /\ e.kind \in {"up", "down", "entry", "status"}
                                /\ l \in bits' <=> e.kind \in {"up", "entry"}
        /\ e \notin BitLines(l) => (l \in bits' <=> l \in bits)
    <3>1. e \in BitLines(l) <=> \/ e.kind \in {"up", "down", "entry"} /\ e.link = l
                                \/ e.kind = "status"
      BY <2>2, SetBy
    <3>2. CASE RespUp
      BY <3>1, <3>2 DEF RespUp, Hears
    <3>3. CASE RespDown
      BY <3>1, <3>3 DEF RespDown, Hears, BitCleared
    <3>4. CASE RespStatus
      BY <2>4, <3>1, <3>4 DEF RespStatus, Hears
    <3>5. CASE RespEntry
      BY <2>4, <3>1, <3>5 DEF RespEntry, Hears
    <3>6. ASSUME NEW r \in {"ok", "err"}, RespEnd(r) PROVE e \notin BitLines(l) /\ bits' = bits
      BY <3>1, <3>6 DEF RespEnd, Hears
    <3>7. QED
      BY <1>5, <3>2, <3>3, <3>4, <3>5, <3>6 DEF RespStep
  <2> HIDE DEF e
  <2>8. FlagLines(l) \in SetsOf(l) /\ BitLines(l) \in SetsOf(l)
    BY DEF SetsOf
  <2>9. ActiveInv(l)'
    <3>1. SUFFICES ASSUME Untouched(wire', FlagLines(l)) PROVE conn'[l].active <=> IsOpen(l)
      BY <2>1 DEF ActiveInv, IsOpen
    <3>2. CASE e \in FlagLines(l)
      BY <2>2, <2>3, <2>6, <2>8, <3>1, <3>2
    <3>3. CASE e \notin FlagLines(l)
      BY <1>1, <2>2, <2>6, <2>8, <3>1, <3>3 DEF ActiveInv
    <3>4. QED
      BY <3>2, <3>3
  <2>10. BitInv(l)'
    <3>1. SUFFICES ASSUME Untouched(wire', BitLines(l)) PROVE l \in bits' <=> IsOpen(l)
      BY <2>1 DEF BitInv, IsOpen
    <3>2. CASE e \in BitLines(l)
      BY <2>2, <2>3, <2>7, <2>8, <3>1, <3>2
    <3>3. CASE e \notin BitLines(l)
      BY <1>1, <2>2, <2>7, <2>8, <3>1, <3>3 DEF BitInv
    <3>4. QED
      BY <3>2, <3>3
  <2>11. QED
    BY <2>9, <2>10
<1>6. ASSUME NEW a \in Apps, AppStep(a)
      PROVE  AppDelete(a) \/ UNCHANGED <<conn, bits, link, wire>>
  BY <1>6 DEF AppStep, AppPick, AppStart, AppClose, AppStatus, AppServer, ReqSend
<1>7. ReqDone \/ ReqTimeout => UNCHANGED <<conn, bits, link, wire>>
  BY DEF ReqDone, ReqTimeout
<1>8. QED
  BY <1>2, <1>3, <1>4, <1>5, <1>6, <1>7 DEF Next, vars

\* The callback of a connection and the part the device plays in it.
LEMMA RoleStep ==
  Ext /\ ~Late /\ OrderInv /\ ServeInv /\ WireInv /\ RoleInv /\ [Next]_vars
    => RoleInv'
<1> SUFFICES ASSUME Ext, ~Late, OrderInv, ServeInv, WireInv, RoleInv, [Next]_vars,
                    NEW l \in Links
             PROVE  CbInv(l)' /\ ClientInv(l)'
  BY DEF RoleInv
<1>1. TypeOK /\ AnswerInv /\ CbInv(l) /\ ClientInv(l)
  BY DEF OrderInv, RoleInv
<1>2. CASE UNCHANGED <<conn, link, wire>>
  BY <1>1, <1>2 DEF CbInv, ClientInv, IsOpen
<1>3. ASSUME NEW a \in Apps, AppDelete(a) PROVE CbInv(l)' /\ ClientInv(l)'
  <2>1. conn' = [conn EXCEPT ![slot[a]] = ZeroConn] /\ UNCHANGED <<link, wire>>
    BY <1>3 DEF AppDelete
  <2>2. conn'[l] = conn[l] \/ ~conn'[l].active
    BY <1>1, <2>1 DEF TypeOK, ZeroConn
  <2>3. QED
    BY <1>1, <2>1, <2>2 DEF CbInv, ClientInv, IsOpen
<1>4. CASE DevCommand \/ DevVisit \/ DevHangup
  <2>1. /\ conn' = conn
        /\ \A T \in SetsOf(l) : Untouched(wire', T) => Untouched(wire, T) /\ link'[l] = link[l]
    BY <1>1, <1>4, DevWire
  <2>2. FlagLines(l) \in SetsOf(l) /\ PartLines(l) \in SetsOf(l)
    BY DEF SetsOf
  <2>3. CbInv(l)'
    BY <1>1, <2>1, <2>2 DEF CbInv, IsOpen
  <2>4. ClientInv(l)'
    BY <1>1, <2>1, <2>2 DEF ClientInv, IsOpen
  <2>5. QED
    BY <2>3, <2>4
<1>5. CASE RespStep
  <2> DEFINE e == Head(wire)
  <2>1. PICK k \in {"up", "down", "status", "entry", "ok", "err"} : Hears(k) /\ link' = link
    BY <1>5 DEF RespStep, RespUp, RespDown, RespStatus, RespEntry, RespEnd
  <2>2. /\ e \in Lines /\ e.kind = k /\ 1 \in DOMAIN wire /\ wire[1] = e
        /\ \A T \in SetsOf(l) :
             Untouched(wire', T) => IF e \in T THEN e \in Right(link[l]) ELSE Untouched(wire, T)
    BY <1>1, <2>1, RespWire
  <2>3. e \in Right(link[l]) /\ e.kind \in {"up", "entry"} => IsOpen(l) /\ e.own = link[l]
    BY <2>2 DEF Right, IsOpen
  <2>4. e.kind \in {"status", "entry"} => cur.cmd = "status"
    BY <1>1, <2>2 DEF AnswerInv, Answers, IsToCur
  <2>5. e.link \in Links /\ e.own \in Owners
        /\ conn \in [Links -> [active : BOOLEAN, client : BOOLEAN, cb : Owners \cup {NoCb, Junk}]]
    BY <1>1, <2>2 DEF Lines, TypeOK
  <2>6. Server \notin Apps /\ (e.own \in Apps <=> e.own # Server)
    BY <2>5, ConnAssumption DEF Owners
  \* The callback of a client is that of the start in progress, and a client of
  \* the server finds evt_server set.
  <2>7. e.kind = "up" => CallbackOf(conn[e.link], e.own # Server) = e.own
    <3>1. CASE e.kind = "up" /\ e.own = Server
      <4>1. ~Turned(wire, cur.cmd, 1)
        <5>1. DOMAIN wire \subseteq Nat /\ \A j \in DOMAIN wire : ~(j < 1)
          BY <1>1, LenProperties DEF TypeOK
        <5>2. QED
          BY <5>1 DEF Turned
      <4>2. evt = Server
        BY <2>2, <3>1, <4>1 DEF ServeInv
      <4>3. QED
        BY <3>1, <4>2 DEF CallbackOf
    <3>2. CASE e.kind = "up" /\ e.own # Server
      <4>1. cur.cmd = "start" /\ cur.app = e.own
        BY <1>1, <2>2, <3>2 DEF AnswerInv, Answers, IsToCur
      <4>2. cur # NoCmd
        BY <4>1 DEF NoCmd, Command
      <4>3. QED
        BY <3>2, <4>1, <4>2 DEF CallbackOf
    <3>3. QED
      BY <3>1, <3>2
  <2>8. RespUp => conn' = [conn EXCEPT ![e.link] =
                     [active |-> TRUE, client |-> e.own # Server,
                      cb |-> CallbackOf(@, e.own # Server)]]
    BY DEF RespUp, ClientOf
  <2>9. /\ e \in FlagLines(l) => \/ e.kind = "up" /\ conn'[l].cb = e.own
                                 \/ ~conn'[l].active
        /\ e \notin FlagLines(l) => /\ conn'[l].active = conn[l].active
                                    /\ conn'[l].cb = conn[l].cb
    <3>1. e \in FlagLines(l) <=> e.kind \in {"up", "down"} /\ e.link = l
      BY <2>2, SetBy
    <3>2. CASE RespUp
      <4>1. e.kind = "up"
        BY <3>2 DEF RespUp, Hears
      <4>2. conn'[e.link].cb = e.own /\ \A m \in Links : m # e.link => conn'[m] = conn[m]
        BY <2>5, <2>7, <2>8, <3>2, <4>1
      <4>3. QED
        BY <3>1, <4>1, <4>2
    <3>3. CASE RespDown
      <4>1. e.kind = "down" /\ conn' = [conn EXCEPT ![e.link] = ZeroConn]
        BY <3>3 DEF RespDown, Hears
      <4>2. QED
        BY <2>5, <3>1, <4>1 DEF ZeroConn
    <3>4. CASE RespStatus
      BY <2>2, <3>1, <3>4 DEF RespStatus, Hears
    <3>5. CASE RespEntry
      <4>1. e.kind = "entry"
        BY <3>5 DEF RespEntry, Hears
      <4>2. PICK b : conn' = conn \/ conn' = [conn EXCEPT ![e.link].client = b]
        BY <3>5 DEF RespEntry
      <4>3. conn'[l].active = conn[l].active /\ conn'[l].cb = conn[l].cb
        BY <2>5, <4>2
      <4>4. QED
        BY <3>1, <4>1, <4>3
    <3>6. ASSUME NEW r \in {"ok", "err"}, RespEnd(r) PROVE e \notin FlagLines(l) /\ conn' = conn
      BY <3>1, <3>6 DEF RespEnd, Hears
    <3>7. QED
      BY <1>5, <3>2, <3>3, <3>4, <3>5, <3>6 DEF RespStep
  <2>10. /\ e \in PartLines(l) => \/ /\ e.kind \in {"up", "entry"}
                                     /\ conn'[l].client <=> e.own \in Apps
                                  \/ ~conn'[l].active
         /\ e \notin PartLines(l) => /\ conn'[l].active <=> conn[l].active
                                     /\ conn'[l].client <=> conn[l].client
    <3>1. e \in PartLines(l) <=> e.kind \in {"up", "down", "entry"} /\ e.link = l
      BY <2>2, SetBy
    <3>2. CASE RespUp
      <4>1. e.kind = "up"
        BY <3>2 DEF RespUp, Hears
      <4>2. (conn'[e.link].client <=> e.own # Server)
            /\ \A m \in Links : m # e.link => conn'[m] = conn[m]
        <5>1. PICK b \in BOOLEAN : b <=> e.own # Server
          OBVIOUS
        <5>2. conn' = [conn EXCEPT ![e.link] = [active |-> TRUE, client |-> b, cb |-> e.own]]
          BY <2>5, <2>7, <2>8, <3>2, <4>1, <5>1
        <5>3. QED
          BY <2>5, <5>1, <5>2
      <4>3. QED
        BY <2>6, <3>1, <4>1, <4>2
    <3>3. CASE RespDown
      <4>1. e.kind = "down" /\ conn' = [conn EXCEPT ![e.link] = ZeroConn]
        BY <3>3 DEF RespDown, Hears
      <4>2. QED
        BY <2>5, <3>1, <4>1 DEF ZeroConn
    <3>4. CASE RespStatus
      BY <2>2, <3>1, <3>4 DEF RespStatus, Hears
    <3>5. CASE RespEntry
      <4>1. e.kind = "entry" /\ conn' = [conn EXCEPT ![e.link].client = e.own # Server]
        BY <2>4, <3>5 DEF RespEntry, Hears
      <4>2. (conn'[e.link].client <=> e.own # Server)
            /\ \A m \in Links : m # e.link => conn'[m] = conn[m]
        BY <2>5, <4>1
      <4>3. QED
        BY <2>6, <3>1, <4>1, <4>2
    <3>6. ASSUME NEW r \in {"ok", "err"}, RespEnd(r) PROVE e \notin PartLines(l) /\ conn' = conn
      BY <3>1, <3>6 DEF RespEnd, Hears
    <3>7. QED
      BY <1>5, <3>2, <3>3, <3>4, <3>5, <3>6 DEF RespStep
  <2> HIDE DEF e
  <2>11. FlagLines(l) \in SetsOf(l) /\ PartLines(l) \in SetsOf(l)
    BY DEF SetsOf
  <2>12. CbInv(l)'
    <3>1. SUFFICES ASSUME Untouched(wire', FlagLines(l)), conn'[l].active
                   PROVE  IsOpen(l) /\ conn'[l].cb = link[l]
      BY <2>1 DEF CbInv, IsOpen
    <3>2. CASE e \in FlagLines(l)
      BY <2>2, <2>3, <2>9, <2>11, <3>1, <3>2
    <3>3. CASE e \notin FlagLines(l)
      BY <1>1, <2>2, <2>9, <2>11, <3>1, <3>3 DEF CbInv, IsOpen
    <3>4. QED
      BY <3>2, <3>3
  <2>13. ClientInv(l)'
    <3>1. SUFFICES ASSUME Untouched(wire', PartLines(l)), conn'[l].active
                   PROVE  conn'[l].client <=> link[l] \in Apps
      BY <2>1 DEF ClientInv, IsOpen
    <3>2. CASE e \in PartLines(l)
      BY <2>2, <2>3, <2>10, <2>11, <3>1, <3>2
    <3>3. CASE e \notin PartLines(l)
      <4>1. conn[l].active /\ (conn'[l].client <=> conn[l].client)
        BY <2>10, <3>1, <3>3
      <4>2. Untouched(wire, PartLines(l))
        BY <2>2, <2>11, <3>1, <3>3
      <4>3. QED
        BY <1>1, <4>1, <4>2 DEF ClientInv
    <3>4. QED
      BY <3>2, <3>3
  <2>14. QED
    BY <2>12, <2>13
<1>6. ASSUME NEW a \in Apps, AppStep(a)
      PROVE  AppDelete(a) \/ UNCHANGED <<conn, link, wire>>
  BY <1>6 DEF AppStep, AppPick, AppStart, AppClose, AppStatus, AppServer, ReqSend
<1>7. ReqDone \/ ReqTimeout => UNCHANGED <<conn, link, wire>>
  BY DEF ReqDone, ReqTimeout
<1>8. QED
  BY <1>2, <1>3, <1>4, <1>5, <1>6, <1>7 DEF Next, vars

-----------------------------------------------------------------------------
(* evt_server, and the properties.                                         *)

LEMMA ServeStep == ~Late /\ OrderInv /\ ServeInv /\ [Next]_vars => ServeInv'
<1> SUFFICES ASSUME ~Late, OrderInv, ServeInv, [Next]_vars PROVE ServeInv'
  OBVIOUS
<1>1. TypeOK /\ CmdInv /\ ServeInv /\ wire \in Seq(Lines)
  BY DEF OrderInv, TypeOK, Lines
<1>2. CASE UNCHANGED <<cur, evt, serving, wire>>
  BY <1>1, <1>2 DEF ServeInv
<1>3. ASSUME NEW a \in Apps, AppStep(a), ~ReqSend(a)
      PROVE  UNCHANGED <<cur, evt, serving, wire>>
  BY <1>3 DEF AppStep, AppPick, AppStart, AppClose, AppStatus, AppServer, AppDelete
<1>4. ASSUME (\E a \in Apps : ReqSend(a)) \/ ReqDone \/ ReqTimeout
      PROVE  ServeInv'
  <2>1. UNCHANGED <<wire, evt, serving>> /\ (cur = NoCmd \/ heard \/ inbox # <<>>)
    BY <1>4 DEF ReqSend, ReqDone, ReqTimeout
  <2>2. \A i \in DOMAIN wire : ~Ends(wire[i])
    BY <1>1, <2>1 DEF CmdInv
  <2>3. QED
    BY <2>1, <2>2, ServeQuiet
<1>5. CASE DevCommand
  BY <1>1, <1>5, ServeAnswer
<1>6. CASE DevVisit
  <2>1. PICK e \in Lines : /\ serving /\ wire' = wire \o <<e>> /\ e.kind = "up"
                           /\ <<e>> \in Seq(Lines) /\ DOMAIN <<e>> = 1..1 /\ <<e>>[1] = e
    BY <1>1, <1>6, VisitSays
  <2>2. ~Ends(e) /\ UNCHANGED <<cur, evt, serving>>
    BY <1>6, <2>1 DEF Ends, DevVisit
  <2>3. QED
    BY <1>1, <2>1, <2>2, ServeUnasked
<1>7. CASE DevHangup
  <2>1. PICK e \in Lines : /\ wire' = wire \o <<e>> /\ e.kind = "down"
                           /\ <<e>> \in Seq(Lines) /\ DOMAIN <<e>> = 1..1 /\ <<e>>[1] = e
    BY <1>1, <1>7, HangupSays
  <2>2. ~Ends(e) /\ e.kind # "up" /\ UNCHANGED <<cur, evt, serving>>
    BY <1>7, <2>1 DEF Ends, DevHangup
  <2>3. QED
    BY <1>1, <2>1, <2>2, ServeUnasked
<1>8. CASE RespUp \/ RespDown \/ RespStatus \/ RespEntry
  <2>1. PICK k \in {"up", "down", "status", "entry"} :
          Hears(k) /\ UNCHANGED <<cur, evt, serving>>
    BY <1>8 DEF RespUp, RespDown, RespStatus, RespEntry
  <2>2. wire # <<>> /\ ~Ends(Head(wire)) /\ wire' = Tail(wire)
    BY <2>1 DEF Hears, Ends
  <2>3. QED
    BY <1>1, <2>1, <2>2, ServeParse
<1>9. ASSUME NEW r \in {"ok", "err"}, RespEnd(r) PROVE ServeInv'
  BY <1>1, <1>9, ServeEnd
<1>10. QED
  BY <1>2, <1>3, <1>4, <1>5, <1>6, <1>7, <1>8, <1>9 DEF Next, RespStep, AppStep, vars

\* When no command is carried out after its timeout, commands, answers and
\* evt_server keep together as OrderInv and ServeInv say, and each line on the
\* wire is followed by what is right.
THEOREM ConnCorrect ==
  ASSUME ~Late
  PROVE  Spec => [](OrderInv /\ ServeInv /\ WireInv)
<1>1. Init => OrderInv /\ ServeInv /\ WireInv
  BY InitOrder, InitServe, InitTable
<1>2. OrderInv /\ ServeInv /\ WireInv /\ [Next]_vars => (OrderInv /\ ServeInv /\ WireInv)'
  BY OrderStep, ServeStep, WireStep DEF OrderInv
<1>3. QED
  BY <1>1, <1>2, PTL DEF Spec

\* evt_server says whether the device serves, once every line has been parsed.
THEOREM ServerTracksCorrect ==
  ASSUME ~Late
  PROVE  Spec => []ServerTracks
<1>1. ServeInv => ServerTracks
  <2>1. SUFFICES ASSUME ServeInv, wire = <<>> PROVE evt = Server <=> serving
    BY DEF ServerTracks
  <2>2. ~Turned(wire, cur.cmd, Len(wire) + 1)
    BY <2>1 DEF Turned
  <2>3. QED
    BY <2>1, <2>2 DEF ServeInv
<1>2. QED
  BY <1>1, ConnCorrect, PTL

\* Flags and bits are the device's, once every line has been parsed.
THEOREM TableTracksCorrect ==
  ASSUME ~Late, ~FreeRelease
  PROVE  Spec => []TableTracks
<1>1. Init => TableInv
  BY InitTable
<1>2. OrderInv /\ WireInv /\ TableInv /\ [Next]_vars => TableInv'
  BY TableStep
<1>3. TypeOK /\ TableInv => TableTracks
  <2>1. SUFFICES ASSUME TypeOK, TableInv, wire = <<>>
                 PROVE  /\ \A l \in Links : conn[l].active <=> link[l] # Closed
                        /\ bits = {l \in Links : conn[l].active}
    BY DEF TableTracks
  <2>2. \A T : Untouched(wire, T)
    BY <2>1 DEF Untouched
  <2>3. \A l \in Links : (conn[l].active <=> IsOpen(l)) /\ (l \in bits <=> IsOpen(l))
    BY <2>1, <2>2 DEF TableInv, ActiveInv, BitInv
  <2>4. bits \subseteq Links
    BY <2>1 DEF TypeOK
  <2>5. QED
    BY <2>3, <2>4 DEF IsOpen
<1>4. QED
  BY <1>1, <1>2, <1>3, ConnCorrect, PTL DEF Spec, OrderInv

\* An active connection has the callback and the part of its owner, once every
\* line has been parsed.
THEOREM RoleRightCorrect ==
  ASSUME Ext, ~Late
  PROVE  Spec => []RoleRight
<1>1. Init => RoleInv
  BY InitTable
<1>2. OrderInv /\ ServeInv /\ WireInv /\ RoleInv /\ [Next]_vars => RoleInv'
  BY RoleStep
<1>3. RoleInv => RoleRight
  <2>1. SUFFICES ASSUME RoleInv, wire = <<>>, NEW l \in Links, conn[l].active
                 PROVE  conn[l].cb = link[l] /\ (conn[l].client <=> link[l] \in Apps)
    BY DEF RoleRight
  <2>2. \A T : Untouched(wire, T)
    BY <2>1 DEF Untouched
  <2>3. QED
    BY <2>1, <2>2 DEF RoleInv, CbInv, ClientInv
<1>4. QED
  BY <1>1, <1>2, <1>3, ConnCorrect, PTL DEF Spec
=============================================================================
