---------------------------- MODULE StationProofs ----------------------------
(***************************************************************************)
(* The station functions: a join or quit that reports espOK has happened,  *)
(* and an address that eESPstaCopyIP reports is the device's, whole, but   *)
(* for the exceptions that CopiedIP names.  For any threads, any device    *)
(* that answers as Station has it, and any delay of its lines.             *)
(***************************************************************************)
EXTENDS Station, SequenceTheorems, TLAPS

-----------------------------------------------------------------------------
(* The inductive invariant.                                                *)

TextType == [field : Fields \cup {NoField}, val : Nets]
LineType == [kind : LineKinds, own : Apps \cup {Nobody}, text : TextType, long : BOOLEAN]
StaType  == [connected : BOOLEAN, hasIp : BOOLEAN, addr : [Fields -> Nets]]
Results  == ResKinds \ {"okmore"}

CallTypes ==
  /\ pc \in [Apps -> {"idle", "ask", "wait", "store", "return"} \cup Fields]
  /\ op \in [Apps -> AllOps \cup {NoOp}]
  /\ out \in [Apps -> [Fields -> Nets]] /\ lost \in [Apps -> SUBSET Spoils]
  /\ seen \in [Apps -> SUBSET Nets]
ReqTypes ==
  /\ box \in Seq(Apps) /\ cur \in Apps \cup {Nobody}
  /\ res \in Results /\ sync \in BOOLEAN
DevTypes ==
  /\ work \in Seq(LineType) /\ behind \in TextType /\ sta \in StaType
  /\ chunk \in 0..Len(work) /\ pend \in BOOLEAN
  /\ astray \in BOOLEAN /\ raced \in BOOLEAN
  /\ net \in Nets /\ nets \in Nets /\ net <= nets

\* A thread waits for one request, in the mailbox or in service, which has a
\* command; only eESPstaCopyIP asks, stores, copies and returns an address.
Queued(a) == \E i \in DOMAIN box : box[i] = a
CallInv ==
  /\ \A a \in Apps : pc[a] = "wait" <=> cur = a \/ Queued(a)
  /\ \A i, j \in DOMAIN box : box[i] = box[j] => i = j
  /\ cur # Nobody => ~Queued(cur) /\ op[cur] # "reset"
  /\ \A a \in Apps : pc[a] = "wait" => op[a] \in AllOps
  /\ \A a \in Apps : pc[a] \in {"ask", "store", "return"} \cup Fields => op[a] = "copy"

\* What the device has still to send tells of one change at most, and of an
\* address only as it is.
TellsAddress(l) == l.text.field \in Fields
Tells(w, n, ns) ==
  /\ \A i \in DOMAIN w : Status(w[i]) => w[i].long
  /\ \A i \in DOMAIN w : TellsAddress(w[i]) =>
       /\ w[i].text.val = n /\ w[i].long /\ w[i].kind = "text"
       /\ \A j \in DOMAIN w : ~Status(w[j])
  /\ \A i \in DOMAIN w : w[i].kind = "joined" =>
       /\ ns < MaxNet
       /\ \A j \in DOMAIN w : w[j].kind = "joined" => j = i

\* It belongs to the request in service or to nobody.
Owned(w, c) == \A i \in DOMAIN w : w[i].own \in {c, Nobody}

WorkInv == Tells(work, net, nets) /\ Owned(work, cur)

\* A call that reads the device's state has seen the present one; a join or quit
\* that is going to report espOK has seen what it reports.
SeenInv ==
  /\ \A a \in Apps : pc[a] # "idle" /\ op[a] \in {"copy", "quit"} => net \in seen[a]
  /\ cur # Nobody /\ res = "ok" =>
       /\ op[cur] = "join" => seen[cur] \ {0} # {}
       /\ op[cur] = "quit" => 0 \in seen[cur]

\* The text left in the line buffer, and the cached address, are the present one.
TextFresh(t, n) == t.field \in Fields => t.val = n
BehindFresh == TextFresh(behind, net)
Fresh == BehindFresh /\ \A f \in Fields : sta.addr[f] = net

\* While the OK of an answer with the address is on its way, so is each field that
\* has not been copied.
Copying(w, c, n, addr, fresh) ==
  \A i \in DOMAIN w : w[i].own = c /\ w[i].kind = "ok" =>
    /\ i = Len(w)
    /\ \A f \in Fields : addr[f] = n \/ \E j \in DOMAIN w : w[j].text.field = f
    /\ \A j \in DOMAIN w : j # i => w[j].long /\ ~Status(w[j])
    /\ Len(w) = 1 => fresh
CopyInv ==
  cur # Nobody /\ op[cur] = "copy" => Copying(work, cur, net, sta.addr, BehindFresh)

\* An address is at hand, or is going to be marked as such.
AtHand ==
  \/ sta.hasIp
  \/ \E a \in Apps : pc[a] = "store"
  \/ cur # Nobody /\ op[cur] = "copy" /\ res = "ok"

\* As long as no line goes astray the library knows what the device is.
KnowsInv ==
  ~astray => /\ sta.connected = (net # 0)
             /\ ~raced /\ AtHand => Fresh

\* Where eESPstaCopyIP has field f from, or is going to have it from; together they
\* are one address that the call has seen.
Copies(a) == pc[a] \in Fields \cup {"return"} /\ lost[a] = {}
Source(a, f) == IF pc[a] = "ip" \/ (pc[a] = "nm" /\ f = "nm") THEN sta.addr[f] ELSE out[a][f]
Whole(a) == Copies(a) => \E n \in seen[a] : \A f \in Fields : Source(a, f) = n
WholeInv == \A a \in Apps : Whole(a)

Reported == JoinOk /\ QuitOk

StationInv ==
  /\ CallTypes /\ ReqTypes /\ DevTypes
  /\ CallInv /\ WorkInv /\ SeenInv /\ CopyInv /\ KnowsInv /\ WholeInv /\ Reported

LEMMA ShapesType == CallTypes /\ ReqTypes /\ DevTypes /\ CallInv => TypeOK
<1> SUFFICES ASSUME CallTypes, ReqTypes, DevTypes, CallInv PROVE TypeOK
  OBVIOUS
<1>1. \A i \in DOMAIN work : work[i].kind \in LineKinds /\ work[i].own \in Apps \cup {Nobody}
  <2>1. \A i \in DOMAIN work : work[i] \in LineType
    BY LenProperties, ElementOfSeq DEF DevTypes
  <2>2. QED
    BY <2>1 DEF LineType
<1>2. /\ sta.connected \in BOOLEAN /\ sta.hasIp \in BOOLEAN /\ sta.addr \in [Fields -> Nets]
      /\ behind.field \in Fields \cup {NoField} /\ behind.val \in Nets
  BY DEF DevTypes, StaType, TextType
<1>3. res \in ResKinds
  BY DEF ReqTypes, Results
<1>4. \A a \in Apps : pc[a] = "wait" <=> cur = a \/ \E i \in DOMAIN box : box[i] = a
  BY DEF CallInv, Queued
<1>5. QED
  BY <1>1, <1>2, <1>3, <1>4 DEF CallTypes, ReqTypes, DevTypes, TypeOK

-----------------------------------------------------------------------------
(* Lines.                                                                  *)

LEMMA LineIs ==
  ASSUME NEW a \in Apps \cup {Nobody}, NEW k \in LineKinds
  PROVE  /\ Long(k, a) \in LineType /\ Short(k, a) \in LineType
         /\ Long(k, a).own = a  /\ Long(k, a).kind = k  /\ Long(k, a).long
         /\ Short(k, a).own = a /\ Short(k, a).kind = k /\ ~Short(k, a).long
         /\ ~TellsAddress(Long(k, a)) /\ ~TellsAddress(Short(k, a))
BY StationAssumption
   DEF Long, Short, Line, Text, TellsAddress, Fields, NoField, LineType, TextType, Nets

LEMMA GivenIs ==
  ASSUME NEW a \in Apps \cup {Nobody}, NEW f \in Fields, NEW v \in Nets
  PROVE  /\ Given(f, v, a) \in LineType
         /\ Given(f, v, a).own = a /\ Given(f, v, a).kind = "text" /\ Given(f, v, a).long
         /\ Given(f, v, a).text.field = f /\ Given(f, v, a).text.val = v
BY DEF Given, Line, Text, LineType, TextType, LineKinds

LEMMA Parsed ==
  ASSUME NEW c \in {"CWJAP", "CWQAP", "GMR"}, NEW k \in LineKinds, NEW r \in Results,
         NEW e \in BOOLEAN, NEW p \in ParseLine(c, k, r, e)
  PROVE  /\ p.res \in Results /\ p.end \in BOOLEAN
         /\ p.res = "ok" => \/ r = "ok" /\ (k = "blank" \/ c = "GMR")
                            \/ c = "CWJAP" /\ k = "joined"
                            \/ c = "CWQAP" /\ k = "gone"
                            \/ c = "GMR" /\ k = "ok"
<1> DEFINE v == Verdict(k, r)
           w == e \/ EndsAnyCmd(k)
<1>1. v \in Results /\ (v = "ok" => k = "ok" \/ r = "ok")
  BY DEF Verdict, Results, ResKinds
<1>2. w \in BOOLEAN
  BY DEF EndsAnyCmd
<1>3. CASE k = "blank"
  <2>1. p = [res |-> r, end |-> e]
    BY <1>3 DEF ParseLine
  <2>2. QED
    BY <1>3, <2>1
<1>4. ASSUME k # "blank" PROVE p \in CmdBranch(c, k, v, w)
  BY <1>1, <1>4 DEF ParseLine, Results
<1>5. CASE k # "blank" /\ c = "CWJAP"
  <2>1. p = [res |-> StaJoinResult(k), end |-> TRUE]
    BY <1>4, <1>5 DEF CmdBranch
  <2>2. StaJoinResult(k) \in Results /\ (StaJoinResult(k) = "ok" => k = "joined")
    BY DEF StaJoinResult, Results, ResKinds
  <2>3. QED
    BY <1>5, <2>1, <2>2
<1>6. CASE k # "blank" /\ c = "CWQAP"
  <2>1. p = [res |-> StaQuitResult(k), end |-> w \/ k = "gone"]
    BY <1>4, <1>6 DEF CmdBranch
  <2>2. StaQuitResult(k) \in Results /\ (StaQuitResult(k) = "ok" => k = "gone")
    BY DEF StaQuitResult, Results, ResKinds
  <2>3. QED
    BY <1>2, <1>6, <2>1, <2>2
<1>7. CASE k # "blank" /\ c = "GMR"
  <2>1. p = [res |-> v, end |-> w]
    BY <1>4, <1>7 DEF CmdBranch
  <2>2. QED
    BY <1>1, <1>2, <1>7, <2>1
<1>8. QED
  BY <1>3, <1>5, <1>6, <1>7

-----------------------------------------------------------------------------
(* What the device has still to send.                                      *)

LEMMA FirstLine ==
  ASSUME NEW w \in Seq(LineType), w # <<>>
  PROVE  /\ Head(w) \in LineType /\ Tail(w) \in Seq(LineType)
         /\ DOMAIN w = 1..Len(w) /\ Len(w) \in Nat /\ Len(w) >= 1 /\ Head(w) = w[1]
         /\ DOMAIN Tail(w) = 1..Len(Tail(w)) /\ Len(Tail(w)) = Len(w) - 1
         /\ \A i \in DOMAIN Tail(w) : i + 1 \in DOMAIN w /\ Tail(w)[i] = w[i + 1]
<1>1. /\ Head(w) \in LineType /\ Tail(w) \in Seq(LineType) /\ Len(Tail(w)) = Len(w) - 1
      /\ \A i \in 1..Len(Tail(w)) : Tail(w)[i] = w[i + 1]
  BY HeadTailProperties
<1>2. DOMAIN Tail(w) = 1..Len(Tail(w)) /\ DOMAIN w = 1..Len(w) /\ Len(w) \in Nat
  BY <1>1, LenProperties
<1>3. Len(w) # 0
  BY EmptySeq
<1>4. QED
  BY <1>1, <1>2, <1>3

LEMMA FirstTells ==
  ASSUME NEW w \in Seq(LineType), w # <<>>, NEW n \in Nets, NEW ns \in Nets, Tells(w, n, ns)
  PROVE  /\ Tells(Tail(w), n, ns)
         /\ TellsAddress(Head(w)) =>
              Head(w).text.val = n /\ Head(w).long /\ Head(w).kind = "text"
         /\ Status(Head(w)) => /\ Head(w).long /\ ~TellsAddress(Head(w))
                               /\ \A m \in Nets : Tells(Tail(w), m, ns)
         /\ Head(w).kind = "joined" => /\ ns < MaxNet
                                       /\ \A m, k \in Nets : Tells(Tail(w), m, k)
<1>1. /\ 1 \in DOMAIN w /\ Head(w) = w[1]
      /\ \A i \in DOMAIN Tail(w) : i + 1 \in DOMAIN w /\ i + 1 # 1 /\ Tail(w)[i] = w[i + 1]
      /\ \A i, j \in DOMAIN Tail(w) : i + 1 = j + 1 => i = j
  BY FirstLine
<1>2. Tells(Tail(w), n, ns)
  BY <1>1 DEF Tells
<1>3. TellsAddress(Head(w)) =>
        /\ Head(w).text.val = n /\ Head(w).long /\ Head(w).kind = "text"
        /\ \A j \in DOMAIN w : ~Status(w[j])
  BY <1>1 DEF Tells
<1>4. ASSUME Status(Head(w))
      PROVE  /\ Head(w).long /\ ~TellsAddress(Head(w))
             /\ \A i \in DOMAIN Tail(w) : ~TellsAddress(Tail(w)[i])
  BY <1>1, <1>4 DEF Tells
<1>5. ASSUME Status(Head(w)), NEW m \in Nets PROVE Tells(Tail(w), m, ns)
  BY <1>2, <1>4, <1>5 DEF Tells
<1>6. ASSUME Head(w).kind = "joined"
      PROVE  ns < MaxNet /\ \A i \in DOMAIN Tail(w) : Tail(w)[i].kind # "joined"
  BY <1>1, <1>6 DEF Tells
<1>7. ASSUME Head(w).kind = "joined", NEW m \in Nets, NEW k \in Nets
      PROVE  Tells(Tail(w), m, k)
  BY <1>4, <1>6, <1>7, <1>2 DEF Tells, Status
<1>8. QED
  BY <1>2, <1>3, <1>4, <1>5, <1>6, <1>7

LEMMA FirstOwned ==
  ASSUME NEW w \in Seq(LineType), w # <<>>, NEW c, Owned(w, c)
  PROVE  Owned(Tail(w), c) /\ Head(w).own \in {c, Nobody}
BY FirstLine DEF Owned

\* vESPparseAPstaIP on a line: the text copied, the address and the buffer after it.
CopyText(l, b) == IF l.long THEN l.text ELSE b
AddrAfter(addr, t) == [f \in Fields |-> IF t.field = f THEN t.val ELSE addr[f]]

LEMMA FirstCopied ==
  ASSUME NEW w \in Seq(LineType), w # <<>>, NEW n \in Nets, NEW ns \in Nets, Tells(w, n, ns),
         NEW c \in Apps, NEW addr, NEW b \in TextType, Copying(w, c, n, addr, TextFresh(b, n))
  PROVE  LET t == CopyText(Head(w), b)
         IN  /\ Copying(Tail(w), c, n, AddrAfter(addr, t), TextFresh(t, n))
             /\ Status(Head(w)) =>
                  \A i \in DOMAIN Tail(w) : ~(Tail(w)[i].own = c /\ Tail(w)[i].kind = "ok")
             /\ Head(w).own = c /\ Head(w).kind = "ok" =>
                  TextFresh(t, n) /\ \A f \in Fields : AddrAfter(addr, t)[f] = n
<1> DEFINE l == Head(w)
           t == CopyText(l, b)
<1>1. /\ 1 \in DOMAIN w /\ l = w[1] /\ Len(w) \in Nat /\ Len(Tail(w)) = Len(w) - 1
      /\ DOMAIN w = 1..Len(w) /\ l \in LineType
      /\ DOMAIN Tail(w) = 1..Len(Tail(w))
      /\ \A i \in DOMAIN Tail(w) : i + 1 \in DOMAIN w /\ Tail(w)[i] = w[i + 1]
  BY FirstLine
<1>2. TellsAddress(l) => l.text.val = n /\ l.long /\ l.kind = "text"
  BY FirstTells
<1>3. \A f \in Fields : AddrAfter(addr, t)[f] = IF t.field = f THEN t.val ELSE addr[f]
  BY DEF AddrAfter
<1>4. ASSUME NEW i \in DOMAIN Tail(w), Tail(w)[i].own = c, Tail(w)[i].kind = "ok"
      PROVE  /\ i = Len(Tail(w))
             /\ \A j \in DOMAIN Tail(w) : j # i => Tail(w)[j].long /\ ~Status(Tail(w)[j])
             /\ ~Status(l)
             /\ TextFresh(t, n)
             /\ \A f \in Fields : \/ AddrAfter(addr, t)[f] = n
                                  \/ \E j \in DOMAIN Tail(w) : Tail(w)[j].text.field = f
  <2>1. /\ i + 1 \in DOMAIN w /\ w[i + 1].own = c /\ w[i + 1].kind = "ok" /\ i + 1 # 1
    BY <1>1, <1>4
  <2>2. /\ i + 1 = Len(w) /\ \A j \in DOMAIN w : j # i + 1 => w[j].long /\ ~Status(w[j])
        /\ \A f \in Fields : addr[f] = n \/ \E j \in DOMAIN w : w[j].text.field = f
    BY <2>1 DEF Copying
  <2>3. /\ i = Len(Tail(w)) /\ ~Status(l)
        /\ \A j \in DOMAIN Tail(w) : j # i => Tail(w)[j].long /\ ~Status(Tail(w)[j])
    BY <1>1, <2>1, <2>2
  <2>4. l.long /\ t = l.text
    BY <1>1, <2>1, <2>2 DEF CopyText
  <2>5. TextFresh(t, n)
    BY <1>2, <2>4 DEF TextFresh, TellsAddress
  <2>6. ASSUME NEW f \in Fields
        PROVE  AddrAfter(addr, t)[f] = n \/ \E j \in DOMAIN Tail(w) : Tail(w)[j].text.field = f
    <3>1. CASE t.field = f
      BY <1>3, <2>5, <3>1 DEF TextFresh
    <3>2. CASE t.field # f
      <4>1. CASE addr[f] = n
        BY <1>3, <3>2, <4>1
      <4>2. CASE \E j \in DOMAIN w : w[j].text.field = f
        <5>1. PICK j \in DOMAIN w : w[j].text.field = f
          BY <4>2
        <5>2. j # 1
          BY <5>1, <2>4, <3>2, <1>1
        <5>3. j - 1 \in DOMAIN Tail(w) /\ Tail(w)[j - 1] = w[j]
          BY <5>1, <5>2, <1>1
        <5>4. QED
          BY <5>1, <5>3
      <4>3. QED
        BY <2>2, <4>1, <4>2
    <3>3. QED
      BY <3>1, <3>2
  <2>7. QED
    BY <2>3, <2>5, <2>6
<1>5. ASSUME l.own = c, l.kind = "ok"
      PROVE  TextFresh(t, n) /\ \A f \in Fields : AddrAfter(addr, t)[f] = n
  <2>1. /\ 1 = Len(w) /\ TextFresh(b, n)
        /\ \A f \in Fields : addr[f] = n \/ \E j \in DOMAIN w : w[j].text.field = f
    BY <1>1, <1>5 DEF Copying
  <2>2. ~TellsAddress(l)
    BY <1>2, <1>5
  <2>3. \A f \in Fields : addr[f] = n
    <3>1. \A j \in DOMAIN w : w[j] = l
      <4>1. \A j \in 1..1 : j = 1
        OBVIOUS
      <4>2. QED
        BY <4>1, <1>1, <2>1
    <3>2. QED
      BY <3>1, <2>1, <2>2 DEF TellsAddress
  <2>4. TextFresh(t, n)
    BY <2>1, <2>2 DEF CopyText, TextFresh, TellsAddress
  <2>5. QED
    BY <1>3, <2>3, <2>4 DEF TextFresh
<1>6. QED
  BY <1>4, <1>5 DEF Copying

\* A sequence of a few lines, of which the properties are those of each.
LEMMA FewTell ==
  ASSUME NEW w \in Seq(LineType), NEW n \in Nets, NEW ns \in Nets,
         \A i \in DOMAIN w : ~TellsAddress(w[i]) /\ (Status(w[i]) => w[i].long),
         \A i, j \in DOMAIN w : w[i].kind = "joined" /\ w[j].kind = "joined" => i = j,
         (\E i \in DOMAIN w : w[i].kind = "joined") => ns < MaxNet
  PROVE  Tells(w, n, ns)
BY DEF Tells

LEMMA SeqOf ==
  /\ \A x \in LineType : <<x>> \in Seq(LineType)
  /\ \A x, y \in LineType : <<x, y>> \in Seq(LineType)
  /\ \A x, y, z \in LineType : <<x, y, z>> \in Seq(LineType)
OBVIOUS

LEMMA ConcatOf ==
  ASSUME NEW x \in LineType, NEW y \in LineType, NEW z \in LineType
  PROVE  <<x>> \o <<y, z>> = <<x, y, z>> /\ <<x, y>> \o <<z>> = <<x, y, z>>
<1>1. ASSUME NEW u \in Seq(LineType), NEW v \in Seq(LineType), Len(u) + Len(v) = 3,
             \A i \in 1..3 : <<x, y, z>>[i] = IF i <= Len(u) THEN u[i] ELSE v[i - Len(u)]
      PROVE  u \o v = <<x, y, z>>
  <2> DEFINE w == <<x, y, z>>
  <2>1. w \in Seq(LineType) /\ Len(w) = 3
    BY SeqOf
  <2> HIDE DEF w
  <2>2. /\ u \o v \in Seq(LineType) /\ Len(u \o v) = Len(w)
        /\ \A i \in 1..Len(u) + Len(v) : (u \o v)[i] = IF i <= Len(u) THEN u[i] ELSE v[i - Len(u)]
    BY <1>1, <2>1, ConcatProperties
  <2>3. \A i \in 1..Len(u \o v) : (u \o v)[i] = w[i]
    BY <1>1, <2>1, <2>2 DEF w
  <2>4. u \o v = w
    BY <2>1, <2>2, <2>3, SeqEqual
  <2>5. QED
    BY <2>4 DEF w
<1>2. /\ Len(<<x>>) = 1 /\ Len(<<y, z>>) = 2 /\ Len(<<x, y>>) = 2 /\ Len(<<z>>) = 1
      /\ <<x>>[1] = x /\ <<y, z>>[1] = y /\ <<y, z>>[2] = z
      /\ <<x, y>>[1] = x /\ <<x, y>>[2] = y /\ <<z>>[1] = z
      /\ <<x, y, z>>[1] = x /\ <<x, y, z>>[2] = y /\ <<x, y, z>>[3] = z
  OBVIOUS
<1>3. \A i \in 1..3 : i = 1 \/ i = 2 \/ i = 3
  OBVIOUS
<1>4. \A i \in 1..3 : <<x, y, z>>[i] = IF i <= Len(<<x>>) THEN <<x>>[i] ELSE <<y, z>>[i - Len(<<x>>)]
  BY <1>2, <1>3
<1>5. \A i \in 1..3 : <<x, y, z>>[i] = IF i <= Len(<<x, y>>) THEN <<x, y>>[i] ELSE <<z>>[i - Len(<<x, y>>)]
  BY <1>2, <1>3
<1>6. <<x>> \o <<y, z>> = <<x, y, z>>
  <2>1. <<x>> \in Seq(LineType) /\ <<y, z>> \in Seq(LineType) /\ Len(<<x>>) + Len(<<y, z>>) = 3
    BY <1>2, SeqOf
  <2>2. QED
    BY ONLY <1>1, <1>4, <2>1
<1>7. <<x, y>> \o <<z>> = <<x, y, z>>
  BY <1>1, <1>2, <1>5, SeqOf
<1>8. QED
  BY <1>6, <1>7

\* An answer tells of one change at most, and of the address as it is.
LEMMA AnswersTell ==
  ASSUME NEW a \in Apps, NEW o \in {"join", "quit", "copy"}, net \in Nets, nets \in Nets,
         NEW w \in Answers(a, o), NEW addr, NEW fresh \in BOOLEAN
  PROVE  /\ w \in Seq(LineType) /\ Tells(w, net, nets) /\ Owned(w, a)
         /\ o = "copy" => Copying(w, a, net, addr, fresh)
<1> DEFINE joined == Long("joined", a)
           got    == Long("text", a)
           gone   == Long("gone", a)
           ok     == Short("ok", a)
<1>1. /\ joined \in LineType /\ got \in LineType /\ gone \in LineType /\ ok \in LineType
      /\ joined.own = a /\ got.own = a /\ gone.own = a /\ ok.own = a
      /\ joined.kind = "joined" /\ got.kind = "text" /\ gone.kind = "gone" /\ ok.kind = "ok"
      /\ joined.long /\ got.long /\ gone.long
      /\ ~TellsAddress(joined) /\ ~TellsAddress(got) /\ ~TellsAddress(gone) /\ ~TellsAddress(ok)
  BY LineIs DEF LineKinds
<1>2. nets \in Nat /\ MaxNet \in Nat /\ nets <= MaxNet
  BY StationAssumption DEF Nets
<1>3. CASE w = <<>>
  BY <1>3, EmptySeq DEF Tells, Owned, Copying
<1>4. CASE o = "join" /\ w = <<Long("joinerr", a), Short("text", a)>>
  <2>1. /\ Long("joinerr", a) \in LineType /\ Short("text", a) \in LineType
        /\ Long("joinerr", a).own = a /\ Short("text", a).own = a
        /\ Long("joinerr", a).kind = "joinerr" /\ Short("text", a).kind = "text"
        /\ ~TellsAddress(Long("joinerr", a)) /\ ~TellsAddress(Short("text", a))
    BY LineIs DEF LineKinds
  <2> DEFINE x == Long("joinerr", a)
             y == Short("text", a)
  <2>2. w \in Seq(LineType) /\ DOMAIN w = 1..2 /\ w[1] = x /\ w[2] = y
    BY <1>4, <2>1, SeqOf
  <2> HIDE DEF x, y
  <2>3. \A i \in DOMAIN w : w[i] = x \/ w[i] = y
    BY <2>2
  <2>4. \A i \in DOMAIN w : /\ ~TellsAddress(w[i]) /\ ~Status(w[i]) /\ w[i].own = a
                            /\ w[i].kind # "joined"
    BY <2>1, <2>3 DEF x, y, Status
  <2>5. Tells(w, net, nets)
    BY <2>2, <2>4, FewTell
  <2>6. QED
    BY <1>4, <2>2, <2>4, <2>5 DEF Owned
<1>5. CASE o = "quit" /\ w \in {<<ok>>, <<ok, gone>>, <<gone, ok>>}
  <2>1. w \in Seq(LineType)
    BY <1>1, <1>5, SeqOf
  <2> HIDE DEF ok, gone
  <2>2. \A i \in DOMAIN w : w[i] = ok \/ w[i] = gone
    BY <1>5
  <2>3. \A i \in DOMAIN w : /\ ~TellsAddress(w[i]) /\ (Status(w[i]) => w[i].long)
                            /\ w[i].own = a /\ w[i].kind # "joined"
    BY <1>1, <2>2 DEF Status
  <2>4. Tells(w, net, nets)
    BY <2>1, <2>3, FewTell
  <2>5. QED
    BY <1>5, <2>1, <2>3, <2>4 DEF Owned
<1>6. CASE o = "join" /\ nets # MaxNet /\ w = Associate(a) \o <<ok>>
  <2>1. /\ w \in Seq(LineType) /\ DOMAIN w = 1..3 /\ w[1] = joined /\ w[2] = got /\ w[3] = ok
    <3>1. Associate(a) = <<joined, got>>
      BY DEF Associate
    <3>2. <<joined, got>> \o <<ok>> = <<joined, got, ok>>
      BY <1>1, ConcatOf
    <3>3. w = <<joined, got, ok>>
      BY <1>6, <3>1, <3>2
    <3>4. QED
      BY <1>1, <3>3, SeqOf
  <2> HIDE DEF joined, got, ok
  <2>2. \A i \in DOMAIN w : \/ i = 1 /\ w[i] = joined
                            \/ i # 1 /\ (w[i] = got \/ w[i] = ok)
    BY <2>1
  <2>3. \A i \in DOMAIN w : /\ ~TellsAddress(w[i]) /\ (Status(w[i]) => w[i].long)
                            /\ w[i].own = a /\ (w[i].kind = "joined" => i = 1)
    BY <1>1, <2>2 DEF Status
  <2>4. Tells(w, net, nets)
    <3>1. \A i, j \in DOMAIN w : w[i].kind = "joined" /\ w[j].kind = "joined" => i = j
      BY <2>3
    <3>2. nets < MaxNet
      BY <1>2, <1>6
    <3>3. QED
      BY <2>1, <2>3, <3>1, <3>2, FewTell
  <2>5. QED
    BY <1>6, <2>1, <2>3, <2>4 DEF Owned
<1>7. CASE o = "join" /\ nets # MaxNet /\ w = <<gone>> \o Associate(a) \o <<ok>>
  <2>1. /\ w \in Seq(LineType) /\ DOMAIN w = 1..4
        /\ w[1] = gone /\ w[2] = joined /\ w[3] = got /\ w[4] = ok
    <3>1. Associate(a) = <<joined, got>>
      BY DEF Associate
    <3>2. <<gone>> \o <<joined, got>> = <<gone, joined, got>>
      BY <1>1, ConcatOf
    <3>3. w = <<gone, joined, got>> \o <<ok>>
      BY <1>7, <3>1, <3>2
    <3>4. <<gone, joined, got>> \in Seq(LineType) /\ <<ok>> \in Seq(LineType)
      BY <1>1, SeqOf
    <3> DEFINE u == <<gone, joined, got>>
               v == <<ok>>
    <3>5. Len(u) = 3 /\ u[1] = gone /\ u[2] = joined /\ u[3] = got /\ Len(v) = 1 /\ v[1] = ok
      OBVIOUS
    <3> HIDE DEF u, v
    <3>6. /\ u \o v \in Seq(LineType) /\ Len(u \o v) = 3 + 1
          /\ \A i \in 1..3 + 1 : (u \o v)[i] = IF i <= 3 THEN u[i] ELSE v[i - 3]
      BY <3>4, <3>5, ConcatProperties DEF u, v
    <3>7. DOMAIN (u \o v) = 1..4
      BY <3>6, LenProperties
    <3>8. (u \o v)[1] = u[1] /\ (u \o v)[2] = u[2] /\ (u \o v)[3] = u[3] /\ (u \o v)[4] = v[1]
      BY <3>6
    <3>9. QED
      BY <3>3, <3>5, <3>6, <3>7, <3>8 DEF u, v
  <2> HIDE DEF joined, got, ok, gone
  <2>2. \A i \in DOMAIN w : \/ i = 2 /\ w[i] = joined
                            \/ i # 2 /\ (w[i] = gone \/ w[i] = got \/ w[i] = ok)
    BY <2>1
  <2>3. \A i \in DOMAIN w : /\ ~TellsAddress(w[i]) /\ (Status(w[i]) => w[i].long)
                            /\ w[i].own = a /\ (w[i].kind = "joined" => i = 2)
    BY <1>1, <2>2 DEF Status
  <2>4. Tells(w, net, nets)
    <3>1. \A i, j \in DOMAIN w : w[i].kind = "joined" /\ w[j].kind = "joined" => i = j
      BY <2>3
    <3>2. nets < MaxNet
      BY <1>2, <1>7
    <3>3. QED
      BY <2>1, <2>3, <3>1, <3>2, FewTell
  <2>5. QED
    BY <1>7, <2>1, <2>3, <2>4 DEF Owned
<1>8. CASE o = "copy" /\ w = <<Given("ip", net, a), Given("nm", net, a), ok>>
  <2> DEFINE ip == Given("ip", net, a)
             nm == Given("nm", net, a)
  <2>1. /\ ip \in LineType /\ nm \in LineType /\ ip.own = a /\ nm.own = a
        /\ ip.kind = "text" /\ nm.kind = "text" /\ ip.long /\ nm.long
        /\ ip.text.field = "ip" /\ nm.text.field = "nm"
        /\ ip.text.val = net /\ nm.text.val = net
    BY GivenIs DEF Fields
  <2>2. w \in Seq(LineType) /\ Len(w) = 3 /\ DOMAIN w = 1..3 /\ w[1] = ip /\ w[2] = nm /\ w[3] = ok
    BY <1>1, <1>8, <2>1, SeqOf
  <2> HIDE DEF ip, nm, ok
  <2>3. \A i \in DOMAIN w : \/ i = 1 /\ w[i] = ip
                            \/ i = 2 /\ w[i] = nm
                            \/ i = 3 /\ w[i] = ok
    BY <2>2
  <2>4. \A i \in DOMAIN w : /\ ~Status(w[i]) /\ w[i].own = a /\ w[i].kind # "joined"
                            /\ TellsAddress(w[i]) =>
                                 w[i].text.val = net /\ w[i].long /\ w[i].kind = "text"
                            /\ i # 3 => w[i].long /\ w[i].kind # "ok"
    BY <1>1, <2>1, <2>3 DEF Status
  <2>5. Tells(w, net, nets)
    BY <2>4 DEF Tells
  <2>6. \A f \in Fields : \E j \in DOMAIN w : w[j].text.field = f
    BY <2>1, <2>2 DEF Fields
  <2>7. Copying(w, a, net, addr, fresh)
    BY <2>2, <2>4, <2>6 DEF Copying
  <2>8. QED
    BY <1>8, <2>2, <2>4, <2>5, <2>7 DEF Owned
<1>9. QED
  BY <1>3, <1>4, <1>5, <1>6, <1>7, <1>8 DEF Answers


-----------------------------------------------------------------------------
(* A request is taken, or completes.                                       *)

LEMMA TakenTells ==
  ASSUME DevTypes, WorkInv, cur = Nobody, NEW a \in Apps, op[a] \in {"join", "quit", "copy"},
         DevTake(a), NEW addr, NEW fresh \in BOOLEAN
  PROVE  /\ work' \in Seq(LineType) /\ Tells(work', net, nets) /\ Owned(work', a)
         /\ op[a] = "copy" => Copying(work', a, net, addr, fresh)
<1>1. CASE work = <<>>
  <2>1. work' \in Answers(a, op[a])
    BY <1>1 DEF DevTake
  <2>2. QED
    BY <2>1, AnswersTell DEF DevTypes
<1>2. work \in Seq(LineType) /\ DOMAIN work = 1..Len(work) /\ Len(work) \in Nat
  BY LenProperties DEF DevTypes
<1>3. /\ Tells(work, net, nets)
      /\ \A i \in DOMAIN work : work[i].own = Nobody
  BY DEF WorkInv, Owned
<1>4. Nobody # a
  BY StationAssumption
<1>5. CASE work # <<>> /\ work' = work
  BY <1>2, <1>3, <1>4, <1>5 DEF Owned, Copying
<1>6. CASE work # <<>> /\ work' = <<Short("text", a)>> \o work
  <2> DEFINE x == Short("text", a)
  <2>1. /\ x \in LineType /\ x.own = a /\ x.kind = "text" /\ ~TellsAddress(x) /\ ~x.long
    BY LineIs DEF LineKinds
  <2>2. <<x>> \in Seq(LineType) /\ Len(<<x>>) = 1 /\ <<x>>[1] = x
    BY <2>1, SeqOf
  <2> HIDE DEF x
  <2>3. /\ work' \in Seq(LineType) /\ Len(work') = 1 + Len(work)
        /\ \A i \in 1..1 + Len(work) : work'[i] = IF i <= 1 THEN <<x>>[i] ELSE work[i - 1]
    BY <1>2, <1>6, <2>2, ConcatProperties DEF x
  <2>4. DOMAIN work' = 1..Len(work')
    BY <2>3, LenProperties
  <2>5. \A i \in DOMAIN work' : \/ i = 1 /\ work'[i] = x
                                \/ i - 1 \in DOMAIN work /\ work'[i] = work[i - 1]
    BY <1>2, <2>2, <2>3, <2>4
  <2>6. Tells(work', net, nets)
    <3>1. ASSUME NEW i \in DOMAIN work', Status(work'[i])
          PROVE  i - 1 \in DOMAIN work /\ work'[i] = work[i - 1]
      BY <2>1, <2>5, <3>1 DEF Status
    <3>2. ASSUME NEW i \in DOMAIN work', TellsAddress(work'[i])
          PROVE  i - 1 \in DOMAIN work /\ work'[i] = work[i - 1]
      BY <2>1, <2>5, <3>2
    <3>3. \A i \in DOMAIN work' : Status(work'[i]) => work'[i].long
      BY <1>3, <3>1 DEF Tells
    <3>4. \A i \in DOMAIN work' : TellsAddress(work'[i]) =>
            /\ work'[i].text.val = net /\ work'[i].long /\ work'[i].kind = "text"
            /\ \A j \in DOMAIN work' : ~Status(work'[j])
      BY <1>3, <3>1, <3>2 DEF Tells
    <3>5. ASSUME NEW i \in DOMAIN work', work'[i].kind = "joined"
          PROVE  nets < MaxNet /\ \A j \in DOMAIN work' : work'[j].kind = "joined" => j = i
      <4>1. i - 1 \in DOMAIN work /\ work[i - 1].kind = "joined"
        BY <3>1, <3>5 DEF Status
      <4>2. nets < MaxNet /\ \A j \in DOMAIN work : work[j].kind = "joined" => j = i - 1
        BY <1>3, <4>1 DEF Tells
      <4>3. \A j \in DOMAIN work' : work'[j].kind = "joined" =>
              j - 1 \in DOMAIN work /\ work[j - 1].kind = "joined"
        BY <3>1 DEF Status
      <4>4. QED
        BY <2>3, <2>4, <4>2, <4>3
    <3>6. QED
      BY <3>3, <3>4, <3>5 DEF Tells
  <2>7. Owned(work', a)
    BY <1>3, <2>1, <2>5 DEF Owned
  <2>8. Copying(work', a, net, addr, fresh)
    BY <1>3, <1>4, <2>1, <2>5 DEF Copying
  <2>9. QED
    BY <2>3, <2>6, <2>7, <2>8
<1>7. QED
  BY <1>1, <1>5, <1>6 DEF DevTake

LEMMA DisownedTells ==
  ASSUME DevTypes, WorkInv, cur \in Apps
  PROVE  /\ Disown(cur) \in Seq(LineType) /\ Len(Disown(cur)) = Len(work)
         /\ Tells(Disown(cur), net, nets) /\ Owned(Disown(cur), Nobody)
<1> DEFINE w == Disown(cur)
<1>1. DOMAIN work = 1..Len(work) /\ Len(work) \in Nat /\ \A i \in DOMAIN work : work[i] \in LineType
  BY LenProperties, ElementOfSeq DEF DevTypes
<1>2. /\ DOMAIN w = DOMAIN work
      /\ \A i \in DOMAIN work : w[i] = IF work[i].own = cur THEN [work[i] EXCEPT !.own = Nobody]
                                                           ELSE work[i]
  BY DEF Disown
<1>3. \A i \in DOMAIN work : /\ w[i] \in LineType
                             /\ w[i].kind = work[i].kind /\ w[i].text = work[i].text
                             /\ w[i].long = work[i].long
                             /\ w[i].own = IF work[i].own = cur THEN Nobody ELSE work[i].own
  BY <1>1, <1>2 DEF LineType
<1>4. w \in Seq(LineType) /\ Len(w) = Len(work)
  <2>1. w \in [1..Len(work) -> LineType]
    BY <1>1, <1>3 DEF Disown
  <2>2. QED
    BY <1>1, <2>1
<1> HIDE DEF w
<1>5. \A i \in DOMAIN w : i \in DOMAIN work /\ (Status(w[i]) <=> Status(work[i]))
                          /\ (TellsAddress(w[i]) <=> TellsAddress(work[i]))
  BY <1>2, <1>3 DEF Status, TellsAddress
<1>6. Tells(w, net, nets)
  BY <1>2, <1>3, <1>5 DEF Tells, WorkInv
<1>7. Owned(w, Nobody)
  BY <1>2, <1>3 DEF Owned, WorkInv
<1>8. QED
  BY <1>4, <1>6, <1>7 DEF w


-----------------------------------------------------------------------------
(* The calls.                                                              *)

LEMMA NobodyIdle ==
  ASSUME CallTypes, ReqTypes, CallInv, NEW a \in Apps, pc[a] # "wait"
  PROVE  cur # a /\ ~Queued(a)
BY DEF CallInv

LEMMA InCall ==
  ASSUME ReqTypes, CallInv, cur # Nobody
  PROVE  cur \in Apps /\ pc[cur] = "wait"
BY DEF ReqTypes, CallInv

\* What a call has copied, and has still to copy, stays one address it has seen.
LEMMA WholeSame ==
  ASSUME WholeInv,
         \A b \in Apps : Copies(b)' =>
           /\ Copies(b) /\ pc'[b] = pc[b] /\ out'[b] = out[b] /\ seen[b] \subseteq seen'[b]
           /\ pc[b] \in Fields => sta'.addr = sta.addr
  PROVE  WholeInv'
<1> SUFFICES ASSUME NEW b \in Apps, Copies(b)'
             PROVE  \E n \in seen'[b] : \A f \in Fields : Source(b, f)' = n
  BY DEF WholeInv, Whole
<1>1. /\ Copies(b) /\ pc'[b] = pc[b] /\ out'[b] = out[b] /\ seen[b] \subseteq seen'[b]
      /\ pc[b] \in Fields => sta'.addr = sta.addr
  OBVIOUS
<1>2. \A f \in Fields : Source(b, f)' = Source(b, f)
  BY <1>1 DEF Source, Fields
<1>3. PICK n \in seen[b] : \A f \in Fields : Source(b, f) = n
  BY <1>1 DEF WholeInv, Whole
<1>4. QED
  BY <1>1, <1>2, <1>3

\* A change of the address spoils what is being copied.
LEMMA TearIs ==
  ASSUME CallTypes, Tear
  PROVE  /\ lost' \in [Apps -> SUBSET Spoils]
         /\ \A b \in Apps : Copies(b)' /\ pc'[b] = pc[b] =>
              Copies(b) /\ (pc[b] \in Fields => sta'.addr = sta.addr)
<1>1. \A b \in Apps : lost'[b] = IF pc[b] \in Fields /\ sta'.addr # sta.addr
                                 THEN lost[b] \cup {"torn"} ELSE lost[b]
  BY DEF Tear
<1>2. lost' \in [Apps -> SUBSET Spoils]
  BY DEF Tear, CallTypes, Spoils
<1>3. QED
  BY <1>1, <1>2 DEF Copies

\* A call puts its request into the mailbox.
LEMMA Queues ==
  ASSUME CallTypes, ReqTypes, CallInv, CallTypes',
         NEW a \in Apps, pc[a] # "wait",
         pc' = [pc EXCEPT ![a] = "wait"], op'[a] \in AllOps,
         \A b \in Apps : b # a => op'[b] = op[b],
         box' = Append(box, a), cur' = cur
  PROVE  box' \in Seq(Apps) /\ CallInv'
<1>1. cur # a /\ ~Queued(a) /\ (cur # Nobody => cur \in Apps)
  BY NobodyIdle, InCall
<1>2. /\ box' \in Seq(Apps) /\ Len(box') = Len(box) + 1 /\ Len(box) \in Nat
      /\ DOMAIN box = 1..Len(box) /\ DOMAIN box' = 1..Len(box')
      /\ \A i \in 1..Len(box) : box'[i] = box[i]
      /\ box'[Len(box) + 1] = a
  BY AppendProperties, LenProperties DEF ReqTypes
<1>3. \A b \in Apps : Queued(b)' <=> Queued(b) \/ b = a
  BY <1>2 DEF Queued
<1>4. \A i, j \in DOMAIN box' : box'[i] = box'[j] => i = j
  <2>1. \A i \in DOMAIN box' : i \in DOMAIN box \/ i = Len(box) + 1
    BY <1>2
  <2>2. \A i \in DOMAIN box : box'[i] = box[i] /\ box[i] # a
    BY <1>1, <1>2 DEF Queued
  <2>3. QED
    BY <1>2, <2>1, <2>2 DEF CallInv
<1>5. /\ pc'[a] = "wait"
      /\ \A b \in Apps : b # a => pc'[b] = pc[b]
  BY DEF CallTypes
<1>6. CallInv'
  BY <1>1, <1>3, <1>4, <1>5 DEF CallInv, Fields
<1>7. QED
  BY <1>2, <1>6

\* A call begins.
LEMMA BeginsIs ==
  ASSUME CallTypes, DevTypes, NEW a \in Apps, NEW o \in AllOps,
         NEW at \in {"wait", "store", "ask"}, Begins(a, o, at)
  PROVE  /\ CallTypes' /\ pc[a] = "idle" /\ pc' = [pc EXCEPT ![a] = at]
         /\ out' = out /\ lost' = lost
         /\ op'[a] = o /\ (o \in {"copy", "quit"} => net \in seen'[a])
         /\ \A b \in Apps : b # a => op'[b] = op[b] /\ seen'[b] = seen[b]
         /\ \A b \in Apps : ~Copies(a)' /\ (Copies(b)' => pc'[b] = pc[b])
<1>1. /\ pc[a] = "idle" /\ pc' = [pc EXCEPT ![a] = at] /\ op' = [op EXCEPT ![a] = o]
      /\ out' = out /\ lost' = lost
      /\ seen' = [seen EXCEPT ![a] = IF o \in {"copy", "quit"} THEN {net} ELSE {}]
  BY DEF Begins
<1>2. {net} \in SUBSET Nets /\ {} \in SUBSET Nets
  BY DEF DevTypes
<1>3. CallTypes'
  BY <1>1, <1>2 DEF CallTypes
<1>4. ~Copies(a)'
  BY <1>1 DEF CallTypes, Copies, Fields
<1>5. QED
  BY <1>1, <1>3, <1>4 DEF CallTypes

LEMMA StationCall ==
  ASSUME StationInv, NEW a \in Apps, NEW o \in Ops, Call(a, o)
  PROVE  StationInv'
<1>1. /\ CallTypes /\ ReqTypes /\ DevTypes
      /\ CallInv /\ WorkInv /\ SeenInv /\ CopyInv /\ KnowsInv /\ WholeInv /\ Reported
  BY DEF StationInv
<1>2. o \in AllOps /\ Begins(a, o, "wait") /\ box' = Append(box, a)
  BY StationAssumption DEF Call
<1>3. /\ cur' = cur /\ res' = res /\ sync' = sync /\ sta' = sta
      /\ astray' = astray /\ raced' = raced
      /\ work' = work /\ net' = net /\ nets' = nets
      /\ behind' = behind /\ chunk' = chunk /\ pend' = pend
  BY DEF Call, devVars, respVars, histVars
<1>4. /\ CallTypes' /\ pc[a] = "idle" /\ pc' = [pc EXCEPT ![a] = "wait"]
      /\ out' = out /\ lost' = lost
      /\ op'[a] = o /\ (o \in {"copy", "quit"} => net \in seen'[a])
      /\ \A b \in Apps : b # a => op'[b] = op[b] /\ seen'[b] = seen[b]
      /\ \A b \in Apps : ~Copies(a)' /\ (Copies(b)' => pc'[b] = pc[b])
  BY <1>1, <1>2, BeginsIs
<1>5. cur # a /\ ~Queued(a) /\ (cur # Nobody => cur \in Apps)
  BY <1>1, <1>4, NobodyIdle, InCall
<1>6. box' \in Seq(Apps) /\ CallInv'
  BY <1>1, <1>2, <1>3, <1>4, Queues
<1>7. ReqTypes' /\ DevTypes' /\ WorkInv'
  BY <1>1, <1>3, <1>6 DEF ReqTypes, DevTypes, WorkInv
<1>8. SeenInv'
  BY <1>1, <1>3, <1>4, <1>5 DEF SeenInv, CallTypes
<1>9. CopyInv'
  BY <1>1, <1>3, <1>4, <1>5 DEF CopyInv, BehindFresh
<1>10. KnowsInv'
  BY <1>1, <1>3, <1>4, <1>5 DEF KnowsInv, AtHand, Fresh, BehindFresh, CallTypes
<1>11. WholeInv'
  BY <1>1, <1>3, <1>4, WholeSame DEF Copies
<1>12. Reported'
  BY <1>1, <1>4 DEF Reported, JoinOk, QuitOk, Done, CallTypes
<1>13. QED
  BY <1>4, <1>6, <1>7, <1>8, <1>9, <1>10, <1>11, <1>12 DEF StationInv

LEMMA StationCopyTest ==
  ASSUME StationInv, NEW a \in Apps, CopyTest(a)
  PROVE  StationInv'
<1>1. /\ CallTypes /\ ReqTypes /\ DevTypes
      /\ CallInv /\ WorkInv /\ SeenInv /\ CopyInv /\ KnowsInv /\ WholeInv /\ Reported
  BY DEF StationInv
<1>2. PICK at : at = AfterTest
  OBVIOUS
<1>3. at \in {"wait", "store", "ask"} /\ (at = "store" <=> sta.hasIp) /\ at # "wait"
      /\ Begins(a, "copy", at)
  BY <1>2 DEF CopyTest, AfterTest
<1>4. /\ box' = box /\ cur' = cur /\ res' = res /\ sync' = sync /\ sta' = sta
      /\ astray' = astray /\ raced' = raced
      /\ work' = work /\ net' = net /\ nets' = nets
      /\ behind' = behind /\ chunk' = chunk /\ pend' = pend
  BY DEF CopyTest, reqVars, devVars, respVars, histVars
<1>5. /\ CallTypes' /\ pc[a] = "idle" /\ pc' = [pc EXCEPT ![a] = at]
      /\ out' = out /\ lost' = lost /\ op'[a] = "copy" /\ net \in seen'[a]
      /\ \A b \in Apps : b # a => op'[b] = op[b] /\ seen'[b] = seen[b]
      /\ \A b \in Apps : ~Copies(a)' /\ (Copies(b)' => pc'[b] = pc[b])
  BY <1>1, <1>3, BeginsIs DEF AllOps
<1>6. cur # a /\ ~Queued(a) /\ (cur # Nobody => cur \in Apps)
  BY <1>1, <1>5, NobodyIdle, InCall
<1>7. ReqTypes' /\ DevTypes' /\ WorkInv'
  BY <1>1, <1>4 DEF ReqTypes, DevTypes, WorkInv
<1>8. CallInv'
  <2>1. \A b \in Apps : Queued(b)' <=> Queued(b)
    BY <1>4 DEF Queued
  <2>2. pc'[a] = at /\ \A b \in Apps : b # a => pc'[b] = pc[b]
    BY <1>1, <1>5 DEF CallTypes
  <2>3. QED
    BY <1>1, <1>3, <1>4, <1>5, <1>6, <2>1, <2>2 DEF CallInv
<1>9. SeenInv'
  BY <1>1, <1>4, <1>5, <1>6 DEF SeenInv, CallTypes
<1>10. CopyInv'
  BY <1>1, <1>4, <1>5, <1>6 DEF CopyInv, BehindFresh
<1>11. KnowsInv'
  <2>1. AtHand' => AtHand
    BY <1>1, <1>3, <1>4, <1>5, <1>6 DEF AtHand, CallTypes
  <2>2. QED
    BY <1>1, <1>4, <2>1 DEF KnowsInv, Fresh, BehindFresh
<1>12. WholeInv'
  BY <1>1, <1>4, <1>5, WholeSame DEF Copies
<1>13. Reported'
  BY <1>1, <1>3, <1>5 DEF Reported, JoinOk, QuitOk, Done, CallTypes
<1>14. QED
  BY <1>5, <1>7, <1>8, <1>9, <1>10, <1>11, <1>12, <1>13 DEF StationInv

LEMMA StationCopyAsk ==
  ASSUME StationInv, NEW a \in Apps, CopyAsk(a)
  PROVE  StationInv'
<1>1. /\ CallTypes /\ ReqTypes /\ DevTypes
      /\ CallInv /\ WorkInv /\ SeenInv /\ CopyInv /\ KnowsInv /\ WholeInv /\ Reported
  BY DEF StationInv
<1>2. /\ pc[a] = "ask" /\ pc' = [pc EXCEPT ![a] = "wait"] /\ box' = Append(box, a)
      /\ op' = op /\ out' = out /\ lost' = lost /\ seen' = seen
      /\ cur' = cur /\ res' = res /\ sync' = sync /\ sta' = sta
      /\ astray' = astray /\ raced' = raced
      /\ work' = work /\ net' = net /\ nets' = nets
      /\ behind' = behind /\ chunk' = chunk /\ pend' = pend
  BY DEF CopyAsk, devVars, respVars, histVars
<1>3. op[a] = "copy" /\ cur # a /\ (cur # Nobody => cur \in Apps)
  BY <1>1, <1>2, NobodyIdle, InCall DEF CallInv
<1>4. CallTypes'
  BY <1>1, <1>2 DEF CallTypes
<1>5. box' \in Seq(Apps) /\ CallInv'
  BY <1>1, <1>2, <1>3, <1>4, Queues DEF AllOps
<1>6. ReqTypes' /\ DevTypes' /\ WorkInv'
  BY <1>1, <1>2, <1>5 DEF ReqTypes, DevTypes, WorkInv
<1>7. SeenInv' /\ CopyInv'
  BY <1>1, <1>2 DEF SeenInv, CopyInv, BehindFresh, CallTypes
<1>8. KnowsInv'
  BY <1>1, <1>2 DEF KnowsInv, AtHand, Fresh, BehindFresh, CallTypes
<1>9. WholeInv'
  <2>1. \A b \in Apps : Copies(b)' => b # a /\ pc'[b] = pc[b]
    BY <1>1, <1>2 DEF CallTypes, Copies, Fields
  <2>2. QED
    BY <1>1, <1>2, <2>1, WholeSame DEF Copies
<1>10. Reported'
  BY <1>1, <1>2 DEF Reported, JoinOk, QuitOk, Done, CallTypes
<1>11. QED
  BY <1>4, <1>5, <1>6, <1>7, <1>8, <1>9, <1>10 DEF StationInv

\* What is in the cache is the present address unless something has spoiled it.
LEMMA StationCopyStore ==
  ASSUME StationInv, NEW a \in Apps, CopyStore(a)
  PROVE  StationInv'
<1>1. /\ CallTypes /\ ReqTypes /\ DevTypes
      /\ CallInv /\ WorkInv /\ SeenInv /\ CopyInv /\ KnowsInv /\ WholeInv /\ Reported
  BY DEF StationInv
<1>2. /\ pc[a] = "store" /\ sta' = [sta EXCEPT !.hasIp = TRUE]
      /\ pc' = [pc EXCEPT ![a] = "ip"]
      /\ lost' = [lost EXCEPT ![a] =
                    {c \in {"line", "race"} : IF c = "line" THEN astray ELSE raced}]
  BY DEF CopyStore
<1>3. /\ op' = op /\ out' = out /\ seen' = seen
      /\ box' = box /\ cur' = cur /\ res' = res /\ sync' = sync
      /\ astray' = astray /\ raced' = raced
      /\ work' = work /\ net' = net /\ nets' = nets
      /\ behind' = behind /\ chunk' = chunk /\ pend' = pend
  BY DEF CopyStore, reqVars, devVars, respVars, histVars
<1>4. /\ cur # a /\ ~Queued(a) /\ (cur # Nobody => cur \in Apps)
      /\ op[a] = "copy" /\ net \in seen[a]
  BY <1>1, <1>2, NobodyIdle, InCall DEF CallInv, SeenInv
<1>5. sta' \in StaType /\ sta'.addr = sta.addr /\ sta'.connected = sta.connected
  BY <1>1, <1>2 DEF DevTypes, StaType
<1>6. /\ lost'[a] = {c \in {"line", "race"} : IF c = "line" THEN astray ELSE raced}
      /\ pc'[a] = "ip"
      /\ \A b \in Apps : b # a => pc'[b] = pc[b] /\ lost'[b] = lost[b]
  BY <1>1, <1>2 DEF CallTypes
<1>7. CallTypes'
  <2>1. {c \in {"line", "race"} : IF c = "line" THEN astray ELSE raced} \in SUBSET Spoils
    BY DEF Spoils
  <2>2. "ip" \in Fields
    BY DEF Fields
  <2>3. lost' \in [Apps -> SUBSET Spoils]
    BY <1>1, <1>2, <2>1 DEF CallTypes
  <2>4. pc' \in [Apps -> {"idle", "ask", "wait", "store", "return"} \cup Fields]
    BY <1>1, <1>2, <2>2 DEF CallTypes
  <2>5. QED
    BY <1>1, <1>3, <2>3, <2>4 DEF CallTypes
<1>8. ReqTypes' /\ DevTypes' /\ WorkInv'
  BY <1>1, <1>3, <1>5 DEF ReqTypes, DevTypes, WorkInv
<1>9. CallInv'
  <2>1. \A b \in Apps : Queued(b)' <=> Queued(b)
    BY <1>3 DEF Queued
  <2>2. QED
    BY <1>1, <1>3, <1>4, <1>6, <2>1 DEF CallInv
<1>10. SeenInv' /\ CopyInv'
  BY <1>1, <1>3, <1>4, <1>5, <1>6 DEF SeenInv, CopyInv, BehindFresh
<1>11. ~astray /\ ~raced => Fresh
  BY <1>1, <1>2 DEF KnowsInv, AtHand
<1>12. KnowsInv'
  BY <1>1, <1>3, <1>5, <1>11 DEF KnowsInv, Fresh, BehindFresh
<1>13. WholeInv'
  <2>1. ASSUME NEW b \in Apps, b # a PROVE Whole(b)'
    BY <1>1, <1>3, <1>5, <1>6, <2>1 DEF WholeInv, Whole, Copies, Source
  <2>2. Whole(a)'
    <3>1. SUFFICES ASSUME lost'[a] = {} PROVE \A f \in Fields : Source(a, f)' = net
      BY <1>3, <1>4 DEF Whole, Copies
    <3>2. ~astray /\ ~raced
      <4>1. "line" \notin lost'[a] /\ "race" \notin lost'[a]
        BY <3>1
      <4>2. QED
        BY <1>6, <4>1
    <3>3. QED
      BY <1>5, <1>6, <1>11, <3>2 DEF Source, Fresh
  <2>3. QED
    BY <2>1, <2>2 DEF WholeInv
<1>14. Reported'
  BY <1>1, <1>3, <1>6 DEF Reported, JoinOk, QuitOk, Done
<1>15. QED
  BY <1>7, <1>8, <1>9, <1>10, <1>12, <1>13, <1>14 DEF StationInv

LEMMA StationCopyField ==
  ASSUME StationInv, NEW a \in Apps, NEW f \in Fields, CopyField(a, f)
  PROVE  StationInv'
<1>1. /\ CallTypes /\ ReqTypes /\ DevTypes
      /\ CallInv /\ WorkInv /\ SeenInv /\ CopyInv /\ KnowsInv /\ WholeInv /\ Reported
  BY DEF StationInv
<1>2. PICK at : at = IF f = "ip" THEN "nm" ELSE "return"
  OBVIOUS
<1>3. /\ pc[a] = f /\ pc' = [pc EXCEPT ![a] = at] /\ out' = [out EXCEPT ![a][f] = sta.addr[f]]
      /\ \/ f = "ip" /\ at = "nm"
         \/ f = "nm" /\ at = "return"
  BY <1>2 DEF CopyField, Fields
<1>4. /\ op' = op /\ lost' = lost /\ seen' = seen
      /\ box' = box /\ cur' = cur /\ res' = res /\ sync' = sync /\ sta' = sta
      /\ astray' = astray /\ raced' = raced
      /\ work' = work /\ net' = net /\ nets' = nets
      /\ behind' = behind /\ chunk' = chunk /\ pend' = pend
  BY DEF CopyField, reqVars, devVars, respVars, histVars
<1>5. /\ cur # a /\ ~Queued(a) /\ (cur # Nobody => cur \in Apps) /\ op[a] = "copy"
  BY <1>1, <1>3, NobodyIdle, InCall DEF CallInv
<1>6. sta.addr \in [Fields -> Nets] /\ sta.addr[f] \in Nets
  BY <1>1 DEF DevTypes, StaType
<1>7. /\ pc'[a] = at /\ \A b \in Apps : b # a => pc'[b] = pc[b] /\ out'[b] = out[b]
      /\ out'[a][f] = sta.addr[f] /\ \A g \in Fields : g # f => out'[a][g] = out[a][g]
      /\ out'[a] \in [Fields -> Nets] /\ out' = [out EXCEPT ![a] = out'[a]]
  BY <1>1, <1>3, <1>6 DEF CallTypes
<1>8. CallTypes'
  <2>1. out' \in [Apps -> [Fields -> Nets]]
    BY <1>1, <1>7 DEF CallTypes
  <2>2. QED
    BY <1>1, <1>3, <1>4, <2>1 DEF CallTypes, Fields
<1>9. ReqTypes' /\ DevTypes' /\ WorkInv'
  BY <1>1, <1>4 DEF ReqTypes, DevTypes, WorkInv
<1>10. CallInv'
  <2>1. \A b \in Apps : Queued(b)' <=> Queued(b)
    BY <1>4 DEF Queued
  <2>2. QED
    BY <1>1, <1>3, <1>4, <1>5, <1>7, <2>1 DEF CallInv
<1>11. SeenInv' /\ CopyInv'
  BY <1>1, <1>3, <1>4, <1>5, <1>7 DEF SeenInv, CopyInv, BehindFresh, Fields
<1>12. KnowsInv'
  BY <1>1, <1>3, <1>4, <1>7 DEF KnowsInv, AtHand, Fresh, BehindFresh
<1>13. WholeInv'
  <2>1. ASSUME NEW b \in Apps, b # a PROVE Whole(b)'
    BY <1>1, <1>4, <1>7, <2>1 DEF WholeInv, Whole, Copies, Source
  <2>2. Whole(a)'
    <3>1. \A g \in Fields : Source(a, g)' = Source(a, g)
      BY <1>3, <1>4, <1>7 DEF Source, Fields
    <3>2. Copies(a)' => Copies(a)
      BY <1>3, <1>4 DEF Copies
    <3>3. QED
      BY <1>1, <1>4, <3>1, <3>2 DEF WholeInv, Whole
  <2>3. QED
    BY <2>1, <2>2 DEF WholeInv
<1>14. Reported'
  <2>1. \A b \in Apps : pc'[b] = "idle" => pc[b] = "idle"
    BY <1>3, <1>7
  <2>2. QED
    BY <1>1, <1>4, <2>1 DEF Reported, JoinOk, QuitOk, Done
<1>15. QED
  BY <1>8, <1>9, <1>10, <1>11, <1>12, <1>13, <1>14 DEF StationInv

LEMMA StationCopyReturn ==
  ASSUME StationInv, NEW a \in Apps, CopyReturn(a)
  PROVE  StationInv'
<1>1. /\ CallTypes /\ ReqTypes /\ DevTypes
      /\ CallInv /\ WorkInv /\ SeenInv /\ CopyInv /\ KnowsInv /\ WholeInv /\ Reported
  BY DEF StationInv
<1>2. /\ pc[a] = "return" /\ pc' = [pc EXCEPT ![a] = "idle"] /\ op' = [op EXCEPT ![a] = NoOp]
      /\ out' = [out EXCEPT ![a] = NoSta.addr] /\ lost' = [lost EXCEPT ![a] = {}]
      /\ seen' = [seen EXCEPT ![a] = {}]
      /\ box' = box /\ cur' = cur /\ res' = res /\ sync' = sync /\ sta' = sta
      /\ astray' = astray /\ raced' = raced
      /\ work' = work /\ net' = net /\ nets' = nets
      /\ behind' = behind /\ chunk' = chunk /\ pend' = pend
  BY DEF CopyReturn, reqVars, devVars, respVars, histVars
<1>3. cur # a /\ ~Queued(a) /\ (cur # Nobody => cur \in Apps)
  BY <1>1, <1>2, NobodyIdle, InCall
<1>4. CallTypes'
  <2>1. NoSta.addr \in [Fields -> Nets]
    BY StationAssumption DEF NoSta, Unset, Nets
  <2>2. QED
    BY <1>1, <1>2, <2>1 DEF CallTypes
<1>5. /\ pc'[a] = "idle" /\ op'[a] = NoOp
      /\ \A b \in Apps : b # a => /\ pc'[b] = pc[b] /\ op'[b] = op[b] /\ out'[b] = out[b]
                                  /\ lost'[b] = lost[b] /\ seen'[b] = seen[b]
  BY <1>1, <1>2 DEF CallTypes
<1>6. ReqTypes' /\ DevTypes' /\ WorkInv'
  BY <1>1, <1>2 DEF ReqTypes, DevTypes, WorkInv
<1>7. CallInv'
  <2>1. \A b \in Apps : Queued(b)' <=> Queued(b)
    BY <1>2 DEF Queued
  <2>2. QED
    BY <1>1, <1>2, <1>3, <1>5, <2>1 DEF CallInv, Fields
<1>8. SeenInv' /\ CopyInv'
  BY <1>1, <1>2, <1>3, <1>5 DEF SeenInv, CopyInv, BehindFresh
<1>9. KnowsInv'
  BY <1>1, <1>2, <1>3, <1>5 DEF KnowsInv, AtHand, Fresh, BehindFresh
<1>10. WholeInv'
  <2>1. \A b \in Apps : Copies(b)' => b # a
    BY <1>5 DEF Copies, Fields
  <2>2. QED
    BY <1>1, <1>2, <1>5, <2>1, WholeSame DEF Copies
<1>11. Reported'
  BY <1>1, <1>5 DEF Reported, JoinOk, QuitOk, Done, NoOp
<1>12. QED
  BY <1>4, <1>6, <1>7, <1>8, <1>9, <1>10, <1>11 DEF StationInv


-----------------------------------------------------------------------------
(* The request thread.                                                     *)

\* The next request leaves the mailbox.
LEMMA Next1 ==
  ASSUME ReqTypes, CallInv, box # <<>>, cur = Nobody, box' = Tail(box),
         NEW a, a = Head(box)
  PROVE  /\ a \in Apps /\ pc[a] = "wait" /\ op[a] \in AllOps
         /\ box' \in Seq(Apps)
         /\ \A b \in Apps : Queued(b) <=> b = a \/ Queued(b)'
         /\ ~Queued(a)'
         /\ \A i, j \in DOMAIN box' : box'[i] = box'[j] => i = j
<1>1. /\ Head(box) \in Apps /\ Tail(box) \in Seq(Apps) /\ Len(Tail(box)) = Len(box) - 1
      /\ \A i \in 1..Len(Tail(box)) : Tail(box)[i] = box[i + 1]
  BY HeadTailProperties DEF ReqTypes
<1>2. DOMAIN Tail(box) = 1..Len(Tail(box)) /\ DOMAIN box = 1..Len(box) /\ Len(box) \in Nat
  BY <1>1, LenProperties DEF ReqTypes
<1>3. Len(box) # 0
  BY EmptySeq DEF ReqTypes
<1>4. a = box[1] /\ 1 \in DOMAIN box
  BY <1>2, <1>3
<1>5. \A i \in DOMAIN box' : i + 1 \in DOMAIN box /\ box'[i] = box[i + 1] /\ i + 1 # 1 /\ i \in Nat
  BY <1>1, <1>2
<1>6. \A i \in DOMAIN box : i = 1 \/ (i - 1 \in DOMAIN box' /\ box'[i - 1] = box[i])
  BY <1>1, <1>2
<1>7. Queued(a)
  BY <1>4 DEF Queued
<1>8. pc[a] = "wait" /\ op[a] \in AllOps
  BY <1>1, <1>7 DEF CallInv
<1>9. \A b \in Apps : Queued(b) <=> b = a \/ Queued(b)'
  BY <1>4, <1>5, <1>6 DEF Queued
<1>10. ~Queued(a)'
  BY <1>4, <1>5 DEF Queued, CallInv
<1>11. \A i, j \in DOMAIN box' : box'[i] = box'[j] => i = j
  BY <1>5 DEF CallInv
<1>12. QED
  BY <1>1, <1>8, <1>9, <1>10, <1>11

LEMMA StationReqTake ==
  ASSUME StationInv, ReqTake
  PROVE  StationInv'
<1>0. PICK a : a = Head(box)
  OBVIOUS
<1>1. /\ CallTypes /\ ReqTypes /\ DevTypes
      /\ CallInv /\ WorkInv /\ SeenInv /\ CopyInv /\ KnowsInv /\ WholeInv /\ Reported
  BY DEF StationInv
<1>2. /\ cur = Nobody /\ box # <<>> /\ chunk = 0 /\ op[a] # "reset"
      /\ cur' = a /\ box' = Tail(box) /\ res' = "inprog" /\ DevTake(a)
  BY <1>0 DEF ReqTake
<1>3. /\ pc' = pc /\ op' = op /\ out' = out /\ lost' = lost /\ sync' = sync
      /\ net' = net /\ nets' = nets /\ behind' = behind /\ chunk' = chunk /\ pend' = pend
      /\ sta' = sta /\ seen' = seen /\ astray' = astray /\ raced' = raced
  BY DEF ReqTake, callVars, respVars, histVars
<1>4. /\ a \in Apps /\ pc[a] = "wait" /\ op[a] \in AllOps /\ box' \in Seq(Apps)
      /\ \A b \in Apps : Queued(b) <=> b = a \/ Queued(b)'
      /\ ~Queued(a)' /\ \A i, j \in DOMAIN box' : box'[i] = box'[j] => i = j
  BY <1>0, <1>1, <1>2, Next1
<1>5. op[a] \in {"join", "quit", "copy"}
  BY <1>2, <1>4 DEF AllOps
<1>6. /\ work' \in Seq(LineType) /\ Tells(work', net, nets) /\ Owned(work', a)
      /\ op[a] = "copy" => Copying(work', a, net, sta.addr, BehindFresh)
  <2>1. BehindFresh \in BOOLEAN
    BY DEF BehindFresh, TextFresh
  <2>2. QED
    BY <1>1, <1>2, <1>4, <1>5, <2>1, TakenTells
<1>7. CallTypes'
  BY <1>1, <1>3 DEF CallTypes
<1>8. ReqTypes'
  BY <1>1, <1>2, <1>3, <1>4 DEF ReqTypes, Results, ResKinds
<1>9. DevTypes' /\ WorkInv'
  BY <1>1, <1>2, <1>3, <1>6, LenProperties DEF DevTypes, WorkInv
<1>10. CallInv'
  <2>1. Nobody \notin Apps
    BY StationAssumption
  <2>2. QED
    BY <1>1, <1>2, <1>3, <1>4, <2>1 DEF CallInv
<1>11. SeenInv'
  BY <1>1, <1>2, <1>3 DEF SeenInv
<1>12. CopyInv'
  BY <1>2, <1>3, <1>6 DEF CopyInv, BehindFresh
<1>13. KnowsInv'
  BY <1>1, <1>2, <1>3 DEF KnowsInv, AtHand, Fresh, BehindFresh
<1>14. WholeInv' /\ Reported'
  BY <1>1, <1>3 DEF WholeInv, Whole, Copies, Source, Reported, JoinOk, QuitOk, Done
<1>15. QED
  BY <1>7, <1>8, <1>9, <1>10, <1>11, <1>12, <1>13, <1>14 DEF StationInv

\* A call returns that does not remember what it was.
LEMMA StationReqReset ==
  ASSUME StationInv, ReqReset
  PROVE  StationInv'
<1>0. PICK a : a = Head(box)
  OBVIOUS
<1>1. /\ CallTypes /\ ReqTypes /\ DevTypes
      /\ CallInv /\ WorkInv /\ SeenInv /\ CopyInv /\ KnowsInv /\ WholeInv /\ Reported
  BY DEF StationInv
<1>2. /\ cur = Nobody /\ box # <<>> /\ chunk = 0 /\ op[a] = "reset"
      /\ box' = Tail(box) /\ sta' = NoSta /\ work' = <<>> /\ net' = 0
      /\ pc' = [pc EXCEPT ![a] = "idle"] /\ op' = [op EXCEPT ![a] = NoOp]
      /\ out' = out /\ Tear /\ Seeing
      /\ astray' = FALSE /\ raced' = Storing
      /\ cur' = cur /\ res' = res /\ sync' = sync /\ nets' = nets
      /\ behind' = behind /\ chunk' = chunk /\ pend' = pend
  BY <1>0 DEF ReqReset, Returns, respVars
<1>3. /\ a \in Apps /\ pc[a] = "wait" /\ op[a] \in AllOps /\ box' \in Seq(Apps)
      /\ \A b \in Apps : Queued(b) <=> b = a \/ Queued(b)'
      /\ ~Queued(a)' /\ \A i, j \in DOMAIN box' : box'[i] = box'[j] => i = j
  BY <1>0, <1>1, <1>2, Next1
<1>4. 0 \in Nets /\ MaxNet \in Nat
  BY StationAssumption DEF Nets
<1>5. /\ seen' \in [Apps -> SUBSET Nets]
      /\ \A b \in Apps : /\ pc[b] = "idle" => seen'[b] = seen[b]
                         /\ seen[b] \subseteq seen'[b]
                         /\ pc[b] # "idle" /\ op[b] # "reset" /\ net \in seen[b] => 0 \in seen'[b]
  <2>1. seen' = [b \in Apps |-> IF pc[b] = "idle" \/ op[b] = "reset" THEN seen[b]
                                ELSE seen[b] \cup ({0} \ {net})]
    BY <1>2 DEF Seeing
  <2>2. QED
    BY <1>1, <1>4, <2>1 DEF CallTypes
<1>6. CallTypes'
  BY <1>1, <1>2, <1>5, TearIs DEF CallTypes
<1>7. ReqTypes'
  BY <1>1, <1>2, <1>3 DEF ReqTypes
<1>8. DevTypes' /\ WorkInv'
  <2>1. NoSta \in StaType
    BY <1>4 DEF NoSta, StaType, Unset
  <2>2. work' \in Seq(LineType) /\ Len(work') = 0 /\ DOMAIN work' = {}
    BY <1>2, EmptySeq
  <2>3. astray' \in BOOLEAN /\ raced' \in BOOLEAN
    BY <1>2 DEF Storing
  <2>4. DevTypes'
    BY <1>1, <1>2, <1>4, <2>1, <2>2, <2>3 DEF DevTypes, Nets
  <2>5. WorkInv'
    BY <2>2 DEF WorkInv, Tells, Owned
  <2>6. QED
    BY <2>4, <2>5
<1>9. CallInv'
  <2>1. Nobody \notin Apps
    BY StationAssumption
  <2>2. pc'[a] = "idle" /\ \A b \in Apps : b # a => pc'[b] = pc[b] /\ op'[b] = op[b]
    BY <1>1, <1>2, <1>3 DEF CallTypes
  <2>3. QED
    BY <1>1, <1>2, <1>3, <2>1, <2>2 DEF CallInv, Fields
<1>10. SeenInv'
  BY <1>1, <1>2, <1>3, <1>5 DEF SeenInv, CallTypes, NoOp
<1>11. CopyInv'
  BY <1>2 DEF CopyInv
<1>12. KnowsInv'
  <2>1. ~raced' => ~AtHand'
    BY <1>1, <1>2, <1>3 DEF AtHand, NoSta, CallTypes, Storing
  <2>2. sta'.connected = FALSE
    BY <1>2 DEF NoSta
  <2>3. QED
    BY <1>2, <2>1, <2>2 DEF KnowsInv
<1>13. Reported'
  <2>1. \A b \in Apps, o \in {"join", "quit"} : Done(b, o)' => Done(b, o) /\ seen'[b] = seen[b]
    BY <1>1, <1>2, <1>3, <1>5 DEF Done, CallTypes, NoOp
  <2>2. QED
    BY <1>1, <1>2, <2>1 DEF Reported, JoinOk, QuitOk
<1>14. WholeInv'
  <2>1. \A b \in Apps : Copies(b)' => pc'[b] = pc[b]
    BY <1>1, <1>2, <1>3 DEF CallTypes, Copies, Fields
  <2>2. QED
    BY <1>1, <1>2, <1>5, <2>1, TearIs, WholeSame
<1>15. QED
  BY <1>6, <1>7, <1>8, <1>9, <1>10, <1>11, <1>12, <1>13, <1>14 DEF StationInv

LEMMA StationComplete ==
  ASSUME StationInv, cur # Nobody, chunk = 0, sync' \in BOOLEAN,
         NEW r \in {res, "timeout"}, Complete(r)
  PROVE  StationInv'
<1>1. /\ CallTypes /\ ReqTypes /\ DevTypes
      /\ CallInv /\ WorkInv /\ SeenInv /\ CopyInv /\ KnowsInv /\ WholeInv /\ Reported
  BY DEF StationInv
<1>2. /\ cur' = Nobody /\ res' = "inprog" /\ work' = Disown(cur)
      /\ seen' = IF r = "ok" THEN seen ELSE [seen EXCEPT ![cur] = {}]
      /\ box' = box /\ net' = net /\ nets' = nets
      /\ behind' = behind /\ chunk' = chunk /\ pend' = pend
      /\ sta' = sta /\ astray' = astray /\ raced' = raced /\ out' = out /\ lost' = lost
  BY DEF Complete, respVars, histVars
<1>3. cur \in Apps /\ pc[cur] = "wait" /\ ~Queued(cur)
  BY <1>1, InCall DEF CallInv
<1>4. \/ /\ op[cur] = "copy" /\ r = "ok" /\ pc' = [pc EXCEPT ![cur] = "store"]
         /\ op' = op
      \/ /\ ~(op[cur] = "copy" /\ r = "ok") /\ pc' = [pc EXCEPT ![cur] = "idle"]
         /\ op' = IF r = "ok" THEN op ELSE [op EXCEPT ![cur] = NoOp]
  BY DEF Complete, Returns
<1>5. CallTypes'
  BY <1>1, <1>2, <1>3, <1>4 DEF CallTypes
<1>6. ReqTypes'
  BY <1>1, <1>2 DEF ReqTypes, Results, ResKinds
<1>7. /\ work' \in Seq(LineType) /\ Len(work') = Len(work)
      /\ Tells(work', net, nets) /\ Owned(work', Nobody)
  BY <1>1, <1>2, <1>3, DisownedTells
<1>8. DevTypes' /\ WorkInv'
  BY <1>1, <1>2, <1>7 DEF DevTypes, WorkInv
<1>9. CallInv'
  <2>1. Nobody \notin Apps
    BY StationAssumption
  <2>2. \A b \in Apps : Queued(b)' <=> Queued(b)
    BY <1>2 DEF Queued
  <2>3. \A b \in Apps : b # cur => pc'[b] = pc[b] /\ op'[b] = op[b]
    BY <1>1, <1>3, <1>4 DEF CallTypes
  <2>4. pc'[cur] \in {"store", "idle"} /\ (pc'[cur] = "store" => op'[cur] = "copy")
    BY <1>1, <1>3, <1>4 DEF CallTypes
  <2>5. QED
    BY <1>1, <1>2, <1>3, <2>1, <2>2, <2>3, <2>4 DEF CallInv, Fields
<1>10. SeenInv'
  <2>1. ASSUME NEW b \in Apps, pc'[b] # "idle", op'[b] \in {"copy", "quit"}
        PROVE  net \in seen'[b]
    <3>1. CASE b # cur
      BY <1>1, <1>2, <1>3, <1>4, <2>1, <3>1 DEF SeenInv, CallTypes
    <3>2. CASE b = cur
      <4>1. op[cur] = "copy" /\ r = "ok"
        BY <1>1, <1>3, <1>4, <2>1, <3>2 DEF CallTypes
      <4>2. QED
        BY <1>1, <1>2, <1>3, <3>2, <4>1 DEF SeenInv
    <3>3. QED
      BY <3>1, <3>2
  <2>2. QED
    BY <1>2, <2>1 DEF SeenInv
<1>11. CopyInv'
  BY <1>2 DEF CopyInv
<1>12. KnowsInv'
  <2>1. AtHand' => AtHand
    <3>1. ASSUME NEW b \in Apps, pc'[b] = "store", pc[b] # "store"
          PROVE  op[cur] = "copy" /\ res = "ok"
      BY <1>1, <1>3, <1>4, <3>1 DEF CallTypes
    <3>2. QED
      BY <1>2, <3>1 DEF AtHand
  <2>2. QED
    BY <1>1, <1>2, <2>1 DEF KnowsInv, Fresh, BehindFresh
<1>13. Reported'
  <2>1. ASSUME NEW b \in Apps, b # cur, NEW o \in {"join", "quit"}, Done(b, o)'
        PROVE  Done(b, o) /\ seen'[b] = seen[b]
    BY <1>1, <1>2, <1>3, <1>4, <2>1 DEF Done, CallTypes
  <2>2. ASSUME NEW b \in Apps, b = cur, NEW o \in {"join", "quit"}, Done(b, o)'
        PROVE  op[cur] = o /\ res = "ok" /\ seen' = seen
    <3>1. pc'[cur] = "idle" /\ op'[cur] = o /\ o # NoOp
      BY <2>2 DEF Done, NoOp
    <3>2. ~(op[cur] = "copy" /\ r = "ok") /\ op' = IF r = "ok" THEN op ELSE [op EXCEPT ![cur] = NoOp]
      BY <1>1, <1>3, <1>4, <3>1 DEF CallTypes
    <3>3. r = "ok"
      BY <1>1, <1>3, <3>1, <3>2 DEF CallTypes
    <3>4. QED
      BY <1>2, <3>1, <3>2, <3>3
  <2>3. JoinOk'
    BY <1>1, <2>1, <2>2 DEF Reported, JoinOk, SeenInv
  <2>4. QuitOk'
    BY <1>1, <2>1, <2>2 DEF Reported, QuitOk, SeenInv
  <2>5. QED
    BY <2>3, <2>4 DEF Reported
<1>14. WholeInv'
  <2>1. \A b \in Apps : Copies(b)' => b # cur /\ pc'[b] = pc[b]
    BY <1>1, <1>3, <1>4 DEF CallTypes, Copies, Fields
  <2>2. \A b \in Apps : b # cur => seen'[b] = seen[b]
    BY <1>1, <1>2, <1>3 DEF CallTypes
  <2>3. QED
    BY <1>1, <1>2, <2>1, <2>2, WholeSame DEF Copies
<1>15. QED
  BY <1>5, <1>6, <1>8, <1>9, <1>10, <1>11, <1>12, <1>13, <1>14 DEF StationInv

LEMMA StationReqEnds ==
  ASSUME StationInv, ReqWake \/ ReqTimeout
  PROVE  StationInv'
<1>1. sync \in BOOLEAN
  BY DEF StationInv, ReqTypes
<1>2. CASE ReqWake
  BY <1>2, StationComplete DEF ReqWake
<1>3. CASE ReqTimeout
  BY <1>1, <1>3, StationComplete DEF ReqTimeout
<1>4. QED
  BY <1>2, <1>3


-----------------------------------------------------------------------------
(* The device and the response thread.                                     *)

LEMMA StationDevSend ==
  ASSUME StationInv, DevSend
  PROVE  StationInv'
<1>1. /\ chunk' \in 1..Len(work)
      /\ pc' = pc /\ op' = op /\ out' = out /\ lost' = lost
      /\ box' = box /\ cur' = cur /\ res' = res /\ sync' = sync
      /\ work' = work /\ net' = net /\ nets' = nets /\ behind' = behind /\ pend' = pend
      /\ sta' = sta /\ seen' = seen /\ astray' = astray /\ raced' = raced
  BY DEF DevSend, callVars, reqVars, devVars, histVars
<1>2. CallTypes' /\ ReqTypes'
  BY <1>1 DEF StationInv, CallTypes, ReqTypes
<1>3. DevTypes' /\ WorkInv'
  <2>1. Len(work) \in Nat
    BY LenProperties DEF StationInv, DevTypes
  <2>2. QED
    BY <1>1, <2>1 DEF StationInv, DevTypes, WorkInv
<1>4. CallInv' /\ SeenInv' /\ CopyInv'
  BY <1>1 DEF StationInv, CallInv, Queued, SeenInv, CopyInv, BehindFresh
<1>5. KnowsInv' /\ Reported'
  BY <1>1 DEF StationInv, KnowsInv, AtHand, Fresh, BehindFresh, Reported, JoinOk, QuitOk, Done
<1>6. WholeInv'
  BY <1>1 DEF StationInv, WholeInv, Whole, Copies, Source
<1>7. QED
  BY <1>2, <1>3, <1>4, <1>5, <1>6 DEF StationInv

LEMMA StationDevRoam ==
  ASSUME StationInv, DevRoam
  PROVE  StationInv'
<1>1. /\ work' = IF net = 0 THEN Associate(Nobody) ELSE <<Long("gone", Nobody)>>
      /\ work = <<>> /\ (net = 0 => nets < MaxNet)
      /\ pc' = pc /\ op' = op /\ out' = out /\ lost' = lost
      /\ box' = box /\ cur' = cur /\ res' = res /\ sync' = sync
      /\ net' = net /\ nets' = nets /\ behind' = behind /\ pend' = pend /\ chunk' = chunk
      /\ sta' = sta /\ seen' = seen /\ astray' = astray /\ raced' = raced
  BY DEF DevRoam, callVars, reqVars, respVars, histVars
<1>2. CallTypes' /\ ReqTypes'
  BY <1>1 DEF StationInv, CallTypes, ReqTypes
<1> DEFINE joined == Long("joined", Nobody)
           got    == Long("text", Nobody)
           gone   == Long("gone", Nobody)
<1>3. /\ joined \in LineType /\ got \in LineType /\ gone \in LineType
      /\ joined.own = Nobody /\ got.own = Nobody /\ gone.own = Nobody
      /\ joined.kind = "joined" /\ got.kind = "text" /\ gone.kind = "gone"
      /\ joined.long /\ got.long /\ gone.long
      /\ ~TellsAddress(joined) /\ ~TellsAddress(got) /\ ~TellsAddress(gone)
  BY LineIs DEF LineKinds
<1>4. \/ net = 0 /\ work' = <<joined, got>>
      \/ net # 0 /\ work' = <<gone>>
  BY <1>1 DEF Associate
<1>5. work' \in Seq(LineType)
  BY <1>3, <1>4, SeqOf
<1> HIDE DEF joined, got, gone
<1>6. \A i \in DOMAIN work' : \/ i = 1 /\ net = 0 /\ work'[i] = joined
                              \/ work'[i] = got
                              \/ work'[i] = gone
  BY <1>4
<1>7. \A i \in DOMAIN work' : /\ ~TellsAddress(work'[i]) /\ (Status(work'[i]) => work'[i].long)
                              /\ work'[i].own = Nobody /\ work'[i].kind # "ok"
                              /\ (work'[i].kind = "joined" => i = 1 /\ net = 0)
  BY <1>3, <1>6 DEF Status
<1>8. WorkInv'
  <2>1. Tells(work', net, nets)
    <3>1. \A i, j \in DOMAIN work' : work'[i].kind = "joined" /\ work'[j].kind = "joined" => i = j
      BY <1>7
    <3>2. (\E i \in DOMAIN work' : work'[i].kind = "joined") => nets < MaxNet
      BY <1>1, <1>7
    <3>3. QED
      BY <1>5, <1>7, <3>1, <3>2, FewTell DEF StationInv, DevTypes
  <2>2. QED
    BY <1>1, <1>7, <2>1 DEF WorkInv, Owned
<1>9. DevTypes'
  <2>1. chunk = 0 /\ Len(work') \in Nat
    BY <1>1, <1>5, EmptySeq, LenProperties DEF StationInv, DevTypes
  <2>2. QED
    BY <1>1, <1>5, <2>1 DEF StationInv, DevTypes
<1>10. CopyInv'
  BY <1>1, <1>7 DEF CopyInv, Copying
<1>11. CallInv' /\ SeenInv'
  BY <1>1 DEF StationInv, CallInv, Queued, SeenInv
<1>12. KnowsInv' /\ Reported'
  BY <1>1 DEF StationInv, KnowsInv, AtHand, Fresh, BehindFresh, Reported, JoinOk, QuitOk, Done
<1>13. WholeInv'
  BY <1>1 DEF StationInv, WholeInv, Whole, Copies, Source
<1>14. QED
  BY <1>2, <1>8, <1>9, <1>10, <1>11, <1>12, <1>13 DEF StationInv

\* What a line tells of the device, and who sees it.
LEMMA ToldIs ==
  ASSUME CallTypes, DevTypes, SeenInv, work # <<>>, Tells(work, net, nets), Told(Head(work))
  PROVE  /\ net' \in Nets /\ nets' \in Nets /\ net' <= nets'
         /\ ~Status(Head(work)) => net' = net /\ nets' = nets
         /\ Head(work).kind = "joined" => net' # 0 /\ net' # net
         /\ Head(work).kind = "gone" => net' = 0
         /\ Tells(Tail(work), net', nets')
         /\ seen' \in [Apps -> SUBSET Nets]
         /\ \A b \in Apps :
              /\ pc[b] = "idle" => seen'[b] = seen[b]
              /\ pc[b] # "idle" => seen[b] \subseteq seen'[b]
              /\ pc[b] # "idle" /\ op[b] # "reset" /\ net' # net => net' \in seen'[b]
<1> DEFINE l == Head(work)
<1>1. /\ net' = (CASE l.kind = "joined" -> nets + 1 [] l.kind = "gone" -> 0 [] OTHER -> net)
      /\ nets' = IF l.kind = "joined" THEN nets + 1 ELSE nets
      /\ seen' = [a \in Apps |-> IF pc[a] = "idle" \/ op[a] = "reset" THEN seen[a]
                                 ELSE seen[a] \cup ({net'} \ {net})]
  BY DEF Told, Seeing
<1>2. /\ Tells(Tail(work), net, nets)
      /\ Status(l) => \A m \in Nets : Tells(Tail(work), m, nets)
      /\ l.kind = "joined" => /\ nets < MaxNet
                              /\ \A m, k \in Nets : Tells(Tail(work), m, k)
  BY FirstTells DEF DevTypes
<1> HIDE DEF l
<1>3. net \in Nat /\ nets \in Nat /\ net <= nets /\ nets <= MaxNet /\ MaxNet \in Nat
      /\ \A x \in Nat : x <= MaxNet => x \in Nets
  BY StationAssumption DEF DevTypes, Nets
<1>4. CASE l.kind = "joined"
  <2>1. net' = nets + 1 /\ nets' = nets + 1
    BY <1>1, <1>4
  <2>2. net' \in Nets /\ nets' \in Nets /\ net' <= nets' /\ net' # 0 /\ net' # net
    BY <1>2, <1>3, <1>4, <2>1
  <2>3. Tells(Tail(work), net', nets')
    BY <1>2, <1>4, <2>2
  <2>4. QED
    BY <1>1, <1>4, <2>2, <2>3 DEF l, Status, CallTypes
<1>5. CASE l.kind = "gone"
  <2>1. net' = 0 /\ nets' = nets
    BY <1>1, <1>5
  <2>2. net' \in Nets /\ nets' \in Nets /\ net' <= nets'
    BY <1>3, <2>1
  <2>3. Tells(Tail(work), net', nets')
    BY <1>2, <1>5, <2>1, <2>2 DEF Status
  <2>4. QED
    BY <1>1, <1>5, <2>1, <2>2, <2>3 DEF l, Status, CallTypes
<1>6. CASE ~Status(l)
  <2>1. net' = net /\ nets' = nets
    BY <1>1, <1>6 DEF Status
  <2>2. QED
    BY <1>1, <1>2, <1>3, <1>6, <2>1 DEF l, Status, CallTypes, DevTypes
<1>7. QED
  BY <1>4, <1>5, <1>6 DEF Status

LEMMA StaIs ==
  ASSUME sta \in StaType
  PROVE  /\ \A c \in BOOLEAN : /\ JoinStatus(c) \in StaType /\ ~JoinStatus(c).hasIp
                               /\ JoinStatus(c).connected = c
         /\ \A t \in TextType : /\ ParseAPstaIP(t) \in StaType
                                /\ ParseAPstaIP(t).hasIp = sta.hasIp
                                /\ ParseAPstaIP(t).connected = sta.connected
                                /\ ParseAPstaIP(t).addr = AddrAfter(sta.addr, t)
<1>1. ASSUME NEW c \in BOOLEAN
      PROVE  /\ JoinStatus(c) \in StaType /\ ~JoinStatus(c).hasIp
             /\ JoinStatus(c).connected = c
  BY DEF JoinStatus, StaType
<1>2. ASSUME NEW t \in TextType
      PROVE  /\ ParseAPstaIP(t) \in StaType
             /\ ParseAPstaIP(t).hasIp = sta.hasIp
             /\ ParseAPstaIP(t).connected = sta.connected
             /\ ParseAPstaIP(t).addr = AddrAfter(sta.addr, t)
  <2>1. sta.addr \in [Fields -> Nets]
    BY DEF StaType
  <2>2. CASE t.field \in Fields
    <3>1. ParseAPstaIP(t) = [sta EXCEPT !.addr[t.field] = t.val]
      BY <2>2 DEF ParseAPstaIP
    <3>2. t.val \in Nets
      BY DEF TextType
    <3>3. [sta.addr EXCEPT ![t.field] = t.val] = AddrAfter(sta.addr, t)
      BY <2>1, <2>2 DEF AddrAfter
    <3>4. /\ ParseAPstaIP(t).hasIp = sta.hasIp /\ ParseAPstaIP(t).connected = sta.connected
          /\ ParseAPstaIP(t).addr = [sta.addr EXCEPT ![t.field] = t.val]
      BY <3>1 DEF StaType
    <3>5. [sta.addr EXCEPT ![t.field] = t.val] \in [Fields -> Nets]
      BY <2>1, <2>2, <3>2
    <3>6. ParseAPstaIP(t) \in StaType
      BY <3>1, <3>5 DEF StaType
    <3>7. QED
      BY <3>3, <3>4, <3>6
  <2>3. CASE t.field \notin Fields
    <3>1. ParseAPstaIP(t) = sta
      BY <2>3 DEF ParseAPstaIP
    <3>2. AddrAfter(sta.addr, t) = sta.addr
      BY <2>1, <2>3 DEF AddrAfter
    <3>3. QED
      BY <3>1, <3>2
  <2>4. QED
    BY <2>2, <2>3
<1>3. QED
  BY <1>1, <1>2


\* The next line; t is the text at offset 12 of the buffer after it.
LEMMA StationRespParse ==
  ASSUME StationInv, RespParse
  PROVE  StationInv'
<1>0. PICK l, t : l = Head(work) /\ t = CopyText(l, behind)
  OBVIOUS
<1>1. /\ CallTypes /\ ReqTypes /\ DevTypes
      /\ CallInv /\ WorkInv /\ SeenInv /\ CopyInv /\ KnowsInv /\ WholeInv /\ Reported
  BY DEF StationInv
<1>2. /\ chunk > 0 /\ chunk' = chunk - 1 /\ work' = Tail(work) /\ behind' = t /\ Told(l)
      /\ astray' = (astray \/ l.own # cur \/ Unread(l))
      /\ raced' = IF Status(l) THEN Storing ELSE raced
      /\ pc' = pc /\ op' = op /\ out' = out /\ Tear /\ box' = box /\ cur' = cur
  BY <1>0 DEF RespParse, callVars, CopyText
<1>3. \/ /\ cur = Nobody /\ res' = res /\ pend' = pend /\ sync' = sync /\ sta' = sta
      \/ /\ cur # Nobody /\ sta' = StaAfter(l, t)
         /\ \E p \in ParseLine(Cmd(op[cur]), l.kind, res, pend) :
              res' = p.res /\ pend' = (p.end /\ chunk > 1)
              /\ sync' = (sync \/ (chunk = 1 /\ p.end))
  BY <1>0 DEF RespParse, CopyText
<1>4. work \in Seq(LineType) /\ work # <<>> /\ Len(work) \in Nat
  <2>1. work \in Seq(LineType) /\ Len(work) \in Nat /\ chunk \in 0..Len(work)
    BY <1>1, LenProperties DEF DevTypes
  <2>2. work # <<>>
    BY <1>2, <2>1, EmptySeq
  <2>3. QED
    BY <2>1, <2>2
<1>5. /\ l \in LineType /\ work' \in Seq(LineType) /\ Len(work') = Len(work) - 1
  BY <1>0, <1>2, <1>4, FirstLine
<1>6. /\ TellsAddress(l) => l.text.val = net /\ l.long /\ l.kind = "text"
      /\ Status(l) => l.long /\ ~TellsAddress(l)
  BY <1>0, <1>1, <1>4, FirstTells DEF WorkInv, DevTypes
<1>7. /\ net' \in Nets /\ nets' \in Nets /\ net' <= nets'
      /\ ~Status(l) => net' = net /\ nets' = nets
      /\ l.kind = "joined" => net' # 0 /\ net' # net
      /\ l.kind = "gone" => net' = 0
      /\ Tells(work', net', nets')
      /\ seen' \in [Apps -> SUBSET Nets]
      /\ \A b \in Apps :
           /\ pc[b] = "idle" => seen'[b] = seen[b]
           /\ pc[b] # "idle" => seen[b] \subseteq seen'[b]
           /\ pc[b] # "idle" /\ op[b] # "reset" /\ net' # net => net' \in seen'[b]
  BY <1>0, <1>1, <1>2, <1>4, ToldIs DEF WorkInv
<1>8. t \in TextType
  BY <1>0, <1>1, <1>5 DEF CopyText, LineType, DevTypes
<1>9. ASSUME cur # Nobody
      PROVE  /\ cur \in Apps /\ pc[cur] = "wait" /\ op[cur] \in {"join", "quit", "copy"}
             /\ res' \in Results /\ pend' \in BOOLEAN /\ sync' \in BOOLEAN
             /\ res' = "ok" => \/ res = "ok" /\ (l.kind = "blank" \/ op[cur] = "copy")
                               \/ op[cur] = "join" /\ l.kind = "joined"
                               \/ op[cur] = "quit" /\ l.kind = "gone"
                               \/ op[cur] = "copy" /\ l.kind = "ok"
  <2>1. cur \in Apps /\ pc[cur] = "wait"
    BY <1>1, <1>9, InCall
  <2>2. op[cur] \in {"join", "quit", "copy"}
    BY <1>1, <1>9, <2>1 DEF CallInv, AllOps
  <2>3. \/ Cmd(op[cur]) = "CWJAP" /\ op[cur] = "join"
        \/ Cmd(op[cur]) = "CWQAP" /\ op[cur] = "quit"
        \/ Cmd(op[cur]) = "GMR" /\ op[cur] = "copy"
    BY <2>2 DEF Cmd
  <2>4. PICK p \in ParseLine(Cmd(op[cur]), l.kind, res, pend) :
          /\ res' = p.res /\ pend' = (p.end /\ chunk > 1)
          /\ sync' = (sync \/ (chunk = 1 /\ p.end))
    BY <1>3, <1>9
  <2>5. l.kind \in LineKinds /\ res \in Results /\ pend \in BOOLEAN /\ sync \in BOOLEAN
    BY <1>1, <1>5 DEF LineType, ReqTypes, DevTypes
  <2>6. QED
    BY <2>1, <2>2, <2>3, <2>4, <2>5, Parsed
<1>10. /\ sta' \in StaType
       /\ ~Status(l) => sta'.connected = sta.connected /\ sta'.hasIp = sta.hasIp
       /\ cur # Nobody /\ op[cur] = "copy" => sta'.addr = AddrAfter(sta.addr, t)
       /\ ~Status(l) => sta'.addr = sta.addr \/ sta'.addr = AddrAfter(sta.addr, t)
       /\ Status(l) /\ ~Unread(l) =>
            /\ ~sta'.hasIp /\ sta'.connected = (net' # 0)
            /\ cur # Nobody /\ op[cur] # "copy"
  <2>1. sta \in StaType
    BY <1>1 DEF DevTypes
  <2>2. CASE cur = Nobody
    BY <1>3, <2>1, <2>2 DEF Unread
  <2>3. CASE cur # Nobody
    <3>1. sta' = StaAfter(l, t) /\ op[cur] \in {"join", "quit", "copy"}
      BY <1>3, <1>9, <2>3
    <3>2. CASE op[cur] = "copy"
      <4>1. sta' = ParseAPstaIP(t)
        BY <3>1, <3>2 DEF StaAfter
      <4>2. Status(l) => Unread(l)
        BY <3>2 DEF Status, Unread
      <4>3. QED
        BY <1>8, <2>1, <3>2, <4>1, <4>2, StaIs
    <3>3. CASE op[cur] = "join" /\ l.kind = "joined"
      <4>1. sta' = JoinStatus(TRUE)
        BY <3>1, <3>3 DEF StaAfter
      <4>2. QED
        BY <1>7, <2>1, <2>3, <3>3, <4>1, StaIs DEF Status
    <3>4. CASE op[cur] = "quit" /\ l.kind = "gone"
      <4>1. sta' = JoinStatus(FALSE)
        BY <3>1, <3>4 DEF StaAfter
      <4>2. QED
        BY <1>7, <2>1, <2>3, <3>4, <4>1, StaIs DEF Status
    <3>5. CASE /\ op[cur] # "copy" /\ ~(op[cur] = "join" /\ l.kind = "joined")
               /\ ~(op[cur] = "quit" /\ l.kind = "gone")
      <4>1. sta' = sta
        BY <3>1, <3>5 DEF StaAfter
      <4>2. Status(l) => Unread(l)
        BY <3>1, <3>5 DEF Status, Unread
      <4>3. QED
        BY <2>1, <3>5, <4>1, <4>2
    <3>6. QED
      BY <3>1, <3>2, <3>3, <3>4, <3>5
  <2>4. QED
    BY <2>2, <2>3
<1>11. CallTypes' /\ ReqTypes' /\ CallInv'
  <2>1. res' \in Results /\ sync' \in BOOLEAN
    BY <1>1, <1>3, <1>9 DEF ReqTypes
  <2>2. QED
    BY <1>1, <1>2, <1>7, <2>1, TearIs DEF CallTypes, ReqTypes, CallInv, Queued
<1>12. DevTypes' /\ WorkInv'
  <2>1. pend' \in BOOLEAN /\ astray' \in BOOLEAN /\ raced' \in BOOLEAN
    BY <1>1, <1>2, <1>3, <1>9 DEF DevTypes, Storing
  <2>2. chunk' \in 0..Len(work')
    BY <1>1, <1>2, <1>4, <1>5 DEF DevTypes
  <2>3. Owned(work', cur)
    BY <1>1, <1>2, <1>4, FirstOwned DEF WorkInv
  <2>4. QED
    BY <1>2, <1>5, <1>7, <1>8, <1>10, <2>1, <2>2, <2>3 DEF DevTypes, WorkInv
<1>13. SeenInv'
  <2>1. ASSUME NEW b \in Apps, pc[b] # "idle", op[b] \in {"copy", "quit"}
        PROVE  net' \in seen'[b]
    BY <1>1, <1>7, <2>1 DEF SeenInv
  <2>2. ASSUME cur # Nobody, res' = "ok"
        PROVE  /\ op[cur] = "join" => seen'[cur] \ {0} # {}
               /\ op[cur] = "quit" => 0 \in seen'[cur]
    <3>1. CASE res = "ok"
      BY <1>1, <1>7, <1>9, <2>2, <3>1 DEF SeenInv
    <3>2. CASE op[cur] = "join" /\ l.kind = "joined"
      BY <1>7, <1>9, <2>2, <3>2
    <3>3. CASE op[cur] = "quit" /\ l.kind = "gone"
      BY <1>7, <1>9, <2>1, <2>2, <3>3
    <3>4. QED
      BY <1>9, <2>2, <3>1, <3>2, <3>3
  <2>3. QED
    BY <1>2, <2>1, <2>2 DEF SeenInv
<1>14. ASSUME cur # Nobody, op[cur] = "copy"
       PROVE  /\ Copying(work', cur, net, AddrAfter(sta.addr, t), TextFresh(t, net))
              /\ Status(l) => \A i \in DOMAIN work' : ~(work'[i].own = cur /\ work'[i].kind = "ok")
              /\ l.own = cur /\ l.kind = "ok" =>
                   TextFresh(t, net) /\ \A f \in Fields : AddrAfter(sta.addr, t)[f] = net
  <2>1. Copying(work, cur, net, sta.addr, TextFresh(behind, net))
    BY <1>1, <1>14 DEF CopyInv, BehindFresh
  <2>2. QED
    BY <1>0, <1>1, <1>2, <1>4, <1>9, <1>14, <2>1, FirstCopied DEF WorkInv, DevTypes
<1>15. CopyInv'
  <2>1. SUFFICES ASSUME cur # Nobody, op[cur] = "copy"
                 PROVE  Copying(work', cur, net', sta'.addr, TextFresh(t, net'))
    BY <1>2 DEF CopyInv, BehindFresh
  <2>2. CASE Status(l)
    BY <1>14, <2>1, <2>2 DEF Copying
  <2>3. CASE ~Status(l)
    BY <1>7, <1>10, <1>14, <2>1, <2>3
  <2>4. QED
    BY <2>2, <2>3
<1>16. KnowsInv'
  <2>1. SUFFICES ASSUME ~astray, l.own = cur, ~Unread(l)
                 PROVE  sta'.connected = (net' # 0) /\ (~raced' /\ AtHand' => Fresh')
    BY <1>2 DEF KnowsInv
  <2>2. sta.connected = (net # 0) /\ (~raced /\ AtHand => Fresh)
    BY <1>1, <2>1 DEF KnowsInv
  <2>3. CASE Status(l)
    <3>1. ~raced' => ~AtHand'
      BY <1>2, <1>10, <2>1, <2>3 DEF AtHand, Storing
    <3>2. QED
      BY <1>10, <2>1, <2>3, <3>1
  <2>4. CASE ~Status(l)
    <3>1. /\ net' = net /\ sta'.connected = sta.connected /\ sta'.hasIp = sta.hasIp
          /\ raced' = raced
      BY <1>2, <1>7, <1>10, <2>4
    <3>2. CASE AtHand /\ ~raced
      <4>1. TextFresh(t, net)
        BY <1>0, <1>6, <2>2, <3>2 DEF CopyText, Fresh, BehindFresh, TextFresh, TellsAddress
      <4>2. \A f \in Fields : sta.addr[f] = net /\ AddrAfter(sta.addr, t)[f] = net
        BY <2>2, <3>2, <4>1 DEF AddrAfter, Fresh, TextFresh
      <4>3. Fresh'
        BY <1>2, <1>10, <2>4, <3>1, <4>1, <4>2 DEF Fresh, BehindFresh
      <4>4. QED
        BY <2>2, <3>1, <4>3
    <3>3. CASE ~AtHand
      <4>1. SUFFICES ASSUME AtHand' PROVE Fresh'
        BY <2>2, <3>1
      <4>2. cur # Nobody /\ op[cur] = "copy" /\ res' = "ok" /\ res # "ok"
        BY <1>2, <3>1, <3>3, <4>1 DEF AtHand
      <4>3. l.kind = "ok"
        BY <1>9, <4>2
      <4>4. TextFresh(t, net) /\ \A f \in Fields : AddrAfter(sta.addr, t)[f] = net
        BY <1>14, <2>1, <4>2, <4>3
      <4>5. QED
        BY <1>2, <1>10, <3>1, <4>2, <4>4 DEF Fresh, BehindFresh
    <3>4. CASE raced
      BY <2>2, <3>1, <3>4
    <3>5. QED
      BY <3>2, <3>3, <3>4
  <2>5. QED
    BY <2>3, <2>4
<1>17. WholeInv' /\ Reported'
  <2>1. WholeInv'
    <3>1. ASSUME NEW b \in Apps, Copies(b)'
          PROVE  seen[b] \subseteq seen'[b]
      BY <1>2, <1>7, <3>1 DEF Copies, Fields
    <3>2. QED
      BY <1>1, <1>2, <3>1, TearIs, WholeSame
  <2>2. Reported'
    BY <1>1, <1>2, <1>7 DEF Reported, JoinOk, QuitOk, Done
  <2>3. QED
    BY <2>1, <2>2
<1>18. QED
  BY <1>11, <1>12, <1>13, <1>15, <1>16, <1>17 DEF StationInv


-----------------------------------------------------------------------------
(* The theorems.                                                           *)

LEMMA StationInit == Init => StationInv
<1> SUFFICES ASSUME Init PROVE StationInv
  OBVIOUS
<1>1. 0 \in Nets /\ Nobody \notin Apps
  BY StationAssumption DEF Nets
<1>2. NoSta \in StaType /\ NoText \in TextType
  BY <1>1 DEF NoSta, NoText, StaType, TextType, Text, Unset
<1>3. <<>> \in Seq(Apps) /\ <<>> \in Seq(LineType)
      /\ Len(<<>>) = 0 /\ DOMAIN <<>> = {}
  BY EmptySeq
<1>4. CallTypes /\ ReqTypes
  BY <1>2, <1>3 DEF Init, CallTypes, ReqTypes, StaType, Results, ResKinds
<1>5. DevTypes
  <2>1. chunk \in 0..Len(work)
    BY <1>3 DEF Init
  <2>2. net \in Nets /\ nets \in Nets /\ net <= nets
    BY <1>1 DEF Init
  <2>3. work \in Seq(LineType) /\ behind \in TextType /\ sta \in StaType
    BY <1>2, <1>3 DEF Init
  <2>4. pend \in BOOLEAN /\ astray \in BOOLEAN /\ raced \in BOOLEAN
    BY DEF Init
  <2>5. QED
    BY <2>1, <2>2, <2>3, <2>4 DEF DevTypes
<1>6. WorkInv
  BY <1>3 DEF Init, WorkInv, Tells, Owned
<1>7. CallInv /\ SeenInv /\ CopyInv
  BY <1>1, <1>3 DEF Init, CallInv, Queued, SeenInv, CopyInv, Fields
<1>8. KnowsInv /\ WholeInv /\ Reported
  BY DEF Init, KnowsInv, AtHand, NoSta, WholeInv, Whole, Copies, Fields,
         Reported, JoinOk, QuitOk, Done, NoOp
<1>9. QED
  BY <1>4, <1>5, <1>6, <1>7, <1>8 DEF StationInv

LEMMA StationNext == StationInv /\ [Next]_vars => StationInv'
<1> SUFFICES ASSUME StationInv, [Next]_vars PROVE StationInv'
  OBVIOUS
<1>1. CASE \E a \in Apps, o \in Ops : Call(a, o)
  BY <1>1, StationCall
<1>2. CASE \E a \in Apps : CopyTest(a) \/ CopyAsk(a) \/ CopyStore(a) \/ CopyReturn(a)
  BY <1>2, StationCopyTest, StationCopyAsk, StationCopyStore, StationCopyReturn
<1>3. CASE \E a \in Apps, f \in Fields : CopyField(a, f)
  BY <1>3, StationCopyField
<1>4. CASE ReqTake
  BY <1>4, StationReqTake
<1>5. CASE ReqReset
  BY <1>5, StationReqReset
<1>6. CASE ReqWake \/ ReqTimeout
  BY <1>6, StationReqEnds
<1>7. CASE DevSend
  BY <1>7, StationDevSend
<1>8. CASE DevRoam
  BY <1>8, StationDevRoam
<1>9. CASE RespParse
  BY <1>9, StationRespParse
<1>10. CASE UNCHANGED vars
  <2>1. /\ pc' = pc /\ op' = op /\ out' = out /\ lost' = lost
        /\ box' = box /\ cur' = cur /\ res' = res /\ sync' = sync
        /\ work' = work /\ net' = net /\ nets' = nets
        /\ behind' = behind /\ chunk' = chunk /\ pend' = pend
        /\ sta' = sta /\ seen' = seen /\ astray' = astray /\ raced' = raced
    BY <1>10 DEF vars, callVars, reqVars, devVars, respVars, histVars
  <2>2. /\ CallTypes' /\ ReqTypes' /\ DevTypes' /\ CallInv'
    BY <2>1 DEF StationInv, CallTypes, ReqTypes, DevTypes, CallInv, Queued
  <2>3. WorkInv' /\ SeenInv' /\ CopyInv'
    BY <2>1 DEF StationInv, WorkInv, SeenInv, CopyInv, BehindFresh
  <2>4. KnowsInv' /\ WholeInv' /\ Reported'
    BY <2>1 DEF StationInv, KnowsInv, AtHand, Fresh, BehindFresh,
                WholeInv, Whole, Copies, Source, Reported, JoinOk, QuitOk, Done
  <2>5. QED
    BY <2>2, <2>3, <2>4 DEF StationInv
<1>11. QED
  BY <1>1, <1>2, <1>3, <1>4, <1>5, <1>6, <1>7, <1>8, <1>9, <1>10 DEF Next

\* The inductive invariant holds of every device Station describes, with answers
\* late or not, cut or mixed in any way (esp_sta.c, esp_parser.c:52-63, :192-240).
THEOREM StationCorrect == Spec => []StationInv
<1>1. QED
  BY StationInit, StationNext, PTL DEF Spec

\* The types, and that a thread waits exactly while its request is queued or served
\* (esp.c:220-274).
THEOREM StationTypeCorrect == Spec => []TypeOK
<1>1. StationInv => TypeOK
  BY ShapesType DEF StationInv
<1>2. QED
  BY StationCorrect, <1>1, PTL

\* A join that reports espOK has seen the device get an address during the call,
\* whatever lines its answer met (eESPparseStaJoinResult, esp_parser.c:198-230).
THEOREM JoinOkCorrect == Spec => []JoinOk
<1>1. StationInv => JoinOk
  BY DEF StationInv, Reported
<1>2. QED
  BY StationCorrect, <1>1, PTL

\* A quit that reports espOK has seen the device without an address during the call
\* (eESPparseStaQuitResult, esp_parser.c:232-240).
THEOREM QuitOkCorrect == Spec => []QuitOk
<1>1. StationInv => QuitOk
  BY DEF StationInv, Reported
<1>2. QED
  BY StationCorrect, <1>1, PTL

\* What eESPstaCopyIP reports is one address that the device had during the call, the
\* same in both of its fields, unless a line met another request than its own or none
\* that reads it, has_ip was stored over what a status line or reset had cleared, or
\* the address was written while it was copied (esp_sta.c:137-146; esp_parser.c:52-63).
THEOREM CopiedIPCorrect == Spec => []CopiedIP
<1>1. StationInv => CopiedIP
  <2>1. ASSUME StationInv, NEW a \in Apps, pc[a] = "return", lost[a] = {}
        PROVE  \E n \in seen[a] : \A f \in Fields : out[a][f] = n
    <3>1. \A f \in Fields : Source(a, f) = out[a][f]
      BY <2>1 DEF Source
    <3>2. \E n \in seen[a] : \A f \in Fields : Source(a, f) = n
      BY <2>1 DEF StationInv, WholeInv, Whole, Copies
    <3>3. QED
      BY <3>1, <3>2
  <2>2. QED
    BY <2>1 DEF CopiedIP, Copied
<1>2. QED
  BY StationCorrect, <1>1, PTL

\* While every line has met its own request and one that reads it, is_connected says
\* of a quiet device whether it has an address, and an address marked as at hand is
\* that address unless has_ip was stored over what a status line or reset had cleared
\* (vESPparseJoinStatus, esp_parser.c:192-196; esp_sta.c:142-146).
THEOREM TracksDeviceCorrect == Spec => []TracksDevice
<1>1. StationInv => TracksDevice
  BY DEF StationInv, KnowsInv, AtHand, Fresh, TracksDevice
<1>2. QED
  BY StationCorrect, <1>1, PTL


=============================================================================
