----------------------------- MODULE ATCoreTruth ----------------------------
(***************************************************************************)
(* Answers and commands are matched by time only: when no answer is later  *)
(* than its command's time limit and none ends twice, sem_th_sync is never *)
(* stale, each answer is parsed against its own command, and the result a  *)
(* request reports is the one the device gave.  For any number of threads, *)
(* messages, mailbox slots and answers of that kind.                       *)
(***************************************************************************)
EXTENDS ATCorePunctual, ATCoreProofs, FiniteSetTheorems

-----------------------------------------------------------------------------
(* Lines.                                                                  *)

\* Only a line that ends the response to a command sets the flag.
LEMMA ParseLineEnds ==
  ASSUME NEW c, c # "CIPSEND", NEW k, NEW r, NEW e \in BOOLEAN,
         NEW o \in ParseLine(c, k, r, e), o.end
  PROVE  e \/ EndsResponse(c, k)
<1> DEFINE v == Verdict(k, r)
           f == e \/ EndsAnyCmd(k)
<1>1. CASE k = "blank"
  <2>1. o = [res |-> r, end |-> e]
    BY <1>1 DEF ParseLine
  <2>2. QED
    BY <2>1
<1>2. CASE k # "blank" /\ v = "okmore"
  <2>1. o = [res |-> v, end |-> f]
    BY <1>2 DEF ParseLine
  <2>2. QED
    BY <2>1 DEF EndsResponse
<1>3. CASE k # "blank" /\ v # "okmore"
  <2>1. o \in CmdBranch(c, k, v, f)
    BY <1>3 DEF ParseLine
  <2> HIDE DEF v
  <2>2. CASE c = "CWLAP" /\ ~f
    <3>1. o \in {[res |-> x, end |-> f] : x \in FoundAP}
      BY <2>1, <2>2 DEF CmdBranch
    <3>2. QED
      BY <2>2, <3>1
  <2>3. CASE c \in {"CWJAP", "CWMODE", "RESET"}
    BY <1>3, <2>3 DEF EndsResponse
  <2>4. CASE c = "CWQAP"
    <3>1. o = [res |-> StaQuitResult(k), end |-> f \/ k = "gone"]
      BY <2>1, <2>4 DEF CmdBranch
    <3>2. QED
      BY <2>4, <3>1 DEF EndsResponse
  <2>5. CASE ~(c = "CWLAP" /\ ~f) /\ c \notin {"CWJAP", "CWMODE", "RESET", "CWQAP"}
    <3>1. o = [res |-> v, end |-> f]
      BY <2>1, <2>5 DEF CmdBranch
    <3>2. QED
      BY <3>1 DEF EndsResponse
  <2>6. QED
    BY <2>2, <2>3, <2>4, <2>5
<1>4. QED
  BY <1>1, <1>2, <1>3

\* What the interrupt puts in a mailbox is last in it.
LEMMA Appended ==
  ASSUME NEW b \in Seq(ChunkType), NEW c \in ChunkType
  PROVE  \A i \in DOMAIN Append(b, c) :
           \/ i \in DOMAIN b /\ Append(b, c)[i] = b[i]
           \/ /\ i = Len(b) + 1 /\ Append(b, c)[i] = c
              /\ \A j \in DOMAIN Append(b, c) : ~(i < j)
OBVIOUS

-----------------------------------------------------------------------------
(* Where each piece of an answer is on its way.                            *)

LEMMA PunctualInit == Init => PunctualInv
BY DEF Init, PunctualInv, WireInv, UnaskedInv, ChunkInv, EndInv, NoneAsked, Ending,
       NoChunk, Chunk, Empty, Unasked

\* When the request thread is not waiting for an answer, none is on its way.
LEMMA IdleWire ==
  ASSUME PunctualInv, NoneAsked(respBox), chunk.own = Unasked,
         qpc' # "wait", qpc' = "relock" => cmd'[qmsg'] # "RESET",
         dev' = <<>>, sync' = Empty, UNCHANGED <<respBox, chunk, ppc, pend>>
  PROVE  PunctualInv'
<1>1. \A i \in DOMAIN respBox : respBox[i].own = Unasked
  BY DEF NoneAsked
<1>2. WireInv' /\ NoneAsked(respBox)'
  BY <1>1 DEF WireInv, NoneAsked
<1>3. UnaskedInv' /\ ChunkInv'
  BY DEF PunctualInv, UnaskedInv, ChunkInv
<1>4. EndInv'
  BY <1>1, <1>2, OwnerAssumption DEF PunctualInv, UnaskedInv, EndInv, Ending
<1>5. QED
  BY <1>2, <1>3, <1>4 DEF PunctualInv

\* A call never changes the command of the request that is being served.
LEMMA ApiCmd ==
  ASSUME IInv, NEW t \in ThreadIds,
         \/ ApiStep(t)
         \/ \E m \in Msgs, k \in Cmds, b \in BOOLEAN : ApiCall(t, m, k, b)
  PROVE  \A m \in Msgs : mem[m] # "unused" \/ m = qmsg => cmd'[m] = cmd[m]
<1>1. ASSUME NEW m \in Msgs, NEW k \in Cmds, NEW b \in BOOLEAN, ApiCall(t, m, k, b)
      PROVE  \A n \in Msgs : mem[n] # "unused" \/ n = qmsg => cmd'[n] = cmd[n]
  BY <1>1 DEF ApiCall, IInv, TypeOK, CallTypes, MemInv, UnusedInv
<1>2. CASE ApiStep(t)
  BY <1>2 DEF ApiStep, ApiCheck, ApiPut, ApiPutFails, ApiMark, ApiWake
<1>3. QED
  BY <1>1, <1>2

\* What a call does touches none of it.
LEMMA ApiWire ==
  ASSUME IInv, PunctualInv, NEW t \in ThreadIds,
         \/ ApiStep(t)
         \/ \E m \in Msgs, k \in Cmds, b \in BOOLEAN : ApiCall(t, m, k, b)
  PROVE  PunctualInv'
<1> USE Constants, OwnerAssumption
<1>1. UNCHANGED <<sync, qpc, qmsg, ppc, chunk, pend, dev, respBox>>
  BY ApiFrame
<1>2. qmsg \in Msgs => cmd'[qmsg] = cmd[qmsg]
  BY ApiCmd
<1>3. qpc \in {"wait", "relock"} => qmsg \in Msgs
  BY DEF IInv, TypeOK, ReqTypes, Pairing
<1>4. WireInv' /\ UnaskedInv' /\ ChunkInv'
  BY <1>1, <1>2, <1>3 DEF PunctualInv, WireInv, UnaskedInv, ChunkInv, NoneAsked
<1>5. /\ \A i \in DOMAIN dev : Ending(dev[i])' <=> Ending(dev[i])
      /\ \A i \in DOMAIN respBox : Ending(respBox[i])' <=> Ending(respBox[i])
      /\ Ending(chunk)' <=> Ending(chunk)
  BY <1>1, <1>2 DEF PunctualInv, WireInv, Ending
<1>6. EndInv'
  BY <1>1, <1>5 DEF PunctualInv, EndInv, NoneAsked
<1>7. QED
  BY <1>4, <1>6 DEF PunctualInv

\* The request thread stops waiting when nothing of the answer is left, and
\* starts when nothing of the one before is.
LEMMA ReqWire ==
  ASSUME Punctual, AnswersEndOnce, IInv, PunctualInv, ReqStep
  PROVE  PunctualInv'
<1> USE Constants, CoreAssumption, OwnerAssumption
<1>1. TypeOK /\ Pairing
  BY DEF IInv
<1>2. WireInv /\ UnaskedInv /\ ChunkInv /\ EndInv
  BY DEF PunctualInv
<1>3. CASE ReqStart /\ cmd[qmsg] # "RESET"
  <2>1. PICK a \in Answers[cmd[qmsg]] :
          dev' = dev \o [i \in 1..Len(a) |-> Chunk(qmsg, a[i])]
    BY <1>3 DEF ReqStart
  <2>2. /\ qpc = "start" /\ qpc' = "wait" /\ qmsg \in Msgs
        /\ UNCHANGED <<cmd, qmsg, sync, respBox, chunk, ppc, pend>>
    BY <1>1, <1>3 DEF ReqStart, callVars, respVars, TypeOK, ReqTypes, Pairing
  <2>3. cmd[qmsg] \in Sent /\ a \in Seq(Seq(LineKinds))
    BY <1>1, <1>3, <2>2 DEF TypeOK, CallTypes, Sent
  <2>4. dev' = [i \in 1..Len(a) |-> Chunk(qmsg, a[i])]
    BY <1>2, <2>1, <2>2, <2>3 DEF WireInv
  <2>5. \A i \in 1..Len(a) : i # Len(a) => \A j \in DOMAIN a[i] : ~MayEnd(cmd[qmsg], a[i][j])
    BY <2>3 DEF AnswersEndOnce
  <2>6. NoneAsked(respBox) /\ chunk.own = Unasked /\ sync = Empty
    BY <1>2, <2>2 DEF WireInv, EndInv
  <2>7. WireInv' /\ UnaskedInv' /\ ChunkInv'
    BY <1>2, <1>3, <2>2, <2>4, <2>6
       DEF WireInv, UnaskedInv, ChunkInv, NoneAsked, Chunk
  <2>8. \A i, j \in DOMAIN dev' : i < j => ~Ending(dev[i])'
    BY <2>2, <2>3, <2>4, <2>5 DEF Ending, Chunk
  <2>9. EndInv'
    BY <1>2, <2>2, <2>6, <2>8 DEF UnaskedInv, EndInv, NoneAsked, Ending
  <2>10. QED
    BY <2>7, <2>9 DEF PunctualInv
<1>4. CASE ReqTimeout
  <2>1. /\ qpc = "wait" /\ qpc' = "relock" /\ sync = Empty
        /\ ppc = "get" /\ respBox = <<>> /\ \A i \in DOMAIN dev : dev[i].own # qmsg
        /\ UNCHANGED <<cmd, qmsg, sync, respBox, chunk, ppc, pend, dev>>
    BY <1>4 DEF ReqTimeout, NoAnswerUnderway, callVars, respVars, devVars
  <2>2. dev = <<>>
    BY <1>1, <1>2, <2>1 DEF WireInv, TypeOK, DevTypes
  <2>3. NoneAsked(respBox) /\ chunk.own = Unasked
    BY <1>2, <2>1 DEF NoneAsked, ChunkInv, NoChunk, Chunk
  <2>4. cmd'[qmsg'] # "RESET"
    BY <1>2, <2>1 DEF WireInv
  <2>5. QED
    BY <2>1, <2>2, <2>3, <2>4, IdleWire
<1>5. CASE ReqWake
  <2>1. /\ qpc = "wait" /\ qpc' = "relock" /\ sync # Empty /\ sync' = Empty
        /\ UNCHANGED <<cmd, qmsg, respBox, chunk, ppc, pend, dev>>
    BY <1>5 DEF ReqWake, callVars, respVars, devVars
  <2>2. dev = <<>> /\ NoneAsked(respBox) /\ chunk.own = Unasked
    BY <1>2, <2>1 DEF EndInv
  <2>3. cmd'[qmsg'] # "RESET"
    BY <1>2, <2>1 DEF WireInv
  <2>4. QED
    BY <2>1, <2>2, <2>3, IdleWire
<1>6. CASE ~(ReqStart /\ cmd[qmsg] # "RESET") /\ ~ReqTimeout /\ ~ReqWake
  <2>1. /\ qpc # "wait" /\ qpc' \notin {"wait", "relock"}
        /\ UNCHANGED <<sync, respBox, chunk, ppc, pend>>
        /\ dev' \in {dev, <<>>}
    BY <1>6
       DEF ReqStep, ReqGet, ReqStart, ReqResetDone, ReqRelock, ReqFinish, ReqDelete,
           ReqClear, respVars, devVars
  <2>2. dev = <<>> /\ NoneAsked(respBox) /\ chunk.own = Unasked /\ sync = Empty
    BY <1>2, <2>1 DEF WireInv, EndInv
  <2>3. QED
    BY <2>1, <2>2, IdleWire
<1>7. QED
  BY <1>3, <1>4, <1>5, <1>6

\* The response thread takes a chunk, parses it and reports its end.
LEMMA RespWire ==
  ASSUME AnswersEndOnce, IInv, PunctualInv, RespStep
  PROVE  PunctualInv'
<1> USE Constants, CoreAssumption, OwnerAssumption
<1>1. TypeOK /\ Pairing
  BY DEF IInv
<1>2. WireInv /\ UnaskedInv /\ ChunkInv /\ EndInv
  BY DEF PunctualInv
<1>3. UNCHANGED <<cmd, qmsg, qpc>>
  BY DEF RespStep, RespGet, RespStart, RespParse, RespPrompt, RespEnd, RespSignal,
         RespYield, callVars, reqVars
<1>4. CASE RespGet
  <2>1. /\ ppc = "get" /\ ppc' = "start" /\ UNCHANGED <<sync, pend, dev>>
        /\ respBox \in Seq(ChunkType) /\ respBox # <<>>
        /\ chunk' = Head(respBox) /\ respBox' = Tail(respBox)
    BY <1>1, <1>4 DEF RespGet, TypeOK, DevTypes
  <2>2. /\ chunk' = respBox[1] /\ 1 \in DOMAIN respBox
        /\ \A i \in DOMAIN respBox' :
             i + 1 \in DOMAIN respBox /\ respBox'[i] = respBox[i + 1] /\ 1 < i + 1
        /\ \A i, j \in DOMAIN respBox' : i < j => i + 1 < j + 1
    BY <2>1
  <2>3. WireInv' /\ UnaskedInv' /\ ChunkInv'
    BY <1>2, <1>3, <2>1, <2>2 DEF WireInv, UnaskedInv, ChunkInv, NoneAsked
  <2>4. Ending(chunk)' => dev = <<>> /\ NoneAsked(respBox)'
    BY <1>2, <1>3, <2>1, <2>2 DEF EndInv, Ending, NoneAsked
  <2>5. \A i \in DOMAIN respBox' : Ending(respBox[i])' => Ending(respBox[i + 1])
    BY <1>3, <2>2 DEF Ending
  <2>6. \A i \in DOMAIN dev : Ending(dev[i])' <=> Ending(dev[i])
    BY <1>3, <2>1 DEF Ending
  <2>7. EndInv'
    BY <1>2, <1>3, <2>1, <2>2, <2>4, <2>5, <2>6 DEF ChunkInv, EndInv, NoneAsked
  <2>8. QED
    BY <2>3, <2>7 DEF PunctualInv
<1>5. CASE RespParse \/ RespPrompt
  <2>1. /\ ppc = "parse" /\ UNCHANGED <<ppc, sync, dev, respBox>>
        /\ chunk.lines \in Seq(LineKinds) /\ chunk.lines # <<>>
        /\ chunk' = [chunk EXCEPT !.lines = Tail(chunk.lines)]
    <3>1. ~SendsData
      BY <1>1 DEF AnswersEndOnce, SendsData, TypeOK, CallTypes, ReqTypes
    <3>2. QED
      BY <1>1, <1>5, <3>1 DEF RespParse, RespPrompt, devVars, TypeOK, RespTypes
  <2>2. /\ chunk'.own = chunk.own /\ chunk'.lines = Tail(chunk.lines)
        /\ \A i \in DOMAIN chunk'.lines :
             i + 1 \in DOMAIN chunk.lines /\ chunk'.lines[i] = chunk.lines[i + 1]
    <3>1. chunk \in ChunkType
      BY <1>1 DEF TypeOK, RespTypes
    <3>2. QED
      BY <2>1, <3>1 DEF ChunkType
  <2>3. Ending(chunk)' => Ending(chunk)
    BY <1>3, <2>2 DEF Ending
  <2>4. pend' => pend \/ (chunk.own # Unasked /\ Ending(chunk))
    <3>1. ASSUME gmsg # NoMsg,
                 NEW o \in ParseLine(cmd[gmsg], Seen(Head(chunk.lines)), res[gmsg], pend),
                 o.end
          PROVE  pend \/ (chunk.own # Unasked /\ Ending(chunk))
      <4>1. gmsg = qmsg /\ gmsg \in Msgs /\ qpc \in {"wait", "relock"}
        BY <1>1, <2>1, <3>1 DEF IInv, LockInv, Pairing, TypeOK, ReqTypes
      <4>2. cmd[gmsg] \in Sent
        BY <1>1, <1>2, <4>1 DEF WireInv, Sent, TypeOK, CallTypes
      <4>3. pend \/ EndsResponse(cmd[gmsg], Seen(Head(chunk.lines)))
        BY <1>1, <3>1, <4>2, ParseLineEnds
           DEF AnswersEndOnce, TypeOK, RespTypes, Sent
      <4>4. EndsResponse(cmd[gmsg], Seen(Head(chunk.lines)))
              => MayEnd(cmd[gmsg], Head(chunk.lines))
        BY DEF Seen, MayEnd
      <4>5. Head(chunk.lines) = chunk.lines[1] /\ 1 \in DOMAIN chunk.lines
        BY <2>1
      <4>6. chunk.own = Unasked => ~MayEnd(cmd[gmsg], Head(chunk.lines))
        BY <1>2, <4>2, <4>5 DEF UnaskedInv, AnswersEndOnce
      <4>7. chunk.own # Unasked => chunk.own = gmsg
        BY <1>2, <4>1 DEF WireInv
      <4>8. QED
        BY <4>1, <4>3, <4>4, <4>5, <4>6, <4>7 DEF Ending
    <3>2. QED
      BY <1>5, <3>1 DEF RespParse, RespPrompt
  <2>5. WireInv' /\ UnaskedInv' /\ ChunkInv'
    BY <1>2, <1>3, <2>1, <2>2, <2>4 DEF WireInv, UnaskedInv, ChunkInv, NoneAsked
  <2>6. EndInv'
    BY <1>2, <1>3, <2>1, <2>2, <2>3, <2>4 DEF EndInv, NoneAsked, Ending
  <2>7. QED
    BY <2>5, <2>6 DEF PunctualInv
<1>6. CASE RespStart \/ RespEnd
  <2>1. /\ UNCHANGED <<sync, dev, respBox>> /\ ppc' \notin {"yield"} /\ pend' = FALSE
        /\ \/ chunk' = chunk /\ ppc' = "parse"
           \/ chunk' = chunk /\ ppc' = "signal" /\ pend
           \/ chunk' = NoChunk /\ ppc' = "get"
    BY <1>6 DEF RespStart, RespEnd, devVars
  <2>2. WireInv' /\ UnaskedInv' /\ ChunkInv'
    BY <1>2, <1>3, <2>1
       DEF WireInv, UnaskedInv, ChunkInv, NoneAsked, NoChunk, Chunk
  <2>3. EndInv'
    BY <1>2, <1>3, <2>1 DEF EndInv, NoneAsked, Ending, NoChunk, Chunk
  <2>4. QED
    BY <2>2, <2>3 DEF PunctualInv
<1>7. CASE RespSignal
  <2>1. /\ ppc = "signal" /\ ppc' = "yield" /\ chunk' = NoChunk
        /\ UNCHANGED <<pend, dev, respBox>>
        /\ sync' = IF sync = Empty THEN chunk.own ELSE sync
    BY <1>7 DEF RespSignal, devVars
  <2>2. chunk.own # Unasked /\ dev = <<>> /\ NoneAsked(respBox)
    BY <1>2, <2>1 DEF UnaskedInv, EndInv
  <2>3. chunk.own = qmsg /\ qpc = "wait" /\ sync = Empty
    BY <1>2, <2>2 DEF WireInv, EndInv
  <2>4. WireInv' /\ UnaskedInv' /\ ChunkInv'
    BY <1>2, <1>3, <2>1, <2>2
       DEF WireInv, UnaskedInv, ChunkInv, NoneAsked, NoChunk, Chunk
  <2>5. EndInv'
    BY <1>2, <1>3, <2>1, <2>2, <2>3 DEF EndInv, NoneAsked, Ending, NoChunk, Chunk
  <2>6. QED
    BY <2>4, <2>5 DEF PunctualInv
<1>8. CASE RespYield
  <2>1. /\ ppc = "yield" /\ ppc' = "get"
        /\ UNCHANGED <<sync, pend, dev, respBox, chunk>>
    BY <1>8 DEF RespYield, devVars
  <2>2. WireInv' /\ UnaskedInv' /\ ChunkInv'
    BY <1>2, <1>3, <2>1 DEF WireInv, UnaskedInv, ChunkInv, NoneAsked
  <2>3. EndInv'
    BY <1>2, <1>3, <2>1 DEF EndInv, NoneAsked, Ending
  <2>4. QED
    BY <2>2, <2>3 DEF PunctualInv
<1>9. QED
  BY <1>4, <1>5, <1>6, <1>7, <1>8 DEF RespStep

\* The interrupt puts the next piece, or a line nobody asked for, in the
\* mailbox, or loses it.
LEMMA DevWire ==
  ASSUME IInv, PunctualInv, DevAnswer \/ DevUnasked
  PROVE  PunctualInv'
<1> USE Constants, CoreAssumption, OwnerAssumption
<1>1. TypeOK
  BY DEF IInv
<1>2. WireInv /\ UnaskedInv /\ ChunkInv /\ EndInv
  BY DEF PunctualInv
<1>3. UNCHANGED <<cmd, qmsg, qpc, sync, ppc, chunk, pend>>
  BY DevFrame DEF callVars, reqVars, respVars
<1>4. respBox \in Seq(ChunkType) /\ dev \in Seq(ChunkType)
  BY <1>1 DEF TypeOK, DevTypes
<1>5. CASE DevAnswer
  <2>1. /\ dev # <<>> /\ dev' = Tail(dev)
        /\ respBox' = respBox \/ respBox' = Append(respBox, Head(dev))
    BY <1>5 DEF DevAnswer, IsrPut
  <2>2. /\ Head(dev) = dev[1] /\ 1 \in DOMAIN dev
        /\ \A i \in DOMAIN dev' : i + 1 \in DOMAIN dev /\ dev'[i] = dev[i + 1] /\ 1 < i + 1
        /\ \A i, j \in DOMAIN dev' : i < j => i + 1 < j + 1
    BY <1>4, <2>1
  <2>3. \A i \in DOMAIN respBox' :
          \/ i \in DOMAIN respBox /\ respBox'[i] = respBox[i]
          \/ /\ i = Len(respBox) + 1 /\ respBox'[i] = dev[1]
             /\ \A j \in DOMAIN respBox' : ~(i < j)
    <3>1. dev[1] \in ChunkType
      BY <1>4, <2>2
    <3>2. CASE respBox' = Append(respBox, dev[1])
      BY <1>4, <3>1, <3>2, Appended
    <3>3. QED
      BY <2>1, <2>2, <3>2
  <2>4. qpc = "wait" /\ dev[1].own = qmsg
    BY <1>2, <2>1, <2>2 DEF WireInv
  <2>5. qmsg # Unasked
    BY <2>4 DEF IInv, TypeOK, ReqTypes, Pairing
  <2>6. WireInv' /\ UnaskedInv' /\ ChunkInv'
    BY <1>2, <1>3, <2>2, <2>3, <2>4, <2>5 DEF WireInv, UnaskedInv, ChunkInv
  <2>7. \A i \in DOMAIN respBox : ~Ending(respBox[i])
    BY <1>2, <2>1 DEF EndInv
  <2>8. Ending(dev[1]) => dev' = <<>>
    <3>1. Ending(dev[1]) => 2 \notin DOMAIN dev
      BY <1>2, <2>2 DEF EndInv
    <3>2. QED
      BY <1>4, <2>1, <3>1
  <2>9. \A i \in DOMAIN respBox' :
          Ending(respBox[i])' => dev' = <<>> /\ \A j \in DOMAIN respBox' : ~(i < j)
    <3> SUFFICES ASSUME NEW i \in DOMAIN respBox', Ending(respBox[i])'
                 PROVE  dev' = <<>> /\ \A j \in DOMAIN respBox' : ~(i < j)
      OBVIOUS
    <3>1. ~(i \in DOMAIN respBox /\ respBox'[i] = respBox[i])
      BY <1>3, <2>7 DEF Ending
    <3>2. respBox'[i] = dev[1] /\ \A j \in DOMAIN respBox' : ~(i < j)
      BY <2>3, <3>1
    <3>3. Ending(dev[1])
      BY <1>3, <3>2 DEF Ending
    <3>4. QED
      BY <2>8, <3>2, <3>3
  <2>10. \A i \in DOMAIN dev' : Ending(dev[i])' => Ending(dev[i + 1])
    BY <1>3, <2>2 DEF Ending
  <2>11. EndInv'
    BY <1>2, <1>3, <2>1, <2>2, <2>9, <2>10 DEF EndInv, Ending
  <2>12. QED
    BY <2>6, <2>11 DEF PunctualInv
<1>6. CASE DevUnasked
  <2>1. PICK k \in UrcLines :
          respBox' = respBox \/ respBox' = Append(respBox, Chunk(Unasked, <<k>>))
    BY <1>6 DEF DevUnasked, IsrPut
  <2>2. dev' = dev
    BY <1>6 DEF DevUnasked
  <2>3. \A i \in DOMAIN respBox' :
          \/ i \in DOMAIN respBox /\ respBox'[i] = respBox[i]
          \/ i = Len(respBox) + 1 /\ respBox'[i] = [own |-> Unasked, lines |-> <<k>>]
    BY <1>4, <2>1 DEF Chunk
  <2>4. WireInv' /\ UnaskedInv' /\ ChunkInv'
    BY <1>2, <1>3, <2>2, <2>3 DEF WireInv, UnaskedInv, ChunkInv, NoneAsked
  <2>5. \A i \in DOMAIN respBox' :
          Ending(respBox[i])' => i \in DOMAIN respBox /\ Ending(respBox[i])
    BY <1>3, <2>3 DEF Ending
  <2>6. EndInv'
    BY <1>2, <1>3, <2>2, <2>3, <2>5 DEF EndInv, NoneAsked, Ending
  <2>7. QED
    BY <2>4, <2>6 DEF PunctualInv
<1>7. QED
  BY <1>5, <1>6

-----------------------------------------------------------------------------
(* The theorems about them.                                                *)

LEMMA PunctualStep ==
  ASSUME Punctual, AnswersEndOnce, IInv, PunctualInv, [Next]_vars
  PROVE  PunctualInv'
<1>1. CASE UNCHANGED vars
  BY <1>1
     DEF vars, callVars, reqVars, respVars, devVars, PunctualInv, WireInv, UnaskedInv,
         ChunkInv, EndInv, NoneAsked, Ending
<1>2. QED
  BY <1>1, StepCases, ApiWire, ReqWire, RespWire, DevWire

\* What is on its way from the device belongs to the command in progress.
THEOREM PunctualCorrect ==
  ASSUME Punctual, AnswersEndOnce
  PROVE  Spec => []PunctualInv
<1>1. Init => PunctualInv
  BY PunctualInit
<1>2. IInv /\ PunctualInv /\ [Next]_vars => PunctualInv'
  BY PunctualStep
<1>3. QED
  BY <1>1, <1>2, InvCorrect, PTL DEF Spec

\* sem_th_sync is only given to the command the request thread waits for, by the
\* end of the answer to it, when no answer is late and none ends twice
\* (esp_thread.c:20-29).
THEOREM FreshTokenCorrect ==
  ASSUME Punctual, AnswersEndOnce
  PROVE  Spec => []FreshToken
<1>1. PunctualInv => FreshToken
  BY DEF PunctualInv, EndInv, FreshToken
<1>2. QED
  BY <1>1, PunctualCorrect, PTL

\* And each answer is parsed against the command it answers.
THEOREM OwnAnswerCorrect ==
  ASSUME Punctual, AnswersEndOnce
  PROVE  Spec => []OwnAnswer
<1>1. IInv /\ PunctualInv => OwnAnswer
  BY OwnerAssumption DEF IInv, Pairing, PunctualInv, WireInv, OwnAnswer
<1>2. QED
  BY <1>1, InvCorrect, PunctualCorrect, PTL

-----------------------------------------------------------------------------
(* Counting pieces of answers in the response mailbox.                     *)

\* Positions are finitely many, and each is of one sort.
LEMMA BoxCount ==
  ASSUME NEW b \in Seq(ChunkType)
  PROVE  /\ IsFiniteSet(AskedAt(b)) /\ IsFiniteSet(UnaskedAt(b))
         /\ Cardinality(AskedAt(b)) \in Nat /\ Cardinality(UnaskedAt(b)) \in Nat
         /\ Cardinality(AskedAt(b)) + Cardinality(UnaskedAt(b)) = Len(b)
<1>1. IsFiniteSet(1..Len(b)) /\ Cardinality(1..Len(b)) = Len(b)
  <2>1. PICK n \in Nat : n = Len(b)
    OBVIOUS
  <2>2. IsFiniteSet(1..n) /\ Cardinality(1..n) = n
    <3>1. 1 \in Int /\ n \in Int
      OBVIOUS
    <3>2. IsFiniteSet(1..n) /\ Cardinality(1..n) = IF 1 > n THEN 0 ELSE n - 1 + 1
      BY <3>1, FS_Interval
    <3>3. QED
      BY <3>2
  <2>3. QED
    BY <2>1, <2>2
<1>2. /\ AskedAt(b) \subseteq 1..Len(b) /\ UnaskedAt(b) \subseteq 1..Len(b)
      /\ AskedAt(b) \cup UnaskedAt(b) = 1..Len(b)
      /\ AskedAt(b) \cap UnaskedAt(b) = {}
  BY DEF AskedAt, UnaskedAt
<1>3. IsFiniteSet(AskedAt(b)) /\ IsFiniteSet(UnaskedAt(b))
  BY <1>1, <1>2, FS_Subset
<1>4. Cardinality(AskedAt(b)) \in Nat /\ Cardinality(UnaskedAt(b)) \in Nat
  BY <1>3, FS_CardinalityType
<1>5. /\ IsFiniteSet(AskedAt(b) \cap UnaskedAt(b))
      /\ Cardinality(AskedAt(b) \cap UnaskedAt(b)) = 0
  BY <1>2, FS_EmptySet
<1>6. Cardinality(AskedAt(b) \cup UnaskedAt(b))
        = Cardinality(AskedAt(b)) + Cardinality(UnaskedAt(b))
          - Cardinality(AskedAt(b) \cap UnaskedAt(b))
  BY <1>3, FS_Union
<1>7. Cardinality(AskedAt(b)) + Cardinality(UnaskedAt(b)) - 0 = Len(b)
  BY <1>1, <1>2, <1>5, <1>6
<1>8. Cardinality(AskedAt(b)) + Cardinality(UnaskedAt(b)) = Len(b)
  BY <1>4, <1>7
<1>9. QED
  BY <1>3, <1>4, <1>8

\* A put adds one position, of the sort of the chunk.
LEMMA CountPut ==
  ASSUME NEW b \in Seq(ChunkType), NEW c \in ChunkType
  PROVE  /\ c.own # Unasked =>
              /\ Cardinality(AskedAt(Append(b, c))) = Cardinality(AskedAt(b)) + 1
              /\ UnaskedAt(Append(b, c)) = UnaskedAt(b)
         /\ c.own = Unasked =>
              /\ Cardinality(UnaskedAt(Append(b, c))) = Cardinality(UnaskedAt(b)) + 1
              /\ AskedAt(Append(b, c)) = AskedAt(b)
<1> DEFINE n == Len(b) + 1
<1>1. /\ DOMAIN Append(b, c) = DOMAIN b \cup {n} /\ n \notin DOMAIN b
      /\ \A i \in DOMAIN b : Append(b, c)[i] = b[i]
      /\ Append(b, c)[n] = c
  OBVIOUS
<1>2. n \notin AskedAt(b) /\ n \notin UnaskedAt(b)
  BY <1>1 DEF AskedAt, UnaskedAt
<1>3. IsFiniteSet(AskedAt(b)) /\ IsFiniteSet(UnaskedAt(b))
  BY BoxCount
<1> HIDE DEF n
<1>4. c.own # Unasked =>
        AskedAt(Append(b, c)) = AskedAt(b) \cup {n} /\ UnaskedAt(Append(b, c)) = UnaskedAt(b)
  BY <1>1 DEF AskedAt, UnaskedAt
<1>5. c.own = Unasked =>
        UnaskedAt(Append(b, c)) = UnaskedAt(b) \cup {n} /\ AskedAt(Append(b, c)) = AskedAt(b)
  BY <1>1 DEF AskedAt, UnaskedAt
<1>6. QED
  BY <1>2, <1>3, <1>4, <1>5, FS_AddElement

\* A get adds none.
LEMMA CountGet ==
  ASSUME NEW b \in Seq(ChunkType), b # <<>>
  PROVE  /\ Cardinality(AskedAt(Tail(b))) <= Cardinality(AskedAt(b))
         /\ Cardinality(UnaskedAt(Tail(b))) <= Cardinality(UnaskedAt(b))
<1> DEFINE f == [i \in AskedAt(Tail(b)) |-> i + 1]
           g == [i \in UnaskedAt(Tail(b)) |-> i + 1]
<1>1. \A i \in DOMAIN Tail(b) : i \in Nat /\ i + 1 \in DOMAIN b /\ Tail(b)[i] = b[i + 1]
  OBVIOUS
<1>2. /\ f \in [AskedAt(Tail(b)) -> AskedAt(b)]
      /\ g \in [UnaskedAt(Tail(b)) -> UnaskedAt(b)]
  BY <1>1 DEF AskedAt, UnaskedAt
<1>3. /\ \A i, j \in AskedAt(Tail(b)) : f[i] = f[j] => i = j
      /\ \A i, j \in UnaskedAt(Tail(b)) : g[i] = g[j] => i = j
  BY <1>1 DEF AskedAt, UnaskedAt
<1>4. /\ f \in Injection(AskedAt(Tail(b)), AskedAt(b))
      /\ g \in Injection(UnaskedAt(Tail(b)), UnaskedAt(b))
  BY <1>2, <1>3 DEF Injection, IsInjective
<1>5. IsFiniteSet(AskedAt(b)) /\ IsFiniteSet(UnaskedAt(b))
  BY BoxCount
<1> HIDE DEF f, g
<1>6. QED
  BY <1>4, <1>5, FS_Injection

-----------------------------------------------------------------------------
(* The verdict of the device.                                              *)

\* Commands that leave the verdict to OK and ERROR end on nothing else.
LEMMA VerdictEnds ==
  ASSUME AnswersEndWithVerdict
  PROVE  /\ AnswersEndOnce
         /\ \A k : \A c \in Sent : MayEnd(c, k) <=> EndsAnyCmd(k)
<1>1. \A k : \A c \in Sent : MayEnd(c, k) <=> EndsAnyCmd(k)
  BY DEF AnswersEndWithVerdict, MayEnd, EndsResponse, EndsAnyCmd
<1>2. "CIPSEND" \notin Cmds
  BY DEF AnswersEndWithVerdict, Sent
<1>3. \A c \in Sent : \A k \in UrcLines : ~MayEnd(c, k)
  BY <1>1 DEF AnswersEndWithVerdict
<1>4. \A c \in Sent : \A a \in Answers[c] : \A i \in DOMAIN a :
        i # Len(a) => \A j \in DOMAIN a[i] : ~MayEnd(c, a[i][j])
  BY <1>1 DEF AnswersEndWithVerdict, EndsAnyCmd
<1>5. QED
  BY <1>1, <1>2, <1>3, <1>4 DEF AnswersEndOnce

\* Their result is the verdict, but for an array or a name that is too small.
LEMMA ParseVerdict ==
  ASSUME NEW c \in {"GMR", "CWLAP"}, NEW k \in {"ok", "err"}, NEW r, NEW e \in BOOLEAN,
         NEW o \in ParseLine(c, k, r, e)
  PROVE  /\ o.end
         /\ k = "ok"  => o.res \in {"ok", "okmore"}
         /\ k = "err" => o.res \in {"err", "errspec", "errmem"}
<1> DEFINE v == Verdict(k, r)
<1>1. /\ k = "ok"  => v \in {"ok", "okmore"}
      /\ k = "err" => v \in {"err", "errspec", "errmem"}
  BY DEF Verdict
<1>2. (e \/ EndsAnyCmd(k)) = TRUE
  BY DEF EndsAnyCmd
<1>3. o = [res |-> v, end |-> TRUE]
  <2>1. CASE v = "okmore"
    BY <1>2, <2>1 DEF ParseLine
  <2>2. CASE v # "okmore"
    <3>1. o \in CmdBranch(c, k, v, TRUE)
      BY <1>2, <2>2 DEF ParseLine
    <3> HIDE DEF v
    <3>2. QED
      BY <3>1 DEF CmdBranch
  <2>3. QED
    BY <2>1, <2>2
<1>4. QED
  BY <1>1, <1>3

\* Any other line leaves a command without a branch of its own alone.
LEMMA ParseQuiet ==
  ASSUME NEW k, ~EndsAnyCmd(k), NEW r, NEW e \in BOOLEAN,
         NEW o \in ParseLine("GMR", k, r, e)
  PROVE  o.res = r /\ o.end = e
<1>1. Verdict(k, r) = r /\ (e \/ EndsAnyCmd(k)) = e
  BY DEF Verdict, EndsAnyCmd
<1>2. o = [res |-> r, end |-> e]
  BY <1>1 DEF ParseLine, CmdBranch
<1>3. QED
  BY <1>2

\* The initial state.
LEMMA TruthInit == Init => TruthInv
<1> SUFFICES ASSUME Init
             PROVE  TruthInv
  OBVIOUS
<1>1. LinesInv
  BY DEF Init, LinesInv, VerdictsLast, NoChunk, Chunk
<1>2. RoomInv
  BY FS_EmptySet DEF Init, RoomInv, UnaskedAt, NoChunk, Chunk
<1>3. VerdictInv /\ ReportInv /\ TruthfulResult
  BY DEF Init, VerdictInv, ReportInv, TruthfulResult, Truthful
<1>4. QED
  BY <1>1, <1>2, <1>3 DEF TruthInv

\* A call reports the result its caller reads, and changes that of no request
\* on which the device has spoken.
LEMMA ApiTruth ==
  ASSUME MarkFirst, IInv, OutInv, PunctualInv, TruthInv, NEW t \in ThreadIds,
         \/ ApiStep(t)
         \/ \E m \in Msgs, k \in Cmds, b \in BOOLEAN : ApiCall(t, m, k, b)
  PROVE  TruthInv'
<1> USE Constants, CoreAssumption, OwnerAssumption
<1>1. TypeOK /\ Pairing /\ MemInv
  BY DEF IInv
<1>2. UNCHANGED <<sync, gmsg, qpc, qmsg, qtmo, ppc, chunk, pend, stray, dev, urcs, plan, respBox>>
  BY ApiFrame
<1>3. \A m \in Msgs : mem[m] # "unused" \/ m = qmsg => cmd'[m] = cmd[m]
  BY ApiCmd
<1>4. \A m \in Msgs : mem[m] = "unused" => out[m] = "none" /\ m # qmsg /\ ~sem[m]
  BY <1>1 DEF OutInv, NotHandedOver, MemInv, UnusedInv
<1>5. /\ \A m \in Msgs : res'[m] # res[m] => mem[m] = "unused" \/ ~Marked(m)
      /\ \A m \in Msgs : sem'[m] => sem[m]
      /\ \A m \in Msgs : \/ out'[m] = out[m]
                         \/ out'[m] \in Refusals
                         \/ sem[m] /\ out'[m] = res[m]
  <2>1. ASSUME NEW m \in Msgs, NEW k \in Cmds, NEW b \in BOOLEAN, ApiCall(t, m, k, b)
        PROVE  /\ \A n \in Msgs : res'[n] # res[n] => mem[n] = "unused"
               /\ UNCHANGED <<sem, out>>
    BY <1>1, <2>1 DEF ApiCall, TypeOK, CallTypes
  <2>2. CASE ApiStep(t)
    <3>1. amsg[t] \in Msgs
      BY <1>1, <2>2, InCall DEF ApiStep, ApiCheck, ApiPut, ApiPutFails, ApiMark, ApiWake
    <3>2. \/ UNCHANGED res
          \/ res' = [res EXCEPT ![amsg[t]] = "inprog"] /\ ~Marked(amsg[t])
      BY <2>2 DEF ApiStep, ApiCheck, ApiPut, ApiPutFails, ApiMark, ApiWake, Marked
    <3>3. \/ UNCHANGED sem
          \/ sem' = [sem EXCEPT ![amsg[t]] = FALSE]
      BY <2>2 DEF ApiStep, ApiCheck, ApiPut, ApiPutFails, ApiMark, ApiWake
    <3>4. \/ UNCHANGED out
          \/ \E r \in Refusals : out' = [out EXCEPT ![amsg[t]] = r]
          \/ out' = [out EXCEPT ![amsg[t]] = res[amsg[t]]] /\ sem[amsg[t]]
      BY <2>2 DEF ApiStep, ApiCheck, ApiPut, ApiPutFails, ApiMark, ApiWake, Leave,
                  NonblockingReturn, Refusals
    <3>5. QED
      BY <1>1, <3>1, <3>2, <3>3, <3>4 DEF TypeOK, CallTypes
  <2>3. QED
    BY <2>1, <2>2
<1>6. \A m \in Msgs : Marked(m) /\ (m = qmsg \/ sem[m]) => Marked(m)'
  <2> SUFFICES ASSUME NEW m \in Msgs, Marked(m), m = qmsg \/ sem[m]
               PROVE  Marked(m)'
    OBVIOUS
  <2>1. ASSUME NEW n \in Msgs, NEW k \in Cmds, NEW b \in BOOLEAN, ApiCall(t, n, k, b)
        PROVE  Marked(m)'
    BY <1>1, <2>1 DEF ApiCall, Marked, TypeOK, CallTypes
  <2>2. CASE ApiPut(t)
    <3>1. amsg[t] # m
      BY <1>1, <2>2 DEF ApiPut, MemInv, CallerInv
    <3>2. QED
      BY <1>1, <2>2, <3>1 DEF ApiPut, Marked, TypeOK, CallTypes
  <2>3. CASE ApiCheck(t) \/ ApiPutFails(t) \/ ApiMark(t) \/ ApiWake(t)
    <3>1. /\ apc' \in {[apc EXCEPT ![t] = x] : x \in {"idle", "put", "wait", "wild"}}
          /\ amsg' \in {amsg, [amsg EXCEPT ![t] = NoMsg]}
      BY <2>3 DEF ApiCheck, ApiPutFails, ApiMark, ApiWake, Leave, NonblockingReturn
    <3>2. QED
      BY <1>1, <3>1 DEF Marked, TypeOK, CallTypes
  <2>4. QED
    BY <2>1, <2>2, <2>3 DEF ApiStep
<1>7. \A m \in Msgs : mem[m] # "unused" \/ m = qmsg \/ sem[m] => (Clean(m)' <=> Clean(m))
  BY <1>2, <1>3, <1>4 DEF Clean
<1>8. \A r : \A m \in Msgs : Truthful(m, r)' <=> Truthful(m, r)
  BY <1>2 DEF Truthful, Said
<1>9. LinesInv'
  BY <1>2 DEF TruthInv, LinesInv, VerdictsLast, Said
<1>10. qpc \in {"wait", "relock", "events", "apicb", "clear"} => qmsg \in Msgs
  BY <1>1 DEF TypeOK, ReqTypes, Pairing
<1>11. RoomInv'
  BY <1>2, <1>3, <1>10 DEF TruthInv, RoomInv
<1>12. /\ \A i \in DOMAIN dev : Ending(dev[i])' <=> Ending(dev[i])
       /\ \A i \in DOMAIN respBox : Ending(respBox[i])' <=> Ending(respBox[i])
       /\ Ending(chunk)' <=> Ending(chunk)
  BY <1>2, <1>3 DEF PunctualInv, WireInv, Ending
<1>13. VerdictInv /\ ReportInv /\ TruthfulResult
  BY DEF TruthInv
<1>14. Ended' <=> Ended
  BY <1>2 DEF Ended
<1>15. \/ qpc = "wait" /\ Ended
       \/ qpc \in {"relock", "events", "apicb", "clear"}
       => Marked(qmsg) /\ Marked(qmsg)' /\ res'[qmsg] = res[qmsg]
  BY <1>2, <1>4, <1>5, <1>6, <1>10, <1>13 DEF ReportInv
<1>16. VerdictInv'
  <2>1. /\ Said(qmsg, "ok")' <=> Said(qmsg, "ok")
        /\ Said(qmsg, "err")' <=> Said(qmsg, "err")
    BY <1>2 DEF Said
  <2>2. qpc \in {"wait", "relock"} => (Clean(qmsg)' <=> Clean(qmsg))
    BY <1>2, <1>3, <1>10 DEF Clean
  <2>3. (qpc = "wait" /\ Ended) \/ qpc = "relock" =>
          (Answered(qmsg, res[qmsg])' <=> Answered(qmsg, res[qmsg]))
    BY <1>2, <1>15 DEF Answered, Said
  <2>4. QED
    BY <1>2, <1>12, <1>13, <1>14, <2>1, <2>2, <2>3 DEF VerdictInv
<1>17. ReportInv'
  <2>1. qpc \in {"events", "apicb", "clear"} =>
          (Clean(qmsg)' => Truthful(qmsg, res[qmsg])')
    BY <1>2, <1>3, <1>10, <1>13, <1>15 DEF ReportInv, Clean, Truthful, Said
  <2>2. \A m \in Msgs : sem'[m] => Marked(m)' /\ (Clean(m)' => Truthful(m, res[m])')
    <3> SUFFICES ASSUME NEW m \in Msgs, sem'[m]
                 PROVE  Marked(m)' /\ (Clean(m)' => Truthful(m, res[m])')
      OBVIOUS
    <3>1. sem[m] /\ Marked(m) /\ (Clean(m) => Truthful(m, res[m]))
      BY <1>5, <1>13 DEF ReportInv
    <3>2. Marked(m)' /\ res'[m] = res[m] /\ (Clean(m)' <=> Clean(m))
      BY <1>4, <1>5, <1>6, <1>7, <3>1
    <3>3. QED
      BY <1>2, <3>1, <3>2 DEF Truthful, Said
  <2>3. qpc = "wait" /\ (Ended \/ chunk.own # Unasked \/ ~NoneAsked(respBox)) => Marked(qmsg)'
    BY <1>2, <1>6, <1>10, <1>13 DEF ReportInv
  <2>4. QED
    BY <1>2, <1>14, <1>15, <2>1, <2>2, <2>3 DEF ReportInv, NoneAsked
<1>18. TruthfulResult'
  <2> SUFFICES ASSUME NEW m \in Msgs, Clean(m)'
               PROVE  Truthful(m, out[m])'
    BY DEF TruthfulResult
  <2>1. CASE mem[m] = "unused"
    <3>1. out'[m] = "none" \/ out'[m] \in Refusals
      BY <1>4, <1>5, <2>1
    <3>2. QED
      BY <3>1 DEF Truthful, Refusals
  <2>2. CASE mem[m] # "unused"
    <3>1. Clean(m)
      BY <1>7, <2>2
    <3>2. out'[m] \in Refusals \/ Truthful(m, out'[m])
      BY <1>5, <1>13, <3>1 DEF TruthfulResult, ReportInv
    <3>3. QED
      BY <1>2, <3>2 DEF Truthful, Said, Refusals
  <2>3. QED
    BY <2>1, <2>2
<1>19. QED
  BY <1>9, <1>11, <1>16, <1>17, <1>18 DEF TruthInv

\* The request thread gives up when the device has said nothing, and goes on when
\* it has its verdict.
LEMMA ReqTruth ==
  ASSUME Punctual, MarkFirst, AnswersEndWithVerdict, IInv, OutInv, PunctualInv,
         TruthInv, ReqStep
  PROVE  TruthInv'
<1> USE Constants, CoreAssumption, OwnerAssumption
<1>1. TypeOK /\ Pairing /\ MemInv
  BY DEF IInv
<1>2. WireInv /\ UnaskedInv /\ ChunkInv /\ EndInv
  BY DEF PunctualInv
<1>3. LinesInv /\ RoomInv /\ VerdictInv /\ ReportInv /\ TruthfulResult
  BY DEF TruthInv
<1>4. UNCHANGED <<cmd, apc, amsg, ppc, chunk, pend, stray, respBox, urcs>>
  BY DEF ReqStep, ReqGet, ReqStart, ReqResetDone, ReqWake, ReqTimeout, ReqRelock,
         ReqFinish, ReqDelete, ReqClear, callVars, respVars, devVars
<1>5. CASE ReqStart /\ cmd[qmsg] # "RESET"
  <2>1. PICK a \in Answers[cmd[qmsg]] :
          /\ dev' = dev \o [i \in 1..Len(a) |-> Chunk(qmsg, a[i])]
          /\ plan' = [plan EXCEPT ![qmsg] = a]
    BY <1>5 DEF ReqStart
  <2>2. /\ qpc = "start" /\ qpc' = "wait" /\ qmsg \in Msgs
        /\ UNCHANGED <<qmsg, sync, res, sem, out>>
    BY <1>1, <1>5 DEF ReqStart, callVars, TypeOK, ReqTypes, Pairing
  <2>3. cmd[qmsg] \in Sent /\ a \in Seq(Seq(LineKinds))
    BY <1>1, <1>5, <2>2 DEF TypeOK, CallTypes, Sent
  <2>4. dev' = [i \in 1..Len(a) |-> Chunk(qmsg, a[i])]
    BY <1>2, <2>1, <2>2, <2>3 DEF WireInv
  <2>5. plan'[qmsg] = a /\ \A m \in Msgs : m # qmsg => plan'[m] = plan[m]
    BY <1>1, <2>1, <2>2, <2>3 DEF TypeOK, DevTypes
  <2>6. NoneAsked(respBox) /\ chunk.own = Unasked /\ ~Ended
    BY <1>2, <2>2 DEF WireInv, UnaskedInv, EndInv, Ended
  <2>7. LinesInv'
    <3>1. \A c : c.own = Unasked /\ VerdictsLast(c) => VerdictsLast(c)'
      BY DEF VerdictsLast
    <3>2. ASSUME NEW i \in 1..Len(a)
          PROVE  VerdictsLast(dev[i])'
      <4>1. dev'[i].own = qmsg /\ dev'[i].lines = a[i] /\ a[i] \in Seq(LineKinds)
        BY <2>3, <2>4 DEF Chunk
      <4>2. \A j \in DOMAIN a[i] :
              /\ a[i][j] \notin {"prompt", "rdy"}
              /\ a[i][j] \in {"ok", "err"} => i = Len(a) /\ j = Len(a[i])
        <5>1. i \in DOMAIN a
          BY <2>3
        <5>2. QED
          BY <2>3, <5>1 DEF AnswersEndWithVerdict
      <4>3. ASSUME NEW j \in DOMAIN a[i], EndsAnyCmd(a[i][j])
            PROVE  j = Len(a[i]) /\ a[i][j] \in {"ok", "err"} /\ Said(qmsg, a[i][j])'
        <5>1. a[i][j] \in {"ok", "err"} /\ i = Len(a) /\ j = Len(a[i])
          BY <4>2, <4>3 DEF EndsAnyCmd
        <5>2. a # <<>> /\ a[i] # <<>>
          BY <2>3, <4>1, <4>3
        <5>3. QED
          BY <2>2, <2>5, <5>1, <5>2 DEF Said
      <4>4. QED
        BY <2>2, <4>1, <4>2, <4>3 DEF VerdictsLast
    <3>3. \A i \in DOMAIN respBox : respBox[i].own = Unasked
      BY <2>6 DEF NoneAsked
    <3>4. /\ \A i \in DOMAIN respBox : VerdictsLast(respBox[i])'
          /\ VerdictsLast(chunk)'
      BY <1>3, <1>4, <2>6, <3>3 DEF LinesInv, VerdictsLast
    <3>5. DOMAIN dev' = 1..Len(a)
      BY <2>4
    <3>6. QED
      BY <1>3, <1>4, <3>2, <3>4, <3>5 DEF LinesInv
  <2>8. RoomInv'
    <3>1. Cardinality(AskedAt(respBox)) = 0
      <4>1. AskedAt(respBox) = {}
        BY <2>6 DEF NoneAsked, AskedAt
      <4>2. QED
        BY <4>1, FS_EmptySet
    <3>2. Len(dev') = Len(a) /\ Len(a) \in Nat
      BY <2>3, <2>4
    <3>3. QED
      BY <1>3, <1>4, <2>2, <2>5, <3>1, <3>2 DEF RoomInv
  <2>9. VerdictInv'
    <3>1. ASSUME NEW k \in {"ok", "err"}, Said(qmsg, k)'
          PROVE  \E i \in DOMAIN dev' : Ending(dev[i])'
      <4>1. a # <<>> /\ a[Len(a)] # <<>> /\ a[Len(a)][Len(a[Len(a)])] = k
        BY <2>2, <2>5, <3>1 DEF Said
      <4>2. Len(a) \in DOMAIN dev' /\ dev'[Len(a)] = Chunk(qmsg, a[Len(a)])
        BY <2>3, <2>4, <4>1
      <4>3. Len(a[Len(a)]) \in DOMAIN a[Len(a)]
        BY <2>3, <4>1
      <4>4. MayEnd(cmd[qmsg], k)
        BY DEF MayEnd, EndsResponse, EndsAnyCmd
      <4>5. QED
        BY <1>4, <2>2, <4>1, <4>2, <4>3, <4>4 DEF Ending, Chunk
    <3>2. ~Ended'
      BY <1>4, <2>2, <2>6 DEF Ended
    <3>3. QED
      BY <2>2, <3>1, <3>2 DEF VerdictInv
  <2>10. \A m \in Msgs : m # qmsg => \A r : Truthful(m, r)' <=> Truthful(m, r)
    BY <2>5 DEF Truthful, Said
  <2>11. ReportInv'
    <3>1. \A m \in Msgs : sem[m] => m # qmsg
      BY <1>1, <2>2 DEF MemInv, SignalledInv
    <3>2. \A m \in Msgs : sem'[m] => Marked(m)' /\ (Clean(m)' => Truthful(m, res[m])')
      BY <1>3, <1>4, <2>2, <2>10, <3>1 DEF ReportInv, Marked, Clean
    <3>3. ~Ended' /\ chunk'.own = Unasked /\ NoneAsked(respBox)'
      BY <1>4, <2>2, <2>6 DEF Ended, NoneAsked
    <3>4. QED
      BY <2>2, <3>2, <3>3 DEF ReportInv
  <2>12. TruthfulResult'
    <3>1. out[qmsg] = "none"
      BY <2>2 DEF OutInv, Unserved, InService
    <3>2. \A r : r = "none" => Truthful(qmsg, r)'
      BY DEF Truthful
    <3>3. QED
      BY <1>3, <1>4, <2>2, <2>10, <3>1, <3>2 DEF TruthfulResult, Clean
  <2>13. QED
    BY <2>7, <2>8, <2>9, <2>11, <2>12 DEF TruthInv
<1>6. CASE ~(ReqStart /\ cmd[qmsg] # "RESET")
  <2>1. plan' = plan /\ dev' \in {dev, <<>>} /\ qpc' # "wait"
    BY <1>6 DEF ReqStep, ReqGet, ReqStart, ReqResetDone, ReqWake, ReqTimeout, ReqRelock,
                ReqFinish, ReqDelete, ReqClear, devVars
  <2>2. LinesInv' /\ RoomInv'
    BY <1>3, <1>4, <2>1 DEF LinesInv, RoomInv, VerdictsLast, Said
  <2>3. \A m \in Msgs : /\ Marked(m)' <=> Marked(m)
                        /\ Clean(m)' <=> Clean(m)
                        /\ \A r : Truthful(m, r)' <=> Truthful(m, r)
    BY <1>4, <2>1 DEF Marked, Clean, Truthful, Said
  <2>4. qpc \notin {"get", "clear"} => \A m \in Msgs : sem[m] => m # qmsg
    BY <1>1 DEF MemInv, SignalledInv, Pairing
  <2>5. qpc # "get" => qmsg \in Msgs
    BY <1>1 DEF TypeOK, ReqTypes, Pairing
  <2>6. CASE ReqGet \/ ReqStart \/ ReqClear
    <3>1. qpc' \in {"get", "start", "reset"} /\ UNCHANGED <<res, sem, out>>
      BY <1>6, <2>6 DEF ReqGet, ReqStart, ReqClear
    <3>2. QED
      BY <1>3, <2>2, <2>3, <3>1 DEF TruthInv, VerdictInv, ReportInv, TruthfulResult
  <2>7. CASE ReqResetDone \/ ReqRelock
    <3>1. /\ qpc' = "events" /\ UNCHANGED <<sem, out, qmsg>> /\ qmsg \in Msgs
          /\ \A m \in Msgs : m # qmsg => res'[m] = res[m]
          /\ qpc \notin {"get", "clear"}
      BY <1>1, <2>5, <2>7 DEF ReqResetDone, ReqRelock, TypeOK, CallTypes
    <3>2. Marked(qmsg) /\ (Clean(qmsg) => Truthful(qmsg, res'[qmsg]))
      <4>1. CASE ReqResetDone
        <5>1. res'[qmsg] = "oknocmd"
          BY <1>1, <3>1, <4>1 DEF ReqResetDone, TypeOK, CallTypes
        <5>2. QED
          BY <4>1, <5>1 DEF ReqResetDone, Truthful
      <4>2. CASE ReqRelock
        <5>1. qpc = "relock" /\ res'[qmsg] = IF qtmo THEN "timeout" ELSE res[qmsg]
          BY <1>1, <3>1, <4>2 DEF ReqRelock, TypeOK, CallTypes
        <5>2. CASE qtmo
          BY <1>3, <5>1, <5>2 DEF VerdictInv, ReportInv, Truthful
        <5>3. CASE ~qtmo
          <6>1. Clean(qmsg) => Answered(qmsg, res[qmsg])
            BY <1>3, <5>1, <5>3 DEF VerdictInv
          <6>2. QED
            BY <1>3, <5>1, <5>3, <6>1 DEF ReportInv, Answered, Truthful
        <5>4. QED
          BY <5>2, <5>3
      <4>3. QED
        BY <2>7, <4>1, <4>2
    <3>3. VerdictInv' /\ TruthfulResult'
      BY <1>3, <2>3, <3>1 DEF VerdictInv, TruthfulResult
    <3>4. ReportInv'
      BY <1>3, <2>3, <2>4, <3>1, <3>2 DEF ReportInv
    <3>5. QED
      BY <2>2, <3>3, <3>4 DEF TruthInv
  <2>8. CASE ReqWake \/ ReqTimeout
    <3>1. /\ qpc = "wait" /\ qpc' = "relock"
          /\ UNCHANGED <<res, sem, out, qmsg>> /\ qmsg \in Msgs
      BY <2>5, <2>8 DEF ReqWake, ReqTimeout
    <3>2. Marked(qmsg)
      BY <1>3, <2>8, <3>1 DEF ReqWake, ReqTimeout, ReportInv, Ended
    <3>3. CASE ReqWake
      <4>1. Ended /\ qtmo' = FALSE
        BY <3>3 DEF ReqWake, Ended
      <4>2. Clean(qmsg) => Answered(qmsg, res[qmsg])
        BY <1>3, <3>1, <4>1 DEF VerdictInv
      <4>3. VerdictInv'
        BY <2>1, <2>3, <3>1, <4>1, <4>2 DEF VerdictInv, Answered, Said
      <4>4. QED
        BY <1>3, <2>2, <2>3, <3>1, <3>2, <4>3 DEF TruthInv, ReportInv, TruthfulResult
    <3>4. CASE ReqTimeout
      <4>1. /\ sync = Empty /\ ppc = "get" /\ respBox = <<>> /\ qtmo' = TRUE
            /\ \A i \in DOMAIN dev : dev[i].own # qmsg
        BY <3>4 DEF ReqTimeout, NoAnswerUnderway
      <4>2. ~Ended /\ ~Ending(chunk)
        BY <1>2, <4>1 DEF ChunkInv, Ended, Ending, NoChunk, Chunk
      <4>3. (\A i \in DOMAIN dev : FALSE) /\ (\A i \in DOMAIN respBox : FALSE)
        <5>1. \A i \in DOMAIN dev : dev[i].own = qmsg
          BY <1>2 DEF WireInv
        <5>2. QED
          BY <4>1, <5>1
      <4>4. ~Said(qmsg, "ok") /\ ~Said(qmsg, "err")
        BY <1>3, <3>1, <4>2, <4>3 DEF VerdictInv
      <4>5. VerdictInv'
        BY <2>1, <3>1, <4>1, <4>4 DEF VerdictInv, Said
      <4>6. QED
        BY <1>3, <2>2, <2>3, <3>1, <3>2, <4>5 DEF TruthInv, ReportInv, TruthfulResult
    <3>5. QED
      BY <2>8, <3>3, <3>4
  <2>9. CASE ReqFinish \/ ReqDelete
    <3>1. /\ qpc \in {"events", "apicb"} /\ qpc' \in {"apicb", "clear"}
          /\ UNCHANGED <<res, qmsg>> /\ qmsg \in Msgs
          /\ sem' \in {sem, [sem EXCEPT ![qmsg] = TRUE]}
          /\ out' \in {out, [out EXCEPT ![qmsg] = res[qmsg]]}
      BY <2>5, <2>9 DEF ReqFinish, ReqDelete
    <3>2. Marked(qmsg) /\ (Clean(qmsg) => Truthful(qmsg, res[qmsg]))
      BY <1>3, <3>1 DEF ReportInv
    <3>3. \A m \in Msgs : /\ sem'[m] => sem[m] \/ m = qmsg
                          /\ out'[m] = out[m] \/ (m = qmsg /\ out'[m] = res[m])
      BY <1>1, <3>1 DEF TypeOK, CallTypes
    <3>4. VerdictInv'
      BY <3>1 DEF VerdictInv
    <3>5. ReportInv'
      BY <1>3, <2>3, <3>1, <3>2, <3>3 DEF ReportInv
    <3>6. TruthfulResult'
      BY <1>3, <2>3, <3>2, <3>3 DEF TruthfulResult
    <3>7. QED
      BY <2>2, <3>4, <3>5, <3>6 DEF TruthInv
  <2>10. QED
    BY <1>6, <2>6, <2>7, <2>8, <2>9 DEF ReqStep
<1>7. QED
  BY <1>5, <1>6

\* Taking, ending or reporting a chunk leaves the verdict where it is on its way,
\* and parsing the last line of an answer makes it the result.
LEMMA RespTruth ==
  ASSUME AnswersEndWithVerdict, IInv, PunctualInv, TruthInv, RespStep
  PROVE  TruthInv'
<1> USE Constants, CoreAssumption, OwnerAssumption
<1>1. TypeOK /\ Pairing /\ LockInv /\ MemInv
  BY DEF IInv
<1>2. WireInv /\ UnaskedInv /\ ChunkInv /\ EndInv
  BY DEF PunctualInv
<1>3. LinesInv /\ RoomInv /\ VerdictInv /\ ReportInv /\ TruthfulResult
  BY DEF TruthInv
<1>4. UNCHANGED <<cmd, apc, amsg, sem, out, qpc, qmsg, qtmo, urcs>>
  BY DEF RespStep, RespGet, RespStart, RespParse, RespPrompt, RespEnd, RespSignal,
         RespYield, callVars, reqVars, devVars
<1>5. ~RespPrompt
  <2>1. chunk.lines \in Seq(LineKinds)
    BY <1>1 DEF TypeOK, RespTypes, ChunkType
  <2>2. chunk.lines # <<>> => Head(chunk.lines) = chunk.lines[1] /\ 1 \in DOMAIN chunk.lines
    BY <2>1
  <2>3. QED
    BY <1>3, <2>2 DEF RespPrompt, LinesInv, VerdictsLast
<1>6. UNCHANGED <<plan, dev>>
  BY <1>5 DEF RespStep, RespGet, RespStart, RespParse, RespEnd, RespSignal, RespYield,
              devVars
<1>7. TruthfulResult'
  BY <1>3, <1>4, <1>6 DEF TruthfulResult, Clean, Truthful, Said
<1>8. /\ \A c : VerdictsLast(c) => VerdictsLast(c)'
      /\ \A i \in DOMAIN dev : Ending(dev[i])' <=> Ending(dev[i])
      /\ \A i \in DOMAIN respBox : Ending(respBox[i]) <=>
           /\ respBox[i].own \in Msgs
           /\ \E j \in DOMAIN respBox[i].lines :
                MayEnd(cmd'[respBox[i].own], respBox[i].lines[j])
      /\ \A m \in Msgs : \A r : Answered(m, r)' <=> Answered(m, r)
      /\ \A m \in Msgs : \A r : Truthful(m, r)' <=> Truthful(m, r)
      /\ \A m \in Msgs : (Marked(m)' <=> Marked(m)) /\ (Clean(m)' <=> Clean(m))
      /\ \A m, k : Said(m, k)' <=> Said(m, k)
  BY <1>4, <1>6 DEF VerdictsLast, Ending, Answered, Truthful, Marked, Clean, Said
<1>9. qpc # "get" => qmsg \in Msgs
  BY <1>1 DEF TypeOK, ReqTypes, Pairing
<1>10. CASE RespGet
  <2>1. /\ ppc = "get" /\ ppc' = "start" /\ UNCHANGED <<sync, pend, stray, res>>
        /\ respBox \in Seq(ChunkType) /\ respBox # <<>>
        /\ chunk' = Head(respBox) /\ respBox' = Tail(respBox)
    BY <1>1, <1>10 DEF RespGet, TypeOK, DevTypes
  <2>2. /\ chunk' = respBox[1] /\ 1 \in DOMAIN respBox
        /\ \A i \in DOMAIN respBox' : i + 1 \in DOMAIN respBox /\ respBox'[i] = respBox[i + 1]
        /\ \A i \in DOMAIN respBox :
             i = 1 \/ (i - 1 \in DOMAIN respBox' /\ respBox'[i - 1] = respBox[i])
    BY <2>1
  <2>3. chunk = NoChunk /\ ~pend /\ (Ended' <=> Ended)
    BY <1>2, <2>1 DEF ChunkInv, Ended
  <2>4. LinesInv'
    BY <1>3, <1>6, <1>8, <2>1, <2>2, <2>3 DEF LinesInv
  <2>5. RoomInv'
    <3>1. /\ Cardinality(AskedAt(respBox')) <= Cardinality(AskedAt(respBox))
          /\ Cardinality(UnaskedAt(respBox')) <= Cardinality(UnaskedAt(respBox))
      BY <2>1, CountGet
    <3>2. /\ Cardinality(AskedAt(respBox)) \in Nat /\ Cardinality(UnaskedAt(respBox)) \in Nat
          /\ Cardinality(AskedAt(respBox')) \in Nat /\ Cardinality(UnaskedAt(respBox')) \in Nat
      <4>1. respBox' \in Seq(ChunkType)
        BY <2>1
      <4>2. QED
        BY <2>1, <4>1, BoxCount
    <3>3. /\ qpc = "wait" =>
               /\ plan[qmsg] \in Answers[cmd[qmsg]]
               /\ Cardinality(AskedAt(respBox)) + Len(dev) <= Len(plan[qmsg])
               /\ Len(plan[qmsg]) \in Nat
          /\ Cardinality(UnaskedAt(respBox)) <= urcs /\ urcs \in Nat /\ Len(dev) \in Nat
      BY <1>1, <1>3, <1>9 DEF RoomInv, TypeOK, DevTypes
    <3>4. urcs = 0 => chunk'.own # Unasked /\ \A i \in DOMAIN respBox' : respBox'[i].own # Unasked
      BY <1>3, <2>2 DEF RoomInv
    <3>5. /\ qpc = "wait" => Cardinality(AskedAt(respBox')) + Len(dev) <= Len(plan[qmsg])
          /\ Cardinality(UnaskedAt(respBox')) <= urcs
      BY <3>1, <3>2, <3>3
    <3>6. QED
      BY <1>4, <1>6, <3>3, <3>4, <3>5 DEF RoomInv
  <2>6. VerdictInv'
    <3>1. ~Ending(chunk)
      BY <2>3 DEF Ending, NoChunk, Chunk
    <3>2. (\E i \in DOMAIN respBox : Ending(respBox[i]))
            => Ending(chunk)' \/ \E i \in DOMAIN respBox' : Ending(respBox[i])'
      BY <1>4, <2>2 DEF Ending
    <3>3. QED
      BY <1>3, <1>4, <1>6, <1>8, <1>9, <2>1, <2>3, <3>1, <3>2 DEF VerdictInv
  <2>7. ReportInv'
    <3>1. chunk'.own # Unasked \/ ~NoneAsked(respBox)' => ~NoneAsked(respBox)
      BY <2>2 DEF NoneAsked
    <3>2. QED
      BY <1>3, <1>4, <1>8, <1>9, <2>1, <2>3, <3>1 DEF ReportInv
  <2>8. QED
    BY <1>7, <2>4, <2>5, <2>6, <2>7 DEF TruthInv
<1>11. CASE RespStart \/ RespEnd \/ RespSignal \/ RespYield
  <2>1. /\ UNCHANGED <<respBox, stray, res>>
        /\ \/ UNCHANGED chunk
           \/ chunk' = NoChunk /\ (chunk.lines = <<>> \/ ppc = "signal")
    BY <1>11 DEF RespStart, RespEnd, RespSignal, RespYield, devVars
  <2>2. Ended' <=> Ended
    <3>1. CASE RespSignal
      <4>1. chunk.own # Unasked
        BY <1>2, <3>1 DEF RespSignal, UnaskedInv
      <4>2. chunk.own = qmsg /\ qpc = "wait"
        BY <1>2, <4>1 DEF WireInv
      <4>3. sync' # Empty
        BY <1>9, <3>1, <4>2 DEF RespSignal
      <4>4. QED
        BY <3>1, <4>3 DEF RespSignal, Ended
    <3>2. CASE RespStart \/ RespEnd \/ RespYield
      BY <1>2, <3>2 DEF RespStart, RespEnd, RespYield, ChunkInv, Ended
    <3>3. QED
      BY <1>11, <3>1, <3>2
  <2>3. chunk' = NoChunk \/ UNCHANGED chunk
    BY <2>1
  <2>4. pend' => chunk'.lines = <<>>
    BY <1>2, <1>3, <1>11
       DEF RespStart, RespEnd, RespSignal, RespYield, ChunkInv, LinesInv
  <2>5. LinesInv'
    BY <1>3, <1>6, <1>8, <2>1, <2>3, <2>4 DEF LinesInv, VerdictsLast, NoChunk, Chunk
  <2>6. RoomInv'
    BY <1>3, <1>4, <1>6, <2>1, <2>3 DEF RoomInv, NoChunk, Chunk
  <2>7. VerdictInv'
    <3>1. Ending(chunk) => Ending(chunk)' \/ Ended
      BY <1>4, <2>1 DEF Ending, Ended
    <3>2. \A i \in DOMAIN respBox : Ending(respBox[i])' <=> Ending(respBox[i])
      BY <1>4, <2>1 DEF Ending
    <3>3. QED
      BY <1>3, <1>4, <1>6, <1>8, <1>9, <2>1, <2>2, <3>1, <3>2 DEF VerdictInv
  <2>8. ReportInv'
    <3>1. chunk'.own # Unasked \/ ~NoneAsked(respBox)' => chunk.own # Unasked \/ ~NoneAsked(respBox)
      BY <2>1, <2>3 DEF NoneAsked, NoChunk, Chunk
    <3>2. QED
      BY <1>3, <1>4, <1>8, <1>9, <2>1, <2>2, <3>1 DEF ReportInv
  <2>9. QED
    BY <1>7, <2>5, <2>6, <2>7, <2>8 DEF TruthInv
<1>12. CASE RespParse
  <2> DEFINE k == Head(chunk.lines)
  <2>1. /\ ppc = "parse" /\ UNCHANGED <<ppc, sync, respBox>> /\ stray' = FALSE
        /\ chunk.lines \in Seq(LineKinds) /\ chunk.lines # <<>>
        /\ chunk'.own = chunk.own /\ chunk'.lines = Tail(chunk.lines)
    BY <1>1, <1>12 DEF RespParse, devVars, TypeOK, RespTypes, ChunkType
  <2>2. /\ k = chunk.lines[1] /\ 1 \in DOMAIN chunk.lines
        /\ \A j \in DOMAIN chunk'.lines :
             j + 1 \in DOMAIN chunk.lines /\ chunk'.lines[j] = chunk.lines[j + 1]
        /\ \A j \in DOMAIN chunk.lines :
             j = 1 \/ (j - 1 \in DOMAIN chunk'.lines /\ chunk'.lines[j - 1] = chunk.lines[j])
        /\ \A j \in DOMAIN chunk'.lines : j + 1 = Len(chunk.lines) => j = Len(chunk'.lines)
    BY <2>1
  <2>3. pend = FALSE /\ stray = FALSE
    BY <1>1, <1>3, <2>1 DEF LinesInv, TypeOK, RespTypes
  <2>4. VerdictsLast(chunk)'
    BY <1>3, <1>8, <2>1, <2>2 DEF LinesInv, VerdictsLast
  <2>5. RoomInv'
    <3>1. chunk.own = Unasked => urcs # 0
      BY <1>3, <2>1 DEF RoomInv
    <3>2. QED
      BY <1>3, <1>4, <1>6, <2>1, <3>1 DEF RoomInv
  <2>6. CASE gmsg = NoMsg
    <3>1. UNCHANGED <<res, pend>> /\ qpc \notin {"wait", "relock"}
      BY <1>1, <1>9, <1>12, <2>6 DEF RespParse, Pairing
    <3>2. LinesInv'
      BY <1>3, <1>6, <1>8, <2>1, <2>3, <2>4, <3>1 DEF LinesInv
    <3>3. VerdictInv' /\ ReportInv'
      BY <1>3, <1>4, <1>8, <1>9, <3>1 DEF VerdictInv, ReportInv
    <3>4. QED
      BY <1>7, <2>5, <3>2, <3>3 DEF TruthInv
  <2>7. CASE gmsg # NoMsg
    <3>1. gmsg = qmsg /\ qmsg \in Msgs /\ qpc \in {"wait", "relock"}
      BY <1>1, <1>9, <2>1, <2>7 DEF LockInv, Pairing, TypeOK, ReqTypes
    <3>2. PICK o \in ParseLine(cmd[qmsg], k, res[qmsg], FALSE) :
            res' = [res EXCEPT ![qmsg] = o.res] /\ pend' = o.end
      BY <1>12, <2>3, <2>7, <3>1 DEF RespParse, Seen
    <3>3. /\ res'[qmsg] = o.res
          /\ \A m \in Msgs : sem[m] => m # qmsg /\ res'[m] = res[m]
      BY <1>1, <3>1, <3>2 DEF TypeOK, CallTypes, MemInv, SignalledInv
    <3>4. cmd[qmsg] \in Sent /\ cmd[qmsg] \in {"GMR", "CWLAP"}
      BY <1>1, <1>2, <3>1 DEF WireInv, Sent, AnswersEndWithVerdict, TypeOK, CallTypes
    <3> HIDE DEF k
    <3>5. CASE EndsAnyCmd(k)
      <4>1. /\ chunk.own \in Msgs /\ Len(chunk.lines) = 1
            /\ k \in {"ok", "err"} /\ Said(chunk.own, k)
        BY <1>3, <2>2, <3>5 DEF LinesInv, VerdictsLast
      <4>2. chunk.own = qmsg /\ qpc = "wait"
        BY <1>2, <4>1 DEF WireInv
      <4>3. /\ pend'
            /\ k = "ok"  => res'[qmsg] \in {"ok", "okmore"}
            /\ k = "err" => res'[qmsg] \in {"err", "errspec", "errmem"}
        BY <3>2, <3>3, <3>4, <4>1, ParseVerdict
      <4>4. Answered(qmsg, res'[qmsg])
        BY <4>1, <4>2, <4>3 DEF Answered
      <4>5. Marked(qmsg)
        BY <1>3, <3>1, <4>1, <4>2 DEF ReportInv
      <4>6. LinesInv'
        <5>1. chunk'.lines = <<>>
          <6>1. Tail(chunk.lines) \in Seq(LineKinds) /\ Len(Tail(chunk.lines)) = 0
            BY <2>1, <4>1
          <6>2. \A s \in Seq(LineKinds) : Len(s) = 0 => s = <<>>
            OBVIOUS
          <6>3. QED
            BY <2>1, <6>1, <6>2
        <5>2. QED
          BY <1>3, <1>6, <1>8, <2>1, <2>4, <5>1 DEF LinesInv
      <4>7. VerdictInv'
        BY <1>4, <1>8, <3>1, <4>2, <4>3, <4>4 DEF VerdictInv, Ended
      <4>8. ReportInv'
        BY <1>3, <1>4, <1>8, <3>1, <3>3, <4>2, <4>5 DEF ReportInv
      <4>9. QED
        BY <1>7, <2>5, <4>6, <4>7, <4>8 DEF TruthInv
    <3>6. CASE ~EndsAnyCmd(k)
      <4>1. ~pend' /\ (Ended' <=> Ended)
        <5>1. ~EndsResponse(cmd[qmsg], k)
          BY <3>4, <3>6 DEF EndsResponse
        <5>2. cmd[qmsg] # "CIPSEND"
          BY <3>4
        <5>3. ~pend'
          BY <3>2, <5>1, <5>2, ParseLineEnds
        <5>4. QED
          BY <2>1, <2>3, <5>3 DEF Ended
      <4>2. Ending(chunk) => Ending(chunk)'
        <5>1. chunk.own \in Msgs => chunk.own = qmsg
          BY <1>2 DEF WireInv
        <5>2. ~MayEnd(cmd[qmsg], k)
          BY <3>4, <3>6, VerdictEnds
        <5>3. QED
          BY <1>4, <2>1, <2>2, <5>1, <5>2 DEF Ending
      <4>3. (qpc = "wait" /\ Ended) \/ qpc = "relock" => (Clean(qmsg) => res'[qmsg] = res[qmsg])
        <5> SUFFICES ASSUME (qpc = "wait" /\ Ended) \/ qpc = "relock", Clean(qmsg)
                     PROVE  res'[qmsg] = res[qmsg]
          OBVIOUS
        <5>1. chunk.own = Unasked
          BY <1>2, <2>1, <2>3 DEF WireInv, EndInv, Ended
        <5>2. urcs # 0
          BY <1>3, <2>1, <5>1 DEF RoomInv
        <5>3. cmd[qmsg] = "GMR"
          BY <3>4, <5>2 DEF Clean
        <5>4. QED
          BY <3>2, <3>3, <3>6, <5>3, ParseQuiet
      <4>4. LinesInv'
        BY <1>3, <1>6, <1>8, <2>1, <2>4, <4>1 DEF LinesInv
      <4>5. \A i \in DOMAIN respBox : Ending(respBox[i])' <=> Ending(respBox[i])
        BY <1>4, <2>1 DEF Ending
      <4>6. VerdictInv'
        BY <1>3, <1>4, <1>6, <1>8, <2>1, <3>1, <4>1, <4>2, <4>3, <4>5 DEF VerdictInv
      <4>7. chunk'.own # Unasked \/ ~NoneAsked(respBox)' <=> chunk.own # Unasked \/ ~NoneAsked(respBox)
        BY <2>1 DEF NoneAsked
      <4>8. ReportInv'
        BY <1>3, <1>4, <1>8, <3>1, <3>3, <4>1, <4>7 DEF ReportInv
      <4>9. QED
        BY <1>7, <2>5, <4>4, <4>6, <4>8 DEF TruthInv
    <3>7. QED
      BY <3>5, <3>6
  <2>8. QED
    BY <2>6, <2>7
<1>13. QED
  BY <1>5, <1>10, <1>11, <1>12 DEF RespStep

\* What the interrupt puts in the mailbox is not lost, and a line nobody asked for
\* is no verdict.
LEMMA DevTruth ==
  ASSUME MarkFirst, AnswersEndWithVerdict, IInv, PunctualInv, TruthInv,
         DevAnswer \/ DevUnasked
  PROVE  TruthInv'
<1> USE Constants, CoreAssumption, OwnerAssumption
<1>1. TypeOK /\ Pairing
  BY DEF IInv
<1>2. WireInv /\ EndInv
  BY DEF PunctualInv
<1>3. LinesInv /\ RoomInv /\ VerdictInv /\ ReportInv /\ TruthfulResult
  BY DEF TruthInv
<1>4. /\ UNCHANGED <<cmd, apc, amsg, res, sem, out, qpc, qmsg, qtmo, plan>>
      /\ UNCHANGED <<sync, ppc, chunk, pend, stray>>
  BY DevFrame DEF callVars, reqVars, respVars
<1>5. respBox \in Seq(ChunkType) /\ dev \in Seq(ChunkType) /\ urcs \in Nat
  BY <1>1 DEF TypeOK, DevTypes
<1>6. /\ \A c : (VerdictsLast(c)' <=> VerdictsLast(c)) /\ (Ending(c) <=> Ending(c)')
      /\ \A m \in Msgs : \A r : Answered(m, r)' <=> Answered(m, r)
      /\ \A m \in Msgs : \A r : Truthful(m, r)' <=> Truthful(m, r)
      /\ \A m \in Msgs : Marked(m)' <=> Marked(m)
      /\ \A m, k : Said(m, k)' <=> Said(m, k)
      /\ Ended' <=> Ended
  BY <1>4 DEF VerdictsLast, Ending, Answered, Truthful, Marked, Said, Ended
<1>7. qpc # "get" => qmsg \in Msgs
  BY <1>1 DEF TypeOK, ReqTypes, Pairing
<1>8. /\ Cardinality(AskedAt(respBox)) \in Nat /\ Cardinality(UnaskedAt(respBox)) \in Nat
      /\ Cardinality(AskedAt(respBox)) + Cardinality(UnaskedAt(respBox)) = Len(respBox)
  BY <1>5, BoxCount
<1>9. \A m \in Msgs : Clean(m)' => Clean(m)
  BY <1>4, <1>5 DEF DevAnswer, DevUnasked, Clean
<1>10. CASE DevAnswer
  <2>1. /\ dev # <<>> /\ dev' = Tail(dev) /\ UNCHANGED urcs
        /\ respBox' = IsrPut(respBox, Head(dev)) /\ Marked(Head(dev).own)
    BY <1>10 DEF DevAnswer
  <2>2. /\ Head(dev) = dev[1] /\ 1 \in DOMAIN dev /\ dev[1] \in ChunkType
        /\ Len(dev) \in Nat /\ Len(dev') = Len(dev) - 1 /\ dev' \in Seq(ChunkType)
        /\ \A i \in DOMAIN dev' : i + 1 \in DOMAIN dev /\ dev'[i] = dev[i + 1]
        /\ \A i \in DOMAIN dev : i = 1 \/ (i - 1 \in DOMAIN dev' /\ dev'[i - 1] = dev[i])
    BY <1>5, <2>1
  <2>3. qpc = "wait" /\ dev[1].own = qmsg /\ qmsg \in Msgs
    BY <1>2, <1>7, <2>1, <2>2 DEF WireInv
  <2>4. /\ Len(plan[qmsg]) \in Nat
        /\ Cardinality(AskedAt(respBox)) + Len(dev) <= Len(plan[qmsg])
        /\ plan[qmsg] \in Answers[cmd[qmsg]] /\ Cardinality(UnaskedAt(respBox)) <= urcs
    BY <1>1, <1>3, <2>3 DEF RoomInv, TypeOK, DevTypes
  <2>5. respBox' = Append(respBox, dev[1])
    <3>1. cmd[qmsg] \in Sent
      BY <1>1, <1>2, <2>3 DEF WireInv, Sent, TypeOK, CallTypes
    <3>2. MaxUrc + Len(plan[qmsg]) <= RespCap
      BY <2>4, <3>1 DEF AnswersEndWithVerdict
    <3>3. urcs <= MaxUrc
      BY <1>1 DEF TypeOK, DevTypes
    <3>4. Len(respBox) < RespCap
      <4>1. Len(dev) >= 1
        BY <1>5, <2>1
      <4>2. QED
        BY <1>5, <1>8, <2>2, <2>4, <3>2, <3>3, <4>1
    <3>5. QED
      BY <2>1, <2>2, <3>4 DEF IsrPut
  <2>6. /\ \A i \in DOMAIN respBox' :
             (i \in DOMAIN respBox /\ respBox'[i] = respBox[i]) \/ respBox'[i] = dev[1]
        /\ \A i \in DOMAIN respBox : i \in DOMAIN respBox' /\ respBox'[i] = respBox[i]
        /\ Len(respBox) + 1 \in DOMAIN respBox' /\ respBox'[Len(respBox) + 1] = dev[1]
    BY <1>5, <2>2, <2>5
  <2>7. LinesInv'
    BY <1>3, <1>4, <1>6, <2>2, <2>6 DEF LinesInv
  <2>8. RoomInv'
    <3>1. /\ Cardinality(AskedAt(respBox')) = Cardinality(AskedAt(respBox)) + 1
          /\ UnaskedAt(respBox') = UnaskedAt(respBox)
      BY <1>5, <2>2, <2>3, <2>5, CountPut
    <3>2. Cardinality(AskedAt(respBox')) + Len(dev') <= Len(plan[qmsg])
      BY <1>8, <2>2, <2>4, <3>1
    <3>3. urcs = 0 => \A i \in DOMAIN respBox' : respBox'[i].own # Unasked
      BY <1>3, <2>3, <2>6 DEF RoomInv
    <3>4. QED
      BY <1>3, <1>4, <2>1, <2>4, <3>1, <3>2, <3>3 DEF RoomInv
  <2>9. VerdictInv'
    <3>1. (\E i \in DOMAIN respBox : Ending(respBox[i]))
            => \E i \in DOMAIN respBox' : Ending(respBox[i])'
      BY <1>4, <2>6 DEF Ending
    <3>2. (\E i \in DOMAIN dev : Ending(dev[i]))
            => \/ \E i \in DOMAIN respBox' : Ending(respBox[i])'
               \/ \E i \in DOMAIN dev' : Ending(dev[i])'
      BY <1>4, <2>2, <2>6 DEF Ending
    <3>3. Ending(chunk)' <=> Ending(chunk)
      BY <1>4 DEF Ending
    <3>4. QED
      BY <1>3, <1>4, <1>6, <1>9, <2>3, <3>1, <3>2, <3>3 DEF VerdictInv
  <2>10. ReportInv' /\ TruthfulResult'
    BY <1>3, <1>4, <1>6, <1>9, <2>1, <2>2, <2>3 DEF ReportInv, TruthfulResult
  <2>11. QED
    BY <2>7, <2>8, <2>9, <2>10 DEF TruthInv
<1>11. CASE DevUnasked
  <2>1. PICK k \in UrcLines : respBox' = IsrPut(respBox, Chunk(Unasked, <<k>>))
    BY <1>11 DEF DevUnasked
  <2>2. dev' = dev /\ urcs' = urcs + 1
    BY <1>11 DEF DevUnasked
  <2> DEFINE c == Chunk(Unasked, <<k>>)
  <2>3. c \in ChunkType /\ c.own = Unasked /\ c.lines = <<k>>
    BY DEF Chunk, ChunkType
  <2>4. VerdictsLast(c) /\ ~Ending(c)
    BY <2>1, <2>3 DEF VerdictsLast, Ending, AnswersEndWithVerdict
  <2> HIDE DEF c
  <2>5. respBox' = respBox \/ respBox' = Append(respBox, c)
    BY <2>1 DEF IsrPut, c
  <2>6. /\ \A i \in DOMAIN respBox' :
             (i \in DOMAIN respBox /\ respBox'[i] = respBox[i]) \/ respBox'[i] = c
        /\ \A i \in DOMAIN respBox : i \in DOMAIN respBox' /\ respBox'[i] = respBox[i]
    <3>1. CASE respBox' = respBox
      BY <3>1
    <3>2. CASE respBox' = Append(respBox, c)
      BY <1>5, <2>3, <3>2
    <3>3. QED
      BY <2>5, <3>1, <3>2
  <2>7. LinesInv'
    BY <1>3, <1>4, <1>6, <2>2, <2>4, <2>6 DEF LinesInv
  <2>8. RoomInv'
    <3>1. /\ AskedAt(respBox') = AskedAt(respBox)
          /\ Cardinality(UnaskedAt(respBox'))
               \in {Cardinality(UnaskedAt(respBox)), Cardinality(UnaskedAt(respBox)) + 1}
      BY <1>5, <2>3, <2>5, CountPut
    <3>2. Cardinality(UnaskedAt(respBox)) <= urcs
      BY <1>3 DEF RoomInv
    <3>3. Cardinality(UnaskedAt(respBox')) <= urcs' /\ urcs' # 0
      BY <1>5, <1>8, <2>2, <3>1, <3>2
    <3>4. QED
      BY <1>3, <1>4, <2>2, <3>1, <3>3 DEF RoomInv
  <2>9. VerdictInv'
    <3>1. (\E i \in DOMAIN respBox : Ending(respBox[i]))
            => \E i \in DOMAIN respBox' : Ending(respBox[i])'
      BY <1>4, <2>6 DEF Ending
    <3>2. /\ Ending(chunk)' <=> Ending(chunk)
          /\ \A i \in DOMAIN dev : Ending(dev[i])' <=> Ending(dev[i])
      BY <1>4, <2>2 DEF Ending
    <3>3. QED
      BY <1>3, <1>4, <1>6, <1>7, <1>9, <2>2, <3>1, <3>2 DEF VerdictInv
  <2>10. ReportInv' /\ TruthfulResult'
    <3>1. ~NoneAsked(respBox)' => ~NoneAsked(respBox)
      BY <2>3, <2>6 DEF NoneAsked
    <3>2. QED
      BY <1>3, <1>4, <1>6, <1>7, <1>9, <3>1 DEF ReportInv, TruthfulResult
  <2>11. QED
    BY <2>7, <2>8, <2>9, <2>10 DEF TruthInv
<1>12. QED
  BY <1>10, <1>11

-----------------------------------------------------------------------------
(* The theorem about it.                                                   *)

LEMMA TruthStep ==
  ASSUME Punctual, MarkFirst, AnswersEndWithVerdict, IInv, OutInv, PunctualInv,
         TruthInv, [Next]_vars
  PROVE  TruthInv'
<1>1. CASE UNCHANGED vars
  BY <1>1
     DEF vars, callVars, reqVars, respVars, devVars, TruthInv, LinesInv, RoomInv,
         VerdictInv, ReportInv, TruthfulResult, VerdictsLast, Ending, Ended, Answered,
         Truthful, Said, Clean, Marked, NoneAsked
<1>2. QED
  BY <1>1, StepCases, ApiTruth, ReqTruth, RespTruth, DevTruth

\* What a request reports is what the device said, when no answer is late, the
\* caller is quick to store espINPROG, and OK and ERROR only come at the end of an
\* answer (esp_thread.c:20-50, esp_parser.c:1088-1159).
THEOREM TruthfulResultCorrect ==
  ASSUME Punctual, MarkFirst, AnswersEndWithVerdict
  PROVE  Spec => []TruthfulResult
<1>1. AnswersEndOnce
  BY VerdictEnds
<1>2. Spec => []PunctualInv
  BY <1>1, PunctualCorrect
<1>3. Init => TruthInv
  BY TruthInit
<1>4. IInv /\ OutInv /\ PunctualInv /\ TruthInv /\ [Next]_vars => TruthInv'
  BY TruthStep
<1>5. TruthInv => TruthfulResult
  BY DEF TruthInv
<1>6. QED
  BY <1>2, <1>3, <1>4, <1>5, InvCorrect, ReportsCorrect, PTL DEF Spec
=============================================================================
