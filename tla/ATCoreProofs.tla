---------------------------- MODULE ATCoreProofs ----------------------------
(***************************************************************************)
(* Proofs about the AT-command core, for any number of tasks, messages and *)
(* mailbox slots, any device and any timing: types, the inductive          *)
(* invariant, and the safety properties that follow from it: which thread  *)
(* may use a message, and for how long.  Then the refinement mapping of    *)
(* ATCoreRefines, step by step: the core implements the request queue of   *)
(* CmdQueue.                                                               *)
(***************************************************************************)
EXTENDS ATCoreRefines, SequenceTheorems, TLAPS

-----------------------------------------------------------------------------
(* Types of the data the actions build.                                    *)

\* The branch of the switch yields a result and a flag.
LEMMA CmdBranchType ==
  ASSUME NEW c, NEW k, NEW r \in ResKinds, NEW e \in BOOLEAN,
         NEW o \in CmdBranch(c, k, r, e)
  PROVE  o.res \in ResKinds /\ o.end \in BOOLEAN
<1>1. FoundAP \subseteq ResKinds
  BY DEF FoundAP, ResKinds
<1>2. StaJoinResult(k) \in ResKinds /\ StaQuitResult(k) \in ResKinds
  BY DEF StaJoinResult, StaQuitResult, ResKinds
<1>3. ConnSend(k).res \in ResKinds /\ ConnSend(k).end \in BOOLEAN
  BY DEF ConnSend, ResKinds
<1>4. "skip" \in ResKinds
  BY DEF ResKinds
<1>5. CASE c = "CWLAP" /\ ~e
  <2>1. o \in {[res |-> x, end |-> e] : x \in FoundAP}
    BY <1>5 DEF CmdBranch
  <2>2. QED
    BY <1>1, <2>1
<1>6. CASE c = "CWJAP"
  <2>1. o = [res |-> StaJoinResult(k), end |-> TRUE]
    BY <1>6 DEF CmdBranch
  <2>2. QED
    BY <1>2, <2>1
<1>7. CASE c = "CWQAP"
  <2>1. o = [res |-> StaQuitResult(k), end |-> e \/ k = "gone"]
    BY <1>7 DEF CmdBranch
  <2>2. QED
    BY <1>2, <2>1
<1>8. CASE c = "CIPSEND" /\ ~e
  <2>1. o = ConnSend(k)
    BY <1>8 DEF CmdBranch
  <2>2. QED
    BY <1>3, <2>1
<1>9. CASE c \in {"CWMODE", "RESET"}
  <2>1. o = [res |-> "skip", end |-> TRUE]
    BY <1>9 DEF CmdBranch
  <2>2. QED
    BY <1>4, <2>1
<1>10. CASE ~(c = "CWLAP" /\ ~e) /\ c # "CWJAP" /\ c # "CWQAP"
            /\ ~(c = "CIPSEND" /\ ~e) /\ c \notin {"CWMODE", "RESET"}
  <2>1. o = [res |-> r, end |-> e]
    BY <1>10 DEF CmdBranch
  <2>2. QED
    BY <2>1
<1>11. QED
  BY <1>5, <1>6, <1>7, <1>8, <1>9, <1>10

\* So does the whole line parser.
LEMMA ParseLineType ==
  ASSUME NEW c, NEW k, NEW r \in ResKinds, NEW e \in BOOLEAN,
         NEW o \in ParseLine(c, k, r, e)
  PROVE  o.res \in ResKinds /\ o.end \in BOOLEAN
<1> DEFINE v == Verdict(k, r)
           f == e \/ EndsAnyCmd(k)
<1>1. v \in ResKinds
  BY DEF Verdict, ResKinds
<1>2. f \in BOOLEAN
  OBVIOUS
<1>3. CASE k = "blank"
  <2>1. o = [res |-> r, end |-> e]
    BY <1>3 DEF ParseLine
  <2>2. QED
    BY <2>1
<1>4. CASE k # "blank" /\ v = "okmore"
  <2>1. o = [res |-> v, end |-> f]
    BY <1>4 DEF ParseLine
  <2>2. QED
    BY <1>1, <1>2, <2>1
<1>5. CASE k # "blank" /\ v # "okmore"
  <2>1. o \in CmdBranch(c, k, v, f)
    BY <1>5 DEF ParseLine
  <2> HIDE DEF v, f
  <2>2. QED
    BY <1>1, <1>2, <2>1, CmdBranchType
<1>6. QED
  BY <1>3, <1>4, <1>5

\* The chunks of an answer, queued at the device.
LEMMA AnswerType ==
  ASSUME NEW a \in Seq(Seq(LineKinds)), NEW m \in Owners, NEW d \in Seq(ChunkType)
  PROVE  d \o [i \in 1..Len(a) |-> Chunk(m, a[i])] \in Seq(ChunkType)
<1>1. \A i \in 1..Len(a) : Chunk(m, a[i]) \in ChunkType
  BY DEF Chunk, ChunkType
<1>2. [i \in 1..Len(a) |-> Chunk(m, a[i])] \in Seq(ChunkType)
  BY <1>1
<1>3. QED
  BY <1>2

\* The interrupt's mailbox put never exceeds the mailbox.
LEMMA IsrPutType ==
  ASSUME NEW b \in Seq(ChunkType), Len(b) <= RespCap, NEW c \in ChunkType
  PROVE  IsrPut(b, c) \in Seq(ChunkType) /\ Len(IsrPut(b, c)) <= RespCap
<1>1. RespCap \in Nat
  BY CoreAssumption
<1>2. Append(b, c) \in Seq(ChunkType) /\ Len(Append(b, c)) = Len(b) + 1
  OBVIOUS
<1>3. QED
  BY <1>1, <1>2 DEF IsrPut

-----------------------------------------------------------------------------
(* Type correctness.                                                       *)

\* Names are distinct and the mailboxes have at least one slot.
LEMMA Constants ==
  /\ Req \in ThreadIds /\ Resp \in ThreadIds /\ Tasks \subseteq ThreadIds
  /\ Cmds \subseteq CmdKinds /\ GarbageRes \subseteq ResKinds
  /\ ReqCap \in Nat /\ RespCap \in Nat /\ MaxUrc \in Nat
  /\ UrcLines \subseteq LineKinds
  /\ Unasked \in Owners /\ Msgs \subseteq Owners
  /\ NoChunk \in ChunkType
  /\ \A c \in ChunkType : c.own \in Owners /\ c.lines \in Seq(LineKinds)
BY CoreAssumption DEF ThreadIds, Owners, NoChunk, Chunk, ChunkType

\* The initial state is well typed.
LEMMA InitType == Init => TypeOK /\ Pairing
<1> SUFFICES ASSUME Init
             PROVE  TypeOK /\ Pairing
  OBVIOUS
<1>1. CallTypes
  BY Constants, CoreAssumption DEF Init, CallTypes, ResKinds
<1>2. ReqTypes /\ RespTypes
  BY Constants DEF Init, ReqTypes, RespTypes
<1>3. DevTypes
  BY Constants DEF Init, DevTypes
<1>4. Pairing
  BY Constants DEF Init, Pairing
<1>5. QED
  BY <1>1, <1>2, <1>3, <1>4 DEF TypeOK

\* A step of an API call, or its start, touches the calls' variables only.
LEMMA ApiFrame ==
  ASSUME NEW t,
         \/ ApiStep(t)
         \/ \E m \in Msgs, k \in Cmds, b \in BOOLEAN : ApiCall(t, m, k, b)
  PROVE  /\ UNCHANGED <<owner, sync, gmsg, qpc, qmsg, qtmo, ppc, chunk, pend, stray>>
         /\ UNCHANGED <<dev, urcs, plan, respBox>>
BY DEF ApiStep, ApiCall, ApiCheck, ApiPut, ApiPutFails, ApiMark, ApiWake,
       reqVars, respVars, devVars

\* A thread that is in a call has a message.
LEMMA InCall ==
  ASSUME TypeOK, Pairing, NEW t \in ThreadIds, apc[t] # "idle"
  PROVE  amsg[t] \in Msgs
BY DEF TypeOK, CallTypes, Pairing

\* A return from a call keeps the types, given those it does not touch.
LEMMA LeaveType ==
  ASSUME TypeOK, Pairing, NEW t \in ThreadIds, amsg[t] \in Msgs,
         NEW f \in BOOLEAN, NEW r \in ResKinds \cup {"none"}, Leave(t, f, r),
         UNCHANGED <<owner, cmd, blocking, reqBox, gmsg, qpc, qmsg>>,
         res' \in [Msgs -> ResKinds], sem' \in [Msgs -> BOOLEAN]
  PROVE  CallTypes' /\ Pairing'
<1>1. mem' \in [Msgs -> {"unused", "live", "freed"}]
  BY DEF Leave, TypeOK, CallTypes
<1>2. out' \in [Msgs -> ResKinds \cup {"none"}]
  BY DEF Leave, TypeOK, CallTypes
<1>3. /\ apc' \in [ThreadIds -> {"idle", "check", "put", "mark", "wait", "wild"}]
      /\ amsg' \in [ThreadIds -> Msgs \cup {NoMsg}]
      /\ \A u \in ThreadIds : apc'[u] = "idle" <=> amsg'[u] = NoMsg
  BY DEF Leave, TypeOK, CallTypes, Pairing
<1>4. QED
  BY <1>1, <1>2, <1>3 DEF TypeOK, CallTypes, Pairing

\* The calls' variables keep their types.
LEMMA ApiType ==
  ASSUME TypeOK, Pairing, NEW t \in ThreadIds,
         \/ ApiStep(t)
         \/ \E m \in Msgs, k \in Cmds, b \in BOOLEAN : ApiCall(t, m, k, b)
  PROVE  TypeOK' /\ Pairing'
<1> USE Constants
<1>1. ReqTypes' /\ RespTypes' /\ DevTypes'
  BY ApiFrame DEF TypeOK, ReqTypes, RespTypes, DevTypes
<1> SUFFICES CallTypes' /\ Pairing'
  BY <1>1 DEF TypeOK
<1>2. ASSUME NEW m \in Msgs, NEW k \in Cmds, NEW b \in BOOLEAN, ApiCall(t, m, k, b)
      PROVE  CallTypes' /\ Pairing'
  BY <1>2, CoreAssumption
     DEF ApiCall, TypeOK, CallTypes, Pairing, reqVars
<1>3. CASE ApiCheck(t)
  <2>1. amsg[t] \in Msgs
    BY <1>3, InCall DEF ApiCheck
  <2>2. CASE Refused(t)
    <3>1. Leave(t, TRUE, "errblocking")
      BY <1>3, <2>2 DEF ApiCheck
    <3>2. UNCHANGED <<owner, cmd, blocking, res, sem, reqBox, reqVars>>
      BY <1>3 DEF ApiCheck
    <3>3. QED
      BY <2>1, <3>1, <3>2, LeaveType DEF TypeOK, CallTypes, ResKinds, reqVars
  <2>3. CASE ~Refused(t)
    BY <1>3, <2>1, <2>3 DEF ApiCheck, TypeOK, CallTypes, Pairing, reqVars
  <2>4. QED
    BY <2>2, <2>3
<1>4. CASE ApiPut(t)
  <2>1. amsg[t] \in Msgs
    BY <1>4, InCall DEF ApiPut
  <2>2. reqBox' \in Seq(Msgs) /\ Len(reqBox') <= ReqCap
    BY <1>4, <2>1 DEF ApiPut, PutIn, TypeOK, CallTypes
  <2>3. CallTypes'
    BY <1>4, <2>2 DEF ApiPut, TypeOK, CallTypes
  <2>4. Pairing'
    BY <1>4 DEF ApiPut, TypeOK, CallTypes, Pairing, reqVars
  <2>5. QED
    BY <2>3, <2>4
<1>5. CASE ApiPutFails(t)
  <2>1. amsg[t] \in Msgs
    BY <1>5, InCall DEF ApiPutFails
  <2>2. /\ Leave(t, TRUE, "mboxfull")
        /\ UNCHANGED <<owner, cmd, blocking, res, sem, reqBox, reqVars>>
    BY <1>5 DEF ApiPutFails
  <2>3. QED
    BY <2>1, <2>2, LeaveType DEF TypeOK, CallTypes, ResKinds, reqVars
<1>6. CASE ApiMark(t)
  <2>1. amsg[t] \in Msgs
    BY <1>6, InCall DEF ApiMark
  <2>2. CASE Leave(t, FALSE, "none")
    BY <1>6, <2>1, <2>2, LeaveType DEF ApiMark, TypeOK, CallTypes, ResKinds, reqVars
  <2>3. CASE /\ apc' \in {[apc EXCEPT ![t] = "wait"], [apc EXCEPT ![t] = "wild"]}
             /\ UNCHANGED <<mem, out, amsg>>
    BY <1>6, <2>1, <2>3 DEF ApiMark, TypeOK, CallTypes, Pairing, ResKinds, reqVars
  <2>4. QED
    BY <1>6, <2>2, <2>3 DEF ApiMark, NonblockingReturn
<1>7. CASE ApiWake(t)
  <2>1. amsg[t] \in Msgs
    BY <1>7, InCall DEF ApiWake
  <2>2. Leave(t, TRUE, res[amsg[t]])
    BY <1>7 DEF ApiWake
  <2>3. QED
    BY <1>7, <2>1, <2>2, LeaveType DEF ApiWake, TypeOK, CallTypes, reqVars
<1>8. QED
  BY <1>2, <1>3, <1>4, <1>5, <1>6, <1>7 DEF ApiStep

\* So does a step of the request thread.
LEMMA ReqType ==
  ASSUME TypeOK, Pairing, ReqStep
  PROVE  TypeOK' /\ Pairing'
<1> USE Constants
<1>1. CASE ReqGet
  <2>1. qmsg' \in Msgs /\ reqBox' \in Seq(Msgs) /\ Len(reqBox') <= ReqCap
    BY <1>1 DEF ReqGet, TypeOK, CallTypes
  <2>2. CallTypes' /\ ReqTypes' /\ Pairing'
    BY <1>1, <2>1, CoreAssumption DEF ReqGet, TypeOK, CallTypes, ReqTypes, Pairing
  <2>3. RespTypes' /\ DevTypes'
    BY <1>1 DEF ReqGet, TypeOK, RespTypes, DevTypes, respVars, devVars
  <2>4. QED
    BY <2>2, <2>3 DEF TypeOK
<1>2. CASE ReqStart
  <2>1. qmsg \in Msgs
    BY <1>2 DEF ReqStart, TypeOK, ReqTypes, Pairing
  <2>2. CallTypes' /\ ReqTypes' /\ RespTypes' /\ Pairing'
    BY <1>2, <2>1
       DEF ReqStart, TypeOK, CallTypes, ReqTypes, RespTypes, Pairing, callVars, respVars
  <2>3. CASE UNCHANGED <<dev, plan>>
    BY <1>2, <2>2, <2>3 DEF ReqStart, TypeOK, DevTypes
  <2>4. ASSUME cmd[qmsg] # "RESET", NEW a \in Answers[cmd[qmsg]],
               dev' = dev \o [i \in 1..Len(a) |-> Chunk(qmsg, a[i])],
               plan' = [plan EXCEPT ![qmsg] = a]
        PROVE  DevTypes'
    <3>1. a \in Seq(Seq(LineKinds))
      BY <2>1, <2>4, CoreAssumption DEF TypeOK, CallTypes
    <3>2. dev' \in Seq(ChunkType)
      BY <2>1, <2>4, <3>1, AnswerType DEF TypeOK, DevTypes
    <3>3. QED
      BY <1>2, <2>4, <3>1, <3>2 DEF ReqStart, TypeOK, DevTypes
  <2>5. QED
    BY <1>2, <2>2, <2>3, <2>4 DEF ReqStart, TypeOK
<1>3. CASE ReqResetDone
  BY <1>3
     DEF ReqResetDone, TypeOK, CallTypes, ReqTypes, RespTypes, DevTypes, Pairing, ResKinds,
         callVars, respVars
<1>4. CASE ReqWake
  BY <1>4
     DEF ReqWake, TypeOK, CallTypes, ReqTypes, RespTypes, DevTypes, Pairing,
         callVars, respVars, devVars
<1>5. CASE ReqTimeout
  BY <1>5
     DEF ReqTimeout, TypeOK, CallTypes, ReqTypes, RespTypes, DevTypes, Pairing,
         callVars, respVars, devVars
<1>6. CASE ReqRelock
  BY <1>6
     DEF ReqRelock, TypeOK, CallTypes, ReqTypes, RespTypes, DevTypes, Pairing, ResKinds,
         callVars, respVars, devVars
<1>7. CASE ReqFinish
  <2>1. qmsg \in Msgs /\ qpc' \in {"apicb", "clear"}
    BY <1>7 DEF ReqFinish, TypeOK, ReqTypes, Pairing
  <2>2. sem' \in [Msgs -> BOOLEAN]
    BY <1>7 DEF ReqFinish, TypeOK, CallTypes
  <2>3. out' \in [Msgs -> ResKinds \cup {"none"}]
    BY <1>7, <2>1 DEF ReqFinish, TypeOK, CallTypes
  <2>4. QED
    BY <1>7, <2>1, <2>2, <2>3
       DEF ReqFinish, TypeOK, CallTypes, ReqTypes, RespTypes, DevTypes, Pairing,
           callVars, respVars, devVars
<1>8. CASE ReqDelete
  BY <1>8
     DEF ReqDelete, TypeOK, CallTypes, ReqTypes, RespTypes, DevTypes, Pairing,
         respVars, devVars
<1>9. CASE ReqClear
  BY <1>9
     DEF ReqClear, TypeOK, CallTypes, ReqTypes, RespTypes, DevTypes, Pairing,
         callVars, respVars, devVars
<1>10. QED
  BY <1>1, <1>2, <1>3, <1>4, <1>5, <1>6, <1>7, <1>8, <1>9 DEF ReqStep

\* So does a step of the response thread.
LEMMA RespType ==
  ASSUME TypeOK, Pairing, RespStep
  PROVE  TypeOK' /\ Pairing'
<1> USE Constants
<1>1. CASE RespGet
  <2>1. chunk' \in ChunkType /\ respBox' \in Seq(ChunkType) /\ Len(respBox') <= RespCap
    BY <1>1 DEF RespGet, TypeOK, DevTypes
  <2>2. QED
    BY <1>1, <2>1
       DEF RespGet, TypeOK, CallTypes, ReqTypes, RespTypes, DevTypes, Pairing,
           callVars, reqVars
<1>2. CASE RespStart
  BY <1>2
     DEF RespStart, TypeOK, CallTypes, ReqTypes, RespTypes, DevTypes, Pairing,
         callVars, reqVars, devVars
<1>3. CASE RespParse
  <2>1. chunk' \in ChunkType
    <3>1. chunk \in ChunkType /\ chunk.lines \in Seq(LineKinds) /\ chunk.lines # <<>>
      BY <1>3 DEF RespParse, TypeOK, RespTypes
    <3>2. Tail(chunk.lines) \in Seq(LineKinds)
      BY <3>1
    <3>3. chunk' = [chunk EXCEPT !.lines = Tail(chunk.lines)]
      BY <1>3 DEF RespParse
    <3>4. QED
      BY <3>1, <3>2, <3>3 DEF ChunkType
  <2>2. res' \in [Msgs -> ResKinds] /\ pend' \in BOOLEAN
    <3>1. CASE gmsg = NoMsg
      BY <1>3, <3>1 DEF RespParse, TypeOK, CallTypes, RespTypes
    <3>2. ASSUME gmsg # NoMsg,
                 NEW o \in ParseLine(cmd[gmsg], Seen(Head(chunk.lines)), res[gmsg], pend),
                 res' = [res EXCEPT ![gmsg] = o.res], pend' = o.end
          PROVE  res' \in [Msgs -> ResKinds] /\ pend' \in BOOLEAN
      <4>1. res[gmsg] \in ResKinds /\ pend \in BOOLEAN
        BY <3>2 DEF TypeOK, CallTypes, ReqTypes, RespTypes
      <4>2. o.res \in ResKinds /\ o.end \in BOOLEAN
        BY <3>2, <4>1, ParseLineType
      <4>3. QED
        BY <3>2, <4>2 DEF TypeOK, CallTypes
    <3>3. QED
      BY <1>3, <3>1, <3>2 DEF RespParse
  <2>3. /\ UNCHANGED <<owner, sem, sync, out, callVars, reqVars, ppc, devVars>>
        /\ stray' = FALSE
    BY <1>3 DEF RespParse
  <2>4. QED
    BY <2>1, <2>2, <2>3
       DEF TypeOK, CallTypes, ReqTypes, RespTypes, DevTypes, Pairing,
           callVars, reqVars, devVars
<1>4. CASE RespPrompt
  <2>1. chunk' \in ChunkType /\ stray' \in BOOLEAN
    <3>1. chunk \in ChunkType /\ chunk.lines \in Seq(LineKinds) /\ chunk.lines # <<>>
      BY <1>4 DEF RespPrompt, TypeOK, RespTypes
    <3>2. Tail(chunk.lines) \in Seq(LineKinds) /\ <<>> \in Seq(LineKinds)
      BY <3>1
    <3>3. \/ chunk' = [chunk EXCEPT !.lines = <<>>] /\ stray' = FALSE
          \/ chunk' = [chunk EXCEPT !.lines = Tail(chunk.lines)] /\ stray' = TRUE
      BY <1>4 DEF RespPrompt
    <3>4. QED
      BY <3>1, <3>2, <3>3 DEF ChunkType
  <2>2. dev' \in Seq(ChunkType) /\ plan' \in [Msgs -> Seq(Seq(LineKinds))]
    <3>1. CASE SendsData
      <4>1. PICK a \in DataAnswers :
              /\ dev' = dev \o [i \in 1..Len(a) |-> Chunk(gmsg, a[i])]
              /\ plan' = [plan EXCEPT ![gmsg] = @ \o a]
        BY <1>4, <3>1 DEF RespPrompt
      <4>2. a \in Seq(Seq(LineKinds))
        BY CoreAssumption
      <4>3. gmsg \in Msgs
        BY <3>1 DEF SendsData, TypeOK, ReqTypes
      <4>4. dev' \in Seq(ChunkType)
        BY <4>1, <4>2, <4>3, AnswerType DEF TypeOK, DevTypes
      <4>5. plan[gmsg] \o a \in Seq(Seq(LineKinds))
        BY <4>2, <4>3 DEF TypeOK, DevTypes
      <4>6. QED
        BY <4>1, <4>3, <4>4, <4>5 DEF TypeOK, DevTypes
    <3>2. CASE ~SendsData
      BY <1>4, <3>2 DEF RespPrompt, TypeOK, DevTypes
    <3>3. QED
      BY <3>1, <3>2
  <2>3. UNCHANGED <<owner, res, sem, sync, out, callVars, reqVars, ppc, pend, urcs,
                    respBox>>
    BY <1>4 DEF RespPrompt
  <2>4. QED
    BY <2>1, <2>2, <2>3
       DEF TypeOK, CallTypes, ReqTypes, RespTypes, DevTypes, Pairing,
           callVars, reqVars
<1>5. CASE RespEnd
  BY <1>5
     DEF RespEnd, TypeOK, CallTypes, ReqTypes, RespTypes, DevTypes, Pairing,
         callVars, reqVars, devVars
<1>6. CASE RespSignal
  BY <1>6
     DEF RespSignal, TypeOK, CallTypes, ReqTypes, RespTypes, DevTypes, Pairing,
         callVars, reqVars, devVars
<1>7. CASE RespYield
  BY <1>7
     DEF RespYield, TypeOK, CallTypes, ReqTypes, RespTypes, DevTypes, Pairing,
         callVars, reqVars, devVars
<1>8. QED
  BY <1>1, <1>2, <1>3, <1>4, <1>5, <1>6, <1>7 DEF RespStep

\* The device touches the response mailbox and its own variables only.
LEMMA DevFrame ==
  ASSUME DevAnswer \/ DevUnasked
  PROVE  UNCHANGED <<owner, res, sem, sync, out, callVars, reqVars, respVars, plan>>
BY DEF DevAnswer, DevUnasked

\* And keeps their types.
LEMMA DevType ==
  ASSUME TypeOK, Pairing, DevAnswer \/ DevUnasked
  PROVE  TypeOK' /\ Pairing'
<1> USE Constants
<1>1. DevTypes'
  <2>1. CASE DevAnswer
    <3>1. Head(dev) \in ChunkType /\ Tail(dev) \in Seq(ChunkType)
      BY <2>1 DEF DevAnswer, TypeOK, DevTypes
    <3>2. QED
      BY <2>1, <3>1, IsrPutType DEF DevAnswer, TypeOK, DevTypes
  <2>2. CASE DevUnasked
    <3>1. PICK k \in UrcLines : respBox' = IsrPut(respBox, Chunk(Unasked, <<k>>))
      BY <2>2 DEF DevUnasked
    <3>2. Chunk(Unasked, <<k>>) \in ChunkType
      BY DEF Chunk, ChunkType
    <3>3. urcs' \in 0..MaxUrc
      BY <2>2 DEF DevUnasked, TypeOK, DevTypes
    <3>4. QED
      BY <2>2, <3>1, <3>2, <3>3, IsrPutType DEF DevUnasked, TypeOK, DevTypes
  <2>3. QED
    BY <2>1, <2>2
<1>2. QED
  BY <1>1, DevFrame
     DEF TypeOK, CallTypes, ReqTypes, RespTypes, Pairing, callVars, reqVars, respVars

\* Every step is one of a thread or of the device, or changes nothing.
LEMMA StepCases ==
  ASSUME [Next]_vars
  PROVE  \/ \E t \in ThreadIds :
               \/ ApiStep(t)
               \/ \E m \in Msgs, k \in Cmds, b \in BOOLEAN : ApiCall(t, m, k, b)
         \/ ReqStep
         \/ RespStep
         \/ DevAnswer \/ DevUnasked
         \/ UNCHANGED vars
BY DEF Next, Finished

\* Types and pairing are preserved by every step.
LEMMA TypeStep ==
  ASSUME TypeOK, Pairing, [Next]_vars
  PROVE  TypeOK' /\ Pairing'
<1>1. CASE UNCHANGED vars
  BY <1>1
     DEF vars, callVars, reqVars, respVars, devVars, TypeOK, CallTypes, ReqTypes,
         RespTypes, DevTypes, Pairing
<1>2. QED
  BY <1>1, StepCases, ApiType, ReqType, RespType, DevType

\* The type invariant of the core, mailbox capacities included, for any number
\* of threads and messages (esp.c:220-274, esp_thread.c).
THEOREM TypeCorrect == Spec => []TypeOK
<1>1. Init => TypeOK /\ Pairing
  BY InitType
<1>2. TypeOK /\ Pairing /\ [Next]_vars => (TypeOK /\ Pairing)'
  BY TypeStep
<1>3. QED
  BY <1>1, <1>2, PTL DEF Spec


-----------------------------------------------------------------------------
(* The inductive invariant, and the safety properties that follow from it. *)

\* What the mailbox holds after a put and after a get.
LEMMA BoxPut ==
  ASSUME NEW b \in Seq(Msgs), NEW m
  PROVE  /\ Append(b, m) \in Seq(Msgs \cup {m})
         /\ \A i \in DOMAIN Append(b, m) :
              \/ i \in DOMAIN b /\ Append(b, m)[i] = b[i]
              \/ i = Len(b) + 1 /\ Append(b, m)[i] = m
OBVIOUS

LEMMA BoxGet ==
  ASSUME NEW b \in Seq(Msgs), b # <<>>
  PROVE  /\ Head(b) = b[1] /\ 1 \in DOMAIN b /\ Head(b) \in Msgs
         /\ \A i \in DOMAIN Tail(b) :
              /\ i + 1 \in DOMAIN b /\ Tail(b)[i] = b[i + 1]
              /\ i + 1 # 1
         /\ \A i, j \in DOMAIN Tail(b) : i + 1 = j + 1 => i = j
OBVIOUS

\* The initial state.
LEMMA InvInit == Init => IInv
<1> SUFFICES ASSUME Init
             PROVE  IInv
  OBVIOUS
<1>1. TypeOK /\ Pairing
  BY InitType
<1>2. LockInv
  BY Constants, CoreAssumption DEF Init, LockInv, ThreadIds
<1>3. CallInv
  BY Constants DEF Init, CallInv
<1>4. MemInv
  BY Constants, CoreAssumption
     DEF Init, MemInv, UnusedInv, CallerInv, WaiterInv, ServedInv, SignalledInv,
         MailboxLive, NotQueued
<1>5. QED
  BY <1>1, <1>2, <1>3, <1>4 DEF IInv

-----------------------------------------------------------------------------
(* API calls.                                                              *)

\* A call is started.
LEMMA ApiCallInv ==
  ASSUME IInv, NEW t \in ThreadIds, NEW m \in Msgs, NEW k \in Cmds, NEW b \in BOOLEAN,
         ApiCall(t, m, k, b)
  PROVE  LockInv' /\ CallInv' /\ MemInv'
<1> USE Constants, CoreAssumption
<1>1. /\ mem' = [mem EXCEPT ![m] = "live"] /\ mem[m] = "unused"
      /\ blocking' = [blocking EXCEPT ![m] = b]
      /\ apc' = [apc EXCEPT ![t] = "check"] /\ apc[t] = "idle"
      /\ amsg' = [amsg EXCEPT ![t] = m]
      /\ UNCHANGED <<owner, sem, reqBox, gmsg, qpc, qmsg, ppc>>
  BY DEF ApiCall, reqVars, respVars
<1>2. TypeOK /\ Pairing /\ LockInv /\ CallInv /\ MemInv
  BY DEF IInv
<1>3. LockInv'
  BY <1>1, <1>2 DEF ApiCall, LockInv, InCallback, TypeOK, CallTypes, ThreadIds
<1>4. CallInv'
  BY <1>1, <1>2 DEF CallInv, MemInv, UnusedInv, TypeOK, CallTypes
<1>5. UnusedInv' /\ CallerInv' /\ WaiterInv'
  BY <1>1, <1>2
     DEF CallInv, MemInv, UnusedInv, CallerInv, WaiterInv, NotQueued, TypeOK, CallTypes,
         Pairing
<1>6. ServedInv' /\ SignalledInv' /\ MailboxLive'
  BY <1>1, <1>2
     DEF MemInv, UnusedInv, ServedInv, SignalledInv, MailboxLive, NotQueued, TypeOK,
         CallTypes, ReqTypes, Pairing
<1>7. QED
  BY <1>3, <1>4, <1>5, <1>6 DEF MemInv

\* The request is checked: refused, or handed on.
LEMMA ApiCheckInv ==
  ASSUME IInv, NEW t \in ThreadIds, ApiCheck(t)
  PROVE  LockInv' /\ CallInv' /\ MemInv'
<1> USE Constants, CoreAssumption
<1>1. TypeOK /\ Pairing /\ LockInv /\ CallInv /\ MemInv
  BY DEF IInv
<1>2. /\ apc[t] = "check" /\ amsg[t] \in Msgs
      /\ UNCHANGED <<owner, blocking, sem, reqBox, qpc, qmsg, ppc>>
  BY <1>1, InCall DEF ApiCheck, reqVars, respVars
<1>3. CASE Refused(t)
  <2>1. /\ mem' = [mem EXCEPT ![amsg[t]] = "freed"]
        /\ apc' = [apc EXCEPT ![t] = "idle"] /\ amsg' = [amsg EXCEPT ![t] = NoMsg]
    BY <1>3 DEF ApiCheck, Leave
  <2>2. LockInv' /\ CallInv'
    BY <1>1, <1>2, <2>1 DEF LockInv, CallInv, InCallback, TypeOK, CallTypes, ThreadIds
  <2>3. UnusedInv' /\ CallerInv' /\ WaiterInv'
    BY <1>1, <1>2, <2>1
       DEF CallInv, MemInv, UnusedInv, CallerInv, WaiterInv, NotQueued, TypeOK,
           CallTypes, Pairing
  <2>4. ServedInv' /\ SignalledInv' /\ MailboxLive'
    BY <1>1, <1>2, <2>1
       DEF MemInv, CallerInv, ServedInv, SignalledInv, MailboxLive, NotQueued, TypeOK,
           CallTypes, ReqTypes, Pairing
  <2>5. QED
    BY <2>2, <2>3, <2>4 DEF MemInv
<1>4. CASE ~Refused(t)
  <2>1. apc' = [apc EXCEPT ![t] = "put"] /\ UNCHANGED <<mem, amsg>>
    BY <1>4 DEF ApiCheck
  <2>2. t \in {Req, Resp} => ~blocking[amsg[t]]
    <3>1. t \in {Req, Resp} => owner = t
      BY <1>1, <1>2 DEF LockInv, InCallback
    <3>2. QED
      BY <1>4, <3>1 DEF Refused, LockedCnt
  <2>3. LockInv' /\ CallInv'
    BY <1>1, <1>2, <2>1, <2>2 DEF LockInv, CallInv, InCallback, TypeOK, CallTypes, ThreadIds
  <2>4. UnusedInv' /\ CallerInv' /\ WaiterInv'
    BY <1>1, <1>2, <2>1
       DEF MemInv, UnusedInv, CallerInv, WaiterInv, NotQueued, TypeOK, CallTypes
  <2>5. ServedInv' /\ SignalledInv' /\ MailboxLive'
    BY <1>1, <1>2, <2>1 DEF MemInv, ServedInv, SignalledInv, MailboxLive, NotQueued
  <2>6. QED
    BY <2>3, <2>4, <2>5 DEF MemInv
<1>5. QED
  BY <1>3, <1>4

\* The request is put in the mailbox.
LEMMA ApiPutInv ==
  ASSUME IInv, NEW t \in ThreadIds, ApiPut(t)
  PROVE  LockInv' /\ CallInv' /\ MemInv'
<1> USE Constants, CoreAssumption
<1>1. TypeOK /\ Pairing /\ LockInv /\ CallInv /\ MemInv
  BY DEF IInv
<1>2. /\ apc[t] = "put" /\ apc' = [apc EXCEPT ![t] = "mark"] /\ amsg[t] \in Msgs
      /\ reqBox' = Append(reqBox, amsg[t])
      /\ UNCHANGED <<owner, mem, amsg, blocking, sem, qpc, qmsg, ppc>>
  BY <1>1, InCall DEF ApiPut, PutIn, reqVars, respVars
<1>3. /\ reqBox \in Seq(Msgs)
      /\ \A i \in DOMAIN reqBox' :
           \/ i \in DOMAIN reqBox /\ reqBox'[i] = reqBox[i]
           \/ i = Len(reqBox) + 1 /\ reqBox'[i] = amsg[t]
  BY <1>1, <1>2, BoxPut DEF TypeOK, CallTypes
<1>4. LockInv' /\ CallInv'
  BY <1>1, <1>2 DEF LockInv, CallInv, InCallback, TypeOK, CallTypes, ThreadIds
<1>5. UnusedInv' /\ CallerInv' /\ WaiterInv'
  BY <1>1, <1>2, <1>3
     DEF CallInv, MemInv, UnusedInv, CallerInv, WaiterInv, NotQueued, TypeOK, CallTypes,
         Pairing
<1>6. ServedInv' /\ SignalledInv'
  BY <1>1, <1>2, <1>3 DEF MemInv, CallerInv, ServedInv, SignalledInv, NotQueued
<1>7. MailboxLive'
  BY <1>1, <1>2, <1>3 DEF MemInv, CallerInv, MailboxLive, NotQueued
<1>8. QED
  BY <1>4, <1>5, <1>6, <1>7 DEF MemInv

\* It finds no room there, or its caller reads the result: the message is freed.
LEMMA ApiFreeInv ==
  ASSUME IInv, NEW t \in ThreadIds, ApiPutFails(t) \/ ApiWake(t)
  PROVE  LockInv' /\ CallInv' /\ MemInv'
<1> USE Constants, CoreAssumption
<1>1. TypeOK /\ Pairing /\ LockInv /\ CallInv /\ MemInv
  BY DEF IInv
<1>2. /\ amsg[t] \in Msgs
      /\ mem' = [mem EXCEPT ![amsg[t]] = "freed"]
      /\ apc' = [apc EXCEPT ![t] = "idle"] /\ amsg' = [amsg EXCEPT ![t] = NoMsg]
      /\ UNCHANGED <<owner, blocking, reqBox, qpc, qmsg, ppc>>
      /\ sem' = sem \/ sem' = [sem EXCEPT ![amsg[t]] = FALSE]
  BY <1>1, InCall DEF ApiPutFails, ApiWake, Leave, reqVars, respVars
\* Nobody else uses it: the mailbox does not hold it and it is not being served.
<1>3. NotQueued(amsg[t]) /\ (amsg[t] = qmsg => qpc = "clear")
  BY <1>1, <1>2 DEF ApiPutFails, ApiWake, MemInv, CallerInv, SignalledInv
<1>4. LockInv' /\ CallInv'
  BY <1>1, <1>2 DEF LockInv, CallInv, InCallback, TypeOK, CallTypes, ThreadIds
<1>5. UnusedInv' /\ CallerInv' /\ WaiterInv'
  BY <1>1, <1>2
     DEF CallInv, MemInv, UnusedInv, CallerInv, WaiterInv, NotQueued, TypeOK, CallTypes,
         Pairing
<1>6. ServedInv' /\ SignalledInv'
  BY <1>1, <1>2, <1>3
     DEF MemInv, ServedInv, SignalledInv, NotQueued, TypeOK, CallTypes, ReqTypes, Pairing
<1>7. MailboxLive'
  BY <1>1, <1>2, <1>3 DEF MemInv, MailboxLive, NotQueued, TypeOK, CallTypes
<1>8. QED
  BY <1>4, <1>5, <1>6, <1>7 DEF MemInv

\* The caller stores espINPROG, and returns or waits.
LEMMA ApiMarkInv ==
  ASSUME IInv, NEW t \in ThreadIds, ApiMark(t)
  PROVE  LockInv' /\ CallInv' /\ MemInv'
<1> USE Constants, CoreAssumption
<1>1. TypeOK /\ Pairing /\ LockInv /\ CallInv /\ MemInv
  BY DEF IInv
<1>2. /\ apc[t] = "mark" /\ amsg[t] \in Msgs
      /\ UNCHANGED <<owner, mem, blocking, sem, reqBox, qpc, qmsg, ppc>>
      /\ \/ /\ apc' = [apc EXCEPT ![t] = "wait"] /\ UNCHANGED amsg
            /\ mem[amsg[t]] = "live" /\ blocking[amsg[t]]
         \/ apc' = [apc EXCEPT ![t] = "wild"] /\ UNCHANGED amsg
         \/ apc' = [apc EXCEPT ![t] = "idle"] /\ amsg' = [amsg EXCEPT ![t] = NoMsg]
  BY <1>1, InCall DEF ApiMark, NonblockingReturn, Leave, reqVars, respVars
<1>3. LockInv' /\ CallInv'
  BY <1>1, <1>2 DEF LockInv, CallInv, InCallback, TypeOK, CallTypes, ThreadIds
<1>4. UnusedInv' /\ CallerInv' /\ WaiterInv'
  BY <1>1, <1>2
     DEF MemInv, UnusedInv, CallerInv, WaiterInv, NotQueued, TypeOK, CallTypes
<1>5. ServedInv' /\ SignalledInv' /\ MailboxLive'
  BY <1>1, <1>2 DEF MemInv, ServedInv, SignalledInv, MailboxLive, NotQueued
<1>6. QED
  BY <1>3, <1>4, <1>5 DEF MemInv

-----------------------------------------------------------------------------
(* The request thread.                                                     *)

\* A step that touches neither messages nor calls nor the request thread's
\* place keeps the two invariants about them.
LEMMA MemFrame ==
  ASSUME CallInv, MemInv, UNCHANGED <<callVars, sem, qpc, qmsg>>
  PROVE  CallInv' /\ MemInv'
BY DEF callVars, CallInv, MemInv, UnusedInv, CallerInv, WaiterInv, ServedInv, SignalledInv,
       MailboxLive, NotQueued

\* A step from start to completion: the request thread only moves on.
LEMMA ReqMoves ==
  ASSUME IInv,
         ReqStart \/ ReqResetDone \/ ReqWake \/ ReqTimeout \/ ReqRelock
  PROVE  LockInv' /\ CallInv' /\ MemInv'
<1> USE Constants, CoreAssumption
<1>1. TypeOK /\ Pairing /\ LockInv /\ CallInv /\ MemInv
  BY DEF IInv
<1>2. /\ UNCHANGED <<callVars, sem, qmsg, ppc>>
      /\ qpc \in {"start", "reset", "wait", "relock"}
      /\ qpc' \in {"reset", "wait", "relock", "events"}
  BY DEF ReqStart, ReqResetDone, ReqWake, ReqTimeout, ReqRelock, reqVars, respVars
<1>3. \/ owner = Nobody /\ owner' = Req /\ qpc \notin {"reset"}
         /\ qpc' \in {"reset", "events"}
      \/ owner' = owner /\ qpc = "reset" /\ qpc' = "events"
      \/ owner' = owner /\ qpc # "reset" /\ qpc' \in {"wait", "relock"}
  BY <1>1 DEF ReqStart, ReqResetDone, ReqWake, ReqTimeout, ReqRelock, LockFree
<1>4. LockInv'
  BY <1>1, <1>2, <1>3 DEF LockInv, InCallback, callVars
<1>5. CallInv' /\ UnusedInv' /\ CallerInv' /\ WaiterInv' /\ MailboxLive'
  BY <1>1, <1>2
     DEF callVars, CallInv, MemInv, UnusedInv, CallerInv, WaiterInv, MailboxLive, NotQueued
<1>6. ServedInv' /\ SignalledInv'
  BY <1>1, <1>2 DEF callVars, MemInv, ServedInv, SignalledInv, NotQueued
<1>7. QED
  BY <1>4, <1>5, <1>6 DEF MemInv

\* The request thread takes a request from the mailbox.
LEMMA ReqGetInv ==
  ASSUME IInv, ReqGet
  PROVE  LockInv' /\ CallInv' /\ MemInv'
<1> USE Constants, CoreAssumption
<1>1. TypeOK /\ Pairing /\ LockInv /\ CallInv /\ MemInv
  BY DEF IInv
<1>2. /\ UNCHANGED <<owner, mem, blocking, sem, apc, amsg, ppc>>
      /\ qpc = "get" /\ qpc' = "start"
      /\ reqBox \in Seq(Msgs) /\ reqBox # <<>>
      /\ qmsg' = Head(reqBox) /\ reqBox' = Tail(reqBox)
  BY <1>1 DEF ReqGet, respVars, TypeOK, CallTypes
<1>3. /\ qmsg' = reqBox[1] /\ 1 \in DOMAIN reqBox /\ qmsg' \in Msgs
      /\ \A i \in DOMAIN reqBox' :
           i + 1 \in DOMAIN reqBox /\ reqBox'[i] = reqBox[i + 1] /\ i + 1 # 1
      /\ \A i, j \in DOMAIN reqBox' : i + 1 = j + 1 => i = j
  BY <1>2, BoxGet
<1>4. LockInv' /\ CallInv'
  BY <1>1, <1>2 DEF LockInv, CallInv, InCallback
<1>5. UnusedInv' /\ CallerInv' /\ WaiterInv'
  BY <1>1, <1>2, <1>3 DEF MemInv, UnusedInv, CallerInv, WaiterInv, NotQueued
<1>6. ServedInv' /\ SignalledInv'
  BY <1>1, <1>2, <1>3 DEF MemInv, MailboxLive, ServedInv, SignalledInv, NotQueued
<1>7. MailboxLive'
  BY <1>1, <1>2, <1>3 DEF MemInv, MailboxLive
<1>8. QED
  BY <1>4, <1>5, <1>6, <1>7 DEF MemInv

\* It completes a request: wakes the caller, or calls back and frees.
LEMMA ReqCompletes ==
  ASSUME IInv, ReqFinish \/ ReqDelete
  PROVE  LockInv' /\ CallInv' /\ MemInv'
<1> USE Constants, CoreAssumption
<1>1. TypeOK /\ Pairing /\ LockInv /\ CallInv /\ MemInv
  BY DEF IInv
<1>2. /\ UNCHANGED <<owner, cmd, blocking, apc, amsg, reqBox, qmsg, ppc>>
      /\ qpc \in {"events", "apicb"} /\ apc[Req] = "idle"
      /\ qmsg \in Msgs /\ mem[qmsg] = "live"
  BY <1>1 DEF ReqFinish, ReqDelete, callVars, reqVars, respVars, TypeOK, ReqTypes, Pairing,
              MemInv, ServedInv
<1>3. \/ /\ sem' = [sem EXCEPT ![qmsg] = TRUE] /\ blocking[qmsg]
         /\ qpc' = "clear" /\ UNCHANGED mem
      \/ ~blocking[qmsg] /\ qpc' = "apicb" /\ UNCHANGED <<mem, sem>>
      \/ /\ mem' = [mem EXCEPT ![qmsg] = "freed"] /\ ~blocking[qmsg]
         /\ qpc' = "clear" /\ UNCHANGED sem
  BY <1>1 DEF ReqFinish, ReqDelete, WakesCaller, callVars, MemInv, ServedInv
<1>4. LockInv' /\ CallInv'
  BY <1>1, <1>2, <1>3 DEF LockInv, CallInv, InCallback
<1>5. NotQueued(qmsg)
  BY <1>1 DEF MemInv, MailboxLive, NotQueued
<1>6. \A t \in ThreadIds : apc[t] # "idle" => amsg[t] \in Msgs
  BY <1>1, InCall
<1>7. UnusedInv' /\ CallerInv'
  BY <1>1, <1>2, <1>3, <1>6
     DEF MemInv, UnusedInv, CallerInv, NotQueued, TypeOK, CallTypes
<1>8. WaiterInv'
  BY <1>1, <1>2, <1>3, <1>6 DEF MemInv, WaiterInv, TypeOK, CallTypes
<1>9. ServedInv' /\ SignalledInv' /\ MailboxLive'
  BY <1>1, <1>2, <1>3, <1>5
     DEF MemInv, ServedInv, SignalledInv, MailboxLive, NotQueued, TypeOK, CallTypes
<1>10. QED
  BY <1>4, <1>7, <1>8, <1>9 DEF MemInv

\* It clears espGlobal.msg and releases the lock.
LEMMA ReqClearInv ==
  ASSUME IInv, ReqClear
  PROVE  LockInv' /\ CallInv' /\ MemInv'
<1> USE Constants, CoreAssumption
<1>1. TypeOK /\ Pairing /\ LockInv /\ CallInv /\ MemInv
  BY DEF IInv
<1>2. /\ UNCHANGED <<callVars, sem, ppc>> /\ owner' = Nobody
      /\ qpc = "clear" /\ qpc' = "get" /\ qmsg' = NoMsg
  BY DEF ReqClear, respVars
<1>3. LockInv'
  BY <1>1, <1>2 DEF LockInv, InCallback, callVars
<1>4. CallInv' /\ UnusedInv' /\ WaiterInv' /\ ServedInv'
  BY <1>1, <1>2
     DEF callVars, CallInv, MemInv, UnusedInv, WaiterInv, ServedInv, NotQueued
<1>5. CallerInv' /\ SignalledInv' /\ MailboxLive'
  BY <1>1, <1>2, InCall
     DEF callVars, MemInv, CallerInv, SignalledInv, MailboxLive, NotQueued, TypeOK,
         CallTypes
<1>6. QED
  BY <1>3, <1>4, <1>5 DEF MemInv

-----------------------------------------------------------------------------
(* The response thread and the device.                                     *)

\* They touch neither messages nor calls, but the lock.
LEMMA RespInv ==
  ASSUME IInv, RespStep \/ DevAnswer \/ DevUnasked
  PROVE  LockInv' /\ CallInv' /\ MemInv'
<1> USE Constants, CoreAssumption
<1>1. TypeOK /\ Pairing /\ LockInv /\ CallInv /\ MemInv
  BY DEF IInv
<1>2. UNCHANGED <<callVars, sem, qpc, qmsg>>
  BY DevFrame
     DEF RespStep, RespGet, RespStart, RespParse, RespPrompt, RespEnd, RespSignal,
         RespYield, reqVars
<1>3. \/ owner = Nobody /\ owner' = Resp /\ ppc' = "parse"
      \/ /\ ppc = "parse" /\ apc[Resp] = "idle"
         /\ owner' = Nobody /\ ppc' \in {"signal", "get"}
      \/ owner' = owner /\ ppc' = ppc
      \/ owner' = owner /\ ppc # "parse" /\ ppc' # "parse"
  BY DevFrame
     DEF RespStep, RespGet, RespStart, RespParse, RespPrompt, RespEnd, RespSignal,
         RespYield, respVars, LockFree
<1>4. LockInv'
  BY <1>1, <1>2, <1>3 DEF LockInv, InCallback, callVars
<1>5. QED
  BY <1>1, <1>2, <1>4, MemFrame

-----------------------------------------------------------------------------
(* The theorems.                                                           *)

\* Every step keeps the inductive invariant.
LEMMA InvStep ==
  ASSUME IInv, [Next]_vars
  PROVE  IInv'
<1>1. TypeOK' /\ Pairing'
  BY TypeStep DEF IInv
<1> SUFFICES LockInv' /\ CallInv' /\ MemInv'
  BY <1>1 DEF IInv
<1>2. ASSUME NEW t \in ThreadIds, ApiStep(t)
      PROVE  LockInv' /\ CallInv' /\ MemInv'
  BY <1>2, ApiCheckInv, ApiPutInv, ApiFreeInv, ApiMarkInv DEF ApiStep
<1>3. ASSUME NEW t \in ThreadIds,
             \E m \in Msgs, k \in Cmds, b \in BOOLEAN : ApiCall(t, m, k, b)
      PROVE  LockInv' /\ CallInv' /\ MemInv'
  BY <1>3, ApiCallInv
<1>4. CASE ReqStep
  BY <1>4, ReqGetInv, ReqMoves, ReqCompletes, ReqClearInv DEF ReqStep
<1>5. CASE RespStep \/ DevAnswer \/ DevUnasked
  BY <1>5, RespInv
<1>6. CASE UNCHANGED vars
  <2>1. UNCHANGED <<callVars, sem, qpc, qmsg, ppc, owner>>
    BY <1>6 DEF vars, reqVars, respVars
  <2>2. LockInv'
    BY <2>1 DEF IInv, LockInv, InCallback, callVars
  <2>3. QED
    BY <2>1, <2>2, MemFrame DEF IInv
<1>7. QED
  BY <1>2, <1>3, <1>4, <1>5, <1>6, StepCases

\* Who holds the lock, who is in which call and who may use which message stay
\* consistent for ever (esp.c:220-274, esp_thread.c:4-80).
THEOREM InvCorrect == Spec => []IInv
<1>1. Init => IInv
  BY InvInit
<1>2. IInv /\ [Next]_vars => IInv'
  BY InvStep
<1>3. QED
  BY <1>1, <1>2, PTL DEF Spec

\* The response thread parses into a live message that the request thread still
\* waits for: while it holds the lock the request thread is not finishing one.
THEOREM ParserLiveCorrect == Spec => []ParserLive
<1>1. IInv => ParserLive
  <2> SUFFICES ASSUME IInv, ppc = "parse", gmsg # NoMsg
               PROVE  mem[gmsg] = "live" /\ gmsg = qmsg /\ qpc \in {"wait", "relock"}
    BY DEF ParserLive
  <2>1. owner = Resp /\ owner # Req
    BY CoreAssumption DEF IInv, LockInv
  <2>2. qpc \notin {"reset", "events", "apicb", "clear"}
    BY <2>1 DEF IInv, LockInv
  <2>3. qpc \notin {"get", "start"} /\ gmsg = qmsg
    BY DEF IInv, Pairing
  <2>4. qpc \in {"wait", "relock"}
    BY <2>2, <2>3 DEF IInv, TypeOK, ReqTypes
  <2>5. QED
    BY <2>3, <2>4 DEF IInv, MemInv, ServedInv
<1>2. QED
  BY <1>1, InvCorrect, PTL

\* No request in the mailbox is freed, is there twice or is being served.
THEOREM MailboxLiveCorrect == Spec => []MailboxLive
<1>1. IInv => MailboxLive
  BY DEF IInv, MemInv
<1>2. QED
  BY <1>1, InvCorrect, PTL

\* No thread waits for its own request while it holds the core lock: only the
\* two system threads hold it between steps, and the requests they make in a
\* callback are refused if they block (esp.c:231).
THEOREM NoSelfBlockCorrect == Spec => []NoSelfBlock
<1>1. IInv => NoSelfBlock
  BY DEF IInv, LockInv, CallInv, NoSelfBlock
<1>2. QED
  BY <1>1, InvCorrect, PTL

\* A message lives as long as a caller that has not handed it over, or that
\* blocks on it.
THEOREM CallerLiveCorrect == Spec => []CallerLive
<1>1. IInv => CallerLive
  BY DEF IInv, MemInv, CallerInv, WaiterInv, CallerLive
<1>2. QED
  BY <1>1, InvCorrect, PTL

\* No late answer and no timeout changes the result of a blocking request whose
\* caller has been released.
THEOREM ResultFrozenCorrect == Spec => ResultFrozen
<1> DEFINE Frozen == \A m \in Msgs : sem[m] /\ res'[m] # res[m] => ~Marked(m)
<1>1. ASSUME IInv, [Next]_vars
      PROVE  Frozen
  <2> SUFFICES ASSUME NEW m \in Msgs, sem[m], res'[m] # res[m]
               PROVE  ~Marked(m)
    OBVIOUS
  <2>1. TypeOK /\ Pairing /\ LockInv /\ MemInv
    BY <1>1 DEF IInv
  <2>2. mem[m] # "unused" /\ (m = qmsg => qpc = "clear")
    BY <2>1 DEF MemInv, UnusedInv, SignalledInv
  <2>3. ASSUME NEW t \in ThreadIds, ApiStep(t)
        PROVE  ~Marked(m)
    BY <2>1, <2>3
       DEF ApiStep, ApiCheck, ApiPut, ApiPutFails, ApiMark, ApiWake, Marked, TypeOK,
           CallTypes
  <2>4. ASSUME NEW t \in ThreadIds, NEW n \in Msgs, NEW k \in Cmds, NEW b \in BOOLEAN,
               ApiCall(t, n, k, b)
        PROVE  FALSE
    BY <2>1, <2>2, <2>4 DEF ApiCall, TypeOK, CallTypes
  <2>5. ~ReqStep
    BY <2>1, <2>2
       DEF ReqStep, ReqGet, ReqStart, ReqResetDone, ReqWake, ReqTimeout, ReqRelock,
           ReqFinish, ReqDelete, ReqClear, TypeOK, CallTypes
  <2>6. ~RespStep
    <3>1. ~RespParse
      <4>1. ppc = "parse" /\ gmsg # NoMsg => qpc # "clear" /\ gmsg = qmsg
        BY <2>1, CoreAssumption DEF LockInv, Pairing
      <4>2. QED
        BY <2>1, <2>2, <4>1 DEF RespParse, TypeOK, CallTypes
    <3>2. QED
      BY <3>1 DEF RespStep, RespGet, RespStart, RespPrompt, RespEnd, RespSignal, RespYield
  <2>7. ~(DevAnswer \/ DevUnasked)
    BY DevFrame
  <2>8. ~UNCHANGED vars
    BY DEF vars
  <2>9. QED
    BY <1>1, <2>3, <2>4, <2>5, <2>6, <2>7, <2>8, StepCases
<1>2. IInv /\ [Next]_vars => [Frozen]_vars
  BY <1>1
<1>3. QED
  BY <1>2, InvCorrect, PTL DEF Spec, ResultFrozen

-----------------------------------------------------------------------------
(* What is reported on a request, and when.                                *)

\* The line parser never writes a value that means a refusal.
LEMMA CmdBranchRes ==
  ASSUME NEW c, NEW k, NEW r, r \notin Refusals, NEW e, NEW o \in CmdBranch(c, k, r, e)
  PROVE  o.res \notin Refusals
<1>1. CASE c = "CWLAP" /\ ~e
  <2>1. o \in {[res |-> x, end |-> e] : x \in FoundAP}
    BY <1>1 DEF CmdBranch
  <2>2. QED
    BY <2>1 DEF FoundAP, Refusals
<1>2. CASE c = "CWJAP"
  <2>1. o = [res |-> StaJoinResult(k), end |-> TRUE]
    BY <1>2 DEF CmdBranch
  <2>2. QED
    BY <2>1 DEF StaJoinResult, Refusals
<1>3. CASE c = "CWQAP"
  <2>1. o = [res |-> StaQuitResult(k), end |-> e \/ k = "gone"]
    BY <1>3 DEF CmdBranch
  <2>2. QED
    BY <2>1 DEF StaQuitResult, Refusals
<1>4. CASE c = "CIPSEND" /\ ~e
  <2>1. o = ConnSend(k)
    BY <1>4 DEF CmdBranch
  <2>2. QED
    BY <2>1 DEF ConnSend, Refusals
<1>5. CASE c \in {"CWMODE", "RESET"}
  <2>1. o = [res |-> "skip", end |-> TRUE]
    BY <1>5 DEF CmdBranch
  <2>2. QED
    BY <2>1 DEF Refusals
<1>6. CASE ~(c = "CWLAP" /\ ~e) /\ c # "CWJAP" /\ c # "CWQAP"
           /\ ~(c = "CIPSEND" /\ ~e) /\ c \notin {"CWMODE", "RESET"}
  <2>1. o = [res |-> r, end |-> e]
    BY <1>6 DEF CmdBranch
  <2>2. QED
    BY <2>1
<1>7. QED
  BY <1>1, <1>2, <1>3, <1>4, <1>5, <1>6

LEMMA ParseLineRes ==
  ASSUME NEW c, NEW k, NEW r, r \notin Refusals, NEW e, NEW o \in ParseLine(c, k, r, e)
  PROVE  o.res \notin Refusals
<1> DEFINE v == Verdict(k, r)
           f == e \/ EndsAnyCmd(k)
<1>1. v \notin Refusals
  BY DEF Verdict, Refusals
<1>2. CASE k = "blank"
  <2>1. o = [res |-> r, end |-> e]
    BY <1>2 DEF ParseLine
  <2>2. QED
    BY <2>1
<1>3. CASE k # "blank" /\ v = "okmore"
  <2>1. o = [res |-> v, end |-> f]
    BY <1>3 DEF ParseLine
  <2>2. QED
    BY <1>1, <2>1
<1>4. CASE k # "blank" /\ v # "okmore"
  <2>1. o \in CmdBranch(c, k, v, f)
    BY <1>4 DEF ParseLine
  <2> HIDE DEF v, f
  <2>2. QED
    BY <1>1, <2>1, CmdBranchRes
<1>5. QED
  BY <1>2, <1>3, <1>4

\* So no thread does.
LEMMA ResStep ==
  ASSUME TypeOK, Pairing, ResInv, [Next]_vars
  PROVE  ResInv'
<1> USE Constants
<1>1. ASSUME NEW t \in ThreadIds, ApiStep(t)
      PROVE  ResInv'
  <2>1. res' = res \/ res' = [res EXCEPT ![amsg[t]] = "inprog"]
    BY <1>1 DEF ApiStep, ApiCheck, ApiPut, ApiPutFails, ApiMark, ApiWake
  <2>2. QED
    BY <2>1 DEF ResInv, Refusals, TypeOK, CallTypes
<1>2. ASSUME NEW t \in ThreadIds, NEW m \in Msgs, NEW k \in Cmds, NEW b \in BOOLEAN,
             ApiCall(t, m, k, b)
      PROVE  ResInv'
  <2>1. PICK g \in GarbageRes : res' = [res EXCEPT ![m] = g]
    BY <1>2 DEF ApiCall
  <2>2. QED
    BY <2>1, RefusalAssumption DEF ResInv, TypeOK, CallTypes
<1>3. CASE ReqStep
  <2>1. \/ res' = res
        \/ res' = [res EXCEPT ![qmsg] = "oknocmd"]
        \/ res' = [res EXCEPT ![qmsg] = "timeout"]
    BY <1>3
       DEF ReqStep, ReqGet, ReqStart, ReqResetDone, ReqWake, ReqTimeout, ReqRelock,
           ReqFinish, ReqDelete, ReqClear
  <2>2. QED
    BY <2>1 DEF ResInv, Refusals, TypeOK, CallTypes
<1>4. CASE RespStep
  <2>1. CASE RespParse /\ gmsg # NoMsg
    <3>1. PICK o \in ParseLine(cmd[gmsg], Seen(Head(chunk.lines)), res[gmsg], pend) :
            res' = [res EXCEPT ![gmsg] = o.res]
      BY <2>1 DEF RespParse
    <3>2. gmsg \in Msgs
      BY <2>1 DEF TypeOK, ReqTypes
    <3>3. o.res \notin Refusals
      BY <3>1, <3>2, ParseLineRes DEF ResInv
    <3>4. QED
      BY <3>1, <3>3 DEF ResInv, TypeOK, CallTypes
  <2>2. CASE ~(RespParse /\ gmsg # NoMsg)
    <3>1. res' = res
      BY <1>4, <2>2
         DEF RespStep, RespGet, RespStart, RespParse, RespPrompt, RespEnd, RespSignal,
             RespYield
    <3>2. QED
      BY <3>1 DEF ResInv
  <2>3. QED
    BY <2>1, <2>2
<1>5. CASE DevAnswer \/ DevUnasked \/ UNCHANGED vars
  <2>1. res' = res
    BY <1>5, DevFrame DEF vars
  <2>2. QED
    BY <2>1 DEF ResInv
<1>6. QED
  BY <1>1, <1>2, <1>3, <1>4, <1>5, StepCases

\* What the mailbox holds after a put and after a get, as sets of messages.
LEMMA QueuedPut ==
  ASSUME NEW b \in Seq(Msgs), NEW n \in Msgs, NEW m
  PROVE  Queued(m, Append(b, n)) <=> (m = n \/ Queued(m, b))
<1>1. \A i \in DOMAIN Append(b, n) :
        \/ i \in DOMAIN b /\ Append(b, n)[i] = b[i]
        \/ i = Len(b) + 1 /\ Append(b, n)[i] = n
  BY BoxPut
<1>2. /\ \A i \in DOMAIN b : i \in DOMAIN Append(b, n) /\ Append(b, n)[i] = b[i]
      /\ Len(b) + 1 \in DOMAIN Append(b, n) /\ Append(b, n)[Len(b) + 1] = n
  OBVIOUS
<1>3. QED
  BY <1>1, <1>2 DEF Queued

LEMMA QueuedGet ==
  ASSUME NEW b \in Seq(Msgs), b # <<>>, NEW m
  PROVE  /\ Queued(m, b) <=> (m = Head(b) \/ Queued(m, Tail(b)))
         /\ <<Head(b)>> \o Tail(b) = b
<1>1. \A i \in DOMAIN Tail(b) : i + 1 \in DOMAIN b /\ Tail(b)[i] = b[i + 1]
  OBVIOUS
<1>2. 1 \in DOMAIN b /\ b[1] = Head(b)
  OBVIOUS
<1>3. \A i \in DOMAIN b : i # 1 => i - 1 \in DOMAIN Tail(b) /\ Tail(b)[i - 1] = b[i]
  OBVIOUS
<1>4. <<Head(b)>> \o Tail(b) = b
  OBVIOUS
<1>5. QED
  BY <1>1, <1>2, <1>3, <1>4 DEF Queued

\* How far a request is depends on a few variables only.
LEMMA PlaceFrame ==
  ASSUME UNCHANGED <<mem, apc, amsg, blocking, reqBox, qmsg>>,
         qpc' = qpc \/ {qpc, qpc'} \cap {"apicb", "clear"} = {}, NEW m
  PROVE  /\ NotHandedOver(m)' <=> NotHandedOver(m)
         /\ Unserved(m)' <=> Unserved(m)
         /\ Awaited(m)' <=> Awaited(m)
BY DEF NotHandedOver, Unserved, Awaited, InService

\* The initial state.
LEMMA OutInit == Init => ResInv /\ OutInv
BY DEF Init, ResInv, OutInv, Refusals

\* A call starts, is checked, is queued or not, and goes on or leaves.
LEMMA ApiOut ==
  ASSUME IInv, ResInv, OutInv, NEW t \in ThreadIds,
         \/ ApiStep(t)
         \/ \E m \in Msgs, k \in Cmds, b \in BOOLEAN : ApiCall(t, m, k, b)
  PROVE  OutInv'
<1> USE Constants, CoreAssumption
<1>1. TypeOK /\ Pairing /\ LockInv /\ CallInv /\ MemInv
  BY DEF IInv
<1>2. UNCHANGED <<qmsg, qpc>>
  BY ApiFrame
<1> SUFFICES ASSUME NEW n \in Msgs, NotHandedOver(n)' \/ Unserved(n)' \/ Awaited(n)'
             PROVE  out'[n] = "none"
  BY DEF OutInv
<1>3. ASSUME NEW m \in Msgs, NEW k \in Cmds, NEW b \in BOOLEAN, ApiCall(t, m, k, b)
      PROVE  out'[n] = "none"
  <2>1. /\ mem' = [mem EXCEPT ![m] = "live"] /\ mem[m] = "unused"
        /\ blocking' = [blocking EXCEPT ![m] = b]
        /\ apc' = [apc EXCEPT ![t] = "check"] /\ apc[t] = "idle"
        /\ amsg' = [amsg EXCEPT ![t] = m] /\ UNCHANGED <<out, reqBox>>
    BY <1>3 DEF ApiCall
  <2>2. NotHandedOver(n) \/ Unserved(n) \/ Awaited(n)
    BY <1>1, <1>2, <2>1
       DEF NotHandedOver, Unserved, Awaited, InService, TypeOK, CallTypes
  <2>3. QED
    BY <2>1, <2>2 DEF OutInv
<1>4. CASE ApiCheck(t) \/ ApiPutFails(t)
  <2>1. amsg[t] \in Msgs /\ apc[t] \in {"check", "put"}
    BY <1>1, <1>4, InCall DEF ApiCheck, ApiPutFails
  <2>2. UNCHANGED <<blocking, reqBox>>
    BY <1>4 DEF ApiCheck, ApiPutFails
  <2>3. CASE apc' = [apc EXCEPT ![t] = "put"] /\ UNCHANGED <<mem, out, amsg>>
    <3>1. NotHandedOver(n) \/ Unserved(n) \/ Awaited(n)
      BY <1>1, <1>2, <2>1, <2>2, <2>3
         DEF NotHandedOver, Unserved, Awaited, InService, TypeOK, CallTypes
    <3>2. QED
      BY <2>3, <3>1 DEF OutInv
  <2>4. CASE \E r \in Refusals : Leave(t, TRUE, r)
    <3>1. /\ mem' = [mem EXCEPT ![amsg[t]] = "freed"]
          /\ apc' = [apc EXCEPT ![t] = "idle"]
          /\ amsg' = [amsg EXCEPT ![t] = NoMsg]
          /\ \E r \in Refusals : out' = [out EXCEPT ![amsg[t]] = r]
      BY <2>4 DEF Leave, Refusals
    <3>2. n # amsg[t]
      BY <1>1, <1>2, <2>1, <2>2, <3>1
         DEF NotHandedOver, Unserved, Queued, Awaited, InService, TypeOK, CallTypes,
             CallInv, MemInv, CallerInv, NotQueued
    <3>3. NotHandedOver(n) \/ Unserved(n) \/ Awaited(n)
      BY <1>1, <1>2, <2>1, <2>2, <3>1, <3>2
         DEF NotHandedOver, Unserved, Awaited, InService, TypeOK, CallTypes
    <3>4. QED
      BY <1>1, <3>1, <3>2, <3>3 DEF OutInv, TypeOK, CallTypes
  <2>5. QED
    BY <1>4, <2>3, <2>4 DEF ApiCheck, ApiPutFails, Refusals
<1>5. CASE ApiPut(t)
  <2>1. /\ amsg[t] \in Msgs /\ apc[t] = "put"
        /\ apc' = [apc EXCEPT ![t] = "mark"]
        /\ reqBox' = Append(reqBox, amsg[t])
        /\ UNCHANGED <<mem, blocking, amsg, out>>
    BY <1>1, <1>5, InCall DEF ApiPut, PutIn
  <2>2. Queued(n, reqBox') <=> (n = amsg[t] \/ Queued(n, reqBox))
    BY <1>1, <2>1, QueuedPut DEF TypeOK, CallTypes
  <2>3. NotHandedOver(n) \/ Unserved(n) \/ Awaited(n)
    BY <1>1, <1>2, <2>1, <2>2
       DEF NotHandedOver, Unserved, Awaited, InService, TypeOK, CallTypes
  <2>4. QED
    BY <2>1, <2>3 DEF OutInv
<1>6. CASE ApiMark(t)
  <2>1. /\ amsg[t] \in Msgs /\ apc[t] = "mark"
        /\ UNCHANGED <<mem, blocking, reqBox, out>>
        /\ \/ apc' = [apc EXCEPT ![t] = "wait"] /\ UNCHANGED amsg
           \/ apc' = [apc EXCEPT ![t] = "wild"] /\ UNCHANGED amsg
           \/ apc' = [apc EXCEPT ![t] = "idle"] /\ amsg' = [amsg EXCEPT ![t] = NoMsg]
    BY <1>1, <1>6, InCall DEF ApiMark, NonblockingReturn, Leave
  <2>2. NotHandedOver(n) \/ Unserved(n) \/ Awaited(n)
    BY <1>1, <1>2, <2>1
       DEF NotHandedOver, Unserved, Awaited, InService, TypeOK, CallTypes
  <2>3. QED
    BY <2>1, <2>2 DEF OutInv
<1>7. CASE ApiWake(t)
  <2>1. /\ amsg[t] \in Msgs /\ apc[t] = "wait" /\ sem[amsg[t]]
        /\ mem' = [mem EXCEPT ![amsg[t]] = "freed"]
        /\ apc' = [apc EXCEPT ![t] = "idle"]
        /\ amsg' = [amsg EXCEPT ![t] = NoMsg]
        /\ out' = out \/ out' = [out EXCEPT ![amsg[t]] = res[amsg[t]]]
        /\ UNCHANGED <<blocking, reqBox>>
    BY <1>1, <1>7, InCall DEF ApiWake, Leave
  <2>2. NotQueued(amsg[t]) /\ (amsg[t] = qmsg => qpc = "clear")
    BY <1>1, <2>1 DEF MemInv, SignalledInv
  <2>3. n # amsg[t]
    BY <1>1, <1>2, <2>1, <2>2
       DEF NotHandedOver, Unserved, Queued, Awaited, InService, TypeOK, CallTypes,
           CallInv, NotQueued
  <2>4. NotHandedOver(n) \/ Unserved(n) \/ Awaited(n)
    BY <1>1, <1>2, <2>1, <2>3
       DEF NotHandedOver, Unserved, Awaited, InService, TypeOK, CallTypes
  <2>5. QED
    BY <1>1, <2>1, <2>3, <2>4 DEF OutInv, TypeOK, CallTypes
<1>8. QED
  BY <1>3, <1>4, <1>5, <1>6, <1>7 DEF ApiStep

\* The request thread reports on a request nobody waits for.
LEMMA ReqOut ==
  ASSUME IInv, OutInv, ReqStep
  PROVE  OutInv'
<1> USE Constants, CoreAssumption
<1>1. TypeOK /\ Pairing /\ LockInv /\ CallInv /\ MemInv
  BY DEF IInv
<1> SUFFICES ASSUME NEW n \in Msgs, NotHandedOver(n)' \/ Unserved(n)' \/ Awaited(n)'
             PROVE  out'[n] = "none"
  BY DEF OutInv
<1>2. CASE ReqGet
  <2>1. /\ UNCHANGED <<mem, apc, amsg, blocking, out>>
        /\ qpc = "get" /\ qpc' = "start" /\ reqBox # <<>>
        /\ qmsg' = Head(reqBox) /\ reqBox' = Tail(reqBox)
    BY <1>2 DEF ReqGet
  <2>2. Queued(n, reqBox) <=> (n = qmsg' \/ Queued(n, reqBox'))
    BY <1>1, <2>1, QueuedGet DEF TypeOK, CallTypes
  <2>3. NotHandedOver(n) \/ Unserved(n) \/ Awaited(n)
    BY <2>1, <2>2 DEF NotHandedOver, Unserved, Awaited, InService
  <2>4. QED
    BY <2>1, <2>3 DEF OutInv
<1>3. CASE ReqStart \/ ReqResetDone \/ ReqWake \/ ReqTimeout \/ ReqRelock
  <2>1. /\ UNCHANGED <<mem, apc, amsg, blocking, reqBox, qmsg, out>>
        /\ {qpc, qpc'} \cap {"apicb", "clear"} = {}
    BY <1>3 DEF ReqStart, ReqResetDone, ReqWake, ReqTimeout, ReqRelock, callVars
  <2>2. NotHandedOver(n) \/ Unserved(n) \/ Awaited(n)
    BY <2>1, PlaceFrame
  <2>3. QED
    BY <2>1, <2>2 DEF OutInv
<1>4. CASE ReqFinish
  <2>1. /\ UNCHANGED <<mem, apc, amsg, blocking, reqBox, qmsg>>
        /\ qmsg \in Msgs /\ qpc = "events" /\ qpc' \in {"apicb", "clear"}
        /\ \/ out' = out
           \/ out' = [out EXCEPT ![qmsg] = res[qmsg]] /\ ~blocking[qmsg]
    BY <1>1, <1>4 DEF ReqFinish, WakesCaller, callVars, TypeOK, ReqTypes, Pairing
  <2>2. NotHandedOver(n) \/ Unserved(n) \/ Awaited(n)
    BY <2>1 DEF NotHandedOver, Unserved, Awaited, InService
  <2>3. n = qmsg => UNCHANGED out
    BY <1>1, <2>1
       DEF NotHandedOver, Unserved, Queued, Awaited, InService, MemInv, CallerInv,
           ServedInv, MailboxLive
  <2>4. QED
    BY <1>1, <2>1, <2>2, <2>3 DEF OutInv, TypeOK, CallTypes
<1>5. CASE ReqDelete \/ ReqClear
  <2>1. /\ UNCHANGED <<apc, amsg, blocking, reqBox, out>>
        /\ qpc \in {"apicb", "clear"} /\ qpc' \in {"clear", "get"}
        /\ qmsg' = qmsg \/ qmsg' = NoMsg
        /\ mem' = mem \/ mem' = [mem EXCEPT ![qmsg] = "freed"]
    BY <1>5 DEF ReqDelete, ReqClear, callVars
  <2>2. NotHandedOver(n) \/ Unserved(n) \/ Awaited(n)
    BY <1>1, <2>1, <1>5
       DEF ReqDelete, ReqClear, NotHandedOver, Unserved, Awaited, InService, TypeOK,
           CallTypes
  <2>3. QED
    BY <2>1, <2>2 DEF OutInv
<1>6. QED
  BY <1>2, <1>3, <1>4, <1>5 DEF ReqStep

\* The response thread, the device and the scheduler report on nothing.
LEMMA RestFrame ==
  ASSUME RespStep \/ DevAnswer \/ DevUnasked \/ UNCHANGED vars
  PROVE  UNCHANGED <<mem, apc, amsg, blocking, reqBox, qmsg, qpc, out>>
BY DevFrame
   DEF RespStep, RespGet, RespStart, RespParse, RespPrompt, RespEnd, RespSignal,
       RespYield, vars, callVars, reqVars

LEMMA OutStep ==
  ASSUME IInv, ResInv, OutInv, [Next]_vars
  PROVE  OutInv'
<1>1. CASE RespStep \/ DevAnswer \/ DevUnasked \/ UNCHANGED vars
  BY <1>1, RestFrame, PlaceFrame DEF OutInv
<1>2. QED
  BY <1>1, StepCases, ApiOut, ReqOut

-----------------------------------------------------------------------------
(* Each step is a step of CmdQueue, or none.                               *)

\* The abstract variables follow from what a step does to each request.
LEMMA StatusSame ==
  ASSUME \A m \in Msgs : StatusOf(m)' = StatusOf(m)
  PROVE  absStatus' = absStatus
BY DEF absStatus

LEMMA StatusOne ==
  ASSUME NEW n \in Msgs, \A m \in Msgs : m # n => StatusOf(m)' = StatusOf(m)
  PROVE  absStatus' = [absStatus EXCEPT ![n] = StatusOf(n)']
BY DEF absStatus

LEMMA RepliedSame ==
  ASSUME \A m \in Msgs : out'[m] = out[m] \/ {out[m], out'[m]} \subseteq Refusals \cup {"none"}
  PROVE  absReplied' = absReplied
BY DEF absReplied

LEMMA RepliedOne ==
  ASSUME NEW n \in Msgs, \A m \in Msgs : m # n => out'[m] = out[m],
         out'[n] \notin Refusals \cup {"none"}
  PROVE  absReplied' = absReplied \cup {n}
BY DEF absReplied

\* A step that neither hands a request over nor serves nor reports on one is a
\* stutter.
LEMMA Stutter ==
  ASSUME UNCHANGED out, absFifo' = absFifo,
         \A m \in Msgs : /\ NotHandedOver(m)' <=> NotHandedOver(m)
                         /\ Unserved(m)' <=> Unserved(m)
  PROVE  UNCHANGED CQ!vars
<1>1. \A m \in Msgs : StatusOf(m)' = StatusOf(m)
  BY DEF StatusOf
<1>2. absStatus' = absStatus /\ absReplied' = absReplied
  BY <1>1, StatusSame, RepliedSame
<1>3. QED
  BY <1>2 DEF CQ!vars

\* The initial state maps to the initial state.
LEMMA QueueInit == Init => CQ!Init
<1> SUFFICES ASSUME Init
             PROVE  CQ!Init
  OBVIOUS
<1>1. absFifo = <<>>
  BY DEF Init, absFifo, InService
<1>2. absStatus = [m \in Msgs |-> "new"]
  BY DEF Init, absStatus, StatusOf, NotHandedOver
<1>3. absReplied = {}
  BY DEF Init, absReplied
<1>4. QED
  BY <1>1, <1>2, <1>3 DEF CQ!Init

\* A refused call: the request goes from "new" to "refused".
LEMMA RefuseStep ==
  ASSUME IInv, OutInv, NEW t \in ThreadIds, NEW m \in Msgs, m = amsg[t],
         ApiCheck(t) \/ ApiPutFails(t), NEW r \in Refusals, Leave(t, TRUE, r)
  PROVE  CQ!Refuse(m)
<1> USE Constants, CoreAssumption
<1>1. TypeOK /\ Pairing /\ CallInv /\ MemInv
  BY DEF IInv
<1>2. /\ amsg[t] = m /\ apc[t] \in {"check", "put"}
      /\ mem' = [mem EXCEPT ![m] = "freed"]
      /\ out' = [out EXCEPT ![m] = r]
      /\ apc' = [apc EXCEPT ![t] = "idle"]
      /\ amsg' = [amsg EXCEPT ![t] = NoMsg]
      /\ UNCHANGED <<reqBox, qmsg, qpc>>
  BY <1>1, InCall DEF ApiCheck, ApiPutFails, Leave, Refusals, reqVars
<1>3. absFifo' = absFifo
  BY <1>2 DEF absFifo, InService
<1>4. NotHandedOver(m) /\ ~NotHandedOver(m)'
  BY <1>1, <1>2 DEF NotHandedOver, TypeOK, CallTypes, CallInv
<1>5. absStatus[m] = "new" /\ StatusOf(m)' = "refused"
  BY <1>1, <1>2, <1>4 DEF absStatus, StatusOf, TypeOK, CallTypes
<1>6. ASSUME NEW n \in Msgs, n # m
      PROVE  StatusOf(n)' = StatusOf(n)
  <2>1. NotHandedOver(n)' <=> NotHandedOver(n)
    BY <1>1, <1>2, <1>6 DEF NotHandedOver, TypeOK, CallTypes
  <2>2. Unserved(n)' <=> Unserved(n)
    BY <1>2 DEF Unserved, InService
  <2>3. out'[n] = out[n]
    BY <1>1, <1>2, <1>6 DEF TypeOK, CallTypes
  <2>4. QED
    BY <2>1, <2>2, <2>3 DEF StatusOf
<1>7. absStatus' = [absStatus EXCEPT ![m] = "refused"]
  BY <1>2, <1>5, <1>6, StatusOne
<1>8. out[m] = "none"
  BY <1>2, <1>4 DEF OutInv
<1>9. absReplied' = absReplied
  BY <1>1, <1>2, <1>8, RepliedSame DEF TypeOK, CallTypes
<1>10. QED
  BY <1>3, <1>5, <1>7, <1>9 DEF CQ!Refuse

\* A put: the request goes from "new" to "accepted", at the end of the queue.
LEMMA AcceptStep ==
  ASSUME IInv, OutInv, NEW t \in ThreadIds, NEW m \in Msgs, m = amsg[t],
         ApiPut(t)
  PROVE  CQ!Accept(m)
<1> USE Constants, CoreAssumption
<1>1. TypeOK /\ Pairing /\ CallInv /\ MemInv
  BY DEF IInv
<1>2. /\ amsg[t] = m /\ apc[t] = "put"
      /\ apc' = [apc EXCEPT ![t] = "mark"]
      /\ reqBox' = Append(reqBox, m)
      /\ UNCHANGED <<mem, amsg, out, qmsg, qpc>>
  BY <1>1, InCall DEF ApiPut, PutIn, reqVars
<1>3. absFifo' = Append(absFifo, m)
  <2>1. reqBox \in Seq(Msgs) /\ (InService => qmsg \in Msgs) /\ InService' = InService
    BY <1>1, <1>2 DEF TypeOK, CallTypes, ReqTypes, InService
  <2>2. QED
    BY <1>2, <2>1 DEF absFifo
<1>4. NotHandedOver(m) /\ ~NotHandedOver(m)'
  BY <1>1, <1>2 DEF NotHandedOver, TypeOK, CallTypes, CallInv, MemInv, CallerInv
<1>5. \A n \in Msgs : Queued(n, reqBox') <=> (n = m \/ Queued(n, reqBox))
  BY <1>1, <1>2, QueuedPut DEF TypeOK, CallTypes
<1>6. out[m] = "none"
  BY <1>2, <1>4 DEF OutInv
<1>7. absStatus[m] = "new" /\ StatusOf(m)' = "accepted"
  BY <1>2, <1>4, <1>5, <1>6 DEF absStatus, StatusOf, Unserved, Refusals
<1>8. ASSUME NEW n \in Msgs, n # m
      PROVE  StatusOf(n)' = StatusOf(n)
  <2>1. NotHandedOver(n)' <=> NotHandedOver(n)
    BY <1>1, <1>2, <1>8 DEF NotHandedOver, TypeOK, CallTypes
  <2>2. Unserved(n)' <=> Unserved(n)
    BY <1>2, <1>5, <1>8 DEF Unserved, InService
  <2>3. QED
    BY <1>2, <2>1, <2>2 DEF StatusOf
<1>9. absStatus' = [absStatus EXCEPT ![m] = "accepted"]
  BY <1>2, <1>7, <1>8, StatusOne
<1>10. absReplied' = absReplied
  BY <1>2, RepliedSame
<1>11. QED
  BY <1>3, <1>7, <1>9, <1>10 DEF CQ!Accept

\* A caller that wakes: the request is served, and now replied to.
LEMMA ReplyStep ==
  ASSUME IInv, ResInv, OutInv, NEW t \in ThreadIds, NEW m \in Msgs, m = amsg[t],
         ApiWake(t)
  PROVE  CQ!Reply(m)
<1> USE Constants, CoreAssumption
<1>1. TypeOK /\ Pairing /\ CallInv /\ MemInv
  BY DEF IInv
<1>2. /\ amsg[t] = m /\ apc[t] = "wait" /\ sem[m]
      /\ mem' = [mem EXCEPT ![m] = "freed"]
      /\ apc' = [apc EXCEPT ![t] = "idle"]
      /\ amsg' = [amsg EXCEPT ![t] = NoMsg]
      /\ out' = [out EXCEPT ![m] = res[m]]
      /\ UNCHANGED <<reqBox, qmsg, qpc>>
  <2>1. res[m] # "none"
    BY <1>1 DEF TypeOK, CallTypes, ResKinds
  <2>2. QED
    BY <2>1 DEF ApiWake, Leave, reqVars
<1>3. absFifo' = absFifo
  BY <1>2 DEF absFifo, InService
<1>4. ~NotHandedOver(m) /\ ~NotHandedOver(m)'
  BY <1>1, <1>2 DEF NotHandedOver, TypeOK, CallTypes, CallInv, MemInv, WaiterInv
<1>5. ~Unserved(m) /\ ~Unserved(m)'
  BY <1>1, <1>2 DEF Unserved, Queued, InService, MemInv, SignalledInv, NotQueued
<1>6. out[m] = "none"
  BY <1>1, <1>2 DEF OutInv, Awaited, MemInv, WaiterInv
<1>7. out'[m] \notin Refusals \cup {"none"}
  BY <1>1, <1>2 DEF ResInv, TypeOK, CallTypes, ResKinds
<1>8. absStatus[m] = "served" /\ StatusOf(m)' = "served"
  BY <1>2, <1>4, <1>5, <1>6, <1>7 DEF absStatus, StatusOf, Refusals
<1>9. ASSUME NEW n \in Msgs
      PROVE  StatusOf(n)' = StatusOf(n)
  <2>1. CASE n = m
    BY <1>2, <1>8, <2>1 DEF absStatus
  <2>2. CASE n # m
    <3>1. NotHandedOver(n)' <=> NotHandedOver(n)
      BY <1>1, <1>2, <2>2 DEF NotHandedOver, TypeOK, CallTypes
    <3>2. Unserved(n)' <=> Unserved(n)
      BY <1>2 DEF Unserved, InService
    <3>3. out'[n] = out[n]
      BY <1>1, <1>2, <2>2 DEF TypeOK, CallTypes
    <3>4. QED
      BY <3>1, <3>2, <3>3 DEF StatusOf
  <2>3. QED
    BY <2>1, <2>2
<1>10. absStatus' = absStatus
  BY <1>9, StatusSame
<1>11. absReplied' = absReplied \cup {m} /\ m \notin absReplied
  <2>1. \A n \in Msgs : n # m => out'[n] = out[n]
    BY <1>1, <1>2 DEF TypeOK, CallTypes
  <2>2. QED
    BY <1>2, <1>6, <1>7, <2>1, RepliedOne DEF absReplied
<1>12. QED
  BY <1>3, <1>8, <1>10, <1>11 DEF CQ!Reply

\* The callbacks have returned: the oldest request is served, and one that
\* nobody waits for is replied to.
LEMMA ServeStep ==
  ASSUME IInv, ResInv, OutInv, ReqFinish
  PROVE  CQ!Serve
<1> USE Constants, CoreAssumption
<1>1. TypeOK /\ Pairing /\ MemInv
  BY DEF IInv
<1>2. PICK m \in Msgs : m = qmsg
  BY <1>1 DEF ReqFinish, TypeOK, ReqTypes, Pairing
<1>3. /\ UNCHANGED <<mem, apc, amsg, reqBox, qmsg>>
      /\ m # NoMsg /\ qpc = "events" /\ qpc' \in {"apicb", "clear"}
      /\ out' = out \/ out' = [out EXCEPT ![m] = res[m]]
  BY <1>2 DEF ReqFinish, callVars
<1>4. absFifo = <<m>> \o reqBox /\ absFifo' = reqBox
  <2>1. InService /\ ~InService'
    BY <1>2, <1>3 DEF InService
  <2>2. reqBox \in Seq(Msgs)
    BY <1>1 DEF TypeOK, CallTypes
  <2>3. QED
    BY <1>2, <1>3, <2>1, <2>2 DEF absFifo
<1>5. absFifo # <<>> /\ Head(absFifo) = m /\ absFifo' = Tail(absFifo)
  BY <1>1, <1>4 DEF TypeOK, CallTypes
<1>6. out[m] = "none"
  BY <1>2, <1>3 DEF OutInv, Unserved, InService
<1>7. out'[m] = "none" \/ out'[m] \notin Refusals \cup {"none"}
  BY <1>1, <1>3, <1>6 DEF ResInv, TypeOK, CallTypes, ResKinds
<1>8. StatusOf(m)' = "served"
  <2>1. ~NotHandedOver(m)'
    BY <1>1, <1>2, <1>3 DEF NotHandedOver, MemInv, CallerInv, ServedInv
  <2>2. ~Unserved(m)'
    BY <1>1, <1>2, <1>3 DEF Unserved, Queued, InService, MemInv, MailboxLive
  <2>3. QED
    BY <1>7, <2>1, <2>2 DEF StatusOf, Refusals
<1>9. ASSUME NEW n \in Msgs, n # m
      PROVE  out'[n] = out[n] /\ StatusOf(n)' = StatusOf(n)
  <2>1. NotHandedOver(n)' <=> NotHandedOver(n)
    BY <1>3 DEF NotHandedOver
  <2>2. Unserved(n)' <=> Unserved(n)
    BY <1>2, <1>3, <1>9 DEF Unserved, InService
  <2>3. out'[n] = out[n]
    BY <1>1, <1>3, <1>9 DEF TypeOK, CallTypes
  <2>4. QED
    BY <2>1, <2>2, <2>3 DEF StatusOf
<1>10. absStatus' = [absStatus EXCEPT ![m] = "served"]
  BY <1>8, <1>9, StatusOne
<1>11. absReplied' \in {absReplied, absReplied \cup {m}}
  <2>1. CASE out'[m] = "none"
    <3>1. absReplied' = absReplied
      BY <1>6, <1>9, <2>1, RepliedSame
    <3>2. QED
      BY <3>1
  <2>2. CASE out'[m] \notin Refusals \cup {"none"}
    <3>1. absReplied' = absReplied \cup {m}
      BY <1>9, <2>2, RepliedOne
    <3>2. QED
      BY <3>1
  <2>3. QED
    BY <1>7, <2>1, <2>2
<1>12. QED
  BY <1>5, <1>10, <1>11 DEF CQ!Serve

\* Every other step is invisible to the callers.
LEMMA InvisibleStep ==
  ASSUME IInv,
         \/ \E t \in ThreadIds :
              \/ ApiMark(t) \/ (ApiCheck(t) /\ ~Refused(t))
              \/ \E m \in Msgs, k \in Cmds, b \in BOOLEAN : ApiCall(t, m, k, b)
         \/ ReqStep /\ ~ReqFinish
         \/ RespStep \/ DevAnswer \/ DevUnasked
         \/ UNCHANGED vars
  PROVE  UNCHANGED CQ!vars
<1> USE Constants, CoreAssumption
<1>1. TypeOK /\ Pairing /\ MemInv
  BY DEF IInv
<1>2. ASSUME NEW t \in ThreadIds, NEW m \in Msgs, NEW k \in Cmds, NEW b \in BOOLEAN,
             ApiCall(t, m, k, b)
      PROVE  UNCHANGED CQ!vars
  <2>1. /\ mem' = [mem EXCEPT ![m] = "live"] /\ mem[m] = "unused"
        /\ apc' = [apc EXCEPT ![t] = "check"] /\ apc[t] = "idle"
        /\ amsg' = [amsg EXCEPT ![t] = m] /\ amsg[t] = NoMsg
        /\ UNCHANGED <<out, reqBox, qmsg, qpc>>
    BY <1>1, <1>2 DEF ApiCall, reqVars, Pairing
  <2>2. \A n \in Msgs : /\ NotHandedOver(n)' <=> NotHandedOver(n)
                        /\ Unserved(n)' <=> Unserved(n)
    BY <1>1, <2>1 DEF NotHandedOver, Unserved, InService, TypeOK, CallTypes
  <2>3. QED
    BY <2>1, <2>2, Stutter DEF absFifo, InService
<1>3. ASSUME NEW t \in ThreadIds, ApiMark(t) \/ (ApiCheck(t) /\ ~Refused(t))
      PROVE  UNCHANGED CQ!vars
  <2>1. /\ UNCHANGED <<mem, out, reqBox, qmsg, qpc>> /\ amsg[t] \in Msgs
        /\ \/ /\ apc' = [apc EXCEPT ![t] = "put"] /\ apc[t] = "check"
              /\ UNCHANGED amsg
           \/ /\ apc' \in {[apc EXCEPT ![t] = "wait"], [apc EXCEPT ![t] = "wild"]}
              /\ apc[t] = "mark" /\ UNCHANGED amsg
           \/ /\ apc' = [apc EXCEPT ![t] = "idle"] /\ apc[t] = "mark"
              /\ amsg' = [amsg EXCEPT ![t] = NoMsg]
    BY <1>1, <1>3, InCall DEF ApiMark, ApiCheck, NonblockingReturn, Leave, reqVars
  <2>2. \A n \in Msgs : /\ NotHandedOver(n)' <=> NotHandedOver(n)
                        /\ Unserved(n)' <=> Unserved(n)
    BY <1>1, <2>1 DEF NotHandedOver, Unserved, InService, TypeOK, CallTypes
  <2>3. QED
    BY <2>1, <2>2, Stutter DEF absFifo, InService
<1>4. CASE ReqGet
  <2>1. /\ UNCHANGED <<mem, apc, amsg, out>>
        /\ qpc = "get" /\ qpc' = "start" /\ qmsg = NoMsg
        /\ reqBox \in Seq(Msgs) /\ reqBox # <<>>
        /\ qmsg' = Head(reqBox) /\ reqBox' = Tail(reqBox)
    BY <1>1, <1>4 DEF ReqGet, Pairing, TypeOK, CallTypes
  <2>2. qmsg' # NoMsg
    BY <2>1, BoxGet
  <2>3. ~InService /\ InService'
    BY <2>1, <2>2 DEF InService
  <2>4. <<qmsg'>> \o reqBox' = reqBox
    BY <2>1, QueuedGet
  <2>5. absFifo' = absFifo
    BY <2>1, <2>3, <2>4 DEF absFifo
  <2>6. \A n \in Msgs : Queued(n, reqBox) <=> (n = qmsg' \/ Queued(n, reqBox'))
    BY <2>1, QueuedGet
  <2>7. \A n \in Msgs : /\ NotHandedOver(n)' <=> NotHandedOver(n)
                        /\ Unserved(n)' <=> Unserved(n)
    BY <2>1, <2>3, <2>6 DEF NotHandedOver, Unserved
  <2>8. QED
    BY <2>1, <2>5, <2>7, Stutter
<1>5. CASE ReqStart \/ ReqResetDone \/ ReqWake \/ ReqTimeout \/ ReqRelock
  <2>1. /\ UNCHANGED <<mem, apc, amsg, reqBox, qmsg, out>>
        /\ {qpc, qpc'} \cap {"apicb", "clear"} = {}
    BY <1>5 DEF ReqStart, ReqResetDone, ReqWake, ReqTimeout, ReqRelock, callVars
  <2>2. QED
    BY <2>1, Stutter DEF absFifo, InService, NotHandedOver, Unserved
<1>6. CASE ReqDelete \/ ReqClear
  <2>1. /\ UNCHANGED <<apc, amsg, reqBox, out>>
        /\ ~InService /\ ~InService'
        /\ \/ mem' = mem
           \/ mem' = [mem EXCEPT ![qmsg] = "freed"] /\ mem[qmsg] = "live"
    BY <1>1, <1>6 DEF ReqDelete, ReqClear, callVars, InService, MemInv, ServedInv
  <2>2. \A n \in Msgs : /\ NotHandedOver(n)' <=> NotHandedOver(n)
                        /\ Unserved(n)' <=> Unserved(n)
    BY <1>1, <2>1 DEF NotHandedOver, Unserved, TypeOK, CallTypes
  <2>3. QED
    BY <2>1, <2>2, Stutter DEF absFifo
<1>7. CASE RespStep \/ DevAnswer \/ DevUnasked \/ UNCHANGED vars
  BY <1>7, RestFrame, Stutter DEF absFifo, InService, NotHandedOver, Unserved
<1>8. QED
  BY <1>2, <1>3, <1>4, <1>5, <1>6, <1>7 DEF ReqStep

\* Every step of the core is a step of the queue, or invisible.
LEMMA QueueStep ==
  ASSUME IInv, ResInv, OutInv, [Next]_vars
  PROVE  [CQ!Next]_(CQ!vars)
<1>1. ASSUME NEW t \in ThreadIds, ApiStep(t)
      PROVE  [CQ!Next]_(CQ!vars)
  <2>1. PICK m \in Msgs : m = amsg[t]
    BY <1>1, InCall
       DEF IInv, ApiStep, ApiCheck, ApiPut, ApiPutFails, ApiMark, ApiWake
  <2>2. CASE ApiCheck(t) /\ Refused(t)
    BY <2>1, <2>2, RefuseStep DEF ApiCheck, Refusals, CQ!Next
  <2>3. CASE ApiPutFails(t)
    BY <2>1, <2>3, RefuseStep DEF ApiPutFails, Refusals, CQ!Next
  <2>4. CASE ApiPut(t)
    BY <2>1, <2>4, AcceptStep DEF CQ!Next
  <2>5. CASE ApiWake(t)
    BY <2>1, <2>5, ReplyStep DEF CQ!Next
  <2>6. CASE ApiMark(t) \/ (ApiCheck(t) /\ ~Refused(t))
    BY <2>6, InvisibleStep
  <2>7. QED
    BY <1>1, <2>2, <2>3, <2>4, <2>5, <2>6 DEF ApiStep
<1>2. CASE ReqFinish
  BY <1>2, ServeStep DEF CQ!Next
<1>3. QED
  BY <1>1, <1>2, InvisibleStep, StepCases

\* What is reported on a request, and when, stays consistent for ever.
THEOREM ReportsCorrect == Spec => [](ResInv /\ OutInv)
<1>1. Init => ResInv /\ OutInv
  BY OutInit
<1>2. IInv /\ ResInv /\ OutInv /\ [Next]_vars => (ResInv /\ OutInv)'
  BY ResStep, OutStep DEF IInv
<1>3. QED
  BY <1>1, <1>2, InvCorrect, PTL DEF Spec

\* Accepted requests are served one at a time in the order they were accepted,
\* refused ones never, and each caller is replied to once and not before its
\* request has been served, whatever the threads, the callbacks and the device
\* do (esp.c:220-274, esp_thread.c:4-52).
THEOREM QueueRefined == Spec => ImplementsQueue
<1>1. Init => CQ!Init
  BY QueueInit
<1>2. IInv /\ ResInv /\ OutInv /\ [Next]_vars => [CQ!Next]_(CQ!vars)
  BY QueueStep
<1>3. QED
  BY <1>1, <1>2, InvCorrect, ReportsCorrect, PTL DEF Spec, ImplementsQueue, CQ!Spec
=============================================================================
