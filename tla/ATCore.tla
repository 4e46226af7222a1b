------------------------------- MODULE ATCore -------------------------------
(***************************************************************************)
(* The AT-command core of the library: application threads hand requests   *)
(* to the request thread through a mailbox (eESPsendReqToMbox, esp.c), the *)
(* request thread sends the command and waits for sem_th_sync, the         *)
(* receive interrupt puts what the device answers in a second mailbox, and *)
(* the response thread parses it against the command in progress and       *)
(* gives sem_th_sync (esp_thread.c).  Both threads run holding the core    *)
(* lock, which they release while they wait; callbacks run inside them,    *)
(* with the lock held, and may call the API again.                         *)
(*                                                                         *)
(* Every espMsg_t is a member of Msgs that is allocated once and freed     *)
(* once, so a use of freed memory is a use of a message in state "freed".  *)
(***************************************************************************)
EXTENDS RespLine, Naturals, Sequences

CONSTANTS
  Tasks,       (* application threads                                       *)
  Req, Resp,   (* the request thread and the response thread                *)
  Nobody,      (* the owner of the core lock when it is free                *)
  Msgs,        (* the messages pxESPmsgCreate can ever return               *)
  NoMsg,       (* the NULL message pointer                                  *)
  Cmds,        (* the commands in use, a subset of CmdKinds                 *)
  ReqCap,      (* slots of mbox_cmd_req                                     *)
  RespCap,     (* slots of mbox_cmd_resp                                    *)
  Answers,     (* for each command, the answers the device may give: an     *)
               (* answer is a sequence of chunks, a chunk a sequence of     *)
               (* line kinds, one chunk per receive interrupt               *)
  DataAnswers, (* what it may answer to the data of AT+CIPSEND              *)
  UrcLines,    (* the lines it may send unasked                             *)
  MaxUrc,      (* how many of them (bound)                                  *)
  GarbageRes,  (* what msg->res may hold when a message is allocated        *)
  Punctual,    (* no answer arrives after its command has timed out         *)
  MarkFirst    (* the caller's store of espINPROG precedes the answer       *)

ThreadIds == Tasks \cup {Req, Resp}

ASSUME CoreAssumption ==
  /\ Req \notin Tasks /\ Resp \notin Tasks /\ Req # Resp
  /\ Nobody \notin ThreadIds
  /\ NoMsg \notin Msgs
  /\ Cmds \subseteq CmdKinds /\ Cmds # {}
  /\ ReqCap \in Nat \ {0} /\ RespCap \in Nat \ {0} /\ MaxUrc \in Nat
  /\ Answers \in [Cmds -> SUBSET Seq(Seq(LineKinds))]
  /\ DataAnswers \subseteq Seq(Seq(LineKinds))
  /\ UrcLines \subseteq LineKinds
  /\ GarbageRes \subseteq ResKinds
  /\ Punctual \in BOOLEAN /\ MarkFirst \in BOOLEAN

VARIABLES
  owner,    \* who holds the core mutex
  mem,      \* espMsg_t: "unused", "live" or "freed"
  cmd,      \* msg->cmd
  blocking, \* msg->is_blocking
  res,      \* msg->res
  sem,      \* msg->sem has been given
  apc,      \* where each thread is in eESPsendReqToMbox
  amsg,     \* the message of that call
  reqBox,   \* mbox_cmd_req
  respBox,  \* mbox_cmd_resp, a sequence of chunks
  sync,     \* sem_th_sync: empty, or given (by the chunk of which message)
  gmsg,     \* espGlobal.msg
  qpc,      \* request thread: where it is
  qmsg,     \* request thread: its local msg
  qtmo,     \* request thread: SemWait returned espTIMEOUT
  ppc,      \* response thread: where it is
  chunk,    \* response thread: what remains of recv_buf
  pend,     \* response thread: isEndOfATresp
  stray,    \* the line buffer holds a "> " that was not consumed
  dev,      \* chunks the device has still to send
  urcs,     \* unasked lines sent so far (bound)
  plan,     \* history: the answer the device gives to each message
  out       \* history: the result each API call reported

callVars == <<mem, cmd, blocking, apc, amsg, reqBox>>
reqVars  == <<gmsg, qpc, qmsg, qtmo>>
respVars == <<ppc, chunk, pend, stray>>
devVars  == <<dev, urcs, plan, respBox>>
vars == <<owner, res, sem, sync, out, callVars, reqVars, respVars, devVars>>

-----------------------------------------------------------------------------
\* The owner field of a chunk or of sem_th_sync that belongs to no command.
Unasked == "unasked"
Empty   == "empty"
Owners  == Msgs \cup {Unasked}
Chunk(m, lines) == [own |-> m, lines |-> lines]
NoChunk == Chunk(Unasked, <<>>)
ChunkType == [own : Owners, lines : Seq(LineKinds)]

ASSUME OwnerAssumption == Msgs \cap {Unasked, Empty} = {}

\* eESPcoreLock: the mutex is recursive.
MayLock(t) == owner \in {Nobody, t}

\* eESPcoreLock by a thread that does not hold the mutex.
LockFreeMissing == TRUE
LockFree == owner = Nobody

\* espGlobal.locked_cnt as eESPsendReqToMbox reads it, having locked.
LockedCnt(t) == IF owner = t THEN 2 ELSE 1

\* A callback runs on the request thread in vESPapiRunEvtCallbacks or in
\* msg->api_cb, and on the response thread while it parses.
InCallback(t) == \/ t = Req  /\ qpc \in {"events", "apicb"}
                 \/ t = Resp /\ ppc = "parse"

\* Once the caller has stored espINPROG in message m.
Marked(m) == \A t \in ThreadIds : ~(apc[t] = "mark" /\ amsg[t] = m)

\* The mailbox put of the receive interrupt: a full mailbox loses the chunk.
IsrPutOffByOne(box, c) == IF Len(box) <= RespCap THEN Append(box, c) ELSE box
IsrPut(box, c) == IF Len(box) < RespCap THEN Append(box, c) ELSE box

Init ==
  /\ owner = Nobody
  /\ mem = [m \in Msgs |-> "unused"]
  /\ cmd = [m \in Msgs |-> CHOOSE k \in Cmds : TRUE]  \* no meaning until allocated
  /\ blocking = [m \in Msgs |-> FALSE]
  /\ res = [m \in Msgs |-> "junk"]
  /\ sem = [m \in Msgs |-> FALSE]
  /\ apc = [t \in ThreadIds |-> "idle"]
  /\ amsg = [t \in ThreadIds |-> NoMsg]
  /\ reqBox = <<>> /\ respBox = <<>> /\ sync = Empty
  /\ gmsg = NoMsg /\ qpc = "get" /\ qmsg = NoMsg /\ qtmo = FALSE
  /\ ppc = "get" /\ chunk = NoChunk /\ pend = FALSE /\ stray = FALSE
  /\ dev = <<>> /\ urcs = 0
  /\ plan = [m \in Msgs |-> <<>>]
  /\ out = [m \in Msgs |-> "none"]

-----------------------------------------------------------------------------
(* eESPsendReqToMbox, on an application thread or inside a callback.       *)

\* An API function allocates a message and calls eESPsendReqToMbox.
ApiCall(t, m, k, b) ==
  /\ t \in Tasks \/ InCallback(t)
  /\ apc[t] = "idle" /\ mem[m] = "unused"
  /\ mem' = [mem EXCEPT ![m] = "live"]
  /\ cmd' = [cmd EXCEPT ![m] = k]
  /\ blocking' = [blocking EXCEPT ![m] = b]
  /\ \E g \in GarbageRes : res' = [res EXCEPT ![m] = g]
  /\ apc' = [apc EXCEPT ![t] = "check"]
  /\ amsg' = [amsg EXCEPT ![t] = m]
  /\ UNCHANGED <<owner, sem, sync, out, reqBox, reqVars, respVars, devVars>>

\* The call is over: it frees its message if f, and reports r.
Leave(t, f, r) ==
  /\ mem' = IF f THEN [mem EXCEPT ![amsg[t]] = "freed"] ELSE mem
  /\ out' = IF r = "none" THEN out ELSE [out EXCEPT ![amsg[t]] = r]
  /\ apc' = [apc EXCEPT ![t] = "idle"]
  /\ amsg' = [amsg EXCEPT ![t] = NoMsg]

\* eESPsysMboxPut appends.
PutInFront(box, m) == <<m>> \o box
PutIn(box, m) == Append(box, m)

\* A blocking request is refused to a thread that already had the lock.
RefusedNever(t) == FALSE
Refused(t) == LockedCnt(t) > 1 /\ blocking[amsg[t]]

\* The critical section that checks the request.
ApiCheck(t) ==
  /\ apc[t] = "check" /\ MayLock(t)
  /\ \/ Refused(t) /\ Leave(t, TRUE, "errblocking")
     \/ /\ ~Refused(t)
        /\ apc' = [apc EXCEPT ![t] = "put"]
        /\ UNCHANGED <<mem, out, amsg>>
  /\ UNCHANGED <<owner, cmd, blocking, res, sem, sync, reqBox, reqVars, respVars,
                 devVars>>

\* xESPsysSemCreate (an empty semaphore) and a mailbox put that finds room.
ApiPut(t) ==
  /\ apc[t] = "put" /\ Len(reqBox) < ReqCap
  /\ reqBox' = PutIn(reqBox, amsg[t])
  /\ apc' = [apc EXCEPT ![t] = "mark"]
  /\ UNCHANGED <<owner, mem, cmd, blocking, res, sem, sync, out, amsg, reqVars,
                 respVars, devVars>>

\* block_time passes while the mailbox is full.
ApiPutFailsLeak(t) ==
  /\ apc[t] = "put" /\ Len(reqBox) = ReqCap
  /\ Leave(t, FALSE, "mboxfull")
  /\ UNCHANGED <<owner, cmd, blocking, res, sem, sync, reqBox, reqVars, respVars,
                 devVars>>
ApiPutFails(t) ==
  /\ apc[t] = "put" /\ Len(reqBox) = ReqCap
  /\ Leave(t, TRUE, "mboxfull")
  /\ UNCHANGED <<owner, cmd, blocking, res, sem, sync, reqBox, reqVars, respVars,
                 devVars>>

\* The return of a request nobody waits for; its message now belongs to the
\* request thread.
NonblockingReturnFrees(t) == Leave(t, TRUE, "none")
NonblockingReturn(t) == Leave(t, FALSE, "none")

\* msg->res = espINPROG, then msg->is_blocking is read.  Both touch a message
\* the request thread may have freed: then what is read is arbitrary, and
\* taken for "blocking" it leads to a semaphore that does not exist.
ApiMark(t) ==
  LET m == amsg[t]
      waits == IF mem[m] = "live" THEN {blocking[m]} ELSE BOOLEAN
  IN /\ apc[t] = "mark"
     /\ res' = [res EXCEPT ![m] = "inprog"]
     /\ \/ /\ TRUE \in waits
           /\ apc' = [apc EXCEPT ![t] = IF mem[m] = "live" THEN "wait" ELSE "wild"]
           /\ UNCHANGED <<mem, out, amsg>>
        \/ FALSE \in waits /\ NonblockingReturn(t)
     /\ UNCHANGED <<owner, cmd, blocking, sem, sync, reqBox, reqVars, respVars,
                    devVars>>

\* SemWait(msg->sem) returns; the result is read and the message freed.
ApiWake(t) ==
  /\ apc[t] = "wait" /\ sem[amsg[t]]
  /\ sem' = [sem EXCEPT ![amsg[t]] = FALSE]
  /\ Leave(t, TRUE, res[amsg[t]])
  /\ UNCHANGED <<owner, cmd, blocking, res, sync, reqBox, reqVars, respVars, devVars>>

ApiStep(t) == \/ ApiCheck(t) \/ ApiPut(t) \/ ApiPutFails(t)
              \/ ApiMark(t) \/ ApiWake(t)

-----------------------------------------------------------------------------
(* eESPthreadATreqIteration.                                               *)

\* The mailbox get, done without the lock.
ReqGet ==
  /\ qpc = "get" /\ reqBox # <<>>
  /\ qmsg' = Head(reqBox) /\ reqBox' = Tail(reqBox)
  /\ qpc' = "start"
  /\ UNCHANGED <<owner, mem, cmd, blocking, res, sem, sync, out, apc, amsg, gmsg,
                 qtmo, respVars, devVars>>

\* gbl->msg is set and msg->fn sends the command; the lock is released before
\* the wait.  A hardware reset sends nothing and keeps the lock through its
\* delays.
ReqStart ==
  /\ qpc = "start" /\ LockFree
  /\ gmsg' = qmsg
  /\ \/ /\ cmd[qmsg] = "RESET"
        /\ owner' = Req /\ qpc' = "reset"
        /\ UNCHANGED <<dev, plan>>
     \/ /\ cmd[qmsg] # "RESET"
        /\ \E a \in Answers[cmd[qmsg]] :
             /\ dev' = dev \o [i \in 1..Len(a) |-> Chunk(qmsg, a[i])]
             /\ plan' = [plan EXCEPT ![qmsg] = a]
        /\ qpc' = "wait"
        /\ UNCHANGED owner
  /\ UNCHANGED <<res, sem, sync, out, callVars, qmsg, qtmo, respVars, urcs, respBox>>

\* The reset is over: fn returns espOKNOCMDREQ, which it also stores, and the
\* device has forgotten what it was doing.
ReqResetDone ==
  /\ qpc = "reset" /\ (MarkFirst => Marked(qmsg))
  /\ res' = [res EXCEPT ![qmsg] = "oknocmd"]
  /\ dev' = <<>>
  /\ qpc' = "events"
  /\ UNCHANGED <<owner, sem, sync, out, callVars, gmsg, qmsg, qtmo, respVars, urcs,
                 plan, respBox>>

\* SemWait(sem_th_sync, block_time) returns espOK.
ReqWakeAtOnce ==
  /\ qpc = "wait"
  /\ sync' = Empty
  /\ qtmo' = FALSE /\ qpc' = "relock"
  /\ UNCHANGED <<owner, res, sem, out, callVars, gmsg, qmsg, respVars, devVars>>
ReqWake ==
  /\ qpc = "wait" /\ sync # Empty
  /\ sync' = Empty
  /\ qtmo' = FALSE /\ qpc' = "relock"
  /\ UNCHANGED <<owner, res, sem, out, callVars, gmsg, qmsg, respVars, devVars>>

\* Nothing of the answer to qmsg is still on its way.
NoAnswerUnderway ==
  /\ ppc = "get" /\ respBox = <<>>
  /\ \A i \in DOMAIN dev : dev[i].own # qmsg

\* SemWait returns espTIMEOUT.
ReqTimeoutNever == FALSE /\ UNCHANGED vars
ReqTimeout ==
  /\ qpc = "wait" /\ sync = Empty
  /\ Punctual => NoAnswerUnderway
  /\ MarkFirst => Marked(qmsg)
  /\ qtmo' = TRUE /\ qpc' = "relock"
  /\ UNCHANGED <<owner, res, sem, sync, out, callVars, gmsg, qmsg, respVars, devVars>>

\* The lock is taken again, a timeout is recorded, and the event callbacks
\* start (vESPapiRunEvtCallbacks).
ReqRelock ==
  /\ qpc = "relock" /\ LockFree
  /\ owner' = Req
  /\ res' = IF qtmo THEN [res EXCEPT ![qmsg] = "timeout"] ELSE res
  /\ qpc' = "events"
  /\ UNCHANGED <<sem, sync, out, callVars, gmsg, qmsg, qtmo, respVars, devVars>>

\* The request thread wakes the caller of m rather than calling back.
WakesCallerNever(m) == FALSE
WakesCallerInTime(m) == blocking[m] /\ ~qtmo
WakesCaller(m) == blocking[m]

\* The callbacks have returned: wake a blocking caller, or run msg->api_cb.
ReqFinish ==
  /\ qpc = "events" /\ apc[Req] = "idle"
  /\ IF WakesCaller(qmsg)
     THEN /\ sem' = [sem EXCEPT ![qmsg] = TRUE]
          /\ qpc' = "clear"
          /\ UNCHANGED out
     ELSE /\ out' = [out EXCEPT ![qmsg] = res[qmsg]]
          /\ qpc' = "apicb"
          /\ UNCHANGED sem
  /\ UNCHANGED <<owner, res, sync, callVars, gmsg, qmsg, qtmo, respVars, devVars>>

\* msg->api_cb has returned: vESPmsgDelete.
ReqDelete ==
  /\ qpc = "apicb" /\ apc[Req] = "idle"
  /\ mem' = [mem EXCEPT ![qmsg] = "freed"]
  /\ qpc' = "clear"
  /\ UNCHANGED <<owner, cmd, blocking, res, sem, sync, out, apc, amsg, reqBox, gmsg,
                 qmsg, qtmo, respVars, devVars>>

\* gbl->msg = NULL, and the loop releases the lock.
ReqClearKeepsMsg ==
  /\ qpc = "clear"
  /\ qmsg' = NoMsg /\ qtmo' = FALSE
  /\ owner' = Nobody
  /\ qpc' = "get"
  /\ UNCHANGED <<gmsg, res, sem, sync, out, callVars, respVars, devVars>>
ReqClear ==
  /\ qpc = "clear"
  /\ gmsg' = NoMsg /\ qmsg' = NoMsg /\ qtmo' = FALSE
  /\ owner' = Nobody
  /\ qpc' = "get"
  /\ UNCHANGED <<res, sem, sync, out, callVars, respVars, devVars>>

ReqStep == \/ ReqGet \/ ReqStart \/ ReqResetDone \/ ReqWake \/ ReqTimeout
           \/ ReqRelock \/ ReqFinish \/ ReqDelete \/ ReqClear

-----------------------------------------------------------------------------
(* eESPthreadATrespIteration and eESPprocessPieceRecvResp.                 *)

\* The mailbox get, done without the lock.
RespGet ==
  /\ ppc = "get" /\ respBox # <<>>
  /\ chunk' = Head(respBox) /\ respBox' = Tail(respBox)
  /\ ppc' = "start"
  /\ UNCHANGED <<owner, res, sem, sync, out, callVars, reqVars, pend, stray, dev,
                 urcs, plan>>

RespStart ==
  /\ ppc = "start" /\ LockFree
  /\ owner' = Resp
  /\ pend' = FALSE /\ ppc' = "parse"
  /\ UNCHANGED <<res, sem, sync, out, callVars, reqVars, chunk, stray, devVars>>

\* A line that completes a buffer in which a "> " was left is not recognised.
Seen(k) == IF stray THEN "text" ELSE k

\* One line: vESPparseRecvATrespLine, against whatever command is current.
RespParse ==
  /\ ppc = "parse" /\ apc[Resp] = "idle"
  /\ chunk.lines # <<>> /\ Head(chunk.lines) # "prompt"
  /\ chunk' = [chunk EXCEPT !.lines = Tail(@)]
  /\ stray' = FALSE
  /\ \/ gmsg = NoMsg /\ UNCHANGED <<res, pend>>
     \/ /\ gmsg # NoMsg
        /\ \E o \in ParseLine(cmd[gmsg], Seen(Head(chunk.lines)), res[gmsg], pend) :
             /\ res' = [res EXCEPT ![gmsg] = o.res]
             /\ pend' = o.end
  /\ UNCHANGED <<owner, sem, sync, out, callVars, reqVars, ppc, devVars>>

\* eESPcmdStartSendData sends the data only for a CIPSEND in progress.
SendsData == gmsg # NoMsg /\ cmd[gmsg] = "CIPSEND"

\* "> ": the data is sent and the rest of the chunk dropped; otherwise the two
\* characters stay in the line buffer.
RespPrompt ==
  /\ ppc = "parse" /\ apc[Resp] = "idle"
  /\ chunk.lines # <<>> /\ Head(chunk.lines) = "prompt"
  /\ \/ /\ SendsData
        /\ chunk' = [chunk EXCEPT !.lines = <<>>]
        /\ stray' = FALSE
        /\ \E a \in DataAnswers :
             /\ dev' = dev \o [i \in 1..Len(a) |-> Chunk(gmsg, a[i])]
             /\ plan' = [plan EXCEPT ![gmsg] = @ \o a]
     \/ /\ ~SendsData
        /\ chunk' = [chunk EXCEPT !.lines = Tail(@)]
        /\ stray' = TRUE
        /\ UNCHANGED <<dev, plan>>
  /\ UNCHANGED <<owner, res, sem, sync, out, callVars, reqVars, ppc, pend, urcs,
                 respBox>>

\* The chunk is used up: the buffer is freed and the lock released.
RespEnd ==
  /\ ppc = "parse" /\ apc[Resp] = "idle" /\ chunk.lines = <<>>
  /\ owner' = Nobody
  /\ ppc' = IF pend THEN "signal" ELSE "get"
  /\ chunk' = IF pend THEN chunk ELSE NoChunk
  /\ pend' = FALSE
  /\ UNCHANGED <<res, sem, sync, out, callVars, reqVars, stray, devVars>>

\* SemRelease(sem_th_sync); giving a semaphore already given changes nothing.
RespSignal ==
  /\ ppc = "signal"
  /\ sync' = IF sync = Empty THEN chunk.own ELSE sync
  /\ chunk' = NoChunk
  /\ ppc' = "yield"
  /\ UNCHANGED <<owner, res, sem, out, callVars, reqVars, pend, stray, devVars>>

\* The thread yields, and takes and releases the lock before the next get.
RespYield ==
  /\ ppc = "yield" /\ LockFree
  /\ ppc' = "get"
  /\ UNCHANGED <<owner, res, sem, sync, out, callVars, reqVars, chunk, pend, stray,
                 devVars>>

RespStep == \/ RespGet \/ RespStart \/ RespParse \/ RespPrompt \/ RespEnd
            \/ RespSignal \/ RespYield

-----------------------------------------------------------------------------
(* The ESP device and the receive interrupt (eESPappendRecvRespISR).       *)

\* The next chunk of an answer arrives.
DevAnswer ==
  /\ dev # <<>>
  /\ MarkFirst => Marked(Head(dev).own)
  /\ respBox' = IsrPut(respBox, Head(dev))
  /\ dev' = Tail(dev)
  /\ UNCHANGED <<owner, res, sem, sync, out, callVars, reqVars, respVars, urcs, plan>>

\* The device says something nobody asked for.
DevUnasked ==
  /\ urcs < MaxUrc
  /\ urcs' = urcs + 1
  /\ \E k \in UrcLines : respBox' = IsrPut(respBox, Chunk(Unasked, <<k>>))
  /\ UNCHANGED <<owner, res, sem, sync, out, callVars, reqVars, respVars, dev, plan>>

-----------------------------------------------------------------------------
\* There is nothing left to do and no message, or no application thread, left
\* to do it with: the bounds, not the program, stop the model here.
Finished ==
  /\ \/ \A m \in Msgs : mem[m] # "unused"
     \/ \A t \in Tasks : apc[t] = "wild"
  /\ \A t \in ThreadIds : apc[t] \in {"idle", "wild"}
  /\ qpc = "get" /\ reqBox = <<>> /\ ppc = "get" /\ respBox = <<>>
  /\ dev = <<>> /\ urcs = MaxUrc
  /\ UNCHANGED vars

Next == \/ \E t \in ThreadIds, m \in Msgs, k \in Cmds, b \in BOOLEAN :
             ApiCall(t, m, k, b)
        \/ \E t \in ThreadIds : ApiStep(t)
        \/ ReqStep \/ RespStep \/ DevAnswer \/ DevUnasked \/ Finished

Spec == Init /\ [][Next]_vars

\* The scheduler runs every thread that can run, a mutex goes to its waiters,
\* and every wait with a time limit ends.  Nothing is assumed of the device.
Fairness ==
  /\ \A t \in ThreadIds : WF_vars(ApiStep(t))
  /\ WF_vars(ReqStep)
  /\ WF_vars(RespStep)

FairSpec == Spec /\ Fairness

-----------------------------------------------------------------------------
(* Properties                                                              *)

\* The messages, the calls in progress and the request mailbox.
CallTypes ==
  /\ owner \in ThreadIds \cup {Nobody}
  /\ mem \in [Msgs -> {"unused", "live", "freed"}]
  /\ cmd \in [Msgs -> Cmds]
  /\ blocking \in [Msgs -> BOOLEAN]
  /\ res \in [Msgs -> ResKinds]
  /\ sem \in [Msgs -> BOOLEAN]
  /\ out \in [Msgs -> ResKinds \cup {"none"}]
  /\ apc \in [ThreadIds -> {"idle", "check", "put", "mark", "wait", "wild"}]
  /\ amsg \in [ThreadIds -> Msgs \cup {NoMsg}]
  /\ reqBox \in Seq(Msgs) /\ Len(reqBox) <= ReqCap

\* The request thread.
ReqTypes ==
  /\ sync \in Owners \cup {Empty}
  /\ gmsg \in Msgs \cup {NoMsg} /\ qmsg \in Msgs \cup {NoMsg}
  /\ qpc \in {"get", "start", "reset", "wait", "relock", "events", "apicb", "clear"}
  /\ qtmo \in BOOLEAN

\* The response thread.
RespTypes ==
  /\ ppc \in {"get", "start", "parse", "signal", "yield"}
  /\ chunk \in ChunkType
  /\ pend \in BOOLEAN /\ stray \in BOOLEAN

\* The device and the response mailbox.
DevTypes ==
  /\ dev \in Seq(ChunkType)
  /\ respBox \in Seq(ChunkType) /\ Len(respBox) <= RespCap
  /\ urcs \in 0..MaxUrc
  /\ plan \in [Msgs -> Seq(Seq(LineKinds))]

\* Every variable has its type and no mailbox exceeds its slots.
TypeOK == CallTypes /\ ReqTypes /\ RespTypes /\ DevTypes

\* The response thread never parses a line into a message that has been freed
\* or that the request thread has finished with: espGlobal.msg is cleared
\* only after the message was given back (esp_thread.c:40-50), and it is the
\* core lock that hides the interval.
ParserLive ==
  ppc = "parse" /\ gmsg # NoMsg =>
    mem[gmsg] = "live" /\ gmsg = qmsg /\ qpc \in {"wait", "relock"}

\* A queued request is alive, queued once, and not the one being served: no
\* error path of eESPsendReqToMbox frees a message it has handed over.
MailboxLive ==
  \A i \in DOMAIN reqBox :
    /\ mem[reqBox[i]] = "live" /\ reqBox[i] # qmsg
    /\ \A j \in DOMAIN reqBox : reqBox[i] = reqBox[j] => i = j

\* A thread that holds the core lock never waits for the answer to a request
\* of its own, which nobody could serve (esp.c:231).
NoSelfBlock == owner # Nobody => apc[owner] # "wait"

\* A blocked caller's message stays allocated until the caller has read its
\* result: neither thread frees what it does not own.
CallerLive == \A t \in ThreadIds : apc[t] \in {"check", "put", "wait"} =>
                                    mem[amsg[t]] = "live"

\* Once its caller has been released, the result of a blocking request does not
\* change under the caller's eyes, except by the caller's own late store of
\* espINPROG: late lines cannot reach it, because the core lock is held until
\* espGlobal.msg is cleared (esp_thread.c:31-50).
ResultFrozen ==
  [][\A m \in Msgs : sem[m] /\ res'[m] # res[m] => ~Marked(m)]_vars

\* sem_th_sync is only ever given to the command the request thread waits
\* for, by the answer to that command (esp_thread.c:20-29).
FreshToken == sync # Empty => qpc = "wait" /\ sync = qmsg

\* An answer is parsed against the command it answers.
OwnAnswer == ppc = "parse" /\ chunk.own \in Msgs => gmsg = chunk.own

\* The last line of the answer the device gives to m is k.
Said(m, k) == LET a == plan[m] IN
  a # <<>> /\ a[Len(a)] # <<>> /\ a[Len(a)][Len(a[Len(a)])] = k

\* Result r of request m is what the device said: OK only for an OK, ERROR only
\* for an ERROR, a timeout only when the device said neither, and never a value
\* the library uses internally.
Truthful(m, r) ==
  /\ r \in {"ok", "okmore"} => Said(m, "ok")
  /\ r \in {"err", "errspec"} => Said(m, "err")
  /\ r = "timeout" => ~Said(m, "ok") /\ ~Said(m, "err")
  /\ r \notin {"inprog", "junk", "skip"}

\* A line nobody asked for is taken for an AP by a list command, even after the
\* OK or ERROR that ended the list.
Clean(m) == cmd[m] = "CWLAP" => urcs = 0

\* What a request reports is what the device said (esp_thread.c:20-50).
TruthfulResult == \A m \in Msgs : Clean(m) => Truthful(m, out[m])

\* A send that reports OK is one the device has confirmed with SEND OK
\* (esp_private.h:420-423).
SendConfirmed ==
  \A m \in Msgs : cmd[m] = "CIPSEND" /\ out[m] = "ok" => Said(m, "sendok")

\* Every API call returns, whatever the device does: a blocked caller is woken
\* and a full mailbox or a held lock is not waited for for ever.  A caller that
\* has read freed memory is the one exception.
CallReturns ==
  \A t \in ThreadIds : apc[t] # "idle" ~> apc[t] \in {"idle", "wild"}

\* Every message is freed in the end: nothing leaks and no request is lost.
AllFreed == \A m \in Msgs : mem[m] = "live" ~> mem[m] = "freed"

-----------------------------------------------------------------------------
(* The inductive invariant behind ParserLive, MailboxLive, NoSelfBlock and *)
(* CallerLive.                                                             *)

\* A thread is in a call exactly when the call has a message, the request
\* thread serves a message exactly when it is past its mailbox get, and
\* espGlobal.msg is that message once the command has been started.
Pairing ==
  /\ \A t \in ThreadIds : apc[t] = "idle" <=> amsg[t] = NoMsg
  /\ qpc = "get" <=> qmsg = NoMsg
  /\ gmsg = IF qpc \in {"get", "start"} THEN NoMsg ELSE qmsg

\* The core lock is held by the request thread while it resets the device or
\* finishes a request, by the response thread while it parses, and by no
\* application thread between two steps; a callback only runs under it.
LockInv ==
  /\ owner = Req  <=> qpc \in {"reset", "events", "apicb", "clear"}
  /\ owner = Resp <=> ppc = "parse"
  /\ owner \in {Nobody, Req, Resp}
  /\ apc[Req]  # "idle" => InCallback(Req)
  /\ apc[Resp] # "idle" => InCallback(Resp)

\* Two calls never share a message, and a call made in a callback does not
\* block.
CallInv ==
  /\ \A t, u \in ThreadIds : amsg[t] = amsg[u] /\ amsg[t] # NoMsg => t = u
  /\ \A t \in {Req, Resp} : /\ apc[t] # "wait"
                            /\ apc[t] \in {"put", "mark"} => ~blocking[amsg[t]]

\* Message m is not in the request mailbox.
NotQueued(m) == \A i \in DOMAIN reqBox : reqBox[i] # m

\* A message that was never allocated is nowhere.
UnusedInv ==
  \A m \in Msgs : mem[m] = "unused" =>
    ~sem[m] /\ m # qmsg /\ NotQueued(m) /\ \A t \in ThreadIds : amsg[t] # m

\* Before it is handed over a message is its caller's alone.
CallerInv ==
  \A t \in ThreadIds : apc[t] \in {"check", "put"} =>
    /\ mem[amsg[t]] = "live" /\ ~sem[amsg[t]]
    /\ amsg[t] # qmsg /\ NotQueued(amsg[t])

\* To the end, a message is kept alive by a caller that blocks on it.
WaiterInv ==
  \A t \in ThreadIds :
    /\ apc[t] = "wait" => blocking[amsg[t]]
    /\ apc[t] \in {"mark", "wait"} /\ blocking[amsg[t]] => mem[amsg[t]] = "live"

\* Up to its completion, it is kept alive by the request thread.
ServedInv ==
  /\ qpc \in {"start", "reset", "wait", "relock", "events", "apicb"} =>
       mem[qmsg] = "live"
  /\ qpc = "apicb" => ~blocking[qmsg]

\* Only a completed blocking request has its semaphore given.
SignalledInv ==
  \A m \in Msgs : sem[m] =>
    /\ blocking[m] /\ NotQueued(m)
    /\ m = qmsg => qpc = "clear"

\* Who may still use a message is what keeps it alive.
MemInv ==
  UnusedInv /\ CallerInv /\ WaiterInv /\ ServedInv /\ SignalledInv /\ MailboxLive

IInv == TypeOK /\ Pairing /\ LockInv /\ CallInv /\ MemInv
=============================================================================
