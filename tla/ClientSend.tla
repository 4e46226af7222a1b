----------------------------- MODULE ClientSend -----------------------------
(***************************************************************************)
(* eESPconnClientSend (esp_conn.c): data is sent in pieces, one AT+CIPSEND *)
(* each.  Several threads send on one connection, the mailbox of requests  *)
(* may be full, a command may be refused or time out, and the connection   *)
(* may close and open again between two pieces.                            *)
(*                                                                         *)
(* The data of a sender is a stream of numbered bytes: a call sends the    *)
(* next bytes of the stream.  The request thread is that of ATCore, as far *)
(* as AT+CIPSEND goes; answers are not late (Punctual in ATCore).          *)
(***************************************************************************)
EXTENDS Integers, Sequences

CONSTANTS
  Senders,   (* threads that send on the connection                         *)
  Sizes,     (* sizes of data in a call                                     *)
  MaxPiece,  (* ESP_CFG_MAX_BYTES_PER_CIPSEND                               *)
  ReqCap,    (* slots of mbox_cmd_req                                       *)
  Modes,     (* values of the argument blocking                             *)
  MaxBytes,  (* bytes of each sender's stream (bound)                       *)
  Paced      (* ESP_CFG_SEND_PKT_INTERVAL_MS is enough for the device       *)

ASSUME SendAssumption ==
  /\ Sizes \subseteq Nat \ {0} /\ MaxPiece \in Nat \ {0}
  /\ ReqCap \in Nat \ {0} /\ MaxBytes \in Nat
  /\ Modes \subseteq BOOLEAN /\ Paced \in BOOLEAN

VARIABLES
  pc,      \* each sender: "idle", "loop", or "wait" for its piece
  next,    \* curr_data_p, as a position in the stream
  left,    \* d_size
  blocking,\* the argument
  response,\* of eESPconnClientSend
  box,     \* mbox_cmd_req
  cur,     \* espGlobal.msg: NoPiece or the piece being sent
  res,     \* its msg->res
  sync,    \* sem_th_sync
  job,     \* the device: the command it has, and how far it is with it
  open,    \* the device: the connection is open
  active,  \* conn->status.flg.active
  peer,    \* what the other end has received, piece by piece
  given,   \* history: bytes of each sender handed to the device
  begin,   \* history: where the call's data begins
  lost,    \* history: a piece of the call timed out or was not queued
  barred   \* history: bytes behind a piece of a blocking call that was refused

senderVars == <<pc, next, left, blocking, response, begin>>
devVars    == <<job, open, peer, given>>
reqVars    == <<cur, res, sync>>
history    == <<lost, barred>>
vars == <<senderVars, devVars, reqVars, history, box, active>>

-----------------------------------------------------------------------------
Positions == 0..MaxBytes
Piece(s, from, len, b) == [by |-> s, from |-> from, len |-> len, blocking |-> b]
Pieces == [by : Senders, from : Nat, len : Nat \ {0}, blocking : BOOLEAN]
NoPiece == [len |-> 0]
Job(stage, p) == [stage |-> stage, piece |-> p]
NoJob == Job("none", NoPiece)
End(p) == p.from + p.len
Bytes(p) == p.from..(End(p) - 1)

Init ==
  /\ pc = [s \in Senders |-> "idle"]
  /\ next = [s \in Senders |-> 0] /\ left = [s \in Senders |-> 0]
  /\ blocking = [s \in Senders |-> FALSE] /\ response = [s \in Senders |-> "none"]
  /\ box = <<>> /\ cur = NoPiece /\ res = "inprog" /\ sync = FALSE
  /\ job = NoJob /\ open = TRUE /\ active = TRUE /\ peer = <<>>
  /\ given = [s \in Senders |-> {}] /\ begin = [s \in Senders |-> 0]
  /\ lost = [s \in Senders |-> FALSE] /\ barred = [s \in Senders |-> {}]

-----------------------------------------------------------------------------
(* The sender: eESPconnClientSend and eESPconnClientSendLimit.             *)

Leave(s, r) ==
  /\ pc' = [pc EXCEPT ![s] = "idle"]
  /\ response' = [response EXCEPT ![s] = r]

\* The only test of the connection is at the start of the call.
SendCall(s, d, b) ==
  /\ pc[s] = "idle" /\ next[s] + d <= MaxBytes
  /\ begin' = [begin EXCEPT ![s] = next[s]]
  /\ blocking' = [blocking EXCEPT ![s] = b]
  /\ lost' = [lost EXCEPT ![s] = FALSE]
  /\ IF active
       THEN /\ pc' = [pc EXCEPT ![s] = "loop"]
            /\ left' = [left EXCEPT ![s] = d]
            /\ response' = [response EXCEPT ![s] = "ok"]
       ELSE Leave(s, "noconn") /\ UNCHANGED left
  /\ UNCHANGED <<next, box, reqVars, devVars, active, barred>>

\* curr_d_size
PieceSize(s) == IF left[s] < MaxPiece THEN left[s] ELSE MaxPiece

\* The end of an iteration: the piece is behind, sent or not.
AdvanceStays(s) == left' = [left EXCEPT ![s] = @ - PieceSize(s)] /\ UNCHANGED next
AdvanceNothing(s) == UNCHANGED <<next, left>>
Advance(s) ==
  /\ next' = [next EXCEPT ![s] = @ + PieceSize(s)]
  /\ left' = [left EXCEPT ![s] = @ - PieceSize(s)]

RoomOffByOne == Len(box) <= ReqCap
Room == Len(box) < ReqCap

\* eESPsendReqToMbox: a blocking piece is waited for.
PutPiece(s) ==
  /\ pc[s] = "loop" /\ left[s] > 0 /\ Room
  /\ box' = Append(box, Piece(s, next[s], PieceSize(s), blocking[s]))
  /\ IF blocking[s]
       THEN pc' = [pc EXCEPT ![s] = "wait"] /\ UNCHANGED <<next, left, response>>
       ELSE Advance(s) /\ response' = [response EXCEPT ![s] = "ok"] /\ UNCHANGED pc
  /\ UNCHANGED <<blocking, begin, reqVars, devVars, active, history>>

\* The mailbox has stayed full: espERRMEM, which does not end the loop.
PutFails(s) ==
  /\ pc[s] = "loop" /\ left[s] > 0 /\ ~Room
  /\ Advance(s) /\ response' = [response EXCEPT ![s] = "nomem"]
  /\ lost' = [lost EXCEPT ![s] = TRUE]
  /\ UNCHANGED <<pc, blocking, begin, box, reqVars, devVars, active, barred>>

SendReturn(s) ==
  /\ pc[s] = "loop" /\ left[s] = 0
  /\ Leave(s, response[s])
  /\ UNCHANGED <<next, left, blocking, begin, box, reqVars, devVars, active, history>>

\* A blocking piece has been answered with r: only espERR ends the loop.
ReturnedNoBreak(s, r) ==
  /\ pc' = [pc EXCEPT ![s] = "loop"] /\ response' = [response EXCEPT ![s] = r]
  /\ Advance(s)
ReturnedEarlier(s, r) ==
  /\ IF r = "err"
       THEN Leave(s, response[s])
       ELSE pc' = [pc EXCEPT ![s] = "loop"] /\ response' = [response EXCEPT ![s] = r]
  /\ IF r = "err"
       THEN /\ next' = [next EXCEPT ![s] = @ + left[s]]
            /\ left' = [left EXCEPT ![s] = 0]
       ELSE Advance(s)
Returned(s, r) ==
  IF r = "err"
    THEN /\ Leave(s, r)
         /\ next' = [next EXCEPT ![s] = @ + left[s]]
         /\ left' = [left EXCEPT ![s] = 0]
    ELSE /\ pc' = [pc EXCEPT ![s] = "loop"]
         /\ response' = [response EXCEPT ![s] = r]
         /\ Advance(s)

-----------------------------------------------------------------------------
(* The request thread.                                                     *)

\* The next command goes to the device, which ignores it when it is busy.
ReqTake ==
  /\ cur = NoPiece /\ box # <<>>
  /\ Paced => job = NoJob
  /\ cur' = Head(box) /\ box' = Tail(box) /\ res' = "inprog"
  /\ job' = IF job = NoJob THEN Job("told", Head(box)) ELSE job
  /\ UNCHANGED <<senderVars, sync, open, peer, given, active, history>>

\* The request is complete, with result r.
Complete(r) ==
  LET s == cur.by IN
  /\ cur' = NoPiece
  /\ IF cur.blocking
       THEN /\ Returned(s, r)
            /\ lost' = [lost EXCEPT ![s] = @ \/ r = "timeout"]
            /\ barred' = IF r = "err"
                 THEN [barred EXCEPT ![s] = @ \cup (End(cur)..(next[s] + left[s] - 1))]
                 ELSE barred
       ELSE UNCHANGED <<pc, next, left, response, history>>
  /\ UNCHANGED <<blocking, begin, box, devVars, active>>

ReqWake ==
  /\ cur # NoPiece /\ sync
  /\ Complete(res) /\ sync' = FALSE /\ UNCHANGED res

ReqTimeout ==
  /\ cur # NoPiece /\ ~sync
  /\ Complete("timeout") /\ res' = "timeout" /\ UNCHANGED sync

-----------------------------------------------------------------------------
(* The device and the response thread: a line is parsed when it is sent.   *)

\* The prompt: eESPcmdStartSendData sends the data of the current command, if
\* there is one.
Data ==
  IF cur = NoPiece
    THEN job' = NoJob /\ UNCHANGED given
    ELSE /\ job' = Job("data", cur)
         /\ given' = [given EXCEPT ![cur.by] = @ \cup Bytes(cur)]

\* A line that ends the response of the current command, if there is one.
Ends(r) ==
  IF cur = NoPiece THEN UNCHANGED <<res, sync>> ELSE res' = r /\ sync' = TRUE

\* The device takes the command: OK and prompt in one chunk (ATCore's run
\* "send" has them in two).
DevAccept ==
  /\ job.stage = "told" /\ job.piece = cur /\ open
  /\ Ends("ok") /\ Data
  /\ UNCHANGED <<senderVars, cur, box, open, peer, active, history>>

\* ERROR: there is no such connection, or the command is not liked.
DevRefuse ==
  /\ job.stage = "told" /\ job.piece = cur
  /\ Ends("err") /\ job' = NoJob
  /\ UNCHANGED <<senderVars, cur, box, open, peer, given, active, history>>

\* The command, or its answer, was lost.
DevForgets ==
  /\ job.stage = "told" /\ job.piece # cur
  /\ job' = NoJob
  /\ UNCHANGED <<senderVars, reqVars, box, open, peer, given, active, history>>

\* SEND OK or SEND FAIL.
DevDeliver ==
  /\ job.stage = "data" /\ job' = NoJob
  /\ \/ open /\ peer' = Append(peer, job.piece) /\ Ends("ok")
     \/ UNCHANGED peer /\ Ends("err")
  /\ UNCHANGED <<senderVars, cur, box, open, given, active, history>>

\* The connection closes, or is open again; the table follows.
DevLink ==
  /\ open' = ~open
  /\ UNCHANGED <<senderVars, reqVars, box, job, peer, given, active, history>>

RespLink ==
  /\ active # open /\ active' = open
  /\ UNCHANGED <<senderVars, reqVars, box, devVars, history>>

-----------------------------------------------------------------------------
SenderStep(s) == PutPiece(s) \/ PutFails(s) \/ SendReturn(s)
ReqStep == ReqTake \/ ReqWake \/ ReqTimeout
DevStep == DevAccept \/ DevRefuse \/ DevForgets \/ DevDeliver

Next ==
  \/ \E s \in Senders, d \in Sizes, b \in Modes : SendCall(s, d, b)
  \/ \E s \in Senders : PutPiece(s)
  \/ \E s \in Senders : PutFails(s)
  \/ \E s \in Senders : SendReturn(s)
  \/ ReqTake \/ ReqWake \/ ReqTimeout
  \/ DevAccept \/ DevRefuse \/ DevForgets \/ DevDeliver
  \/ DevLink \/ RespLink

Spec == Init /\ [][Next]_vars

\* Threads run, and the device is done with a command within the interval.
FairSpec == /\ Spec /\ WF_vars(ReqStep) /\ WF_vars(DevStep)
            /\ \A s \in Senders : WF_vars(SenderStep(s))

-----------------------------------------------------------------------------
(* Properties.                                                             *)

\* Types; the mailbox never holds more than it can.
TypeOK ==
  /\ pc \in [Senders -> {"idle", "loop", "wait"}]
  /\ next \in [Senders -> Nat] /\ left \in [Senders -> Nat]
  /\ blocking \in [Senders -> BOOLEAN] /\ begin \in [Senders -> Nat]
  /\ response \in [Senders -> {"none", "ok", "err", "timeout", "nomem", "noconn"}]
  /\ box \in Seq(Pieces) /\ Len(box) <= ReqCap
  /\ cur \in Pieces \cup {NoPiece}
  /\ res \in {"inprog", "ok", "err", "timeout"} /\ sync \in BOOLEAN
  /\ job.stage \in {"none", "told", "data"}
  /\ job.stage # "none" => job.piece \in Pieces
  /\ open \in BOOLEAN /\ active \in BOOLEAN /\ peer \in Seq(Pieces)
  /\ given \in [Senders -> SUBSET Nat] /\ barred \in [Senders -> SUBSET Int]
  /\ lost \in [Senders -> BOOLEAN]

\* The other end gets the bytes of each sender in the order of its stream and
\* none of them twice, whatever is refused, times out or is not queued, and
\* however the pieces of several senders mix (the loop of eESPconnClientSend).
Before(p, q) == p.by = q.by => End(p) <= q.from
InOrder == \A j \in DOMAIN peer : \A i \in 1..(j - 1) : Before(peer[i], peer[j])

\* A blocking call that reports espOK has handed all its data to the device,
\* unless a piece of it timed out or found the mailbox full: those do not end
\* the loop, and the result is that of the last piece.
OkHanded ==
  \A s \in Senders :
    pc[s] = "idle" /\ blocking[s] /\ response[s] = "ok" /\ ~lost[s]
      => begin[s]..(next[s] - 1) \subseteq given[s]

\* Nothing behind a piece that was refused is sent: a blocking call stops, so
\* that the other end never sees a gap without the caller being told.
StopsAtError == \A s \in Senders : given[s] \cap barred[s] = {}

\* Every call ends, though its pieces may fail in every way.
SendEnds == \A s \in Senders : pc[s] # "idle" ~> pc[s] = "idle"

-----------------------------------------------------------------------------
(* What makes InOrder inductive.                                           *)

\* Pieces that are on their way, or have arrived.
Held ==
  {box[i] : i \in DOMAIN box} \cup {peer[i] : i \in DOMAIN peer}
  \cup ({cur} \ {NoPiece}) \cup (IF job.stage = "none" THEN {} ELSE {job.piece})

\* How far the data of s has been put into pieces.
Reach(s) == IF pc[s] = "wait" THEN next[s] + PieceSize(s) ELSE next[s]
Bounded == \A p \in Held : End(p) <= Reach(p.by)

\* Pieces go from the mailbox to the request thread, the device, and the peer;
\* what is ahead on that way is before what is behind.
Ordered ==
  /\ InOrder
  /\ \A j \in DOMAIN box : \A i \in 1..(j - 1) : Before(box[i], box[j])
  /\ \A j \in DOMAIN box :
       /\ cur # NoPiece => Before(cur, box[j])
       /\ job.stage # "none" => Before(job.piece, box[j])
       /\ \A i \in DOMAIN peer : Before(peer[i], box[j])
  /\ cur # NoPiece =>
       /\ job.stage # "none" => job.piece = cur \/ Before(job.piece, cur)
       /\ \A i \in DOMAIN peer : peer[i] = cur \/ Before(peer[i], cur)
  /\ job.stage # "none" => \A i \in DOMAIN peer : Before(peer[i], job.piece)

\* The semaphore is given for a request that has been answered.
Answered == sync => cur # NoPiece /\ res \in {"ok", "err"}

IInv == TypeOK /\ Answered /\ Bounded /\ Ordered

-----------------------------------------------------------------------------
(* What makes StopsAtError and OkHanded inductive.                         *)

\* Pieces the device has not been told of, and the one being sent.
Queued == {box[i] : i \in DOMAIN box} \cup ({cur} \ {NoPiece})

\* A blocking piece is the next of a sender that waits for it.
Awaited ==
  \A p \in Queued :
    p.blocking => pc[p.by] = "wait" /\ p.from = next[p.by] /\ p.len = PieceSize(p.by)

\* What was refused stays behind: neither given nor queued.
Behind ==
  /\ \A s \in Senders : \A x \in given[s] : x < Reach(s)
  /\ \A s \in Senders : \A x \in barred[s] : x < next[s]
  /\ \A p \in Queued : Bytes(p) \cap barred[p.by] = {}
  /\ StopsAtError

\* A request is answered with OK once its bytes are handed over, when the device
\* is not still busy with an earlier one.
Handed ==
  /\ sync /\ res = "ok" => Bytes(cur) \subseteq given[cur.by]
  /\ cur # NoPiece /\ job.stage = "data" =>
       job.piece = cur /\ Bytes(cur) \subseteq given[cur.by]
  /\ \A s \in Senders :
       blocking[s] /\ ~lost[s] /\ (pc[s] # "idle" \/ response[s] = "ok")
         => begin[s]..(next[s] - 1) \subseteq given[s]

ErrInv == IInv /\ Awaited /\ Behind
OkInv == ErrInv /\ Handed
=============================================================================
