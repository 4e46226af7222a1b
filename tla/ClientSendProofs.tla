-------------------------- MODULE ClientSendProofs --------------------------
(***************************************************************************)
(* Proofs about sending in pieces, for any number of senders, sizes of     *)
(* data and pieces, slots of the mailbox, and any device: a sender's       *)
(* stream reaches the other end in order and no byte of it twice; nothing  *)
(* behind a refused piece is sent; and espOK means that all the data has   *)
(* been handed to the device.                                              *)
(***************************************************************************)
EXTENDS ClientSend, TLAPS

USE SendAssumption

\* What a put adds to the mailbox, and a delivery to the peer.
LEMMA AppendPiece ==
  ASSUME NEW b \in Seq(Pieces), NEW p \in Pieces
  PROVE  /\ Append(b, p) \in Seq(Pieces) /\ Len(Append(b, p)) = Len(b) + 1
         /\ DOMAIN Append(b, p) = DOMAIN b \cup {Len(b) + 1}
         /\ DOMAIN b = 1..Len(b)
         /\ \A i \in DOMAIN b : Append(b, p)[i] = b[i]
         /\ Append(b, p)[Len(b) + 1] = p
OBVIOUS

LEMMA AppendedAt ==
  ASSUME NEW b \in Seq(Pieces), NEW p \in Pieces, NEW c, c = Append(b, p)
  PROVE  \A i \in DOMAIN c : \/ i \in DOMAIN b /\ i < Len(b) + 1 /\ c[i] = b[i]
                             \/ i = Len(b) + 1 /\ c[i] = p
<1> SUFFICES ASSUME NEW i \in DOMAIN Append(b, p)
             PROVE  \/ i \in DOMAIN b /\ i < Len(b) + 1 /\ Append(b, p)[i] = b[i]
                    \/ i = Len(b) + 1 /\ Append(b, p)[i] = p
  OBVIOUS
<1>1. i \in DOMAIN b \/ i = Len(b) + 1
  BY AppendPiece
<1>2. CASE i \in DOMAIN b
  <2>1. Append(b, p)[i] = b[i]
    BY <1>2, AppendPiece
  <2>2. i < Len(b) + 1
    BY <1>2
  <2>3. QED
    BY <1>2, <2>1, <2>2
<1>3. CASE i = Len(b) + 1
  BY <1>3, AppendPiece
<1>4. QED
  BY <1>1, <1>2, <1>3

\* What a get takes from it.
LEMMA TakePiece ==
  ASSUME NEW b \in Seq(Pieces), b # <<>>
  PROVE  /\ Head(b) \in Pieces /\ Tail(b) \in Seq(Pieces) /\ Len(Tail(b)) = Len(b) - 1
         /\ 1 \in DOMAIN b /\ Head(b) = b[1]
         /\ \A i \in DOMAIN Tail(b) : i + 1 \in DOMAIN b /\ Tail(b)[i] = b[i + 1] /\ 1 < i + 1
OBVIOUS

\* A piece of a sender that has data left.
LEMMA NewPiece ==
  ASSUME TypeOK, NEW s \in Senders, left[s] > 0
  PROVE  /\ PieceSize(s) \in Nat \ {0} /\ PieceSize(s) <= left[s]
         /\ Piece(s, next[s], PieceSize(s), blocking[s]) \in Pieces
  BY DEF TypeOK, PieceSize, Piece, Pieces

LEMMA PieceSizeType ==
  ASSUME TypeOK, NEW s \in Senders
  PROVE  PieceSize(s) \in Nat /\ PieceSize(s) <= left[s] /\ left[s] \in Nat /\ next[s] \in Nat
  BY DEF TypeOK, PieceSize

\* NoPiece is none.
LEMMA NoPieceIsNone == NoPiece \notin Pieces
  BY DEF NoPiece, Pieces

\* One entry of a function changes.
LEMMA ExceptType ==
  ASSUME NEW S, NEW T, NEW f \in [S -> T], NEW x \in S, NEW v \in T
  PROVE  [f EXCEPT ![x] = v] \in [S -> T]
OBVIOUS

-----------------------------------------------------------------------------
(* Types.                                                                  *)

LEMMA InitType == Init => TypeOK /\ Answered
<1>1. SUFFICES ASSUME Init PROVE TypeOK /\ Answered
  OBVIOUS
<1>2. job.stage = "none" /\ box \in Seq(Pieces) /\ Len(box) <= ReqCap /\ peer \in Seq(Pieces)
  BY <1>1 DEF Init, NoJob, Job
<1>3. given \in [Senders -> SUBSET Nat] /\ barred \in [Senders -> SUBSET Int]
  BY <1>1 DEF Init
<1>4. lost \in [Senders -> BOOLEAN] /\ blocking \in [Senders -> BOOLEAN]
  BY <1>1, Zenon DEF Init
<1>5. QED
  BY <1>1, <1>2, <1>3, <1>4 DEF Init, TypeOK, Answered

\* The end of an iteration.
LEMMA AdvanceType ==
  ASSUME TypeOK, NEW s \in Senders, Advance(s)
  PROVE  next' \in [Senders -> Nat] /\ left' \in [Senders -> Nat]
<1>1. next[s] + PieceSize(s) \in Nat /\ left[s] - PieceSize(s) \in Nat
  BY PieceSizeType
<1>2. QED
  BY <1>1 DEF Advance, TypeOK

LEMMA SenderType ==
  ASSUME TypeOK, NEW s \in Senders, PutPiece(s) \/ PutFails(s) \/ SendReturn(s)
  PROVE  TypeOK'
<1>1. CASE PutPiece(s)
  <2>1. /\ PieceSize(s) \in Nat \ {0} /\ PieceSize(s) <= left[s]
        /\ Piece(s, next[s], PieceSize(s), blocking[s]) \in Pieces
    BY <1>1, NewPiece DEF PutPiece
  <2>2. box' \in Seq(Pieces) /\ Len(box') <= ReqCap'
    BY <1>1, <2>1, AppendPiece DEF PutPiece, TypeOK, Room
  <2>3. /\ pc' \in [Senders -> {"idle", "loop", "wait"}]
        /\ next' \in [Senders -> Nat] /\ left' \in [Senders -> Nat]
        /\ response' \in [Senders -> {"none", "ok", "err", "timeout", "nomem", "noconn"}]
    <3>1. CASE blocking[s]
      BY <1>1, <3>1 DEF PutPiece, TypeOK
    <3>2. CASE ~blocking[s]
      <4>1. next' \in [Senders -> Nat] /\ left' \in [Senders -> Nat]
        BY <1>1, <3>2, AdvanceType DEF PutPiece
      <4>2. QED
        BY <1>1, <3>2, <4>1 DEF PutPiece, TypeOK
    <3>3. QED
      BY <3>1, <3>2
  <2>4. QED
    BY <1>1, <2>2, <2>3 DEF PutPiece, TypeOK, reqVars, devVars, history
<1>2. CASE PutFails(s)
  BY <1>2, PieceSizeType DEF PutFails, Advance, TypeOK, reqVars, devVars, history
<1>3. CASE SendReturn(s)
  BY <1>3 DEF SendReturn, Leave, TypeOK, reqVars, devVars, history
<1>4. QED
  BY <1>1, <1>2, <1>3

LEMMA CallType ==
  ASSUME TypeOK, NEW s \in Senders, NEW d \in Sizes, NEW b \in Modes, SendCall(s, d, b)
  PROVE  TypeOK'
<1>1. d \in Nat /\ b \in BOOLEAN
  OBVIOUS
<1>2. /\ pc' \in [Senders -> {"idle", "loop", "wait"}] /\ left' \in [Senders -> Nat]
      /\ response' \in [Senders -> {"none", "ok", "err", "timeout", "nomem", "noconn"}]
  <2>1. CASE active
    <3>1. pc' = [pc EXCEPT ![s] = "loop"] /\ left' = [left EXCEPT ![s] = d]
          /\ response' = [response EXCEPT ![s] = "ok"]
      BY <2>1 DEF SendCall
    <3>2. QED
      BY <1>1, <3>1 DEF TypeOK
  <2>2. CASE ~active
    <3>1. pc' = [pc EXCEPT ![s] = "idle"] /\ left' = left
          /\ response' = [response EXCEPT ![s] = "noconn"]
      BY <2>2 DEF SendCall, Leave
    <3>2. QED
      BY <1>1, <3>1 DEF TypeOK
  <2>3. QED
    BY <2>1, <2>2
<1>3. blocking' \in [Senders -> BOOLEAN] /\ lost' \in [Senders -> BOOLEAN]
  BY <1>1, ExceptType, Zenon DEF SendCall, TypeOK
<1>4. begin' \in [Senders -> Nat]
  BY DEF SendCall, TypeOK
<1>5. QED
  BY <1>2, <1>3, <1>4 DEF SendCall, TypeOK, reqVars, devVars, history

\* The end of a request, whatever its result.
LEMMA CompleteType ==
  ASSUME TypeOK, cur # NoPiece, NEW r \in {"ok", "err", "timeout"}, Complete(r),
         res' \in {"inprog", "ok", "err", "timeout"}, sync' \in BOOLEAN
  PROVE  TypeOK'
<1>1. cur \in Pieces /\ cur.by \in Senders
  BY DEF TypeOK, Pieces
<1>2. PieceSize(cur.by) \in Nat /\ PieceSize(cur.by) <= left[cur.by]
      /\ left[cur.by] \in Nat /\ next[cur.by] \in Nat
  BY <1>1, PieceSizeType
<1>3. End(cur)..(next[cur.by] + left[cur.by] - 1) \subseteq Int
  OBVIOUS
<1>4. CASE cur.blocking
  <2>1. Returned(cur.by, r)
    BY <1>4 DEF Complete
  <2>2. /\ pc' \in [Senders -> {"idle", "loop", "wait"}]
        /\ next' \in [Senders -> Nat] /\ left' \in [Senders -> Nat]
        /\ response' \in [Senders -> {"none", "ok", "err", "timeout", "nomem", "noconn"}]
    <3>1. CASE r = "err"
      <4>1. /\ pc' = [pc EXCEPT ![cur.by] = "idle"]
            /\ response' = [response EXCEPT ![cur.by] = r]
            /\ next' = [next EXCEPT ![cur.by] = next[cur.by] + left[cur.by]]
            /\ left' = [left EXCEPT ![cur.by] = 0]
        BY <2>1, <3>1 DEF Returned, Leave
      <4>2. pc' \in [Senders -> {"idle", "loop", "wait"}]
        BY <1>1, <4>1 DEF TypeOK
      <4>3. response' \in [Senders -> {"none", "ok", "err", "timeout", "nomem", "noconn"}]
        BY <1>1, <4>1 DEF TypeOK
      <4>4. next' \in [Senders -> Nat] /\ left' \in [Senders -> Nat]
        BY <1>1, <1>2, <4>1 DEF TypeOK
      <4>5. QED
        BY <4>2, <4>3, <4>4
    <3>2. CASE r # "err"
      <4>1. /\ pc' = [pc EXCEPT ![cur.by] = "loop"]
            /\ response' = [response EXCEPT ![cur.by] = r]
            /\ Advance(cur.by)
        BY <2>1, <3>2 DEF Returned
      <4>2. pc' \in [Senders -> {"idle", "loop", "wait"}]
        BY <1>1, <4>1 DEF TypeOK
      <4>3. response' \in [Senders -> {"none", "ok", "err", "timeout", "nomem", "noconn"}]
        BY <1>1, <4>1 DEF TypeOK
      <4>4. next' \in [Senders -> Nat] /\ left' \in [Senders -> Nat]
        BY <1>1, <4>1, AdvanceType
      <4>5. QED
        BY <4>2, <4>3, <4>4
    <3>3. QED
      BY <3>1, <3>2
  <2>3. lost' \in [Senders -> BOOLEAN]
    <3>1. lost' = [lost EXCEPT ![cur.by] = lost[cur.by] \/ r = "timeout"]
      BY <1>4, Zenon DEF Complete
    <3>2. (lost[cur.by] \/ r = "timeout") \in BOOLEAN
      OBVIOUS
    <3>3. QED
      BY <1>1, <3>1, <3>2, ExceptType, Zenon DEF TypeOK
  <2>4. barred' \in [Senders -> SUBSET Int]
    <3>1. CASE r = "err"
      <4>1. barred' = [barred EXCEPT ![cur.by] = barred[cur.by]
                          \cup (End(cur)..(next[cur.by] + left[cur.by] - 1))]
        BY <1>4, <3>1 DEF Complete
      <4>2. barred[cur.by] \cup (End(cur)..(next[cur.by] + left[cur.by] - 1)) \in SUBSET Int
        BY <1>1, <1>3 DEF TypeOK
      <4>3. QED
        BY <1>1, <4>1, <4>2, ExceptType, Zenon DEF TypeOK
    <3>2. CASE r # "err"
      BY <1>4, <3>2 DEF Complete, TypeOK
    <3>3. QED
      BY <3>1, <3>2
  <2>5. cur' \in Pieces \cup {NoPiece}
    BY DEF Complete
  <2>6. QED
    BY <1>4, <2>2, <2>3, <2>4, <2>5 DEF Complete, TypeOK, devVars
<1>5. CASE ~cur.blocking
  BY <1>5 DEF Complete, TypeOK, devVars, history
<1>6. QED
  BY <1>4, <1>5

LEMMA ReqType ==
  ASSUME TypeOK, Answered, ReqTake \/ ReqWake \/ ReqTimeout
  PROVE  TypeOK'
<1>1. CASE ReqTake
  <2>1. Head(box) \in Pieces /\ Tail(box) \in Seq(Pieces) /\ Len(Tail(box)) = Len(box) - 1
    BY <1>1, TakePiece DEF ReqTake, TypeOK
  <2>2. job'.stage \in {"none", "told", "data"} /\ (job'.stage # "none" => job'.piece \in Pieces)
    BY <1>1, <2>1 DEF ReqTake, TypeOK, Job
  <2>3. QED
    BY <1>1, <2>1, <2>2 DEF ReqTake, TypeOK, senderVars, history
<1>2. CASE ReqWake
  <2>1. res \in {"ok", "err"} /\ res' = res /\ sync' = FALSE
    BY <1>2 DEF ReqWake, Answered
  <2>2. QED
    BY <1>2, <2>1, CompleteType DEF ReqWake
<1>3. CASE ReqTimeout
  BY <1>3, CompleteType DEF ReqTimeout, TypeOK
<1>4. QED
  BY <1>1, <1>2, <1>3

LEMMA DevType ==
  ASSUME TypeOK, DevAccept \/ DevRefuse \/ DevForgets \/ DevDeliver \/ DevLink \/ RespLink
  PROVE  TypeOK'
<1>1. CASE DevAccept
  <2>1. /\ job'.stage \in {"none", "told", "data"}
        /\ job'.stage # "none" => job'.piece \in Pieces
        /\ given' \in [Senders -> SUBSET Nat]
    <3>1. CASE cur = NoPiece
      BY <1>1, <3>1 DEF DevAccept, Data, NoJob, Job, TypeOK
    <3>2. CASE cur # NoPiece
      <4>1. cur \in Pieces
        BY <3>2 DEF TypeOK
      <4>2. cur.by \in Senders /\ Bytes(cur) \subseteq Nat
        BY <4>1 DEF Pieces, Bytes, End
      <4>3. job' = Job("data", cur)
        BY <1>1, <3>2 DEF DevAccept, Data
      <4>4. given' \in [Senders -> SUBSET Nat]
        <5>1. given' = [given EXCEPT ![cur.by] = given[cur.by] \cup Bytes(cur)]
          BY <1>1, <3>2 DEF DevAccept, Data
        <5>2. given[cur.by] \cup Bytes(cur) \in SUBSET Nat
          BY <4>2 DEF TypeOK
        <5>3. QED
          BY <4>2, <5>1, <5>2, ExceptType, Zenon DEF TypeOK
      <4>5. QED
        BY <4>1, <4>3, <4>4 DEF Job
    <3>3. QED
      BY <3>1, <3>2
  <2>2. QED
    <3>1. res' \in {"inprog", "ok", "err", "timeout"} /\ sync' \in BOOLEAN
      BY <1>1 DEF DevAccept, Ends, TypeOK
    <3>2. QED
      BY <1>1, <2>1, <3>1 DEF DevAccept, TypeOK, senderVars, history
<1>2. CASE DevRefuse
  BY <1>2 DEF DevRefuse, Ends, NoJob, Job, TypeOK, senderVars, history
<1>3. CASE DevForgets
  BY <1>3 DEF DevForgets, NoJob, Job, TypeOK, senderVars, reqVars, history
<1>4. CASE DevDeliver
  <2>1. peer' \in Seq(Pieces)
    <3>1. job.piece \in Pieces /\ peer \in Seq(Pieces)
      BY <1>4 DEF DevDeliver, TypeOK
    <3>2. peer' = Append(peer, job.piece) \/ peer' = peer
      BY <1>4 DEF DevDeliver
    <3>3. QED
      BY <3>1, <3>2, AppendPiece
  <2>2. QED
    BY <1>4, <2>1 DEF DevDeliver, Ends, NoJob, Job, TypeOK, senderVars, history
<1>5. CASE DevLink
  BY <1>5 DEF DevLink, TypeOK, senderVars, reqVars, history
<1>6. CASE RespLink
  BY <1>6 DEF RespLink, TypeOK, senderVars, reqVars, devVars, history
<1>7. QED
  BY <1>1, <1>2, <1>3, <1>4, <1>5, <1>6

\* A semaphore is never given for a request that is over.
LEMMA AnsweredStep ==
  ASSUME TypeOK, Answered, Next
  PROVE  Answered'
<1>1. ASSUME NEW s \in Senders, NEW d \in Sizes, NEW b \in Modes, SendCall(s, d, b)
      PROVE  Answered'
  BY <1>1 DEF SendCall, Answered, reqVars
<1>2. ASSUME NEW s \in Senders, PutPiece(s) \/ PutFails(s) \/ SendReturn(s)
      PROVE  Answered'
  BY <1>2 DEF PutPiece, PutFails, SendReturn, Answered, reqVars
<1>3. CASE ReqTake
  BY <1>3 DEF ReqTake, Answered
<1>4. CASE ReqWake \/ ReqTimeout
  BY <1>4 DEF ReqWake, ReqTimeout, Answered
<1>5. CASE DevAccept \/ DevRefuse \/ DevDeliver
  BY <1>5 DEF DevAccept, DevRefuse, DevDeliver, Ends, Answered
<1>6. CASE DevForgets \/ DevLink \/ RespLink
  BY <1>6 DEF DevForgets, DevLink, RespLink, Answered, reqVars
<1>7. QED
  BY <1>1, <1>2, <1>3, <1>4, <1>5, <1>6 DEF Next

LEMMA TypeStep ==
  ASSUME TypeOK, Answered, Next
  PROVE  TypeOK'
  BY CallType, SenderType, ReqType, DevType DEF Next

-----------------------------------------------------------------------------
(* Pieces are cut from the stream one after another: none that is held is  *)
(* beyond what has been cut.                                               *)

LEMMA HeldPieces ==
  ASSUME TypeOK
  PROVE  \A p \in Held : p \in Pieces /\ p.by \in Senders /\ End(p) \in Nat
<1>1. \A p \in Held : p \in Pieces
  BY DEF Held, TypeOK
<1>2. QED
  BY <1>1 DEF Pieces, End

\* No step takes data back that has been cut.
LEMMA ReachGrows ==
  ASSUME TypeOK, TypeOK', Next, NEW t \in Senders
  PROVE  Reach(t) <= Reach(t)'
<1>1. /\ PieceSize(t) \in Nat /\ PieceSize(t) <= left[t]
      /\ left[t] \in Nat /\ next[t] \in Nat
  BY PieceSizeType
<1>2. left'[t] \in Nat /\ next'[t] \in Nat /\ PieceSize(t)' \in Nat
  BY DEF TypeOK, PieceSize
<1>3. Reach(t)' \in Nat /\ next'[t] <= Reach(t)'
  BY <1>2 DEF Reach
<1>4. ASSUME next'[t] >= next[t] + PieceSize(t)
      PROVE  Reach(t) <= Reach(t)'
  BY <1>1, <1>2, <1>3, <1>4 DEF Reach
<1>5. ASSUME pc[t] # "wait", next' = next
      PROVE  Reach(t) <= Reach(t)'
  BY <1>1, <1>3, <1>5 DEF Reach
<1>6. ASSUME pc'[t] = pc[t], next'[t] = next[t], left'[t] = left[t]
      PROVE  Reach(t) <= Reach(t)'
  BY <1>1, <1>6 DEF Reach, PieceSize
<1>7. ASSUME NEW s \in Senders, NEW d \in Sizes, NEW b \in Modes, SendCall(s, d, b)
      PROVE  Reach(t) <= Reach(t)'
  <2>1. CASE s = t
    BY <1>5, <1>7, <2>1 DEF SendCall
  <2>2. CASE s # t
    <3>1. next'[t] = next[t]
      BY <1>7 DEF SendCall
    <3>2. CASE active
      BY <1>6, <1>7, <2>2, <3>1, <3>2 DEF SendCall, TypeOK
    <3>3. CASE ~active
      BY <1>6, <1>7, <2>2, <3>1, <3>3 DEF SendCall, Leave, TypeOK
    <3>4. QED
      BY <3>2, <3>3
  <2>3. QED
    BY <2>1, <2>2
<1>8. ASSUME NEW s \in Senders, Advance(s), s = t
      PROVE  next'[t] >= next[t] + PieceSize(t)
  BY <1>1, <1>8 DEF Advance, TypeOK
<1>9. ASSUME NEW s \in Senders, PutPiece(s)
      PROVE  Reach(t) <= Reach(t)'
  <2>1. CASE s = t /\ blocking[s]
    BY <1>5, <1>9, <2>1 DEF PutPiece
  <2>2. CASE s = t /\ ~blocking[s]
    BY <1>4, <1>8, <1>9, <2>2 DEF PutPiece
  <2>3. CASE s # t
    <3>1. CASE blocking[s]
      BY <1>6, <1>9, <2>3, <3>1 DEF PutPiece, TypeOK
    <3>2. CASE ~blocking[s]
      BY <1>6, <1>9, <2>3, <3>2 DEF PutPiece, Advance, TypeOK
    <3>3. QED
      BY <3>1, <3>2
  <2>4. QED
    BY <2>1, <2>2, <2>3
<1>10. ASSUME NEW s \in Senders, PutFails(s)
       PROVE  Reach(t) <= Reach(t)'
  <2>1. CASE s = t
    BY <1>4, <1>8, <1>10, <2>1 DEF PutFails
  <2>2. CASE s # t
    BY <1>6, <1>10, <2>2 DEF PutFails, Advance
  <2>3. QED
    BY <2>1, <2>2
<1>11. ASSUME NEW s \in Senders, SendReturn(s)
       PROVE  Reach(t) <= Reach(t)'
  <2>1. CASE s = t
    BY <1>5, <1>11, <2>1 DEF SendReturn
  <2>2. CASE s # t
    BY <1>6, <1>11, <2>2 DEF SendReturn, Leave
  <2>3. QED
    BY <2>1, <2>2
<1>12. ASSUME cur # NoPiece, NEW r, Complete(r)
       PROVE  Reach(t) <= Reach(t)'
  <2>1. cur.by \in Senders
    BY <1>12 DEF TypeOK, Pieces
  <2>2. CASE ~cur.blocking
    BY <1>6, <1>12, <2>2 DEF Complete
  <2>3. CASE cur.blocking /\ cur.by # t
    <3>1. CASE r = "err"
      BY <1>6, <1>12, <2>1, <2>3, <3>1 DEF Complete, Returned, Leave, TypeOK
    <3>2. CASE r # "err"
      BY <1>6, <1>12, <2>1, <2>3, <3>2 DEF Complete, Returned, Advance, TypeOK
    <3>3. QED
      BY <3>1, <3>2
  <2>4. CASE cur.blocking /\ cur.by = t /\ r = "err"
    <3>1. next'[t] = next[t] + left[t]
      BY <1>12, <2>4 DEF Complete, Returned, TypeOK
    <3>2. QED
      BY <1>1, <1>4, <3>1
  <2>5. CASE cur.blocking /\ cur.by = t /\ r # "err"
    BY <1>4, <1>8, <1>12, <2>5 DEF Complete, Returned
  <2>6. QED
    BY <2>2, <2>3, <2>4, <2>5
<1>13. CASE ReqWake \/ ReqTimeout
  BY <1>12, <1>13 DEF ReqWake, ReqTimeout
<1>14. CASE ReqTake \/ DevAccept \/ DevRefuse \/ DevForgets \/ DevDeliver \/ DevLink \/ RespLink
  BY <1>6, <1>14 DEF ReqTake, DevAccept, DevRefuse, DevForgets, DevDeliver, DevLink,
                     RespLink, senderVars
<1>15. QED
  BY <1>7, <1>9, <1>10, <1>11, <1>13, <1>14 DEF Next

\* What is on its way was on its way, but for the piece a put adds.
LEMMA HeldStep ==
  ASSUME TypeOK, Next, NEW p \in Held'
  PROVE  \/ p \in Held
         \/ \E s \in Senders : /\ PutPiece(s)
                               /\ p = Piece(s, next[s], PieceSize(s), blocking[s])
<1>1. ASSUME box' = box, peer' = peer, cur' \in {cur, NoPiece}, job' \in {job, NoJob}
      PROVE  p \in Held
  BY <1>1 DEF Held, NoJob, Job
<1>2. ASSUME NEW s \in Senders, PutPiece(s)
      PROVE  p \in Held \/ p = Piece(s, next[s], PieceSize(s), blocking[s])
  <2>1. Piece(s, next[s], PieceSize(s), blocking[s]) \in Pieces
    BY <1>2, NewPiece DEF PutPiece
  <2>2. /\ peer' = peer /\ cur' = cur /\ job' = job
        /\ box' = Append(box, Piece(s, next[s], PieceSize(s), blocking[s]))
    BY <1>2 DEF PutPiece, devVars, reqVars
  <2>3. \A i \in DOMAIN box' :
           box'[i] = Piece(s, next[s], PieceSize(s), blocking[s])
           \/ (i \in DOMAIN box /\ box'[i] = box[i])
    <3> DEFINE new == Piece(s, next[s], PieceSize(s), blocking[s])
    <3>1. box \in Seq(Pieces) /\ new \in Pieces /\ box' = Append(box, new)
      BY <2>1, <2>2 DEF TypeOK
    <3> HIDE DEF new
    <3>2. \A i \in DOMAIN box' : box'[i] = new \/ (i \in DOMAIN box /\ box'[i] = box[i])
      BY <3>1, AppendedAt
    <3>3. QED
      BY <3>2 DEF new
  <2>4. QED
    BY <2>2, <2>3 DEF Held
<1>3. CASE ReqTake
  <2>1. Head(box) = box[1] /\ 1 \in DOMAIN box
        /\ \A i \in DOMAIN box' : i + 1 \in DOMAIN box /\ box'[i] = box[i + 1]
    BY <1>3, TakePiece DEF ReqTake, TypeOK
  <2>2. cur' = box[1] /\ peer' = peer /\ (job' = job \/ job' = Job("told", box[1]))
    BY <1>3, <2>1 DEF ReqTake
  <2>3. QED
    BY <2>1, <2>2 DEF Held, Job
<1>4. CASE DevAccept
  <2>1. box' = box /\ peer' = peer /\ cur' = cur
    BY <1>4 DEF DevAccept
  <2>2. job' = NoJob \/ (cur # NoPiece /\ job' = Job("data", cur))
    BY <1>4 DEF DevAccept, Data
  <2>3. QED
    BY <2>1, <2>2 DEF Held, NoJob, Job
<1>5. CASE DevDeliver
  <2>1. job.piece \in Pieces /\ job.stage # "none"
    BY <1>5 DEF DevDeliver, TypeOK
  <2>2. box' = box /\ cur' = cur /\ job' = NoJob
        /\ (peer' = peer \/ peer' = Append(peer, job.piece))
    BY <1>5 DEF DevDeliver
  <2>3. \A i \in DOMAIN peer' :
           peer'[i] = job.piece \/ (i \in DOMAIN peer /\ peer'[i] = peer[i])
    <3>1. CASE peer' = peer
      BY <3>1
    <3>2. CASE peer' = Append(peer, job.piece)
      <4>1. peer \in Seq(Pieces)
        BY DEF TypeOK
      <4>2. QED
        BY <2>1, <3>2, <4>1, AppendedAt
    <3>3. QED
      BY <2>2, <3>1, <3>2
  <2>4. QED
    BY <2>1, <2>2, <2>3 DEF Held, NoJob, Job
<1>6. CASE ReqWake \/ ReqTimeout
  BY <1>1, <1>6 DEF ReqWake, ReqTimeout, Complete, devVars
<1>7. CASE DevRefuse \/ DevForgets \/ DevLink \/ RespLink
  BY <1>1, <1>7 DEF DevRefuse, DevForgets, DevLink, RespLink, reqVars, devVars
<1>8. ASSUME NEW s \in Senders, NEW d \in Sizes, NEW b \in Modes, SendCall(s, d, b)
      PROVE  p \in Held
  BY <1>1, <1>8 DEF SendCall, reqVars, devVars
<1>9. ASSUME NEW s \in Senders, PutFails(s) \/ SendReturn(s)
      PROVE  p \in Held
  BY <1>1, <1>9 DEF PutFails, SendReturn, reqVars, devVars
<1>10. QED
  BY <1>2, <1>3, <1>4, <1>5, <1>6, <1>7, <1>8, <1>9 DEF Next

LEMMA BoundedStep ==
  ASSUME TypeOK, TypeOK', Bounded, Next
  PROVE  Bounded'
<1>1. SUFFICES ASSUME NEW p \in Held'
               PROVE  End(p) <= Reach(p.by)'
  BY DEF Bounded, End
<1>2. CASE p \in Held
  <2>1. p.by \in Senders /\ End(p) \in Nat /\ End(p) <= Reach(p.by)
    BY <1>2, HeldPieces DEF Bounded
  <2>2. Reach(p.by) <= Reach(p.by)'
    BY <2>1, ReachGrows
  <2>3. Reach(p.by) \in Nat /\ Reach(p.by)' \in Nat
    <3> DEFINE t == p.by
    <3>1. /\ pc[t] \in {"idle", "loop", "wait"} /\ next[t] \in Nat /\ left[t] \in Nat
          /\ next'[t] \in Nat /\ left'[t] \in Nat
      BY <2>1 DEF TypeOK
    <3>2. QED
      BY <3>1 DEF Reach, PieceSize
  <2>4. QED
    BY <2>1, <2>2, <2>3
<1>3. ASSUME NEW s \in Senders, PutPiece(s),
             p = Piece(s, next[s], PieceSize(s), blocking[s])
      PROVE  End(p) <= Reach(p.by)'
  <2>1. p.by = s /\ End(p) = next[s] + PieceSize(s)
    BY <1>3 DEF Piece, End
  <2>2. PieceSize(s) \in Nat /\ next[s] \in Nat
    BY PieceSizeType
  <2>3. CASE blocking[s]
    <3>1. pc'[s] = "wait" /\ next' = next /\ left' = left
      BY <1>3, <2>3 DEF PutPiece, TypeOK
    <3>2. QED
      BY <2>1, <2>2, <3>1 DEF Reach, PieceSize
  <2>4. CASE ~blocking[s]
    <3>1. pc'[s] = "loop" /\ next'[s] = next[s] + PieceSize(s)
      BY <1>3, <2>4 DEF PutPiece, Advance, TypeOK
    <3>2. QED
      BY <2>1, <2>2, <3>1 DEF Reach
  <2>5. QED
    BY <2>3, <2>4
<1>4. QED
  BY <1>2, <1>3, HeldStep

-----------------------------------------------------------------------------
(* Order: a new piece begins where all that is held of its sender ends, and *)
(* a piece moves from the head of one place to the end of the next.         *)

LEMMA NewIsLast ==
  ASSUME TypeOK, Bounded, NEW s \in Senders, PutPiece(s), NEW p \in Held
  PROVE  Before(p, Piece(s, next[s], PieceSize(s), blocking[s]))
<1>1. p.by \in Senders /\ End(p) \in Nat /\ End(p) <= Reach(p.by)
  BY HeldPieces DEF Bounded
<1>2. pc[s] = "loop"
  BY DEF PutPiece
<1>3. QED
  BY <1>1, <1>2 DEF Reach, Before, Piece

LEMMA PutOrdered ==
  ASSUME TypeOK, Bounded, Ordered, NEW s \in Senders, PutPiece(s)
  PROVE  Ordered'
<1> DEFINE new == Piece(s, next[s], PieceSize(s), blocking[s])
<1>1. new \in Pieces
  BY NewPiece DEF PutPiece
<1>2. /\ peer' = peer /\ cur' = cur /\ job' = job /\ box' = Append(box, new)
      /\ box \in Seq(Pieces)
  BY DEF PutPiece, devVars, reqVars, TypeOK
<1>3. \A p \in Held : Before(p, new)
  BY NewIsLast
<1> HIDE DEF new
<1>4. \A i \in DOMAIN box' : \/ i \in DOMAIN box /\ i < Len(box) + 1 /\ box'[i] = box[i]
                             \/ i = Len(box) + 1 /\ box'[i] = new
  BY <1>1, <1>2, AppendedAt
<1>5. /\ \A i \in DOMAIN box : Before(box[i], new)
      /\ \A i \in DOMAIN peer : Before(peer[i], new)
      /\ cur # NoPiece => Before(cur, new)
      /\ job.stage # "none" => Before(job.piece, new)
  BY <1>3 DEF Held
<1>6. \A j \in DOMAIN box' : \A i \in 1..(j - 1) : Before(box'[i], box'[j])
  <2>1. SUFFICES ASSUME NEW j \in DOMAIN box', NEW i \in 1..(j - 1)
                 PROVE  Before(box'[i], box'[j])
    OBVIOUS
  <2>2. DOMAIN box = 1..Len(box) /\ DOMAIN box' = 1..(Len(box) + 1) /\ Len(box) \in Nat
    BY <1>1, <1>2
  <2>3. i \in DOMAIN box /\ box'[i] = box[i] /\ j \in Nat
    BY <1>4, <2>2
  <2>4. QED
    BY <1>4, <1>5, <2>3 DEF Ordered
<1>7. \A j \in DOMAIN box' :
        /\ cur' # NoPiece => Before(cur', box'[j])
        /\ job'.stage # "none" => Before(job'.piece, box'[j])
        /\ \A i \in DOMAIN peer' : Before(peer'[i], box'[j])
  BY <1>2, <1>4, <1>5 DEF Ordered
<1>8. QED
  BY <1>2, <1>6, <1>7 DEF Ordered, InOrder, Before, End

LEMMA TakeOrdered ==
  ASSUME TypeOK, Ordered, ReqTake
  PROVE  Ordered'
<1>1. /\ cur = NoPiece /\ cur' = box[1] /\ box' = Tail(box) /\ peer' = peer
      /\ 1 \in DOMAIN box /\ box[1] \in Pieces
      /\ job' = IF job = NoJob THEN Job("told", box[1]) ELSE job
  BY TakePiece DEF ReqTake, TypeOK
<1>2. \A i \in DOMAIN box' : i \in Nat /\ i + 1 \in DOMAIN box /\ box'[i] = box[i + 1] /\ 1 < i + 1
  BY TakePiece DEF ReqTake, TypeOK
<1>3. \A j \in DOMAIN box' : \A i \in 1..(j - 1) : Before(box'[i], box'[j])
  <2>1. SUFFICES ASSUME NEW j \in DOMAIN box', NEW i \in 1..(j - 1)
                 PROVE  Before(box'[i], box'[j])
    OBVIOUS
  <2>2. i \in DOMAIN box'
    BY <1>1, <2>1 DEF TypeOK
  <2>3. i + 1 \in 1..((j + 1) - 1) /\ j + 1 \in DOMAIN box
    BY <1>2, <2>1
  <2>4. QED
    BY <1>2, <2>2, <2>3 DEF Ordered
<1>4. \A j \in DOMAIN box' : Before(cur', box'[j])
  BY <1>1, <1>2 DEF Ordered
<1>5. \A i \in DOMAIN peer' : Before(peer'[i], cur')
  BY <1>1 DEF Ordered
<1>6. \A i \in DOMAIN peer' : \A j \in DOMAIN box' : Before(peer'[i], box'[j])
  BY <1>1, <1>2 DEF Ordered
<1>7. CASE job = NoJob
  <2>1. job'.stage = "told" /\ job'.piece = cur'
    BY <1>1, <1>7 DEF Job
  <2>2. QED
    BY <1>1, <1>3, <1>4, <1>5, <1>6, <2>1 DEF Ordered, InOrder, Before, End
<1>8. CASE job # NoJob
  <2>1. job' = job
    BY <1>1, <1>8
  <2>2. job.stage # "none" => Before(job.piece, cur')
    BY <1>1 DEF Ordered
  <2>3. \A j \in DOMAIN box' : job.stage # "none" => Before(job.piece, box'[j])
    BY <1>2 DEF Ordered
  <2>4. QED
    BY <1>1, <1>3, <1>4, <1>5, <1>6, <2>1, <2>2, <2>3 DEF Ordered, InOrder, Before, End
<1>9. QED
  BY <1>7, <1>8

\* Steps that move no piece, or let go of one.
LEMMA StaysOrdered ==
  ASSUME Ordered, box' = box, peer' = peer, cur' \in {cur, NoPiece}, job' \in {job, NoJob}
  PROVE  Ordered'
  BY DEF Ordered, InOrder, Before, End, NoJob, Job

LEMMA AcceptOrdered ==
  ASSUME TypeOK, Ordered, DevAccept
  PROVE  Ordered'
<1>1. cur # NoPiece /\ cur \in Pieces /\ job.piece = cur
  BY NoPieceIsNone DEF DevAccept, TypeOK
<1>2. job'.stage = "data" /\ job'.piece = job.piece /\ job.stage # "none"
  BY <1>1 DEF DevAccept, Data, Job
<1>3. box' = box /\ peer' = peer /\ cur' = cur
  BY DEF DevAccept
<1>4. QED
  BY <1>1, <1>2, <1>3 DEF Ordered, InOrder, Before, End

LEMMA DeliverOrdered ==
  ASSUME TypeOK, Ordered, DevDeliver
  PROVE  Ordered'
<1>1. job.stage # "none" /\ job.piece \in Pieces
      /\ box' = box /\ cur' = cur /\ job' = NoJob
  BY DEF DevDeliver, TypeOK
<1>2. CASE peer' = peer
  BY <1>1, <1>2, StaysOrdered
<1>3. CASE peer' = Append(peer, job.piece)
  <2>1. peer \in Seq(Pieces)
    BY DEF TypeOK
  <2>2. \A i \in DOMAIN peer' :
          \/ i \in DOMAIN peer /\ i < Len(peer) + 1 /\ peer'[i] = peer[i]
          \/ i = Len(peer) + 1 /\ peer'[i] = job.piece
    BY <1>1, <1>3, <2>1, AppendedAt
  <2>3. job'.stage = "none"
    BY <1>1 DEF NoJob, Job
  <2>4. InOrder'
    <3>1. SUFFICES ASSUME NEW j \in DOMAIN peer', NEW i \in 1..(j - 1)
                   PROVE  Before(peer'[i], peer'[j])
      BY DEF InOrder, Before, End
    <3>2. DOMAIN peer = 1..Len(peer) /\ DOMAIN peer' = 1..(Len(peer) + 1) /\ Len(peer) \in Nat
      BY <1>1, <1>3, <2>1
    <3>3. i \in DOMAIN peer /\ peer'[i] = peer[i] /\ j \in Nat
      BY <2>2, <3>2
    <3>4. QED
      BY <1>1, <2>2, <3>3 DEF Ordered, InOrder
  <2>5. \A i \in DOMAIN peer' : \A j \in DOMAIN box : Before(peer'[i], box[j])
    BY <1>1, <2>2 DEF Ordered
  <2>6. cur # NoPiece => \A i \in DOMAIN peer' : peer'[i] = cur \/ Before(peer'[i], cur)
    BY <1>1, <2>2 DEF Ordered
  <2>7. QED
    BY <1>1, <2>3, <2>4, <2>5, <2>6 DEF Ordered, Before, End
<1>4. QED
  BY <1>2, <1>3 DEF DevDeliver

LEMMA OrderedStep ==
  ASSUME TypeOK, Bounded, Ordered, Next
  PROVE  Ordered'
<1>1. CASE \E s \in Senders : PutPiece(s)
  BY <1>1, PutOrdered
<1>2. CASE ReqTake \/ DevAccept \/ DevDeliver
  BY <1>2, TakeOrdered, AcceptOrdered, DeliverOrdered
<1>3. CASE ReqWake \/ ReqTimeout
  BY <1>3, StaysOrdered DEF ReqWake, ReqTimeout, Complete, devVars
<1>4. CASE DevRefuse \/ DevForgets \/ DevLink \/ RespLink
  BY <1>4, StaysOrdered DEF DevRefuse, DevForgets, DevLink, RespLink, reqVars, devVars
<1>5. ASSUME NEW s \in Senders, PutFails(s) \/ SendReturn(s)
      PROVE  Ordered'
  BY <1>5, StaysOrdered DEF PutFails, SendReturn, reqVars, devVars
<1>6. ASSUME NEW s \in Senders, NEW d \in Sizes, NEW b \in Modes, SendCall(s, d, b)
      PROVE  Ordered'
  BY <1>6, StaysOrdered DEF SendCall, reqVars, devVars
<1>7. QED
  BY <1>1, <1>2, <1>3, <1>4, <1>5, <1>6 DEF Next

-----------------------------------------------------------------------------
(* The theorems.                                                           *)

\* The strengthening holds at first, and no step breaks it.
THEOREM Inductive == Spec => []IInv
<1>1. Init => IInv
  <2>1. SUFFICES ASSUME Init PROVE IInv
    OBVIOUS
  <2>2. Held = {}
    BY <2>1 DEF Init, Held, NoJob, Job
  <2>3. Ordered /\ Bounded
    BY <2>1, <2>2 DEF Init, Ordered, InOrder, Bounded, NoJob, Job
  <2>4. QED
    BY <2>1, <2>3, InitType DEF IInv
<1>2. IInv /\ [Next]_vars => IInv'
  <2>1. SUFFICES ASSUME IInv, [Next]_vars PROVE IInv'
    OBVIOUS
  <2>2. CASE Next
    <3>1. TypeOK'
      BY <2>1, <2>2, TypeStep DEF IInv
    <3>2. QED
      BY <2>1, <2>2, <3>1, AnsweredStep, BoundedStep, OrderedStep DEF IInv
  <2>3. CASE UNCHANGED vars
    BY <2>1, <2>3 DEF IInv, TypeOK, Answered, Bounded, Ordered, InOrder, Held, Reach,
       PieceSize, Before, End, vars, senderVars, devVars, reqVars, history
  <2>4. QED
    BY <2>1, <2>2, <2>3
<1>3. QED
  BY <1>1, <1>2, PTL DEF Spec

\* The state of senders, mailbox and threads has its type in every run: the
\* mailbox never holds more than ReqCap, and nobody sends fewer than no bytes.
THEOREM TypeCorrect == Spec => []TypeOK
<1>1. IInv => TypeOK
  BY DEF IInv
<1>2. QED
  BY <1>1, Inductive, PTL

\* However many threads send, whatever is refused, lost or times out: the other
\* end has each thread's bytes in order, and no byte twice.
THEOREM SendsInOrder == Spec => []InOrder
<1>1. IInv => InOrder
  BY DEF IInv, Ordered
<1>2. QED
  BY <1>1, Inductive, PTL

-----------------------------------------------------------------------------
(* What a sender is told.                                                  *)

\* The piece a put adds.
Cut(s) == Piece(s, next[s], PieceSize(s), blocking[s])

-----------------------------------------------------------------------------
(* What a step may do to each part of the state.                           *)

LEMMA QueuedHeld == Queued \subseteq Held
  BY DEF Queued, Held

LEMMA NextGrows ==
  ASSUME TypeOK, TypeOK', Next, NEW t \in Senders
  PROVE  next[t] \in Nat /\ next'[t] \in Nat /\ next[t] <= next'[t]
<1>1. /\ PieceSize(t) \in Nat /\ left[t] \in Nat
      /\ next[t] \in Nat /\ next'[t] \in Nat
  BY PieceSizeType DEF TypeOK
<1>2. ASSUME NEW s \in Senders, Advance(s)
      PROVE  next[t] <= next'[t]
  <2>1. CASE s = t
    BY <1>1, <1>2, <2>1 DEF Advance, TypeOK
  <2>2. CASE s # t
    BY <1>1, <1>2, <2>2 DEF Advance, TypeOK
  <2>3. QED
    BY <2>1, <2>2
<1>3. ASSUME next' = next
      PROVE  next[t] <= next'[t]
  BY <1>1, <1>3
<1>4. ASSUME NEW s \in Senders, PutPiece(s) \/ PutFails(s) \/ SendReturn(s)
      PROVE  next[t] <= next'[t]
  BY <1>2, <1>3, <1>4 DEF PutPiece, PutFails, SendReturn
<1>5. ASSUME cur # NoPiece, NEW r, Complete(r)
      PROVE  next[t] <= next'[t]
  <2>1. cur.by \in Senders
    BY <1>5 DEF TypeOK, Pieces
  <2>2. CASE ~cur.blocking
    BY <1>3, <1>5, <2>2 DEF Complete
  <2>3. CASE cur.blocking /\ r = "err"
    <3>1. next' = [next EXCEPT ![cur.by] = next[cur.by] + left[cur.by]]
      BY <1>5, <2>3 DEF Complete, Returned
    <3>2. left[cur.by] \in Nat
      BY <2>1 DEF TypeOK
    <3>3. QED
      BY <1>1, <2>1, <3>1, <3>2 DEF TypeOK
  <2>4. CASE cur.blocking /\ r # "err"
    BY <1>2, <1>5, <2>1, <2>4 DEF Complete, Returned
  <2>5. QED
    BY <2>2, <2>3, <2>4
<1>6. CASE ReqWake \/ ReqTimeout
  BY <1>1, <1>5, <1>6 DEF ReqWake, ReqTimeout
<1>7. CASE ReqTake \/ DevAccept \/ DevRefuse \/ DevForgets \/ DevDeliver \/ DevLink \/ RespLink
  BY <1>1, <1>3, <1>7 DEF ReqTake, DevAccept, DevRefuse, DevForgets, DevDeliver, DevLink,
                    RespLink, senderVars
<1>8. ASSUME NEW s \in Senders, NEW d \in Sizes, NEW b \in Modes, SendCall(s, d, b)
      PROVE  next[t] <= next'[t]
  BY <1>3, <1>8 DEF SendCall
<1>9. QED
  BY <1>1, <1>4, <1>6, <1>7, <1>8 DEF Next

\* Only a put adds to what is queued.
LEMMA QueuedStep ==
  ASSUME TypeOK, Next, NEW p \in Queued'
  PROVE  p \in Queued \/ \E s \in Senders : PutPiece(s) /\ p = Cut(s)
<1>1. ASSUME box' = box, cur' \in {cur, NoPiece}
      PROVE  p \in Queued
  BY <1>1 DEF Queued
<1>2. ASSUME NEW s \in Senders, PutPiece(s)
      PROVE  p \in Queued \/ p = Cut(s)
  <2>1. Cut(s) \in Pieces /\ box \in Seq(Pieces) /\ cur' = cur /\ box' = Append(box, Cut(s))
    BY <1>2, NewPiece DEF PutPiece, Cut, reqVars, TypeOK
  <2>2. \A i \in DOMAIN box' : box'[i] = Cut(s) \/ (i \in DOMAIN box /\ box'[i] = box[i])
    BY <2>1, AppendedAt
  <2>3. QED
    BY <2>1, <2>2 DEF Queued
<1>3. CASE ReqTake
  <2>1. cur' = box[1] /\ 1 \in DOMAIN box
        /\ \A i \in DOMAIN box' : i + 1 \in DOMAIN box /\ box'[i] = box[i + 1]
    BY <1>3, TakePiece DEF ReqTake, TypeOK
  <2>2. QED
    BY <2>1 DEF Queued
<1>4. CASE ReqWake \/ ReqTimeout
  BY <1>1, <1>4 DEF ReqWake, ReqTimeout, Complete
<1>5. CASE DevAccept \/ DevRefuse \/ DevForgets \/ DevDeliver \/ DevLink \/ RespLink
  BY <1>1, <1>5 DEF DevAccept, DevRefuse, DevForgets, DevDeliver, DevLink, RespLink, reqVars
<1>6. ASSUME NEW s \in Senders, NEW d \in Sizes, NEW b \in Modes, SendCall(s, d, b)
      PROVE  p \in Queued
  BY <1>1, <1>6 DEF SendCall, reqVars
<1>7. ASSUME NEW s \in Senders, PutFails(s) \/ SendReturn(s)
      PROVE  p \in Queued
  BY <1>1, <1>7 DEF PutFails, SendReturn, reqVars
<1>8. QED
  BY <1>2, <1>3, <1>4, <1>5, <1>6, <1>7 DEF Next

\* Only the prompt hands bytes over, those of the current piece.
LEMMA GivenStep ==
  ASSUME TypeOK, Next
  PROVE  \/ given' = given
         \/ /\ DevAccept /\ cur \in Pieces
            /\ given' = [given EXCEPT ![cur.by] = given[cur.by] \cup Bytes(cur)]
<1>1. CASE DevAccept
  <2>1. cur \in Pieces
    BY <1>1, NoPieceIsNone DEF DevAccept, TypeOK
  <2>2. QED
    BY <1>1, <2>1, NoPieceIsNone DEF DevAccept, Data
<1>2. CASE ReqTake \/ ReqWake \/ ReqTimeout
  BY <1>2 DEF ReqTake, ReqWake, ReqTimeout, Complete, devVars
<1>3. CASE DevRefuse \/ DevForgets \/ DevDeliver \/ DevLink \/ RespLink
  BY <1>3 DEF DevRefuse, DevForgets, DevDeliver, DevLink, RespLink, devVars
<1>4. ASSUME NEW s \in Senders, NEW d \in Sizes, NEW b \in Modes, SendCall(s, d, b)
      PROVE  given' = given
  BY <1>4 DEF SendCall, devVars
<1>5. ASSUME NEW s \in Senders, PutPiece(s) \/ PutFails(s) \/ SendReturn(s)
      PROVE  given' = given
  BY <1>5 DEF PutPiece, PutFails, SendReturn, devVars
<1>6. QED
  BY <1>1, <1>2, <1>3, <1>4, <1>5 DEF Next

\* Only a blocking piece that ends bars bytes: those of the call behind it.
LEMMA BarredStep ==
  ASSUME TypeOK, Next
  PROVE  \/ barred' = barred
         \/ /\ cur \in Pieces /\ cur.blocking /\ cur' = NoPiece /\ box' = box /\ given' = given
            /\ barred' = [barred EXCEPT ![cur.by] = barred[cur.by]
                             \cup (End(cur)..(next[cur.by] + left[cur.by] - 1))]
            /\ next'[cur.by] = next[cur.by] + left[cur.by]
<1>1. ASSUME cur # NoPiece, NEW r, Complete(r), barred' # barred
      PROVE  /\ cur \in Pieces /\ cur.blocking /\ cur' = NoPiece /\ box' = box /\ given' = given
             /\ barred' = [barred EXCEPT ![cur.by] = barred[cur.by]
                              \cup (End(cur)..(next[cur.by] + left[cur.by] - 1))]
             /\ next'[cur.by] = next[cur.by] + left[cur.by]
  <2>1. cur \in Pieces /\ cur.by \in Senders
    BY <1>1 DEF TypeOK, Pieces
  <2>2. cur.blocking
    BY <1>1 DEF Complete, history
  <2>3. r = "err"
    BY <1>1, <2>2 DEF Complete
  <2>4. QED
    BY <1>1, <2>1, <2>2, <2>3 DEF Complete, Returned, devVars, TypeOK
<1>2. CASE ReqWake \/ ReqTimeout
  BY <1>1, <1>2 DEF ReqWake, ReqTimeout
<1>3. CASE ReqTake \/ DevAccept \/ DevRefuse \/ DevForgets \/ DevDeliver \/ DevLink \/ RespLink
  BY <1>3 DEF ReqTake, DevAccept, DevRefuse, DevForgets, DevDeliver, DevLink, RespLink, history
<1>4. ASSUME NEW s \in Senders, NEW d \in Sizes, NEW b \in Modes, SendCall(s, d, b)
      PROVE  barred' = barred
  BY <1>4 DEF SendCall
<1>5. ASSUME NEW s \in Senders, PutPiece(s) \/ PutFails(s) \/ SendReturn(s)
      PROVE  barred' = barred
  BY <1>5 DEF PutPiece, PutFails, SendReturn, history
<1>6. QED
  BY <1>2, <1>3, <1>4, <1>5 DEF Next

-----------------------------------------------------------------------------
(* A blocking piece is the last of its sender.                             *)

LEMMA WaitingReach ==
  ASSUME TypeOK, Awaited, cur \in Pieces, cur.blocking
  PROVE  /\ cur.by \in Senders /\ pc[cur.by] = "wait" /\ End(cur) \in Nat
         /\ cur.from = next[cur.by] /\ cur.len = PieceSize(cur.by)
         /\ End(cur) = Reach(cur.by)
<1>1. cur \in Queued
  BY NoPieceIsNone DEF Queued
<1>2. cur.by \in Senders /\ End(cur) \in Nat
  BY DEF Pieces, End
<1>3. pc[cur.by] = "wait" /\ cur.from = next[cur.by] /\ cur.len = PieceSize(cur.by)
  BY <1>1 DEF Awaited
<1>4. QED
  BY <1>2, <1>3 DEF Reach, End

LEMMA Alone ==
  ASSUME IInv, Awaited, cur \in Pieces, cur.blocking, NEW i \in DOMAIN box
  PROVE  box[i].by # cur.by
<1>1. SUFFICES ASSUME box[i].by = cur.by PROVE FALSE
  OBVIOUS
<1>2. box[i] \in Pieces /\ box[i] \in Held
  BY DEF IInv, TypeOK, Held
<1>3. box[i].from \in Nat /\ box[i].len \in Nat \ {0}
  BY <1>2 DEF Pieces
<1>4. End(box[i]) <= Reach(box[i].by)
  BY <1>2 DEF IInv, Bounded
<1>5. End(cur) <= box[i].from
  BY <1>1, NoPieceIsNone DEF IInv, Ordered, Before
<1>6. End(cur) = Reach(cur.by) /\ End(cur) \in Nat
  BY WaitingReach DEF IInv
<1>7. QED
  BY <1>1, <1>3, <1>4, <1>5, <1>6 DEF End

LEMMA AwaitedStep ==
  ASSUME IInv, TypeOK', Awaited, Next
  PROVE  Awaited'
<1>1. SUFFICES ASSUME NEW p \in Queued', p.blocking
               PROVE  pc'[p.by] = "wait" /\ p.from = next'[p.by] /\ p.len = PieceSize(p.by)'
  BY DEF Awaited
<1>2. TypeOK
  BY DEF IInv
<1>3. ASSUME p \in Queued
      PROVE  /\ p \in Pieces /\ p.by \in Senders /\ pc[p.by] = "wait"
             /\ p.from = next[p.by] /\ p.len = PieceSize(p.by)
  <2>1. p \in Pieces
    BY <1>2, <1>3, QueuedHeld, HeldPieces
  <2>2. QED
    BY <1>1, <1>3, <2>1 DEF Awaited, Pieces
\* The sender of p is not touched.
<1>4. ASSUME p \in Queued, pc'[p.by] = pc[p.by], next'[p.by] = next[p.by], left'[p.by] = left[p.by]
      PROVE  pc'[p.by] = "wait" /\ p.from = next'[p.by] /\ p.len = PieceSize(p.by)'
  BY <1>3, <1>4 DEF PieceSize
<1>5. ASSUME NEW s \in Senders, NEW d \in Sizes, NEW b \in Modes, SendCall(s, d, b)
      PROVE  pc'[p.by] = "wait" /\ p.from = next'[p.by] /\ p.len = PieceSize(p.by)'
  <2>1. p \in Queued
    BY <1>5 DEF SendCall, reqVars, Queued
  <2>2. p.by # s
    BY <1>3, <1>5, <2>1 DEF SendCall
  <2>3. next' = next /\ pc'[p.by] = pc[p.by] /\ left'[p.by] = left[p.by]
    <3>1. CASE active
      BY <1>2, <1>3, <1>5, <2>1, <2>2, <3>1 DEF SendCall, TypeOK
    <3>2. CASE ~active
      BY <1>2, <1>3, <1>5, <2>1, <2>2, <3>2 DEF SendCall, Leave, TypeOK
    <3>3. QED
      BY <3>1, <3>2
  <2>4. QED
    BY <1>4, <2>1, <2>3
<1>6. ASSUME NEW s \in Senders, PutPiece(s)
      PROVE  pc'[p.by] = "wait" /\ p.from = next'[p.by] /\ p.len = PieceSize(p.by)'
  <2>1. CASE p \in Queued
    <3>1. p.by # s
      BY <1>3, <1>6, <2>1 DEF PutPiece
    <3>2. pc'[p.by] = pc[p.by] /\ next'[p.by] = next[p.by] /\ left'[p.by] = left[p.by]
      <4>1. CASE blocking[s]
        BY <1>2, <1>3, <1>6, <2>1, <3>1, <4>1 DEF PutPiece, TypeOK
      <4>2. CASE ~blocking[s]
        BY <1>2, <1>3, <1>6, <2>1, <3>1, <4>2 DEF PutPiece, Advance, TypeOK
      <4>3. QED
        BY <4>1, <4>2
    <3>3. QED
      BY <1>4, <2>1, <3>2
  <2>2. CASE p \notin Queued
    <3>1. p = Cut(s)
      <4>1. Cut(s) \in Pieces /\ box \in Seq(Pieces) /\ cur' = cur /\ box' = Append(box, Cut(s))
        BY <1>2, <1>6, NewPiece DEF PutPiece, Cut, reqVars, TypeOK
      <4>2. \A i \in DOMAIN box' : box'[i] = Cut(s) \/ (i \in DOMAIN box /\ box'[i] = box[i])
        BY <4>1, AppendedAt
      <4>3. QED
        BY <2>2, <4>1, <4>2 DEF Queued
    <3>2. p.by = s /\ p.from = next[s] /\ p.len = PieceSize(s) /\ blocking[s]
      BY <1>1, <3>1 DEF Cut, Piece
    <3>3. pc'[s] = "wait" /\ next' = next /\ left' = left
      BY <1>2, <1>6, <3>2 DEF PutPiece, TypeOK
    <3>4. QED
      BY <3>2, <3>3 DEF PieceSize
  <2>3. QED
    BY <2>1, <2>2
<1>7. ASSUME NEW s \in Senders, PutFails(s) \/ SendReturn(s)
      PROVE  pc'[p.by] = "wait" /\ p.from = next'[p.by] /\ p.len = PieceSize(p.by)'
  <2>1. p \in Queued
    BY <1>7 DEF PutFails, SendReturn, reqVars, Queued
  <2>2. p.by # s
    BY <1>3, <1>7, <2>1 DEF PutFails, SendReturn
  <2>3. pc'[p.by] = pc[p.by] /\ next'[p.by] = next[p.by] /\ left'[p.by] = left[p.by]
    BY <1>2, <1>3, <1>7, <2>1, <2>2 DEF PutFails, SendReturn, Advance, Leave, TypeOK
  <2>4. QED
    BY <1>4, <2>1, <2>3
<1>8. ASSUME cur # NoPiece, NEW r, Complete(r)
      PROVE  pc'[p.by] = "wait" /\ p.from = next'[p.by] /\ p.len = PieceSize(p.by)'
  <2>1. cur \in Pieces /\ cur.by \in Senders
    BY <1>2, <1>8 DEF TypeOK, Pieces
  <2>2. p \in Queued /\ \E i \in DOMAIN box : p = box[i]
    BY <1>8 DEF Complete, Queued
  <2>3. CASE ~cur.blocking
    BY <1>4, <1>8, <2>2, <2>3 DEF Complete
  <2>4. CASE cur.blocking
    <3>1. p.by # cur.by
      BY <2>1, <2>2, <2>4, Alone
    <3>2. pc'[p.by] = pc[p.by] /\ next'[p.by] = next[p.by] /\ left'[p.by] = left[p.by]
      <4>1. CASE r = "err"
        BY <1>2, <1>3, <1>8, <2>1, <2>2, <2>4, <3>1, <4>1
           DEF Complete, Returned, Leave, TypeOK
      <4>2. CASE r # "err"
        BY <1>2, <1>3, <1>8, <2>1, <2>2, <2>4, <3>1, <4>2
           DEF Complete, Returned, Advance, TypeOK
      <4>3. QED
        BY <4>1, <4>2
    <3>3. QED
      BY <1>4, <2>2, <3>2
  <2>5. QED
    BY <2>3, <2>4
<1>9. CASE ReqWake \/ ReqTimeout
  BY <1>8, <1>9 DEF ReqWake, ReqTimeout
<1>10. CASE ReqTake \/ DevAccept \/ DevRefuse \/ DevForgets \/ DevDeliver \/ DevLink \/ RespLink
  <2>1. p \in Queued
    BY <1>2, <1>10, QueuedStep DEF ReqTake, DevAccept, DevRefuse, DevForgets, DevDeliver,
       DevLink, RespLink, PutPiece, senderVars, Next, Queued, reqVars
  <2>2. pc' = pc /\ next' = next /\ left' = left
    BY <1>10 DEF ReqTake, DevAccept, DevRefuse, DevForgets, DevDeliver, DevLink, RespLink,
       senderVars
  <2>3. QED
    BY <1>4, <2>1, <2>2
<1>11. QED
  BY <1>5, <1>6, <1>7, <1>9, <1>10 DEF Next

-----------------------------------------------------------------------------
(* What was refused stays behind.                                          *)

LEMMA BehindStep ==
  ASSUME IInv, TypeOK', Awaited, Behind, Next
  PROVE  Behind'
<1>1. TypeOK /\ Bounded
  BY DEF IInv
<1>2. \A t \in Senders : /\ next[t] \in Nat /\ next'[t] \in Nat /\ next[t] <= next'[t]
                         /\ left[t] \in Nat /\ PieceSize(t) \in Nat
  BY <1>1, NextGrows, PieceSizeType
<1>3. \A t \in Senders : Reach(t) \in Nat /\ Reach(t)' \in Nat /\ Reach(t) <= Reach(t)'
  <2>1. \A t \in Senders : Reach(t) \in Nat
    BY <1>2 DEF Reach
  <2>2. \A t \in Senders : PieceSize(t)' \in Nat
    <3>1. SUFFICES ASSUME NEW t \in Senders PROVE PieceSize(t)' \in Nat
      OBVIOUS
    <3>2. left'[t] \in Nat
      BY DEF TypeOK
    <3>3. QED
      BY <3>2, SendAssumption DEF PieceSize
  <2>3. \A t \in Senders : Reach(t)' \in Nat
    BY <1>2, <2>2 DEF Reach
  <2>4. QED
    BY <1>1, <2>1, <2>3, ReachGrows
<1>4. \A t \in Senders : \A x \in given[t] : x \in Nat /\ x < Reach(t)
  BY <1>1 DEF Behind, TypeOK
<1>5. \A t \in Senders : \A x \in barred[t] : x \in Int /\ x < next[t]
  BY <1>1 DEF Behind, TypeOK
\* Bytes that are handed over are those of the current piece.
<1>6. ASSUME NEW t \in Senders, NEW x \in given'[t]
      PROVE  \/ x \in given[t]
             \/ given' # given /\ cur \in Pieces /\ t = cur.by /\ x \in Bytes(cur)
  <2>1. \/ given' = given
        \/ /\ cur \in Pieces
           /\ given' = [given EXCEPT ![cur.by] = given[cur.by] \cup Bytes(cur)]
    BY <1>1, GivenStep
  <2>2. DOMAIN given = Senders
    BY <1>1 DEF TypeOK
  <2>3. x \notin given[t] => t = cur.by /\ x \in Bytes(cur) /\ given' # given /\ cur \in Pieces
    BY <2>1, <2>2, <1>6
  <2>4. QED
    BY <2>3
\* Bytes that are barred are those of a call behind the current piece.
<1>7. ASSUME NEW t \in Senders, NEW x \in barred'[t]
      PROVE  \/ x \in barred[t]
             \/ /\ cur \in Pieces /\ cur.blocking /\ cur' = NoPiece /\ box' = box
                /\ given' = given /\ t = cur.by /\ next'[t] = next[t] + left[t]
                /\ x \in End(cur)..(next[t] + left[t] - 1)
  BY <1>1, <1>7, BarredStep DEF TypeOK
<1>8. \A t \in Senders : \A x \in given'[t] : x < Reach(t)'
  <2>1. SUFFICES ASSUME NEW t \in Senders, NEW x \in given'[t]
                 PROVE  x < Reach(t)'
    OBVIOUS
  <2>2. CASE x \in given[t]
    BY <1>3, <1>4, <2>2
  <2>3. CASE cur \in Pieces /\ t = cur.by /\ x \in Bytes(cur)
    <3>1. cur \in Held
      BY <2>3, NoPieceIsNone DEF Held
    <3>2. End(cur) \in Nat /\ End(cur) <= Reach(t)
      BY <1>1, <2>3, <3>1, HeldPieces DEF Bounded
    <3>3. x \in Int /\ x < End(cur)
      BY <2>3, <3>2 DEF Bytes, Pieces
    <3>4. QED
      BY <1>3, <3>2, <3>3
  <2>4. QED
    BY <1>6, <2>2, <2>3
<1>9. \A t \in Senders : \A x \in barred'[t] : x < next'[t]
  <2>1. SUFFICES ASSUME NEW t \in Senders, NEW x \in barred'[t]
                 PROVE  x < next'[t]
    OBVIOUS
  <2>2. CASE x \in barred[t]
    BY <1>2, <1>5, <2>2
  <2>3. CASE /\ cur \in Pieces /\ next'[t] = next[t] + left[t]
             /\ x \in End(cur)..(next[t] + left[t] - 1)
    BY <1>2, <2>3 DEF Pieces, End
  <2>4. QED
    BY <1>7, <2>2, <2>3
<1>10. \A p \in Queued' : Bytes(p) \cap barred'[p.by] = {}
  <2>1. SUFFICES ASSUME NEW p \in Queued', NEW x \in Bytes(p), x \in barred'[p.by]
                 PROVE  FALSE
    OBVIOUS
  <2>2. CASE p \in Queued
    <3>1. p \in Pieces /\ p.by \in Senders
      BY <1>1, <2>2, QueuedHeld, HeldPieces
    <3>2. x \notin barred[p.by]
      BY <2>2 DEF Behind
    <3>3. cur \in Pieces /\ cur.blocking /\ cur' = NoPiece /\ box' = box /\ p.by = cur.by
      BY <1>7, <2>1, <3>1, <3>2
    <3>4. \E i \in DOMAIN box : p = box[i]
      BY <3>3 DEF Queued
    <3>5. QED
      BY <3>3, <3>4, Alone
  <2>3. ASSUME NEW s \in Senders, PutPiece(s), p = Cut(s)
        PROVE  FALSE
    <3>1. p.by = s /\ x \in next[s]..(next[s] + PieceSize(s) - 1)
      <4>1. p.by = s /\ p.from = next[s] /\ p.len = PieceSize(s)
        BY <2>3 DEF Cut, Piece
      <4>2. Bytes(p) = next[s]..(next[s] + PieceSize(s) - 1)
        BY <1>2, <4>1 DEF Bytes, End
      <4>3. QED
        BY <2>1, <4>1, <4>2
    <3>2. barred' = barred
      BY <2>3 DEF PutPiece, history
    <3>3. QED
      BY <1>2, <1>5, <2>1, <3>1, <3>2
  <2>4. QED
    BY <1>1, <2>2, <2>3, QueuedStep
<1>11. \A t \in Senders : given'[t] \cap barred'[t] = {}
  <2>1. SUFFICES ASSUME NEW t \in Senders, NEW x \in given'[t], x \in barred'[t]
                 PROVE  FALSE
    OBVIOUS
  <2>2. CASE x \in barred[t]
    <3>1. x \notin given[t]
      BY <2>2 DEF Behind, StopsAtError
    <3>2. cur \in Pieces /\ t = cur.by /\ x \in Bytes(cur)
      BY <1>6, <3>1
    <3>3. cur \in Queued
      BY <3>2, NoPieceIsNone DEF Queued
    <3>4. QED
      BY <2>2, <3>2, <3>3 DEF Behind
  <2>3. CASE x \notin barred[t]
    <3>1. /\ cur \in Pieces /\ cur.blocking /\ given' = given /\ t = cur.by
          /\ x \in End(cur)..(next[t] + left[t] - 1)
      BY <1>7, <2>1, <2>3
    <3>2. x \in given[t]
      BY <2>1, <3>1
    <3>3. End(cur) = Reach(t) /\ End(cur) \in Nat
      BY <1>1, <3>1, WaitingReach
    <3>4. QED
      BY <1>4, <3>1, <3>2, <3>3
  <2>4. QED
    BY <2>2, <2>3
<1>12. QED
  BY <1>8, <1>9, <1>10, <1>11 DEF Behind, StopsAtError, Bytes, End

-----------------------------------------------------------------------------
(* espOK means handed over.                                                *)

LEMMA HandedStep ==
  ASSUME Paced, IInv, TypeOK', Awaited, Handed, Next
  PROVE  Handed'
<1>1. TypeOK /\ Answered
  BY DEF IInv
\* Bytes are handed over for good.
<1>2. \A t \in Senders : given[t] \subseteq given'[t]
  BY <1>1, GivenStep DEF TypeOK
<1>3. sync' /\ res' = "ok" => Bytes(cur') \subseteq given'[cur'.by]
  <2>1. CASE sync' = sync /\ res' = res /\ cur' = cur
    <3>1. cur # NoPiece /\ sync => cur.by \in Senders
      BY <1>1 DEF TypeOK, Pieces
    <3>2. QED
      BY <1>1, <1>2, <2>1, <3>1 DEF Handed, Answered
  <2>2. CASE ReqTake \/ ReqWake \/ ReqTimeout
    BY <1>1, <2>2 DEF ReqTake, ReqWake, ReqTimeout, Answered
  <2>3. CASE DevAccept
    <3>1. cur \in Pieces /\ cur.by \in Senders /\ cur' = cur
      BY <1>1, <2>3, NoPieceIsNone DEF DevAccept, TypeOK, Pieces
    <3>2. given' = [given EXCEPT ![cur.by] = given[cur.by] \cup Bytes(cur)]
      BY <2>3, <3>1, NoPieceIsNone DEF DevAccept, Data
    <3>3. QED
      BY <1>1, <3>1, <3>2 DEF TypeOK
  <2>4. CASE DevRefuse
    BY <1>1, <2>1, <2>4 DEF DevRefuse, Ends, Answered
  <2>5. CASE DevDeliver
    <3>1. CASE cur = NoPiece
      BY <2>1, <2>5, <3>1 DEF DevDeliver, Ends
    <3>2. CASE cur # NoPiece
      <4>1. Bytes(cur) \subseteq given[cur.by] /\ cur.by \in Senders /\ cur' = cur
        BY <1>1, <2>5, <3>2 DEF Handed, DevDeliver, TypeOK, Pieces
      <4>2. QED
        BY <1>2, <4>1
    <3>3. QED
      BY <3>1, <3>2
  <2>6. CASE DevForgets \/ DevLink \/ RespLink
    BY <2>1, <2>6 DEF DevForgets, DevLink, RespLink, reqVars
  <2>7. ASSUME NEW s \in Senders, NEW d \in Sizes, NEW b \in Modes, SendCall(s, d, b)
        PROVE  sync' = sync /\ res' = res /\ cur' = cur
    BY <2>7 DEF SendCall, reqVars
  <2>8. ASSUME NEW s \in Senders, PutPiece(s) \/ PutFails(s) \/ SendReturn(s)
        PROVE  sync' = sync /\ res' = res /\ cur' = cur
    BY <2>8 DEF PutPiece, PutFails, SendReturn, reqVars
  <2>9. QED
    BY <2>1, <2>2, <2>3, <2>4, <2>5, <2>6, <2>7, <2>8 DEF Next
<1>4. cur' # NoPiece /\ job'.stage = "data" =>
        job'.piece = cur' /\ Bytes(cur') \subseteq given'[cur'.by]
  <2>1. CASE job' = job /\ cur' = cur
    <3>1. cur # NoPiece => cur.by \in Senders
      BY <1>1 DEF TypeOK, Pieces
    <3>2. QED
      BY <1>2, <2>1, <3>1 DEF Handed
  <2>2. CASE cur' = NoPiece \/ job' = NoJob
    BY <2>2 DEF NoJob, Job
  <2>3. CASE ReqTake
    BY <2>3 DEF ReqTake, Job
  <2>4. CASE DevAccept
    <3>1. cur \in Pieces /\ cur.by \in Senders /\ cur' = cur
      BY <1>1, <2>4, NoPieceIsNone DEF DevAccept, TypeOK, Pieces
    <3>2. given' = [given EXCEPT ![cur.by] = given[cur.by] \cup Bytes(cur)]
          /\ job' = Job("data", cur)
      BY <2>4, <3>1, NoPieceIsNone DEF DevAccept, Data
    <3>3. QED
      BY <1>1, <3>1, <3>2 DEF TypeOK, Job
  <2>5. CASE ReqWake \/ ReqTimeout \/ DevRefuse \/ DevForgets \/ DevDeliver
    BY <2>2, <2>5 DEF ReqWake, ReqTimeout, Complete, DevRefuse, DevForgets, DevDeliver
  <2>6. CASE DevLink \/ RespLink
    BY <2>1, <2>6 DEF DevLink, RespLink, reqVars, devVars
  <2>7. ASSUME NEW s \in Senders, NEW d \in Sizes, NEW b \in Modes, SendCall(s, d, b)
        PROVE  job' = job /\ cur' = cur
    BY <2>7 DEF SendCall, reqVars, devVars
  <2>8. ASSUME NEW s \in Senders, PutPiece(s) \/ PutFails(s) \/ SendReturn(s)
        PROVE  job' = job /\ cur' = cur
    BY <2>8 DEF PutPiece, PutFails, SendReturn, reqVars, devVars
  <2>9. QED
    BY <2>1, <2>2, <2>3, <2>4, <2>5, <2>6, <2>7, <2>8 DEF Next
<1>5. \A t \in Senders :
        blocking'[t] /\ ~lost'[t] /\ (pc'[t] # "idle" \/ response'[t] = "ok")
          => begin'[t]..(next'[t] - 1) \subseteq given'[t]
  <2>1. SUFFICES ASSUME NEW t \in Senders, blocking'[t], ~lost'[t],
                        pc'[t] # "idle" \/ response'[t] = "ok"
                 PROVE  begin'[t]..(next'[t] - 1) \subseteq given'[t]
    BY Zenon
  \* The call of t has sent no more than before.
  <2>2. ASSUME blocking'[t] = blocking[t], lost'[t] = lost[t], begin'[t] = begin[t],
               next'[t] = next[t], pc[t] # "idle" \/ response[t] = "ok"
        PROVE  begin'[t]..(next'[t] - 1) \subseteq given'[t]
    <3>1. begin[t]..(next[t] - 1) \subseteq given[t]
      BY <2>1, <2>2 DEF Handed
    <3>2. QED
      BY <1>2, <2>2, <3>1
  <2>3. ASSUME NEW s \in Senders, NEW d \in Sizes, NEW b \in Modes, SendCall(s, d, b)
        PROVE  begin'[t]..(next'[t] - 1) \subseteq given'[t]
    <3>1. CASE s = t
      <4>1. begin'[t] = next[t] /\ next'[t] = next[t] /\ next[t] \in Nat
        BY <1>1, <2>3, <3>1 DEF SendCall, TypeOK
      <4>2. QED
        BY <4>1
    <3>2. CASE s # t
      <4>1. /\ blocking'[t] = blocking[t] /\ lost'[t] = lost[t] /\ begin'[t] = begin[t]
            /\ next'[t] = next[t]
        BY <1>1, <2>3, <3>2 DEF SendCall, TypeOK
      <4>2. pc'[t] = pc[t] /\ response'[t] = response[t]
        <5>1. CASE active
          BY <1>1, <2>3, <3>2, <5>1 DEF SendCall, TypeOK
        <5>2. CASE ~active
          BY <1>1, <2>3, <3>2, <5>2 DEF SendCall, Leave, TypeOK
        <5>3. QED
          BY <5>1, <5>2
      <4>3. QED
        BY <2>1, <2>2, <4>1, <4>2
    <3>3. QED
      BY <3>1, <3>2
  <2>4. ASSUME NEW s \in Senders, PutPiece(s)
        PROVE  begin'[t]..(next'[t] - 1) \subseteq given'[t]
    <3>1. blocking'[t] = blocking[t] /\ lost'[t] = lost[t] /\ begin'[t] = begin[t]
      BY <2>4 DEF PutPiece, history
    <3>2. CASE blocking[s]
      <4>1. next' = next /\ response' = response /\ (s = t => pc[t] # "idle")
            /\ (s # t => pc'[t] = pc[t])
        BY <1>1, <2>4, <3>2 DEF PutPiece, TypeOK
      <4>2. QED
        BY <2>1, <2>2, <3>1, <4>1
    <3>3. CASE ~blocking[s]
      <4>1. s # t
        BY <2>1, <3>1, <3>3
      <4>2. next'[t] = next[t] /\ response'[t] = response[t] /\ pc' = pc
        BY <1>1, <2>4, <3>3, <4>1 DEF PutPiece, Advance, TypeOK
      <4>3. QED
        BY <2>1, <2>2, <3>1, <4>2
    <3>4. QED
      BY <3>2, <3>3
  <2>5. ASSUME NEW s \in Senders, PutFails(s)
        PROVE  begin'[t]..(next'[t] - 1) \subseteq given'[t]
    <3>1. s # t
      BY <1>1, <2>1, <2>5 DEF PutFails, TypeOK
    <3>2. /\ blocking'[t] = blocking[t] /\ lost'[t] = lost[t] /\ begin'[t] = begin[t]
          /\ next'[t] = next[t] /\ response'[t] = response[t] /\ pc' = pc
      BY <1>1, <2>5, <3>1 DEF PutFails, Advance, TypeOK
    <3>3. QED
      BY <2>1, <2>2, <3>2
  <2>6. ASSUME NEW s \in Senders, SendReturn(s)
        PROVE  begin'[t]..(next'[t] - 1) \subseteq given'[t]
    <3>1. /\ blocking'[t] = blocking[t] /\ lost'[t] = lost[t] /\ begin'[t] = begin[t]
          /\ next'[t] = next[t] /\ response'[t] = response[t]
          /\ (s = t => pc[t] # "idle") /\ (s # t => pc'[t] = pc[t])
      BY <1>1, <2>6 DEF SendReturn, Leave, history, TypeOK
    <3>2. QED
      BY <2>1, <2>2, <3>1
  <2>7. ASSUME cur # NoPiece, NEW r \in {"ok", "err", "timeout"}, Complete(r),
               r = "ok" => Bytes(cur) \subseteq given[cur.by]
        PROVE  begin'[t]..(next'[t] - 1) \subseteq given'[t]
    <3>1. cur \in Pieces /\ cur.by \in Senders
      BY <1>1, <2>7 DEF TypeOK, Pieces
    <3>2. blocking' = blocking /\ begin' = begin
      BY <2>7 DEF Complete
    <3>3. CASE ~cur.blocking
      BY <2>1, <2>2, <2>7, <3>2, <3>3 DEF Complete, history
    <3>4. CASE cur.blocking /\ t # cur.by
      <4>1. lost'[t] = lost[t]
        BY <1>1, <2>7, <3>1, <3>4 DEF Complete, TypeOK
      <4>2. next'[t] = next[t] /\ pc'[t] = pc[t] /\ response'[t] = response[t]
        <5>1. CASE r = "err"
          BY <1>1, <2>7, <3>1, <3>4, <5>1 DEF Complete, Returned, Leave, TypeOK
        <5>2. CASE r # "err"
          BY <1>1, <2>7, <3>1, <3>4, <5>2 DEF Complete, Returned, Advance, TypeOK
        <5>3. QED
          BY <5>1, <5>2
      <4>3. QED
        BY <2>1, <2>2, <3>2, <4>1, <4>2
    <3>5. CASE cur.blocking /\ t = cur.by
      <4>1. lost' = [lost EXCEPT ![t] = lost[t] \/ r = "timeout"]
        BY <2>7, <3>5, Zenon DEF Complete
      <4>2. r # "timeout" /\ ~lost[t]
        BY <1>1, <2>1, <4>1 DEF TypeOK
      <4>3. r # "err"
        BY <1>1, <2>1, <2>7, <3>5 DEF Complete, Returned, Leave, TypeOK
      <4>4. r = "ok"
        BY <4>2, <4>3
      <4>5. /\ pc[t] = "wait" /\ cur.from = next[t] /\ cur.len = PieceSize(t)
            /\ next[t] \in Nat /\ PieceSize(t) \in Nat
        BY <1>1, <3>1, <3>5, WaitingReach, PieceSizeType
      <4>6. begin[t]..(next[t] - 1) \subseteq given[t] /\ begin[t] \in Nat
        BY <1>1, <2>1, <3>2, <4>2, <4>5 DEF Handed, TypeOK
      <4>7. next[t]..(next[t] + PieceSize(t) - 1) \subseteq given[t]
        BY <2>7, <3>5, <4>4, <4>5 DEF Bytes, End
      <4>8. next'[t] = next[t] + PieceSize(t)
        BY <1>1, <2>7, <3>5, <4>3 DEF Complete, Returned, Advance, TypeOK
      <4>9. QED
        BY <1>2, <3>2, <4>5, <4>6, <4>7, <4>8
    <3>6. QED
      BY <3>3, <3>4, <3>5
  <2>8. CASE ReqWake
    BY <1>1, <2>7, <2>8 DEF ReqWake, Handed, Answered
  <2>9. CASE ReqTimeout
    BY <2>7, <2>9 DEF ReqTimeout
  <2>10. CASE ReqTake \/ DevAccept \/ DevRefuse \/ DevForgets \/ DevDeliver \/ DevLink \/ RespLink
    BY <2>1, <2>2, <2>10 DEF ReqTake, DevAccept, DevRefuse, DevForgets, DevDeliver, DevLink,
       RespLink, senderVars, history
  <2>11. QED
    BY <2>3, <2>4, <2>5, <2>6, <2>8, <2>9, <2>10 DEF Next
<1>6. QED
  BY <1>3, <1>4, <1>5 DEF Handed, Bytes, End

-----------------------------------------------------------------------------
(* The theorems.                                                           *)

LEMMA ErrInductive == Spec => []ErrInv
<1>1. Init => Awaited /\ Behind
  <2>1. SUFFICES ASSUME Init PROVE Awaited /\ Behind
    OBVIOUS
  <2>2. Queued = {}
    BY <2>1 DEF Init, Queued
  <2>3. QED
    BY <2>1, <2>2 DEF Init, Awaited, Behind, StopsAtError
<1>2. IInv /\ TypeOK' /\ Awaited /\ Behind /\ [Next]_vars => Awaited' /\ Behind'
  <2>1. SUFFICES ASSUME IInv, TypeOK', Awaited, Behind, [Next]_vars PROVE Awaited' /\ Behind'
    OBVIOUS
  <2>2. CASE Next
    BY <2>1, <2>2, AwaitedStep, BehindStep
  <2>3. CASE UNCHANGED vars
    BY <2>1, <2>3 DEF Awaited, Behind, StopsAtError, Queued, Reach, PieceSize, Bytes, End,
       vars, senderVars, devVars, reqVars, history
  <2>4. QED
    BY <2>1, <2>2, <2>3
<1>3. IInv => TypeOK
  BY DEF IInv
<1>4. ErrInv <=> IInv /\ Awaited /\ Behind
  BY DEF ErrInv
<1>5. QED
  BY <1>1, <1>2, <1>3, <1>4, Inductive, PTL DEF Spec

\* Nothing behind a refused piece of a blocking call is ever handed to the
\* device, and nobody has it queued: the call stops (the break of the loop).
THEOREM StopsAtErrorCorrect == Spec => []StopsAtError
<1>1. ErrInv => StopsAtError
  BY DEF ErrInv, Behind
<1>2. QED
  BY <1>1, ErrInductive, PTL

\* When the pause between two requests is enough for the device, a blocking call
\* that reports espOK, with no piece lost on the way, has handed over every byte.
THEOREM OkHandedCorrect == Paced /\ Spec => []OkHanded
<1> SUFFICES ASSUME Paced PROVE Spec => []OkHanded
  OBVIOUS
<1>1. Init => Handed
  BY DEF Init, Handed, NoJob, Job
<1>2. ErrInv /\ TypeOK' /\ Handed /\ [Next]_vars => Handed'
  <2>1. SUFFICES ASSUME ErrInv, TypeOK', Handed, [Next]_vars PROVE Handed'
    OBVIOUS
  <2>2. CASE Next
    BY <2>1, <2>2, HandedStep DEF ErrInv
  <2>3. CASE UNCHANGED vars
    BY <2>1, <2>3 DEF Handed, Bytes, End, vars, senderVars, devVars, reqVars, history
  <2>4. QED
    BY <2>1, <2>2, <2>3
<1>3. ErrInv => TypeOK
  BY DEF ErrInv, IInv
<1>4. Handed => OkHanded
  BY DEF Handed, OkHanded
<1>5. QED
  BY <1>1, <1>2, <1>3, <1>4, ErrInductive, PTL DEF Spec
=============================================================================
