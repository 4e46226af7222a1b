--------------------------- MODULE ATCorePunctual ---------------------------
(***************************************************************************)
(* What is needed of the device for the AT-command core to match answers   *)
(* and commands, which it does by time only, and the inductive invariants  *)
(* that follow where each piece of an answer is on its way.                *)
(***************************************************************************)
EXTENDS ATCore, FiniteSets

-----------------------------------------------------------------------------
(* Hypotheses on the device.                                               *)

\* The kinds of lines that end the response to command c.
EndsResponse(c, k) ==
  \/ EndsAnyCmd(k)
  \/ c \in {"CWJAP", "CWMODE", "RESET"} /\ k # "blank"
  \/ c = "CWQAP" /\ k = "gone"

\* A line that comes after a stray "> " is seen as "text".
MayEnd(c, k) == EndsResponse(c, k) \/ EndsResponse(c, "text")

Sent == Cmds \ {"RESET"}

\* Only the last chunk of an answer ends the response, and no line sent unasked
\* does.  (AT+CIPSEND is left out: the OK before its prompt ends the response.)
AnswersEndOnce ==
  /\ "CIPSEND" \notin Cmds
  /\ \A c \in Sent :
       /\ \A k \in UrcLines : ~MayEnd(c, k)
       /\ \A a \in Answers[c] : \A i \in DOMAIN a :
            i # Len(a) => \A j \in DOMAIN a[i] : ~MayEnd(c, a[i][j])

\* The commands leave the verdict to OK and ERROR, which end an answer and are
\* nowhere else in it; the response mailbox has room for an answer and the
\* lines sent unasked.
AnswersEndWithVerdict ==
  /\ Sent \subseteq {"GMR", "CWLAP"}
  /\ \A k \in UrcLines : ~EndsAnyCmd(k) /\ k # "prompt"
  /\ \A c \in Sent : \A a \in Answers[c] :
       /\ MaxUrc + Len(a) <= RespCap
       /\ \A i \in DOMAIN a : \A j \in DOMAIN a[i] :
            /\ a[i][j] \notin {"prompt", "rdy"}
            /\ a[i][j] \in {"ok", "err"} => i = Len(a) /\ j = Len(a[i])

-----------------------------------------------------------------------------
(* The invariant behind FreshToken and OwnAnswer.                          *)

\* A chunk that may end the response to its command.
Ending(c) ==
  c.own \in Msgs /\ \E i \in DOMAIN c.lines : MayEnd(cmd[c.own], c.lines[i])

NoneAsked(b) == \A i \in DOMAIN b : b[i].own = Unasked

\* What the device was asked for, and has not been parsed, belongs to the
\* command the request thread waits for.
WireInv ==
  /\ \A i \in DOMAIN dev : dev[i].own = qmsg
  /\ \A i \in DOMAIN respBox : respBox[i].own \in {qmsg, Unasked}
  /\ chunk.own \in {qmsg, Unasked}
  /\ qpc # "wait" => dev = <<>> /\ NoneAsked(respBox) /\ chunk.own = Unasked
  /\ qpc \in {"wait", "relock"} => cmd[qmsg] # "RESET"

\* Lines sent unasked end nothing.
UnaskedInv ==
  /\ \A i \in DOMAIN respBox : respBox[i].own = Unasked =>
       \A j \in DOMAIN respBox[i].lines : respBox[i].lines[j] \in UrcLines
  /\ chunk.own = Unasked =>
       /\ \A j \in DOMAIN chunk.lines : chunk.lines[j] \in UrcLines
       /\ ~pend /\ ppc # "signal"

\* The response thread has a chunk from its mailbox get to the end of it.
ChunkInv ==
  /\ ppc \in {"get", "yield"} => chunk = NoChunk
  /\ ppc # "parse" => ~pend

\* The end of an answer is the last of it, wherever the end is; and when it has
\* reached sem_th_sync nothing of the answer is left.
EndInv ==
  /\ \A i, j \in DOMAIN dev : i < j => ~Ending(dev[i])
  /\ \A i \in DOMAIN respBox : Ending(respBox[i]) =>
       dev = <<>> /\ \A j \in DOMAIN respBox : i < j => respBox[j].own = Unasked
  /\ Ending(chunk) \/ pend \/ ppc = "signal" => dev = <<>> /\ NoneAsked(respBox)
  /\ sync # Empty =>
       /\ sync = qmsg /\ qpc = "wait"
       /\ dev = <<>> /\ NoneAsked(respBox) /\ chunk.own = Unasked

PunctualInv == WireInv /\ UnaskedInv /\ ChunkInv /\ EndInv

-----------------------------------------------------------------------------
(* The invariant behind TruthfulResult.                                    *)

\* The end of the answer to the current command has been parsed.
Ended == pend \/ ppc = "signal" \/ sync # Empty

\* Result r is the verdict the device gave on m.
Answered(m, r) ==
  \/ Said(m, "ok")  /\ r \in {"ok", "okmore"}
  \/ Said(m, "err") /\ r \in {"err", "errspec", "errmem"}

\* OK and ERROR are the last line of an answer and of their chunk.
VerdictsLast(c) ==
  \A j \in DOMAIN c.lines :
    /\ c.lines[j] # "prompt"
    /\ EndsAnyCmd(c.lines[j]) =>
         /\ c.own \in Msgs /\ j = Len(c.lines)
         /\ c.lines[j] \in {"ok", "err"} /\ Said(c.own, c.lines[j])

LinesInv ==
  /\ ~stray
  /\ VerdictsLast(chunk)
  /\ \A i \in DOMAIN respBox : VerdictsLast(respBox[i])
  /\ \A i \in DOMAIN dev : VerdictsLast(dev[i])
  /\ pend => chunk.lines = <<>>

\* The positions in the response mailbox of pieces of answers, and of lines sent
\* unasked.
AskedAt(b)   == {i \in DOMAIN b : b[i].own # Unasked}
UnaskedAt(b) == {i \in DOMAIN b : b[i].own = Unasked}

\* There is room in the mailbox for all that can come, and without lines sent
\* unasked there are no such chunks.
RoomInv ==
  /\ qpc = "wait" =>
       /\ plan[qmsg] \in Answers[cmd[qmsg]]
       /\ Cardinality(AskedAt(respBox)) + Len(dev) <= Len(plan[qmsg])
  /\ Cardinality(UnaskedAt(respBox)) <= urcs
  /\ urcs = 0 => /\ \A i \in DOMAIN respBox : respBox[i].own # Unasked
                 /\ chunk.own = Unasked => chunk.lines = <<>>

\* The verdict of the device on the current command is on its way, or it is the
\* result of the request.
VerdictInv ==
  /\ qpc = "wait" /\ (Said(qmsg, "ok") \/ Said(qmsg, "err")) =>
       \/ Ended \/ Ending(chunk)
       \/ \E i \in DOMAIN respBox : Ending(respBox[i])
       \/ \E i \in DOMAIN dev : Ending(dev[i])
  /\ (qpc = "wait" /\ Ended) \/ (qpc = "relock" /\ ~qtmo) =>
       (Clean(qmsg) => Answered(qmsg, res[qmsg]))
  /\ qpc = "relock" /\ qtmo => ~Said(qmsg, "ok") /\ ~Said(qmsg, "err")

\* So is the result a caller is going to read, which no store of espINPROG
\* will overwrite.
ReportInv ==
  /\ qpc \in {"events", "apicb", "clear"} =>
       (Clean(qmsg) => Truthful(qmsg, res[qmsg]))
  /\ \A m \in Msgs : sem[m] => Marked(m) /\ (Clean(m) => Truthful(m, res[m]))
  /\ \/ qpc \in {"relock", "events", "apicb", "clear"}
     \/ qpc = "wait" /\ (Ended \/ chunk.own # Unasked \/ ~NoneAsked(respBox))
     => Marked(qmsg)

TruthInv == LinesInv /\ RoomInv /\ VerdictInv /\ ReportInv /\ TruthfulResult
=============================================================================
