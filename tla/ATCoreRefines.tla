--------------------------- MODULE ATCoreRefines ----------------------------
(***************************************************************************)
(* The AT-command core implements the request queue of CmdQueue.           *)
(***************************************************************************)
EXTENDS ATCore

\* The results of a call whose message never reached the request thread.  The
\* memory of a message may happen to hold one of their values when it is
\* allocated; that is "junk" like any other value, so that a refusal can be told
\* from a reply.
Refusals == {"errblocking", "mboxfull"}

ASSUME RefusalAssumption == GarbageRes \cap Refusals = {}

\* The request in the hands of the request thread is unserved until its caller
\* has been woken or called back.
InService == qmsg # NoMsg /\ qpc \notin {"apicb", "clear"}

absFifo == (IF InService THEN <<qmsg>> ELSE <<>>) \o reqBox

\* Request m is in the mailbox b.
Queued(m, b) == \E i \in DOMAIN b : b[i] = m

Unserved(m) == (InService /\ m = qmsg) \/ Queued(m, reqBox)

NotHandedOver(m) ==
  \/ mem[m] = "unused"
  \/ \E t \in ThreadIds : apc[t] \in {"check", "put"} /\ amsg[t] = m

StatusOf(m) ==
  IF NotHandedOver(m) THEN "new"
  ELSE IF out[m] \in Refusals THEN "refused"
  ELSE IF Unserved(m) THEN "accepted" ELSE "served"

absStatus == [m \in Msgs |-> StatusOf(m)]

absReplied == {m \in Msgs : out[m] \notin Refusals \cup {"none"}}

CQ == INSTANCE CmdQueue WITH fifo <- absFifo, status <- absStatus,
                             replied <- absReplied

\* Requests are served one at a time in the order the mailbox accepted them,
\* each caller gets one reply, and none before its request has been served,
\* whatever the threads, the callbacks and the device do (esp.c:220-274,
\* esp_thread.c:4-52).
ImplementsQueue == CQ!Spec

\* Moreover every accepted request is served, and its caller replied to.
ServesQueue == CQ!FairSpec

-----------------------------------------------------------------------------
(* What the refinement needs besides IInv.                                 *)

\* Nobody writes to a message a value that means a refusal.
ResInv == \A m \in Msgs : res[m] \notin Refusals

\* A thread blocks, or is about to, on the answer to m.
Awaited(m) ==
  \E t \in ThreadIds : apc[t] \in {"mark", "wait"} /\ amsg[t] = m /\ blocking[m]

\* Nothing is reported on a request while its caller or the request thread has
\* still to report on it.
OutInv ==
  \A m \in Msgs : NotHandedOver(m) \/ Unserved(m) \/ Awaited(m) => out[m] = "none"
=============================================================================
