------------------------------ MODULE CmdQueue ------------------------------
(***************************************************************************)
(* What the AT-command core promises its callers, with no thread, lock or  *)
(* semaphore in it: a request is refused or accepted, the accepted ones    *)
(* are served one at a time in the order they were accepted, and each is   *)
(* replied to once, not before it has been served.                         *)
(***************************************************************************)
EXTENDS Sequences

CONSTANT Msgs  (* the requests *)

VARIABLES
  fifo,    \* accepted requests that are not served yet, in order
  status,  \* of each request
  replied  \* the requests whose callers have their reply

vars == <<fifo, status, replied>>

Init ==
  /\ fifo = <<>>
  /\ status = [m \in Msgs |-> "new"]
  /\ replied = {}

Accept(m) ==
  /\ status[m] = "new"
  /\ fifo' = Append(fifo, m)
  /\ status' = [status EXCEPT ![m] = "accepted"]
  /\ UNCHANGED replied

Refuse(m) ==
  /\ status[m] = "new"
  /\ status' = [status EXCEPT ![m] = "refused"]
  /\ UNCHANGED <<fifo, replied>>

\* The oldest request is served; one without a blocked caller is replied to in
\* the same step.
Serve ==
  /\ fifo # <<>>
  /\ fifo' = Tail(fifo)
  /\ status' = [status EXCEPT ![Head(fifo)] = "served"]
  /\ replied' \in {replied, replied \cup {Head(fifo)}}

Reply(m) ==
  /\ status[m] = "served" /\ m \notin replied
  /\ replied' = replied \cup {m}
  /\ UNCHANGED <<fifo, status>>

Next == \/ \E m \in Msgs : Accept(m) \/ Refuse(m) \/ Reply(m)
        \/ Serve

Spec == Init /\ [][Next]_vars

FairSpec == Spec /\ WF_vars(Serve) /\ \A m \in Msgs : WF_vars(Reply(m))
=============================================================================
