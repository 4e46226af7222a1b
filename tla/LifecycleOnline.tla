-------------------------- MODULE LifecycleOnline ---------------------------
(***************************************************************************)
(* A reset leaves the library listening, and espOK of eESPinit or          *)
(* eESPresetWithDelay means that the device has been found.                *)
(***************************************************************************)
EXTENDS LifecycleProofs

-----------------------------------------------------------------------------
(* Hypotheses on the applications.                                         *)

\* Only Main resets, and only Main switches off.
OnlyMainResets == AppOps \cap ResetOps = {}
OnlyMainSwitchesOff == AppOps \cap {"off", "close"} = {}

-----------------------------------------------------------------------------
(* Where Main is in a reset.                                               *)

\* The step of eESPresetWithDelay, which eESPinit ends with; 0 outside.
Pos == IF op[Main] = "reset" THEN at[Main]
       ELSE IF op[Main] = "init" /\ ~RestoreOnInit THEN at[Main] - 2 ELSE 0

LEMMA PosHere ==
  ASSUME CallTypes, CallInv, Pos > 0
  PROVE  /\ Main \in Tasks /\ op[Main] \in {"reset", "init"} /\ at[Main] \in Nat
         /\ Pos \in 1..10 /\ Here(Main) = ResetSteps[Pos]
         /\ at[Main] = Size(op[Main]) <=> Pos = 10
         /\ ~SpecialAt(op[Main], at[Main])
<1>1. Main \in Tasks
  BY DEF Tasks
<1>2. op[Main] \in {"reset", "init"} /\ op[Main] # "idle"
  BY DEF Pos
<1>3. at[Main] \in 1..Size(op[Main])
  BY <1>1, <1>2, Where
<1>4. CASE op[Main] = "reset"
  <2>1. Pos = at[Main] /\ Size(op[Main]) = 10 /\ Steps(op[Main]) = ResetSteps
    BY <1>4, Sizes DEF Pos, Steps
  <2>2. QED
    BY <2>1, <1>1, <1>3, <1>4 DEF Here, SpecialAt
<1>5. CASE op[Main] = "init"
  <2>1. /\ ~RestoreOnInit /\ Pos = at[Main] - 2 /\ Size(op[Main]) = 12
        /\ Steps(op[Main]) = InitSteps
    BY <1>5, Sizes DEF Pos, Steps
  <2>2. Pos \in 1..10 /\ 2 + Pos = at[Main] /\ at[Main] \in Nat
    BY <2>1, <1>3
  <2>3. InitSteps[2 + Pos] = ResetSteps[Pos]
    BY <2>1, <2>2, InitStepsAre
  <2>4. QED
    BY <2>1, <2>2, <2>3, <1>1, <1>5 DEF Here, SpecialAt
<1>6. QED
  BY <1>2, <1>4, <1>5

\* When Main ends a step it leaves the reset or is at the next step.
LEMMA PosMoves ==
  ASSUME CallTypes, CallInv, op[Main] # "idle", NEW r, Ended(Main, r)
  PROVE  /\ Left(Main, r) => Pos' = 0
         /\ WentOn(Main, r) =>
              \/ Pos' = Pos + 1 /\ (op[Main] = "reset" \/ (op[Main] = "init" /\ ~RestoreOnInit))
              \/ Pos' = 0 /\ op[Main] # "reset" /\ (op[Main] = "init" => RestoreOnInit)
<1>1. at[Main] \in Int
  BY DEF CallTypes, Tasks
<1>2. Left(Main, r) => Pos' = 0
  BY DEF Left, Pos
<1>3. ASSUME WentOn(Main, r)
      PROVE  \/ Pos' = Pos + 1 /\ (op[Main] = "reset" \/ (op[Main] = "init" /\ ~RestoreOnInit))
             \/ Pos' = 0 /\ op[Main] # "reset" /\ (op[Main] = "init" => RestoreOnInit)
  <2>1. op'[Main] = op[Main] /\ at'[Main] = at[Main] + 1
    BY <1>3 DEF WentOn
  <2>2. (at[Main] + 1) - 2 = (at[Main] - 2) + 1
    BY <1>1
  <2>3. CASE op[Main] = "reset"
    BY <2>1, <2>3 DEF Pos
  <2>4. CASE op[Main] = "init" /\ ~RestoreOnInit
    BY <2>1, <2>2, <2>4 DEF Pos
  <2>5. CASE op[Main] # "reset" /\ (op[Main] = "init" => RestoreOnInit)
    BY <2>1, <2>5 DEF Pos
  <2>6. QED
    BY <2>3, <2>4, <2>5
<1>4. QED
  BY <1>2, <1>3

\* What the other operations of an application consist of.
LEMMA AppSteps ==
  ASSUME NEW o \in Operations, o \notin ResetOps \cup {"deinit"}, NEW k \in 1..Size(o)
  PROVE  /\ Steps(o)[k].do \notin {"stop", "start", "tell"} \cup Special
         /\ o \notin {"off", "close"} => Steps(o)[k].do \notin {"off", "absent"}
         /\ Steps(o)[k].do = "ask" => Steps(o)[k].cmd \notin {"RESET", "RESTORE"}
<1>1. /\ \A d \in {"test", "absent", "supply", "powered", "off"} :
           Do(d) \in StepType
      /\ AskPresent("CWQAP") \in StepType /\ AskPresent("CWJAP") \in StepType
      /\ Ask("GSLP", Results) \in StepType /\ Ask("GMR", Results) \in StepType
  BY StepIsStep DEF Verbs, Cmds
<1>2. CASE o = "close"
  <2>1. Steps(o) = <<Do("test"), AskPresent("CWQAP"), Do("absent")>> /\ Size(o) = 3
    BY <1>2, Sizes DEF Steps
  <2>2. /\ Steps(o)[1] = Do("test") /\ Steps(o)[2] = AskPresent("CWQAP")
        /\ Steps(o)[3] = Do("absent")
    BY <2>1, <1>1, Tuples
  <2>3. k = 1 \/ k = 2 \/ k = 3
    BY <2>1
  <2>4. QED
    BY <1>2, <2>2, <2>3 DEF Do, AskPresent, Step, Special
<1>3. CASE o = "on"
  <2>1. Steps(o) = <<Do("supply"), Do("powered")>> /\ Size(o) = 2
    BY <1>3, Sizes DEF Steps
  <2>2. Steps(o)[1] = Do("supply") /\ Steps(o)[2] = Do("powered")
    BY <2>1, <1>1, Tuples
  <2>3. k = 1 \/ k = 2
    BY <2>1
  <2>4. QED
    BY <2>2, <2>3 DEF Do, Step, Special
<1>4. CASE o \in {"sleep", "off", "join", "version"}
  <2>1. /\ k = 1
        /\ \/ Steps(o) = <<Ask("GSLP", Results)>> \/ (o = "off" /\ Steps(o) = <<Do("off")>>)
           \/ Steps(o) = <<AskPresent("CWJAP")>> \/ Steps(o) = <<Ask("GMR", Results)>>
    BY <1>4, Sizes DEF Steps
  <2>2. \/ Steps(o)[k] = Ask("GSLP", Results) \/ (o = "off" /\ Steps(o)[k] = Do("off"))
        \/ Steps(o)[k] = AskPresent("CWJAP") \/ Steps(o)[k] = Ask("GMR", Results)
    BY <2>1, <1>1, Tuples
  <2>3. QED
    BY <2>2 DEF Do, Ask, AskPresent, Step, Special
<1>5. QED
  BY <1>2, <1>3, <1>4 DEF Operations, ResetOps

\* What an application does, when only Main resets.
LEMMA AppDoes ==
  ASSUME OnlyMainResets, CallTypes, CallInv, NEW t \in Tasks, t # Main, op[t] # "idle"
  PROVE  /\ op[t] \in AppOps /\ op[t] \notin ResetOps
         /\ Here(t).do \notin {"stop", "start", "tell"} \cup Special
         /\ OnlyMainSwitchesOff => Here(t).do \notin {"off", "absent"}
         /\ Here(t).do = "ask" => Here(t).cmd \notin {"RESET", "RESTORE"}
<1>1. op[t] \in AppOps /\ op[t] \in Operations /\ op[t] \notin ResetOps \cup {"deinit"}
  BY LifeAssumption DEF CallInv, Tasks, OnlyMainResets
<1>2. at[t] \in 1..Size(op[t])
  BY Where
<1>3. OnlyMainSwitchesOff => op[t] \notin {"off", "close"}
  BY <1>1 DEF OnlyMainSwitchesOff
<1>4. QED
  BY <1>1, <1>2, <1>3, AppSteps DEF Here

-----------------------------------------------------------------------------
(* What a step does to what a reset is for.                                *)

Keeps == (present => present') /\ (version => version')

\* Task t has ended a step with r.  A request is refused for want of a device, or
\* of a slot, or has been served.
AskEnds(t, r) ==
  \/ r = "nodevice" /\ Here(t).guarded
  \/ r = "nomem" /\ asked[t] = "put" /\ ~(Len(box) < ReqCap)
  \/ /\ asked[t] = "wait" /\ cur # NoReq /\ cur.blocking /\ cur.by = t
     /\ Here(t).cmd = "RESTORE" => r # "ok"
     /\ Here(t).cmd = "GMR" /\ r = "ok" => present' /\ version'
     /\ Here(t).cmd = "RESET" /\ HwReset /\ said = Nothing => r = "nocmd"
Effect(t, r) ==
  /\ op'[t] = "idle" =>
       at[t] = Size(op[t]) \/ r \notin Here(t).need \/ Here(t).do = "test"
         \/ (Here(t).do = "device" /\ r = "err")
  /\ Here(t).do \notin {"stop", "start", "tear"} => receiving' = receiving
  /\ Here(t).do = "start" => (r = "ok" /\ receiving') \/ (r = "err" /\ "start" \in MayFail)
  /\ Here(t).do \notin {"off", "absent"} => Keeps
  /\ Here(t).do = "ask" => AskEnds(t, r)

\* A step ends, or an operation begins, or neither.
TaskEnds == \E t \in Tasks, r \in Results : op[t] # "idle" /\ Ended(t, r) /\ Effect(t, r)
TaskBegins ==
  \E t \in Tasks :
    /\ op[t] = "idle" /\ op'[t] # "idle" /\ at'[t] = 1
    /\ \A u \in Tasks \ {t} : op'[u] = op[u] /\ at'[u] = at[u]
    /\ receiving' = receiving /\ (running' => running)
    /\ Keeps \/ t = Main
    /\ UNCHANGED <<asked, box, cur, said>>
TaskStays ==
  /\ UNCHANGED <<op, at, receiving, running>>
  /\ Keeps \/ (box # <<>> /\ Head(box).cmd = "RESET")

LEMMA DoesRecvStop ==
  ASSUME LifeInv, NEW t \in Tasks, RecvStop(t)
  PROVE  TaskEnds
<1>1. /\ op[t] # "idle" /\ Here(t).do = "stop" /\ Ends(t, "ok")
      /\ UNCHANGED <<present, version>>
  BY DEF RecvStop, Doing, flags
<1>2. CallTypes /\ CallInv
  BY Types DEF LifeInv
<1>3. /\ Ended(t, "ok")
      /\ op'[t] = "idle" => at[t] = Size(op[t]) \/ "ok" \notin Here(t).need
  BY <1>1, <1>2, ResultsAre, EndsEnded
<1>4. Effect(t, "ok")
  BY <1>1, <1>3 DEF Effect, Keeps
<1>5. QED
  BY <1>1, <1>3, <1>4, ResultsAre DEF TaskEnds

LEMMA DoesRecvStart ==
  ASSUME LifeInv, NEW t \in Tasks, RecvStart(t)
  PROVE  TaskEnds
<1>1. /\ op[t] # "idle" /\ Here(t).do = "start" /\ UNCHANGED <<present, version>>
  BY DEF RecvStart, Doing, flags
<1>2. PICK r \in {"ok"} \cup {"err" : x \in MayFail \cap {"start"}} :
        receiving' = (receiving \/ r = "ok") /\ Ends(t, r)
  BY DEF RecvStart
<1>3. CallTypes /\ CallInv
  BY Types DEF LifeInv
<1>4. r \in Results /\ (r = "ok" \/ (r = "err" /\ "start" \in MayFail))
  BY <1>2, ResultsAre
<1>5. /\ Ended(t, r)
      /\ op'[t] = "idle" => at[t] = Size(op[t]) \/ r \notin Here(t).need
  BY <1>1, <1>2, <1>3, <1>4, EndsEnded
<1>6. Effect(t, r)
  BY <1>1, <1>2, <1>4, <1>5 DEF Effect, Keeps
<1>7. QED
  BY <1>1, <1>4, <1>5, <1>6 DEF TaskEnds

LEMMA DoesCloseTest ==
  ASSUME LifeInv, NEW t \in Tasks, CloseTest(t)
  PROVE  TaskEnds
<1>1. op[t] # "idle" /\ Here(t).do = "test"
  BY DEF CloseTest, Doing
<1>2. {"mutex"} \subseteq objs
  BY <1>1, UsesMade DEF Special
<1>3. /\ Ends(t, "ok") \/ Returns(t, "ok")
      /\ UNCHANGED <<present, version, receiving>>
  BY <1>2 DEF CloseTest, Uses, flags, device
<1>4. CallTypes /\ CallInv
  BY Types DEF LifeInv
<1>5. Ended(t, "ok")
  BY <1>1, <1>3, <1>4, ResultsAre, EndsEnded, ReturnsEnded
<1>6. Effect(t, "ok")
  BY <1>1, <1>3 DEF Effect, Keeps
<1>7. QED
  BY <1>1, <1>5, <1>6, ResultsAre DEF TaskEnds

LEMMA DoesCloseAbsent ==
  ASSUME LifeInv, NEW t \in Tasks, CloseAbsent(t)
  PROVE  TaskEnds
<1>1. op[t] # "idle" /\ Here(t).do = "absent"
  BY DEF CloseAbsent, Doing
<1>2. {"mutex"} \subseteq objs
  BY <1>1, UsesMade DEF Special
<1>3. Ends(t, result[t]) /\ receiving' = receiving
  BY <1>2 DEF CloseAbsent, Uses, device
<1>4. CallTypes /\ CallInv
  BY Types DEF LifeInv
<1>5. PICK r \in Results : r = result[t]
  BY <1>4 DEF CallTypes
<1>6. /\ Ended(t, r)
      /\ op'[t] = "idle" => at[t] = Size(op[t]) \/ r \notin Here(t).need
  BY <1>1, <1>3, <1>4, <1>5, EndsEnded
<1>7. Effect(t, r)
  BY <1>1, <1>3, <1>6 DEF Effect
<1>8. QED
  BY <1>1, <1>6, <1>7 DEF TaskEnds

LEMMA DoesPowerOff ==
  ASSUME LifeInv, NEW t \in Tasks, PowerOff(t)
  PROVE  TaskEnds
<1>1. op[t] # "idle" /\ Here(t).do = "off"
  BY DEF PowerOff, Doing
<1>2. {"mutex"} \subseteq objs
  BY <1>1, UsesMade DEF Special
<1>3. Ends(t, "ok") /\ receiving' = receiving
  BY <1>2 DEF PowerOff, Uses
<1>4. CallTypes /\ CallInv
  BY Types DEF LifeInv
<1>5. /\ Ended(t, "ok")
      /\ op'[t] = "idle" => at[t] = Size(op[t]) \/ "ok" \notin Here(t).need
  BY <1>1, <1>3, <1>4, ResultsAre, EndsEnded
<1>6. Effect(t, "ok")
  BY <1>1, <1>3, <1>5 DEF Effect
<1>7. QED
  BY <1>1, <1>5, <1>6, ResultsAre DEF TaskEnds

LEMMA DoesPowerSupply ==
  ASSUME LifeInv, NEW t \in Tasks, PowerSupply(t)
  PROVE  TaskEnds
<1>1. op[t] # "idle" /\ Here(t).do = "supply"
  BY DEF PowerSupply, Doing
<1>2. {"mutex"} \subseteq objs
  BY <1>1, UsesMade DEF Special
<1>3. Ends(t, "ok") /\ UNCHANGED <<receiving, present, version>>
  BY <1>2 DEF PowerSupply, Uses, flags
<1>4. CallTypes /\ CallInv
  BY Types DEF LifeInv
<1>5. /\ Ended(t, "ok")
      /\ op'[t] = "idle" => at[t] = Size(op[t]) \/ "ok" \notin Here(t).need
  BY <1>1, <1>3, <1>4, ResultsAre, EndsEnded
<1>6. Effect(t, "ok")
  BY <1>1, <1>3, <1>5 DEF Effect, Keeps
<1>7. QED
  BY <1>1, <1>5, <1>6, ResultsAre DEF TaskEnds

LEMMA DoesPowerStore ==
  ASSUME LifeInv, NEW t \in Tasks, PowerStore(t)
  PROVE  TaskEnds
<1>1. /\ op[t] # "idle" /\ Here(t).do = "powered" /\ Ends(t, "ok")
      /\ UNCHANGED <<receiving, present, version>>
  BY DEF PowerStore, Doing, device
<1>2. CallTypes /\ CallInv
  BY Types DEF LifeInv
<1>3. /\ Ended(t, "ok")
      /\ op'[t] = "idle" => at[t] = Size(op[t]) \/ "ok" \notin Here(t).need
  BY <1>1, <1>2, ResultsAre, EndsEnded
<1>4. Effect(t, "ok")
  BY <1>1, <1>3 DEF Effect, Keeps
<1>5. QED
  BY <1>1, <1>3, <1>4, ResultsAre DEF TaskEnds

LEMMA DoesReqCheck ==
  ASSUME LifeInv, NEW t \in Tasks, ReqCheck(t)
  PROVE  TaskEnds \/ TaskStays
<1>1. op[t] # "idle" /\ Here(t).do \in {"ask", "tell"}
  BY DEF ReqCheck, Asking, Doing
<1>2. {"mutex"} \subseteq objs /\ initialized
  BY <1>1, UsesMade DEF Special
<1>3. /\ IF Refusal(t) = "none" THEN UNCHANGED <<op, at, running>> ELSE Ends(t, Refusal(t))
      /\ UNCHANGED <<present, version, receiving>>
  BY <1>2 DEF ReqCheck, Uses, flags, device
<1>4. Refusal(t) = "none" \/ (Refusal(t) = "nodevice" /\ Here(t).guarded)
  BY <1>2 DEF Refusal
<1>5. CASE Refusal(t) = "none"
  BY <1>3, <1>5 DEF TaskStays, Keeps
<1>6. CASE Refusal(t) = "nodevice" /\ Here(t).guarded
  <2>1. CallTypes /\ CallInv
    BY Types DEF LifeInv
  <2>2. /\ Ended(t, "nodevice")
        /\ op'[t] = "idle" => at[t] = Size(op[t]) \/ "nodevice" \notin Here(t).need
    BY <1>1, <1>3, <1>6, <2>1, ResultsAre, EndsEnded
  <2>3. Effect(t, "nodevice")
    BY <1>1, <1>3, <1>6, <2>2 DEF Effect, Keeps, AskEnds
  <2>4. QED
    BY <1>1, <2>2, <2>3, ResultsAre DEF TaskEnds
<1>7. QED
  BY <1>4, <1>5, <1>6

LEMMA DoesReqPut ==
  ASSUME LifeInv, NEW t \in Tasks, ReqPut(t)
  PROVE  TaskEnds \/ TaskStays
<1>1. CallTypes /\ CallInv
  BY Types DEF LifeInv
<1>2. asked[t] = "put" /\ op[t] # "idle" /\ Here(t).do \in {"ask", "tell"}
  BY <1>1 DEF ReqPut, CallInv
<1>3. {"reqbox"} \subseteq objs
  BY <1>2, UsesMade DEF Special
<1>4. /\ UNCHANGED <<present, version, receiving>>
      /\ IF Len(box) < ReqCap
           THEN IF Here(t).do = "ask" THEN UNCHANGED <<op, at, running>> ELSE Ends(t, "ok")
           ELSE Ends(t, "nomem")
  BY <1>3 DEF ReqPut, Uses, flags, device
<1>5. CASE Len(box) < ReqCap /\ Here(t).do = "ask"
  BY <1>4, <1>5 DEF TaskStays, Keeps
<1>6. CASE Len(box) < ReqCap /\ Here(t).do # "ask"
  <2>1. /\ Ended(t, "ok")
        /\ op'[t] = "idle" => at[t] = Size(op[t]) \/ "ok" \notin Here(t).need
    BY <1>1, <1>2, <1>4, <1>6, ResultsAre, EndsEnded
  <2>2. Effect(t, "ok")
    BY <1>2, <1>4, <1>6, <2>1 DEF Effect, Keeps
  <2>3. QED
    BY <1>2, <2>1, <2>2, ResultsAre DEF TaskEnds
<1>7. CASE ~(Len(box) < ReqCap)
  <2>1. /\ Ended(t, "nomem")
        /\ op'[t] = "idle" => at[t] = Size(op[t]) \/ "nomem" \notin Here(t).need
    BY <1>1, <1>2, <1>4, <1>7, ResultsAre, EndsEnded
  <2>2. Effect(t, "nomem")
    BY <1>2, <1>4, <1>7, <2>1 DEF Effect, Keeps, AskEnds
  <2>3. QED
    BY <1>2, <2>1, <2>2, ResultsAre DEF TaskEnds
<1>8. QED
  BY <1>5, <1>6, <1>7

LEMMA DoesReqTake ==
  ASSUME ReqTake
  PROVE  TaskStays
<1>1. /\ UNCHANGED <<op, at, receiving, running, present>> /\ box # <<>>
      /\ version' = (version /\ Head(box).cmd # "RESET")
  BY DEF ReqTake, calls, flags
<1>2. CASE Head(box).cmd = "RESET"
  BY <1>1, <1>2 DEF TaskStays
<1>3. CASE Head(box).cmd # "RESET"
  BY <1>1, <1>3 DEF TaskStays, Keeps
<1>4. QED
  BY <1>2, <1>3

\* A request is completed with r.
LEMMA DoesComplete ==
  ASSUME LifeInv, cur # NoReq, NEW r \in Results, Complete(r), Keeps,
         cur.cmd = "RESTORE" => r # "ok",
         cur.cmd = "GMR" /\ r = "ok" => present' /\ version',
         cur.cmd = "RESET" /\ HwReset /\ said = Nothing => r = "nocmd"
  PROVE  TaskEnds \/ TaskStays
<1>1. CallTypes /\ CallInv
  BY Types DEF LifeInv
<1>2. receiving' = receiving
  BY DEF Complete
<1>3. CASE cur.blocking
  <2>1. PICK t \in Tasks : t = cur.by
    BY <1>3, Waiter
  <2>2. asked[t] = "wait" /\ op[t] # "idle" /\ Here(t).do = "ask" /\ Here(t).cmd = cur.cmd
    BY <2>1, <1>3, Waiter
  <2>3. Ends(t, r)
    BY <1>3, <2>1 DEF Complete, Wakes
  <2>4. /\ Ended(t, r)
        /\ op'[t] = "idle" => at[t] = Size(op[t]) \/ r \notin Here(t).need
    BY <2>2, <2>3, <1>1, EndsEnded
  <2>5. AskEnds(t, r)
    BY <2>1, <2>2, <1>3 DEF AskEnds
  <2>6. Effect(t, r)
    BY <2>2, <2>4, <2>5, <1>2 DEF Effect
  <2>7. QED
    BY <2>2, <2>4, <2>6 DEF TaskEnds
<1>4. CASE ~cur.blocking
  BY <1>2, <1>4 DEF Complete, Wakes, calls, TaskStays
<1>5. QED
  BY <1>3, <1>4

LEMMA DoesReqResetPin ==
  ASSUME LifeInv, ReqResetPin
  PROVE  TaskEnds \/ TaskStays
<1>1. /\ cur.cmd = "RESET" /\ Complete("nocmd") /\ UNCHANGED <<present, version>>
  BY DEF ReqResetPin, Pin
<1>2. cur # NoReq
  BY <1>1, NoReqIs DEF NoCmd
<1>3. QED
  BY <1>1, <1>2, ResultsAre, DoesComplete DEF Keeps

LEMMA DoesReqTimeout ==
  ASSUME LifeInv, ReqTimeout
  PROVE  TaskEnds \/ TaskStays
<1>1. /\ cur # NoReq /\ Complete("timeout") /\ UNCHANGED <<present, version>>
      /\ ~(cur.cmd = "RESET" /\ HwReset)
  BY DEF ReqTimeout, Pin
<1>2. QED
  BY <1>1, ResultsAre, DoesComplete DEF Keeps

LEMMA DoesRespParse ==
  ASSUME LifeInv, RespParse
  PROVE  TaskEnds \/ TaskStays
<1>1. ReqTypes /\ ReqInv
  BY Types DEF LifeInv
<1>2. said # Nothing /\ cur # NoReq /\ said \in {"ok", "err"}
  BY <1>1 DEF RespParse, ReqInv, ReqTypes
<1>3. PICK r : r = Reported(cur.cmd, said)
  OBVIOUS
<1>4. /\ r \in Results /\ (cur.cmd = "RESTORE" => r # "ok")
      /\ cur.cmd = "GMR" => r = said
  BY <1>2, <1>3, ResultsAre DEF Reported
<1>5. /\ Complete(r)
      /\ IF cur.cmd = "GMR" /\ said = "ok"
           THEN version' = TRUE /\ present' = TRUE
           ELSE UNCHANGED <<version, present>>
  BY <1>3 DEF RespParse
<1>6. QED
  BY <1>2, <1>4, <1>5, DoesComplete DEF Keeps

LEMMA DoesDevAnswer ==
  ASSUME NEW r \in {"ok", "err"}, DevAnswer(r)
  PROVE  TaskStays
BY DEF DevAnswer, TaskStays, Keeps, flags, calls

-----------------------------------------------------------------------------
(* And the steps of eESPinit and eESPdeinit, and calls.                    *)

LEMMA DoesCallInit ==
  ASSUME LifeInv, CallInit
  PROVE  TaskBegins
<1>1. /\ op[Main] = "idle" /\ Begin(Main, "init") /\ UNCHANGED <<receiving, running, box, cur, said>>
  BY DEF CallInit, device, reqs
<1>2. CallTypes /\ Main \in Tasks
  BY Types DEF LifeInv, Tasks
<1>3. /\ op'[Main] = "init" /\ at'[Main] = 1 /\ asked' = asked
      /\ \A u \in Tasks \ {Main} : op'[u] = op[u] /\ at'[u] = at[u]
  BY <1>1, <1>2 DEF Begin, CallTypes
<1>4. QED
  BY <1>1, <1>2, <1>3 DEF TaskBegins

LEMMA DoesCallDeinit ==
  ASSUME LifeInv, CallDeinit
  PROVE  TaskBegins
<1>1. /\ op[Main] = "idle" /\ Begin(Main, "deinit") /\ ~running'
      /\ UNCHANGED <<receiving, box, cur, said>>
  BY DEF CallDeinit, device, reqs
<1>2. CallTypes /\ Main \in Tasks
  BY Types DEF LifeInv, Tasks
<1>3. /\ op'[Main] = "deinit" /\ at'[Main] = 1 /\ asked' = asked
      /\ \A u \in Tasks \ {Main} : op'[u] = op[u] /\ at'[u] = at[u]
  BY <1>1, <1>2 DEF Begin, CallTypes
<1>4. QED
  BY <1>1, <1>2, <1>3 DEF TaskBegins

LEMMA DoesCall ==
  ASSUME LifeInv, NEW t \in Tasks, NEW o \in MainOps \cup AppOps, Call(t, o)
  PROVE  TaskBegins
<1>1. /\ op[t] = "idle" /\ Begin(t, o)
      /\ UNCHANGED <<receiving, running, present, version, box, cur, said>>
  BY DEF Call, flags, device, reqs
<1>2. CallTypes /\ o # "idle"
  BY Types, LifeAssumption DEF LifeInv, Operations, ResetOps
<1>3. /\ op'[t] = o /\ at'[t] = 1 /\ asked' = asked
      /\ \A u \in Tasks \ {t} : op'[u] = op[u] /\ at'[u] = at[u]
  BY <1>1, <1>2 DEF Begin, CallTypes
<1>4. QED
  BY <1>1, <1>2, <1>3 DEF TaskBegins, Keeps

LEMMA DoesInitCreate ==
  ASSUME LifeInv, InitCreate
  PROVE  TaskEnds
<1>1. /\ op[Main] # "idle" /\ Here(Main).do = "create"
      /\ UNCHANGED <<present, version, receiving>>
  BY DEF InitCreate, Doing, flags, device
<1>2. CallTypes /\ CallInv /\ Main \in Tasks
  BY Types DEF LifeInv, Tasks
<1>3. PICK lacking \in SUBSET (MayFail \cap (Objects \cup Threads)) :
        Ends(Main, IF lacking \ {"mutex"} = {} THEN "ok" ELSE "err")
  BY DEF InitCreate
<1>4. PICK r \in Results : r = IF lacking \ {"mutex"} = {} THEN "ok" ELSE "err"
  BY ResultsAre
<1>5. /\ Ended(Main, r)
      /\ op'[Main] = "idle" => at[Main] = Size(op[Main]) \/ r \notin Here(Main).need
  BY <1>1, <1>2, <1>3, <1>4, EndsEnded
<1>6. Effect(Main, r)
  BY <1>1, <1>5 DEF Effect, Keeps
<1>7. QED
  BY <1>1, <1>2, <1>5, <1>6 DEF TaskEnds

LEMMA DoesInitDevice ==
  ASSUME LifeInv, InitDevice
  PROVE  TaskEnds
<1>1. op[Main] # "idle" /\ Here(Main).do = "device"
  BY DEF InitDevice, Doing
<1>2. CallTypes /\ CallInv /\ PhaseInv /\ Main \in Tasks
  BY Types DEF LifeInv, Tasks
<1>3. op[Main] = "init" /\ at[Main] = 2
  BY <1>1, <1>2, Where
<1>4. {"mutex"} \subseteq objs
  BY <1>2, <1>3 DEF PhaseInv, MainInv
<1>5. /\ Returns(Main, "err") \/ Ends(Main, "ok")
      /\ UNCHANGED <<present, receiving, version>>
  BY <1>4 DEF InitDevice, Uses, LowLevelUp
<1>6. CASE Returns(Main, "err")
  <2>1. Ended(Main, "err")
    BY <1>2, <1>6, ResultsAre, ReturnsEnded
  <2>2. Effect(Main, "err")
    BY <1>1, <1>5 DEF Effect, Keeps
  <2>3. QED
    BY <1>1, <1>2, <2>1, <2>2, ResultsAre DEF TaskEnds
<1>7. CASE Ends(Main, "ok")
  <2>1. /\ Ended(Main, "ok")
        /\ op'[Main] = "idle" => at[Main] = Size(op[Main]) \/ "ok" \notin Here(Main).need
    BY <1>1, <1>2, <1>7, ResultsAre, EndsEnded
  <2>2. Effect(Main, "ok")
    BY <1>1, <1>5, <2>1 DEF Effect, Keeps
  <2>3. QED
    BY <1>1, <1>2, <2>1, <2>2, ResultsAre DEF TaskEnds
<1>8. QED
  BY <1>5, <1>6, <1>7

LEMMA DoesDeinit ==
  ASSUME LifeInv, DeinitTear \/ DeinitDelete
  PROVE  TaskEnds
<1>1. /\ op[Main] # "idle" /\ Here(Main).do \in {"tear", "delete"}
      /\ Here(Main).do = "delete" => DeinitDelete
  BY DEF DeinitTear, DeinitDelete, Doing
<1>2. CallTypes /\ CallInv /\ PhaseInv /\ Main \in Tasks
  BY Types DEF LifeInv, Tasks
<1>3. op[Main] = "deinit" /\ at[Main] = (IF Here(Main).do = "tear" THEN 1 ELSE 2)
  BY <1>1, <1>2, Where
<1>4. {"mutex"} \subseteq objs /\ (Here(Main).do = "delete" => {"sem", "mutex"} \subseteq objs)
  BY <1>1, <1>2, <1>3 DEF PhaseInv, MainInv, Made, Objects
<1>5. /\ Ends(Main, "ok") /\ UNCHANGED <<present, version>>
      /\ Here(Main).do = "delete" => receiving' = receiving
  <2>1. CASE DeinitTear
    <3>1. Here(Main).do = "tear"
      BY <2>1 DEF DeinitTear, Doing
    <3>2. QED
      BY <2>1, <3>1, <1>4 DEF DeinitTear, Uses, flags
  <2>2. CASE DeinitDelete
    <3>1. Here(Main).do = "delete"
      BY <2>2 DEF DeinitDelete, Doing
    <3>2. QED
      BY <2>2, <3>1, <1>4 DEF DeinitDelete, Uses, flags, device
  <2>3. QED
    BY <2>1, <2>2
<1>6. /\ Ended(Main, "ok")
      /\ op'[Main] = "idle" => at[Main] = Size(op[Main]) \/ "ok" \notin Here(Main).need
  BY <1>1, <1>2, <1>5, ResultsAre, EndsEnded
<1>7. Effect(Main, "ok")
  BY <1>1, <1>5, <1>6 DEF Effect, Keeps
<1>8. QED
  BY <1>1, <1>2, <1>6, <1>7, ResultsAre DEF TaskEnds

LEMMA EveryStep ==
  ASSUME LifeInv, [Next]_vars
  PROVE  TaskEnds \/ TaskBegins \/ TaskStays
<1>1. CASE UNCHANGED vars
  BY <1>1 DEF vars, calls, flags, device, TaskStays, Keeps
<1>2. CASE CallInit \/ CallDeinit \/ \E t \in Tasks, o \in MainOps \cup AppOps : Call(t, o)
  BY <1>2, DoesCallInit, DoesCallDeinit, DoesCall
<1>3. CASE InitCreate \/ InitDevice \/ DeinitTear \/ DeinitDelete
  BY <1>3, DoesInitCreate, DoesInitDevice, DoesDeinit
<1>4. CASE \E t \in Tasks : TaskStep(t)
  BY <1>4, DoesRecvStop, DoesRecvStart, DoesCloseTest, DoesCloseAbsent, DoesPowerOff,
     DoesPowerSupply, DoesPowerStore, DoesReqCheck, DoesReqPut DEF TaskStep
<1>5. CASE ReqTake \/ ReqResetPin \/ ReqTimeout \/ RespParse
  BY <1>5, DoesReqTake, DoesReqResetPin, DoesReqTimeout, DoesRespParse
<1>6. CASE \E r \in {"ok", "err"} : DevAnswer(r)
  BY <1>6, DoesDevAnswer
<1>7. QED
  BY <1>1, <1>2, <1>3, <1>4, <1>5, <1>6 DEF Next, TaskStep

-----------------------------------------------------------------------------
(* How far a reset is tells what holds.                                    *)

\* AT+RESTORE is where eESPrestore ends, and eESPinit that begins with it.  Behind
\* the third step the library receives, behind the fifth the device is known.
OnlineInv ==
  /\ op[Main] = "restore" => at[Main] = 1
  /\ op[Main] = "init" /\ RestoreOnInit => at[Main] <= 3
  /\ Pos > 3 => receiving
  /\ OnlyMainSwitchesOff /\ Pos > 5 => present /\ version

LEMMA ResetNeeds ==
  ASSUME NEW k \in 1..10
  PROVE  /\ "ok" \in ResetSteps[k].need
         /\ ResetSteps[k].do \notin {"test", "tear", "off", "absent"}
         /\ ResetSteps[k].do = "stop" <=> k = 1
         /\ ResetSteps[k].do = "start" <=> k = 3
         /\ ResetSteps[k].do = "ask" <=> k \in {2, 4, 5, 8, 9, 10}
         /\ ResetSteps[k].cmd = "RESET" => k = 2
         /\ ~ResetSteps[k].guarded
<1>1. k = 1 \/ k = 2 \/ k = 3 \/ k = 4 \/ k = 5 \/ k = 6 \/ k = 7 \/ k = 8 \/ k = 9 \/ k = 10
  OBVIOUS
<1>2. CASE k = 1 \/ k = 3 \/ k = 6 \/ k = 7
  BY <1>2, ResetStepsAre, ResultsAre DEF Do, Start, Tell, Step, NoCmd
<1>3. CASE k = 2 \/ k = 4 \/ k = 5 \/ k = 8 \/ k = 9 \/ k = 10
  BY <1>3, ResetStepsAre, ResultsAre DEF Ask, Step
<1>4. QED
  BY <1>1, <1>2, <1>3

\* Where AT+RESTORE is asked.
LEMMA RestoreAsks ==
  ASSUME \/ op[Main] = "restore" /\ at[Main] = 1
         \/ op[Main] = "init" /\ RestoreOnInit /\ at[Main] = 3
  PROVE  Here(Main).do = "ask" /\ Here(Main).cmd = "RESTORE" /\ Here(Main).need = {"ok"}
<1>1. Here(Main) = Ask("RESTORE", {"ok"})
  <2>1. CASE op[Main] = "restore" /\ at[Main] = 1
    BY <2>1, RestoreStepsAre DEF Here, Steps
  <2>2. CASE op[Main] = "init" /\ RestoreOnInit /\ at[Main] = 3
    BY <2>2, InitStepsAre DEF Here, Steps
  <2>3. QED
    BY <2>1, <2>2
<1>2. QED
  BY <1>1 DEF Ask, Step

\* No AT+RST waits in the mailbox but that of Main.
LEMMA NoResetWaits ==
  ASSUME LifeInv, OnlyMainResets, Pos > 2, NEW i \in DOMAIN box
  PROVE  box[i].cmd # "RESET"
<1>1. CallTypes /\ ReqTypes /\ CallInv /\ ReqInv
  BY Types DEF LifeInv
<1>2. box[i] \in ReqType /\ Owned(box[i], waits)
  BY <1>1 DEF ReqTypes, ReqInv, Requested
<1>3. SUFFICES ASSUME box[i].cmd = "RESET" PROVE FALSE
  OBVIOUS
<1>4. box[i].blocking
  BY <1>2, <1>3 DEF Owned
<1>5. PICK t \in Tasks : t = box[i].by
  BY <1>2 DEF ReqType
<1>6. waits[t] = "RESET"
  BY <1>2, <1>3, <1>4, <1>5 DEF Owned
<1>7. asked[t] = "wait" /\ Here(t).cmd = "RESET"
  BY <1>5, <1>6 DEF waits, Awaiting, NoCmd
<1>8. op[t] # "idle" /\ Here(t).do = "ask"
  BY <1>1, <1>7 DEF CallInv
<1>9. CASE t = Main
  <2>1. Pos > 0
    BY <1>1 DEF Pos, CallTypes, Tasks
  <2>2. Pos \in 1..10 /\ Here(Main) = ResetSteps[Pos]
    BY <1>1, <2>1, PosHere
  <2>3. QED
    BY <1>7, <1>9, <2>2, ResetNeeds
<1>10. CASE t # Main
  BY <1>1, <1>7, <1>8, <1>10, AppDoes
<1>11. QED
  BY <1>9, <1>10

\* Another task's step leaves the reset of Main alone.
LEMMA OtherEnds ==
  ASSUME LifeInv, OnlyMainResets, NEW t \in Tasks, t # Main, NEW r \in Results,
         op[t] # "idle", Ended(t, r), Effect(t, r)
  PROVE  /\ op'[Main] = op[Main] /\ at'[Main] = at[Main] /\ Pos' = Pos
         /\ receiving' = receiving /\ running' = running
         /\ OnlyMainSwitchesOff => Keeps
<1>1. CallTypes /\ CallInv /\ Main \in Tasks
  BY Types DEF LifeInv, Tasks
<1>2. op'[Main] = op[Main] /\ at'[Main] = at[Main]
  BY <1>1 DEF Ended
<1>3. Pos' = Pos
  BY <1>2 DEF Pos
<1>4. op[t] \notin ResetOps /\ Here(t).do \notin {"stop", "start", "tell"} \cup Special
      /\ (OnlyMainSwitchesOff => Here(t).do \notin {"off", "absent"})
  BY <1>1, AppDoes
<1>5. receiving' = receiving /\ (OnlyMainSwitchesOff => Keeps)
  BY <1>4 DEF Effect, Special
<1>6. running' = running
  <2>1. op[t] # "init" /\ running \in BOOLEAN
    BY <1>1, <1>4 DEF ResetOps, CallTypes
  <2>2. running' = running \/ running' = (running \/ (op[t] = "init" /\ r = "ok"))
    BY DEF Ended, Left, WentOn
  <2>3. (running \/ (op[t] = "init" /\ r = "ok")) = running
    BY <2>1
  <2>4. QED
    BY <2>2, <2>3
<1>7. QED
  BY <1>2, <1>3, <1>5, <1>6

\* Main's own: the next step is reached with what it takes.
LEMMA MainGoesOn ==
  ASSUME LifeInv, OnlineInv, NEW r \in Results, op[Main] # "idle",
         Ended(Main, r), Effect(Main, r), WentOn(Main, r)
  PROVE  OnlineInv'
<1>1. CallTypes /\ CallInv /\ Main \in Tasks
  BY Types DEF LifeInv, Tasks
<1>2. op'[Main] = op[Main] /\ at'[Main] = at[Main] + 1 /\ r \in Here(Main).need
  BY DEF WentOn
<1>3. at[Main] \in Nat /\ at[Main] >= 1
  BY <1>1, Sizes DEF CallTypes
<1>4. op[Main] # "restore"
  <2>1. SUFFICES ASSUME op[Main] = "restore" PROVE FALSE
    OBVIOUS
  <2>2. Here(Main).do = "ask" /\ Here(Main).cmd = "RESTORE" /\ Here(Main).need = {"ok"}
    BY <2>1, RestoreAsks DEF OnlineInv
  <2>3. QED
    BY <2>2, <1>2 DEF Effect, AskEnds
<1>5. op[Main] = "init" /\ RestoreOnInit => at'[Main] <= 3
  <2>1. SUFFICES ASSUME op[Main] = "init", RestoreOnInit, at[Main] = 3 PROVE FALSE
    BY <1>2, <1>3 DEF OnlineInv
  <2>2. Here(Main).do = "ask" /\ Here(Main).cmd = "RESTORE" /\ Here(Main).need = {"ok"}
    BY <2>1, RestoreAsks
  <2>3. QED
    BY <2>2, <1>2 DEF Effect, AskEnds
<1>6. Pos \in Int /\ (Pos' = Pos + 1 \/ Pos' = 0)
  BY <1>1, <1>3, PosMoves DEF Pos
<1>7. Pos > 0 => /\ Pos \in 1..10 /\ Here(Main) = ResetSteps[Pos]
  BY <1>1, PosHere
<1>8. Pos' > 3 => receiving'
  <2>1. SUFFICES ASSUME Pos' > 3 PROVE receiving'
    OBVIOUS
  <2>2. Pos \in 1..10 /\ Pos >= 3 /\ Here(Main) = ResetSteps[Pos]
    BY <2>1, <1>6, <1>7
  <2>3. CASE Pos = 3
    <3>1. Here(Main).do = "start" /\ Here(Main).need = {"ok"}
      BY <2>2, <2>3, ResetStepsAre DEF Start, Step
    <3>2. QED
      BY <3>1, <1>2 DEF Effect
  <2>4. CASE Pos # 3
    <3>1. Here(Main).do \notin {"stop", "start", "tear"} /\ Pos > 3
      BY <2>2, <2>4, ResetNeeds
    <3>2. receiving' = receiving /\ receiving
      BY <3>1 DEF Effect, OnlineInv
    <3>3. QED
      BY <3>2
  <2>5. QED
    BY <2>3, <2>4
<1>9. OnlyMainSwitchesOff /\ Pos' > 5 => present' /\ version'
  <2>1. SUFFICES ASSUME OnlyMainSwitchesOff, Pos' > 5 PROVE present' /\ version'
    OBVIOUS
  <2>2. Pos \in 1..10 /\ Pos >= 5 /\ Here(Main) = ResetSteps[Pos]
    BY <2>1, <1>6, <1>7
  <2>3. CASE Pos = 5
    <3>1. /\ Here(Main).do = "ask" /\ Here(Main).need = {"ok"} /\ Here(Main).cmd = "GMR"
      BY <2>2, <2>3, ResetStepsAre DEF Ask, Step
    <3>2. QED
      BY <3>1, <1>2 DEF Effect, AskEnds
  <2>4. CASE Pos # 5
    <3>1. Here(Main).do \notin {"off", "absent"} /\ Pos > 5
      BY <2>2, <2>4, ResetNeeds
    <3>2. QED
      BY <2>1, <3>1 DEF Effect, OnlineInv, Keeps
  <2>5. QED
    BY <2>3, <2>4
<1>10. QED
  BY <1>2, <1>4, <1>5, <1>8, <1>9 DEF OnlineInv

LEMMA OnlineNext ==
  ASSUME OnlyMainResets, LifeInv, OnlineInv, [Next]_vars
  PROVE  OnlineInv'
<1>1. CallTypes /\ CallInv /\ Main \in Tasks /\ ReqTypes
  BY Types DEF LifeInv, Tasks
<1>2. CASE TaskStays
  <2>1. op'[Main] = op[Main] /\ at'[Main] = at[Main] /\ receiving' = receiving /\ Pos' = Pos
    BY <1>2 DEF TaskStays, Pos
  <2>2. Pos > 5 => Keeps
    <3>1. SUFFICES ASSUME Pos > 5, box # <<>>, Head(box).cmd = "RESET" PROVE FALSE
      BY <1>2 DEF TaskStays
    <3>2. 1 \in DOMAIN box /\ Head(box) = box[1]
      BY <1>1, <3>1 DEF ReqTypes
    <3>3. Pos > 2
      BY <1>1, <3>1, PosHere DEF Pos, CallTypes
    <3>4. QED
      BY <3>1, <3>2, <3>3, NoResetWaits
  <2>3. QED
    BY <2>1, <2>2 DEF OnlineInv, Keeps
<1>3. CASE TaskBegins
  <2>1. PICK t \in Tasks :
          /\ op[t] = "idle" /\ op'[t] # "idle" /\ at'[t] = 1
          /\ \A u \in Tasks \ {t} : op'[u] = op[u] /\ at'[u] = at[u]
          /\ receiving' = receiving /\ (Keeps \/ t = Main)
    BY <1>3 DEF TaskBegins
  <2>2. CASE t = Main
    <3>1. at'[Main] = 1 /\ Pos' \in {1, -1, 0}
      BY <2>1, <2>2 DEF Pos
    <3>2. QED
      BY <3>1 DEF OnlineInv
  <2>3. CASE t # Main
    <3>1. op'[Main] = op[Main] /\ at'[Main] = at[Main] /\ Pos' = Pos
      BY <2>1, <2>3, <1>1 DEF Pos
    <3>2. QED
      BY <2>1, <2>3, <3>1 DEF OnlineInv, Keeps
  <2>4. QED
    BY <2>2, <2>3
<1>4. CASE TaskEnds
  <2>1. PICK t \in Tasks, r \in Results : op[t] # "idle" /\ Ended(t, r) /\ Effect(t, r)
    BY <1>4 DEF TaskEnds
  <2>2. CASE t # Main
    <3>1. /\ op'[Main] = op[Main] /\ at'[Main] = at[Main] /\ Pos' = Pos
          /\ receiving' = receiving /\ (OnlyMainSwitchesOff => Keeps)
      BY <2>1, <2>2, OtherEnds
    <3>2. QED
      BY <3>1 DEF OnlineInv, Keeps
  <2>3. CASE t = Main /\ WentOn(Main, r)
    BY <2>1, <2>3, MainGoesOn
  <2>4. CASE t = Main /\ Left(Main, r)
    <3>1. op'[Main] = "idle"
      BY <2>4 DEF Left
    <3>2. Pos' = 0
      BY <3>1 DEF Pos
    <3>3. QED
      BY <3>1, <3>2 DEF OnlineInv
  <2>5. QED
    BY <2>1, <2>2, <2>3, <2>4 DEF Ended
<1>5. QED
  BY <1>2, <1>3, <1>4, EveryStep

LEMMA OnlineInit == Init => OnlineInv
<1> SUFFICES ASSUME Init PROVE OnlineInv
  OBVIOUS
<1>1. op[Main] = "idle"
  BY DEF Init, Tasks
<1>2. Pos = 0
  BY <1>1 DEF Pos
<1>3. QED
  BY <1>1, <1>2 DEF OnlineInv

\* A reset returns espOK only from its last step.
LEMMA OkIsLast ==
  ASSUME OnlyMainResets, LifeInv, OnlineInv, [Next]_vars, NEW t \in Tasks,
         op[t] \in ResetOps, op'[t] = "idle", result'[t] = "ok"
  PROVE  /\ Pos = 10 /\ receiving' = receiving
         /\ OnlyMainSwitchesOff => Keeps
<1>1. CallTypes /\ CallInv /\ Main \in Tasks
  BY Types DEF LifeInv, Tasks
<1>2. op[t] # "idle"
  BY DEF ResetOps
<1>3. t = Main
  BY <1>1, <1>2, AppDoes
<1>4. PICK u \in Tasks, r \in Results : op[u] # "idle" /\ Ended(u, r) /\ Effect(u, r)
  <2>1. ~TaskStays
    BY <1>2 DEF TaskStays
  <2>2. ~TaskBegins
    BY <1>2 DEF TaskBegins
  <2>3. QED
    BY <2>1, <2>2, EveryStep DEF TaskEnds
<1>5. u = Main /\ r = "ok"
  BY <1>2, <1>3, <1>4 DEF Ended
<1>6. at[Main] = Size(op[Main]) \/ "ok" \notin Here(Main).need \/ Here(Main).do = "test"
  BY <1>3, <1>4, <1>5 DEF Effect
<1>7. op[Main] # "restore"
  <2>1. SUFFICES ASSUME op[Main] = "restore" PROVE FALSE
    OBVIOUS
  <2>2. Here(Main).do = "ask" /\ Here(Main).cmd = "RESTORE"
    BY <2>1, RestoreAsks DEF OnlineInv
  <2>3. QED
    BY <2>2, <1>4, <1>5 DEF Effect, AskEnds
<1>8. Pos > 0
  <2>1. CASE op[Main] = "reset"
    BY <2>1, <1>1, Sizes DEF Pos, CallTypes
  <2>2. CASE op[Main] = "init"
    <3>1. at[Main] \in Nat /\ at[Main] >= 1 /\ (Size("init") = 12 \/ Size("init") = 13)
      BY <1>1, Sizes DEF CallTypes
    <3>2. CASE at[Main] = 1 \/ at[Main] = 2
      <4>1. Here(Main).need = Results /\ Here(Main).do # "test"
        BY <2>2, <3>2, SpecialSteps DEF Here, Do, Step
      <4>2. QED
        BY <4>1, <3>1, <3>2, <2>2, <1>6, ResultsAre
    <3>3. CASE RestoreOnInit /\ at[Main] = 3
      <4>1. Here(Main).do = "ask" /\ Here(Main).cmd = "RESTORE"
        BY <2>2, <3>3, RestoreAsks
      <4>2. QED
        BY <4>1, <1>4, <1>5 DEF Effect, AskEnds
    <3>4. CASE ~RestoreOnInit /\ at[Main] > 2
      BY <2>2, <3>1, <3>4 DEF Pos
    <3>5. QED
      BY <2>2, <3>1, <3>2, <3>3, <3>4 DEF OnlineInv
  <2>3. QED
    BY <1>3, <1>7, <2>1, <2>2 DEF ResetOps
<1>9. /\ Pos \in 1..10 /\ Here(Main) = ResetSteps[Pos]
      /\ at[Main] = Size(op[Main]) <=> Pos = 10
  BY <1>1, <1>8, PosHere
<1>10. Pos = 10
  BY <1>6, <1>9, ResetNeeds
<1>11. Here(Main).do \notin {"stop", "start", "tear", "off", "absent"}
  BY <1>9, <1>10, ResetNeeds
<1>12. QED
  BY <1>4, <1>5, <1>10, <1>11 DEF Effect

\* espOK of eESPinit and eESPresetWithDelay means that the library receives and
\* that the device has been found, provided that only one thread starts, resets
\* and switches off (esp.c:154-170, esp_misc.c:50-127).
THEOREM OkMeansOnlineCorrect ==
  ASSUME ~Retry, ~BusyDeinit, "mutex" \notin MayFail, OnlyMainResets, OnlyMainSwitchesOff
  PROVE  Spec => OkMeansOnline
<1> DEFINE A == \A t \in Tasks :
                  op[t] \in ResetOps /\ op'[t] = "idle" /\ result'[t] = "ok"
                    => receiving' /\ present' /\ version'
<1>1. ASSUME LifeInv, OnlineInv, [Next]_vars PROVE [A]_vars
  <2>1. SUFFICES ASSUME NEW t \in Tasks, op[t] \in ResetOps, op'[t] = "idle",
                        result'[t] = "ok"
                 PROVE  receiving' /\ present' /\ version'
    BY <1>1
  <2>2. Pos = 10 /\ receiving' = receiving /\ Keeps
    BY <2>1, <1>1, OkIsLast
  <2>3. QED
    BY <2>2, <1>1 DEF OnlineInv, Keeps
<1>2. LifeInv /\ OnlineInv /\ [Next]_vars => LifeInv' /\ OnlineInv' /\ [A]_vars
  BY <1>1, LifeNext, OnlineNext
<1>3. Init => LifeInv /\ OnlineInv
  BY LifeInit, OnlineInit
<1> HIDE DEF A
<1>4. Spec => [][A]_vars
  BY <1>2, <1>3, PTL DEF Spec
<1>5. QED
  BY <1>4 DEF OkMeansOnline, A

-----------------------------------------------------------------------------
(* What the steps do to the mailbox.                                       *)

BoxAsked(t) ==
  /\ op[t] # "idle" /\ Here(t).do = "ask" /\ asked[t] = "put"
  /\ box' = Append(box, Request(t, Here(t).cmd, TRUE))
  /\ UNCHANGED <<op, at>> /\ asked'[t] = "wait"
  /\ \A u \in Tasks \ {t} : asked'[u] = asked[u]
BoxTold(t) ==
  /\ op[t] # "idle" /\ Here(t).do = "tell" /\ Ended(t, "ok")
  /\ op'[t] = "idle" => at[t] = Size(op[t]) \/ "ok" \notin Here(t).need
  /\ box' = Append(box, Request(t, Here(t).cmd, FALSE))
BoxTaken == box # <<>> /\ box' = Tail(box) /\ UNCHANGED <<op, at, asked>>
BoxKept == box' = box /\ (asked'[Main] = "wait" => asked[Main] = "wait")
BoxMoves ==
  \/ \E t \in Tasks : BoxAsked(t) \/ BoxTold(t)
  \/ BoxTaken
  \/ box' = <<>>
  \/ BoxKept

\* The end of a step takes its task out of any wait.
LEMMA EndsKeep ==
  ASSUME TaskEnds, box' = box
  PROVE  BoxKept
<1>1. PICK t \in Tasks, r \in Results : Ended(t, r)
  BY DEF TaskEnds
<1>2. asked'[t] = "no" /\ \A u \in Tasks \ {t} : asked'[u] = asked[u] /\ Main \in Tasks
  BY <1>1 DEF Ended, Tasks
<1>3. asked'[Main] = "wait" => asked[Main] = "wait"
  BY <1>2 DEF Tasks
<1>4. QED
  BY <1>3 DEF BoxKept

LEMMA BoxTask ==
  ASSUME LifeInv, NEW t \in Tasks, TaskStep(t)
  PROVE  BoxMoves
<1>1. CallTypes /\ CallInv
  BY Types DEF LifeInv
<1>2. CASE \/ RecvStop(t) \/ RecvStart(t) \/ CloseTest(t) \/ CloseAbsent(t) \/ PowerOff(t)
           \/ PowerSupply(t) \/ PowerStore(t)
  <2>1. box' = box
    BY <1>2 DEF RecvStop, RecvStart, CloseTest, CloseAbsent, PowerOff, PowerSupply,
       PowerStore, Uses, reqs
  <2>2. TaskEnds
    BY <1>2, DoesRecvStop, DoesRecvStart, DoesCloseTest, DoesCloseAbsent, DoesPowerOff,
       DoesPowerSupply, DoesPowerStore
  <2>3. QED
    BY <2>1, <2>2, EndsKeep DEF BoxMoves
<1>3. CASE ReqCheck(t)
  <2>1. box' = box
    BY <1>3 DEF ReqCheck, Uses, reqs
  <2>2. CASE TaskEnds
    BY <2>1, <2>2, EndsKeep DEF BoxMoves
  <2>3. CASE TaskStays /\ ~TaskEnds
    <3>1. op[t] # "idle" /\ Here(t).do \in {"ask", "tell"}
      BY <1>3 DEF ReqCheck, Asking, Doing
    <3>2. {"mutex"} \subseteq objs
      BY <3>1, UsesMade DEF Special
    <3>3. \/ asked' = [asked EXCEPT ![t] = "put"] /\ UNCHANGED <<op, at>>
          \/ Ends(t, Refusal(t))
      BY <1>3, <3>2 DEF ReqCheck, Uses
    <3>4. op' = op /\ at' = at
      BY <2>3 DEF TaskStays
    <3>5. CASE asked' = [asked EXCEPT ![t] = "put"]
      <4>1. asked'[Main] = "wait" => asked[Main] = "wait"
        BY <3>5, <1>1 DEF CallTypes, Tasks
      <4>2. QED
        BY <4>1, <2>1, <2>3, <3>4 DEF BoxMoves, BoxKept
    <3>6. CASE Ends(t, Refusal(t))
      <4>1. asked' = [asked EXCEPT ![t] = "no"]
        BY <3>6 DEF Ends, Returns
      <4>2. asked'[Main] = "wait" => asked[Main] = "wait"
        BY <4>1, <1>1 DEF CallTypes, Tasks
      <4>3. QED
        BY <4>2, <2>1, <2>3, <3>4 DEF BoxMoves, BoxKept
    <3>7. QED
      BY <3>3, <3>5, <3>6
  <2>4. QED
    BY <1>3, <2>2, <2>3, DoesReqCheck
<1>4. CASE ReqPut(t)
  <2>1. asked[t] = "put" /\ op[t] # "idle" /\ Here(t).do \in {"ask", "tell"}
    BY <1>4, <1>1 DEF ReqPut, CallInv
  <2>2. {"reqbox"} \subseteq objs
    BY <2>1, UsesMade DEF Special
  <2>3. IF Len(box) < ReqCap
          THEN /\ box' = Append(box, Request(t, Here(t).cmd, Here(t).do = "ask"))
               /\ IF Here(t).do = "ask"
                    THEN asked' = [asked EXCEPT ![t] = "wait"] /\ UNCHANGED <<op, at>>
                    ELSE Ends(t, "ok")
          ELSE Ends(t, "nomem") /\ box' = box
    BY <1>4, <2>2 DEF ReqPut, Uses
  <2>4. CASE Len(box) < ReqCap /\ Here(t).do = "ask"
    <3>1. /\ box' = Append(box, Request(t, Here(t).cmd, Here(t).do = "ask"))
          /\ asked' = [asked EXCEPT ![t] = "wait"] /\ UNCHANGED <<op, at>>
      BY <2>3, <2>4
    <3>2. (Here(t).do = "ask") = TRUE
      BY <2>4
    <3>3. box' = Append(box, Request(t, Here(t).cmd, TRUE))
      BY <3>1, <3>2
    <3>4. asked'[t] = "wait" /\ \A u \in Tasks \ {t} : asked'[u] = asked[u]
      BY <3>1, <1>1 DEF CallTypes
    <3>5. BoxAsked(t)
      BY <2>1, <2>4, <3>1, <3>3, <3>4 DEF BoxAsked
    <3>6. QED
      BY <3>5 DEF BoxMoves
  <2>5. CASE Len(box) < ReqCap /\ Here(t).do = "tell"
    <3>1. /\ box' = Append(box, Request(t, Here(t).cmd, Here(t).do = "ask"))
          /\ Ends(t, "ok")
      BY <2>3, <2>5
    <3>2. (Here(t).do = "ask") = FALSE
      BY <2>5
    <3>3. box' = Append(box, Request(t, Here(t).cmd, FALSE))
      BY <3>1, <3>2
    <3>4. /\ Ended(t, "ok")
          /\ op'[t] = "idle" => at[t] = Size(op[t]) \/ "ok" \notin Here(t).need
      BY <2>1, <3>1, <1>1, ResultsAre, EndsEnded
    <3>5. QED
      BY <2>1, <2>5, <3>3, <3>4 DEF BoxMoves, BoxTold
  <2>6. CASE ~(Len(box) < ReqCap)
    <3>1. Ends(t, "nomem") /\ box' = box
      BY <2>3, <2>6
    <3>2. CASE TaskEnds
      BY <3>1, <3>2, EndsKeep DEF BoxMoves
    <3>3. CASE TaskStays
      <4>1. op' = op /\ at' = at /\ asked' = [asked EXCEPT ![t] = "no"]
        BY <3>1, <3>3 DEF TaskStays, Ends, Returns
      <4>2. asked'[Main] = "wait" => asked[Main] = "wait"
        BY <4>1, <1>1 DEF CallTypes, Tasks
      <4>3. QED
        BY <4>1, <4>2, <3>1, <3>3 DEF BoxMoves, BoxKept
    <3>4. QED
      BY <1>4, <3>2, <3>3, DoesReqPut
  <2>7. QED
    BY <2>1, <2>4, <2>5, <2>6
<1>5. QED
  BY <1>2, <1>3, <1>4 DEF TaskStep

LEMMA BoxComplete ==
  ASSUME LifeInv, ReqResetPin \/ ReqTimeout \/ RespParse
  PROVE  BoxMoves
<1>1. CallTypes /\ ReqInv
  BY Types DEF LifeInv
<1>2. PICK r : Complete(r)
  BY DEF ReqResetPin, ReqTimeout, RespParse
<1>3. /\ box' = box
      /\ IF cur.blocking THEN Ends(cur.by, r) ELSE UNCHANGED <<op, at, asked>>
  BY <1>2 DEF Complete, Wakes, calls
<1>4. cur # NoReq
  BY <1>1, NoReqIs DEF ReqResetPin, ReqTimeout, RespParse, Pin, NoCmd, ReqInv
<1>5. asked'[Main] = "wait" => asked[Main] = "wait"
  <2>1. CASE cur.blocking
    <3>1. PICK t \in Tasks : t = cur.by
      BY <1>4, <2>1, Waiter
    <3>2. asked' = [asked EXCEPT ![t] = "no"]
      BY <1>3, <2>1, <3>1 DEF Ends, Returns
    <3>3. QED
      BY <3>2, <1>1 DEF CallTypes, Tasks
  <2>2. CASE ~cur.blocking
    BY <1>3, <2>2
  <2>3. QED
    BY <2>1, <2>2
<1>6. QED
  BY <1>3, <1>5 DEF BoxMoves, BoxKept

LEMMA EveryMove ==
  ASSUME LifeInv, [Next]_vars
  PROVE  BoxMoves
<1>1. CASE UNCHANGED vars
  BY <1>1 DEF vars, calls, flags, device, reqs, TaskStays, Keeps, BoxMoves, BoxKept
<1>2. CASE CallInit \/ CallDeinit \/ \E t \in Tasks, o \in MainOps \cup AppOps : Call(t, o)
  <2>1. TaskBegins
    BY <1>2, DoesCallInit, DoesCallDeinit, DoesCall
  <2>2. box' = box /\ asked' = asked
    BY <2>1 DEF TaskBegins
  <2>3. QED
    BY <2>1, <2>2 DEF BoxMoves, BoxKept
<1>3. CASE InitCreate
  <2>1. TaskEnds
    BY <1>3, DoesInitCreate
  <2>2. box' = <<>> \/ box' = box
    BY <1>3 DEF InitCreate
  <2>3. QED
    BY <2>1, <2>2, EndsKeep DEF BoxMoves
<1>4. CASE InitDevice \/ DeinitDelete
  <2>1. TaskEnds
    BY <1>4, DoesInitDevice, DoesDeinit
  <2>2. box' = box
    BY <1>4 DEF InitDevice, DeinitDelete, Uses, reqs
  <2>3. QED
    BY <2>1, <2>2, EndsKeep DEF BoxMoves
<1>5. CASE DeinitTear
  <2>1. TaskEnds
    BY <1>5, DoesDeinit
  <2>2. box' = <<>> \/ box' = box
    BY <1>5 DEF DeinitTear, Uses, reqs
  <2>3. QED
    BY <2>1, <2>2, EndsKeep DEF BoxMoves
<1>6. CASE \E t \in Tasks : TaskStep(t)
  BY <1>6, BoxTask
<1>7. CASE ReqTake
  <2>1. box # <<>> /\ box' = Tail(box) /\ UNCHANGED <<op, at, asked>>
    BY <1>7 DEF ReqTake, calls
  <2>2. QED
    BY <2>1 DEF BoxMoves, BoxTaken
<1>8. CASE ReqResetPin \/ ReqTimeout \/ RespParse
  BY <1>8, BoxComplete
<1>9. CASE \E r \in {"ok", "err"} : DevAnswer(r)
  <2>1. TaskStays /\ UNCHANGED <<box, op, at, asked>>
    BY <1>9, DoesDevAnswer DEF DevAnswer, calls
  <2>2. QED
    BY <2>1 DEF BoxMoves, BoxKept
<1>10. QED
  BY <1>1, <1>2, <1>3, <1>4, <1>5, <1>6, <1>7, <1>8, <1>9 DEF Next, TaskStep

-----------------------------------------------------------------------------
(* The two requests of a reset that it does not wait for.                  *)

\* With Main's reset at step p, and in a wait if w: they are in the mailbox while
\* Main is at the next step or at the one that waits behind them.
Tells(b, p, w) ==
  /\ \A i \in DOMAIN b : ~b[i].blocking =>
       /\ p \in {7, 8} /\ (p = 7 => b[i].cmd = "CWMODE")
       /\ p = 8 /\ w => \E j \in DOMAIN b : j > i /\ b[j].blocking /\ b[j].by = Main
  /\ \A i, j \in DOMAIN b :
       i # j /\ ~b[i].blocking /\ ~b[j].blocking => b[i].cmd # b[j].cmd
TellInv == Tells(box, Pos, asked[Main] = "wait")

LEMMA TellsTake ==
  ASSUME NEW b \in Seq(ReqType), b # <<>>, NEW p, NEW w \in BOOLEAN, Tells(b, p, w)
  PROVE  Tells(Tail(b), p, w)
<1> DEFINE r == Tail(b)
<1>1. /\ r \in Seq(ReqType) /\ Len(r) = Len(b) - 1
      /\ \A i \in 1..Len(r) : r[i] = b[i + 1]
  BY HeadTailProperties
<1>2. Len(b) \in Nat /\ Len(b) > 0
  BY EmptySeq
<1> HIDE DEF r
<1>3. ASSUME NEW i \in DOMAIN r PROVE i + 1 \in DOMAIN b /\ r[i] = b[i + 1] /\ i \in Nat
  BY <1>1, <1>2
<1>4. ASSUME NEW j \in DOMAIN b, NEW i \in DOMAIN r, j > i + 1
      PROVE  j - 1 \in DOMAIN r /\ r[j - 1] = b[j] /\ j - 1 > i
  <2>1. j \in 1..Len(b) /\ i \in 1..(Len(b) - 1)
    BY <1>1, <1>2
  <2>2. j - 1 \in 1..Len(r) /\ (j - 1) + 1 = j /\ j - 1 > i
    BY <2>1, <1>1, <1>2, <1>4
  <2>3. QED
    BY <2>2, <1>1
<1>5. ASSUME NEW i \in DOMAIN r, ~r[i].blocking
      PROVE  /\ p \in {7, 8} /\ (p = 7 => r[i].cmd = "CWMODE")
             /\ p = 8 /\ w => \E j \in DOMAIN r : j > i /\ r[j].blocking /\ r[j].by = Main
  <2>1. i + 1 \in DOMAIN b /\ ~b[i + 1].blocking /\ r[i] = b[i + 1]
    BY <1>3, <1>5
  <2>2. p \in {7, 8} /\ (p = 7 => r[i].cmd = "CWMODE")
    BY <2>1 DEF Tells
  <2>3. ASSUME p = 8, w PROVE \E j \in DOMAIN r : j > i /\ r[j].blocking /\ r[j].by = Main
    <3>1. PICK j \in DOMAIN b : j > i + 1 /\ b[j].blocking /\ b[j].by = Main
      BY <2>1, <2>3 DEF Tells
    <3>2. j - 1 \in DOMAIN r /\ r[j - 1] = b[j] /\ j - 1 > i
      BY <3>1, <1>4
    <3>3. QED
      BY <3>1, <3>2
  <2>4. QED
    BY <2>2, <2>3
<1>6. ASSUME NEW i \in DOMAIN r, NEW j \in DOMAIN r, i # j, ~r[i].blocking, ~r[j].blocking
      PROVE  r[i].cmd # r[j].cmd
  <2>1. i + 1 # j + 1
    BY <1>3, <1>6
  <2>2. QED
    BY <2>1, <1>3, <1>6 DEF Tells
<1>7. Tells(r, p, w)
  BY <1>5, <1>6 DEF Tells
<1>8. QED
  BY <1>7 DEF r

LEMMA AppendIs ==
  ASSUME NEW b \in Seq(ReqType), NEW q \in ReqType, NEW r, r = Append(b, q)
  PROVE  /\ r \in Seq(ReqType) /\ Len(b) \in Nat
         /\ Len(b) + 1 \in DOMAIN r /\ r[Len(b) + 1] = q
         /\ \A i \in DOMAIN b : i \in DOMAIN r /\ r[i] = b[i] /\ i < Len(b) + 1
         /\ \A i \in DOMAIN r : i \in DOMAIN b \/ i = Len(b) + 1
<1>1. /\ r \in Seq(ReqType) /\ Len(r) = Len(b) + 1
      /\ \A i \in 1..Len(b) : r[i] = b[i]
      /\ r[Len(b) + 1] = q
  BY AppendProperties
<1>2. Len(b) \in Nat /\ DOMAIN b = 1..Len(b) /\ DOMAIN r = 1..(Len(b) + 1)
  BY <1>1
<1>3. QED
  BY <1>1, <1>2

\* A blocking request is put; it is Main's if Main begins to wait.
LEMMA TellsAsk ==
  ASSUME NEW b \in Seq(ReqType), NEW q \in ReqType, q.blocking, NEW p, NEW w \in BOOLEAN,
         NEW v \in BOOLEAN, v => w \/ q.by = Main, Tells(b, p, w)
  PROVE  Tells(Append(b, q), p, v)
<1> DEFINE r == Append(b, q)
<1>1. /\ r \in Seq(ReqType) /\ Len(b) \in Nat
      /\ Len(b) + 1 \in DOMAIN r /\ r[Len(b) + 1] = q
      /\ \A i \in DOMAIN b : i \in DOMAIN r /\ r[i] = b[i] /\ i < Len(b) + 1
      /\ \A i \in DOMAIN r : i \in DOMAIN b \/ i = Len(b) + 1
  BY AppendIs
<1> HIDE DEF r
<1>2. ASSUME NEW i \in DOMAIN r, ~r[i].blocking PROVE i \in DOMAIN b /\ r[i] = b[i]
  BY <1>1, <1>2
<1>3. ASSUME NEW i \in DOMAIN r, ~r[i].blocking
      PROVE  /\ p \in {7, 8} /\ (p = 7 => r[i].cmd = "CWMODE")
             /\ p = 8 /\ v => \E j \in DOMAIN r : j > i /\ r[j].blocking /\ r[j].by = Main
  <2>1. i \in DOMAIN b /\ r[i] = b[i] /\ ~b[i].blocking
    BY <1>2, <1>3
  <2>2. p \in {7, 8} /\ (p = 7 => r[i].cmd = "CWMODE")
    BY <2>1 DEF Tells
  <2>3. ASSUME p = 8, v PROVE \E j \in DOMAIN r : j > i /\ r[j].blocking /\ r[j].by = Main
    <3>1. CASE w
      <4>1. PICK j \in DOMAIN b : j > i /\ b[j].blocking /\ b[j].by = Main
        BY <2>1, <2>3, <3>1 DEF Tells
      <4>2. QED
        BY <4>1, <1>1
    <3>2. CASE q.by = Main
      <4>1. i < Len(b) + 1 /\ i \in Nat
        BY <2>1, <1>1
      <4>2. Len(b) + 1 > i
        BY <4>1, <1>1
      <4>3. QED
        BY <4>2, <3>2, <1>1
    <3>3. QED
      BY <2>3, <3>1, <3>2
  <2>4. QED
    BY <2>2, <2>3
<1>4. ASSUME NEW i \in DOMAIN r, NEW j \in DOMAIN r, i # j, ~r[i].blocking, ~r[j].blocking
      PROVE  r[i].cmd # r[j].cmd
  BY <1>2, <1>4 DEF Tells
<1>5. Tells(r, p, v)
  BY <1>3, <1>4 DEF Tells
<1>6. QED
  BY <1>5 DEF r

\* One that does not block is put, and Main goes on.
LEMMA TellsTell ==
  ASSUME NEW b \in Seq(ReqType), NEW q \in ReqType, ~q.blocking, NEW p, NEW w \in BOOLEAN,
         NEW p2, \/ p = 6 /\ p2 = 7 /\ q.cmd = "CWMODE"
                 \/ p = 7 /\ p2 = 8 /\ q.cmd = "CIPMUX",
         Tells(b, p, w)
  PROVE  Tells(Append(b, q), p2, FALSE)
<1> DEFINE r == Append(b, q)
<1>1. /\ r \in Seq(ReqType) /\ Len(b) \in Nat
      /\ Len(b) + 1 \in DOMAIN r /\ r[Len(b) + 1] = q
      /\ \A i \in DOMAIN b : i \in DOMAIN r /\ r[i] = b[i] /\ i < Len(b) + 1
      /\ \A i \in DOMAIN r : i \in DOMAIN b \/ i = Len(b) + 1
  BY AppendIs
<1> HIDE DEF r
<1>2. \A i \in DOMAIN b : ~b[i].blocking => p = 7 /\ b[i].cmd = "CWMODE"
  BY DEF Tells
<1>3. \A i \in DOMAIN r : ~r[i].blocking => p2 \in {7, 8} /\ (p2 = 7 => r[i].cmd = "CWMODE")
  BY <1>1, <1>2
<1>4. ASSUME NEW i \in DOMAIN r, NEW j \in DOMAIN r, i # j, ~r[i].blocking, ~r[j].blocking
      PROVE  r[i].cmd # r[j].cmd
  <2>1. CASE i \in DOMAIN b /\ j \in DOMAIN b
    BY <2>1, <1>1, <1>4 DEF Tells
  <2>2. CASE i \in DOMAIN b /\ j = Len(b) + 1
    BY <2>2, <1>1, <1>2, <1>4
  <2>3. CASE j \in DOMAIN b /\ i = Len(b) + 1
    BY <2>3, <1>1, <1>2, <1>4
  <2>4. QED
    BY <2>1, <2>2, <2>3, <1>1, <1>4
<1>5. Tells(r, p2, FALSE)
  BY <1>3, <1>4 DEF Tells
<1>6. QED
  BY <1>5 DEF r

-----------------------------------------------------------------------------
(* The mailbox has room for Main.                                          *)

\* As many slots as there are applications, and three more.
Roomy == IsFiniteSet(Apps) /\ Cardinality(Apps) + 3 <= ReqCap

LEMMA RoomLeft ==
  ASSUME LifeInv, TellInv, Roomy, asked[Main] # "wait"
  PROVE  Len(box) < ReqCap
<1>1. CallTypes /\ ReqTypes /\ ReqInv /\ Main \in Tasks
  BY Types DEF LifeInv, Tasks
<1>2. box \in Seq(ReqType) /\ Len(box) \in Nat /\ DOMAIN box = 1..Len(box)
      /\ \A i \in DOMAIN box : box[i] \in ReqType
  BY <1>1 DEF ReqTypes
<1> DEFINE D == DOMAIN box
           A == {i \in D : box[i].blocking}
           T == D \ A
<1>3. IsFiniteSet(D) /\ Cardinality(D) = Len(box)
  <2>1. IsFiniteSet(1..Len(box)) /\ Cardinality(1..Len(box)) = Len(box)
    BY <1>2, FS_Interval
  <2>2. QED
    BY <1>2, <2>1
<1>4. A \subseteq D /\ T \subseteq D /\ A \cup T = D /\ A \cap T = {}
  OBVIOUS
<1>5. \A i \in A : box[i].blocking
  OBVIOUS
<1>6. \A i \in T : ~box[i].blocking
  OBVIOUS
<1> HIDE DEF D, A, T
<1>7. IsFiniteSet(A) /\ IsFiniteSet(T) /\ Cardinality(D) = Cardinality(A) + Cardinality(T)
      /\ Cardinality(A) \in Nat /\ Cardinality(T) \in Nat
  <2>1. IsFiniteSet(A) /\ IsFiniteSet(T)
    BY <1>3, <1>4, FS_Subset
  <2>2. Cardinality(A \cup T) = Cardinality(A) + Cardinality(T) - Cardinality(A \cap T)
    BY <2>1, FS_Union
  <2>3. Cardinality(A \cap T) = 0
    BY <1>4, FS_EmptySet
  <2>4. Cardinality(A) \in Nat /\ Cardinality(T) \in Nat
    BY <2>1, FS_CardinalityType
  <2>5. Cardinality(A \cup T) = Cardinality(A) + Cardinality(T)
    BY <2>2, <2>3, <2>4
  <2>6. A \cup T = D
    BY <1>4
  <2>7. QED
    BY <2>1, <2>4, <2>5, <2>6
\* No two blocking requests are of the same application, and none is Main's.
<1>8. Cardinality(A) <= Cardinality(Apps)
  <2>1. ASSUME NEW i \in A PROVE box[i].by \in Apps
    <3>1. i \in D /\ box[i] \in ReqType /\ box[i].blocking
      BY <1>2, <1>4, <1>5 DEF D
    <3>2. Owned(box[i], waits)
      BY <3>1, <1>1 DEF D, ReqInv, Requested
    <3>3. waits[box[i].by] = box[i].cmd /\ box[i].cmd \in Cmds /\ box[i].by \in Tasks
      BY <3>1, <3>2 DEF Owned, ReqType
    <3>4. waits[Main] = NoCmd
      BY <1>1, WaitsNot
    <3>5. QED
      BY <3>3, <3>4, NoReqIs DEF Tasks
  <2>2. SUFFICES ASSUME Cardinality(Apps) < Cardinality(A) PROVE FALSE
    BY <1>7, FS_CardinalityType DEF Roomy
  <2> DEFINE f == [i \in A |-> box[i].by]
  <2>3. f \in [A -> Apps]
    BY <2>1
  <2>4. \A i \in A : f[i] = box[i].by
    OBVIOUS
  <2> HIDE DEF f
  <2>5. PICK i \in A, j \in A : i # j /\ f[i] = f[j]
    BY <2>2, <2>3, <1>7, FS_PigeonHole DEF Roomy
  <2>6. Apart(box[i], box[j])
    BY <2>5, <1>1, <1>4 DEF D, ReqInv, Requested
  <2>7. QED
    BY <2>4, <2>5, <2>6, <1>5 DEF Apart
\* Those that do not block are of two commands.
<1>9. Cardinality(T) <= 2
  <2> DEFINE two == {"CWMODE", "CIPMUX"}
  <2>1. IsFiniteSet(two) /\ Cardinality(two) = 2
    <3>1. IsFiniteSet({"CWMODE"}) /\ Cardinality({"CWMODE"}) = 1
      BY FS_Singleton
    <3>2. /\ IsFiniteSet({"CWMODE"} \cup {"CIPMUX"})
          /\ Cardinality({"CWMODE"} \cup {"CIPMUX"}) = 1 + 1
      BY <3>1, FS_AddElement
    <3>3. {"CWMODE"} \cup {"CIPMUX"} = two
      OBVIOUS
    <3>4. QED
      BY <3>2, <3>3
  <2>2. ASSUME NEW i \in T PROVE box[i].cmd \in two
    <3>1. Owned(box[i], waits) /\ ~box[i].blocking
      BY <1>1, <1>4, <1>6 DEF D, ReqInv, Requested
    <3>2. QED
      BY <3>1 DEF Owned
  <2> DEFINE f == [i \in T |-> box[i].cmd]
  <2>3. f \in [T -> two]
    BY <2>2
  <2>4. \A i \in T : f[i] = box[i].cmd
    OBVIOUS
  <2> HIDE DEF f, two
  <2>5. SUFFICES ASSUME Cardinality(two) < Cardinality(T) PROVE FALSE
    BY <2>1, <1>7
  <2>6. PICK i \in T, j \in T : i # j /\ f[i] = f[j]
    BY <2>1, <2>3, <2>5, <1>7, FS_PigeonHole
  <2>7. box[i].cmd = box[j].cmd
    BY <2>4, <2>6
  <2>8. i \in D /\ j \in D /\ ~box[i].blocking /\ ~box[j].blocking
    BY <1>4, <1>6
  <2>9. QED
    BY <2>6, <2>7, <2>8 DEF TellInv, Tells, D
<1>10. Cardinality(Apps) \in Nat /\ ReqCap \in Nat
  BY FS_CardinalityType, LifeAssumption DEF Roomy
<1>11. QED
  BY <1>3, <1>7, <1>8, <1>9, <1>10 DEF Roomy

-----------------------------------------------------------------------------
(* Main outside a reset.                                                   *)

LEMMA MainDoes ==
  ASSUME LifeInv, OnlineInv, op[Main] # "idle", ~(Pos > 0)
  PROVE  /\ Here(Main).do \notin {"stop", "start", "tell"}
         /\ Here(Main).do = "tear" => op[Main] = "deinit"
         /\ op[Main] # "reset"
         /\ ~running \/ op[Main] \notin {"init", "deinit"}
<1>1. CallTypes /\ CallInv /\ PhaseInv /\ Main \in Tasks
  BY Types DEF LifeInv, Tasks
<1>2. op[Main] \in Operations /\ at[Main] \in 1..Size(op[Main])
  BY <1>1, Where
<1>3. Here(Main).do = "tear" => op[Main] = "deinit"
  BY <1>1, Where
<1>4. op[Main] # "reset"
  BY <1>2, Sizes DEF Pos
<1>5. Here(Main).do \notin {"stop", "start", "tell"}
  <2>1. CASE op[Main] = "restore"
    BY <2>1, RestoreAsks DEF OnlineInv
  <2>2. CASE op[Main] = "init"
    <3>1. CASE at[Main] = 1 \/ at[Main] = 2
      BY <2>2, <3>1, SpecialSteps DEF Here, Do, Step
    <3>2. CASE at[Main] > 2
      <4>1. RestoreOnInit /\ at[Main] = 3
        BY <2>2, <3>2, <1>2, Sizes DEF Pos, OnlineInv
      <4>2. QED
        BY <2>2, <4>1, RestoreAsks
    <3>3. at[Main] \in Nat /\ at[Main] >= 1
      BY <1>1, Sizes DEF CallTypes
    <3>4. QED
      BY <3>1, <3>2, <3>3
  <2>3. CASE op[Main] = "deinit"
    <3>1. at[Main] = 1 \/ at[Main] = 2
      BY <2>3, <1>2, Sizes
    <3>2. QED
      BY <2>3, <3>1, SpecialSteps DEF Here, Do, Step
  <2>4. CASE op[Main] \notin ResetOps \cup {"deinit"}
    BY <2>4, <1>2, AppSteps DEF Here
  <2>5. QED
    BY <1>4, <2>1, <2>2, <2>3, <2>4 DEF ResetOps
<1>6. ~running \/ op[Main] \notin {"init", "deinit"}
  BY <1>1 DEF PhaseInv
<1>7. QED
  BY <1>3, <1>4, <1>5, <1>6

LEMMA PosInt == ASSUME LifeInv PROVE Pos \in Int
<1>1. CallTypes /\ Main \in Tasks
  BY Types DEF LifeInv, Tasks
<1>2. at[Main] \in Int
  BY <1>1, Sizes DEF CallTypes
<1>3. QED
  BY <1>2 DEF Pos

\* When the request that waits behind them is served they have been.
LEMMA TellsGone ==
  ASSUME LifeInv, TellInv, cur # NoReq, cur.blocking, cur.by = Main, asked[Main] = "wait",
         Pos = 8, NEW i \in DOMAIN box
  PROVE  box[i].blocking
<1>1. ReqInv
  BY Types DEF LifeInv
<1>2. \A j \in DOMAIN box : Apart(cur, box[j])
  BY <1>1 DEF ReqInv, Requested
<1>3. SUFFICES ASSUME ~box[i].blocking PROVE FALSE
  OBVIOUS
<1>4. PICK j \in DOMAIN box : j > i /\ box[j].blocking /\ box[j].by = Main
  BY <1>3 DEF TellInv, Tells
<1>5. QED
  BY <1>2, <1>4 DEF Apart

\* Where the reset is kept, or the mailbox holds none of its requests.
LEMMA TellsKept ==
  ASSUME NEW b, NEW p, NEW w \in BOOLEAN, Tells(b, p, w), NEW p2, NEW v \in BOOLEAN,
         \/ p2 = p /\ (v => w)
         \/ p \notin {7, 8}
         \/ p = 7 /\ p2 = 8 /\ ~v
         \/ \A i \in DOMAIN b : b[i].blocking
  PROVE  Tells(b, p2, v)
<1>1. CASE p2 = p /\ (v => w)
  BY <1>1 DEF Tells
<1>2. CASE p \notin {7, 8}
  BY <1>2 DEF Tells
<1>3. CASE p = 7 /\ p2 = 8 /\ ~v
  BY <1>3 DEF Tells
<1>4. CASE \A i \in DOMAIN b : b[i].blocking
  BY <1>4 DEF Tells
<1>5. QED
  BY <1>1, <1>2, <1>3, <1>4

\* Main ends a step and puts nothing.
LEMMA TellsMain ==
  ASSUME LifeInv, OnlineInv, TellInv, Roomy, NEW r \in Results, op[Main] # "idle",
         Ended(Main, r), Effect(Main, r), box' = box
  PROVE  TellInv'
<1>1. CallTypes /\ CallInv /\ Main \in Tasks /\ Pos \in Int
  BY Types, PosInt DEF LifeInv, Tasks
<1>2. asked'[Main] # "wait" /\ op[Main] \in Operations
  BY <1>1 DEF Ended, CallTypes
<1>3. \/ Pos \notin {7, 8}
      \/ Pos = 7 /\ Pos' = 8
      \/ \A i \in DOMAIN box : box[i].blocking
  <2>1. SUFFICES ASSUME Pos \in {7, 8}
                 PROVE  (Pos = 7 /\ Pos' = 8) \/ \A i \in DOMAIN box : box[i].blocking
    OBVIOUS
  <2>2. /\ Here(Main) = ResetSteps[Pos] /\ Pos \in 1..10 /\ at[Main] # Size(op[Main])
    BY <1>1, <2>1, PosHere
  <2>3. CASE Pos = 7
    <3>1. Here(Main).need = Results /\ Here(Main).do = "tell"
      BY <2>2, <2>3, ResetStepsAre DEF Tell, Step
    <3>2. op'[Main] # "idle"
      BY <3>1, <2>2 DEF Effect
    <3>3. WentOn(Main, r)
      BY <3>2 DEF Ended, Left
    <3>4. op[Main] = "reset" \/ (op[Main] = "init" /\ ~RestoreOnInit)
      BY <2>3 DEF Pos
    <3>5. Pos' = Pos + 1
      BY <1>1, <3>3, <3>4, PosMoves
    <3>6. QED
      BY <3>5, <2>3
  <2>4. CASE Pos = 8
    <3>1. Here(Main).do = "ask" /\ ~Here(Main).guarded
      BY <2>2, <2>4, ResetNeeds
    <3>2. AskEnds(Main, r)
      BY <3>1 DEF Effect
    <3>3. asked[Main] = "wait" /\ cur # NoReq /\ cur.blocking /\ cur.by = Main
      BY <3>1, <3>2, RoomLeft DEF AskEnds
    <3>4. QED
      BY <3>3, <2>4, TellsGone
  <2>5. QED
    BY <2>1, <2>3, <2>4
<1>4. Tells(box, Pos', FALSE)
  BY <1>3, TellsKept DEF TellInv
<1>5. (asked'[Main] = "wait") = FALSE
  BY <1>2
<1>6. Tells(box', Pos', asked'[Main] = "wait")
  BY <1>4, <1>5
<1>7. QED
  BY <1>6 DEF TellInv

\* A request that does not block is put, by Main in its reset.
LEMMA TellsTold ==
  ASSUME OnlyMainResets, LifeInv, OnlineInv, TellInv, NEW t \in Tasks, BoxTold(t)
  PROVE  TellInv'
<1>1. /\ CallTypes /\ ReqTypes /\ CallInv /\ Main \in Tasks /\ Pos \in Int
  BY Types, PosInt DEF LifeInv, Tasks
<1>2. /\ op[t] # "idle" /\ Here(t).do = "tell" /\ Ended(t, "ok")
      /\ op'[t] = "idle" => at[t] = Size(op[t]) \/ "ok" \notin Here(t).need
      /\ box' = Append(box, Request(t, Here(t).cmd, FALSE))
  BY DEF BoxTold
<1>3. t = Main
  BY <1>1, <1>2, AppDoes
<1>4. Pos > 0
  BY <1>2, <1>3, MainDoes
<1>5. /\ Here(Main) = ResetSteps[Pos] /\ Pos \in 1..10
      /\ at[Main] = Size(op[Main]) <=> Pos = 10
  BY <1>1, <1>4, PosHere
<1>6. Pos = 6 \/ Pos = 7
  <2>1. Pos = 1 \/ Pos = 3 \/ Pos \in {2, 4, 5, 8, 9, 10} \/ Pos = 6 \/ Pos = 7
    BY <1>5
  <2>2. QED
    BY <2>1, <1>2, <1>3, <1>5, ResetNeeds
<1>7. /\ Pos = 6 => Here(Main).cmd = "CWMODE"
      /\ Pos = 7 => Here(Main).cmd = "CIPMUX"
      /\ Here(Main).need = Results
  BY <1>5, <1>6, ResetStepsAre DEF Tell, Step
<1>8. Pos' = Pos + 1
  <2>1. op'[Main] # "idle"
    BY <1>2, <1>3, <1>5, <1>6, <1>7, ResultsAre
  <2>2. WentOn(Main, "ok")
    BY <2>1, <1>2, <1>3 DEF Ended, Left
  <2>3. op[Main] = "reset" \/ (op[Main] = "init" /\ ~RestoreOnInit)
    BY <1>4 DEF Pos
  <2>4. QED
    BY <1>1, <1>2, <1>3, <2>2, <2>3, PosMoves
<1>9. PICK q : q = Request(t, Here(t).cmd, FALSE)
  OBVIOUS
<1>10. q \in ReqType /\ ~q.blocking /\ q.cmd = Here(Main).cmd
  BY <1>3, <1>6, <1>7, <1>9 DEF Request, ReqType, Cmds
<1>11. Tells(Append(box, q), Pos', FALSE)
  <2>1. \/ Pos = 6 /\ Pos' = 7 /\ q.cmd = "CWMODE"
        \/ Pos = 7 /\ Pos' = 8 /\ q.cmd = "CIPMUX"
    BY <1>6, <1>7, <1>8, <1>10
  <2>2. Tells(box, Pos, asked[Main] = "wait") /\ (asked[Main] = "wait") \in BOOLEAN
    BY DEF TellInv
  <2>3. QED
    BY <2>1, <2>2, <1>1, <1>10, TellsTell DEF ReqTypes
<1>12. (asked'[Main] = "wait") = FALSE
  BY <1>2, <1>3 DEF Ended
<1>13. Tells(box', Pos', asked'[Main] = "wait")
  BY <1>2, <1>9, <1>11, <1>12
<1>14. QED
  BY <1>13 DEF TellInv

LEMMA TellsNext ==
  ASSUME OnlyMainResets, Roomy, LifeInv, OnlineInv, TellInv, [Next]_vars
  PROVE  TellInv'
<1>1. /\ CallTypes /\ ReqTypes /\ CallInv /\ Main \in Tasks /\ Pos \in Int
  BY Types, PosInt DEF LifeInv, Tasks
<1> DEFINE w == asked[Main] = "wait"
<1>2. Tells(box, Pos, w) /\ w \in BOOLEAN
  BY DEF TellInv
<1>3. CASE \E t \in Tasks : BoxAsked(t)
  <2>1. PICK t \in Tasks : BoxAsked(t)
    BY <1>3
  <2>2. /\ op[t] # "idle" /\ Here(t).do = "ask"
        /\ box' = Append(box, Request(t, Here(t).cmd, TRUE))
        /\ op' = op /\ at' = at
        /\ asked'[t] = "wait" /\ \A u \in Tasks \ {t} : asked'[u] = asked[u]
    BY <2>1 DEF BoxAsked
  <2>3. Pos' = Pos
    BY <2>2 DEF Pos
  <2>4. PICK q : q = Request(t, Here(t).cmd, TRUE)
    OBVIOUS
  <2>5. Ordinary(Here(t))
    BY <1>1, <2>2, Where DEF Special
  <2>6. q \in ReqType /\ q.blocking /\ q.by = t
    BY <2>2, <2>4, <2>5 DEF Request, ReqType, Ordinary
  <2>7. PICK v \in BOOLEAN : v = (asked'[Main] = "wait")
    OBVIOUS
  <2>8. v => w \/ q.by = Main
    BY <1>1, <2>2, <2>6, <2>7
  <2>9. Tells(Append(box, q), Pos, v)
    BY <1>1, <1>2, <2>6, <2>8, TellsAsk DEF ReqTypes
  <2>10. Tells(box', Pos', asked'[Main] = "wait")
    BY <2>2, <2>3, <2>4, <2>7, <2>9
  <2>11. QED
    BY <2>10 DEF TellInv
<1>4. CASE \E t \in Tasks : BoxTold(t)
  BY <1>4, TellsTold
<1>5. CASE BoxTaken
  <2>1. box # <<>> /\ box' = Tail(box) /\ op' = op /\ at' = at /\ asked' = asked
    BY <1>5 DEF BoxTaken
  <2>2. Pos' = Pos
    BY <2>1 DEF Pos
  <2>3. Tells(Tail(box), Pos, w)
    BY <1>1, <1>2, <2>1, TellsTake DEF ReqTypes
  <2>4. Tells(box', Pos', asked'[Main] = "wait")
    BY <2>1, <2>2, <2>3
  <2>5. QED
    BY <2>4 DEF TellInv
<1>6. CASE box' = <<>>
  <2>1. DOMAIN box' = {}
    BY <1>6
  <2>2. QED
    BY <2>1 DEF TellInv, Tells
<1>7. CASE BoxKept
  <2>1. box' = box /\ (asked'[Main] = "wait" => w)
    BY <1>7 DEF BoxKept
  <2>2. CASE TaskEnds
    <3>1. PICK t \in Tasks, r \in Results : op[t] # "idle" /\ Ended(t, r) /\ Effect(t, r)
      BY <2>2 DEF TaskEnds
    <3>2. CASE t = Main
      BY <2>1, <3>1, <3>2, TellsMain
    <3>3. CASE t # Main
      <4>1. Pos' = Pos
        BY <3>1, <3>3, OtherEnds
      <4>2. QED
        BY <2>1, <4>1 DEF TellInv, Tells
    <3>4. QED
      BY <3>2, <3>3
  <2>3. CASE TaskBegins
    <3>1. PICK t \in Tasks :
            /\ op[t] = "idle"
            /\ \A u \in Tasks \ {t} : op'[u] = op[u] /\ at'[u] = at[u]
      BY <2>3 DEF TaskBegins
    <3>2. CASE t = Main
      <4>1. Pos = 0
        BY <3>1, <3>2 DEF Pos
      <4>2. QED
        BY <2>1, <4>1 DEF TellInv, Tells
    <3>3. CASE t # Main
      <4>1. Pos' = Pos
        BY <1>1, <3>1, <3>3 DEF Pos
      <4>2. QED
        BY <2>1, <4>1 DEF TellInv, Tells
    <3>4. QED
      BY <3>2, <3>3
  <2>4. CASE TaskStays
    <3>1. Pos' = Pos
      BY <2>4 DEF TaskStays, Pos
    <3>2. QED
      BY <2>1, <3>1 DEF TellInv, Tells
  <2>5. QED
    BY <2>2, <2>3, <2>4, EveryStep
<1>8. QED
  BY <1>3, <1>4, <1>5, <1>6, <1>7, EveryMove DEF BoxMoves

-----------------------------------------------------------------------------
(* The library listens.                                                    *)

\* With the reset pin no answer is expected to AT+RST; and but for the middle of a
\* reset a running library receives.
HearInv ==
  /\ cur.cmd = "RESET" => said = Nothing
  /\ running /\ ~(Pos > 1) => receiving

LEMMA PinSilent ==
  ASSUME HwReset, LifeInv, HearInv, [Next]_vars
  PROVE  (cur.cmd = "RESET" => said = Nothing)'
<1>1. ReqInv
  BY Types DEF LifeInv
<1>2. NoReq.cmd # "RESET"
  BY DEF NoReq, NoCmd
<1>3. CASE ReqTake
  <2>1. said' = said /\ said = Nothing
    BY <1>1, <1>3 DEF ReqTake, ReqInv
  <2>2. QED
    BY <2>1
<1>4. CASE ReqResetPin \/ ReqTimeout \/ RespParse
  BY <1>2, <1>4 DEF ReqResetPin, ReqTimeout, RespParse, Complete
<1>5. CASE \E r \in {"ok", "err"} : DevAnswer(r)
  BY <1>5 DEF DevAnswer, Pin
<1>6. CASE UNCHANGED <<cur, said>>
  BY <1>6 DEF HearInv
<1>7. CASE UNCHANGED vars \/ CallInit \/ CallDeinit \/ InitCreate \/ InitDevice \/ DeinitDelete
           \/ \E t \in Tasks, o \in MainOps \cup AppOps : Call(t, o)
  BY <1>6, <1>7 DEF vars, CallInit, CallDeinit, InitCreate, InitDevice, DeinitDelete, Call, Uses, reqs
<1>8. CASE DeinitTear
  <2>1. cur' = NoReq \/ UNCHANGED <<cur, said>>
    BY <1>8 DEF DeinitTear, Uses, reqs
  <2>2. QED
    BY <2>1, <1>2, <1>6
<1>9. CASE \E t \in Tasks : TaskStep(t)
  BY <1>6, <1>9 DEF TaskStep, RecvStop, RecvStart, CloseTest, CloseAbsent, PowerOff,
     PowerSupply, PowerStore, ReqCheck, ReqPut, Uses, reqs
<1>10. QED
  BY <1>3, <1>4, <1>5, <1>7, <1>8, <1>9 DEF Next, TaskStep

\* Main leaves a reset only when it has started to receive again.
LEMMA LeavesHearing ==
  ASSUME HwReset, "start" \notin MayFail, Roomy, LifeInv, OnlineInv, TellInv, HearInv,
         NEW r \in Results, op[Main] # "idle", Pos > 0,
         Ended(Main, r), Effect(Main, r), op'[Main] = "idle"
  PROVE  receiving'
<1>1. CallTypes /\ CallInv /\ Main \in Tasks /\ Pos \in Int
  BY Types, PosInt DEF LifeInv, Tasks
<1>2. /\ Here(Main) = ResetSteps[Pos] /\ Pos \in 1..10
      /\ at[Main] = Size(op[Main]) <=> Pos = 10
  BY <1>1, PosHere
<1>3. Here(Main).do \notin {"test", "tear", "device"}
  BY <1>2, ResetNeeds, ResetOrdinary DEF Ordinary, Special
<1>4. Pos = 10 \/ r \notin Here(Main).need
  BY <1>2, <1>3 DEF Effect
<1>5. Pos # 1
  BY <1>2, <1>4, ResetStepsAre DEF Do, Step
<1>6. Pos # 2
  <2>1. SUFFICES ASSUME Pos = 2 PROVE FALSE
    OBVIOUS
  <2>2. /\ Here(Main).do = "ask" /\ ~Here(Main).guarded /\ Here(Main).cmd = "RESET"
        /\ Here(Main).need = {"ok", "nocmd"}
    BY <1>2, <2>1, ResetStepsAre DEF Ask, Step
  <2>3. asked[Main] = "wait" /\ cur # NoReq /\ cur.blocking /\ cur.by = Main
        /\ (said = Nothing => r = "nocmd")
    BY <2>2, RoomLeft DEF Effect, AskEnds
  <2>4. cur.cmd = "RESET"
    BY <2>2, <2>3, Waiter
  <2>5. QED
    BY <2>1, <2>2, <2>3, <2>4, <1>4 DEF HearInv
<1>7. Pos # 3
  <2>1. SUFFICES ASSUME Pos = 3 PROVE FALSE
    OBVIOUS
  <2>2. Here(Main).do = "start" /\ Here(Main).need = {"ok"}
    BY <1>2, <2>1, ResetStepsAre DEF Start, Step
  <2>3. QED
    BY <2>1, <2>2, <1>4 DEF Effect
<1>8. Pos > 3 /\ Here(Main).do \notin {"stop", "start", "tear"}
  BY <1>2, <1>5, <1>6, <1>7, ResetNeeds
<1>9. receiving /\ receiving' = receiving
  BY <1>8 DEF OnlineInv, Effect
<1>10. QED
  BY <1>9

LEMMA HearNext ==
  ASSUME HwReset, "start" \notin MayFail, OnlyMainResets, Roomy,
         LifeInv, OnlineInv, TellInv, HearInv, [Next]_vars
  PROVE  HearInv'
<1>1. CallTypes /\ CallInv /\ PhaseInv /\ Main \in Tasks /\ Pos \in Int
  BY Types, PosInt DEF LifeInv, Tasks
<1>2. SUFFICES ASSUME running', ~(Pos' > 1) PROVE receiving'
  BY PinSilent DEF HearInv
<1>3. CASE TaskStays
  BY <1>2, <1>3 DEF TaskStays, Pos, HearInv
<1>4. CASE TaskBegins
  <2>1. PICK t \in Tasks :
          /\ op[t] = "idle" /\ receiving' = receiving /\ (running' => running)
          /\ \A u \in Tasks \ {t} : op'[u] = op[u] /\ at'[u] = at[u]
    BY <1>4 DEF TaskBegins
  <2>2. CASE t = Main
    <3>1. Pos = 0
      BY <2>1, <2>2 DEF Pos
    <3>2. QED
      BY <1>2, <2>1, <3>1 DEF HearInv
  <2>3. CASE t # Main
    <3>1. Pos' = Pos
      BY <1>1, <2>1, <2>3 DEF Pos
    <3>2. QED
      BY <1>2, <2>1, <3>1 DEF HearInv
  <2>4. QED
    BY <2>2, <2>3
<1>5. CASE TaskEnds
  <2>1. PICK t \in Tasks, r \in Results : op[t] # "idle" /\ Ended(t, r) /\ Effect(t, r)
    BY <1>5 DEF TaskEnds
  <2>2. CASE t # Main
    <3>1. Pos' = Pos /\ receiving' = receiving /\ running' = running
      BY <2>1, <2>2, OtherEnds
    <3>2. QED
      BY <1>2, <3>1 DEF HearInv
  <2>3. CASE t = Main /\ Pos > 0
    <3>1. CASE op'[Main] = "idle"
      BY <2>1, <2>3, <3>1, LeavesHearing
    <3>2. CASE op'[Main] # "idle"
      <4>1. WentOn(Main, r)
        BY <2>1, <2>3, <3>2 DEF Ended, Left
      <4>2. op[Main] = "reset" \/ (op[Main] = "init" /\ ~RestoreOnInit)
        BY <2>3 DEF Pos
      <4>3. Pos' = Pos + 1
        BY <1>1, <2>1, <2>3, <4>1, <4>2, PosMoves
      <4>4. QED
        BY <1>1, <1>2, <2>3, <4>3
    <3>3. QED
      BY <3>1, <3>2
  <2>4. CASE t = Main /\ ~(Pos > 0)
    <3>1. /\ Here(Main).do \notin {"stop", "start", "tell"}
          /\ Here(Main).do = "tear" => op[Main] = "deinit"
          /\ ~running \/ op[Main] \notin {"init", "deinit"}
      BY <2>1, <2>4, MainDoes
    <3>2. running
      <4>1. CASE op[Main] = "init" /\ op'[Main] = "idle" /\ r = "ok"
        <5>1. op[Main] \in ResetOps /\ result'[Main] = "ok"
          BY <4>1, <2>1, <2>4 DEF ResetOps, Ended
        <5>2. Pos = 10
          BY <1>1, <4>1, <5>1, OkIsLast
        <5>3. QED
          BY <5>2, <2>4
      <4>2. CASE ~(op[Main] = "init" /\ op'[Main] = "idle" /\ r = "ok")
        BY <1>2, <2>1, <2>4, <4>2 DEF Ended, Left, WentOn
      <4>3. QED
        BY <4>1, <4>2
    <3>3. receiving' = receiving
      BY <2>1, <2>4, <3>1, <3>2 DEF Effect
    <3>4. ~(Pos > 1)
      BY <1>1, <2>4
    <3>5. QED
      BY <3>2, <3>3, <3>4 DEF HearInv
  <2>5. QED
    BY <2>2, <2>3, <2>4
<1>6. QED
  BY <1>3, <1>4, <1>5, EveryStep

LEMMA HearInit == Init => TellInv /\ HearInv
<1> SUFFICES ASSUME Init PROVE TellInv /\ HearInv
  OBVIOUS
<1>1. box = <<>> /\ said = Nothing /\ running = FALSE
  BY DEF Init
<1>2. DOMAIN box = {}
  BY <1>1
<1>3. QED
  BY <1>1, <1>2 DEF TellInv, Tells, HearInv

\* While no reset is in progress a running library receives: eESPresetWithDelay
\* gives up between stopping and starting the receiver only where AT+RST is not
\* reported as done, and with the reset pin and a mailbox that has room for it
\* that cannot be (esp_misc.c:56-84, esp_thread.c:36-44).
THEOREM HearsCorrect ==
  ASSUME ~Retry, ~BusyDeinit, "mutex" \notin MayFail, "start" \notin MayFail, HwReset,
         OnlyMainResets, Roomy
  PROVE  Spec => []Hears
<1>1. /\ LifeInv /\ OnlineInv /\ TellInv /\ HearInv /\ [Next]_vars
           => LifeInv' /\ OnlineInv' /\ TellInv' /\ HearInv'
  BY LifeNext, OnlineNext, TellsNext, HearNext
<1>2. LifeInv /\ OnlineInv /\ HearInv => Hears
  <2>1. SUFFICES ASSUME LifeInv, HearInv, running, \A t \in Tasks : op[t] \notin ResetOps
                 PROVE  receiving
    BY DEF Hears
  <2>2. op[Main] # "reset" /\ op[Main] # "init"
    BY <2>1 DEF Tasks, ResetOps
  <2>3. Pos = 0
    BY <2>2 DEF Pos
  <2>4. QED
    BY <2>1, <2>3 DEF HearInv
<1>3. Init => LifeInv /\ OnlineInv /\ TellInv /\ HearInv
  BY LifeInit, OnlineInit, HearInit
<1>4. QED
  BY <1>1, <1>2, <1>3, PTL DEF Spec
=============================================================================
