----------------------------- MODULE Lifecycle ------------------------------
(***************************************************************************)
(* How the library and the device start, restart and stop: eESPinit and    *)
(* eESPdeinit (esp.c), reset, restore, sleep, close and power (esp_misc.c) *)
(* and the objects of the FreeRTOS port they create and delete.            *)
(*                                                                         *)
(* An operation of the API is a sequence of steps, and a step is a         *)
(* critical section or one request.  Requests take the way ATCore models   *)
(* in detail; here one request is served at a time, and answered in time   *)
(* or not at all.                                                          *)
(***************************************************************************)
EXTENDS Integers, Sequences

CONSTANTS
  Main,        (* the thread that starts and stops the library              *)
  Apps,        (* application threads                                       *)
  MainOps,     (* what Main does between init and deinit                    *)
  AppOps,      (* what applications do                                      *)
  ReqCap,      (* slots of mbox_cmd_req                                     *)
  MayFail,     (* what may fail to be created                               *)
  MaxInit,     (* calls of eESPinit (bound)                                 *)
  HwReset,     (* ESP_CFG_RST_PIN                                           *)
  RestoreOnInit,(* ESP_CFG_RESTORE_ON_INIT                                  *)
  Flaky,       (* the device may refuse a command or not answer it          *)
  Retry,       (* Main calls eESPinit again after it has failed             *)
  BusyDeinit   (* Main calls eESPdeinit while applications are in a call    *)

Tasks   == Apps \cup {Main}
Objects == {"mutex", "sem", "reqbox", "respbox"}
Threads == {"req", "resp"}
ResetOps == {"init", "reset", "restore"}
Operations == ResetOps \cup {"deinit", "close", "sleep", "on", "off", "join", "version"}

ASSUME LifeAssumption ==
  /\ Main \notin Apps /\ ReqCap \in Nat \ {0} /\ MaxInit \in Nat \ {0}
  /\ MainOps \subseteq Operations \ {"init", "deinit"}
  /\ AppOps \subseteq Operations \ {"init", "deinit"}
  /\ MayFail \subseteq Objects \cup Threads \cup {"dev", "start"}
  /\ HwReset \in BOOLEAN /\ RestoreOnInit \in BOOLEAN /\ Flaky \in BOOLEAN
  /\ Retry \in BOOLEAN /\ BusyDeinit \in BOOLEAN

VARIABLES
  objs,        \* objects of espGlobal that exist
  threads,     \* how many request and response threads there are
  initialized, \* espGlobal.status.flg
  present,     \* dev_present
  powered,     \* power_on
  cbs,         \* evtCbLstHead is not NULL
  receiving,   \* the UART receives
  version,     \* dev.version_at is known
  dev,         \* the device: "off", "on" or "asleep"
  box,         \* mbox_cmd_req
  cur,         \* the request in the hands of the request thread
  said,        \* what the device has answered to it, not parsed yet
  op, at,      \* each task: the operation, and the step it is at
  asked,       \* and how far the request of that step is
  result,      \* and what the last request reported
  running,     \* eESPinit has returned espOK: applications may use the API
  inits,       \* calls of eESPinit so far (bound)
  crashed,     \* a missing object was used
  heard        \* history: the device gave its version since it was switched
               \* off, or was about to

made   == <<objs, threads>>
flags  == <<initialized, present, powered>>
device == <<receiving, version, dev, heard>>
reqs   == <<box, cur, said>>
calls  == <<op, at, asked, result, running, cbs>>
vars   == <<made, flags, device, reqs, calls, inits, crashed>>

-----------------------------------------------------------------------------
(* Operations as sequences of steps.                                       *)

Results == {"ok", "nocmd", "err", "timeout", "skip", "nomem", "nodevice"}
NoCmd == "none"
Step(d, c, need, g) == [do |-> d, cmd |-> c, need |-> need, guarded |-> g]
Do(d) == Step(d, NoCmd, Results, FALSE)
Start == Step("start", NoCmd, {"ok"}, FALSE)
\* A blocking request; the operation goes on if its result is in need.
Ask(c, need) == Step("ask", c, need, FALSE)
\* One whose API function tests dev_present.
AskPresent(c) == Step("ask", c, Results, TRUE)
\* A non-blocking request, whose result is not looked at.
Tell(c) == Step("tell", c, Results, FALSE)

ResetStepsUntested ==
  << Do("stop"), Ask("RESET", {"ok", "nocmd"}), Start, Ask("ATE0", Results),
     Ask("GMR", Results), Tell("CWMODE"), Tell("CIPMUX"),
     Ask("SYSMSG", Results), Ask("CIPDINFO", Results), Ask("CIPSTATUS", Results) >>

\* eESPresetWithDelay
ResetSteps ==
  << Do("stop"), Ask("RESET", {"ok", "nocmd"}), Start, Ask("ATE0", Results),
     Ask("GMR", {"ok"}), Tell("CWMODE"), Tell("CIPMUX"),
     Ask("SYSMSG", Results), Ask("CIPDINFO", Results), Ask("CIPSTATUS", Results) >>

\* eESPrestore
RestoreSteps == <<Ask("RESTORE", {"ok"})>> \o ResetSteps

InitSteps == <<Do("create"), Do("device")>>
             \o (IF RestoreOnInit THEN RestoreSteps ELSE ResetSteps)

Steps(o) ==
  CASE o = "init"    -> InitSteps
    [] o = "deinit"  -> <<Do("tear"), Do("delete")>>
    [] o = "reset"   -> ResetSteps
    [] o = "restore" -> RestoreSteps
    [] o = "close"   -> <<Do("test"), AskPresent("CWQAP"), Do("absent")>>
    [] o = "sleep"   -> <<Ask("GSLP", Results)>>
    [] o = "on"      -> <<Do("supply"), Do("powered")>>
    [] o = "off"     -> <<Do("off")>>
    [] o = "join"    -> <<AskPresent("CWJAP")>>
    [] o = "version" -> <<Ask("GMR", Results)>>

Cmds == {"RESET", "RESTORE", "ATE0", "GMR", "CWMODE", "CIPMUX", "SYSMSG",
         "CIPDINFO", "CIPSTATUS", "GSLP", "CWQAP", "CWJAP"}

\* Commands without a branch in vESPparseRecvATrespLine end with espSKIP.
Reported(c, r) == IF c \in {"RESTORE", "ATE0", "CWMODE"} THEN "skip" ELSE r

NoReq == [cmd |-> NoCmd]
Request(t, c, b) == [by |-> t, cmd |-> c, blocking |-> b]
Nothing == "nothing"

Init ==
  /\ objs = {} /\ threads = [k \in Threads |-> 0]
  /\ initialized = FALSE /\ present = FALSE /\ powered = FALSE /\ cbs = FALSE
  /\ receiving = FALSE /\ version = FALSE /\ dev = "off" /\ heard = FALSE
  /\ box = <<>> /\ cur = NoReq /\ said = Nothing
  /\ op = [t \in Tasks |-> "idle"] /\ at = [t \in Tasks |-> 1]
  /\ asked = [t \in Tasks |-> "no"] /\ result = [t \in Tasks |-> "ok"]
  /\ running = FALSE /\ inits = 0 /\ crashed = FALSE

-----------------------------------------------------------------------------
(* Calls.                                                                  *)

Here(t) == Steps(op[t])[at[t]]
Doing(t, d) == ~crashed /\ op[t] # "idle" /\ asked[t] = "no" /\ Here(t).do = d

Begin(t, o) ==
  /\ op' = [op EXCEPT ![t] = o] /\ at' = [at EXCEPT ![t] = 1]
  /\ result' = [result EXCEPT ![t] = "ok"] /\ UNCHANGED asked

\* The operation returns r.  Applications may start once eESPinit has returned
\* espOK; when it fails, the list of callbacks is all it deletes.
Returns(t, r) ==
  /\ op' = [op EXCEPT ![t] = "idle"] /\ UNCHANGED at
  /\ result' = [result EXCEPT ![t] = r] /\ asked' = [asked EXCEPT ![t] = "no"]
  /\ running' = (running \/ (op[t] = "init" /\ r = "ok"))
  /\ cbs' = (cbs /\ op[t] # "deinit" /\ (op[t] = "init" => r = "ok"))

\* The step ends with r, and the operation goes on if it can.
Ends(t, r) ==
  IF at[t] = Len(Steps(op[t])) \/ r \notin Here(t).need
    THEN Returns(t, r)
    ELSE /\ at' = [at EXCEPT ![t] = @ + 1]
         /\ result' = [result EXCEPT ![t] = r] /\ asked' = [asked EXCEPT ![t] = "no"]
         /\ UNCHANGED <<op, running, cbs>>

\* What uses an object that does not exist does nothing any more.
Uses(needed, action) ==
  IF needed \subseteq objs
    THEN action /\ UNCHANGED <<inits, crashed>>
    ELSE crashed' = TRUE /\ UNCHANGED <<made, flags, device, reqs, calls, inits>>

\* eESPinit, lines 77 to 88.
CallInit ==
  /\ ~crashed /\ op[Main] = "idle" /\ ~running /\ inits < MaxInit
  /\ Retry \/ result[Main] = "ok"
  /\ inits' = inits + 1
  /\ initialized' = FALSE /\ present' = FALSE /\ cbs' = TRUE
  /\ Begin(Main, "init")
  /\ UNCHANGED <<made, powered, device, reqs, running, crashed>>

CallDeinit ==
  /\ ~crashed /\ op[Main] = "idle" /\ running /\ inits < MaxInit
  /\ BusyDeinit \/ \A t \in Apps : op[t] = "idle"
  /\ running' = FALSE
  /\ Begin(Main, "deinit")
  /\ UNCHANGED <<made, flags, device, reqs, cbs, inits, crashed>>

Call(t, o) ==
  /\ ~crashed /\ op[t] = "idle" /\ running
  /\ o \in (IF t = Main THEN MainOps ELSE AppOps)
  /\ Begin(t, o)
  /\ UNCHANGED <<made, flags, device, reqs, running, cbs, inits, crashed>>

-----------------------------------------------------------------------------
(* eESPinit and eESPdeinit.                                                *)

\* Lines 90 to 124, when lacking cannot be made: nobody tests the mutex, the
\* others are made in order until one is lacking, then both threads.
Order == <<"sem", "reqbox", "respbox">>
MadeObjects(lacking) ==
  ({"mutex"} \ lacking)
  \cup {Order[i] : i \in {k \in DOMAIN Order : \A j \in 1..k : Order[j] \notin lacking}}
MadeThreads(lacking) ==
  IF lacking \cap {"sem", "reqbox", "respbox"} = {} THEN Threads \ lacking ELSE {}

InitCreate ==
  /\ Doing(Main, "create")
  /\ \E lacking \in SUBSET (MayFail \cap (Objects \cup Threads)) :
       LET new == MadeObjects(lacking) IN
       /\ objs' = objs \cup new
       /\ threads' = [k \in Threads |->
                        IF k \in MadeThreads(lacking) THEN threads[k] + 1 ELSE threads[k]]
       /\ box' = IF "reqbox" \in new THEN <<>> ELSE box
       /\ Ends(Main, IF lacking \ {"mutex"} = {} THEN "ok" ELSE "err")
  /\ UNCHANGED <<flags, device, cur, said, inits, crashed>>

\* Lines 126 to 153, under the lock: the low level, and power.
LowLevelUp ==
  /\ initialized' = TRUE /\ powered' = TRUE
  /\ dev' = (IF dev = "off" THEN "on" ELSE dev)
  /\ Ends(Main, "ok")
InitDeviceUntested ==
  /\ Doing(Main, "device")
  /\ Uses({"mutex"}, LowLevelUp /\ UNCHANGED <<made, present, receiving, version, heard, reqs>>)
InitDevice ==
  /\ Doing(Main, "device")
  /\ Uses({"mutex"},
       /\ \/ /\ result[Main] # "ok" \/ "dev" \in MayFail
             /\ Returns(Main, "err")
             /\ UNCHANGED <<initialized, powered, dev>>
          \/ result[Main] = "ok" /\ LowLevelUp
       /\ UNCHANGED <<made, present, receiving, version, heard, reqs>>)

\* Lines 178 to 186, under the lock.  The requests in the mailbox and in the
\* hands of the thread are nobody's; initialized is left alone.
DeinitThreadsKept == UNCHANGED threads
DeinitThreadsTwice == threads' = [threads EXCEPT !["req"] = @ - 2]
DeinitThreads == threads' = [k \in Threads |-> threads[k] - 1]
DeinitTear ==
  /\ Doing(Main, "tear")
  /\ Uses({"mutex"},
       /\ receiving' = FALSE
       /\ DeinitThreads /\ objs' = objs \ {"reqbox", "respbox"}
       /\ box' = <<>> /\ cur' = NoReq /\ said' = Nothing
       /\ Ends(Main, "ok")
       /\ UNCHANGED <<flags, version, dev, heard>>)

\* Lines 187 to 191.
DeinitDelete ==
  /\ Doing(Main, "delete")
  /\ Uses({"sem", "mutex"},
       objs' = {} /\ Ends(Main, "ok") /\ UNCHANGED <<threads, flags, device, reqs>>)

-----------------------------------------------------------------------------
(* The other steps.                                                        *)

RecvStop(t) ==
  /\ Doing(t, "stop") /\ receiving' = FALSE /\ Ends(t, "ok")
  /\ UNCHANGED <<made, flags, version, dev, heard, reqs, inits, crashed>>

RecvStart(t) ==
  /\ Doing(t, "start")
  /\ \E r \in {"ok"} \cup {"err" : x \in MayFail \cap {"start"}} :
       receiving' = (receiving \/ r = "ok") /\ Ends(t, r)
  /\ UNCHANGED <<made, flags, version, dev, heard, reqs, inits, crashed>>

\* eESPcloseDevice: the two critical sections around eESPstaQuit.
CloseTest(t) ==
  /\ Doing(t, "test")
  /\ Uses({"mutex"},
       /\ IF present THEN Ends(t, "ok") ELSE Returns(t, "ok")
       /\ UNCHANGED <<made, flags, device, reqs>>)

CloseAbsent(t) ==
  /\ Doing(t, "absent")
  /\ Uses({"mutex"},
       /\ present' = FALSE /\ Ends(t, result[t])
       /\ UNCHANGED <<made, initialized, powered, device, reqs>>)

\* eESPpowerOff is one critical section; eESPpowerOn stores power_on after one.
OffFlagsPresent == powered' = FALSE /\ UNCHANGED present
OffFlags == present' = FALSE /\ powered' = FALSE
PowerOff(t) ==
  /\ Doing(t, "off")
  /\ Uses({"mutex"},
       /\ dev' = "off" /\ version' = FALSE
       /\ heard' = (cur.cmd = "GMR" /\ said = "ok")
       /\ OffFlags /\ Ends(t, "ok")
       /\ UNCHANGED <<made, initialized, receiving, reqs>>)

PowerSupply(t) ==
  /\ Doing(t, "supply")
  /\ Uses({"mutex"},
       /\ dev' = (IF dev = "off" THEN "on" ELSE dev) /\ Ends(t, "ok")
       /\ UNCHANGED <<made, flags, receiving, version, heard, reqs>>)

PowerStore(t) ==
  /\ Doing(t, "powered") /\ powered' = TRUE /\ Ends(t, "ok")
  /\ UNCHANGED <<made, initialized, present, device, reqs, inits, crashed>>

-----------------------------------------------------------------------------
(* Requests.                                                               *)

Asking(t) == Doing(t, "ask") \/ Doing(t, "tell")

\* eESPdeviceIsPresent where the API function asks it, and the test of
\* eESPsendReqToMbox.
Refusal(t) ==
  CASE Here(t).guarded /\ ~present -> "nodevice"
    [] ~initialized -> "err"
    [] OTHER -> "none"

ReqCheck(t) ==
  /\ Asking(t)
  /\ Uses({"mutex"},
       /\ IF Refusal(t) = "none"
            THEN asked' = [asked EXCEPT ![t] = "put"]
                 /\ UNCHANGED <<op, at, result, running, cbs>>
            ELSE Ends(t, Refusal(t))
       /\ UNCHANGED <<made, flags, device, reqs>>)

ReqPut(t) ==
  /\ ~crashed /\ asked[t] = "put"
  /\ Uses({"reqbox"},
       /\ IF Len(box) < ReqCap
            THEN LET b == Here(t).do = "ask" IN
                 /\ box' = Append(box, Request(t, Here(t).cmd, b))
                 /\ IF b THEN asked' = [asked EXCEPT ![t] = "wait"]
                              /\ UNCHANGED <<op, at, result, running, cbs>>
                         ELSE Ends(t, "ok")
            ELSE Ends(t, "nomem") /\ UNCHANGED box
       /\ UNCHANGED <<made, flags, device, cur, said>>)

\* The request thread; AT+RST and the reset pin clear espGlobal.dev.
ReqTake ==
  /\ ~crashed /\ threads["req"] > 0 /\ "reqbox" \in objs /\ cur = NoReq /\ box # <<>>
  /\ cur' = Head(box) /\ box' = Tail(box)
  /\ version' = (version /\ Head(box).cmd # "RESET")
  /\ UNCHANGED <<made, flags, receiving, dev, heard, said, calls, inits, crashed>>

WakesInTime(r) == cur.blocking /\ r # "timeout"
Wakes(r) == cur.blocking
Complete(r) ==
  /\ cur' = NoReq /\ said' = Nothing
  /\ IF Wakes(r) THEN Ends(cur.by, r) ELSE UNCHANGED calls
  /\ UNCHANGED <<made, initialized, powered, receiving, box, inits, crashed>>

PinWhenAbsent == cur.cmd = "RESET" /\ HwReset /\ ~present
Pin == cur.cmd = "RESET" /\ HwReset

ReqResetPin ==
  /\ ~crashed /\ Pin
  /\ dev' = (IF dev = "asleep" THEN "on" ELSE dev)
  /\ Complete("nocmd")
  /\ UNCHANGED <<present, version, heard>>

ReqTimeout ==
  /\ ~crashed /\ cur # NoReq /\ ~Pin /\ said = Nothing
  /\ Flaky \/ ~receiving \/ dev # "on"
  /\ Complete("timeout")
  /\ UNCHANGED <<present, version, dev, heard>>

\* The device answers; after AT+GSLP it sleeps.
DevAnswer(r) ==
  /\ ~crashed /\ cur # NoReq /\ ~Pin /\ said = Nothing /\ receiving /\ dev = "on"
  /\ r = "ok" \/ Flaky
  /\ said' = r
  /\ dev' = (IF cur.cmd = "GSLP" /\ r = "ok" THEN "asleep" ELSE dev)
  /\ heard' = (heard \/ (cur.cmd = "GMR" /\ r = "ok"))
  /\ UNCHANGED <<made, flags, receiving, version, box, cur, calls, inits, crashed>>

\* Its answer is parsed: the version, and the end.
RespParse ==
  /\ ~crashed /\ threads["resp"] > 0 /\ said # Nothing
  /\ IF cur.cmd = "GMR" /\ said = "ok"
       THEN version' = TRUE /\ present' = TRUE
       ELSE UNCHANGED <<version, present>>
  /\ Complete(Reported(cur.cmd, said))
  /\ UNCHANGED <<dev, heard>>

-----------------------------------------------------------------------------
TaskStep(t) ==
  \/ RecvStop(t) \/ RecvStart(t) \/ CloseTest(t) \/ CloseAbsent(t) \/ PowerOff(t)
  \/ PowerSupply(t) \/ PowerStore(t) \/ ReqCheck(t) \/ ReqPut(t)
InitStep == InitCreate \/ InitDevice \/ DeinitTear \/ DeinitDelete
ReqStep  == ReqTake \/ ReqResetPin \/ ReqTimeout \/ RespParse

Next ==
  \/ CallInit \/ CallDeinit
  \/ \E t \in Tasks, o \in MainOps \cup AppOps : Call(t, o)
  \/ InitCreate \/ InitDevice \/ DeinitTear \/ DeinitDelete
  \/ \E t \in Tasks :
       \/ RecvStop(t) \/ RecvStart(t) \/ CloseTest(t) \/ CloseAbsent(t)
       \/ PowerOff(t) \/ PowerSupply(t) \/ PowerStore(t) \/ ReqCheck(t) \/ ReqPut(t)
  \/ ReqTake \/ ReqResetPin \/ ReqTimeout \/ RespParse
  \/ \E r \in {"ok", "err"} : DevAnswer(r)

Spec == Init /\ [][Next]_vars

\* Threads run; the device need not answer.
FairSpec == /\ Spec /\ WF_vars(InitStep) /\ WF_vars(ReqStep)
            /\ \A t \in Tasks : WF_vars(TaskStep(t))

-----------------------------------------------------------------------------
(* Properties.                                                             *)

\* Types; the mailbox never holds more than it can.
TypeOK ==
  /\ objs \subseteq Objects /\ threads \in [Threads -> Nat]
  /\ initialized \in BOOLEAN /\ present \in BOOLEAN /\ powered \in BOOLEAN
  /\ receiving \in BOOLEAN /\ version \in BOOLEAN /\ heard \in BOOLEAN
  /\ dev \in {"off", "on", "asleep"}
  /\ box \in Seq([by : Tasks, cmd : Cmds, blocking : BOOLEAN]) /\ Len(box) <= ReqCap
  /\ cur \in [by : Tasks, cmd : Cmds, blocking : BOOLEAN] \cup {NoReq}
  /\ said \in {Nothing, "ok", "err"}
  /\ op \in [Tasks -> Operations \cup {"idle"}]
  /\ at \in [Tasks -> 1..Len(InitSteps)]
  /\ asked \in [Tasks -> {"no", "put", "wait"}] /\ result \in [Tasks -> Results]
  /\ running \in BOOLEAN /\ cbs \in BOOLEAN /\ inits \in 0..MaxInit
  /\ crashed \in BOOLEAN

\* Nobody locks, puts or waits on an object that was not made or is deleted,
\* whatever failed in eESPinit, across deinit and a second init (esp.c).
NoDeadObject == ~crashed

\* There is never a second request or response thread, which would serve
\* requests at the same time as the first and share espGlobal.msg with it; and
\* while applications may call the API everything they need is there.
Served ==
  /\ \A k \in Threads : threads[k] <= 1
  /\ running => objs = Objects /\ (\A k \in Threads : threads[k] = 1) /\ initialized /\ cbs

\* While no reset is in progress the UART receives: a reset that gives up half
\* way has not left the library deaf (eESPresetWithDelay).
Hears == running /\ (\A t \in Tasks : op[t] \notin ResetOps) => receiving

\* dev_present, which guards the station functions, is only set for a device
\* that has given its version since it was last switched off, or whose version
\* was on its way then (a line parsed after eESPpowerOff sets the flag again).
PresentTrue == present => heard

\* When eESPinit or eESPresetWithDelay returns espOK the library receives and
\* the device has been found.
OkMeansOnline ==
  [][\A t \in Tasks :
       op[t] \in ResetOps /\ op'[t] = "idle" /\ result'[t] = "ok"
         => receiving' /\ present' /\ version']_vars

\* Every operation returns, though the device may be silent, asleep or off.
OpReturns == \A t \in Tasks : op[t] # "idle" ~> op[t] = "idle"
=============================================================================
