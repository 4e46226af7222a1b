-------------------------- MODULE LifecycleProofs ---------------------------
(***************************************************************************)
(* Proofs about starting, restarting and stopping, for any number of       *)
(* applications, whatever they and Main call, whatever cannot be made and  *)
(* whatever the device refuses: no dead object is used, there are never    *)
(* two pairs of threads, and dev_present is true of the device.            *)
(***************************************************************************)
EXTENDS Lifecycle, SequenceTheorems, FiniteSetTheorems, TLAPS

-----------------------------------------------------------------------------
(* The operations as sequences of steps.                                   *)

Verbs == {"create", "device", "tear", "delete", "stop", "start", "test", "absent",
          "supply", "powered", "off", "ask", "tell"}
StepType == [do : Verbs, cmd : Cmds \cup {NoCmd}, need : SUBSET Results,
             guarded : BOOLEAN]

LEMMA StepIsStep ==
  /\ \A d \in Verbs : Do(d) \in StepType
  /\ \A c \in Cmds, n \in SUBSET Results : Ask(c, n) \in StepType
  /\ \A c \in Cmds : AskPresent(c) \in StepType /\ Tell(c) \in StepType
  /\ Start \in StepType
<1>1. "start" \in Verbs /\ "ask" \in Verbs /\ "tell" \in Verbs /\ {"ok"} \subseteq Results
      /\ FALSE \in BOOLEAN /\ TRUE \in BOOLEAN /\ Results \subseteq Results
  BY DEF Verbs, Results
<1>2. QED
  BY <1>1 DEF Do, Ask, AskPresent, Tell, Start, Step, StepType

LEMMA ResetStepsAre ==
  /\ ResetSteps \in Seq(StepType) /\ Len(ResetSteps) = 10
  /\ ResetSteps[1] = Do("stop")
  /\ ResetSteps[2] = Ask("RESET", {"ok", "nocmd"})
  /\ ResetSteps[3] = Start
  /\ ResetSteps[4] = Ask("ATE0", Results)
  /\ ResetSteps[5] = Ask("GMR", {"ok"})
  /\ ResetSteps[6] = Tell("CWMODE") /\ ResetSteps[7] = Tell("CIPMUX")
  /\ ResetSteps[8] = Ask("SYSMSG", Results) /\ ResetSteps[9] = Ask("CIPDINFO", Results)
  /\ ResetSteps[10] = Ask("CIPSTATUS", Results)
<1>1. /\ "stop" \in Verbs /\ {"ok", "nocmd"} \in SUBSET Results /\ {"ok"} \in SUBSET Results
      /\ Results \in SUBSET Results
  BY DEF Verbs, Results
<1>2. /\ Do("stop") \in StepType /\ Ask("RESET", {"ok", "nocmd"}) \in StepType
      /\ Start \in StepType /\ Ask("ATE0", Results) \in StepType
      /\ Ask("GMR", {"ok"}) \in StepType /\ Tell("CWMODE") \in StepType
      /\ Tell("CIPMUX") \in StepType /\ Ask("SYSMSG", Results) \in StepType
      /\ Ask("CIPDINFO", Results) \in StepType /\ Ask("CIPSTATUS", Results) \in StepType
  BY <1>1, StepIsStep DEF Cmds
<1>3. QED
  BY <1>2 DEF ResetSteps

\* A concatenation, element by element.
IsCat(c, a, b) ==
  /\ c \in Seq(StepType) /\ Len(c) = Len(a) + Len(b)
  /\ \A k \in 1..Len(a) : c[k] = a[k]
  /\ \A k \in 1..Len(b) : c[Len(a) + k] = b[k]

LEMMA StepConcat ==
  ASSUME NEW a \in Seq(StepType), NEW b \in Seq(StepType)
  PROVE  IsCat(a \o b, a, b)
<1> DEFINE c == a \o b
<1>1. /\ c \in Seq(StepType) /\ Len(c) = Len(a) + Len(b)
      /\ \A i \in 1..(Len(a) + Len(b)) : c[i] = IF i <= Len(a) THEN a[i] ELSE b[i - Len(a)]
  BY ConcatProperties
<1>2. Len(a) \in Nat /\ Len(b) \in Nat
  OBVIOUS
<1> HIDE DEF c
<1>3. \A k \in 1..Len(a) : c[k] = a[k]
  BY <1>1, <1>2
<1>4. \A k \in 1..Len(b) : c[Len(a) + k] = b[k]
  <2>1. TAKE k \in 1..Len(b)
  <2>2. /\ Len(a) + k \in 1..(Len(a) + Len(b)) /\ ~(Len(a) + k <= Len(a))
        /\ (Len(a) + k) - Len(a) = k
    BY <1>2
  <2>3. QED
    BY <2>2, <1>1
<1>5. IsCat(c, a, b)
  BY <1>1, <1>3, <1>4 DEF IsCat
<1>6. QED
  BY <1>5 DEF c

\* Sequences of one, two and three elements.
LEMMA Tuples ==
  ASSUME NEW x \in StepType, NEW y \in StepType, NEW z \in StepType
  PROVE  /\ <<x>> \in Seq(StepType) /\ Len(<<x>>) = 1 /\ <<x>>[1] = x
         /\ <<x, y>> \in Seq(StepType) /\ Len(<<x, y>>) = 2
         /\ <<x, y>>[1] = x /\ <<x, y>>[2] = y
         /\ <<x, y, z>> \in Seq(StepType) /\ Len(<<x, y, z>>) = 3
         /\ <<x, y, z>>[1] = x /\ <<x, y, z>>[2] = y /\ <<x, y, z>>[3] = z
OBVIOUS

\* A step of an operation of a running library, or of eESPinit after its first
\* two.
Special == {"create", "device", "tear", "delete"}
Ordinary(s) ==
  /\ s \in StepType /\ s.do \notin Special
  /\ s.do \in {"ask", "tell"} => s.cmd \in Cmds
  /\ s.do = "tell" => s.cmd \in {"CWMODE", "CIPMUX"}

LEMMA OrdinarySteps ==
  /\ \A d \in Verbs \ (Special \cup {"ask", "tell"}) : Ordinary(Do(d))
  /\ \A c \in Cmds, n \in SUBSET Results : Ordinary(Ask(c, n))
  /\ \A c \in Cmds : Ordinary(AskPresent(c))
  /\ Ordinary(Tell("CWMODE")) /\ Ordinary(Tell("CIPMUX")) /\ Ordinary(Start)
<1>1. \A d \in Verbs \ (Special \cup {"ask", "tell"}) : Ordinary(Do(d))
  BY StepIsStep DEF Ordinary, Do, Step
<1>2. \A c \in Cmds, n \in SUBSET Results : Ordinary(Ask(c, n))
  BY StepIsStep DEF Ordinary, Ask, Step, Special
<1>3. \A c \in Cmds : Ordinary(AskPresent(c))
  BY StepIsStep DEF Ordinary, AskPresent, Step, Special
<1>4. "CWMODE" \in Cmds /\ "CIPMUX" \in Cmds
  BY DEF Cmds
<1>5. Ordinary(Tell("CWMODE")) /\ Ordinary(Tell("CIPMUX"))
  BY <1>4, StepIsStep DEF Ordinary, Tell, Step, Special
<1>6. Ordinary(Start)
  BY StepIsStep DEF Ordinary, Start, Step, Special
<1>7. QED
  BY <1>1, <1>2, <1>3, <1>5, <1>6

LEMMA ResetOrdinary == \A k \in 1..10 : Ordinary(ResetSteps[k])
<1>1. "stop" \in Verbs \ (Special \cup {"ask", "tell"})
  BY DEF Verbs, Special
<1>2. /\ {"ok", "nocmd"} \in SUBSET Results /\ {"ok"} \in SUBSET Results
      /\ Results \in SUBSET Results
  BY DEF Results
<1>3. {"RESET", "ATE0", "GMR", "SYSMSG", "CIPDINFO", "CIPSTATUS"} \subseteq Cmds
  BY DEF Cmds
<1>4. /\ Ordinary(ResetSteps[1]) /\ Ordinary(ResetSteps[2]) /\ Ordinary(ResetSteps[3])
      /\ Ordinary(ResetSteps[4]) /\ Ordinary(ResetSteps[5]) /\ Ordinary(ResetSteps[6])
      /\ Ordinary(ResetSteps[7]) /\ Ordinary(ResetSteps[8]) /\ Ordinary(ResetSteps[9])
      /\ Ordinary(ResetSteps[10])
  BY <1>1, <1>2, <1>3, ResetStepsAre, OrdinarySteps
<1>5. \A k \in 1..10 : k = 1 \/ k = 2 \/ k = 3 \/ k = 4 \/ k = 5 \/ k = 6 \/ k = 7
                       \/ k = 8 \/ k = 9 \/ k = 10
  OBVIOUS
<1>6. QED
  BY <1>4, <1>5

LEMMA RestoreStepsAre ==
  /\ RestoreSteps \in Seq(StepType) /\ Len(RestoreSteps) = 11
  /\ RestoreSteps[1] = Ask("RESTORE", {"ok"})
  /\ \A k \in 1..11 : Ordinary(RestoreSteps[k])
<1> DEFINE x == Ask("RESTORE", {"ok"})
           a == <<x>>
<1>1. {"ok"} \in SUBSET Results /\ "RESTORE" \in Cmds
  BY DEF Results, Cmds
<1>2. x \in StepType /\ Ordinary(x)
  BY <1>1, OrdinarySteps DEF Ordinary
<1>3. a \in Seq(StepType) /\ Len(a) = 1 /\ a[1] = x
  BY <1>2, Tuples
<1>4. RestoreSteps = a \o ResetSteps
  BY DEF RestoreSteps
<1> HIDE DEF a
<1>5. ResetSteps \in Seq(StepType) /\ Len(ResetSteps) = 10
  BY ResetStepsAre
<1>6. IsCat(RestoreSteps, a, ResetSteps)
  BY <1>3, <1>4, <1>5, StepConcat
<1>7. /\ RestoreSteps \in Seq(StepType) /\ Len(RestoreSteps) = 11
      /\ RestoreSteps[1] = x
      /\ \A k \in 1..10 : RestoreSteps[1 + k] = ResetSteps[k]
  BY <1>3, <1>5, <1>6 DEF IsCat
<1>8. ASSUME NEW k \in 1..11 PROVE Ordinary(RestoreSteps[k])
  <2>1. CASE k = 1
    BY <2>1, <1>7, <1>2
  <2>2. CASE k # 1
    <3>1. k - 1 \in 1..10 /\ 1 + (k - 1) = k
      BY <2>2
    <3>2. RestoreSteps[k] = ResetSteps[k - 1]
      BY <3>1, <1>7
    <3>3. QED
      BY <3>1, <3>2, ResetOrdinary
  <2>3. QED
    BY <2>1, <2>2
<1>9. QED
  BY <1>7, <1>8

LEMMA InitStepsAre ==
  /\ InitSteps \in Seq(StepType)
  /\ Len(InitSteps) = (IF RestoreOnInit THEN 13 ELSE 12)
  /\ InitSteps[1] = Do("create") /\ InitSteps[2] = Do("device")
  /\ RestoreOnInit => InitSteps[3] = Ask("RESTORE", {"ok"})
  /\ ~RestoreOnInit => \A k \in 1..10 : InitSteps[2 + k] = ResetSteps[k]
  /\ \A k \in 3..Len(InitSteps) : Ordinary(InitSteps[k])
<1> DEFINE x == Do("create")
           y == Do("device")
           a == <<x, y>>
           b == IF RestoreOnInit THEN RestoreSteps ELSE ResetSteps
<1>1. x \in StepType /\ y \in StepType
  BY StepIsStep DEF Verbs
<1> HIDE DEF x, y
<1>2. a \in Seq(StepType) /\ Len(a) = 2 /\ a[1] = x /\ a[2] = y
  BY <1>1, Tuples
<1>3. /\ b \in Seq(StepType) /\ Len(b) = (IF RestoreOnInit THEN 11 ELSE 10)
      /\ RestoreOnInit => b[1] = Ask("RESTORE", {"ok"})
      /\ ~RestoreOnInit => b = ResetSteps
      /\ \A k \in 1..Len(b) : Ordinary(b[k])
  <2>1. CASE RestoreOnInit
    BY <2>1, RestoreStepsAre
  <2>2. CASE ~RestoreOnInit
    BY <2>2, ResetStepsAre, ResetOrdinary
  <2>3. QED
    BY <2>1, <2>2
<1>4. InitSteps = a \o b
  BY DEF InitSteps, x, y
<1> HIDE DEF a, b
<1>5. /\ InitSteps \in Seq(StepType) /\ Len(InitSteps) = 2 + Len(b)
      /\ \A k \in 1..2 : InitSteps[k] = a[k]
      /\ \A k \in 1..Len(b) : InitSteps[2 + k] = b[k]
  <2>1. a \in Seq(StepType) /\ b \in Seq(StepType)
    BY <1>2, <1>3
  <2>2. IsCat(InitSteps, a, b)
    BY <2>1, <1>4, StepConcat
  <2>3. Len(a) = 2
    BY <1>2
  <2>4. QED
    BY <2>2, <2>3 DEF IsCat
<1>6. Len(b) \in Nat /\ Len(b) >= 1
  BY <1>3
<1>7. RestoreOnInit => InitSteps[3] = Ask("RESTORE", {"ok"})
  <2>1. 1 \in 1..Len(b) /\ 2 + 1 = 3
    BY <1>6
  <2>2. InitSteps[3] = b[1]
    BY <2>1, <1>5
  <2>3. QED
    BY <2>2, <1>3
<1>8. ~RestoreOnInit => \A k \in 1..10 : InitSteps[2 + k] = ResetSteps[k]
  BY <1>3, <1>5
<1>9. Len(InitSteps) = (IF RestoreOnInit THEN 13 ELSE 12)
  BY <1>3, <1>5
<1>10. InitSteps[1] = Do("create") /\ InitSteps[2] = Do("device")
  BY <1>2, <1>5 DEF x, y
<1>11. ASSUME NEW k \in 3..Len(InitSteps) PROVE Ordinary(InitSteps[k])
  <2>1. k - 2 \in 1..Len(b) /\ 2 + (k - 2) = k
    BY <1>5, <1>6
  <2>2. InitSteps[k] = b[k - 2]
    BY <2>1, <1>5
  <2>3. QED
    BY <2>1, <2>2, <1>3
<1>12. QED
  BY <1>5, <1>7, <1>8, <1>9, <1>10, <1>11

\* The length of each operation.
Size(o) == Len(Steps(o))
Longest == Len(InitSteps)

LEMMA Sizes ==
  /\ Longest = (IF RestoreOnInit THEN 13 ELSE 12)
  /\ Size("init") = Longest /\ Size("reset") = 10 /\ Size("restore") = 11
  /\ Size("deinit") = 2 /\ Size("close") = 3 /\ Size("sleep") = 1 /\ Size("on") = 2
  /\ Size("off") = 1 /\ Size("join") = 1 /\ Size("version") = 1
  /\ \A o \in Operations : Size(o) \in 1..Longest
<1>1. /\ \A d \in {"tear", "delete", "test", "absent", "supply", "powered", "off"} :
           Do(d) \in StepType
      /\ AskPresent("CWQAP") \in StepType /\ AskPresent("CWJAP") \in StepType
      /\ Ask("GSLP", Results) \in StepType /\ Ask("GMR", Results) \in StepType
  BY StepIsStep DEF Verbs, Cmds
<1>2. Longest = (IF RestoreOnInit THEN 13 ELSE 12) /\ Size("init") = Longest
  <2>1. Steps("init") = InitSteps
    BY DEF Steps
  <2>2. QED
    BY <2>1, InitStepsAre DEF Size, Longest
<1>3. Size("reset") = 10
  <2>1. Steps("reset") = ResetSteps
    BY DEF Steps
  <2>2. QED
    BY <2>1, ResetStepsAre DEF Size
<1>4. Size("restore") = 11
  <2>1. Steps("restore") = RestoreSteps
    BY DEF Steps
  <2>2. QED
    BY <2>1, RestoreStepsAre DEF Size
<1>5. Size("deinit") = 2
  <2>1. Steps("deinit") = <<Do("tear"), Do("delete")>>
    BY DEF Steps
  <2>2. QED
    BY <2>1, <1>1, Tuples DEF Size
<1>6. Size("close") = 3
  <2>1. Steps("close") = <<Do("test"), AskPresent("CWQAP"), Do("absent")>>
    BY DEF Steps
  <2>2. QED
    BY <2>1, <1>1, Tuples DEF Size
<1>7. Size("on") = 2
  <2>1. Steps("on") = <<Do("supply"), Do("powered")>>
    BY DEF Steps
  <2>2. QED
    BY <2>1, <1>1, Tuples DEF Size
<1>8. Size("sleep") = 1
  <2>1. Steps("sleep") = <<Ask("GSLP", Results)>>
    BY DEF Steps
  <2>2. QED
    BY <2>1, <1>1, Tuples DEF Size
<1>9. Size("off") = 1
  <2>1. Steps("off") = <<Do("off")>>
    BY DEF Steps
  <2>2. QED
    BY <2>1, <1>1, Tuples DEF Size
<1>10. Size("join") = 1
  <2>1. Steps("join") = <<AskPresent("CWJAP")>>
    BY DEF Steps
  <2>2. QED
    BY <2>1, <1>1, Tuples DEF Size
<1>11. Size("version") = 1
  <2>1. Steps("version") = <<Ask("GMR", Results)>>
    BY DEF Steps
  <2>2. QED
    BY <2>1, <1>1, Tuples DEF Size
<1>12. \A o \in Operations : Size(o) \in 1..Longest
  BY <1>2, <1>3, <1>4, <1>5, <1>6, <1>7, <1>8, <1>9, <1>10, <1>11
     DEF Operations, ResetOps
<1>13. QED
  BY <1>2, <1>3, <1>4, <1>5, <1>6, <1>7, <1>8, <1>9, <1>10, <1>11, <1>12

\* The first two steps of eESPinit and those of eESPdeinit are special, and no
\* others.
SpecialAt(o, k) == \/ o = "init" /\ k \in {1, 2}
                   \/ o = "deinit" /\ k \in {1, 2}

LEMMA SpecialSteps ==
  /\ Steps("init")[1] = Do("create") /\ Steps("init")[2] = Do("device")
  /\ Steps("deinit")[1] = Do("tear") /\ Steps("deinit")[2] = Do("delete")
<1>1. Steps("init") = InitSteps /\ Steps("deinit") = <<Do("tear"), Do("delete")>>
  BY DEF Steps
<1>2. Do("tear") \in StepType /\ Do("delete") \in StepType
  BY StepIsStep DEF Verbs
<1>3. QED
  BY <1>1, <1>2, InitStepsAre, Tuples

LEMMA OrdinaryAt ==
  ASSUME NEW o \in Operations, NEW k \in 1..Size(o), ~SpecialAt(o, k)
  PROVE  Ordinary(Steps(o)[k])
<1>1. /\ Ordinary(Do("test")) /\ Ordinary(Do("absent")) /\ Ordinary(Do("supply"))
      /\ Ordinary(Do("powered")) /\ Ordinary(Do("off"))
      /\ Ordinary(AskPresent("CWQAP")) /\ Ordinary(AskPresent("CWJAP"))
      /\ Ordinary(Ask("GSLP", Results)) /\ Ordinary(Ask("GMR", Results))
  BY OrdinarySteps DEF Verbs, Special, Cmds
<1>2. CASE o = "init"
  <2>1. Steps(o) = InitSteps /\ Size(o) = Longest
    BY <1>2, Sizes DEF Steps
  <2>2. k \in 3..Longest
    BY <2>1, <1>2, Sizes DEF SpecialAt
  <2>3. QED
    BY <2>1, <2>2, InitStepsAre DEF Longest
<1>3. CASE o = "reset"
  <2>1. Steps(o) = ResetSteps /\ Size(o) = 10
    BY <1>3, Sizes DEF Steps
  <2>2. QED
    BY <2>1, ResetOrdinary
<1>4. CASE o = "restore"
  <2>1. Steps(o) = RestoreSteps /\ Size(o) = 11
    BY <1>4, Sizes DEF Steps
  <2>2. QED
    BY <2>1, RestoreStepsAre
<1>5. CASE o = "deinit"
  BY <1>5, Sizes DEF SpecialAt
<1>6. CASE o = "close"
  <2>1. Steps(o) = <<Do("test"), AskPresent("CWQAP"), Do("absent")>> /\ Size(o) = 3
    BY <1>6, Sizes DEF Steps
  <2>2. /\ Steps(o)[1] = Do("test") /\ Steps(o)[2] = AskPresent("CWQAP")
        /\ Steps(o)[3] = Do("absent")
    BY <2>1, <1>1, Tuples DEF Ordinary
  <2>3. k = 1 \/ k = 2 \/ k = 3
    BY <2>1
  <2>4. QED
    BY <2>2, <2>3, <1>1
<1>7. CASE o = "on"
  <2>1. Steps(o) = <<Do("supply"), Do("powered")>> /\ Size(o) = 2
    BY <1>7, Sizes DEF Steps
  <2>2. Steps(o)[1] = Do("supply") /\ Steps(o)[2] = Do("powered")
    BY <2>1, <1>1, Tuples DEF Ordinary
  <2>3. k = 1 \/ k = 2
    BY <2>1
  <2>4. QED
    BY <2>2, <2>3, <1>1
<1>8. CASE o \in {"sleep", "off", "join", "version"}
  <2>1. /\ k = 1
        /\ \/ Steps(o) = <<Ask("GSLP", Results)>> \/ Steps(o) = <<Do("off")>>
           \/ Steps(o) = <<AskPresent("CWJAP")>> \/ Steps(o) = <<Ask("GMR", Results)>>
    BY <1>8, Sizes DEF Steps
  <2>2. \/ Steps(o)[k] = Ask("GSLP", Results) \/ Steps(o)[k] = Do("off")
        \/ Steps(o)[k] = AskPresent("CWJAP") \/ Steps(o)[k] = Ask("GMR", Results)
    BY <2>1, <1>1, Tuples DEF Ordinary
  <2>3. QED
    BY <2>2, <1>1
<1>9. QED
  BY <1>2, <1>3, <1>4, <1>5, <1>6, <1>7, <1>8 DEF Operations, ResetOps

-----------------------------------------------------------------------------
(* The inductive invariant.                                                *)

ReqType == [by : Tasks, cmd : Cmds, blocking : BOOLEAN]

\* The parts of TypeOK.
CallTypes ==
  /\ op \in [Tasks -> Operations \cup {"idle"}] /\ at \in [Tasks -> 1..Longest]
  /\ asked \in [Tasks -> {"no", "put", "wait"}] /\ result \in [Tasks -> Results]
  /\ running \in BOOLEAN /\ cbs \in BOOLEAN
ReqTypes ==
  /\ box \in Seq(ReqType) /\ Len(box) <= ReqCap
  /\ cur \in ReqType \cup {NoReq} /\ said \in {Nothing, "ok", "err"}
DataTypes ==
  /\ objs \subseteq Objects /\ threads \in [Threads -> Nat]
  /\ initialized \in BOOLEAN /\ present \in BOOLEAN /\ powered \in BOOLEAN
  /\ receiving \in BOOLEAN /\ version \in BOOLEAN /\ heard \in BOOLEAN
  /\ dev \in {"off", "on", "asleep"} /\ inits \in 0..MaxInit /\ crashed \in BOOLEAN

LEMMA Types == TypeOK <=> CallTypes /\ ReqTypes /\ DataTypes
BY DEF TypeOK, CallTypes, ReqTypes, DataTypes, ReqType, Longest

\* Each task is in a step of its operation, and waits only in a step that asks.
CallInv ==
  /\ op[Main] \in MainOps \cup {"init", "deinit", "idle"}
  /\ \A t \in Apps : op[t] \in AppOps \cup {"idle"}
  /\ \A t \in Tasks :
       /\ op[t] # "idle" => at[t] <= Size(op[t])
       /\ op[t] = "idle" => asked[t] = "no"
       /\ asked[t] = "put" => Here(t).do \in {"ask", "tell"}
       /\ asked[t] = "wait" => Here(t).do = "ask"

\* The command each task waits for.
Awaiting(t) == IF asked[t] = "wait" THEN Here(t).cmd ELSE NoCmd
waits == [t \in Tasks |-> Awaiting(t)]

\* A blocking request is awaited, by the task it is of; one that does not block
\* is one of the two of a reset.
Owned(q, w) == IF q.blocking THEN w[q.by] = q.cmd ELSE q.cmd \in {"CWMODE", "CIPMUX"}
Apart(q, r) == q.blocking /\ r.blocking => q.by # r.by

\* So are those in the mailbox b and the one in service, c; each task has one.
Requested(b, c, w) ==
  /\ c # NoReq => Owned(c, w)
  /\ \A i \in DOMAIN b : Owned(b[i], w)
  /\ c # NoReq => \A i \in DOMAIN b : Apart(c, b[i])
  /\ \A i, j \in DOMAIN b : i # j => Apart(b[i], b[j])

ReqInv == Requested(box, cur, waits) /\ (said # Nothing => cur # NoReq)

\* How far eESPinit or eESPdeinit is tells what there is.
Made(o, th) == o = Objects /\ \A k \in Threads : th[k] = 1
Bare(o, th) == o = {} /\ \A k \in Threads : th[k] = 0

MainInv ==
  /\ op[Main] = "init" =>
       /\ cbs
       /\ at[Main] = 1 => Bare(objs, threads)
       /\ at[Main] = 2 => /\ "mutex" \in objs
                          /\ result[Main] = "ok" => Made(objs, threads)
       /\ at[Main] >= 3 => Made(objs, threads) /\ initialized
  /\ op[Main] = "deinit" =>
       /\ at[Main] = 1 => Made(objs, threads)
       /\ at[Main] = 2 => objs = {"mutex", "sem"} /\ \A k \in Threads : threads[k] = 0
  /\ op[Main] = "idle" /\ ~running /\ result[Main] = "ok" => Bare(objs, threads)

PhaseInv ==
  /\ ~crashed
  /\ \A k \in Threads : threads[k] <= 1
  /\ running => /\ Made(objs, threads) /\ initialized /\ cbs
                /\ op[Main] \notin {"init", "deinit"}
  /\ ~running => /\ op[Main] \in {"init", "deinit", "idle"}
                 /\ \A t \in Apps : op[t] = "idle"
  /\ MainInv

LifeInv == TypeOK /\ CallInv /\ ReqInv /\ PhaseInv

-----------------------------------------------------------------------------
(* Requests.                                                               *)

LEMMA NoReqIs == NoReq \notin ReqType /\ NoReq.cmd = NoCmd /\ NoCmd \notin Cmds
<1>1. NoReq.cmd = NoCmd /\ NoCmd \notin Cmds
  BY DEF NoReq, NoCmd, Cmds
<1>2. \A q \in ReqType : q.cmd \in Cmds
  BY DEF ReqType
<1>3. QED
  BY <1>1, <1>2

\* What a task that waits for nothing does next changes nothing for the requests.
LEMMA RequestedOthers ==
  ASSUME NEW b \in Seq(ReqType), NEW c \in ReqType \cup {NoReq}, NEW w, NEW v,
         NEW t, w[t] = NoCmd, \A u \in Tasks \ {t} : v[u] = w[u],
         Requested(b, c, w)
  PROVE  Requested(b, c, v)
<1>1. ASSUME NEW q \in ReqType, Owned(q, w) PROVE Owned(q, v)
  <2>1. q.by \in Tasks /\ q.cmd \in Cmds
    BY DEF ReqType
  <2>2. QED
    BY <1>1, <2>1, NoReqIs DEF Owned
<1>2. \A i \in DOMAIN b : b[i] \in ReqType
  BY ElementOfSeq
<1>3. QED
  BY <1>1, <1>2 DEF Requested

\* The request in service is done.
LEMMA RequestedDone ==
  ASSUME NEW b \in Seq(ReqType), NEW c \in ReqType, NEW w, NEW v,
         \A u \in Tasks : v[u] = w[u] \/ (c.blocking /\ u = c.by),
         Requested(b, c, w)
  PROVE  Requested(b, NoReq, v)
<1>1. c # NoReq
  BY NoReqIs
<1>2. ASSUME NEW q \in ReqType, Owned(q, w), Apart(c, q) PROVE Owned(q, v)
  <2>1. q.by \in Tasks
    BY DEF ReqType
  <2>2. QED
    BY <1>2, <2>1 DEF Owned, Apart
<1>3. \A i \in DOMAIN b : b[i] \in ReqType
  BY ElementOfSeq
<1>4. QED
  BY <1>1, <1>2, <1>3 DEF Requested

\* The oldest request is taken.
LEMMA RequestedTake ==
  ASSUME NEW b \in Seq(ReqType), NEW w, b # << >>, Requested(b, NoReq, w)
  PROVE  /\ Requested(Tail(b), Head(b), w)
         /\ Head(b) \in ReqType /\ Tail(b) \in Seq(ReqType)
         /\ Len(Tail(b)) = Len(b) - 1 /\ Head(b) = b[1]
         /\ \A i \in 1..Len(Tail(b)) : Tail(b)[i] = b[i + 1]
<1> DEFINE h == Head(b)
           r == Tail(b)
<1>1. /\ h \in ReqType /\ h = b[1] /\ r \in Seq(ReqType) /\ Len(r) = Len(b) - 1
      /\ \A i \in 1..Len(r) : r[i] = b[i + 1]
  BY HeadTailProperties
<1>2. Len(b) \in Nat /\ Len(b) > 0
  BY EmptySeq
<1> HIDE DEF h, r
<1>3. 1 \in DOMAIN b
  BY <1>2
<1>4. ASSUME NEW i \in DOMAIN r PROVE i + 1 \in DOMAIN b /\ i + 1 # 1 /\ r[i] = b[i + 1]
  BY <1>1, <1>2
<1>5. Owned(h, w) /\ \A i \in DOMAIN r : Owned(r[i], w)
  BY <1>1, <1>3, <1>4 DEF Requested
<1>6. \A i \in DOMAIN r : Apart(h, r[i])
  BY <1>1, <1>3, <1>4 DEF Requested
<1>7. ASSUME NEW i \in DOMAIN r, NEW j \in DOMAIN r, i # j PROVE Apart(r[i], r[j])
  <2>1. i + 1 # j + 1
    BY <1>1, <1>7
  <2>2. QED
    BY <2>1, <1>4 DEF Requested
<1>8. Requested(r, h, w)
  BY <1>5, <1>6, <1>7 DEF Requested
<1>9. QED
  BY <1>8, <1>1 DEF h, r

\* A request is put behind the others, by a task that has waited for nothing.
LEMMA RequestedPut ==
  ASSUME NEW b \in Seq(ReqType), NEW c \in ReqType \cup {NoReq}, NEW w, NEW v,
         NEW q \in ReqType, w[q.by] = NoCmd, Owned(q, v),
         \A u \in Tasks \ {q.by} : v[u] = w[u],
         Requested(b, c, w)
  PROVE  Requested(Append(b, q), c, v)
<1> DEFINE r == Append(b, q)
<1>1. /\ r \in Seq(ReqType) /\ Len(r) = Len(b) + 1 /\ Len(b) \in Nat
      /\ \A i \in 1..Len(b) : r[i] = b[i]
      /\ r[Len(b) + 1] = q
  BY AppendProperties
<1> HIDE DEF r
<1>2. ASSUME NEW i \in DOMAIN r
      PROVE  (i \in DOMAIN b /\ r[i] = b[i]) \/ (i = Len(b) + 1 /\ r[i] = q)
  BY <1>1
<1>3. ASSUME NEW p \in ReqType, Owned(p, w) PROVE Apart(p, q) /\ Apart(q, p)
  <2>1. p.cmd \in Cmds
    BY DEF ReqType
  <2>2. QED
    BY <1>3, <2>1, NoReqIs DEF Owned, Apart
<1>4. \A i \in DOMAIN b : b[i] \in ReqType
  BY ElementOfSeq
<1>5. /\ c # NoReq => c \in ReqType /\ Owned(c, w)
      /\ \A i \in DOMAIN b : Owned(b[i], w)
  BY DEF Requested
<1>6. Requested(b, c, v)
  BY RequestedOthers
<1>7. \A i \in DOMAIN r : Owned(r[i], v)
  BY <1>2, <1>6 DEF Requested
<1>8. c # NoReq => \A i \in DOMAIN r : Apart(c, r[i])
  BY <1>2, <1>3, <1>5, <1>6 DEF Requested
<1>9. ASSUME NEW i \in DOMAIN r, NEW j \in DOMAIN r, i # j PROVE Apart(r[i], r[j])
  <2>1. CASE i \in DOMAIN b /\ j \in DOMAIN b
    <3>1. r[i] = b[i] /\ r[j] = b[j]
      BY <2>1, <1>1
    <3>2. QED
      BY <3>1, <2>1, <1>9, <1>6 DEF Requested
  <2>2. CASE ~(i \in DOMAIN b /\ j \in DOMAIN b)
    BY <2>2, <1>2, <1>3, <1>4, <1>5, <1>9
  <2>3. QED
    BY <2>1, <2>2
<1>10. Requested(r, c, v)
  BY <1>6, <1>7, <1>8, <1>9 DEF Requested
<1>11. QED
  BY <1>10 DEF r

-----------------------------------------------------------------------------
(* The end of a step.                                                      *)

\* Task t, and no other, has ended a step with r: its operation has returned,
\* or is at its next step.
Left(t, r) ==
  /\ op'[t] = "idle" /\ at'[t] = at[t]
  /\ running' = (running \/ (op[t] = "init" /\ r = "ok"))
  /\ cbs' = (cbs /\ op[t] # "deinit" /\ (op[t] = "init" => r = "ok"))
WentOn(t, r) ==
  /\ op'[t] = op[t] /\ at'[t] = at[t] + 1 /\ at[t] < Size(op[t])
  /\ r \in Here(t).need
  /\ running' = running /\ cbs' = cbs
Ended(t, r) ==
  /\ CallTypes'
  /\ \A u \in Tasks \ {t} : /\ op'[u] = op[u] /\ at'[u] = at[u]
                            /\ asked'[u] = asked[u] /\ result'[u] = result[u]
  /\ asked'[t] = "no" /\ result'[t] = r
  /\ Left(t, r) \/ WentOn(t, r)

LEMMA ReturnsEnded ==
  ASSUME CallTypes, NEW t \in Tasks, NEW r \in Results, Returns(t, r)
  PROVE  Ended(t, r) /\ Left(t, r)
<1>1. /\ op' = [op EXCEPT ![t] = "idle"] /\ at' = at
      /\ result' = [result EXCEPT ![t] = r] /\ asked' = [asked EXCEPT ![t] = "no"]
      /\ running' = (running \/ (op[t] = "init" /\ r = "ok"))
      /\ cbs' = (cbs /\ op[t] # "deinit" /\ (op[t] = "init" => r = "ok"))
  BY DEF Returns
<1>2. running' \in BOOLEAN /\ cbs' \in BOOLEAN
  BY <1>1, Zenon DEF CallTypes
<1>3. CallTypes'
  BY <1>1, <1>2 DEF CallTypes
<1>4. Left(t, r)
  BY <1>1 DEF Left, CallTypes
<1>5. QED
  BY <1>1, <1>3, <1>4 DEF Ended, CallTypes

LEMMA EndsEnded ==
  ASSUME CallTypes, CallInv, NEW t \in Tasks, op[t] # "idle", NEW r \in Results,
         Ends(t, r)
  PROVE  /\ Ended(t, r)
         /\ op'[t] = "idle" => at[t] = Size(op[t]) \/ r \notin Here(t).need
<1>1. CASE at[t] = Len(Steps(op[t])) \/ r \notin Here(t).need
  <2>1. Returns(t, r)
    BY <1>1 DEF Ends
  <2>2. QED
    BY <1>1, <2>1, ReturnsEnded DEF Size
<1>2. CASE ~(at[t] = Len(Steps(op[t])) \/ r \notin Here(t).need)
  <2>1. /\ at' = [at EXCEPT ![t] = @ + 1]
        /\ result' = [result EXCEPT ![t] = r] /\ asked' = [asked EXCEPT ![t] = "no"]
        /\ op' = op /\ running' = running /\ cbs' = cbs
        /\ at[t] # Size(op[t]) /\ r \in Here(t).need
    BY <1>2 DEF Ends, Size
  <2>2. op[t] \in Operations /\ at[t] \in 1..Longest /\ at[t] <= Size(op[t])
    BY DEF CallTypes, CallInv
  <2>3. Size(op[t]) \in 1..Longest /\ Longest \in Nat
    BY <2>2, Sizes
  <2>4. at[t] < Size(op[t]) /\ at[t] + 1 \in 1..Longest
    BY <2>1, <2>2, <2>3
  <2>5. /\ at' \in [Tasks -> 1..Longest] /\ at'[t] = at[t] + 1
        /\ \A u \in Tasks \ {t} : at'[u] = at[u]
    BY <2>1, <2>4 DEF CallTypes
  <2>6. /\ result' \in [Tasks -> Results] /\ result'[t] = r
        /\ \A u \in Tasks \ {t} : result'[u] = result[u]
        /\ asked' \in [Tasks -> {"no", "put", "wait"}] /\ asked'[t] = "no"
        /\ \A u \in Tasks \ {t} : asked'[u] = asked[u]
    BY <2>1 DEF CallTypes
  <2>7. CallTypes'
    BY <2>1, <2>5, <2>6 DEF CallTypes
  <2>8. WentOn(t, r)
    BY <2>1, <2>4, <2>5 DEF WentOn
  <2>9. QED
    BY <2>1, <2>5, <2>6, <2>7, <2>8 DEF Ended
<1>3. QED
  BY <1>1, <1>2

LEMMA EndedCalls ==
  ASSUME CallTypes, CallInv, NEW t \in Tasks, op[t] # "idle", NEW r \in Results,
         Ended(t, r)
  PROVE  /\ CallInv'
         /\ waits'[t] = NoCmd /\ \A u \in Tasks \ {t} : waits'[u] = waits[u]
<1>1. /\ op'[t] = op[t] \/ op'[t] = "idle"
      /\ asked'[t] = "no"
      /\ op'[t] # "idle" => at'[t] <= Size(op'[t])
  <2>1. CASE Left(t, r)
    BY <2>1 DEF Ended, Left
  <2>2. CASE WentOn(t, r)
    <3>1. op[t] \in Operations /\ at[t] \in Int
      BY DEF CallTypes
    <3>2. Size(op[t]) \in Int
      BY <3>1, Sizes
    <3>3. QED
      BY <2>2, <3>1, <3>2 DEF Ended, WentOn
  <2>3. QED
    BY <2>1, <2>2 DEF Ended
<1>2. \A u \in Tasks \ {t} : op'[u] = op[u] /\ at'[u] = at[u] /\ asked'[u] = asked[u]
  BY DEF Ended
<1>3. \A u \in Tasks \ {t} : Here(u)' = Here(u)
  BY <1>2 DEF Here
<1>4. /\ op'[Main] \in MainOps \cup {"init", "deinit", "idle"}
      /\ \A u \in Apps : op'[u] \in AppOps \cup {"idle"}
  BY <1>1, <1>2 DEF CallInv, Tasks
<1>5. ASSUME NEW u \in Tasks
      PROVE  /\ op'[u] # "idle" => at'[u] <= Size(op'[u])
             /\ op'[u] = "idle" => asked'[u] = "no"
             /\ asked'[u] = "put" => Here(u)'.do \in {"ask", "tell"}
             /\ asked'[u] = "wait" => Here(u)'.do = "ask"
  <2>1. CASE u = t
    BY <2>1, <1>1
  <2>2. CASE u # t
    BY <2>2, <1>2, <1>3 DEF CallInv
  <2>3. QED
    BY <2>1, <2>2
<1>6. CallInv'
  BY <1>4, <1>5 DEF CallInv
<1>7. waits'[t] = NoCmd
  BY <1>1 DEF waits, Awaiting
<1>8. ASSUME NEW u \in Tasks \ {t} PROVE waits'[u] = waits[u]
  BY <1>2, <1>3 DEF waits, Awaiting
<1>9. QED
  BY <1>6, <1>7, <1>8

\* What an application or Main does in a running library, and the reset in
\* eESPinit, keep what eESPinit has made.
LEMMA EndedPhase ==
  ASSUME CallTypes, CallInv, PhaseInv, NEW t \in Tasks, op[t] # "idle",
         NEW r \in Results, Ended(t, r), ~SpecialAt(op[t], at[t]),
         UNCHANGED <<objs, threads, initialized, crashed>>
  PROVE  PhaseInv'
<1>1. Main \notin Apps /\ Main \in Tasks
  BY LifeAssumption DEF Tasks
<1>2. /\ at[t] \in Nat /\ at[t] >= 1 /\ Longest \in Nat
      /\ op[t] = "deinit" => at[t] <= 2
  BY Sizes DEF CallTypes, CallInv
<1>3. /\ ~crashed' /\ (\A k \in Threads : threads'[k] <= 1)
  BY DEF PhaseInv
<1>4. op[t] = "init" => /\ t = Main /\ ~running /\ cbs /\ at[t] >= 3
                        /\ Made(objs, threads) /\ initialized
  <2>1. HAVE op[t] = "init"
  <2>2. t = Main
    BY <2>1, LifeAssumption DEF CallInv, Tasks
  <2>3. at[t] >= 3
    BY <2>1, <1>2 DEF SpecialAt
  <2>4. QED
    BY <2>1, <2>2, <2>3 DEF PhaseInv, MainInv
<1>5. op[t] # "deinit"
  BY <1>2 DEF SpecialAt
<1>6. op[t] # "init" => running
  BY <1>5 DEF PhaseInv, Tasks
<1>7. CASE op[t] = "init" /\ Left(t, r)
  <2>1. /\ op'[Main] = "idle" /\ running' = (r = "ok") /\ cbs' = (r = "ok")
        /\ result'[Main] = r
    BY <1>4, <1>7 DEF Left, Ended, CallTypes
  <2>2. \A u \in Apps : op'[u] = "idle"
    <3>1. TAKE u \in Apps
    <3>2. u \in Tasks \ {t} /\ op[u] = "idle"
      BY <1>1, <1>4, <1>7 DEF Tasks, PhaseInv
    <3>3. QED
      BY <3>2 DEF Ended
  <2>3. QED
    BY <1>3, <1>4, <1>7, <2>1, <2>2 DEF PhaseInv, MainInv
<1>8. CASE op[t] = "init" /\ WentOn(t, r)
  <2>1. /\ op'[Main] = "init" /\ running' = FALSE /\ cbs' = TRUE /\ at'[Main] > 3
    BY <1>4, <1>8, <1>2 DEF WentOn, CallTypes
  <2>2. \A u \in Apps : op'[u] = "idle"
    <3>1. TAKE u \in Apps
    <3>2. u \in Tasks \ {t} /\ op[u] = "idle"
      BY <1>1, <1>4, <1>8 DEF Tasks, PhaseInv
    <3>3. QED
      BY <3>2 DEF Ended
  <2>3. at'[Main] \in Nat /\ at'[Main] # 1 /\ at'[Main] # 2
    BY <2>1, <1>4, <1>8, <1>2 DEF WentOn
  <2>4. QED
    BY <1>3, <1>4, <1>8, <2>1, <2>2, <2>3 DEF PhaseInv, MainInv
<1>9. CASE op[t] # "init"
  <2>1. running /\ running' /\ cbs'
    <3>1. running /\ cbs
      BY <1>6, <1>9 DEF PhaseInv
    <3>2. CASE Left(t, r)
      <4>1. running' = TRUE /\ cbs' = TRUE
        BY <3>1, <3>2, <1>5, <1>9 DEF Left
      <4>2. QED
        BY <3>1, <4>1
    <3>3. CASE WentOn(t, r)
      BY <3>1, <3>3 DEF WentOn
    <3>4. QED
      BY <3>1, <3>2, <3>3 DEF Ended
  <2>2. op[Main] \notin {"init", "deinit"}
    BY <2>1 DEF PhaseInv
  <2>3. op'[Main] \notin {"init", "deinit"}
    <3>1. CASE t = Main
      BY <3>1, <2>2 DEF Ended, Left, WentOn
    <3>2. CASE t # Main
      BY <3>2, <2>2, <1>1 DEF Ended
    <3>3. QED
      BY <3>1, <3>2
  <2>4. QED
    BY <1>3, <2>1, <2>3 DEF PhaseInv, MainInv
<1>10. QED
  BY <1>7, <1>8, <1>9 DEF Ended

-----------------------------------------------------------------------------
(* Where a task is.                                                        *)

LEMMA Where ==
  ASSUME CallTypes, CallInv, NEW t \in Tasks, op[t] # "idle"
  PROVE  /\ op[t] \in Operations /\ at[t] \in 1..Size(op[t])
         /\ ~SpecialAt(op[t], at[t]) => Ordinary(Here(t))
         /\ Here(t).do \notin Special => ~SpecialAt(op[t], at[t])
         /\ Here(t).do = "create" => op[t] = "init" /\ at[t] = 1 /\ t = Main
         /\ Here(t).do = "device" => op[t] = "init" /\ at[t] = 2 /\ t = Main
         /\ Here(t).do = "tear" => op[t] = "deinit" /\ at[t] = 1 /\ t = Main
         /\ Here(t).do = "delete" => op[t] = "deinit" /\ at[t] = 2 /\ t = Main
<1>1. op[t] \in Operations /\ at[t] \in 1..Longest /\ at[t] <= Size(op[t])
  BY DEF CallTypes, CallInv
<1>2. at[t] \in 1..Size(op[t])
  BY <1>1, Sizes
<1>3. Here(t) = Steps(op[t])[at[t]]
  BY DEF Here
<1>4. ~SpecialAt(op[t], at[t]) => Ordinary(Here(t))
  BY <1>1, <1>2, <1>3, OrdinaryAt
<1>5. ~SpecialAt(op[t], at[t]) => Here(t).do \notin Special
  BY <1>4 DEF Ordinary
<1>6. SpecialAt(op[t], at[t]) =>
        \/ op[t] = "init" /\ at[t] = 1 /\ Here(t).do = "create"
        \/ op[t] = "init" /\ at[t] = 2 /\ Here(t).do = "device"
        \/ op[t] = "deinit" /\ at[t] = 1 /\ Here(t).do = "tear"
        \/ op[t] = "deinit" /\ at[t] = 2 /\ Here(t).do = "delete"
  BY <1>3, SpecialSteps DEF SpecialAt, Do, Step
<1>7. op[t] \in {"init", "deinit"} => t = Main
  BY LifeAssumption DEF CallInv, Tasks
<1>8. QED
  BY <1>1, <1>2, <1>4, <1>5, <1>6, <1>7 DEF Special

\* In a step that is not special everything is there.
LEMMA EverythingThere ==
  ASSUME CallTypes, CallInv, PhaseInv, NEW t \in Tasks, op[t] # "idle",
         ~SpecialAt(op[t], at[t])
  PROVE  Made(objs, threads) /\ initialized
<1>1. /\ op[t] = "deinit" => at[t] \in {1, 2}
      /\ at[t] \in Nat /\ at[t] >= 1
      /\ op[t] \in {"init", "deinit"} => t = Main
  <2>1. op[t] \in Operations /\ at[t] \in 1..Size(op[t])
    BY Where
  <2>2. Size("deinit") = 2 /\ Size(op[t]) \in Nat
    BY <2>1, Sizes
  <2>3. op[t] \in {"init", "deinit"} => t = Main
    BY LifeAssumption DEF CallInv, Tasks
  <2>4. QED
    BY <2>1, <2>2, <2>3
<1>2. CASE op[t] = "init"
  <2>1. at[Main] >= 3 /\ op[Main] = "init"
    BY <1>1, <1>2 DEF SpecialAt
  <2>2. QED
    BY <2>1 DEF PhaseInv, MainInv
<1>3. CASE op[t] # "init"
  <2>1. op[t] # "deinit"
    BY <1>1 DEF SpecialAt
  <2>2. running
    BY <2>1, <1>3 DEF PhaseInv, Tasks
  <2>3. QED
    BY <2>2 DEF PhaseInv
<1>4. QED
  BY <1>2, <1>3

LEMMA WaitsNot ==
  ASSUME CallTypes, NEW t \in Tasks, asked[t] # "wait"
  PROVE  waits[t] = NoCmd
BY DEF waits, Awaiting

\* The requests in the mailbox and in service are left alone.
LEMMA ReqsAlone ==
  ASSUME ReqTypes, ReqInv, UNCHANGED <<box, cur, said>>, NEW t \in Tasks,
         waits[t] = NoCmd, \A u \in Tasks \ {t} : waits'[u] = waits[u]
  PROVE  ReqTypes' /\ ReqInv'
<1>1. ReqTypes'
  BY DEF ReqTypes
<1>2. Requested(box, cur, waits')
  BY RequestedOthers DEF ReqTypes, ReqInv
<1>3. QED
  BY <1>1, <1>2 DEF ReqInv

\* A step of a task that is neither special nor waited for.
LEMMA StepEnded ==
  ASSUME LifeInv, NEW t \in Tasks, op[t] # "idle", asked[t] # "wait",
         Here(t).do \notin Special, NEW r \in Results, Ended(t, r),
         UNCHANGED <<objs, threads, initialized, crashed, box, cur, said>>
  PROVE  CallTypes' /\ ReqTypes' /\ CallInv' /\ ReqInv' /\ PhaseInv'
<1>1. CallTypes /\ ReqTypes /\ CallInv /\ ReqInv /\ PhaseInv
  BY Types DEF LifeInv
<1>2. ~SpecialAt(op[t], at[t])
  BY <1>1, Where
<1>3. CallInv' /\ \A u \in Tasks \ {t} : waits'[u] = waits[u]
  BY <1>1, EndedCalls
<1>4. ReqTypes' /\ ReqInv'
  BY <1>1, <1>3, WaitsNot, ReqsAlone
<1>5. PhaseInv'
  BY <1>1, <1>2, EndedPhase
<1>6. QED
  BY <1>3, <1>4, <1>5 DEF Ended

\* What a step needs is there.
LEMMA UsesMade ==
  ASSUME LifeInv, NEW t \in Tasks, op[t] # "idle", Here(t).do \notin Special
  PROVE  {"mutex"} \subseteq objs /\ {"reqbox"} \subseteq objs /\ initialized
<1>1. CallTypes /\ CallInv /\ PhaseInv
  BY Types DEF LifeInv
<1>2. Made(objs, threads) /\ initialized
  BY <1>1, Where, EverythingThere
<1>3. QED
  BY <1>2 DEF Made, Objects

LEMMA AllOfIt == CallTypes' /\ ReqTypes' /\ DataTypes' /\ CallInv' /\ ReqInv' /\ PhaseInv'
                   => LifeInv'
<1>1. TypeOK' <=> CallTypes' /\ ReqTypes' /\ DataTypes'
  BY Types, PTL
<1>2. QED
  BY <1>1 DEF LifeInv

LEMMA ResultsAre == /\ "ok" \in Results /\ "err" \in Results /\ "nodevice" \in Results
                    /\ "nomem" \in Results /\ "nocmd" \in Results /\ "timeout" \in Results
                    /\ "skip" \in Results
BY DEF Results

-----------------------------------------------------------------------------
(* The steps of operations, requests excepted.                             *)

LEMMA LifeRecvStop ==
  ASSUME LifeInv, NEW t \in Tasks, RecvStop(t)
  PROVE  LifeInv'
<1>1. /\ op[t] # "idle" /\ asked[t] = "no" /\ Here(t).do = "stop"
      /\ receiving' = FALSE /\ Ends(t, "ok")
      /\ UNCHANGED <<objs, threads, initialized, present, powered, version, dev, heard,
                     box, cur, said, inits, crashed>>
  BY DEF RecvStop, Doing, made, flags, reqs
<1>2. CallTypes /\ CallInv /\ DataTypes
  BY Types DEF LifeInv
<1>3. Ended(t, "ok")
  BY <1>1, <1>2, ResultsAre, EndsEnded
<1>4. CallTypes' /\ ReqTypes' /\ CallInv' /\ ReqInv' /\ PhaseInv'
  BY <1>1, <1>3, ResultsAre, StepEnded DEF Special
<1>5. DataTypes'
  BY <1>1, <1>2 DEF DataTypes
<1>6. QED
  BY <1>4, <1>5, AllOfIt

LEMMA LifeRecvStart ==
  ASSUME LifeInv, NEW t \in Tasks, RecvStart(t)
  PROVE  LifeInv'
<1>1. /\ op[t] # "idle" /\ asked[t] = "no" /\ Here(t).do = "start"
      /\ UNCHANGED <<objs, threads, initialized, present, powered, version, dev, heard,
                     box, cur, said, inits, crashed>>
  BY DEF RecvStart, Doing, made, flags, reqs
<1>2. PICK r \in {"ok", "err"} : receiving' = (receiving \/ r = "ok") /\ Ends(t, r)
  BY DEF RecvStart
<1>3. CallTypes /\ CallInv /\ DataTypes
  BY Types DEF LifeInv
<1>4. r \in Results
  BY ResultsAre
<1>5. Ended(t, r)
  BY <1>1, <1>2, <1>3, <1>4, EndsEnded
<1>6. CallTypes' /\ ReqTypes' /\ CallInv' /\ ReqInv' /\ PhaseInv'
  BY <1>1, <1>4, <1>5, StepEnded DEF Special
<1>7. receiving' \in BOOLEAN
  BY <1>2
<1>8. DataTypes'
  BY <1>1, <1>3, <1>7 DEF DataTypes
<1>9. QED
  BY <1>6, <1>8, AllOfIt

LEMMA LifeCloseTest ==
  ASSUME LifeInv, NEW t \in Tasks, CloseTest(t)
  PROVE  LifeInv'
<1>1. op[t] # "idle" /\ asked[t] = "no" /\ Here(t).do = "test"
  BY DEF CloseTest, Doing
<1>2. CallTypes /\ CallInv /\ DataTypes
  BY Types DEF LifeInv
<1>3. {"mutex"} \subseteq objs
  BY <1>1, UsesMade DEF Special
<1>4. /\ Ends(t, "ok") \/ Returns(t, "ok")
      /\ UNCHANGED <<objs, threads, initialized, present, powered, receiving, version,
                     dev, heard, box, cur, said, inits, crashed>>
  BY <1>3 DEF CloseTest, Uses, made, flags, device, reqs
<1>5. Ended(t, "ok")
  BY <1>1, <1>2, <1>4, ResultsAre, EndsEnded, ReturnsEnded
<1>6. CallTypes' /\ ReqTypes' /\ CallInv' /\ ReqInv' /\ PhaseInv'
  BY <1>1, <1>4, <1>5, ResultsAre, StepEnded DEF Special
<1>7. DataTypes'
  BY <1>4, <1>2 DEF DataTypes
<1>8. QED
  BY <1>6, <1>7, AllOfIt

LEMMA LifeCloseAbsent ==
  ASSUME LifeInv, NEW t \in Tasks, CloseAbsent(t)
  PROVE  LifeInv'
<1>1. op[t] # "idle" /\ asked[t] = "no" /\ Here(t).do = "absent"
  BY DEF CloseAbsent, Doing
<1>2. CallTypes /\ CallInv /\ DataTypes
  BY Types DEF LifeInv
<1>3. {"mutex"} \subseteq objs
  BY <1>1, UsesMade DEF Special
<1>4. /\ Ends(t, result[t]) /\ present' = FALSE
      /\ UNCHANGED <<objs, threads, initialized, powered, receiving, version,
                     dev, heard, box, cur, said, inits, crashed>>
  BY <1>3 DEF CloseAbsent, Uses, made, device, reqs
<1>5. PICK r \in Results : r = result[t]
  BY <1>2 DEF CallTypes
<1>6. Ended(t, r)
  BY <1>1, <1>2, <1>4, <1>5, EndsEnded
<1>7. CallTypes' /\ ReqTypes' /\ CallInv' /\ ReqInv' /\ PhaseInv'
  BY <1>1, <1>4, <1>6, StepEnded DEF Special
<1>8. DataTypes'
  BY <1>4, <1>2 DEF DataTypes
<1>9. QED
  BY <1>7, <1>8, AllOfIt

LEMMA LifePowerOff ==
  ASSUME LifeInv, NEW t \in Tasks, PowerOff(t)
  PROVE  LifeInv'
<1>1. op[t] # "idle" /\ asked[t] = "no" /\ Here(t).do = "off"
  BY DEF PowerOff, Doing
<1>2. CallTypes /\ CallInv /\ DataTypes
  BY Types DEF LifeInv
<1>3. {"mutex"} \subseteq objs
  BY <1>1, UsesMade DEF Special
<1>4. /\ Ends(t, "ok") /\ present' = FALSE /\ powered' = FALSE
      /\ dev' = "off" /\ version' = FALSE
      /\ heard' = (cur.cmd = "GMR" /\ said = "ok")
      /\ UNCHANGED <<objs, threads, initialized, receiving, box, cur, said, inits, crashed>>
  BY <1>3 DEF PowerOff, Uses, OffFlags, made, reqs
<1>5. Ended(t, "ok")
  BY <1>1, <1>2, <1>4, ResultsAre, EndsEnded
<1>6. CallTypes' /\ ReqTypes' /\ CallInv' /\ ReqInv' /\ PhaseInv'
  BY <1>1, <1>4, <1>5, ResultsAre, StepEnded DEF Special
<1>7. heard' \in BOOLEAN
  BY <1>4
<1>8. DataTypes'
  BY <1>4, <1>2, <1>7 DEF DataTypes
<1>9. QED
  BY <1>6, <1>8, AllOfIt

LEMMA LifePowerSupply ==
  ASSUME LifeInv, NEW t \in Tasks, PowerSupply(t)
  PROVE  LifeInv'
<1>1. op[t] # "idle" /\ asked[t] = "no" /\ Here(t).do = "supply"
  BY DEF PowerSupply, Doing
<1>2. CallTypes /\ CallInv /\ DataTypes
  BY Types DEF LifeInv
<1>3. {"mutex"} \subseteq objs
  BY <1>1, UsesMade DEF Special
<1>4. /\ Ends(t, "ok") /\ dev' = (IF dev = "off" THEN "on" ELSE dev)
      /\ UNCHANGED <<objs, threads, initialized, present, powered, receiving, version,
                     heard, box, cur, said, inits, crashed>>
  BY <1>3 DEF PowerSupply, Uses, made, flags, reqs
<1>5. Ended(t, "ok")
  BY <1>1, <1>2, <1>4, ResultsAre, EndsEnded
<1>6. CallTypes' /\ ReqTypes' /\ CallInv' /\ ReqInv' /\ PhaseInv'
  BY <1>1, <1>4, <1>5, ResultsAre, StepEnded DEF Special
<1>7. DataTypes'
  BY <1>4, <1>2 DEF DataTypes
<1>8. QED
  BY <1>6, <1>7, AllOfIt

LEMMA LifePowerStore ==
  ASSUME LifeInv, NEW t \in Tasks, PowerStore(t)
  PROVE  LifeInv'
<1>1. /\ op[t] # "idle" /\ asked[t] = "no" /\ Here(t).do = "powered"
      /\ Ends(t, "ok") /\ powered' = TRUE
      /\ UNCHANGED <<objs, threads, initialized, present, receiving, version, dev,
                     heard, box, cur, said, inits, crashed>>
  BY DEF PowerStore, Doing, made, device, reqs
<1>2. CallTypes /\ CallInv /\ DataTypes
  BY Types DEF LifeInv
<1>3. Ended(t, "ok")
  BY <1>1, <1>2, ResultsAre, EndsEnded
<1>4. CallTypes' /\ ReqTypes' /\ CallInv' /\ ReqInv' /\ PhaseInv'
  BY <1>1, <1>3, ResultsAre, StepEnded DEF Special
<1>5. DataTypes'
  BY <1>1, <1>2 DEF DataTypes
<1>6. QED
  BY <1>4, <1>5, AllOfIt

-----------------------------------------------------------------------------
(* Requests: the caller.                                                   *)

LEMMA LifeReqCheck ==
  ASSUME LifeInv, NEW t \in Tasks, ReqCheck(t)
  PROVE  LifeInv'
<1>1. op[t] # "idle" /\ asked[t] = "no" /\ Here(t).do \in {"ask", "tell"}
  BY DEF ReqCheck, Asking, Doing
<1>2. /\ CallTypes /\ ReqTypes /\ DataTypes
      /\ CallInv /\ ReqInv /\ PhaseInv
  BY Types DEF LifeInv
<1>3. {"mutex"} \subseteq objs /\ initialized
  BY <1>1, UsesMade DEF Special
<1>4. /\ IF Refusal(t) = "none"
           THEN asked' = [asked EXCEPT ![t] = "put"]
                /\ UNCHANGED <<op, at, result, running, cbs>>
           ELSE Ends(t, Refusal(t))
      /\ UNCHANGED <<objs, threads, initialized, present, powered, receiving, version,
                     dev, heard, box, cur, said, inits, crashed>>
  BY <1>3 DEF ReqCheck, Uses, made, flags, device, reqs
<1>5. DataTypes'
  BY <1>2, <1>4 DEF DataTypes
<1>6. Refusal(t) \in {"none", "nodevice"}
  BY <1>3 DEF Refusal
<1>7. CASE Refusal(t) = "none"
  <2>1. /\ asked' = [asked EXCEPT ![t] = "put"]
        /\ UNCHANGED <<op, at, result, running, cbs>>
    BY <1>4, <1>7
  <2>2. /\ asked' \in [Tasks -> {"no", "put", "wait"}] /\ asked'[t] = "put"
        /\ \A u \in Tasks \ {t} : asked'[u] = asked[u]
    BY <2>1, <1>2 DEF CallTypes
  <2>3. \A u \in Tasks : Here(u)' = Here(u)
    BY <2>1 DEF Here
  <2>4. CallTypes'
    BY <2>1, <2>2, <1>2 DEF CallTypes
  <2>5. CallInv'
    BY <2>1, <2>2, <2>3, <1>1, <1>2 DEF CallInv
  <2>6. waits[t] = NoCmd /\ \A u \in Tasks \ {t} : waits'[u] = waits[u]
    BY <2>2, <2>3, <1>1 DEF waits, Awaiting
  <2>7. ReqTypes' /\ ReqInv'
    BY <2>6, <1>2, <1>4, ReqsAlone
  <2>8. PhaseInv'
    BY <2>1, <1>2, <1>4 DEF PhaseInv, MainInv
  <2>9. QED
    BY <2>4, <2>5, <2>7, <2>8, <1>5, AllOfIt
<1>8. CASE Refusal(t) = "nodevice"
  <2>1. Ended(t, "nodevice")
    BY <1>1, <1>2, <1>4, <1>8, ResultsAre, EndsEnded
  <2>2. CallTypes' /\ ReqTypes' /\ CallInv' /\ ReqInv' /\ PhaseInv'
    BY <1>1, <1>4, <2>1, ResultsAre, StepEnded DEF Special
  <2>3. QED
    BY <2>2, <1>5, AllOfIt
<1>9. QED
  BY <1>6, <1>7, <1>8

LEMMA LifeReqPut ==
  ASSUME LifeInv, NEW t \in Tasks, ReqPut(t)
  PROVE  LifeInv'
<1> DEFINE b == Here(t).do = "ask"
           q == Request(t, Here(t).cmd, b)
<1>1. /\ CallTypes /\ ReqTypes /\ DataTypes
      /\ CallInv /\ ReqInv /\ PhaseInv
  BY Types DEF LifeInv
<1>2. asked[t] = "put"
  BY DEF ReqPut
<1>3. op[t] # "idle" /\ Here(t).do \in {"ask", "tell"}
  BY <1>1, <1>2 DEF CallInv
<1>4. Here(t).do \notin Special
  BY <1>3 DEF Special
<1>5. {"reqbox"} \subseteq objs
  BY <1>3, <1>4, UsesMade
<1>6. Ordinary(Here(t))
  BY <1>1, <1>3, <1>4, Where
<1>7. q \in ReqType /\ q.by = t /\ q.cmd = Here(t).cmd /\ q.blocking = b
  BY <1>3, <1>6 DEF Request, ReqType, Ordinary
<1>8. /\ UNCHANGED <<objs, threads, initialized, present, powered, receiving, version,
                     dev, heard, cur, said, inits, crashed>>
      /\ IF Len(box) < ReqCap
           THEN /\ box' = Append(box, q)
                /\ IF b THEN asked' = [asked EXCEPT ![t] = "wait"]
                             /\ UNCHANGED <<op, at, result, running, cbs>>
                        ELSE Ends(t, "ok")
           ELSE Ends(t, "nomem") /\ UNCHANGED box
  BY <1>5 DEF ReqPut, Uses, made, flags, device
<1>9. DataTypes'
  BY <1>1, <1>8 DEF DataTypes
<1>10. waits[t] = NoCmd
  BY <1>1, <1>2, WaitsNot
<1>11. Len(box) < ReqCap /\ box' = Append(box, q) => ReqTypes'
  <2>1. HAVE Len(box) < ReqCap /\ box' = Append(box, q)
  <2>2. box \in Seq(ReqType) /\ Len(box) \in Nat /\ ReqCap \in Nat
    BY <1>1, LifeAssumption DEF ReqTypes
  <2> HIDE DEF q
  <2>3. box' \in Seq(ReqType) /\ Len(box') = Len(box) + 1
    BY <2>1, <2>2, <1>7, AppendProperties
  <2>4. QED
    BY <2>1, <2>2, <2>3, <1>1, <1>8 DEF ReqTypes
<1> HIDE DEF q
<1>12. CASE Len(box) < ReqCap /\ b
  <2>1. /\ box' = Append(box, q)
        /\ asked' = [asked EXCEPT ![t] = "wait"]
        /\ UNCHANGED <<op, at, result, running, cbs>>
    BY <1>8, <1>12
  <2>2. /\ asked' \in [Tasks -> {"no", "put", "wait"}] /\ asked'[t] = "wait"
        /\ \A u \in Tasks \ {t} : asked'[u] = asked[u]
    BY <2>1, <1>1 DEF CallTypes
  <2>3. \A u \in Tasks : Here(u)' = Here(u)
    BY <2>1 DEF Here
  <2>4. CallTypes'
    BY <2>1, <2>2, <1>1 DEF CallTypes
  <2>5. CallInv'
    BY <2>1, <2>2, <2>3, <1>1, <1>3, <1>12 DEF CallInv
  <2>6. /\ \A u \in Tasks \ {t} : waits'[u] = waits[u]
        /\ waits'[t] = Here(t).cmd
    BY <2>2, <2>3 DEF waits, Awaiting
  <2>7. Owned(q, waits')
    BY <2>6, <1>7, <1>12 DEF Owned
  <2>8. Requested(Append(box, q), cur, waits')
    BY <2>6, <2>7, <1>1, <1>7, <1>10, RequestedPut DEF ReqTypes, ReqInv
  <2>9. ReqInv'
    BY <2>1, <2>8, <1>1, <1>8 DEF ReqInv
  <2>10. PhaseInv'
    BY <2>1, <1>1, <1>8 DEF PhaseInv, MainInv
  <2>11. QED
    BY <2>1, <2>4, <2>5, <2>9, <2>10, <1>9, <1>11, <1>12, AllOfIt
<1>13. CASE Len(box) < ReqCap /\ ~b
  <2>1. box' = Append(box, q) /\ Ends(t, "ok")
    BY <1>8, <1>13
  <2>2. Ended(t, "ok")
    BY <2>1, <1>1, <1>3, ResultsAre, EndsEnded
  <2>3. CallInv' /\ \A u \in Tasks \ {t} : waits'[u] = waits[u]
    BY <2>2, <1>1, <1>3, ResultsAre, EndedCalls
  <2>4. PhaseInv'
    BY <2>2, <1>1, <1>3, <1>4, <1>8, ResultsAre, Where, EndedPhase
  <2>5. Owned(q, waits')
    BY <1>3, <1>6, <1>7, <1>13 DEF Owned, Ordinary
  <2>6. Requested(Append(box, q), cur, waits')
    BY <2>3, <2>5, <1>1, <1>7, <1>10, RequestedPut DEF ReqTypes, ReqInv
  <2>7. ReqInv'
    BY <2>1, <2>6, <1>1, <1>8 DEF ReqInv
  <2>8. QED
    BY <2>1, <2>2, <2>3, <2>4, <2>7, <1>9, <1>11, <1>13, AllOfIt DEF Ended
<1>14. CASE ~(Len(box) < ReqCap)
  <2>1. Ends(t, "nomem") /\ box' = box
    BY <1>8, <1>14
  <2>2. Ended(t, "nomem")
    BY <2>1, <1>1, <1>3, ResultsAre, EndsEnded
  <2>3. CallTypes' /\ ReqTypes' /\ CallInv' /\ ReqInv' /\ PhaseInv'
    BY <2>1, <2>2, <1>2, <1>3, <1>4, <1>8, ResultsAre, StepEnded
  <2>4. QED
    BY <2>3, <1>9, AllOfIt
<1>15. QED
  BY <1>12, <1>13, <1>14

-----------------------------------------------------------------------------
(* Requests: the two threads and the device.                               *)

LEMMA LifeReqTake ==
  ASSUME LifeInv, ReqTake
  PROVE  LifeInv'
<1>1. /\ CallTypes /\ ReqTypes /\ DataTypes
      /\ CallInv /\ ReqInv /\ PhaseInv
  BY Types DEF LifeInv
<1>2. /\ cur = NoReq /\ box # << >> /\ cur' = Head(box) /\ box' = Tail(box)
      /\ version' = (version /\ Head(box).cmd # "RESET")
      /\ UNCHANGED <<objs, threads, initialized, present, powered, receiving, dev, heard,
                     said, op, at, asked, result, running, cbs, inits, crashed>>
  BY DEF ReqTake, made, flags, calls
<1>3. box \in Seq(ReqType) /\ Len(box) \in Nat /\ Len(box) <= ReqCap /\ ReqCap \in Nat
  BY <1>1, LifeAssumption DEF ReqTypes
<1>4. /\ Requested(box', cur', waits) /\ cur' \in ReqType
      /\ box' \in Seq(ReqType) /\ Len(box') = Len(box) - 1
  BY <1>1, <1>2, <1>3, RequestedTake DEF ReqInv
<1>5. ReqTypes'
  BY <1>1, <1>2, <1>3, <1>4 DEF ReqTypes
<1>6. waits' = waits
  BY <1>2 DEF waits, Awaiting, Here
<1>7. ReqInv'
  BY <1>1, <1>2, <1>4, <1>6, NoReqIs DEF ReqInv
<1>8. version' \in BOOLEAN
  BY <1>2
<1>9. DataTypes'
  BY <1>1, <1>2, <1>8 DEF DataTypes
<1>10. CallTypes' /\ CallInv' /\ PhaseInv'
  BY <1>1, <1>2 DEF CallTypes, CallInv, Here, PhaseInv, MainInv
<1>11. QED
  BY <1>5, <1>7, <1>9, <1>10, AllOfIt

\* Who waits for the request in service.
LEMMA Waiter ==
  ASSUME LifeInv, cur # NoReq, cur.blocking
  PROVE  /\ cur.by \in Tasks /\ asked[cur.by] = "wait" /\ op[cur.by] # "idle"
         /\ Here(cur.by).do = "ask" /\ Here(cur.by).cmd = cur.cmd
<1>1. CallTypes /\ ReqTypes /\ CallInv /\ ReqInv
  BY Types DEF LifeInv
<1>2. cur \in ReqType
  BY <1>1 DEF ReqTypes
<1>3. cur.by \in Tasks /\ cur.cmd \in Cmds
  BY <1>2 DEF ReqType
<1>4. Owned(cur, waits)
  BY <1>1 DEF ReqInv, Requested
<1>5. waits[cur.by] = cur.cmd /\ waits[cur.by] # NoCmd
  BY <1>3, <1>4, NoReqIs DEF Owned
<1>6. asked[cur.by] = "wait" /\ Here(cur.by).cmd = cur.cmd
  BY <1>3, <1>5 DEF waits, Awaiting
<1>7. QED
  BY <1>1, <1>3, <1>6 DEF CallInv

\* A request is completed, and its caller woken.
LEMMA LifeComplete ==
  ASSUME LifeInv, cur # NoReq, NEW r \in Results, Complete(r)
  PROVE  /\ CallTypes' /\ ReqTypes' /\ CallInv' /\ ReqInv' /\ PhaseInv'
         /\ cur' = NoReq /\ said' = Nothing /\ box' = box
         /\ cur.blocking => Ended(cur.by, r)
         /\ ~cur.blocking => UNCHANGED <<op, at, asked, result, running, cbs>>
         /\ UNCHANGED <<objs, threads, initialized, powered, receiving, inits, crashed>>
<1>1. /\ CallTypes /\ ReqTypes /\ CallInv /\ ReqInv /\ PhaseInv
  BY Types DEF LifeInv
<1>2. /\ cur' = NoReq /\ said' = Nothing
      /\ IF cur.blocking THEN Ends(cur.by, r)
                         ELSE UNCHANGED <<op, at, asked, result, running, cbs>>
      /\ UNCHANGED <<objs, threads, initialized, powered, receiving, box, inits, crashed>>
  BY DEF Complete, Wakes, made, calls
<1>3. cur \in ReqType /\ box \in Seq(ReqType)
  BY <1>1 DEF ReqTypes
<1>4. ReqTypes'
  BY <1>1, <1>2 DEF ReqTypes
<1>5. CASE cur.blocking
  <2>1. PICK t \in Tasks : t = cur.by
    BY <1>5, Waiter
  <2>2. asked[t] = "wait" /\ op[t] # "idle" /\ Here(t).do = "ask"
    BY <2>1, <1>5, Waiter
  <2>3. Ends(t, r)
    BY <2>1, <1>2, <1>5
  <2>4. Ended(t, r)
    BY <2>2, <2>3, <1>1, EndsEnded
  <2>5. CallInv' /\ \A u \in Tasks \ {t} : waits'[u] = waits[u]
    BY <2>2, <2>4, <1>1, EndedCalls
  <2>6. PhaseInv'
    <3>1. ~SpecialAt(op[t], at[t])
      BY <2>2, <1>1, Where DEF Special
    <3>2. QED
      BY <3>1, <2>2, <2>4, <1>1, <1>2, EndedPhase
  <2>7. \A u \in Tasks : waits'[u] = waits[u] \/ (cur.blocking /\ u = cur.by)
    BY <2>1, <2>5, <1>5
  <2>8. Requested(box, NoReq, waits')
    BY <2>7, <1>1, <1>3, RequestedDone DEF ReqInv
  <2>9. ReqInv'
    BY <2>8, <1>2 DEF ReqInv
  <2>10. QED
    BY <2>1, <2>4, <2>5, <2>6, <2>9, <1>2, <1>4, <1>5 DEF Ended
<1>6. CASE ~cur.blocking
  <2>1. UNCHANGED <<op, at, asked, result, running, cbs>>
    BY <1>2, <1>6
  <2>2. waits' = waits
    BY <2>1 DEF waits, Awaiting, Here
  <2>3. Requested(box, NoReq, waits')
    BY <2>2, <1>1, <1>3, RequestedDone DEF ReqInv
  <2>4. ReqInv'
    BY <2>3, <1>2 DEF ReqInv
  <2>5. CallTypes' /\ CallInv' /\ PhaseInv'
    BY <2>1, <1>1, <1>2 DEF CallTypes, CallInv, Here, PhaseInv, MainInv
  <2>6. QED
    BY <2>1, <2>4, <2>5, <1>2, <1>4, <1>6
<1>7. QED
  BY <1>5, <1>6

LEMMA LifeReqResetPin ==
  ASSUME LifeInv, ReqResetPin
  PROVE  LifeInv'
<1>1. /\ cur.cmd = "RESET" /\ Complete("nocmd")
      /\ dev' = (IF dev = "asleep" THEN "on" ELSE dev)
      /\ UNCHANGED <<present, version, heard>>
  BY DEF ReqResetPin, Pin
<1>2. cur # NoReq
  BY <1>1, NoReqIs DEF NoCmd
<1>3. /\ CallTypes' /\ ReqTypes' /\ CallInv' /\ ReqInv' /\ PhaseInv'
      /\ UNCHANGED <<objs, threads, initialized, powered, receiving, inits, crashed>>
  BY <1>1, <1>2, ResultsAre, LifeComplete
<1>4. DataTypes
  BY Types DEF LifeInv
<1>5. DataTypes'
  BY <1>1, <1>3, <1>4 DEF DataTypes
<1>6. QED
  BY <1>3, <1>5, AllOfIt

LEMMA LifeReqTimeout ==
  ASSUME LifeInv, ReqTimeout
  PROVE  LifeInv'
<1>1. /\ cur # NoReq /\ Complete("timeout")
      /\ UNCHANGED <<present, version, dev, heard>>
  BY DEF ReqTimeout
<1>2. /\ CallTypes' /\ ReqTypes' /\ CallInv' /\ ReqInv' /\ PhaseInv'
      /\ UNCHANGED <<objs, threads, initialized, powered, receiving, inits, crashed>>
  BY <1>1, ResultsAre, LifeComplete
<1>3. DataTypes
  BY Types DEF LifeInv
<1>4. DataTypes'
  BY <1>1, <1>2, <1>3 DEF DataTypes
<1>5. QED
  BY <1>2, <1>4, AllOfIt

LEMMA LifeRespParse ==
  ASSUME LifeInv, RespParse
  PROVE  LifeInv'
<1>1. PICK r : r = Reported(cur.cmd, said)
  OBVIOUS
<1>2. /\ said # Nothing /\ Complete(r)
      /\ IF cur.cmd = "GMR" /\ said = "ok"
           THEN version' = TRUE /\ present' = TRUE
           ELSE UNCHANGED <<version, present>>
      /\ UNCHANGED <<dev, heard>>
  BY <1>1 DEF RespParse
<1>3. ReqTypes /\ ReqInv /\ DataTypes
  BY Types DEF LifeInv
<1>4. cur # NoReq
  BY <1>2, <1>3 DEF ReqInv
<1>5. r \in Results
  BY <1>1, <1>2, <1>3, ResultsAre DEF Reported, ReqTypes
<1>6. /\ CallTypes' /\ ReqTypes' /\ CallInv' /\ ReqInv' /\ PhaseInv'
      /\ UNCHANGED <<objs, threads, initialized, powered, receiving, inits, crashed>>
  BY <1>2, <1>4, <1>5, LifeComplete
<1>7. version' \in BOOLEAN /\ present' \in BOOLEAN
  BY <1>2, <1>3 DEF DataTypes
<1>8. DataTypes'
  BY <1>2, <1>3, <1>6, <1>7 DEF DataTypes
<1>9. QED
  BY <1>6, <1>8, AllOfIt

LEMMA LifeDevAnswer ==
  ASSUME LifeInv, NEW r \in {"ok", "err"}, DevAnswer(r)
  PROVE  LifeInv'
<1>1. /\ cur # NoReq /\ said' = r
      /\ dev' = (IF cur.cmd = "GSLP" /\ r = "ok" THEN "asleep" ELSE dev)
      /\ heard' = (heard \/ (cur.cmd = "GMR" /\ r = "ok"))
      /\ UNCHANGED <<objs, threads, initialized, present, powered, receiving, version,
                     box, cur, op, at, asked, result, running, cbs, inits, crashed>>
  BY DEF DevAnswer, made, flags, calls
<1>2. /\ CallTypes /\ ReqTypes /\ DataTypes
      /\ CallInv /\ ReqInv /\ PhaseInv
  BY Types DEF LifeInv
<1>3. waits' = waits
  BY <1>1 DEF waits, Awaiting, Here
<1>4. ReqTypes' /\ ReqInv'
  BY <1>1, <1>2, <1>3 DEF ReqTypes, ReqInv
<1>5. CallTypes' /\ CallInv' /\ PhaseInv'
  BY <1>1, <1>2 DEF CallTypes, CallInv, Here, PhaseInv, MainInv
<1>6. heard' \in BOOLEAN
  BY <1>1
<1>7. DataTypes'
  BY <1>1, <1>2, <1>6 DEF DataTypes
<1>8. QED
  BY <1>4, <1>5, <1>7, AllOfIt

-----------------------------------------------------------------------------
(* Calls, and the special steps.                                           *)

\* Task t begins operation o.
LEMMA Begun ==
  ASSUME LifeInv, NEW t \in Tasks, op[t] = "idle", NEW o \in Operations, Begin(t, o),
         running' \in BOOLEAN, cbs' \in BOOLEAN, UNCHANGED <<box, cur, said>>,
         IF t = Main THEN o \in MainOps \cup {"init", "deinit"} ELSE o \in AppOps
  PROVE  /\ CallTypes' /\ ReqTypes' /\ CallInv' /\ ReqInv'
         /\ op'[t] = o /\ at'[t] = 1
         /\ \A u \in Tasks \ {t} : op'[u] = op[u] /\ at'[u] = at[u] /\ result'[u] = result[u]
<1>1. CallTypes /\ ReqTypes /\ CallInv /\ ReqInv
  BY Types DEF LifeInv
<1>2. /\ op' = [op EXCEPT ![t] = o] /\ at' = [at EXCEPT ![t] = 1]
      /\ result' = [result EXCEPT ![t] = "ok"] /\ asked' = asked
  BY DEF Begin
<1>3. Size(o) \in Nat /\ 1 <= Size(o) /\ 1 \in 1..Longest
  <2>1. Size(o) \in 1..Longest /\ (Longest = 12 \/ Longest = 13)
    BY Sizes
  <2>2. QED
    BY <2>1
<1>4. /\ op' \in [Tasks -> Operations \cup {"idle"}] /\ at' \in [Tasks -> 1..Longest]
      /\ result' \in [Tasks -> Results]
      /\ op'[t] = o /\ at'[t] = 1
      /\ \A u \in Tasks \ {t} : op'[u] = op[u] /\ at'[u] = at[u] /\ result'[u] = result[u]
  BY <1>1, <1>2, <1>3, ResultsAre DEF CallTypes
<1>5. asked[t] = "no"
  BY <1>1 DEF CallInv
<1>6. \A u \in Tasks \ {t} : Here(u)' = Here(u)
  BY <1>4 DEF Here
<1>7. /\ op'[Main] \in MainOps \cup {"init", "deinit", "idle"}
      /\ \A u \in Apps : op'[u] \in AppOps \cup {"idle"}
  BY <1>1, <1>4, LifeAssumption DEF CallInv, Tasks
<1>8. ASSUME NEW u \in Tasks
      PROVE  /\ op'[u] # "idle" => at'[u] <= Size(op'[u])
             /\ op'[u] = "idle" => asked'[u] = "no"
             /\ asked'[u] = "put" => Here(u)'.do \in {"ask", "tell"}
             /\ asked'[u] = "wait" => Here(u)'.do = "ask"
  <2>1. CASE u = t
    BY <2>1, <1>2, <1>3, <1>4, <1>5
  <2>2. CASE u # t
    BY <2>2, <1>1, <1>2, <1>4, <1>6 DEF CallInv
  <2>3. QED
    BY <2>1, <2>2
<1>9. CallInv'
  BY <1>7, <1>8 DEF CallInv
<1>10. waits[t] = NoCmd /\ \A u \in Tasks \ {t} : waits'[u] = waits[u]
  BY <1>2, <1>4, <1>5, <1>6 DEF waits, Awaiting
<1>11. ReqTypes' /\ ReqInv'
  BY <1>1, <1>10, ReqsAlone
<1>12. QED
  BY <1>1, <1>2, <1>4, <1>9, <1>11 DEF CallTypes

LEMMA LifeCallInit ==
  ASSUME ~Retry, LifeInv, CallInit
  PROVE  LifeInv'
<1>1. /\ op[Main] = "idle" /\ ~running /\ inits < MaxInit /\ result[Main] = "ok"
      /\ inits' = inits + 1 /\ initialized' = FALSE /\ present' = FALSE /\ cbs' = TRUE
      /\ Begin(Main, "init")
      /\ UNCHANGED <<objs, threads, powered, receiving, version, dev, heard,
                     box, cur, said, running, crashed>>
  BY DEF CallInit, made, device, reqs
<1>2. CallTypes /\ DataTypes /\ PhaseInv
  BY Types DEF LifeInv
<1>3. Main \in Tasks /\ "init" \in Operations
  BY DEF Tasks, Operations, ResetOps
<1>4. /\ CallTypes' /\ ReqTypes' /\ CallInv' /\ ReqInv'
      /\ op'[Main] = "init" /\ at'[Main] = 1
      /\ \A u \in Tasks \ {Main} : op'[u] = op[u]
  BY <1>1, <1>2, <1>3, Begun DEF CallTypes
<1>5. Bare(objs, threads)
  BY <1>1, <1>2 DEF PhaseInv, MainInv
<1>6. \A u \in Apps : op'[u] = "idle"
  BY <1>1, <1>2, <1>4, LifeAssumption DEF PhaseInv, Tasks
<1>7. PhaseInv'
  BY <1>1, <1>2, <1>4, <1>5, <1>6 DEF PhaseInv, MainInv
<1>8. inits' \in 0..MaxInit
  BY <1>1, <1>2, LifeAssumption DEF DataTypes
<1>9. DataTypes'
  BY <1>1, <1>2, <1>8 DEF DataTypes
<1>10. QED
  BY <1>4, <1>7, <1>9, AllOfIt

LEMMA LifeCallDeinit ==
  ASSUME ~BusyDeinit, LifeInv, CallDeinit
  PROVE  LifeInv'
<1>1. /\ op[Main] = "idle" /\ running /\ running' = FALSE
      /\ \A t \in Apps : op[t] = "idle"
      /\ Begin(Main, "deinit")
      /\ UNCHANGED <<objs, threads, initialized, present, powered, receiving, version, dev,
                     heard, box, cur, said, cbs, inits, crashed>>
  BY DEF CallDeinit, made, flags, device, reqs
<1>2. CallTypes /\ DataTypes /\ PhaseInv
  BY Types DEF LifeInv
<1>3. Main \in Tasks /\ "deinit" \in Operations
  BY DEF Tasks, Operations
<1>4. /\ CallTypes' /\ ReqTypes' /\ CallInv' /\ ReqInv'
      /\ op'[Main] = "deinit" /\ at'[Main] = 1
      /\ \A u \in Tasks \ {Main} : op'[u] = op[u]
  BY <1>1, <1>2, <1>3, Begun DEF CallTypes
<1>5. Made(objs, threads)
  BY <1>1, <1>2 DEF PhaseInv
<1>6. \A u \in Apps : op'[u] = "idle"
  BY <1>1, <1>4, LifeAssumption DEF Tasks
<1>7. PhaseInv'
  BY <1>1, <1>2, <1>4, <1>5, <1>6 DEF PhaseInv, MainInv
<1>8. DataTypes'
  BY <1>1, <1>2 DEF DataTypes
<1>9. QED
  BY <1>4, <1>7, <1>8, AllOfIt

LEMMA LifeCall ==
  ASSUME LifeInv, NEW t \in Tasks, NEW o \in MainOps \cup AppOps, Call(t, o)
  PROVE  LifeInv'
<1>1. /\ op[t] = "idle" /\ running /\ Begin(t, o)
      /\ o \in (IF t = Main THEN MainOps ELSE AppOps)
      /\ UNCHANGED <<objs, threads, initialized, present, powered, receiving, version, dev,
                     heard, box, cur, said, running, cbs, inits, crashed>>
  BY DEF Call, made, flags, device, reqs
<1>2. CallTypes /\ DataTypes /\ PhaseInv
  BY Types DEF LifeInv
<1>3. o \in Operations /\ o \notin {"init", "deinit"}
  BY LifeAssumption
<1>4. /\ CallTypes' /\ ReqTypes' /\ CallInv' /\ ReqInv'
      /\ op'[t] = o
      /\ \A u \in Tasks \ {t} : op'[u] = op[u]
  BY <1>1, <1>2, <1>3, Begun DEF CallTypes
<1>5. op'[Main] \notin {"init", "deinit"}
  <2>1. CASE t = Main
    BY <2>1, <1>3, <1>4
  <2>2. CASE t # Main
    BY <2>2, <1>1, <1>2, <1>4 DEF PhaseInv, Tasks
  <2>3. QED
    BY <2>1, <2>2
<1>6. PhaseInv'
  BY <1>1, <1>2, <1>5 DEF PhaseInv, MainInv
<1>7. DataTypes'
  BY <1>1, <1>2 DEF DataTypes
<1>8. QED
  BY <1>4, <1>6, <1>7, AllOfIt

\* The applications of a library that is not running have nothing to do.
LEMMA NoAppRuns ==
  ASSUME CallTypes, PhaseInv, op[Main] \in {"init", "deinit"},
         NEW r \in Results, Ended(Main, r)
  PROVE  /\ ~running /\ Main \in Tasks
         /\ \A u \in Apps : op'[u] = "idle"
<1>1. ~running
  BY DEF PhaseInv
<1>2. \A u \in Apps : u \in Tasks \ {Main} /\ op[u] = "idle"
  BY <1>1, LifeAssumption DEF PhaseInv, Tasks
<1>3. QED
  BY <1>1, <1>2 DEF Ended, Tasks

\* What eESPinit makes when nothing is lacking.
LEMMA MadeAll == MadeObjects({}) = Objects /\ MadeThreads({}) = Threads
<1>1. MadeThreads({}) = Threads
  BY DEF MadeThreads
<1>2. Order[1] = "sem" /\ Order[2] = "reqbox" /\ Order[3] = "respbox"
      /\ DOMAIN Order = {1, 2, 3}
  BY DEF Order
<1>3. {Order[i] : i \in {k \in DOMAIN Order : \A j \in 1..k : Order[j] \notin {}}}
        = {"sem", "reqbox", "respbox"}
  BY <1>2
<1>4. QED
  BY <1>1, <1>3 DEF MadeObjects, Objects

LEMMA MadeSome ==
  ASSUME NEW lacking
  PROVE  /\ MadeObjects(lacking) \subseteq Objects
         /\ "mutex" \notin lacking => "mutex" \in MadeObjects(lacking)
         /\ MadeThreads(lacking) \subseteq Threads
<1>1. MadeThreads(lacking) \subseteq Threads
  BY DEF MadeThreads
<1>2. \A i \in DOMAIN Order : Order[i] \in {"sem", "reqbox", "respbox"}
  BY DEF Order
<1>3. QED
  BY <1>1, <1>2 DEF MadeObjects, Objects

LEMMA LifeInitCreate ==
  ASSUME "mutex" \notin MayFail, LifeInv, InitCreate
  PROVE  LifeInv'
<1>1. PICK lacking \in SUBSET (MayFail \cap (Objects \cup Threads)) :
        LET new == MadeObjects(lacking) IN
        /\ objs' = objs \cup new
        /\ threads' = [k \in Threads |->
                         IF k \in MadeThreads(lacking) THEN threads[k] + 1 ELSE threads[k]]
        /\ box' = IF "reqbox" \in new THEN << >> ELSE box
        /\ Ends(Main, IF lacking \ {"mutex"} = {} THEN "ok" ELSE "err")
  BY DEF InitCreate
<1>2. PICK r \in {"ok", "err"} : r = IF lacking \ {"mutex"} = {} THEN "ok" ELSE "err"
  OBVIOUS
<1>3. /\ op[Main] # "idle" /\ asked[Main] = "no" /\ Here(Main).do = "create"
      /\ UNCHANGED <<initialized, present, powered, receiving, version, dev, heard,
                     cur, said, inits, crashed>>
  BY DEF InitCreate, Doing, flags, device
<1>4. /\ CallTypes /\ ReqTypes /\ DataTypes
      /\ CallInv /\ ReqInv /\ PhaseInv
  BY Types DEF LifeInv
<1>5. Main \in Tasks /\ r \in Results
  BY ResultsAre DEF Tasks
<1>6. op[Main] = "init" /\ at[Main] = 1
  BY <1>3, <1>4, <1>5, Where
<1>7. cbs /\ Bare(objs, threads) /\ ~running
  BY <1>4, <1>6 DEF PhaseInv, MainInv
<1>8. /\ Ended(Main, r)
      /\ op'[Main] = "idle" => at[Main] = Size(op[Main]) \/ r \notin Here(Main).need
  BY <1>1, <1>2, <1>3, <1>4, <1>5, EndsEnded
<1>9. Here(Main).need = Results /\ Size("init") # 1
  BY <1>6, SpecialSteps, Sizes DEF Here, Do, Step
<1>10. /\ op'[Main] = "init" /\ at'[Main] = 2 /\ running' = FALSE /\ cbs'
       /\ result'[Main] = r
  <2>1. op'[Main] # "idle"
    BY <1>5, <1>6, <1>8, <1>9
  <2>2. WentOn(Main, r) /\ result'[Main] = r
    BY <2>1, <1>8 DEF Ended, Left
  <2>3. op'[Main] = "init" /\ at'[Main] = 1 + 1 /\ running' = running /\ cbs' = cbs
    BY <2>2, <1>6 DEF WentOn
  <2>4. running' = FALSE /\ cbs'
    BY <2>3, <1>4, <1>7 DEF CallTypes
  <2>5. QED
    BY <2>2, <2>3, <2>4
<1>11. CallInv' /\ \A u \in Tasks \ {Main} : waits'[u] = waits[u]
  BY <1>3, <1>4, <1>5, <1>8, EndedCalls
<1>12. box' = box \/ box' = << >>
  BY <1>1
<1>13. ReqTypes' /\ ReqInv'
  <2>1. waits[Main] = NoCmd
    BY <1>3, <1>4, <1>5, WaitsNot
  <2>2. Requested(box, cur, waits')
    BY <2>1, <1>4, <1>5, <1>11, RequestedOthers DEF ReqTypes, ReqInv
  <2>3. CASE box' = box
    BY <2>2, <2>3, <1>3, <1>4 DEF ReqTypes, ReqInv
  <2>4. CASE box' = << >>
    <3>1. DOMAIN box' = {} /\ box' \in Seq(ReqType) /\ Len(box') = 0
      BY <2>4
    <3>2. ReqTypes'
      BY <3>1, <1>3, <1>4, LifeAssumption DEF ReqTypes
    <3>3. Requested(box', cur, waits')
      BY <2>2, <3>1 DEF Requested
    <3>4. QED
      BY <3>2, <3>3, <1>3, <1>4 DEF ReqInv
  <2>5. QED
    BY <1>12, <2>3, <2>4
<1>14. /\ objs' = MadeObjects(lacking) /\ "mutex" \in objs' /\ objs' \subseteq Objects
       /\ threads' = [k \in Threads |-> IF k \in MadeThreads(lacking) THEN 1 ELSE 0]
  BY <1>1, <1>7, MadeSome DEF Bare
<1>15. r = "ok" => Made(objs', threads')
  <2>1. HAVE r = "ok"
  <2>2. lacking = {}
    BY <2>1, <1>2
  <2>3. QED
    BY <2>2, <1>14, MadeAll DEF Made
<1>16. \A k \in Threads : threads'[k] <= 1
  BY <1>14
<1>17. DataTypes'
  BY <1>3, <1>4, <1>14 DEF DataTypes
<1>18. PhaseInv'
  <2>1. \A u \in Apps : op'[u] = "idle"
    BY <1>4, <1>5, <1>6, <1>8, NoAppRuns
  <2>2. MainInv'
    BY <1>10, <1>14, <1>15 DEF MainInv
  <2>3. QED
    BY <2>1, <2>2, <1>3, <1>4, <1>10, <1>16 DEF PhaseInv
<1>19. QED
  BY <1>8, <1>11, <1>13, <1>17, <1>18, AllOfIt DEF Ended

LEMMA LifeInitDevice ==
  ASSUME LifeInv, InitDevice
  PROVE  LifeInv'
<1>1. op[Main] # "idle" /\ asked[Main] = "no" /\ Here(Main).do = "device"
  BY DEF InitDevice, Doing
<1>2. /\ CallTypes /\ ReqTypes /\ DataTypes
      /\ CallInv /\ ReqInv /\ PhaseInv
  BY Types DEF LifeInv
<1>3. Main \in Tasks
  BY DEF Tasks
<1>4. op[Main] = "init" /\ at[Main] = 2
  BY <1>1, <1>2, <1>3, Where
<1>5. /\ "mutex" \in objs /\ cbs /\ ~running
      /\ result[Main] = "ok" => Made(objs, threads)
  BY <1>2, <1>4 DEF PhaseInv, MainInv
<1>6. {"mutex"} \subseteq objs
  BY <1>5
<1>7. /\ \/ Returns(Main, "err") /\ UNCHANGED <<initialized, powered, dev>>
         \/ /\ result[Main] = "ok" /\ initialized' = TRUE /\ powered' = TRUE
            /\ dev' = (IF dev = "off" THEN "on" ELSE dev) /\ Ends(Main, "ok")
      /\ UNCHANGED <<objs, threads, present, receiving, version, heard, box, cur, said,
                     inits, crashed>>
  BY <1>6 DEF InitDevice, Uses, LowLevelUp, made, reqs
<1>8. DataTypes'
  BY <1>2, <1>7 DEF DataTypes
<1>9. CASE Returns(Main, "err") /\ UNCHANGED <<initialized, powered, dev>>
  <2>1. Ended(Main, "err") /\ Left(Main, "err")
    BY <1>2, <1>3, <1>9, ResultsAre, ReturnsEnded
  <2>2. CallInv' /\ \A u \in Tasks \ {Main} : waits'[u] = waits[u]
    BY <2>1, <1>1, <1>2, <1>3, ResultsAre, EndedCalls
  <2>3. ReqTypes' /\ ReqInv'
    BY <2>2, <1>1, <1>2, <1>3, <1>7, WaitsNot, ReqsAlone
  <2>4. op'[Main] = "idle" /\ running' = FALSE /\ result'[Main] = "err"
    BY <2>1, <1>5 DEF Left, Ended
  <2>5. \A u \in Apps : op'[u] = "idle"
    BY <2>1, <1>2, <1>4, ResultsAre, NoAppRuns
  <2>6. PhaseInv'
    BY <2>4, <2>5, <1>2, <1>7 DEF PhaseInv, MainInv
  <2>7. QED
    BY <2>1, <2>2, <2>3, <2>6, <1>8, AllOfIt DEF Ended
<1>10. CASE result[Main] = "ok" /\ initialized' = TRUE /\ Ends(Main, "ok")
  <2>1. /\ Ended(Main, "ok")
        /\ op'[Main] = "idle" => at[Main] = Size(op[Main]) \/ "ok" \notin Here(Main).need
    BY <1>1, <1>2, <1>3, <1>10, ResultsAre, EndsEnded
  <2>2. Here(Main).need = Results /\ Size("init") # 2
    BY <1>4, SpecialSteps, Sizes DEF Here, Do, Step
  <2>3. op'[Main] = "init" /\ at'[Main] = 3 /\ running' = FALSE /\ cbs'
    <3>1. op'[Main] # "idle"
      BY <1>4, <2>1, <2>2, ResultsAre
    <3>2. WentOn(Main, "ok")
      BY <3>1, <2>1 DEF Ended, Left
    <3>3. op'[Main] = "init" /\ at'[Main] = 2 + 1 /\ running' = running /\ cbs' = cbs
      BY <3>2, <1>4 DEF WentOn
    <3>4. running' = FALSE /\ cbs'
      BY <3>3, <1>2, <1>5 DEF CallTypes
    <3>5. QED
      BY <3>3, <3>4
  <2>4. CallInv' /\ \A u \in Tasks \ {Main} : waits'[u] = waits[u]
    BY <2>1, <1>1, <1>2, <1>3, ResultsAre, EndedCalls
  <2>5. ReqTypes' /\ ReqInv'
    BY <2>4, <1>1, <1>2, <1>3, <1>7, WaitsNot, ReqsAlone
  <2>6. \A u \in Apps : op'[u] = "idle"
    BY <2>1, <1>2, <1>4, ResultsAre, NoAppRuns
  <2>7. PhaseInv'
    BY <2>3, <2>6, <1>2, <1>5, <1>7, <1>10 DEF PhaseInv, MainInv
  <2>8. QED
    BY <2>1, <2>4, <2>5, <2>7, <1>8, AllOfIt DEF Ended
<1>11. QED
  BY <1>7, <1>9, <1>10

LEMMA LifeDeinitTear ==
  ASSUME LifeInv, DeinitTear
  PROVE  LifeInv'
<1>1. op[Main] # "idle" /\ asked[Main] = "no" /\ Here(Main).do = "tear"
  BY DEF DeinitTear, Doing
<1>2. /\ CallTypes /\ ReqTypes /\ DataTypes
      /\ CallInv /\ ReqInv /\ PhaseInv
  BY Types DEF LifeInv
<1>3. Main \in Tasks
  BY DEF Tasks
<1>4. op[Main] = "deinit" /\ at[Main] = 1
  BY <1>1, <1>2, <1>3, Where
<1>5. Made(objs, threads) /\ ~running
  BY <1>2, <1>4 DEF PhaseInv, MainInv
<1>6. {"mutex"} \subseteq objs
  BY <1>5 DEF Made, Objects
<1>7. /\ receiving' = FALSE /\ threads' = [k \in Threads |-> threads[k] - 1]
      /\ objs' = objs \ {"reqbox", "respbox"}
      /\ box' = << >> /\ cur' = NoReq /\ said' = Nothing /\ Ends(Main, "ok")
      /\ UNCHANGED <<initialized, present, powered, version, dev, heard, inits, crashed>>
  BY <1>6 DEF DeinitTear, Uses, DeinitThreads, flags
<1>8. /\ Ended(Main, "ok")
      /\ op'[Main] = "idle" => at[Main] = Size(op[Main]) \/ "ok" \notin Here(Main).need
  BY <1>1, <1>2, <1>3, <1>7, ResultsAre, EndsEnded
<1>9. Here(Main).need = Results /\ Size("deinit") = 2
  BY <1>4, SpecialSteps, Sizes DEF Here, Do, Step
<1>10. op'[Main] = "deinit" /\ at'[Main] = 2 /\ running' = FALSE
  BY <1>4, <1>5, <1>8, <1>9, ResultsAre DEF Ended, Left, WentOn
<1>11. CallInv'
  BY <1>1, <1>2, <1>3, <1>8, ResultsAre, EndedCalls
<1>12. /\ objs' = {"mutex", "sem"}
       /\ threads' \in [Threads -> Nat] /\ \A k \in Threads : threads'[k] = 0
  BY <1>5, <1>7 DEF Made, Objects
<1>13. DataTypes'
  BY <1>2, <1>7, <1>12 DEF DataTypes, Objects
<1>14. ReqTypes' /\ ReqInv'
  <2>1. DOMAIN box' = {} /\ box' \in Seq(ReqType) /\ Len(box') = 0
    BY <1>7
  <2>2. QED
    BY <2>1, <1>7, LifeAssumption DEF ReqTypes, ReqInv, Requested
<1>15. \A u \in Apps : op'[u] = "idle"
  BY <1>2, <1>4, <1>8, ResultsAre, NoAppRuns
<1>16. PhaseInv'
  BY <1>2, <1>7, <1>10, <1>12, <1>15 DEF PhaseInv, MainInv
<1>17. QED
  BY <1>8, <1>11, <1>13, <1>14, <1>16, AllOfIt DEF Ended

LEMMA LifeDeinitDelete ==
  ASSUME LifeInv, DeinitDelete
  PROVE  LifeInv'
<1>1. op[Main] # "idle" /\ asked[Main] = "no" /\ Here(Main).do = "delete"
  BY DEF DeinitDelete, Doing
<1>2. /\ CallTypes /\ ReqTypes /\ DataTypes
      /\ CallInv /\ ReqInv /\ PhaseInv
  BY Types DEF LifeInv
<1>3. Main \in Tasks
  BY DEF Tasks
<1>4. op[Main] = "deinit" /\ at[Main] = 2
  BY <1>1, <1>2, <1>3, Where
<1>5. /\ objs = {"mutex", "sem"} /\ ~running /\ \A k \in Threads : threads[k] = 0
  BY <1>2, <1>4 DEF PhaseInv, MainInv
<1>6. {"sem", "mutex"} \subseteq objs
  BY <1>5
<1>7. /\ objs' = {} /\ Ends(Main, "ok")
      /\ UNCHANGED <<threads, initialized, present, powered, receiving, version, dev, heard,
                     box, cur, said, inits, crashed>>
  BY <1>6 DEF DeinitDelete, Uses, flags, device, reqs
<1>8. Ended(Main, "ok")
  BY <1>1, <1>2, <1>3, <1>7, ResultsAre, EndsEnded
<1>9. Size("deinit") = 2
  BY Sizes
<1>10. op'[Main] = "idle" /\ running' = FALSE
  <2>1. ~WentOn(Main, "ok")
    BY <1>4, <1>9 DEF WentOn
  <2>2. op'[Main] = "idle" /\ running' = (running \/ (op[Main] = "init" /\ "ok" = "ok"))
    BY <2>1, <1>8 DEF Ended, Left
  <2>3. op[Main] # "init"
    BY <1>4
  <2>4. QED
    BY <2>2, <2>3, <1>5
<1>11. CallInv' /\ \A u \in Tasks \ {Main} : waits'[u] = waits[u]
  BY <1>1, <1>2, <1>3, <1>8, ResultsAre, EndedCalls
<1>12. ReqTypes' /\ ReqInv'
  BY <1>1, <1>2, <1>3, <1>7, <1>11, WaitsNot, ReqsAlone
<1>13. DataTypes'
  BY <1>2, <1>7 DEF DataTypes
<1>14. \A u \in Apps : op'[u] = "idle"
  BY <1>2, <1>4, <1>8, ResultsAre, NoAppRuns
<1>15. PhaseInv'
  BY <1>2, <1>5, <1>7, <1>10, <1>14 DEF PhaseInv, MainInv, Bare
<1>16. QED
  BY <1>8, <1>11, <1>12, <1>13, <1>15, AllOfIt DEF Ended

-----------------------------------------------------------------------------
(* The invariant holds.                                                    *)

LEMMA LifeInit == Init => LifeInv
<1> SUFFICES ASSUME Init PROVE LifeInv
  OBVIOUS
<1>1. /\ objs = {} /\ threads = [k \in Threads |-> 0]
      /\ initialized = FALSE /\ present = FALSE /\ powered = FALSE /\ cbs = FALSE
      /\ receiving = FALSE /\ version = FALSE /\ dev = "off" /\ heard = FALSE
      /\ box = << >> /\ cur = NoReq /\ said = Nothing
      /\ op = [t \in Tasks |-> "idle"] /\ at = [t \in Tasks |-> 1]
      /\ asked = [t \in Tasks |-> "no"] /\ result = [t \in Tasks |-> "ok"]
      /\ running = FALSE /\ inits = 0 /\ crashed = FALSE
  BY DEF Init
<1>2. 1 \in 1..Longest /\ Main \in Tasks /\ Apps \subseteq Tasks
  BY Sizes DEF Tasks
<1>3. CallTypes
  BY <1>1, <1>2, ResultsAre DEF CallTypes
<1>4. DOMAIN box = {} /\ box \in Seq(ReqType) /\ Len(box) = 0
  BY <1>1
<1>5. ReqTypes
  BY <1>1, <1>4, LifeAssumption DEF ReqTypes
<1>6. DataTypes
  <2>1. 0 \in 0..MaxInit
    BY LifeAssumption
  <2>2. threads \in [Threads -> Nat]
    BY <1>1
  <2>3. QED
    BY <1>1, <2>1, <2>2 DEF DataTypes
<1>7. CallInv
  BY <1>1, <1>2 DEF CallInv
<1>8. ReqInv
  BY <1>1, <1>4 DEF ReqInv, Requested
<1>9. PhaseInv
  BY <1>1, <1>2 DEF PhaseInv, MainInv, Bare
<1>10. QED
  BY <1>3, <1>5, <1>6, <1>7, <1>8, <1>9, Types DEF LifeInv

LEMMA LifeStutter ==
  ASSUME LifeInv, UNCHANGED vars
  PROVE  LifeInv'
<1>1. /\ CallTypes /\ ReqTypes /\ DataTypes
      /\ CallInv /\ ReqInv /\ PhaseInv
  BY Types DEF LifeInv
<1>2. UNCHANGED <<objs, threads, initialized, present, powered, receiving, version, dev,
                  heard, box, cur, said, op, at, asked, result, running, cbs, inits, crashed>>
  BY DEF vars, made, flags, device, reqs, calls
<1>3. waits' = waits
  BY <1>2 DEF waits, Awaiting, Here
<1>4. CallTypes' /\ ReqTypes' /\ DataTypes'
  BY <1>1, <1>2 DEF CallTypes, ReqTypes, DataTypes
<1>5. CallInv' /\ ReqInv' /\ PhaseInv'
  BY <1>1, <1>2, <1>3 DEF CallInv, Here, ReqInv, PhaseInv, MainInv
<1>6. QED
  BY <1>4, <1>5, AllOfIt

LEMMA LifeNext ==
  ASSUME ~Retry, ~BusyDeinit, "mutex" \notin MayFail, LifeInv, [Next]_vars
  PROVE  LifeInv'
<1>1. CASE UNCHANGED vars
  BY <1>1, LifeStutter
<1>2. CASE CallInit
  BY <1>2, LifeCallInit
<1>3. CASE CallDeinit
  BY <1>3, LifeCallDeinit
<1>4. CASE \E t \in Tasks, o \in MainOps \cup AppOps : Call(t, o)
  BY <1>4, LifeCall
<1>5. CASE InitCreate
  BY <1>5, LifeInitCreate
<1>6. CASE InitDevice
  BY <1>6, LifeInitDevice
<1>7. CASE DeinitTear
  BY <1>7, LifeDeinitTear
<1>8. CASE DeinitDelete
  BY <1>8, LifeDeinitDelete
<1>9. CASE \E t \in Tasks : TaskStep(t)
  BY <1>9, LifeRecvStop, LifeRecvStart, LifeCloseTest, LifeCloseAbsent, LifePowerOff,
     LifePowerSupply, LifePowerStore, LifeReqCheck, LifeReqPut DEF TaskStep
<1>10. CASE ReqTake
  BY <1>10, LifeReqTake
<1>11. CASE ReqResetPin
  BY <1>11, LifeReqResetPin
<1>12. CASE ReqTimeout
  BY <1>12, LifeReqTimeout
<1>13. CASE RespParse
  BY <1>13, LifeRespParse
<1>14. CASE \E r \in {"ok", "err"} : DevAnswer(r)
  BY <1>14, LifeDevAnswer
<1>15. QED
  BY <1>1, <1>2, <1>3, <1>4, <1>5, <1>6, <1>7, <1>8, <1>9, <1>10, <1>11, <1>12, <1>13,
     <1>14 DEF Next, TaskStep

\* What exists follows from how far eESPinit or eESPdeinit is, and every blocking
\* request from the step its task is in (esp.c:72-195), provided that eESPinit is
\* not tried again after a failure, eESPdeinit waits for the applications, and the
\* mutex can be made.
THEOREM LifeCorrect ==
  ASSUME ~Retry, ~BusyDeinit, "mutex" \notin MayFail
  PROVE  Spec => []LifeInv
<1>1. LifeInv /\ [Next]_vars => LifeInv'
  BY LifeNext
<1>2. QED
  BY LifeInit, <1>1, PTL DEF Spec

\* Every variable has its type, each task is in a step of its operation, and the
\* request mailbox keeps to its slots.
THEOREM LifeTypeCorrect ==
  ASSUME ~Retry, ~BusyDeinit, "mutex" \notin MayFail
  PROVE  Spec => []TypeOK
<1>1. LifeInv => TypeOK
  BY DEF LifeInv
<1>2. QED
  BY LifeCorrect, <1>1, PTL

\* No thread locks, puts to or waits on an object that does not exist, whatever
\* else cannot be made (esp.c:90-124, :178-191).
THEOREM NoDeadObjectCorrect ==
  ASSUME ~Retry, ~BusyDeinit, "mutex" \notin MayFail
  PROVE  Spec => []NoDeadObject
<1>1. LifeInv => NoDeadObject
  BY DEF LifeInv, PhaseInv, NoDeadObject
<1>2. QED
  BY LifeCorrect, <1>1, PTL

\* There is one request and one response thread at most, and both while the
\* application may call the API (esp.c:113-124).
THEOREM ServedCorrect ==
  ASSUME ~Retry, ~BusyDeinit, "mutex" \notin MayFail
  PROVE  Spec => []Served
<1>1. LifeInv => Served
  BY DEF LifeInv, PhaseInv, Made, Served
<1>2. QED
  BY LifeCorrect, <1>1, PTL

-----------------------------------------------------------------------------
(* dev_present.                                                            *)

\* The flag, and the answer that is going to set it, are of a device that has
\* given its version.
PresentInv ==
  /\ present => heard
  /\ cur.cmd = "GMR" /\ said = "ok" => heard
  /\ said # Nothing => cur # NoReq

\* Most steps leave all of it alone.
LEMMA PresentAlone ==
  ASSUME PresentInv, UNCHANGED <<cur, said, heard>>, present' = present \/ present' = FALSE
  PROVE  PresentInv'
BY DEF PresentInv

LEMMA PresentTask ==
  ASSUME PresentInv, NEW t \in Tasks, TaskStep(t)
  PROVE  PresentInv'
<1>1. CASE RecvStop(t)
  BY <1>1, PresentAlone DEF RecvStop, flags, reqs
<1>2. CASE RecvStart(t)
  BY <1>2, PresentAlone DEF RecvStart, flags, reqs
<1>3. CASE CloseTest(t)
  BY <1>3, PresentAlone DEF CloseTest, Uses, flags, device, reqs
<1>4. CASE CloseAbsent(t)
  BY <1>4, PresentAlone DEF CloseAbsent, Uses, flags, device, reqs
<1>5. CASE PowerOff(t)
  <2>1. CASE UNCHANGED <<flags, device, reqs>>
    BY <2>1, PresentAlone DEF flags, device, reqs
  <2>2. CASE ~UNCHANGED <<flags, device, reqs>>
    <3>1. /\ present' = FALSE /\ heard' = (cur.cmd = "GMR" /\ said = "ok")
          /\ cur' = cur /\ said' = said
      BY <1>5, <2>2 DEF PowerOff, Uses, OffFlags, reqs
    <3>2. QED
      BY <3>1 DEF PresentInv
  <2>3. QED
    BY <2>1, <2>2
<1>6. CASE PowerSupply(t)
  BY <1>6, PresentAlone DEF PowerSupply, Uses, flags, device, reqs
<1>7. CASE PowerStore(t)
  BY <1>7, PresentAlone DEF PowerStore, device, reqs
<1>8. CASE ReqCheck(t)
  BY <1>8, PresentAlone DEF ReqCheck, Uses, flags, device, reqs
<1>9. CASE ReqPut(t)
  BY <1>9, PresentAlone DEF ReqPut, Uses, flags, device, reqs
<1>10. QED
  BY <1>1, <1>2, <1>3, <1>4, <1>5, <1>6, <1>7, <1>8, <1>9 DEF TaskStep

LEMMA PresentMain ==
  ASSUME PresentInv,
         CallInit \/ CallDeinit \/ InitCreate \/ InitDevice \/ DeinitTear \/ DeinitDelete
  PROVE  PresentInv'
<1>1. CASE CallInit
  BY <1>1, PresentAlone DEF CallInit, device, reqs
<1>2. CASE CallDeinit
  BY <1>2, PresentAlone DEF CallDeinit, flags, device, reqs
<1>3. CASE InitCreate
  BY <1>3, PresentAlone DEF InitCreate, flags, device
<1>4. CASE InitDevice
  BY <1>4, PresentAlone DEF InitDevice, Uses, LowLevelUp, flags, device, reqs
<1>5. CASE DeinitTear
  <2>1. CASE UNCHANGED <<flags, device, reqs>>
    BY <2>1, PresentAlone DEF flags, device, reqs
  <2>2. CASE ~UNCHANGED <<flags, device, reqs>>
    <3>1. cur' = NoReq /\ said' = Nothing /\ present' = present /\ heard' = heard
      BY <1>5, <2>2 DEF DeinitTear, Uses, flags
    <3>2. QED
      BY <3>1 DEF PresentInv, Nothing
  <2>3. QED
    BY <2>1, <2>2
<1>6. CASE DeinitDelete
  BY <1>6, PresentAlone DEF DeinitDelete, Uses, flags, device, reqs
<1>7. QED
  BY <1>1, <1>2, <1>3, <1>4, <1>5, <1>6

LEMMA PresentNext ==
  ASSUME PresentInv, [Next]_vars
  PROVE  PresentInv'
<1>1. CASE UNCHANGED vars
  BY <1>1, PresentAlone DEF vars, flags, device, reqs
<1>2. CASE \E t \in Tasks, o \in MainOps \cup AppOps : Call(t, o)
  BY <1>2, PresentAlone DEF Call, flags, device, reqs
<1>3. CASE ReqTake
  <2>1. /\ cur = NoReq /\ said' = said /\ heard' = heard /\ present' = present
    BY <1>3 DEF ReqTake, flags
  <2>2. said = Nothing
    BY <2>1 DEF PresentInv
  <2>3. QED
    BY <2>1, <2>2 DEF PresentInv, Nothing
<1>4. CASE ReqResetPin \/ ReqTimeout
  <2>1. cur' = NoReq /\ said' = Nothing /\ present' = present /\ heard' = heard
    BY <1>4 DEF ReqResetPin, ReqTimeout, Complete
  <2>2. QED
    BY <2>1 DEF PresentInv, Nothing
<1>5. CASE RespParse
  <2>1. /\ cur' = NoReq /\ said' = Nothing /\ heard' = heard
        /\ present' = present \/ (cur.cmd = "GMR" /\ said = "ok")
    BY <1>5 DEF RespParse, Complete
  <2>2. QED
    BY <2>1 DEF PresentInv, Nothing
<1>6. CASE \E r \in {"ok", "err"} : DevAnswer(r)
  <2>1. PICK r \in {"ok", "err"} : DevAnswer(r)
    BY <1>6
  <2>2. /\ cur # NoReq /\ cur' = cur /\ said' = r /\ present' = present
        /\ heard' = (heard \/ (cur.cmd = "GMR" /\ r = "ok"))
    BY <2>1 DEF DevAnswer, flags
  <2>3. QED
    BY <2>2 DEF PresentInv
<1>7. QED
  BY <1>1, <1>2, <1>3, <1>4, <1>5, <1>6, PresentTask, PresentMain DEF Next, TaskStep

\* dev_present is only set for a device that has given its version since it was
\* last switched off, or whose version was on its way then, with no assumption at
\* all (esp_parser.c:344-357, esp_misc.c:172-184).
THEOREM PresentTrueCorrect == Spec => []PresentTrue
<1>1. Init => PresentInv
  BY DEF Init, PresentInv, Nothing
<1>2. PresentInv /\ [Next]_vars => PresentInv'
  BY PresentNext
<1>3. PresentInv => PresentTrue
  BY DEF PresentInv, PresentTrue
<1>4. QED
  BY <1>1, <1>2, <1>3, PTL DEF Spec
=============================================================================
