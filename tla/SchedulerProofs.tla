-------------------------- MODULE SchedulerProofs -------------------------
(***************************************************************************)
(* What Scheduler guarantees for any calls, any collection and any number  *)
(* of walks the probe may spare.                                           *)
(***************************************************************************)
EXTENDS Scheduler, TLAPS

---------------------------------------------------------------------------
(* Types. *)

States == {"Unarmed", "Disarmed", "Armed"}
Found == {"skipped", "walked", "failed", "refused"}

ControlsOK ==
  controls \in [permit : BOOLEAN, armed : BOOLEAN, stop : BOOLEAN, manual : BOOLEAN, idle : BOOLEAN]
ProbeOK ==
  /\ probe \in [state : States, base : Nat, skips : 0..MAX_SKIPS, dirty : BOOLEAN, pages : 0..Pages]
  /\ probe.base <= far.shown
TaskOK ==
  /\ task \in [at : Stages, dirty : BOOLEAN, second : BOOLEAN, page : 0..Pages,
               version : Nat, answer : Nat, result : Found]
  /\ task.version <= far.version /\ task.answer <= far.shown
FarOK == far \in [version : Nat, shown : Nat] /\ far.shown <= far.version
LandedOK == landed \in [version : Nat, whole : BOOLEAN] /\ landed.version <= far.version
SpentOK == spent \in [calls : 0..MaxCalls, fails : 0..MaxFails, changes : 0..MaxChanges]

\* While pages are to come there is one; a task was refused only where it may be.
CycleOK ==
  /\ task.at \in {"probe", "walk"} => task.page < Pages
  /\ task.result = "refused" \/ task.at = "returned" => Absent

Inv ==
  /\ ControlsOK /\ ProbeOK /\ TaskOK /\ FarOK /\ LandedOK /\ asked \in BOOLEAN /\ SpentOK
  /\ CycleOK

\* The bounds are numbers.
LEMMA Bounds == /\ MAX_SKIPS \in Nat /\ MaxCalls \in Nat /\ MaxFails \in Nat /\ MaxChanges \in Nat
                /\ Absent \in BOOLEAN /\ Pausable \in BOOLEAN
BY SchedulerAssumption

\* A cycle that has only begun has found nothing (Cycle's locals).
LEMMA NewTaskIs ==
  /\ NewTask.at = "begin" /\ NewTask.page = 0 /\ NewTask.version = 0 /\ NewTask.answer = 0
  /\ NewTask.result = "skipped"
  /\ NewTask \in [at : Stages, dirty : BOOLEAN, second : BOOLEAN, page : 0..Pages,
                  version : Nat, answer : Nat, result : Found]
BY DEF NewTask, Stages, Pages, Found

\* A task that goes elsewhere keeps what it has found (run's states between two awaits).
LEMMA GoIs ==
  ASSUME TaskOK, NEW at \in Stages, Go(at), UNCHANGED far
  PROVE  /\ TaskOK' /\ task'.at = at /\ task'.page = task.page /\ task'.result = task.result
         /\ task'.version = task.version /\ task'.answer = task.answer
BY DEF TaskOK, Go, Stages

---------------------------------------------------------------------------
(* Every step keeps them. *)

\* A cycle begins with nothing found.
LEMMA BeginKeeps == ASSUME Inv, Begin PROVE Inv'
<1>1. PICK at \in {"probe", "walk"}, second \in BOOLEAN, dirty \in BOOLEAN :
        /\ task' = [NewTask EXCEPT !.at = at, !.second = second, !.dirty = dirty]
  <2>1. task.at = "again" \/ task.at # "again"
    OBVIOUS
  <2>2. probe.dirty \in BOOLEAN
    BY DEF Inv, ProbeOK
  <2>3. (task.at = "again") \in BOOLEAN
    OBVIOUS
  <2>4. (IF task.at = "again" THEN TRUE ELSE probe.dirty) \in BOOLEAN
    BY <2>2
  <2>5. (IF probe.state = "Armed" /\ probe.pages >= 2 THEN "probe" ELSE "walk") \in {"probe", "walk"}
    OBVIOUS
  <2> QED
    BY <2>3, <2>4, <2>5 DEF Begin
<1>2. PICK left \in BOOLEAN : probe' = [probe EXCEPT !.dirty = left]
  BY DEF Begin, Inv, ProbeOK
<1>3. UNCHANGED <<controls, far, landed, asked, spent>>
  BY DEF Begin
<1>4. /\ task' \in [at : Stages, dirty : BOOLEAN, second : BOOLEAN, page : 0..Pages,
                    version : Nat, answer : Nat, result : Found]
      /\ task'.at \in {"probe", "walk"} /\ task'.page = 0 /\ task'.version = 0
      /\ task'.answer = 0 /\ task'.result = "skipped"
  BY <1>1, NewTaskIs DEF Stages
<1>5. TaskOK' /\ CycleOK'
  BY <1>3, <1>4 DEF TaskOK, CycleOK, Inv, FarOK, Pages
<1>6. ProbeOK'
  BY <1>2, <1>3 DEF ProbeOK, Inv
<1> QED
  BY <1>3, <1>5, <1>6 DEF Inv, ControlsOK, FarOK, LandedOK, SpentOK
\* A walk is spared, or the probe's answer is kept for its end.
LEMMA ProbeFirstKeeps == ASSUME Inv, ProbeFirst PROVE Inv'
<1>1. UNCHANGED <<controls, far, landed, asked, spent>> /\ task.at = "probe"
  BY DEF ProbeFirst
<1>2. CASE Skips(far.shown, task.dirty)
  <2>1. probe.skips < MAX_SKIPS /\ probe' = [probe EXCEPT !.skips = @ + 1] /\ Go("ended")
    BY <1>2 DEF ProbeFirst, Skips, Skipped
  <2>2. probe.skips + 1 \in 0..MAX_SKIPS
    BY <2>1, Bounds DEF Inv, ProbeOK
  <2>3. ProbeOK'
    BY <1>1, <2>1, <2>2 DEF Inv, ProbeOK
  <2>4. "ended" \in Stages
    BY DEF Stages
  <2>5. TaskOK' /\ CycleOK'
    BY <1>1, <2>1, <2>4, GoIs DEF Inv, CycleOK
  <2> QED
    BY <1>1, <2>3, <2>5 DEF Inv, ControlsOK, FarOK, LandedOK, SpentOK
<1>3. CASE ~Skips(far.shown, task.dirty)
  <2>1. UNCHANGED probe /\ task' = [task EXCEPT !.at = "walk", !.answer = far.shown]
    BY <1>3 DEF ProbeFirst
  <2>2. far.shown \in Nat /\ "walk" \in Stages
    BY DEF Inv, FarOK, Stages
  <2>3. TaskOK' /\ task'.page = task.page /\ task'.result = task.result /\ task'.at = "walk"
    <3>1. /\ task' \in [at : Stages, dirty : BOOLEAN, second : BOOLEAN, page : 0..Pages,
                        version : Nat, answer : Nat, result : Found]
          /\ task'.page = task.page /\ task'.result = task.result /\ task'.at = "walk"
          /\ task'.version = task.version /\ task'.answer = far.shown
      BY <2>1, <2>2 DEF Inv, TaskOK
    <3> QED
      BY <1>1, <2>2, <3>1 DEF Inv, TaskOK
  <2>4. CycleOK'
    BY <1>1, <2>3 DEF Inv, CycleOK
  <2> QED
    BY <1>1, <2>1, <2>3, <2>4 DEF Inv, ControlsOK, FarOK, ProbeOK, LandedOK, SpentOK
<1> QED
  BY <1>2, <1>3

\* What a walk ends with is a page of the collection, and the baseline an answer it gave.
LEMMA CalibrateIs ==
  ASSUME ProbeOK, FarOK, UNCHANGED far, NEW answer \in Nat, answer <= far.shown,
         task'.page \in 0..Pages, Calibrate(answer)
  PROVE  ProbeOK'
<1>1. PICK page \in 0..Pages : page = task'.page
  OBVIOUS
<1>2. 0 \in 0..MAX_SKIPS /\ far.shown \in Nat
  BY Bounds DEF FarOK
<1>3. CASE probe' = [probe EXCEPT !.state = "Armed", !.base = answer, !.skips = 0, !.pages = page]
  <2>1. /\ probe' \in [state : States, base : Nat, skips : 0..MAX_SKIPS, dirty : BOOLEAN,
                       pages : 0..Pages]
        /\ probe'.base = answer
    BY <1>2, <1>3 DEF ProbeOK, States
  <2> QED
    BY <2>1 DEF ProbeOK
<1>4. CASE probe' = [probe EXCEPT !.state = "Disarmed", !.base = 0, !.skips = 0, !.pages = page]
  <2>1. /\ probe' \in [state : States, base : Nat, skips : 0..MAX_SKIPS, dirty : BOOLEAN,
                       pages : 0..Pages]
        /\ probe'.base = 0
    BY <1>2, <1>4 DEF ProbeOK, States
  <2> QED
    BY <1>2, <2>1 DEF ProbeOK
<1>5. CASE probe' = [probe EXCEPT !.pages = page]
  <2>1. /\ probe' \in [state : States, base : Nat, skips : 0..MAX_SKIPS, dirty : BOOLEAN,
                       pages : 0..Pages]
        /\ probe'.base = probe.base
    BY <1>5 DEF ProbeOK, States
  <2> QED
    BY <2>1 DEF ProbeOK
<1> QED
  BY <1>1, <1>3, <1>4, <1>5 DEF Calibrate

\* A page arrives: the walk goes on while there is another.
LEMMA WalkPageKeeps == ASSUME Inv, WalkPage PROVE Inv'
<1>1. PICK page : page = task.page + 1
  OBVIOUS
<1>2. PICK over \in BOOLEAN : over = (page = Pages \/ controls.stop)
  OBVIOUS
<1>3. PICK calibrates \in BOOLEAN : calibrates = (probe.state = "Unarmed" /\ probe.pages >= 2)
  OBVIOUS
<1>4. PICK version : version = IF page = 1 THEN far.version ELSE task.version
  OBVIOUS
<1>5. PICK at : at = IF ~over THEN "walk" ELSE IF calibrates THEN "calibrate" ELSE "ended"
  OBVIOUS
<1>6. /\ task.at = "walk" /\ UNCHANGED <<controls, far, landed, asked, spent>>
      /\ task' = [task EXCEPT !.page = page, !.result = "walked", !.version = version, !.at = at]
      /\ IF ~over \/ calibrates THEN UNCHANGED probe
         ELSE IF probe.state = "Armed" /\ probe.pages >= 2 THEN Calibrate(task.answer)
         ELSE probe' = [probe EXCEPT !.pages = page]
  BY <1>1, <1>2, <1>3, <1>4, <1>5 DEF WalkPage
<1>7. /\ task.page \in 0..Pages /\ task.page < Pages /\ task.answer \in Nat
      /\ task.version \in Nat /\ far.version \in Nat /\ task.answer <= far.shown
      /\ task.version <= far.version
  BY <1>6 DEF Inv, TaskOK, CycleOK, FarOK
<1>8. /\ page \in 0..Pages /\ (~over => page < Pages)
      /\ version \in Nat /\ version <= far.version
      /\ at \in {"walk", "calibrate", "ended"} /\ (at = "walk" => ~over)
  <2>1. page \in 0..Pages /\ (~over => page < Pages)
    <3>1. ~over => page # Pages
      BY <1>2
    <3> QED
      BY <1>1, <1>7, <3>1 DEF Pages
  <2>2. version \in Nat /\ version <= far.version
    BY <1>4, <1>7
  <2> QED
    BY <1>5, <2>1, <2>2
<1>9. /\ task' \in [at : Stages, dirty : BOOLEAN, second : BOOLEAN, page : 0..Pages,
                    version : Nat, answer : Nat, result : Found]
      /\ task'.page = page /\ task'.version = version /\ task'.answer = task.answer
      /\ task'.at = at /\ task'.result = "walked"
  BY <1>6, <1>8 DEF Inv, TaskOK, Stages, Found
<1>10. TaskOK' /\ CycleOK'
  BY <1>6, <1>7, <1>8, <1>9 DEF TaskOK, CycleOK
<1>11. ProbeOK'
  <2>1. CASE UNCHANGED probe
    BY <1>6, <2>1 DEF Inv, ProbeOK
  <2>2. CASE Calibrate(task.answer)
    BY <1>6, <1>7, <1>8, <1>9, <2>2, CalibrateIs DEF Inv
  <2>3. CASE probe' = [probe EXCEPT !.pages = page]
    BY <1>6, <1>8, <2>3 DEF Inv, ProbeOK
  <2> QED
    BY <1>6, <2>1, <2>2, <2>3
<1> QED
  BY <1>6, <1>10, <1>11 DEF Inv, ControlsOK, FarOK, LandedOK, SpentOK

\* The first probe of a table.
LEMMA ProbeLastKeeps == ASSUME Inv, ProbeLast PROVE Inv'
<1>1. UNCHANGED <<controls, far, landed, asked, spent>> /\ Go("ended") /\ Calibrate(far.shown)
  BY DEF ProbeLast
<1>2. "ended" \in Stages
  BY DEF Stages
<1>3. TaskOK' /\ task'.at = "ended" /\ task'.page = task.page /\ task'.result = task.result
  BY <1>1, <1>2, GoIs DEF Inv
<1>4. CycleOK'
  BY <1>3 DEF CycleOK, Inv
<1>5. far.shown \in Nat /\ far.shown <= far.shown /\ task'.page \in 0..Pages
  BY <1>3 DEF Inv, FarOK, TaskOK
<1>6. ProbeOK'
  BY <1>1, <1>5, CalibrateIs DEF Inv
<1> QED
  BY <1>1, <1>3, <1>4, <1>6 DEF Inv, ControlsOK, FarOK, LandedOK, SpentOK

\* A request fails: only where the endpoint may be missing or the credential refused does
\* the task end with it.
LEMMA CycleFailsKeeps == ASSUME Inv, CycleFails PROVE Inv'
<1>1. /\ UNCHANGED <<controls, probe, far, landed, asked>>
      /\ spent' = [spent EXCEPT !.fails = @ + 1] /\ spent.fails < MaxFails
  BY DEF CycleFails
<1>2. SpentOK'
  <2>1. spent.fails + 1 \in 0..MaxFails
    BY <1>1, Bounds DEF Inv, SpentOK
  <2> QED
    BY <1>1, <2>1 DEF Inv, SpentOK
<1>3. CASE task' = [task EXCEPT !.at = "ended", !.result = "failed"]
  <2>1. TaskOK' /\ CycleOK'
    BY <1>1, <1>3 DEF Inv, TaskOK, CycleOK, Stages, Found
  <2> QED
    BY <1>1, <1>2, <2>1 DEF Inv, ControlsOK, FarOK, ProbeOK, LandedOK
<1>4. CASE Absent /\ Go("again")
  <2>1. "again" \in Stages
    BY DEF Stages
  <2>2. TaskOK' /\ CycleOK'
    BY <1>1, <1>4, <2>1, GoIs DEF Inv, CycleOK
  <2> QED
    BY <1>1, <1>2, <2>2 DEF Inv, ControlsOK, FarOK, ProbeOK, LandedOK
<1>5. CASE Absent /\ task' = [task EXCEPT !.at = "ended", !.result = "refused"]
  <2>1. TaskOK' /\ CycleOK'
    BY <1>1, <1>5 DEF Inv, TaskOK, CycleOK, Stages, Found
  <2> QED
    BY <1>1, <1>2, <2>1 DEF Inv, ControlsOK, FarOK, ProbeOK, LandedOK
<1> QED
  BY <1>3, <1>4, <1>5 DEF CycleFails

\* A cycle ends: what it walked lands, and nothing of it is left in the task.
LEMMA EndKeeps == ASSUME Inv, End PROVE Inv'
<1>1. /\ UNCHANGED <<controls, probe, far, asked, spent>>
      /\ landed' = IF task.result = "walked"
                     THEN [version |-> task.version, whole |-> task.page = Pages] ELSE landed
  BY DEF End
<1>2. PICK at : at = IF task.result = "refused" THEN "returned" ELSE "wait"
  OBVIOUS
<1>3. task' = [NewTask EXCEPT !.at = at] /\ at \in {"returned", "wait"} /\ at \in Stages
  BY <1>2 DEF End, Stages
<1>4. /\ task' \in [at : Stages, dirty : BOOLEAN, second : BOOLEAN, page : 0..Pages,
                    version : Nat, answer : Nat, result : Found]
      /\ task'.at = at /\ task'.version = 0 /\ task'.answer = 0 /\ task'.result = "skipped"
  BY <1>3, NewTaskIs
<1>5. TaskOK'
  BY <1>1, <1>4 DEF TaskOK, Inv, FarOK
<1>6. CycleOK'
  BY <1>2, <1>3, <1>4 DEF CycleOK, Inv
<1>7. LandedOK'
  <2>1. PICK whole \in BOOLEAN : whole = (task.page = Pages)
    OBVIOUS
  <2>2. CASE landed' = [version |-> task.version, whole |-> whole]
    BY <1>1, <2>2 DEF LandedOK, Inv, TaskOK
  <2>3. CASE landed' = landed
    BY <1>1, <2>3 DEF LandedOK, Inv
  <2> QED
    BY <1>1, <2>1, <2>2, <2>3
<1> QED
  BY <1>1, <1>5, <1>6, <1>7 DEF Inv, ControlsOK, FarOK, ProbeOK, SpentOK

\* A task sleeps, is paused or goes on.
LEMMA WaitKeeps == ASSUME Inv, Wait \/ TimerFires PROVE Inv'
<1>1. UNCHANGED <<controls, probe, far, landed, asked, spent>>
  BY DEF Wait, TimerFires
<1>2. PICK at \in {"park", "sleep", "wait", "begin"} : Go(at)
  BY DEF Wait, TimerFires, Slept
<1>3. at \in Stages
  BY DEF Stages
<1>4. TaskOK' /\ CycleOK'
  BY <1>1, <1>2, <1>3, GoIs DEF Inv, CycleOK
<1> QED
  BY <1>1, <1>4 DEF Inv, ControlsOK, FarOK, ProbeOK, LandedOK, SpentOK

\* A wake ends a wait or starts it again.
LEMMA WokenKeeps == ASSUME Inv, Woken PROVE Inv'
<1>1. /\ UNCHANGED <<probe, far, landed, spent>>
      /\ controls' = [controls EXCEPT !.permit = FALSE, !.armed = FALSE]
      /\ asked' = (asked /\ ~controls.armed)
  BY DEF Woken
<1>2. PICK at \in {"wait", "begin"} : Go(at)
  BY DEF Woken
<1>3. at \in Stages
  BY DEF Stages
<1>4. TaskOK' /\ CycleOK'
  BY <1>1, <1>2, <1>3, GoIs DEF Inv, CycleOK
<1>5. ControlsOK'
  BY <1>1 DEF Inv, ControlsOK
<1>6. asked' \in BOOLEAN
  BY <1>1 DEF Inv
<1> QED
  BY <1>1, <1>4, <1>5, <1>6 DEF Inv, FarOK, ProbeOK, LandedOK, SpentOK
\* A call is one of those a behaviour has (Scheduler's methods).
LEMMA CallKeeps ==
  ASSUME Inv, NEW name, Call(name)
  PROVE  SpentOK'
<1>1. spent.calls + 1 \in 0..MaxCalls
  BY Bounds DEF Call, Inv, SpentOK
<1> QED
  BY <1>1 DEF Call, Inv, SpentOK

\* A refresh, a stop, a new interval, a pause or a wake.
LEMMA CallsKeep ==
  ASSUME Inv, Refresh \/ Stop \/ Off \/ Every \/ Pause \/ Wake
  PROVE  Inv'
<1>1. SpentOK' /\ UNCHANGED <<far, landed>>
  BY CallKeeps DEF Refresh, Stop, Off, Every, Pause, Wake
<1>2. ControlsOK'
  <2>1. controls \in [permit : BOOLEAN, armed : BOOLEAN, stop : BOOLEAN, manual : BOOLEAN,
                      idle : BOOLEAN]
    BY DEF Inv, ControlsOK
  <2>2. Ring(controls) \in [permit : BOOLEAN, armed : BOOLEAN, stop : BOOLEAN, manual : BOOLEAN,
                            idle : BOOLEAN]
    BY <2>1 DEF Ring
  <2>3. CASE Refresh
    BY <2>1, <2>2, <2>3 DEF Refresh, ControlsOK
  <2>4. CASE Stop \/ Off \/ Pause
    BY <2>1, <2>4 DEF Stop, Off, Pause, ControlsOK
  <2>5. CASE Every \/ Wake
    BY <2>1, <2>2, <2>5 DEF Every, Wake, ControlsOK
  <2> QED
    BY <2>3, <2>4, <2>5
<1>3. ProbeOK'
  <2>1. CASE UNCHANGED probe
    BY <1>1, <2>1 DEF Inv, ProbeOK
  <2>2. CASE Dirty
    BY <1>1, <2>2 DEF Inv, ProbeOK, Dirty
  <2> QED
    BY <2>1, <2>2 DEF Refresh, Stop, Off, Every, Pause, Wake
<1>4. TaskOK' /\ CycleOK'
  <2>1. CASE UNCHANGED task
    BY <1>1, <2>1 DEF Inv, TaskOK, CycleOK
  <2>2. CASE task' = NewTask
    <3>1. TaskOK'
      BY <1>1, <2>2, NewTaskIs DEF Inv, TaskOK, FarOK
    <3> QED
      BY <2>2, <3>1, NewTaskIs DEF CycleOK
  <2> QED
    BY <2>1, <2>2 DEF Refresh, Stop, Off, Every, Pause, Wake
<1>5. asked' \in BOOLEAN
  BY DEF Inv, Refresh, Stop, Off, Every, Pause, Wake
<1> QED
  BY <1>1, <1>2, <1>3, <1>4, <1>5 DEF Inv, FarOK, LandedOK

\* The collection changes: what was read of it is not ahead of what it is.
LEMMA ChangeKeeps == ASSUME Inv, Change PROVE Inv'
<1>1. /\ UNCHANGED <<controls, probe, task, landed, asked>>
      /\ spent' = [spent EXCEPT !.changes = @ + 1] /\ spent.changes < MaxChanges
  BY DEF Change
<1>2. SpentOK'
  <2>1. spent.changes + 1 \in 0..MaxChanges
    BY <1>1, Bounds DEF Inv, SpentOK
  <2> QED
    BY <1>1, <2>1 DEF Inv, SpentOK
<1>3. far.version \in Nat /\ far.shown \in Nat /\ far.shown <= far.version
  BY DEF Inv, FarOK
<1>4. PICK v \in Nat : v = far.version + 1
  BY <1>3
<1>5. PICK w \in {v, far.shown} : far' = [version |-> v, shown |-> w]
  BY <1>4 DEF Change
<1>6. /\ FarOK' /\ far.version <= far'.version /\ far.shown <= far'.shown
      /\ far'.version \in Nat /\ far'.shown \in Nat
  BY <1>3, <1>4, <1>5 DEF FarOK
<1>7. ProbeOK' /\ LandedOK'
  BY <1>1, <1>3, <1>6 DEF Inv, ProbeOK, LandedOK
<1>8. TaskOK'
  <2>1. task.version \in Nat /\ task.answer \in Nat
        /\ task.version <= far.version /\ task.answer <= far.shown
    BY DEF Inv, TaskOK
  <2> QED
    BY <1>1, <1>3, <1>6, <2>1 DEF Inv, TaskOK
<1> QED
  BY <1>1, <1>2, <1>6, <1>7, <1>8 DEF Inv, ControlsOK, CycleOK

\* Nothing has been called, walked or probed at the start.
LEMMA InitHolds == ASSUME Init PROVE Inv
<1>1. 0 \in 0..MaxCalls /\ 0 \in 0..MaxFails /\ 0 \in 0..MaxChanges /\ 0 \in 0..MAX_SKIPS
  BY Bounds
<1>2. ControlsOK /\ FarOK /\ LandedOK /\ asked \in BOOLEAN
  <2>1. ControlsOK
    BY DEF Init, ControlsOK
  <2>2. FarOK
    BY DEF Init, FarOK
  <2>3. LandedOK
    BY DEF Init, LandedOK
  <2>4. asked \in BOOLEAN
    BY DEF Init
  <2> QED
    BY <2>1, <2>2, <2>3, <2>4
<1>3. ProbeOK
  BY <1>1 DEF Init, Unprobed, ProbeOK, States, Pages
<1>4. SpentOK
  BY <1>1 DEF Init, SpentOK
<1>5. TaskOK /\ CycleOK
  BY NewTaskIs DEF Init, TaskOK, CycleOK, Pages
<1> QED
  BY <1>2, <1>3, <1>4, <1>5 DEF Inv

\* Every step keeps the types.
LEMMA NextHolds == ASSUME Inv, [Next]_vars PROVE Inv'
<1>1. CASE UNCHANGED vars
  BY <1>1 DEF vars, Inv, ControlsOK, ProbeOK, TaskOK, FarOK, LandedOK, SpentOK, CycleOK
<1>2. CASE Next
  BY <1>2, BeginKeeps, ProbeFirstKeeps, WalkPageKeeps, ProbeLastKeeps, CycleFailsKeeps, EndKeeps,
     WaitKeeps, WokenKeeps, CallsKeep, ChangeKeeps DEF Next
<1> QED
  BY <1>1, <1>2

\* The probe never spares more than MAX_SKIPS walks in a row and is calibrated on what the
\* far end has shown; a cycle lands no version the collection has not had; a task returns
\* only where its endpoint may be absent or its credential refused (ProbeCell, run).
THEOREM Types == Spec => []TypeOK
<1>1. Inv => TypeOK
  <2> SUFFICES ASSUME Inv PROVE TypeOK
    OBVIOUS
  <2>1. far.version \in Nat /\ far.shown \in Nat /\ far \in [version : Nat, shown : Nat]
    BY DEF Inv, FarOK
  <2>2. probe \in [state : States, base : 0..far.shown, skips : 0..MAX_SKIPS, dirty : BOOLEAN,
                   pages : 0..Pages]
    <3>1. probe.base \in 0..far.shown
      BY <2>1 DEF Inv, ProbeOK
    <3> QED
      BY <3>1 DEF Inv, ProbeOK
  <2>3. task \in [at : Stages, dirty : BOOLEAN, second : BOOLEAN, page : 0..Pages,
                  version : 0..far.version, answer : 0..far.shown, result : Found]
    <3>1. task.version \in 0..far.version /\ task.answer \in 0..far.shown
      BY <2>1 DEF Inv, TaskOK
    <3> QED
      BY <3>1 DEF Inv, TaskOK
  <2>4. landed \in [version : 0..far.version, whole : BOOLEAN]
    <3>1. landed.version \in 0..far.version
      BY <2>1 DEF Inv, LandedOK
    <3> QED
      BY <3>1 DEF Inv, LandedOK
  <2> QED
    BY <2>1, <2>2, <2>3, <2>4 DEF TypeOK, Inv, ControlsOK, SpentOK, CycleOK, States, Found
<1> QED
  BY <1>1, InitHolds, NextHolds, PTL DEF Spec

---------------------------------------------------------------------------
(* A paused session. *)

\* A wake that waits for a scheduled task was asked for.
Rung == controls.permit /\ ~controls.manual => asked

\* A paused session begins no cycle nobody asked for: a task asleep when the pause is set
\* does not buy one more with its interval (Scheduler::set_idle, wait_for_cycle).
THEOREM PausedIsQuiet == Spec => IdleIsQuiet
<1>1. Init => Rung
  BY DEF Init, Rung
<1>2. Inv /\ Rung /\ [Next]_vars => Rung'
  <2> SUFFICES ASSUME Inv, Rung, [Next]_vars PROVE Rung'
    OBVIOUS
  <2>0. controls \in [permit : BOOLEAN, armed : BOOLEAN, stop : BOOLEAN, manual : BOOLEAN,
                      idle : BOOLEAN]
    BY DEF Inv, ControlsOK
  <2>1. CASE UNCHANGED <<controls, asked>>
    BY <2>1 DEF Rung
  <2>2. CASE Woken
    <3>1. controls'.permit = FALSE
      BY <2>0, <2>2 DEF Woken
    <3> QED
      BY <3>1 DEF Rung
  <2>3. CASE Refresh
    <3>1. CASE asked' = TRUE
      BY <3>1 DEF Rung
    <3>2. CASE UNCHANGED asked /\ controls' = [controls EXCEPT !.armed = TRUE, !.stop = FALSE]
      BY <2>0, <3>2 DEF Rung
    <3> QED
      BY <2>3, <3>1, <3>2 DEF Refresh
  <2>4. CASE Stop \/ Pause
    BY <2>0, <2>4 DEF Stop, Pause, Rung
  <2>5. CASE Off
    BY <2>0, <2>5 DEF Off, Rung
  <2>6. CASE Every
    BY <2>6 DEF Every, Rung
  <2>7. CASE Wake
    <3>1. CASE asked' = TRUE
      BY <3>1 DEF Rung
    <3>2. CASE UNCHANGED asked /\ controls' = [controls EXCEPT !.idle = FALSE]
      BY <2>0, <3>2 DEF Rung
    <3> QED
      BY <2>7, <3>1, <3>2 DEF Wake
  <2>8. CASE UNCHANGED vars
    BY <2>8 DEF vars, Rung
  <2>9. CASE \/ Begin \/ ProbeFirst \/ WalkPage \/ ProbeLast \/ CycleFails \/ End \/ Wait
             \/ TimerFires \/ Change
    BY <2>1, <2>9 DEF Begin, ProbeFirst, WalkPage, ProbeLast, CycleFails, End, Wait, TimerFires,
       Change
  <2> QED
    BY <2>2, <2>3, <2>4, <2>5, <2>6, <2>7, <2>8, <2>9 DEF Next
<1>3. Inv /\ Rung /\ [Next]_vars => [WaitEnds /\ Paused /\ ~controls.manual => asked]_vars
  <2> SUFFICES ASSUME Inv, Rung, Next, WaitEnds, Paused, ~controls.manual PROVE asked
    OBVIOUS
  <2>1. task.at \in {"sleep", "park"} /\ task'.at = "begin"
    BY DEF WaitEnds
  <2>2. TaskOK /\ UNCHANGED far => \A at \in Stages : Go(at) => task'.at = at
    BY GoIs
  <2>3. CASE Woken
    BY <2>3 DEF Woken, Rung
  <2>4. ~TimerFires
    <3> SUFFICES ASSUME TimerFires PROVE FALSE
      OBVIOUS
    <3>1. Go("wait") /\ UNCHANGED far /\ "wait" \in Stages
      BY DEF TimerFires, Slept, Stages
    <3> QED
      BY <2>1, <2>2, <3>1 DEF Inv
  <2>5. ~(Begin \/ ProbeFirst \/ WalkPage \/ ProbeLast \/ CycleFails \/ End \/ Wait)
    BY <2>1 DEF Begin, ProbeFirst, WalkPage, ProbeLast, CycleFails, End, Wait
  <2>6. ~(Refresh \/ Stop \/ Off \/ Every \/ Pause \/ Wake \/ Change)
    BY <2>1 DEF Refresh, Stop, Off, Every, Pause, Wake, Change
  <2> QED
    BY <2>3, <2>4, <2>5, <2>6 DEF Next
<1> QED
  BY <1>1, <1>2, <1>3, InitHolds, NextHolds, PTL DEF Spec, IdleIsQuiet
===========================================================================
