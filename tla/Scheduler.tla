----------------------------- MODULE Scheduler ----------------------------
(***************************************************************************)
(* One polling subscription over a list: the task that runs its cycles,    *)
(* the calls that wake, stop, retime and pause it, and the probe that      *)
(* spares it a walk (crates/core/src/scheduler.rs, scheduler/cycle.rs,     *)
(* scheduler/probe.rs).                                                    *)
(*                                                                         *)
(* A step of the task is what it does between two awaits.  Durations are   *)
(* left out: a task that sleeps may wake at any moment.  What a cycle      *)
(* reports and what the store makes of it is another module's (Store);     *)
(* here a walk lands the version of the collection it began to read.       *)
(***************************************************************************)
EXTENDS Naturals

CONSTANTS
  Pausable,   \* Subscription.pausable
  Calls,      \* what the session may call
  Absent,     \* whether the endpoint may be missing, or the credential refused
  MAX_SKIPS,  \* walks the probe may spare in a row
  MaxCalls,   \* bound: calls in a behaviour
  MaxFails,   \* bound: cycles that fail in a behaviour
  MaxChanges  \* bound: changes of the collection in a behaviour

ASSUME SchedulerAssumption ==
  /\ {Pausable, Absent} \subseteq BOOLEAN
  /\ Calls \subseteq {"refresh", "stop", "off", "every", "pause", "wake"}
  /\ {MAX_SKIPS, MaxCalls, MaxFails, MaxChanges} \subseteq Nat

VARIABLES
  controls, \* Controls but for the probe
  probe,    \* ProbeCell: its state, its dirty flag and the pages of the last walk
  task,     \* where the task is and what its cycle has found
  far,      \* the collection: its version, and the last its newest row shows
  landed,   \* what the table holds: the version of its walk, and whether it is all of it
  asked,    \* history: a wait was asked to end and has not been ended for it
  spent     \* how much of each bound is used up

vars == <<controls, probe, task, far, landed, asked, spent>>

Stages ==
  {"begin", "again", "probe", "walk", "calibrate", "ended", "wait", "sleep", "park", "returned"}

\* The collection fills two pages; a walk stopped by hand ends with the first.
Pages == 2

Unprobed == [state |-> "Unarmed", base |-> 0, skips |-> 0, dirty |-> FALSE, pages |-> 0]
NewTask == [at |-> "begin", dirty |-> FALSE, second |-> FALSE, page |-> 0, version |-> 0,
            answer |-> 0, result |-> "skipped"]

Init ==
  /\ controls = [permit |-> FALSE, armed |-> FALSE, stop |-> FALSE, manual |-> FALSE,
                 idle |-> FALSE]
  /\ probe = Unprobed
  /\ task = NewTask
  /\ far = [version |-> 1, shown |-> 1]
  /\ landed = [version |-> 0, whole |-> TRUE]
  /\ asked = FALSE
  /\ spent = [calls |-> 0, fails |-> 0, changes |-> 0]

---------------------------------------------------------------------------
(* The cycle. *)

Go(at) == task' = [task EXCEPT !.at = at]

\* Mutant: a table's probe is trusted for ever.
SkipsTrusted(answer, dirty) == ~dirty /\ answer = probe.base

\* probe_decision, on an armed probe.
Skips(answer, dirty) == ~dirty /\ probe.skips < MAX_SKIPS /\ answer = probe.base

\* A cycle takes the dirty flag, and probes first if the probe is armed and worth it.
Begin ==
  /\ task.at \in {"begin", "again"}
  /\ task' = [NewTask EXCEPT !.at = IF probe.state = "Armed" /\ probe.pages >= 2
                                      THEN "probe" ELSE "walk",
                             !.second = task.at = "again",
                             !.dirty = IF task.at = "again" THEN TRUE ELSE probe.dirty]
  /\ probe' = [probe EXCEPT !.dirty = IF task.at = "again" THEN @ ELSE FALSE]
  /\ UNCHANGED <<controls, far, landed, asked, spent>>

\* Mutant: a spared walk is not counted.
SkippedUncounted == UNCHANGED probe

\* ProbeCell::skipped: the baseline stands, and one more skip is on the clock.
Skipped == probe' = [probe EXCEPT !.skips = @ + 1]

ProbeFirst ==
  /\ task.at = "probe"
  /\ IF Skips(far.shown, task.dirty)
       THEN /\ Skipped
            /\ Go("ended")
       ELSE /\ task' = [task EXCEPT !.at = "walk", !.answer = far.shown]
            /\ UNCHANGED probe
  /\ UNCHANGED <<controls, far, landed, asked, spent>>

\* calibrate: the answer is the baseline of the skips to come, or the probe is given up; an
\* empty collection, which no baseline is an answer of, proves nothing.
Calibrate(answer) ==
  \/ probe' = [probe EXCEPT !.state = "Armed", !.base = answer, !.skips = 0, !.pages = task'.page]
  \/ probe' = [probe EXCEPT !.state = "Disarmed", !.base = 0, !.skips = 0, !.pages = task'.page]
  \/ answer # probe.base /\ probe' = [probe EXCEPT !.pages = task'.page]

\* A page arrives.  The walk ends with the last, or with any if it was stopped.
WalkPage ==
  LET page == task.page + 1
      over == page = Pages \/ controls.stop
      calibrates == probe.state = "Unarmed" /\ probe.pages >= 2
  IN  /\ task.at = "walk"
      /\ task' = [task EXCEPT !.page = page, !.result = "walked",
                    !.version = IF page = 1 THEN far.version ELSE @,
                    !.at = IF ~over THEN "walk" ELSE IF calibrates THEN "calibrate" ELSE "ended"]
      /\ IF ~over \/ calibrates THEN UNCHANGED probe
         ELSE IF probe.state = "Armed" /\ probe.pages >= 2 THEN Calibrate(task.answer)
         ELSE probe' = [probe EXCEPT !.pages = page]
      /\ UNCHANGED <<controls, far, landed, asked, spent>>

\* The first probe of a table comes after the walk it calibrates.
ProbeLast ==
  /\ task.at = "calibrate"
  /\ Go("ended")
  /\ Calibrate(far.shown)
  /\ UNCHANGED <<controls, far, landed, asked, spent>>

\* A request of the cycle fails.  A 404 is asked again at once; a second one, and a
\* refused credential, end the task.
CycleFails ==
  /\ task.at \in {"probe", "walk", "calibrate"}
  /\ spent.fails < MaxFails
  /\ spent' = [spent EXCEPT !.fails = @ + 1]
  /\ \/ task' = [task EXCEPT !.at = "ended", !.result = "failed"]
     \/ Absent /\ ~task.second /\ Go("again")
     \/ Absent /\ task' = [task EXCEPT !.at = "ended", !.result = "refused"]
  /\ UNCHANGED <<controls, probe, far, landed, asked>>

\* Complete or Error is sent; a skipped cycle completes and lands nothing.
End ==
  /\ task.at = "ended"
  /\ landed' = IF task.result = "walked"
                 THEN [version |-> task.version, whole |-> task.page = Pages] ELSE landed
  /\ task' = [NewTask EXCEPT !.at = IF task.result = "refused" THEN "returned" ELSE "wait"]
  /\ UNCHANGED <<controls, probe, far, asked, spent>>

---------------------------------------------------------------------------
(* wait_for_cycle. *)

Paused == Pausable /\ controls.idle

Wait ==
  /\ task.at = "wait"
  /\ Go(IF controls.manual \/ controls.stop \/ Paused THEN "park" ELSE "sleep")
  /\ UNCHANGED <<controls, probe, far, landed, asked, spent>>

\* Mutant: a task committed to its interval does not look at the pause again.
SleptThrough == Go("begin")

\* The sleep is over.  Only the pause is looked at again.
Slept == Go(IF Paused THEN "wait" ELSE "begin")

TimerFires ==
  /\ task.at = "sleep"
  /\ Slept
  /\ UNCHANGED <<controls, probe, far, landed, asked, spent>>

\* A wake ends the wait if it is armed; one that is not starts the wait again.
Woken ==
  /\ task.at \in {"sleep", "park"} /\ controls.permit
  /\ controls' = [controls EXCEPT !.permit = FALSE, !.armed = FALSE]
  /\ Go(IF controls.armed THEN "begin" ELSE "wait")
  /\ asked' = (asked /\ ~controls.armed)
  /\ UNCHANGED <<probe, far, landed, spent>>

---------------------------------------------------------------------------
(* What the session calls. *)

\* Mutant: a wake nobody is waiting for is lost (notify_waiters).
RingWaiters(c) == [c EXCEPT !.armed = TRUE, !.permit = @ \/ task.at \in {"sleep", "park"}]

\* A cycle is armed and rung for; the permit is kept for a task that is not waiting.
Ring(c) == [c EXCEPT !.armed = TRUE, !.permit = TRUE]

Dirty == probe' = [probe EXCEPT !.dirty = TRUE]

Call(name) ==
  /\ name \in Calls /\ spent.calls < MaxCalls
  /\ spent' = [spent EXCEPT !.calls = @ + 1]

\* Scheduler::refresh wakes the task, or spawns it again if it has returned.
Refresh ==
  /\ Call("refresh")
  /\ Dirty
  /\ \/ /\ task.at = "returned"
        /\ task' = NewTask
        /\ controls' = [controls EXCEPT !.armed = TRUE, !.stop = FALSE]
        /\ UNCHANGED asked
     \/ /\ task.at # "returned"
        /\ controls' = [Ring(controls) EXCEPT !.stop = FALSE]
        /\ asked' = TRUE
        /\ UNCHANGED task
  /\ UNCHANGED <<far, landed>>

Stop ==
  /\ Call("stop") /\ task.at # "returned"
  /\ controls' = [controls EXCEPT !.stop = TRUE]
  /\ UNCHANGED <<probe, task, far, landed, asked>>

\* Scheduler::set_interval to none: no schedule, and a wake that is not armed.
Off ==
  /\ Call("off")
  /\ controls' = [controls EXCEPT !.manual = TRUE, !.stop = FALSE, !.permit = TRUE]
  /\ UNCHANGED <<probe, task, far, landed, asked>>

\* Scheduler::set_interval to a named interval.
Every ==
  /\ Call("every")
  /\ controls' = [Ring(controls) EXCEPT !.manual = FALSE, !.stop = FALSE]
  /\ Dirty
  /\ asked' = TRUE
  /\ UNCHANGED <<task, far, landed>>

Pause ==
  /\ Call("pause") /\ ~controls.idle
  /\ controls' = [controls EXCEPT !.idle = TRUE]
  /\ UNCHANGED <<probe, task, far, landed, asked>>

\* App::woke: the pause is lifted and refresh_all rings for all but the unscheduled.
Wake ==
  /\ Call("wake") /\ controls.idle
  /\ IF controls.manual
       THEN /\ controls' = [controls EXCEPT !.idle = FALSE]
            /\ UNCHANGED <<probe, asked>>
       ELSE /\ controls' = [Ring(controls) EXCEPT !.idle = FALSE]
            /\ Dirty
            /\ asked' = TRUE
  /\ UNCHANGED <<task, far, landed>>

\* The collection changes, in its newest row or where the probe does not look.
Change ==
  /\ spent.changes < MaxChanges
  /\ spent' = [spent EXCEPT !.changes = @ + 1]
  /\ \E shows \in BOOLEAN :
       far' = [version |-> far.version + 1,
               shown |-> IF shows THEN far.version + 1 ELSE far.shown]
  /\ UNCHANGED <<controls, probe, task, landed, asked>>

---------------------------------------------------------------------------

\* What the task does when it is left to itself.
Run == Begin \/ ProbeFirst \/ WalkPage \/ ProbeLast \/ End \/ Wait \/ TimerFires \/ Woken

Next ==
  \/ Begin \/ ProbeFirst \/ WalkPage \/ ProbeLast \/ CycleFails \/ End
  \/ Wait \/ TimerFires \/ Woken
  \/ Refresh \/ Stop \/ Off \/ Every \/ Pause \/ Wake
  \/ Change

\* A task that can go on does: requests are answered or fail, and sleeps end.  Of a sleep
\* and a wake that are both over either may be taken, but the wake not never.
Fairness == WF_vars(Run) /\ SF_vars(Woken)

Spec == Init /\ [][Next]_vars /\ Fairness

---------------------------------------------------------------------------
(* Properties. *)

\* Types; and the probe never spares more than MAX_SKIPS walks in a row, is calibrated on
\* what the far end has shown, and a task has returned only if its endpoint may be absent
\* (ProbeState, run).
TypeOK ==
  /\ controls \in [permit : BOOLEAN, armed : BOOLEAN, stop : BOOLEAN, manual : BOOLEAN,
                   idle : BOOLEAN]
  /\ probe \in [state : {"Unarmed", "Disarmed", "Armed"}, base : 0..far.shown,
                skips : 0..MAX_SKIPS, dirty : BOOLEAN, pages : 0..Pages]
  /\ task \in [at : Stages, dirty : BOOLEAN, second : BOOLEAN, page : 0..Pages,
               version : 0..far.version, answer : 0..far.shown,
               result : {"skipped", "walked", "failed", "refused"}]
  /\ far \in [version : Nat, shown : Nat]
  /\ landed \in [version : 0..far.version, whole : BOOLEAN]
  /\ asked \in BOOLEAN
  /\ spent \in [calls : 0..MaxCalls, fails : 0..MaxFails, changes : 0..MaxChanges]
  /\ task.at = "returned" => Absent

WaitEnds == task.at \in {"sleep", "park"} /\ task'.at = "begin"

\* A paused session begins no cycle nobody asked for: a task asleep when the pause is set
\* does not buy one more with its interval (Scheduler::set_idle, wait_for_cycle).  Without
\* a schedule there may be one: a refresh that spawned the task again left a wake armed,
\* and taking the schedule away rings it.
IdleIsQuiet == [][WaitEnds /\ Paused /\ ~controls.manual => asked]_vars

\* A cycle that was asked for begins, even if the task was in the middle of one when the
\* call came; unless the task has returned (Scheduler::refresh, set_interval, refresh_all).
AskedIsServed == asked ~> (~asked \/ task.at = "returned")

\* A table whose subscription is left to poll comes to show the whole of the collection as
\* it is, whatever the probe was told and whatever it cannot see (MAX_SKIPS).
CatchesUp ==
  <>[](~controls.stop /\ ~controls.manual /\ ~controls.idle /\ task.at # "returned") =>
    []<>(landed.version = far.version /\ landed.whole)

\* A subscription stopped by hand begins no cycle until it is refreshed or retimed ("pause
\* until Scheduler::refresh": Scheduler::stop).
StopHolds == [][WaitEnds => ~controls.stop]_vars

\* The probe spares a walk only if the newest row has not changed since the walk the table
\* shows ("whether a table changed since the last walk", probe.rs).
SkipsUnchanged == [][probe'.skips > probe.skips => far.shown <= landed.version]_vars
===========================================================================
