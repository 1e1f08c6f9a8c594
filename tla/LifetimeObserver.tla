-------------------------- MODULE LifetimeObserver --------------------------
(***************************************************************************)
(* execute_observer_plan of scripts/a1_lifetime_observer_core.py running   *)
(* over the exact-target backend (a1_exact_target_runtime_backend.py), the *)
(* selected-record resolver (a1_selected_record_runtime.py), the witness   *)
(* check (a1_observer_witness.py) and the two command drivers              *)
(* (a1_selection_command_driver.py, a1_replacement_command_driver.py).     *)
(*                                                                         *)
(* The environment is the game (its selected-planet global and the planet  *)
(* records it points at), the X server (a click lands whenever the game    *)
(* gets round to it, also after its helper is gone) and the helper         *)
(* processes the drivers launch.  The executor is sequential; everything   *)
(* interesting comes from the environment moving between its steps.        *)
(*                                                                         *)
(* pc: "validate" before validate_action_script; "step" at the head of the *)
(* loop over the script; "attempt" at the head of the retry loop; "select" *)
(* and "replace" inside communicate() with a helper running; "reap" inside *)
(* the communicate() that follows killpg; "pointer" and "record" before    *)
(* the two target reads; "done" and "rejected" when the function returned  *)
(* or raised.                                                              *)
(***************************************************************************)
EXTENDS ActionScript

CONSTANTS
  Pointers,          \* the values the selected-planet global takes
  Null,              \* the pointer 0
  Mapped,            \* the pointers whose record lies inside the mapping
  Contents,          \* the witness digests a record can have
  Populations,       \* the layouts of the planet records the game can build
  WitnessOf,         \* the digest the manifest binds to each label
  Scripts,           \* the candidate scripts: records [steps, bounds]
  HelpersMayDetach   \* whether a helper may leave a child in a session of its own

ASSUME PointerAssumption == Mapped \subseteq Pointers /\ Null \notin Pointers
ASSUME PopulationAssumption == Populations \subseteq [Mapped -> Contents]
ASSUME DetachAssumption  == HelpersMayDetach \in BOOLEAN
\* A label the manifest does not bind has a digest outside Contents.
ASSUME WitnessAssumption == WitnessOf \in [Labels -> Contents \cup {Absent}]

StepType == [id : StepIds, action : {"qualify", "replace"}, label : Labels \cup {Absent},
             phase : Phases \cup {Absent}, mechanism : Mechanisms \cup {Absent}]
BoundsType == [maxActions : Nat, maxAttempts : Nat, perStep : Nat, total : Nat]

ASSUME ScriptAssumption ==
  \A s \in Scripts : /\ s.steps \in Seq(StepType)
                     /\ s.bounds \in BoundsType

VARIABLES
  \* the executor
  script, pc, idx, attempt, clock, until, ptr, control, pending,
  replPending,   \* _replacement_pending of the backend
  \* the transcript
  steps, legs, status, error,
  \* the target, the X server and the helper process
  memory, selected, click, population, acted, detached,
  \* history: the population in which each transcript step was taken
  seen

core       == <<ptr, control, pending, replPending>>
transcript == <<steps, legs, status, error, seen>>
target     == <<memory, selected, click, population>>
helper     == <<acted, detached>>
timing     == <<attempt, clock, until>>
vars == <<script, pc, idx, core, transcript, target, helper, timing>>

Step == script.steps[idx]
Running == pc \notin {"validate", "done", "rejected"}
\* Bound on the clock: nothing in the executor tells later instants apart.
Horizon == script.bounds.total + script.bounds.perStep

-----------------------------------------------------------------------------
(* Data *)

Signals == {"none", "early", "late"}   \* changed_before_post_qualification: early is TRUE

PointType == [step : StepIds, logical_record : Labels, phase : Phases,
              record_pointer : Mapped, population_replacement : BOOLEAN,
              metadata_sha256 : Contents, attempt : Nat]
ReplacementType == [step : StepIds, mechanism : Mechanisms, lifecycle_signal : Signals]
LegType == [mechanism : Mechanisms, pre_step : StepIds, replace_step : StepIds,
            post_step : StepIds, pre_record_pointer : Mapped, post_record_pointer : Mapped,
            pre_logical_record : Labels, post_logical_record : Labels,
            pointer_reused : BOOLEAN, lifecycle_signal : Signals]
PendingType == [pre : PointType, action : ReplacementType \cup {Absent}]

\* Absent stands for None: it is no leg and no action.
ASSUME AbsentIsNoResult == Absent \notin PendingType \cup ReplacementType

Errors == {"none", "deadline", "exhausted", "driver", "read", "control", "leg",
           "replacement", "signal", "reuse"}
PCs == {"validate", "step", "attempt", "select", "replace", "reap", "pointer", "record",
        "done", "rejected"}

\* qualify_selected_record: the record carries the witness bound to the label.
Witnessed == memory[ptr] = WitnessOf[Step.label]

\* A fault: the selection is read again after the record.
PointFromSelection ==
  [step |-> Step.id, logical_record |-> Step.label, phase |-> Step.phase,
   record_pointer |-> IF selected \in Mapped THEN selected ELSE ptr,
   population_replacement |-> replPending, metadata_sha256 |-> memory[ptr], attempt |-> attempt]

\* The point _qualify returns for the record at ptr.
Point == [step |-> Step.id, logical_record |-> Step.label, phase |-> Step.phase,
          record_pointer |-> ptr, population_replacement |-> replPending,
          metadata_sha256 |-> memory[ptr], attempt |-> attempt]

\* The three selection-control points return to the first pointer and witness.
ControlReturns(c) ==
  /\ c[1].record_pointer # c[2].record_pointer
  /\ c[3].record_pointer = c[1].record_pointer
  /\ c[3].metadata_sha256 = c[1].metadata_sha256

ActionDone == pending # Absent /\ pending.action # Absent

\* A fault: any signal will do.
ReuseGuardedByAny(pre, action, post) ==
  pre.record_pointer = post.record_pointer => action.lifecycle_signal # "none"

\* A reused pointer needs a signal that changed before the post qualification.
ReuseGuarded(pre, action, post) ==
  pre.record_pointer = post.record_pointer => action.lifecycle_signal = "early"

Leg(pre, action, post) ==
  [mechanism |-> action.mechanism, pre_step |-> pre.step, replace_step |-> action.step,
   post_step |-> post.step, pre_record_pointer |-> pre.record_pointer,
   post_record_pointer |-> post.record_pointer, pre_logical_record |-> pre.logical_record,
   post_logical_record |-> post.logical_record,
   pointer_reused |-> pre.record_pointer = post.record_pointer,
   lifecycle_signal |-> action.lifecycle_signal]

\* A fault: the remaining total is not taken into account.
ExpiryPerStep == clock + script.bounds.perStep

\* Where a helper launched now is killed: _remaining added to the clock.
Expiry == IF clock + script.bounds.perStep <= script.bounds.total
          THEN clock + script.bounds.perStep ELSE script.bounds.total

-----------------------------------------------------------------------------
(* Control flow shared by the actions *)

\* An exception reaches the handler of execute_observer_plan.
Fail(e) == pc' = "done" /\ error' = e /\ UNCHANGED <<idx, attempt, status>>

Advance == pc' = "step" /\ idx' = idx + 1 /\ UNCHANGED <<attempt, status, error>>

\* A fault: a step whose attempts are exhausted is skipped.
RetryOrSkip ==
  IF attempt < script.bounds.maxAttempts
  THEN pc' = "attempt" /\ attempt' = attempt + 1 /\ UNCHANGED <<idx, status, error>>
  ELSE Advance

\* The handler of the retry loop: a retryable error ends one attempt.
RetryOrFail ==
  IF attempt < script.bounds.maxAttempts
  THEN pc' = "attempt" /\ attempt' = attempt + 1 /\ UNCHANGED <<idx, status, error>>
  ELSE Fail("exhausted")

Launch(where) ==
  /\ pc' = where
  /\ until' = Expiry
  /\ acted' = FALSE

Init ==
  /\ script \in Scripts
  /\ pc = "validate"
  /\ idx = 1 /\ attempt = 1
  /\ clock = 0 /\ until = 0
  /\ ptr = Null /\ control = <<>> /\ pending = Absent /\ replPending = FALSE
  /\ steps = <<>> /\ legs = <<>> /\ status = "incomplete-harness" /\ error = "none"
  /\ memory \in Populations
  /\ selected \in Pointers \cup {Null}
  /\ click = FALSE /\ population = 0
  /\ acted = FALSE /\ detached = FALSE
  /\ seen = <<>>

\* validate_action_script raises outside the handler: no transcript at all.
Validate ==
  /\ pc = "validate"
  /\ pc' = IF ValidScript(script.steps, script.bounds) THEN "step" ELSE "rejected"
  /\ UNCHANGED <<script, idx, core, transcript, target, helper, timing>>

\* The head of the loop for a qualify step: a deadline check, then _qualify.
BeginQualify ==
  /\ pc = "step" /\ idx <= Len(script.steps) /\ Step.action = "qualify"
  /\ IF clock >= script.bounds.total
     THEN Fail("deadline")
     ELSE pc' = "attempt" /\ attempt' = 1 /\ UNCHANGED <<idx, status, error>>
  /\ UNCHANGED <<script, core, steps, legs, seen, target, helper, clock, until>>

\* The head of the retry loop: the deadline is checked outside the handler,
\* so its expiry is not retried; then the selection helper is launched.
BeginAttempt ==
  /\ pc = "attempt"
  /\ IF clock >= script.bounds.total
     THEN Fail("deadline") /\ UNCHANGED <<until, acted>>
     ELSE Launch("select") /\ UNCHANGED <<idx, attempt, status, error>>
  /\ UNCHANGED <<script, core, steps, legs, seen, target, detached, clock>>

\* The head of the loop for a replace step: the deadline check, the check of
\* the pending leg, the check of the backend's own flag, then the launch.
BeginReplace ==
  /\ pc = "step" /\ idx <= Len(script.steps) /\ Step.action = "replace"
  /\ LET refusal == IF clock >= script.bounds.total THEN "deadline"
                    ELSE IF pending = Absent \/ ActionDone THEN "leg"
                    ELSE IF replPending THEN "replacement" ELSE "none"
     IN  IF refusal # "none"
         THEN Fail(refusal) /\ UNCHANGED <<until, acted>>
         ELSE Launch("replace") /\ UNCHANGED <<idx, attempt, status, error>>
  /\ UNCHANGED <<script, core, steps, legs, seen, target, detached, clock>>

-----------------------------------------------------------------------------
(* The helpers and the game *)

\* The selection helper queues its click and flushes; the click is now the X
\* server's and survives the helper.
HelperClicks ==
  /\ pc = "select" /\ ~acted
  /\ acted' = TRUE /\ click' = TRUE
  /\ UNCHANGED <<script, pc, idx, core, transcript, memory, selected, population,
                 detached, timing>>

\* The game handles a queued click: whatever row lies under it is selected.
ClickLands ==
  /\ click
  /\ click' = FALSE
  /\ selected' \in Pointers \cup {Null}
  /\ UNCHANGED <<script, pc, idx, core, transcript, memory, population, helper, timing>>

\* The replacement helper has the game build a new population, at most once
\* per launch; records move and the selection is whatever the game leaves.
HelperReplaces ==
  /\ pc = "replace" /\ ~acted
  /\ acted' = TRUE
  /\ population' = population + 1
  /\ memory' \in Populations
  /\ selected' \in Pointers \cup {Null}
  /\ UNCHANGED <<script, pc, idx, core, transcript, click, detached, timing>>

\* A child of the helper starts a session of its own and keeps the pipes open.
HelperDetaches ==
  /\ HelpersMayDetach
  /\ pc \in {"select", "replace"} /\ ~detached
  /\ detached' = TRUE
  /\ UNCHANGED <<script, pc, idx, core, transcript, target, acted, timing>>

OrphanExits ==
  /\ detached
  /\ detached' = FALSE
  /\ UNCHANGED <<script, pc, idx, core, transcript, target, acted, timing>>

\* Time passes; communicate() does not wait beyond its timeout.
Tick ==
  /\ Running /\ clock < Horizon
  /\ pc \in {"select", "replace"} => clock < until
  /\ clock' = clock + 1
  /\ UNCHANGED <<script, pc, idx, core, transcript, target, helper, attempt, until>>

-----------------------------------------------------------------------------
(* The drivers: communicate() returns only when the pipes are closed *)

\* action_completed is TRUE and names the label.
SelectionCompletes ==
  /\ pc = "select" /\ acted /\ ~detached
  /\ pc' = "pointer"
  /\ UNCHANGED <<script, idx, core, transcript, target, helper, timing>>

\* action_completed is FALSE: the backend raises its retryable error.
SelectionDeclines ==
  /\ pc = "select" /\ ~detached
  /\ RetryOrFail
  /\ UNCHANGED <<script, core, steps, legs, seen, target, helper, clock, until>>

\* A bad exit status or result: the driver's own error is not retryable.
HelperBreaks ==
  /\ pc \in {"select", "replace"} /\ ~detached
  /\ Fail("driver")
  /\ UNCHANGED <<script, core, steps, legs, seen, target, helper, clock, until>>

\* A fault: only the selection driver has a timeout.
SelectionTimesOut ==
  /\ pc = "select" /\ clock >= until
  /\ pc' = "reap"
  /\ UNCHANGED <<script, idx, core, transcript, target, helper, timing>>

\* TimeoutExpired: killpg, then communicate() without a timeout.
HelperTimesOut ==
  /\ pc \in {"select", "replace"} /\ clock >= until
  /\ pc' = "reap"
  /\ UNCHANGED <<script, idx, core, transcript, target, helper, timing>>

Reap ==
  /\ pc = "reap" /\ ~detached
  /\ Fail("driver")
  /\ UNCHANGED <<script, core, steps, legs, seen, target, helper, clock, until>>

\* A fault: a declined replacement is tried again.
ReplacementIsRetried ==
  /\ pc = "replace" /\ ~detached
  /\ pc' = "step"
  /\ UNCHANGED <<script, idx, core, transcript, target, helper, timing>>

\* completed is FALSE: the core refuses, nothing is retried.
ReplacementDeclines ==
  /\ pc = "replace" /\ ~detached
  /\ Fail("replacement")
  /\ UNCHANGED <<script, core, steps, legs, seen, target, helper, clock, until>>

\* A fault: the completed flag of the result is not looked at.
ReplacementAssumed ==
  /\ pc = "replace" /\ ~detached
  /\ replPending' = TRUE
  /\ \E signal \in Signals :
       LET action == [step |-> Step.id, mechanism |-> Step.mechanism, lifecycle_signal |-> signal]
       IN  /\ steps' = Append(steps, action)
           /\ seen' = Append(seen, population)
           /\ pending' = [pending EXCEPT !.action = action]
           /\ Advance
  /\ UNCHANGED <<script, ptr, control, legs, target, helper, clock, until>>

\* completed is TRUE: the backend sets its flag, then _signal parses the
\* lifecycle signal and the action joins the transcript and the pending leg.
ReplacementCompletes ==
  /\ pc = "replace" /\ acted /\ ~detached
  /\ replPending' = TRUE
  /\ \/ /\ Fail("signal")
        /\ UNCHANGED <<pending, steps, seen>>
     \/ \E signal \in Signals :
          LET action == [step |-> Step.id, mechanism |-> Step.mechanism,
                         lifecycle_signal |-> signal]
          IN  /\ steps' = Append(steps, action)
              /\ seen' = Append(seen, population)
              /\ pending' = [pending EXCEPT !.action = action]
              /\ Advance
  /\ UNCHANGED <<script, ptr, control, legs, target, helper, clock, until>>

-----------------------------------------------------------------------------
(* resolve_selected_record: two reads of a running game *)

\* A fault: the pointer is not compared with the mapping.
ReadPointerUnchecked ==
  /\ pc = "pointer"
  /\ IF selected # Null
     THEN ptr' = selected /\ pc' = "record" /\ UNCHANGED <<idx, attempt, status, error>>
     ELSE RetryOrFail /\ UNCHANGED ptr
  /\ UNCHANGED <<script, control, pending, replPending, steps, legs, seen, target, helper,
                 clock, until>>

\* A fault: the backend clears its flag before the record is qualified.
ReadPointerClearsFlag ==
  /\ pc = "pointer"
  /\ IF selected \in Mapped
     THEN /\ ptr' = selected /\ pc' = "record" /\ replPending' = FALSE
          /\ UNCHANGED <<idx, attempt, status, error>>
     ELSE RetryOrFail /\ UNCHANGED <<ptr, replPending>>
  /\ UNCHANGED <<script, control, pending, steps, legs, seen, target, helper, clock, until>>

\* The selected-planet global: a null pointer and one outside the mapping are
\* retryable.
ReadPointer ==
  /\ pc = "pointer"
  /\ IF selected \in Mapped
     THEN ptr' = selected /\ pc' = "record" /\ UNCHANGED <<idx, attempt, status, error>>
     ELSE RetryOrFail /\ UNCHANGED ptr
  /\ UNCHANGED <<script, control, pending, replPending, steps, legs, seen, target, helper,
                 clock, until>>

\* OSError or a short read of /proc/PID/mem: neither is a retryable error.
ReadBreaks ==
  /\ pc \in {"pointer", "record"}
  /\ Fail("read")
  /\ UNCHANGED <<script, core, steps, legs, seen, target, helper, clock, until>>

\* The record at the pointer does not carry the label's witness.
WitnessMismatch ==
  /\ pc = "record" /\ ~Witnessed
  /\ RetryOrFail
  /\ UNCHANGED <<script, core, steps, legs, seen, target, helper, clock, until>>

\* A fault: the backend never clears its flag.
QualifiedKeepingFlag(phase) ==
  /\ pc = "record" /\ Witnessed /\ Step.phase = phase
  /\ steps' = Append(steps, Point)
  /\ seen' = Append(seen, population)
  /\ UNCHANGED <<script, ptr, replPending, target, helper, clock, until>>

\* A fault: the point of a retry takes the place of the entry before it.
QualifiedOverLast(phase) ==
  /\ pc = "record" /\ Witnessed /\ Step.phase = phase
  /\ replPending' = FALSE
  /\ steps' = IF attempt > 1 /\ steps # <<>> THEN [steps EXCEPT ![Len(steps)] = Point]
              ELSE Append(steps, Point)
  /\ seen' = IF attempt > 1 /\ steps # <<>> THEN [seen EXCEPT ![Len(seen)] = population]
             ELSE Append(seen, population)
  /\ UNCHANGED <<script, ptr, target, helper, clock, until>>

\* The qualification succeeds: the backend clears its flag, the point joins
\* the transcript, and only then are the checks of the phase made.
Qualified(phase) ==
  /\ pc = "record" /\ Witnessed /\ Step.phase = phase
  /\ replPending' = FALSE
  /\ steps' = Append(steps, Point)
  /\ seen' = Append(seen, population)
  /\ UNCHANGED <<script, ptr, target, helper, clock, until>>

RecordControl ==
  /\ Qualified("selection-control")
  /\ IF Point.population_replacement
     THEN Fail("control") /\ UNCHANGED control
     ELSE /\ control' = Append(control, Point)
          /\ IF Len(control') = 3 /\ ~ControlReturns(control')
             THEN Fail("control") ELSE Advance
  /\ UNCHANGED <<pending, legs>>

RecordPre ==
  /\ Qualified("pre-replacement")
  /\ IF pending # Absent
     THEN Fail("leg") /\ UNCHANGED pending
     ELSE pending' = [pre |-> Point, action |-> Absent] /\ Advance
  /\ UNCHANGED <<control, legs>>

RecordPost ==
  /\ Qualified("post-replacement")
  /\ IF ~ActionDone
     THEN Fail("leg") /\ UNCHANGED <<pending, legs>>
     ELSE IF ~ReuseGuarded(pending.pre, pending.action, Point)
          THEN Fail("reuse") /\ UNCHANGED <<pending, legs>>
          ELSE /\ legs' = Append(legs, Leg(pending.pre, pending.action, Point))
               /\ pending' = Absent
               /\ Advance
  /\ UNCHANGED control

\* A fault: the deadline is checked once more when the plan is through.
FinishInTime ==
  /\ pc = "step" /\ idx > Len(script.steps)
  /\ IF pending # Absent \/ Len(legs) # 2 \/ clock >= script.bounds.total
     THEN Fail("leg")
     ELSE pc' = "done" /\ status' = "complete" /\ UNCHANGED <<idx, attempt, error>>
  /\ UNCHANGED <<script, core, steps, legs, seen, target, helper, clock, until>>

\* After the loop: no pending leg and both legs observed.
Finish ==
  /\ pc = "step" /\ idx > Len(script.steps)
  /\ IF pending # Absent \/ Len(legs) # 2
     THEN Fail("leg")
     ELSE pc' = "done" /\ status' = "complete" /\ UNCHANGED <<idx, attempt, error>>
  /\ UNCHANGED <<script, core, steps, legs, seen, target, helper, clock, until>>

Returned == pc \in {"done", "rejected"} /\ UNCHANGED vars

Executor ==
  \/ Validate \/ BeginQualify \/ BeginAttempt \/ BeginReplace
  \/ HelperTimesOut \/ Reap
  \/ ReadPointer \/ ReadBreaks \/ WitnessMismatch
  \/ RecordControl \/ RecordPre \/ RecordPost \/ Finish

Environment ==
  \/ HelperClicks \/ ClickLands \/ HelperReplaces \/ HelperDetaches \/ OrphanExits
  \/ SelectionCompletes \/ SelectionDeclines \/ HelperBreaks
  \/ ReplacementDeclines \/ ReplacementCompletes

Next == Executor \/ Environment \/ Tick \/ Returned

Spec == Init /\ [][Next]_vars

\* The interpreter runs the executor and time passes; no helper is assumed to
\* exit, to act or to answer.
FairSpec == Spec /\ WF_vars(Executor) /\ WF_vars(Tick)

-----------------------------------------------------------------------------
(* Properties *)

\* The variables take values of these sets.
TypeOK ==
  /\ script \in Scripts /\ pc \in PCs
  /\ idx \in Nat \ {0} /\ attempt \in Nat \ {0} /\ clock \in Nat /\ until \in Nat
  /\ ptr \in Mapped \cup {Null} /\ control \in Seq(PointType)
  /\ pending \in PendingType \cup {Absent} /\ replPending \in BOOLEAN
  /\ steps \in Seq(PointType \cup ReplacementType) /\ legs \in Seq(LegType)
  /\ status \in {"incomplete-harness", "complete"} /\ error \in Errors
  /\ memory \in [Mapped -> Contents] /\ selected \in Pointers \cup {Null}
  /\ click \in BOOLEAN /\ population \in Nat
  /\ acted \in BOOLEAN /\ detached \in BOOLEAN
  /\ seen \in Seq(Nat)

IsReplace(i) == script.steps[i].action = "replace"
IsPost(i)    == script.steps[i].phase = "post-replacement"

(***************************************************************************)
(* Whatever was retried, declined or killed on the way, the transcript is  *)
(* the script's steps in order without a gap or a repetition, and each leg *)
(* joins its own pre, replace and post; "complete" means all of it is      *)
(* there (execute_observer_plan).                                          *)
(***************************************************************************)
TranscriptFollowsPlan ==
  /\ Len(steps) <= Len(script.steps)
  /\ \A i \in 1..Len(steps) :
       /\ steps[i].step = script.steps[i].id
       /\ IF IsReplace(i)
          THEN steps[i].mechanism = script.steps[i].mechanism
          ELSE /\ steps[i].logical_record = script.steps[i].label
               /\ steps[i].phase = script.steps[i].phase
  /\ \A k \in 1..Len(legs) :
       /\ legs[k].pre_step = steps[3*k + 1].step
       /\ legs[k].replace_step = steps[3*k + 2].step
       /\ legs[k].post_step = steps[3*k + 3].step
       /\ legs[k].pre_record_pointer = steps[3*k + 1].record_pointer
       /\ legs[k].lifecycle_signal = steps[3*k + 2].lifecycle_signal
       /\ legs[k].post_record_pointer = steps[3*k + 3].record_pointer
  /\ status = "complete" => Len(steps) = Len(script.steps) /\ Len(legs) = 2

(***************************************************************************)
(* The backend's _replacement_pending and the executor's                   *)
(* pending_replacement, two records of one fact kept in two objects, agree *)
(* through every retry: the flag is up exactly while a replacement waits   *)
(* for its post qualification.                                             *)
(***************************************************************************)
PendingFlagAgrees == Running => (replPending <=> ActionDone)

(***************************************************************************)
(* population_replacement is TRUE in the post-replacement points and only  *)
(* there, whichever attempt succeeded: a retry neither loses the report    *)
(* nor repeats it (qualify of the backend).                                *)
(***************************************************************************)
ReplacementIsReportedOnce ==
  \A i \in 1..Len(steps) :
    ~IsReplace(i) => (steps[i].population_replacement <=> IsPost(i))

(***************************************************************************)
(* A point of the transcript taken in the population now in memory is      *)
(* still true of it: the record at its pointer carries the witness of its  *)
(* label, though the selection may have moved between the two reads and a  *)
(* click may land late (resolve_selected_record).                          *)
(***************************************************************************)
PointsStillHold ==
  \A i \in 1..Len(steps) :
    ~IsReplace(i) /\ seen[i] = population
      => /\ memory[steps[i].record_pointer] = WitnessOf[steps[i].logical_record]
         /\ steps[i].metadata_sha256 = WitnessOf[steps[i].logical_record]

(***************************************************************************)
(* The control is observed in one population, and the two points of a leg  *)
(* in two successive ones, so that a complete transcript has witnessed     *)
(* exactly two replacements.                                               *)
(***************************************************************************)
LegsSeparatePopulations ==
  /\ \A i \in 1..Len(steps) : i <= 3 => seen[i] = 0
  /\ \A k \in 1..Len(legs) : seen[3*k + 1] = k - 1 /\ seen[3*k + 3] = k
  /\ status = "complete" => population = 2

(***************************************************************************)
(* Whatever was retried, declined or killed, whatever click landed late,   *)
(* the transcript is the plan's steps in order, each point is still true   *)
(* of the population it was taken in, the two points of a leg lie in       *)
(* successive populations, and a replacement is reported by its own post   *)
(* point and no other (execute_observer_plan, qualify).                    *)
(***************************************************************************)
TranscriptIsTruthful ==
  /\ TranscriptFollowsPlan
  /\ PointsStillHold
  /\ LegsSeparatePopulations
  /\ ReplacementIsReportedOnce

(***************************************************************************)
(* No replacement is ever tried twice: however its helper ended, the game  *)
(* has replaced its population at most once per replace step reached       *)
(* (replacement errors are not retried).                                   *)
(***************************************************************************)
ReplacementsAreNotRepeated ==
  population <= (IF idx >= 5 THEN 1 ELSE 0) + (IF idx >= 8 THEN 1 ELSE 0)

(***************************************************************************)
(* No helper is left running after the total deadline, whatever was spent  *)
(* by retries and by earlier steps (_remaining).                           *)
(***************************************************************************)
HelperInsideDeadline ==
  pc \in {"select", "replace"} => clock <= script.bounds.total

(***************************************************************************)
(* The transcript is only ever extended, one step at a time, and what a    *)
(* caller was given does not change afterwards.                            *)
(***************************************************************************)
TranscriptIsAppendOnly ==
  [][/\ \/ steps' = steps
        \/ Len(steps') = Len(steps) + 1 /\ SubSeq(steps', 1, Len(steps)) = steps
     /\ \/ legs' = legs
        \/ Len(legs') = Len(legs) + 1 /\ SubSeq(legs', 1, Len(legs)) = legs
     /\ pc = "done" => UNCHANGED <<transcript, pc>>]_vars

(***************************************************************************)
(* execute_observer_plan returns or raises, though helpers may hang and    *)
(* every attempt may fail, once no child of a helper that left its process *)
(* group holds the pipes any more.                                         *)
(***************************************************************************)
Terminates == <>[]~detached => <>(pc \in {"done", "rejected"})

(***************************************************************************)
(* The observer contract's "bounded per-step wait" and "bounded total      *)
(* runtime": the executor returns whatever its helpers leave behind.       *)
(***************************************************************************)
BoundedRuntime == <>(pc \in {"done", "rejected"})

(***************************************************************************)
(* "A read that is short, unmapped, multiply resolved, or fails the        *)
(* witness check terminates the run as `incomplete-harness`" (the observer *)
(* contract).  The code retries an unmapped pointer and a failed witness.  *)
(***************************************************************************)
FailedReadTerminates ==
  [][/\ pc = "pointer" /\ selected \notin Mapped /\ pc' # pc => pc' = "done"
     /\ pc = "record" /\ ~Witnessed /\ pc' # pc => pc' = "done"]_vars

-----------------------------------------------------------------------------
(* Refinement *)

Verdict == CASE pc = "validate" -> "planned"
             [] pc = "rejected" -> "refused"
             [] pc = "done"     -> status
             [] OTHER           -> "running"

Run == INSTANCE PlanRun WITH verdict <- Verdict, recorded <- Len(steps), replaced <- population

(***************************************************************************)
(* The executor with its retries, flags, deadlines and helpers does what   *)
(* PlanRun promises.                                                       *)
(***************************************************************************)
ImplementsPlanRun == Run!RunSpec
=============================================================================
