----------------------- MODULE LifetimeObserverProofs -----------------------
(***************************************************************************)
(* TLAPS proofs about LifetimeObserver: types, the flag kept in two        *)
(* places, the deadline; that it implements PlanRun; that every entry of   *)
(* the transcript it leaves is what the plan, the target and the           *)
(* population it was taken in made it, and is never changed.  Then about   *)
(* LifetimePipeline: the adapter accepts every such transcript and the     *)
(* record it derives claims no more than the transcript shows.             *)
(***************************************************************************)
EXTENDS LifetimePipeline, TLAPS

\* A validated script has a step of the right kind wherever pc says so.
StepInRange == idx <= Len(script.steps)
Qualifying  == pc \in {"attempt", "select", "pointer", "record"}

ScriptIsValid == Running \/ pc = "done" => ValidScript(script.steps, script.bounds)
AtStep ==
  /\ Qualifying => StepInRange /\ Step.action = "qualify"
  /\ pc = "replace" => StepInRange /\ Step.action = "replace"
PointerIsRead == pc = "record" => ptr \in Mapped
\* The replacement helper runs only for a leg that has its pre point.
ReplacingALeg == pc = "replace" => pending \in PendingType /\ ~ActionDone /\ ~replPending
\* The kill time of a helper lies inside the total bound and ahead of the clock.
KillTime ==
  pc \in {"select", "replace"} => clock <= until /\ until <= script.bounds.total

\* Nothing is pending before the run.
NothingPending == pc = "validate" => pending = Absent /\ ~replPending

\* The inductive invariant of the executor's control.
ControlInv ==
  /\ TypeOK
  /\ ScriptIsValid
  /\ AtStep
  /\ PointerIsRead
  /\ ReplacingALeg
  /\ KillTime
  /\ NothingPending
  /\ PendingFlagAgrees

-----------------------------------------------------------------------------
\* The step the executor is at is one of the steps the validator admitted.
LEMMA StepIsWellFormed ==
  ASSUME TypeOK, ValidScript(script.steps, script.bounds), StepInRange
  PROVE  Step \in StepType /\ WellFormedStep(Step) /\ Step.id \in StepIds
<1>1. script.steps \in Seq(StepType)
  BY ScriptAssumption DEF TypeOK
<1>2. idx \in 1..Len(script.steps)
  BY <1>1 DEF TypeOK, StepInRange
<1>3. Step \in StepType
  BY <1>1, <1>2 DEF Step
<1>4. WellFormedStep(Step)
  BY <1>2 DEF ValidScript, Step
<1> QED
  BY <1>3, <1>4 DEF StepType

\* The bounds of a candidate script are natural numbers.
LEMMA BoundsAreNaturals ==
  ASSUME TypeOK
  PROVE  /\ script.bounds.total \in Nat /\ script.bounds.perStep \in Nat
         /\ script.bounds.maxAttempts \in Nat /\ Horizon \in Nat
  BY ScriptAssumption DEF TypeOK, BoundsType, Horizon

\* What _qualify returns at a record read is a point.
LEMMA PointIsTyped ==
  ASSUME ControlInv, pc = "record"
  PROVE  Point \in PointType
<1>1. ValidScript(script.steps, script.bounds) /\ StepInRange /\ Step.action = "qualify"
  BY DEF ControlInv, ScriptIsValid, Running, AtStep, Qualifying
<1>2. WellFormedStep(Step) /\ Step.id \in StepIds
  BY <1>1, StepIsWellFormed DEF ControlInv
<1>3. Step.label \in Labels /\ Step.phase \in Phases
  BY <1>1, <1>2 DEF WellFormedStep
<1>4. ptr \in Mapped /\ memory[ptr] \in Contents /\ attempt \in Nat /\ replPending \in BOOLEAN
  BY DEF ControlInv, TypeOK, PointerIsRead
<1> QED
  BY <1>2, <1>3, <1>4 DEF Point, PointType

\* The expiry of a helper launched before the deadline does not exceed it.
LEMMA ExpiryIsInside ==
  ASSUME TypeOK, clock < script.bounds.total
  PROVE  clock <= Expiry /\ Expiry <= script.bounds.total
  BY BoundsAreNaturals DEF Expiry, TypeOK

\* The instant at which a helper is given up is a natural number.
LEMMA ExpiryIsNatural ==
  ASSUME TypeOK
  PROVE  Expiry \in Nat
  BY BoundsAreNaturals DEF Expiry, TypeOK

\* Appending an element of S to a sequence over S gives a sequence over S.
LEMMA AppendIsTyped ==
  ASSUME NEW S, NEW s \in Seq(S), NEW e \in S
  PROVE  Append(s, e) \in Seq(S)
OBVIOUS

\* What the driver returns for a completed replacement is a replacement entry.
LEMMA ReplacementIsTyped ==
  ASSUME ControlInv, pc = "replace", NEW signal \in Signals
  PROVE  [step |-> Step.id, mechanism |-> Step.mechanism, lifecycle_signal |-> signal]
           \in ReplacementType
<1>1. ValidScript(script.steps, script.bounds) /\ StepInRange /\ Step.action = "replace"
  BY DEF ControlInv, ScriptIsValid, Running, AtStep
<1>2. WellFormedStep(Step) /\ Step.id \in StepIds
  BY <1>1, StepIsWellFormed DEF ControlInv
<1>3. Step.mechanism \in Mechanisms
  BY <1>1, <1>2 DEF WellFormedStep
<1> QED
  BY <1>2, <1>3 DEF ReplacementType

\* The leg that joins a pending pre point and action to a post point is typed.
LEMMA LegIsTyped ==
  ASSUME ControlInv, pc = "record", ActionDone
  PROVE  Leg(pending.pre, pending.action, Point) \in LegType
<1>1. pending \in PendingType /\ pending.action \in ReplacementType
  BY DEF ControlInv, TypeOK, ActionDone, PendingType
<1>2. pending.pre \in PointType /\ Point \in PointType
  BY <1>1, PointIsTyped DEF PendingType
<1> QED
  BY <1>1, <1>2 DEF Leg, LegType, PointType, ReplacementType

-----------------------------------------------------------------------------
\* Every step keeps the variables in their types.
LEMMA TypeStep ==
  ASSUME ControlInv, [Next]_vars
  PROVE  TypeOK'
<1> USE DEF ControlInv, TypeOK, vars, core, transcript, target, helper, timing, PCs, Errors
<1>1. CASE Validate \/ HelperTimesOut \/ SelectionCompletes
  BY <1>1 DEF Validate, HelperTimesOut, SelectionCompletes
<1>2. CASE Reap \/ ReadBreaks \/ HelperBreaks \/ ReplacementDeclines \/ SelectionDeclines \/ WitnessMismatch
  BY <1>2 DEF Reap, Fail, ReadBreaks, HelperBreaks, ReplacementDeclines, SelectionDeclines,
    RetryOrFail, WitnessMismatch
<1>3. CASE HelperClicks \/ HelperDetaches
  BY <1>3 DEF HelperClicks, HelperDetaches
<1>4. CASE ClickLands
  <2> USE <1>4 DEF ClickLands
  <2>1. click' \in BOOLEAN /\ selected' \in Pointers \cup {Null}
    OBVIOUS
  <2>2. UNCHANGED <<script, pc, idx, core, transcript, memory, population, helper, timing>>
    OBVIOUS
  <2> QED
    BY <2>1, <2>2
<1>5. CASE HelperReplaces
  <2> USE <1>5 DEF HelperReplaces
  <2>1. /\ acted' \in BOOLEAN /\ population' \in Nat
        /\ memory' \in [Mapped -> Contents] /\ selected' \in Pointers \cup {Null}
    BY PopulationAssumption
  <2>2. UNCHANGED <<script, pc, idx, core, transcript, click, detached, timing>>
    OBVIOUS
  <2> QED
    BY <2>1, <2>2
<1>6. CASE OrphanExits
  <2> USE <1>6 DEF OrphanExits
  <2>1. detached' \in BOOLEAN
    OBVIOUS
  <2>2. UNCHANGED <<script, pc, idx, core, transcript, target, acted, timing>>
    OBVIOUS
  <2> QED
    BY <2>1, <2>2
<1>7. CASE Finish \/ BeginQualify \/ ReadPointer
  BY <1>7 DEF Finish, Fail, BeginQualify, ReadPointer, RetryOrFail
<1>8. CASE RecordControl
  <2> USE <1>8 DEF RecordControl, Qualified, Fail, Advance
  <2>1. Point \in PointType
    BY PointIsTyped
  <2>2. /\ replPending' \in BOOLEAN
        /\ steps' \in Seq(PointType \cup ReplacementType) /\ seen' \in Seq(Nat)
    <3>1. steps' = Append(steps, Point) /\ seen' = Append(seen, population) /\ replPending' = FALSE
      OBVIOUS
    <3>2. Point \in PointType \cup ReplacementType /\ population \in Nat
      BY <2>1
    <3>3. replPending' \in BOOLEAN
      BY <3>1
    <3> QED
      BY <3>1, <3>2, <3>3, AppendIsTyped
  <2>3. control' \in Seq(PointType)
    <3>1. control' = control \/ control' = Append(control, Point)
      OBVIOUS
    <3> QED
      BY <2>1, <3>1, AppendIsTyped
  <2>4. pc' \in PCs /\ error' \in Errors /\ idx' \in Nat \ {0} /\ UNCHANGED <<attempt, status>>
    OBVIOUS
  <2>5. UNCHANGED <<script, ptr, pending, legs, target, helper, clock, until>>
    OBVIOUS
  <2> QED
    BY <2>2, <2>3, <2>4, <2>5
<1>9. CASE RecordPre
  <2> USE <1>9 DEF RecordPre, Qualified, Fail, Advance
  <2>1. Point \in PointType
    BY PointIsTyped
  <2>2. /\ replPending' \in BOOLEAN
        /\ steps' \in Seq(PointType \cup ReplacementType) /\ seen' \in Seq(Nat)
    <3>1. steps' = Append(steps, Point) /\ seen' = Append(seen, population) /\ replPending' = FALSE
      OBVIOUS
    <3>2. Point \in PointType \cup ReplacementType /\ population \in Nat
      BY <2>1
    <3>3. replPending' \in BOOLEAN
      BY <3>1
    <3> QED
      BY <3>1, <3>2, <3>3, AppendIsTyped
  <2>3. pending' \in PendingType \cup {Absent}
    BY <2>1 DEF PendingType
  <2>4. pc' \in PCs /\ error' \in Errors /\ idx' \in Nat \ {0} /\ UNCHANGED <<attempt, status>>
    OBVIOUS
  <2>5. UNCHANGED <<script, ptr, control, legs, target, helper, clock, until>>
    OBVIOUS
  <2> QED
    BY <2>2, <2>3, <2>4, <2>5
<1>10. CASE RecordPost
  <2> USE <1>10 DEF RecordPost, Qualified, Fail, Advance
  <2>1. Point \in PointType
    BY PointIsTyped
  <2>2. /\ replPending' \in BOOLEAN
        /\ steps' \in Seq(PointType \cup ReplacementType) /\ seen' \in Seq(Nat)
    <3>1. steps' = Append(steps, Point) /\ seen' = Append(seen, population) /\ replPending' = FALSE
      OBVIOUS
    <3>2. Point \in PointType \cup ReplacementType /\ population \in Nat
      BY <2>1
    <3>3. replPending' \in BOOLEAN
      BY <3>1
    <3> QED
      BY <3>1, <3>2, <3>3, AppendIsTyped
  <2>3. legs' \in Seq(LegType) /\ pending' \in PendingType \cup {Absent}
    <3>1. CASE UNCHANGED <<pending, legs>>
      BY <3>1
    <3>2. CASE /\ ActionDone /\ pending' = Absent
               /\ legs' = Append(legs, Leg(pending.pre, pending.action, Point))
      BY <3>2, LegIsTyped, AppendIsTyped
    <3> QED
      BY <3>1, <3>2
  <2>4. pc' \in PCs /\ error' \in Errors /\ idx' \in Nat \ {0} /\ UNCHANGED <<attempt, status>>
    OBVIOUS
  <2>5. UNCHANGED <<script, ptr, control, target, helper, clock, until>>
    OBVIOUS
  <2> QED
    BY <2>2, <2>3, <2>4, <2>5
<1>11. CASE BeginAttempt
  <2> USE <1>11 DEF BeginAttempt, Fail, Launch
  <2>1. until' = until \/ until' = Expiry
    OBVIOUS
  <2>2. until' \in Nat
    BY <2>1, ExpiryIsNatural
  <2>3. acted' \in BOOLEAN
    OBVIOUS
  <2>4. UNCHANGED <<script, control, pending, replPending, ptr, steps, legs, seen, target, detached, clock>>
    OBVIOUS
  <2>5. pc' \in PCs /\ error' \in Errors /\ UNCHANGED <<idx, attempt, status>>
    OBVIOUS
  <2> QED
    BY <2>2, <2>3, <2>4, <2>5
<1>12. CASE BeginReplace
  <2> USE <1>12 DEF BeginReplace, Fail, Launch
  <2>1. until' = until \/ until' = Expiry
    OBVIOUS
  <2>2. until' \in Nat
    BY <2>1, ExpiryIsNatural
  <2>3. acted' \in BOOLEAN
    OBVIOUS
  <2>4. UNCHANGED <<script, control, pending, replPending, ptr, steps, legs, seen, target, detached, clock>>
    OBVIOUS
  <2>5. pc' \in PCs /\ error' \in Errors /\ UNCHANGED <<idx, attempt, status>>
    OBVIOUS
  <2> QED
    BY <2>2, <2>3, <2>4, <2>5
<1>13. CASE ReplacementCompletes
  <2> USE <1>13 DEF ReplacementCompletes
  <2>1. ASSUME NEW signal \in Signals
        PROVE  [step |-> Step.id, mechanism |-> Step.mechanism, lifecycle_signal |-> signal]
                 \in ReplacementType
    BY ReplacementIsTyped
  <2>2. pending \in PendingType
    BY DEF ReplacingALeg
  <2>3. /\ pending' \in PendingType \cup {Absent}
        /\ steps' \in Seq(PointType \cup ReplacementType) /\ seen' \in Seq(Nat)
    <3>1. CASE UNCHANGED <<pending, steps, seen>>
      BY <3>1
    <3>2. ASSUME NEW signal \in Signals, NEW action,
                 action = [step |-> Step.id, mechanism |-> Step.mechanism,
                           lifecycle_signal |-> signal],
                 steps' = Append(steps, action), seen' = Append(seen, population),
                 pending' = [pending EXCEPT !.action = action]
          PROVE  /\ pending' \in PendingType \cup {Absent}
                 /\ steps' \in Seq(PointType \cup ReplacementType) /\ seen' \in Seq(Nat)
      <4>1. action \in ReplacementType
        BY <2>1, <3>2
      <4>2. pending' \in PendingType
        BY <2>2, <3>2, <4>1 DEF PendingType
      <4> QED
        BY <3>2, <4>1, <4>2, AppendIsTyped
    <3> QED
      BY <3>1, <3>2
  <2>4. pc' \in PCs /\ error' \in Errors /\ idx' \in Nat \ {0} /\ UNCHANGED <<attempt, status>>
    <3>1. Fail("signal") \/ Advance
      OBVIOUS
    <3> QED
      BY <3>1 DEF Fail, Advance
  <2>5. replPending' \in BOOLEAN /\ UNCHANGED <<script, ptr, control, legs, target, helper, clock, until>>
    OBVIOUS
  <2> QED
    BY <2>3, <2>4, <2>5
<1>14. CASE Tick
  BY <1>14 DEF Tick
<1>15. CASE Returned \/ UNCHANGED vars
  BY <1>15 DEF Returned
<1> QED
  BY <1>1, <1>2, <1>3, <1>4, <1>5, <1>6, <1>7, <1>8, <1>9, <1>10, <1>11, <1>12, <1>13, <1>14, <1>15
     DEF Next, Executor, Environment

\* The script never changes and is run only once validated.
LEMMA ScriptStep ==
  ASSUME ControlInv, [Next]_vars
  PROVE  ScriptIsValid'
<1> USE DEF ControlInv, ScriptIsValid, vars, core, transcript, target, helper, timing, Running
<1>1. CASE Validate \/ HelperTimesOut \/ SelectionCompletes
  BY <1>1 DEF Validate, HelperTimesOut, SelectionCompletes
<1>2. CASE Reap \/ ReadBreaks \/ HelperBreaks \/ ReplacementDeclines \/ SelectionDeclines \/ WitnessMismatch
  BY <1>2 DEF Reap, Fail, ReadBreaks, HelperBreaks, ReplacementDeclines, SelectionDeclines,
    RetryOrFail, WitnessMismatch
<1>3. CASE HelperClicks \/ ClickLands \/ HelperReplaces \/ HelperDetaches \/ OrphanExits
  BY <1>3 DEF HelperClicks, ClickLands, HelperReplaces, HelperDetaches, OrphanExits
<1>4. CASE Finish \/ BeginQualify \/ ReadPointer
  BY <1>4 DEF Finish, Fail, BeginQualify, ReadPointer, RetryOrFail
<1>5. CASE RecordControl \/ RecordPre \/ RecordPost
  BY <1>5 DEF RecordControl, Qualified, Fail, Advance, RecordPre, RecordPost
<1>6. CASE BeginAttempt \/ BeginReplace
  BY <1>6 DEF BeginAttempt, Fail, Launch, BeginReplace
<1>7. CASE ReplacementCompletes
  BY <1>7 DEF ReplacementCompletes, Fail, Advance
<1>8. CASE Tick
  BY <1>8 DEF Tick
<1>9. CASE Returned \/ UNCHANGED vars
  BY <1>9 DEF Returned
<1> QED
  BY <1>1, <1>2, <1>3, <1>4, <1>5, <1>6, <1>7, <1>8, <1>9
     DEF Next, Executor, Environment

\* pc moves to the retry loop or to a helper only at a step of its kind.
LEMMA AtStepStep ==
  ASSUME ControlInv, [Next]_vars
  PROVE  AtStep'
<1> USE DEF ControlInv, AtStep, vars, core, transcript, target, helper, timing, Qualifying, StepInRange, Step
<1>1. CASE Validate \/ HelperTimesOut \/ SelectionCompletes
  BY <1>1 DEF Validate, HelperTimesOut, SelectionCompletes
<1>2. CASE Reap \/ ReadBreaks \/ HelperBreaks \/ ReplacementDeclines \/ SelectionDeclines \/ WitnessMismatch
  BY <1>2 DEF Reap, Fail, ReadBreaks, HelperBreaks, ReplacementDeclines, SelectionDeclines,
    RetryOrFail, WitnessMismatch
<1>3. CASE HelperClicks \/ ClickLands \/ HelperReplaces \/ HelperDetaches \/ OrphanExits
  BY <1>3 DEF HelperClicks, ClickLands, HelperReplaces, HelperDetaches, OrphanExits
<1>4. CASE Finish \/ BeginQualify \/ ReadPointer
  BY <1>4 DEF Finish, Fail, BeginQualify, ReadPointer, RetryOrFail
<1>5. CASE RecordControl \/ RecordPre \/ RecordPost
  BY <1>5 DEF RecordControl, Qualified, Fail, Advance, RecordPre, RecordPost
<1>6. CASE BeginAttempt \/ BeginReplace
  BY <1>6 DEF BeginAttempt, Fail, Launch, BeginReplace
<1>7. CASE ReplacementCompletes
  BY <1>7 DEF ReplacementCompletes, Fail, Advance
<1>8. CASE Tick
  BY <1>8 DEF Tick
<1>9. CASE Returned \/ UNCHANGED vars
  BY <1>9 DEF Returned
<1> QED
  BY <1>1, <1>2, <1>3, <1>4, <1>5, <1>6, <1>7, <1>8, <1>9
     DEF Next, Executor, Environment

\* The record is read only behind a pointer into the mapping.
LEMMA PointerStep ==
  ASSUME ControlInv, [Next]_vars
  PROVE  PointerIsRead'
<1> USE DEF ControlInv, PointerIsRead, vars, core, transcript, target, helper, timing
<1>1. CASE Validate \/ HelperTimesOut \/ SelectionCompletes
  BY <1>1 DEF Validate, HelperTimesOut, SelectionCompletes
<1>2. CASE Reap \/ ReadBreaks \/ HelperBreaks \/ ReplacementDeclines \/ SelectionDeclines \/ WitnessMismatch
  BY <1>2 DEF Reap, Fail, ReadBreaks, HelperBreaks, ReplacementDeclines, SelectionDeclines,
    RetryOrFail, WitnessMismatch
<1>3. CASE HelperClicks \/ ClickLands \/ HelperReplaces \/ HelperDetaches \/ OrphanExits
  BY <1>3 DEF HelperClicks, ClickLands, HelperReplaces, HelperDetaches, OrphanExits
<1>4. CASE Finish \/ BeginQualify \/ ReadPointer
  BY <1>4 DEF Finish, Fail, BeginQualify, ReadPointer, RetryOrFail
<1>5. CASE RecordControl \/ RecordPre \/ RecordPost
  BY <1>5 DEF RecordControl, Qualified, Fail, Advance, RecordPre, RecordPost
<1>6. CASE BeginAttempt \/ BeginReplace
  BY <1>6 DEF BeginAttempt, Fail, Launch, BeginReplace
<1>7. CASE ReplacementCompletes
  BY <1>7 DEF ReplacementCompletes, Fail, Advance
<1>8. CASE Tick
  BY <1>8 DEF Tick
<1>9. CASE Returned \/ UNCHANGED vars
  BY <1>9 DEF Returned
<1> QED
  BY <1>1, <1>2, <1>3, <1>4, <1>5, <1>6, <1>7, <1>8, <1>9
     DEF Next, Executor, Environment

\* A replacement helper is launched only for a pending pre point.
LEMMA ReplacingStep ==
  ASSUME ControlInv, [Next]_vars
  PROVE  ReplacingALeg'
<1> USE DEF ControlInv, ReplacingALeg, vars, core, transcript, target, helper, timing, ActionDone, TypeOK
<1>1. CASE Validate \/ HelperTimesOut \/ SelectionCompletes
  BY <1>1 DEF Validate, HelperTimesOut, SelectionCompletes
<1>2. CASE Reap \/ ReadBreaks \/ HelperBreaks \/ ReplacementDeclines \/ SelectionDeclines \/ WitnessMismatch
  BY <1>2 DEF Reap, Fail, ReadBreaks, HelperBreaks, ReplacementDeclines, SelectionDeclines,
    RetryOrFail, WitnessMismatch
<1>3. CASE HelperClicks \/ ClickLands \/ HelperReplaces \/ HelperDetaches \/ OrphanExits
  BY <1>3 DEF HelperClicks, ClickLands, HelperReplaces, HelperDetaches, OrphanExits
<1>4. CASE Finish \/ BeginQualify \/ ReadPointer
  BY <1>4 DEF Finish, Fail, BeginQualify, ReadPointer, RetryOrFail
<1>5. CASE RecordControl \/ RecordPre \/ RecordPost
  BY <1>5 DEF RecordControl, Qualified, Fail, Advance, RecordPre, RecordPost
<1>6. CASE BeginAttempt \/ BeginReplace
  BY <1>6 DEF BeginAttempt, Fail, Launch, BeginReplace
<1>7. CASE ReplacementCompletes
  BY <1>7 DEF ReplacementCompletes, Fail, Advance
<1>8. CASE Tick
  BY <1>8 DEF Tick
<1>9. CASE Returned \/ UNCHANGED vars
  BY <1>9 DEF Returned
<1> QED
  BY <1>1, <1>2, <1>3, <1>4, <1>5, <1>6, <1>7, <1>8, <1>9
     DEF Next, Executor, Environment

\* No clock tick passes the kill time of a helper.
LEMMA KillTimeStep ==
  ASSUME ControlInv, [Next]_vars
  PROVE  KillTime'
<1> USE DEF ControlInv, KillTime, vars, core, transcript, target, helper, timing
<1>1. CASE Validate \/ HelperTimesOut \/ SelectionCompletes
  BY <1>1 DEF Validate, HelperTimesOut, SelectionCompletes
<1>2. CASE Reap \/ ReadBreaks \/ HelperBreaks \/ ReplacementDeclines \/ SelectionDeclines \/ WitnessMismatch
  BY <1>2 DEF Reap, Fail, ReadBreaks, HelperBreaks, ReplacementDeclines, SelectionDeclines,
    RetryOrFail, WitnessMismatch
<1>3. CASE HelperClicks \/ ClickLands \/ HelperReplaces \/ HelperDetaches \/ OrphanExits
  BY <1>3 DEF HelperClicks, ClickLands, HelperReplaces, HelperDetaches, OrphanExits
<1>4. CASE Finish \/ BeginQualify \/ ReadPointer
  BY <1>4 DEF Finish, Fail, BeginQualify, ReadPointer, RetryOrFail
<1>5. CASE RecordControl \/ RecordPre \/ RecordPost
  BY <1>5 DEF RecordControl, Qualified, Fail, Advance, RecordPre, RecordPost
<1>6. CASE BeginAttempt
  <2>1. script \in Scripts /\ UNCHANGED <<script, clock>>
    BY <1>6 DEF BeginAttempt, TypeOK
  <2>2. CASE clock >= script.bounds.total
    BY <1>6, <2>2 DEF BeginAttempt, Fail
  <2>3. CASE ~(clock >= script.bounds.total)
    <3>1. clock < script.bounds.total
      BY <2>3, BoundsAreNaturals DEF TypeOK
    <3>2. pc' = "done" \/ until' = Expiry
      BY <1>6, <2>3 DEF BeginAttempt, Fail, Launch
    <3> QED
      BY <2>1, <3>1, <3>2, ExpiryIsInside
  <2> QED
    BY <2>2, <2>3
<1>7. CASE BeginReplace
  <2>1. script \in Scripts /\ UNCHANGED <<script, clock>>
    BY <1>7 DEF BeginReplace, TypeOK
  <2>2. CASE clock >= script.bounds.total
    BY <1>7, <2>2 DEF BeginReplace, Fail
  <2>3. CASE ~(clock >= script.bounds.total)
    <3>1. clock < script.bounds.total
      BY <2>3, BoundsAreNaturals DEF TypeOK
    <3>2. pc' = "done" \/ until' = Expiry
      BY <1>7, <2>3 DEF BeginReplace, Fail, Launch
    <3> QED
      BY <2>1, <3>1, <3>2, ExpiryIsInside
  <2> QED
    BY <2>2, <2>3
<1>8. CASE ReplacementCompletes
  BY <1>8 DEF ReplacementCompletes, Fail, Advance
<1>9. CASE Tick
  <2>1. clock \in Nat /\ until \in Nat
    BY DEF TypeOK
  <2> QED
    BY <1>9, <2>1 DEF Tick
<1>10. CASE Returned \/ UNCHANGED vars
  BY <1>10 DEF Returned
<1> QED
  BY <1>1, <1>2, <1>3, <1>4, <1>5, <1>6, <1>7, <1>8, <1>9, <1>10
     DEF Next, Executor, Environment

\* Nothing returns to the state before validation.
LEMMA FreshStep ==
  ASSUME ControlInv, [Next]_vars
  PROVE  NothingPending'
<1> USE DEF ControlInv, NothingPending, vars, core, transcript, target, helper, timing
<1>1. CASE Validate \/ HelperTimesOut \/ SelectionCompletes
  BY <1>1 DEF Validate, HelperTimesOut, SelectionCompletes
<1>2. CASE Reap \/ ReadBreaks \/ HelperBreaks \/ ReplacementDeclines \/ SelectionDeclines \/ WitnessMismatch
  BY <1>2 DEF Reap, Fail, ReadBreaks, HelperBreaks, ReplacementDeclines, SelectionDeclines,
    RetryOrFail, WitnessMismatch
<1>3. CASE HelperClicks \/ ClickLands \/ HelperReplaces \/ HelperDetaches \/ OrphanExits
  BY <1>3 DEF HelperClicks, ClickLands, HelperReplaces, HelperDetaches, OrphanExits
<1>4. CASE Finish \/ BeginQualify \/ ReadPointer
  BY <1>4 DEF Finish, Fail, BeginQualify, ReadPointer, RetryOrFail
<1>5. CASE RecordControl \/ RecordPre \/ RecordPost
  BY <1>5 DEF RecordControl, Qualified, Fail, Advance, RecordPre, RecordPost
<1>6. CASE BeginAttempt \/ BeginReplace
  BY <1>6 DEF BeginAttempt, Fail, Launch, BeginReplace
<1>7. CASE ReplacementCompletes
  BY <1>7 DEF ReplacementCompletes, Fail, Advance
<1>8. CASE Tick
  BY <1>8 DEF Tick
<1>9. CASE Returned \/ UNCHANGED vars
  BY <1>9 DEF Returned
<1> QED
  BY <1>1, <1>2, <1>3, <1>4, <1>5, <1>6, <1>7, <1>8, <1>9
     DEF Next, Executor, Environment

\* The backend's flag and the pending leg move together.
LEMMA FlagStep ==
  ASSUME ControlInv, [Next]_vars
  PROVE  PendingFlagAgrees'
<1> USE DEF ControlInv, PendingFlagAgrees, vars, core, transcript, target, helper, timing, ActionDone, Running
<1>1. CASE Validate \/ HelperTimesOut \/ SelectionCompletes
  BY <1>1 DEF Validate, NothingPending, HelperTimesOut, SelectionCompletes
<1>2. CASE Reap \/ ReadBreaks \/ HelperBreaks \/ ReplacementDeclines \/ SelectionDeclines \/ WitnessMismatch
  BY <1>2 DEF Reap, Fail, ReadBreaks, HelperBreaks, ReplacementDeclines, SelectionDeclines,
    RetryOrFail, WitnessMismatch
<1>3. CASE HelperClicks \/ ClickLands \/ HelperReplaces \/ HelperDetaches \/ OrphanExits
  BY <1>3 DEF HelperClicks, ClickLands, HelperReplaces, HelperDetaches, OrphanExits
<1>4. CASE Finish \/ BeginQualify \/ ReadPointer
  BY <1>4 DEF Finish, Fail, BeginQualify, ReadPointer, RetryOrFail
<1>5. CASE RecordPre \/ RecordPost
  BY <1>5 DEF RecordPre, Qualified, Fail, Advance, RecordPost
<1>6. CASE RecordControl
  <2>1. pc = "record" /\ replPending' = FALSE /\ pending' = pending
    BY <1>6 DEF RecordControl, Qualified
  <2>2. CASE replPending
    <3>1. Point.population_replacement
      BY <2>2 DEF Point
    <3> QED
      BY <1>6, <3>1 DEF RecordControl, Fail
  <2>3. CASE ~replPending
    BY <2>1, <2>3
  <2> QED
    BY <2>2, <2>3
<1>7. CASE BeginAttempt \/ BeginReplace
  BY <1>7 DEF BeginAttempt, Fail, Launch, BeginReplace
<1>8. CASE ReplacementCompletes
  <2>1. pc = "replace" /\ replPending' = TRUE /\ pending \in PendingType
    BY <1>8 DEF ReplacementCompletes, ReplacingALeg
  <2>2. CASE Fail("signal")
    BY <2>2 DEF Fail
  <2>3. ASSUME NEW signal \in Signals, NEW action,
               action = [step |-> Step.id, mechanism |-> Step.mechanism,
                         lifecycle_signal |-> signal],
               pending' = [pending EXCEPT !.action = action]
        PROVE  ActionDone'
    <3>1. action \in ReplacementType
      BY <2>1, <2>3, ReplacementIsTyped
    <3>2. pending' \in PendingType /\ pending'.action = action
      BY <2>1, <2>3, <3>1 DEF PendingType
    <3> QED
      BY <3>1, <3>2, AbsentIsNoResult
  <2>4. Fail("signal") \/ ActionDone'
    BY <1>8, <2>3 DEF ReplacementCompletes
  <2> QED
    BY <2>1, <2>2, <2>4
<1>9. CASE Tick
  BY <1>9 DEF Tick
<1>10. CASE Returned \/ UNCHANGED vars
  BY <1>10 DEF Returned
<1> QED
  BY <1>1, <1>2, <1>3, <1>4, <1>5, <1>6, <1>7, <1>8, <1>9, <1>10
     DEF Next, Executor, Environment

-----------------------------------------------------------------------------
\* A run that has not begun satisfies the invariant.
LEMMA ControlInit ==
  Init => ControlInv
<1> SUFFICES ASSUME Init PROVE ControlInv
  OBVIOUS
<1> USE DEF Init
<1>1. TypeOK
  <2>1. /\ replPending \in BOOLEAN /\ click \in BOOLEAN
        /\ acted \in BOOLEAN /\ detached \in BOOLEAN
    OBVIOUS
  <2>2. /\ script \in Scripts /\ pc \in PCs /\ idx \in Nat \ {0} /\ attempt \in Nat \ {0}
        /\ clock \in Nat /\ until \in Nat /\ ptr \in Mapped \cup {Null}
        /\ pending \in PendingType \cup {Absent} /\ error \in Errors
        /\ status \in {"incomplete-harness", "complete"}
        /\ selected \in Pointers \cup {Null} /\ population \in Nat
    BY DEF PCs, Errors
  <2>3. /\ control \in Seq(PointType) /\ steps \in Seq(PointType \cup ReplacementType)
        /\ legs \in Seq(LegType) /\ seen \in Seq(Nat)
    OBVIOUS
  <2>4. memory \in [Mapped -> Contents]
    BY PopulationAssumption
  <2> QED
    BY <2>1, <2>2, <2>3, <2>4 DEF TypeOK
<1>2. ScriptIsValid /\ AtStep /\ PointerIsRead /\ ReplacingALeg /\ KillTime
  BY DEF ScriptIsValid, Running, AtStep, Qualifying, PointerIsRead, ReplacingALeg, KillTime
<1>3. NothingPending /\ PendingFlagAgrees
  BY DEF NothingPending, PendingFlagAgrees, Running
<1> QED
  BY <1>1, <1>2, <1>3 DEF ControlInv

(***************************************************************************)
(* The invariant is inductive: no action of the executor, of a helper or   *)
(* of the game leaves it.                                                  *)
(***************************************************************************)
THEOREM ControlInvariant == Spec => []ControlInv
<1>1. Init => ControlInv
  BY ControlInit
<1>2. ControlInv /\ [Next]_vars => ControlInv'
  BY TypeStep, ScriptStep, AtStepStep, PointerStep, ReplacingStep, KillTimeStep, FreshStep,
     FlagStep DEF ControlInv
<1> QED
  BY <1>1, <1>2, PTL DEF Spec

(***************************************************************************)
(* Every variable of the executor stays in its type, for every set of      *)
(* scripts, labels, pointers and populations.                              *)
(***************************************************************************)
THEOREM TypeCorrect == Spec => []TypeOK
<1>1. ControlInv => TypeOK
  BY DEF ControlInv
<1> QED
  BY <1>1, ControlInvariant, PTL

(***************************************************************************)
(* The backend's _replacement_pending and the executor's                   *)
(* pending_replacement agree in every state of a run, however many         *)
(* attempts a qualification took.                                          *)
(***************************************************************************)
THEOREM FlagAgreement == Spec => []PendingFlagAgrees
<1>1. ControlInv => PendingFlagAgrees
  BY DEF ControlInv
<1> QED
  BY <1>1, ControlInvariant, PTL

(***************************************************************************)
(* No helper is left running after the total deadline of the script.       *)
(***************************************************************************)
THEOREM HelpersMeetDeadline == Spec => []HelperInsideDeadline
<1>1. ControlInv => HelperInsideDeadline
  <2> SUFFICES ASSUME ControlInv, pc \in {"select", "replace"}
               PROVE  clock <= script.bounds.total
    BY DEF HelperInsideDeadline
  <2>1. clock <= until /\ until <= script.bounds.total
    BY DEF ControlInv, KillTime
  <2>2. clock \in Nat /\ until \in Nat /\ script.bounds.total \in Nat
    BY BoundsAreNaturals DEF ControlInv, TypeOK
  <2> QED
    BY <2>1, <2>2
<1> QED
  BY <1>1, ControlInvariant, PTL

-----------------------------------------------------------------------------
(***************************************************************************)
(* LifetimeObserver implements PlanRun: how far the transcript and the     *)
(* population have come is tied to the position in the plan, and every     *)
(* step of the executor is a step of PlanRun or a stutter.                 *)
(***************************************************************************)

\* Due of PlanRun: the replace steps among the first n of the plan.
Due(n) == IF n < 5 THEN 0 ELSE IF n < 8 THEN 1 ELSE 2

\* A helper launched for a replace step has already replaced the population.
InFlight == pc \in {"replace", "reap"} /\ idx \in {5, 8} /\ acted

\* While the plan runs, the transcript ends just before the current step and
\* the population is that of the replacements before it, or of this one too.
RunningProgress ==
  Running => /\ idx \in 1..10 /\ Len(steps) = idx - 1
             /\ population = Due(idx - 1) + (IF InFlight THEN 1 ELSE 0)
             /\ status = "incomplete-harness"
FreshProgress ==
  pc \in {"validate", "rejected"} =>
    idx = 1 /\ steps = <<>> /\ population = 0 /\ status = "incomplete-harness"
StoppedProgress ==
  pc = "done" => /\ idx \in 1..10
                 /\ population <= Due(idx)

Progress == RunningProgress /\ FreshProgress /\ StoppedProgress

-----------------------------------------------------------------------------
\* A validated script has nine steps, the fifth and the eighth of them its
\* replace steps (validate_action_script).
LEMMA PlanShape ==
  ASSUME NEW plan \in Seq(StepType), NEW bounds, ValidScript(plan, bounds)
  PROVE  /\ Len(plan) = 9
         /\ \A i \in 1..9 : plan[i].action = "replace" <=> i \in {5, 8}
         /\ \A i \in 1..9 : plan[i].action = "qualify" <=> i \notin {5, 8}
<1> USE DEF ValidScript
<1>1. Len(plan) \in Nat /\ Len(plan) >= 9
  OBVIOUS
<1>2. (Len(plan) - 3) \div 3 = 2
  <2>1. Len(ObservedMechanisms(plan)) = 2
    BY DEF RequiredMechanisms
  <2>2. (Len(plan) - 3) \div 3 \in Nat
    BY <1>1
  <2> QED
    BY <2>1, <2>2 DEF ObservedMechanisms
<1>3. Len(plan) \in 9..11
  <2>1. \A n \in Nat : n >= 9 /\ (n - 3) \div 3 = 2 => n \in 9..11
    OBVIOUS
  <2> HIDE DEF ValidScript
  <2> QED
    BY <1>1, <1>2, <2>1
<1>4. Len(plan) < 10
  <2> SUFFICES ASSUME Len(plan) >= 10 PROVE FALSE
    BY <1>1
  <2>1. 10 \in Cursors(plan)
    BY <1>1 DEF Cursors
  <2> QED
    BY <2>1, <1>3 DEF TripleAt
<1>5. Len(plan) = 9
  <2>1. \A n \in 9..11 : n < 10 => n = 9
    OBVIOUS
  <2> QED
    BY <1>3, <1>4, <2>1, Zenon
<1>6. 4 \in Cursors(plan) /\ 7 \in Cursors(plan)
  BY <1>5 DEF Cursors
<1>7. /\ plan[4].action = "qualify" /\ plan[5].action = "replace" /\ plan[6].action = "qualify"
      /\ plan[7].action = "qualify" /\ plan[8].action = "replace" /\ plan[9].action = "qualify"
  BY <1>6 DEF TripleAt
<1>8. plan[1].action = "qualify" /\ plan[2].action = "qualify" /\ plan[3].action = "qualify"
  BY DEF ControlShape
<1> QED
  BY <1>5, <1>7, <1>8

\* The plan under way has the shape above.
LEMMA RunningPlan ==
  ASSUME ControlInv, Running
  PROVE  /\ Len(script.steps) = 9
         /\ \A i \in 1..9 : script.steps[i].action = "replace" <=> i \in {5, 8}
         /\ \A i \in 1..9 : script.steps[i].action = "qualify" <=> i \notin {5, 8}
<1>1. ValidScript(script.steps, script.bounds)
  BY DEF ControlInv, ScriptIsValid
<1>2. script.steps \in Seq(StepType)
  BY ScriptAssumption DEF ControlInv, TypeOK
<1> QED
  BY <1>1, <1>2, PlanShape

\* The kinds of the steps pc can be at.
LEMMA PlaceInPlan ==
  ASSUME ControlInv, RunningProgress, Running
  PROVE  /\ Qualifying => idx \in 1..9 \ {5, 8}
         /\ pc = "replace" => idx \in {5, 8}
         /\ pc = "step" /\ idx <= Len(script.steps) => idx \in 1..9
         /\ pc = "step" /\ idx > Len(script.steps) => idx = 10
<1>1. idx \in 1..10 /\ Len(script.steps) = 9
  BY RunningPlan DEF RunningProgress
<1>2. idx <= 9 => (Step.action = "replace" <=> idx \in {5, 8})
  BY <1>1, RunningPlan DEF Step
<1>3. idx <= 9 => (Step.action = "qualify" <=> idx \notin {5, 8})
  BY <1>1, RunningPlan DEF Step
<1> QED
  BY <1>1, <1>2, <1>3 DEF ControlInv, AtStep, StepInRange, Qualifying

-----------------------------------------------------------------------------
\* A run that has not begun has no entry and the first population.
LEMMA ProgressInit ==
  Init => Progress
BY DEF Init, Progress, RunningProgress, FreshProgress, StoppedProgress, Running

\* Whatever is in flight, the population is never ahead of the current step.
LEMMA NeverAhead ==
  ASSUME Running, RunningProgress
  PROVE  population <= Due(idx)
<1>1. idx \in 1..10 /\ population = Due(idx - 1) + (IF InFlight THEN 1 ELSE 0)
  BY DEF RunningProgress
<1>2. InFlight => idx \in {5, 8}
  BY DEF InFlight
<1> QED
  BY <1>1, <1>2 DEF Due

\* A step that leaves the position, the transcript and the population alone.
LEMMA StayingPut ==
  ASSUME Progress, Running, UNCHANGED <<idx, steps, population, status>>,
         pc' \notin {"validate", "rejected"},
         Running' => (InFlight' <=> InFlight)
  PROVE  Progress'
<1>1. RunningProgress'
  BY DEF Progress, RunningProgress
<1>2. FreshProgress' /\ StoppedProgress'
  BY NeverAhead DEF Progress, RunningProgress, FreshProgress, StoppedProgress, Due
<1> QED
  BY <1>1, <1>2 DEF Progress

\* A step that stops the run, whether it recorded a point or not.
LEMMA Stopping ==
  ASSUME Progress, Running, UNCHANGED <<idx, population>>, pc' = "done"
  PROVE  Progress'
BY NeverAhead DEF Progress, RunningProgress, FreshProgress, StoppedProgress, Running, Due

\* A step that records an entry and goes on to the next step of the plan.
LEMMA Advancing ==
  ASSUME Progress, Running, idx \in 1..9, NEW e, steps \in Seq(PointType \cup ReplacementType),
         steps' = Append(steps, e), idx' = idx + 1, pc' = "step", status' = status,
         population' = population, population = Due(idx)
  PROVE  Progress'
<1>1. ~InFlight'
  BY DEF InFlight
<1>2. Len(steps') = idx' - 1 /\ idx' \in 1..10 /\ idx' - 1 = idx
  BY DEF Progress, RunningProgress
<1>3. population' = Due(idx' - 1)
  BY <1>2 DEF Due
<1>4. population' \in Nat
  BY <1>3 DEF Due
<1>5. RunningProgress'
  BY <1>1, <1>2, <1>3, <1>4 DEF Progress, RunningProgress
<1> QED
  BY <1>5 DEF Progress, FreshProgress, StoppedProgress

\* A qualify step is recorded in the population of the replacements before it,
\* a replace step in the one it has made.
LEMMA QualifyPopulation ==
  ASSUME ControlInv, Progress, Qualifying
  PROVE  idx \in 1..9 \ {5, 8} /\ population = Due(idx) /\ ~InFlight
<1>1. Running /\ idx \in 1..9 \ {5, 8}
  BY PlaceInPlan DEF Progress, Qualifying, Running
<1>2. ~InFlight
  BY <1>1 DEF InFlight
<1>3. population = Due(idx - 1) + 0
  BY <1>1, <1>2 DEF Progress, RunningProgress
<1> QED
  BY <1>1, <1>2, <1>3 DEF Due

\* Inside a replace step the population counts the helper that has acted.
LEMMA ReplacePopulation ==
  ASSUME ControlInv, Progress, pc = "replace"
  PROVE  /\ idx \in {5, 8}
         /\ acted => population = Due(idx)
         /\ ~acted => population = Due(idx - 1)
<1>1. Running /\ idx \in {5, 8}
  BY PlaceInPlan DEF Progress, Running, Qualifying
<1>2. InFlight <=> acted
  BY <1>1 DEF InFlight
<1>3. acted => population = Due(idx - 1) + 1
  BY <1>1, <1>2 DEF Progress, RunningProgress
<1>4. ~acted => population = Due(idx - 1) + 0
  BY <1>1, <1>2 DEF Progress, RunningProgress
<1> QED
  BY <1>1, <1>3, <1>4 DEF Due

\* Every step moves the position, the transcript and the population together.
LEMMA ProgressStep ==
  ASSUME ControlInv, Progress, [Next]_vars
  PROVE  Progress'
<1> USE DEF vars, core, transcript, target, helper, timing
<1>1. CASE Validate
  BY <1>1 DEF Validate, Progress, RunningProgress, FreshProgress, StoppedProgress, Running,
     InFlight, Due
<1>2. CASE HelperTimesOut \/ SelectionCompletes
  <2>1. Running /\ UNCHANGED <<idx, steps, population, status>> /\ pc' \notin {"validate", "rejected"}
    BY <1>2 DEF HelperTimesOut, SelectionCompletes, Running
  <2>2. pc = "select" => ~InFlight /\ ~InFlight'
    BY <1>2, QualifyPopulation DEF Qualifying, InFlight, HelperTimesOut, SelectionCompletes
  <2>3. pc = "replace" => (InFlight' <=> InFlight)
    BY <1>2 DEF InFlight, HelperTimesOut, SelectionCompletes
  <2> QED
    BY <1>2, <2>1, <2>2, <2>3, StayingPut DEF HelperTimesOut, SelectionCompletes
<1>3. CASE Reap \/ ReadBreaks \/ HelperBreaks \/ ReplacementDeclines
  BY <1>3, Stopping DEF Reap, ReadBreaks, HelperBreaks, ReplacementDeclines, Fail, Running
<1>4. CASE SelectionDeclines \/ WitnessMismatch \/ ReadPointer
  <2>1. Qualifying /\ Running /\ UNCHANGED <<idx, steps, population, status>> /\ pc' \notin {"validate", "rejected"}
    BY <1>4 DEF SelectionDeclines, WitnessMismatch, ReadPointer, RetryOrFail, Fail, Running,
       Qualifying
  <2>2. ~InFlight /\ ~InFlight'
    BY <1>4, <2>1, QualifyPopulation DEF SelectionDeclines, WitnessMismatch, ReadPointer,
       RetryOrFail, Fail, InFlight
  <2> QED
    BY <2>1, <2>2, StayingPut
<1>5. CASE HelperClicks \/ ClickLands \/ HelperDetaches \/ OrphanExits \/ Tick
  <2>1. UNCHANGED <<pc, idx, steps, population, status>>
    BY <1>5 DEF HelperClicks, ClickLands, HelperDetaches, OrphanExits, Tick
  <2>2. InFlight' <=> InFlight
    BY <1>5, <2>1 DEF HelperClicks, ClickLands, HelperDetaches, OrphanExits, Tick, InFlight
  <2>3. Running' <=> Running
    BY <2>1 DEF Running
  <2> QED
    BY <2>1, <2>2, <2>3 DEF Progress, RunningProgress, FreshProgress, StoppedProgress
<1>6. CASE HelperReplaces
  <2>1. pc = "replace" /\ ~acted /\ idx \in {5, 8} /\ population = Due(idx - 1)
    BY <1>6, ReplacePopulation DEF HelperReplaces
  <2>2. UNCHANGED <<pc, idx, steps, status>> /\ population' = population + 1 /\ acted'
    BY <1>6 DEF HelperReplaces
  <2>3. InFlight' /\ Running /\ Running'
    BY <2>1, <2>2 DEF InFlight, Running
  <2>4. population' = Due(idx' - 1) + 1
    BY <2>1, <2>2
  <2>5. RunningProgress'
    BY <2>2, <2>3, <2>4 DEF Progress, RunningProgress
  <2> QED
    BY <2>1, <2>2, <2>5 DEF Progress, FreshProgress, StoppedProgress
<1>7. CASE BeginQualify \/ BeginAttempt
  <2>1. Running /\ UNCHANGED <<idx, steps, population, status>> /\ pc' \notin {"validate", "rejected"}
    BY <1>7 DEF BeginQualify, BeginAttempt, Launch, Fail, Running
  <2>2. ~InFlight /\ ~InFlight'
    BY <1>7 DEF BeginQualify, BeginAttempt, Launch, Fail, InFlight
  <2> QED
    BY <2>1, <2>2, StayingPut
<1>8. CASE BeginReplace
  <2>1. Running /\ UNCHANGED <<idx, steps, population, status>> /\ pc' \notin {"validate", "rejected"}
    BY <1>8 DEF BeginReplace, Launch, Fail, Running
  <2>2. ~InFlight /\ ~InFlight'
    BY <1>8 DEF BeginReplace, Launch, Fail, InFlight
  <2> QED
    BY <2>1, <2>2, StayingPut
<1>9. CASE RecordControl \/ RecordPre \/ RecordPost
  <2>1. Running /\ idx \in 1..9 /\ population = Due(idx)
    BY <1>9, QualifyPopulation DEF RecordControl, RecordPre, RecordPost, Qualified, Qualifying,
       Running
  <2>2. steps' = Append(steps, Point) /\ population' = population
    BY <1>9 DEF RecordControl, RecordPre, RecordPost, Qualified
  <2>3. \/ pc' = "done" /\ UNCHANGED idx
        \/ pc' = "step" /\ idx' = idx + 1 /\ status' = status
    BY <1>9 DEF RecordControl, RecordPre, RecordPost, Advance, Fail
  <2>4. steps \in Seq(PointType \cup ReplacementType)
    BY DEF ControlInv, TypeOK
  <2> QED
    BY <2>1, <2>2, <2>3, <2>4, Stopping, Advancing
<1>10. CASE ReplacementCompletes
  <2>1. Running /\ idx \in 1..9 /\ population = Due(idx) /\ population' = population
    BY <1>10, ReplacePopulation DEF ReplacementCompletes, Running
  <2>2. CASE Fail("signal")
    BY <2>1, <2>2, Stopping DEF Fail
  <2>3. ASSUME NEW action, steps' = Append(steps, action), Advance
        PROVE  Progress'
    <3>1. steps \in Seq(PointType \cup ReplacementType)
      BY DEF ControlInv, TypeOK
    <3> QED
      BY <2>1, <2>3, <3>1, Advancing DEF Advance
  <2> QED
    BY <1>10, <2>2, <2>3 DEF ReplacementCompletes
<1>11. CASE Finish
  BY <1>11, Stopping DEF Finish, Fail, Running
<1>12. CASE Returned \/ UNCHANGED vars
  <2>1. UNCHANGED <<pc, idx, steps, population, status, acted>>
    BY <1>12 DEF Returned
  <2>2. (InFlight' <=> InFlight) /\ (Running' <=> Running)
    BY <2>1 DEF InFlight, Running
  <2> QED
    BY <2>1, <2>2 DEF Progress, RunningProgress, FreshProgress, StoppedProgress
<1> QED
  BY <1>1, <1>2, <1>3, <1>4, <1>5, <1>6, <1>7, <1>8, <1>9, <1>10, <1>11, <1>12
     DEF Next, Executor, Environment

-----------------------------------------------------------------------------
(***************************************************************************)
(* The position in the plan, the transcript and the population of the game *)
(* keep step in every run.                                                 *)
(***************************************************************************)
THEOREM ProgressInvariant == Spec => [](ControlInv /\ Progress)
<1>1. Init => ControlInv /\ Progress
  BY ControlInit, ProgressInit
<1>2. ControlInv /\ Progress /\ [Next]_vars => (ControlInv /\ Progress)'
  BY ProgressStep, TypeStep, ScriptStep, AtStepStep, PointerStep, ReplacingStep, KillTimeStep,
     FreshStep, FlagStep DEF ControlInv
<1> QED
  BY <1>1, <1>2, PTL DEF Spec

(***************************************************************************)
(* No replacement is tried twice, whatever its helper did and however      *)
(* often the qualifications around it were retried.                        *)
(***************************************************************************)
THEOREM NoRepeatedReplacement == Spec => []ReplacementsAreNotRepeated
<1>1. ControlInv /\ Progress => ReplacementsAreNotRepeated
  <2> SUFFICES ASSUME ControlInv, Progress PROVE ReplacementsAreNotRepeated
    OBVIOUS
  <2>1. idx \in Nat /\ population \in Nat
    BY DEF ControlInv, TypeOK
  <2>2. CASE Running
    BY <2>1, <2>2, NeverAhead DEF Progress, Due, ReplacementsAreNotRepeated
  <2>3. CASE pc = "done"
    BY <2>1, <2>3 DEF Progress, StoppedProgress, Due, ReplacementsAreNotRepeated
  <2>4. CASE pc \in {"validate", "rejected"}
    BY <2>1, <2>4 DEF Progress, FreshProgress, Due, ReplacementsAreNotRepeated
  <2> QED
    BY <2>2, <2>3, <2>4 DEF Running, ControlInv, TypeOK, PCs
<1> QED
  BY <1>1, ProgressInvariant, PTL

\* Every step of the executor is a step of PlanRun or leaves its view alone.
LEMMA StepRefines ==
  ASSUME ControlInv, Progress, [Next]_vars
  PROVE  [Run!RunNext]_(Run!runVars)
<1> USE DEF vars, core, transcript, target, helper, timing
<1> DEFINE View == <<Verdict, Len(steps), population>>
<1>0. Run!runVars = View /\ (UNCHANGED View => UNCHANGED Run!runVars)
  BY DEF Run!runVars
<1>a. /\ Running => Verdict = "running"
      /\ Running' => Verdict' = "running"
      /\ pc' = "done" => Verdict' = status'
  BY DEF Verdict, Running
<1>b. Running => Len(steps) = idx - 1 /\ idx \in 1..10 /\ status = "incomplete-harness"
  BY DEF Progress, RunningProgress
<1>1. CASE Validate
  <2>1. Verdict = "planned" /\ Verdict' \in {"running", "refused"}
    BY <1>1 DEF Validate, Verdict
  <2>2. UNCHANGED <<steps, population>>
    BY <1>1 DEF Validate
  <2> QED
    BY <2>1, <2>2 DEF Run!RunNext, Run!Admit
<1>2. ASSUME Running, Running', UNCHANGED <<steps, population>>
      PROVE  UNCHANGED Run!runVars
  BY <1>a, <1>2 DEF Run!runVars
<1>3. ASSUME Running, pc' = "done", UNCHANGED <<steps, population, status>>
      PROVE  Run!GiveUp
  BY <1>a, <1>b, <1>3 DEF Run!GiveUp
<1>4. CASE HelperTimesOut \/ SelectionCompletes
  BY <1>2, <1>4 DEF HelperTimesOut, SelectionCompletes, Running
<1>5. CASE Reap \/ ReadBreaks \/ HelperBreaks \/ ReplacementDeclines
  BY <1>3, <1>5 DEF Reap, ReadBreaks, HelperBreaks, ReplacementDeclines, Fail, Running, Run!RunNext
<1>6. CASE SelectionDeclines \/ WitnessMismatch \/ ReadPointer
  BY <1>2, <1>3, <1>6 DEF SelectionDeclines, WitnessMismatch, ReadPointer, RetryOrFail, Fail,
     Running, Run!RunNext
<1>7. CASE HelperClicks \/ ClickLands \/ HelperDetaches \/ OrphanExits \/ Tick
  BY <1>7 DEF HelperClicks, ClickLands, HelperDetaches, OrphanExits, Tick, Verdict, Run!runVars
<1>8. CASE HelperReplaces
  <2>1. pc = "replace" /\ ~acted /\ idx \in {5, 8} /\ population = Due(idx - 1)
    BY <1>8, ReplacePopulation DEF HelperReplaces
  <2>2. UNCHANGED <<pc, steps, status>> /\ population' = population + 1
    BY <1>8 DEF HelperReplaces
  <2>3. Verdict = "running" /\ Verdict' = Verdict /\ Len(steps) = idx - 1
    BY <2>1, <2>2, <1>b DEF Verdict, Running
  <2>4. Run!ReplaceSteps = {5, 8} /\ Run!Due(Len(steps)) = Due(idx - 1)
    BY <2>1, <2>3 DEF Run!ReplaceSteps, Run!Due, Due
  <2>5. Run!ReplaceWorld
    BY <2>1, <2>2, <2>3, <2>4 DEF Run!ReplaceWorld
  <2> QED
    BY <2>5 DEF Run!RunNext
<1>9. CASE BeginQualify \/ BeginAttempt \/ BeginReplace
  BY <1>2, <1>3, <1>9 DEF BeginQualify, BeginAttempt, BeginReplace, Launch, Fail, Running,
     Run!RunNext
<1>10. ASSUME Running, NEW e, idx \in 1..9, population = Due(idx), population' = population,
              steps' = Append(steps, e), status' = status,
              pc' \in {"step", "done"}
       PROVE  Run!RunNext
  <2>1. steps \in Seq(PointType \cup ReplacementType)
    BY DEF ControlInv, TypeOK
  <2>2. Len(steps') = Len(steps) + 1 /\ Len(steps) + 1 = idx
    BY <1>b, <1>10, <2>1
  <2>3. Run!Due(Len(steps) + 1) = Due(idx)
    BY <2>2 DEF Run!Due, Due
  <2>4. CASE pc' = "step"
    <3>1. Verdict = "running" /\ Verdict' = "running"
      BY <2>4, <1>10, <1>a DEF Running
    <3>2. Run!Record
      BY <3>1, <2>2, <2>3, <1>10 DEF Run!Record
    <3> QED
      BY <3>2 DEF Run!RunNext
  <2>5. CASE pc' = "done"
    <3>1. Verdict = "running" /\ Verdict' = "incomplete-harness"
      BY <2>5, <1>10, <1>a, <1>b
    <3>2. Run!GiveUp
      BY <3>1, <2>2, <2>3, <1>10 DEF Run!GiveUp
    <3> QED
      BY <3>2 DEF Run!RunNext
  <2> QED
    BY <1>10, <2>4, <2>5
<1>11. CASE RecordControl \/ RecordPre \/ RecordPost
  <2>1. Running /\ idx \in 1..9 /\ population = Due(idx)
    BY <1>11, QualifyPopulation DEF RecordControl, RecordPre, RecordPost, Qualified, Qualifying,
       Running
  <2>2. steps' = Append(steps, Point) /\ population' = population
    BY <1>11 DEF RecordControl, RecordPre, RecordPost, Qualified
  <2>3. pc' \in {"step", "done"} /\ status' = status
    BY <1>11 DEF RecordControl, RecordPre, RecordPost, Advance, Fail
  <2> QED
    BY <1>10, <2>1, <2>2, <2>3
<1>12. CASE ReplacementCompletes
  <2>1. Running /\ idx \in 1..9 /\ population = Due(idx) /\ population' = population
    BY <1>12, ReplacePopulation DEF ReplacementCompletes, Running
  <2>2. CASE Fail("signal") /\ UNCHANGED steps
    BY <1>3, <2>1, <2>2 DEF Fail, Run!RunNext
  <2>3. ASSUME NEW action, steps' = Append(steps, action), Advance
        PROVE  Run!RunNext
    BY <1>10, <2>1, <2>3 DEF Advance
  <2> QED
    BY <1>12, <2>2, <2>3 DEF ReplacementCompletes
<1>13. CASE Finish
  <2>1. Running /\ idx = 10 /\ Len(steps) = 9 /\ UNCHANGED <<steps, population>>
    BY <1>13, <1>b, PlaceInPlan DEF Finish, Running, Progress
  <2>2. CASE status' = status /\ pc' = "done"
    BY <1>3, <2>1, <2>2 DEF Run!RunNext
  <2>3. CASE status' = "complete" /\ pc' = "done"
    <3>1. Run!Complete
      BY <1>a, <2>1, <2>3 DEF Run!Complete
    <3> QED
      BY <3>1 DEF Run!RunNext
  <2> QED
    BY <1>13, <2>2, <2>3 DEF Finish, Fail
<1>14. CASE Returned \/ UNCHANGED vars
  BY <1>14 DEF Returned, Verdict, Run!runVars
<1> QED
  BY <1>1, <1>4, <1>5, <1>6, <1>7, <1>8, <1>9, <1>11, <1>12, <1>13, <1>14
     DEF Next, Executor, Environment

(***************************************************************************)
(* The executor implements PlanRun: it records the plan in order, has the  *)
(* population replaced once per replace step, and says "complete" only of  *)
(* a whole plan.                                                           *)
(***************************************************************************)
THEOREM Refinement == Spec => ImplementsPlanRun
<1>1. Init => Run!RunInit
  BY DEF Init, Run!RunInit, Verdict
<1>2. ControlInv /\ Progress /\ [Next]_vars => [Run!RunNext]_(Run!runVars)
  BY StepRefines
<1> QED
  BY <1>1, <1>2, ProgressInvariant, PTL DEF Spec, ImplementsPlanRun, Run!RunSpec
-----------------------------------------------------------------------------
(* The transcript, entry by entry.                                          *)

ReplaceSteps == {5, 8}
PreSteps     == {4, 7}
PostSteps    == {6, 9}

\* A replacement entry is the plan's i-th step.
ReplacementFits(i, e) ==
  /\ e \in ReplacementType
  /\ e.step = script.steps[i].id
  /\ e.mechanism = script.steps[i].mechanism

\* A point is the plan's i-th step, carried the witness of its label when it
\* was taken, in population s, and still does unless the population is gone.
PointFits(i, e, s) ==
  /\ e \in PointType
  /\ e.step = script.steps[i].id
  /\ e.logical_record = script.steps[i].label
  /\ e.phase = script.steps[i].phase
  /\ e.population_replacement <=> i \in PostSteps
  /\ e.metadata_sha256 = WitnessOf[e.logical_record]
  /\ s = population => memory[e.record_pointer] = WitnessOf[e.logical_record]

EntryFits(i, e, s) ==
  /\ s = Due(i)
  /\ i \in ReplaceSteps => ReplacementFits(i, e)
  /\ i \notin ReplaceSteps => PointFits(i, e, s)

EntriesFit ==
  /\ Len(steps) \in 0..9 /\ Len(seen) = Len(steps)
  /\ \A i \in 1..Len(steps) : EntryFits(i, steps[i], seen[i])

\* What is pending is taken from the transcript, until the run has stopped.
PendingFits ==
  pc # "done" =>
    /\ idx \in {1, 2, 3, 4, 7, 10} => pending = Absent
    /\ idx \in ReplaceSteps => pending = [pre |-> steps[idx - 1], action |-> Absent]
    /\ idx \in PostSteps => pending = [pre |-> steps[idx - 2], action |-> steps[idx - 1]]

\* Every leg joins three entries of the transcript, and none is missing.
LegsFit ==
  /\ Len(legs) \in 0..2
  /\ pc # "done" => Len(legs) = (IF idx < 7 THEN 0 ELSE IF idx < 10 THEN 1 ELSE 2)
  /\ \A k \in 1..Len(legs) :
       /\ 3*k + 3 <= Len(steps)
       /\ legs[k] = Leg(steps[3*k + 1], steps[3*k + 2], steps[3*k + 3])

CompleteFits ==
  status = "complete" => pc = "done" /\ Len(steps) = 9 /\ Len(legs) = 2 /\ population = 2

TranscriptInv == EntriesFit /\ PendingFits /\ LegsFit /\ CompleteFits
-----------------------------------------------------------------------------
\* The phases of a validated script's qualify steps (validate_action_script).
LEMMA PlanPhases ==
  ASSUME NEW plan \in Seq(StepType), NEW bounds, ValidScript(plan, bounds)
  PROVE  /\ \A i \in {1, 2, 3} : plan[i].phase = "selection-control"
         /\ \A i \in PreSteps : plan[i].phase = "pre-replacement"
         /\ \A i \in PostSteps : plan[i].phase = "post-replacement"
<1>1. Len(plan) = 9
  BY PlanShape
<1>2. 4 \in Cursors(plan) /\ 7 \in Cursors(plan)
  BY <1>1 DEF Cursors
<1>3. TripleAt(plan, 4) /\ TripleAt(plan, 7)
  BY <1>2 DEF ValidScript
<1>4. ControlShape(plan)
  BY DEF ValidScript
<1>5. /\ plan[4].phase = "pre-replacement" /\ plan[6].phase = "post-replacement"
      /\ plan[7].phase = "pre-replacement" /\ plan[9].phase = "post-replacement"
  BY <1>3 DEF TripleAt
<1> QED
  BY <1>4, <1>5 DEF ControlShape, PreSteps, PostSteps

\* The plan a run follows, while it runs and afterwards.
LEMMA PlanFollowed ==
  ASSUME ControlInv, Running \/ pc = "done"
  PROVE  /\ Len(script.steps) = 9
         /\ \A i \in 1..9 : script.steps[i].action = "replace" <=> i \in ReplaceSteps
         /\ \A i \in {1, 2, 3} : script.steps[i].phase = "selection-control"
         /\ \A i \in PreSteps : script.steps[i].phase = "pre-replacement"
         /\ \A i \in PostSteps : script.steps[i].phase = "post-replacement"
<1>1. ValidScript(script.steps, script.bounds)
  BY DEF ControlInv, ScriptIsValid
<1>2. script.steps \in Seq(StepType)
  BY ScriptAssumption DEF ControlInv, TypeOK
<1> QED
  BY <1>1, <1>2, PlanShape, PlanPhases DEF ReplaceSteps

\* The phase of the step a record is read for tells where in the plan it is.
LEMMA PhasePlaces ==
  ASSUME ControlInv, Progress, pc = "record"
  PROVE  /\ Step.phase = "selection-control" => idx \in {1, 2, 3}
         /\ Step.phase = "pre-replacement" => idx \in PreSteps
         /\ Step.phase = "post-replacement" => idx \in PostSteps
<1>1. idx \in 1..9 \ ReplaceSteps
  BY QualifyPopulation DEF Qualifying, ReplaceSteps
<1>2. idx \in {1, 2, 3} \/ idx \in PreSteps \/ idx \in PostSteps
  BY <1>1 DEF PreSteps, PostSteps, ReplaceSteps
<1> QED
  BY <1>2, PlanFollowed DEF Running, Step

-----------------------------------------------------------------------------
\* An empty transcript fits every plan.
LEMMA TranscriptInit ==
  Init => TranscriptInv
BY DEF Init, TranscriptInv, EntriesFit, PendingFits, LegsFit, CompleteFits, ReplaceSteps, PostSteps

\* A step that leaves the transcript and the records of the target alone.
LEMMA Untouched ==
  ASSUME TranscriptInv, UNCHANGED <<script, steps, seen, legs, memory, population, status>>,
         pc' # "done" => pc # "done" /\ UNCHANGED <<idx, pending>>,
         pc = "done" => pc' = "done"
  PROVE  TranscriptInv'
<1>1. EntriesFit'
  BY DEF TranscriptInv, EntriesFit, EntryFits, ReplacementFits, PointFits
<1>2. PendingFits'
  BY DEF TranscriptInv, PendingFits
<1>3. LegsFit'
  BY DEF TranscriptInv, LegsFit
<1>4. CompleteFits'
  BY DEF TranscriptInv, CompleteFits
<1> QED
  BY <1>1, <1>2, <1>3, <1>4 DEF TranscriptInv

\* A new population: no point of the transcript was taken in it.
LEMMA Replaced ==
  ASSUME ControlInv, Progress, TranscriptInv, pc = "replace", ~acted,
         UNCHANGED <<script, pc, idx, steps, seen, legs, pending, status>>,
         population' = population + 1
  PROVE  TranscriptInv'
<1>1. idx \in ReplaceSteps /\ population = Due(idx - 1) /\ Len(steps) = idx - 1
  BY ReplacePopulation DEF Progress, RunningProgress, Running, ReplaceSteps
<1>2. \A i \in 1..Len(steps) : Due(i) <= population /\ Due(i) # population'
  BY <1>1 DEF Due, ReplaceSteps
<1>3. EntriesFit'
  <2>1. ASSUME NEW i \in 1..Len(steps) PROVE EntryFits(i, steps[i], seen[i])'
    <3>1. EntryFits(i, steps[i], seen[i]) /\ seen[i] = Due(i)
      BY DEF TranscriptInv, EntriesFit, EntryFits
    <3>2. seen[i] # population'
      BY <1>2, <3>1
    <3> QED
      BY <3>1, <3>2 DEF EntryFits, ReplacementFits, PointFits
  <2> QED
    BY <2>1 DEF TranscriptInv, EntriesFit
<1>4. PendingFits' /\ LegsFit'
  BY DEF TranscriptInv, PendingFits, LegsFit
<1>5. CompleteFits'
  BY DEF TranscriptInv, CompleteFits
<1> QED
  BY <1>3, <1>4, <1>5 DEF TranscriptInv

\* A step that appends the entry of the current step of the plan.
LEMMA Recorded ==
  ASSUME ControlInv, TranscriptInv, idx \in 1..9, Len(steps) = idx - 1, NEW e,
         EntryFits(idx, e, population), steps' = Append(steps, e),
         seen' = Append(seen, population), UNCHANGED <<script, memory, population>>
  PROVE  /\ EntriesFit'
         /\ Len(steps') = idx /\ steps'[idx] = e
         /\ \A i \in 1..(idx - 1) : steps'[i] = steps[i]
<1>1. steps \in Seq(PointType \cup ReplacementType) /\ seen \in Seq(Nat)
  BY DEF ControlInv, TypeOK
<1>2. Len(seen) = idx - 1
  BY DEF TranscriptInv, EntriesFit
<1>3. /\ Len(steps') = idx /\ steps'[idx] = e /\ Len(seen') = idx /\ seen'[idx] = population
      /\ \A i \in 1..(idx - 1) : steps'[i] = steps[i] /\ seen'[i] = seen[i]
  BY <1>1, <1>2
<1>4. ASSUME NEW i \in 1..idx PROVE EntryFits(i, steps[i], seen[i])'
  <2>1. EntryFits(i, steps'[i], seen'[i])
    BY <1>3 DEF TranscriptInv, EntriesFit
  <2> QED
    BY <2>1 DEF EntryFits, ReplacementFits, PointFits
<1>5. EntriesFit'
  BY <1>3, <1>4 DEF EntriesFit
<1> QED
  BY <1>3, <1>5

\* Appending an entry leaves the legs there are where they were.
LEMMA LegsKept ==
  ASSUME LegsFit, idx \in 1..9, Len(steps) = idx - 1,
         NEW k \in 1..Len(legs), Len(steps') = idx,
         \A i \in 1..(idx - 1) : steps'[i] = steps[i]
  PROVE  /\ 3*k + 3 <= Len(steps')
         /\ legs[k] = Leg(steps'[3*k + 1], steps'[3*k + 2], steps'[3*k + 3])
<1>1. k \in {1, 2} /\ 3*k + 3 <= idx - 1
  BY DEF LegsFit
<1>2. 3*k + 1 \in 1..(idx - 1) /\ 3*k + 2 \in 1..(idx - 1) /\ 3*k + 3 \in 1..(idx - 1)
  BY <1>1
<1>3. legs[k] = Leg(steps[3*k + 1], steps[3*k + 2], steps[3*k + 3])
  BY DEF LegsFit
<1> QED
  BY <1>1, <1>2, <1>3
-----------------------------------------------------------------------------
\* What _qualify returns at a record read is the plan's current step.
LEMMA PointIsFaithful ==
  ASSUME ControlInv, Progress, TranscriptInv, pc = "record", Witnessed
  PROVE  EntryFits(idx, Point, population)
<1>1. idx \in 1..9 \ ReplaceSteps /\ population = Due(idx)
  BY QualifyPopulation DEF Qualifying, ReplaceSteps
<1>2. Point \in PointType
  BY PointIsTyped
<1>3. replPending <=> ActionDone
  BY DEF ControlInv, PendingFlagAgrees, Running
<1>4. replPending <=> idx \in PostSteps
  <2>1. CASE idx \in PostSteps
    <3>1. pending = [pre |-> steps[idx - 2], action |-> steps[idx - 1]]
      BY <2>1 DEF TranscriptInv, PendingFits
    <3>2. idx - 1 \in 1..Len(steps) /\ idx - 1 \in ReplaceSteps
      BY <2>1 DEF Progress, RunningProgress, Running, PostSteps, ReplaceSteps
    <3>3. steps[idx - 1] \in ReplacementType
      BY <3>2 DEF TranscriptInv, EntriesFit, EntryFits, ReplacementFits
    <3>4. pending \in PendingType \cup {Absent}
      BY DEF ControlInv, TypeOK
    <3>5. pending.action = steps[idx - 1] /\ pending.action # Absent
      BY <3>1, <3>3, AbsentIsNoResult
    <3>6. steps[idx - 2] \in PointType
      <4>1. idx - 2 \in 1..Len(steps) /\ idx - 2 \notin ReplaceSteps
        BY <2>1 DEF Progress, RunningProgress, Running, PostSteps, ReplaceSteps
      <4> QED
        BY <4>1 DEF TranscriptInv, EntriesFit, EntryFits, PointFits
    <3>7. pending \in PendingType
      BY <3>1, <3>3, <3>6 DEF PendingType
    <3>8. pending # Absent
      BY <3>7, AbsentIsNoResult
    <3> QED
      BY <2>1, <1>3, <3>5, <3>8 DEF ActionDone
  <2>2. CASE idx \notin PostSteps
    <3>1. idx \in {1, 2, 3, 4, 7, 10}
      BY <1>1, <2>2 DEF ReplaceSteps, PostSteps
    <3> QED
      BY <3>1, <2>2, <1>3 DEF TranscriptInv, PendingFits, ActionDone
  <2> QED
    BY <2>1, <2>2
<1>5. /\ Point.step = script.steps[idx].id /\ Point.logical_record = script.steps[idx].label
      /\ Point.phase = script.steps[idx].phase /\ Point.population_replacement = replPending
      /\ Point.metadata_sha256 = memory[ptr] /\ Point.record_pointer = ptr
  BY DEF Point, Step
<1>6. memory[ptr] = WitnessOf[script.steps[idx].label]
  BY DEF Witnessed, Step
<1> HIDE DEF Point
<1>7. PointFits(idx, Point, population)
  BY <1>2, <1>4, <1>5, <1>6 DEF PointFits
<1> QED
  BY <1>1, <1>7 DEF EntryFits

\* A control point that is kept fits its step.
LEMMA ControlRecorded ==
  ASSUME ControlInv, Progress, TranscriptInv, RecordControl
  PROVE  TranscriptInv'
<1>1. /\ pc = "record" /\ Witnessed /\ Step.phase = "selection-control"
      /\ steps' = Append(steps, Point) /\ seen' = Append(seen, population)
      /\ UNCHANGED <<script, memory, population, legs, pending, status>>
      /\ pc' = "done" \/ (pc' = "step" /\ idx' = idx + 1)
  BY DEF RecordControl, Qualified, Fail, Advance, target
<1>2. idx \in {1, 2, 3} /\ Len(steps) = idx - 1
  BY <1>1, PhasePlaces DEF Progress, RunningProgress, Running
<1>3. /\ EntriesFit' /\ Len(steps') = idx
      /\ \A i \in 1..(idx - 1) : steps'[i] = steps[i]
  BY <1>1, <1>2, PointIsFaithful, Recorded
<1>4. Len(legs) = 0 /\ pending = Absent
  BY <1>1, <1>2 DEF TranscriptInv, LegsFit, PendingFits
<1>5. PendingFits' /\ LegsFit'
  BY <1>1, <1>2, <1>4 DEF PendingFits, LegsFit, ReplaceSteps, PostSteps
<1>6. CompleteFits'
  BY <1>1 DEF TranscriptInv, CompleteFits
<1> QED
  BY <1>3, <1>5, <1>6 DEF TranscriptInv

\* A pre point that is kept opens a leg that points at it.
LEMMA PreRecorded ==
  ASSUME ControlInv, Progress, TranscriptInv, RecordPre
  PROVE  TranscriptInv'
<1>1. /\ pc = "record" /\ Witnessed /\ Step.phase = "pre-replacement"
      /\ steps' = Append(steps, Point) /\ seen' = Append(seen, population)
      /\ UNCHANGED <<script, memory, population, legs, status>>
      /\ \/ pc' = "done"
         \/ /\ pc' = "step" /\ idx' = idx + 1
            /\ pending' = [pre |-> Point, action |-> Absent]
  BY DEF RecordPre, Qualified, Fail, Advance, target
<1>2. idx \in PreSteps /\ idx \in 1..9 /\ Len(steps) = idx - 1
  BY <1>1, PhasePlaces DEF Progress, RunningProgress, Running, PreSteps
<1>3. /\ EntriesFit' /\ Len(steps') = idx /\ steps'[idx] = Point
      /\ \A i \in 1..(idx - 1) : steps'[i] = steps[i]
  BY <1>1, <1>2, PointIsFaithful, Recorded
<1>4. PendingFits'
  <2> SUFFICES ASSUME pc' # "done" PROVE PendingFits'
    BY DEF PendingFits
  <2>1. idx' \in ReplaceSteps /\ idx' - 1 = idx
    BY <1>1, <1>2 DEF PreSteps, ReplaceSteps
  <2> QED
    BY <1>1, <1>3, <2>1 DEF PendingFits, ReplaceSteps, PostSteps
<1>5. LegsFit'
  <2>1. Len(legs) \in 0..2 /\ Len(legs) = (IF idx < 7 THEN 0 ELSE 1)
    BY <1>1, <1>2 DEF TranscriptInv, LegsFit
  <2>2. pc' # "done" => Len(legs) = (IF idx' < 7 THEN 0 ELSE IF idx' < 10 THEN 1 ELSE 2)
    BY <1>1, <1>2, <2>1 DEF PreSteps
  <2>3. \A k \in 1..Len(legs) : /\ 3*k + 3 <= Len(steps')
                                /\ legs[k] = Leg(steps'[3*k + 1], steps'[3*k + 2], steps'[3*k + 3])
    BY <1>2, <1>3, LegsKept DEF TranscriptInv
  <2> QED
    BY <1>1, <2>1, <2>2, <2>3 DEF LegsFit
<1>6. CompleteFits'
  BY <1>1 DEF TranscriptInv, CompleteFits
<1> QED
  BY <1>3, <1>4, <1>5, <1>6 DEF TranscriptInv
\* A post point that is kept closes the leg over the replacement before it.
LEMMA PostRecorded ==
  ASSUME ControlInv, Progress, TranscriptInv, RecordPost
  PROVE  TranscriptInv'
<1>1. /\ pc = "record" /\ Witnessed /\ Step.phase = "post-replacement"
      /\ steps' = Append(steps, Point) /\ seen' = Append(seen, population)
      /\ UNCHANGED <<script, memory, population, status>>
      /\ \/ pc' = "done" /\ UNCHANGED legs
         \/ /\ pc' = "step" /\ idx' = idx + 1 /\ pending' = Absent
            /\ legs' = Append(legs, Leg(pending.pre, pending.action, Point))
  BY DEF RecordPost, Qualified, Fail, Advance, target
<1>2. idx \in PostSteps /\ idx \in 1..9 /\ Len(steps) = idx - 1
  BY <1>1, PhasePlaces DEF Progress, RunningProgress, Running, PostSteps
<1>3. /\ EntriesFit' /\ Len(steps') = idx /\ steps'[idx] = Point
      /\ \A i \in 1..(idx - 1) : steps'[i] = steps[i]
  BY <1>1, <1>2, PointIsFaithful, Recorded
<1>4. PendingFits'
  <2> SUFFICES ASSUME pc' # "done" PROVE PendingFits'
    BY DEF PendingFits
  <2>1. idx' \in {7, 10} /\ pending' = Absent
    BY <1>1, <1>2 DEF PostSteps
  <2> QED
    BY <2>1 DEF PendingFits, ReplaceSteps, PostSteps
<1>5. \A k \in 1..Len(legs) : /\ 3*k + 3 <= Len(steps')
                              /\ legs[k] = Leg(steps'[3*k + 1], steps'[3*k + 2], steps'[3*k + 3])
  BY <1>2, <1>3, LegsKept DEF TranscriptInv
<1>6. Len(legs) = (IF idx = 6 THEN 0 ELSE 1)
  BY <1>1, <1>2 DEF TranscriptInv, LegsFit, PostSteps
<1>7. LegsFit'
  <2>1. CASE pc' = "done" /\ UNCHANGED legs
    BY <2>1, <1>5, <1>6, <1>2 DEF LegsFit, PostSteps
  <2>2. CASE /\ pc' = "step" /\ idx' = idx + 1
             /\ legs' = Append(legs, Leg(pending.pre, pending.action, Point))
    <3> DEFINE new == Leg(pending.pre, pending.action, Point)
               m   == Len(legs) + 1
    <3>1. legs \in Seq(LegType)
      BY DEF ControlInv, TypeOK
    <3>2. Len(legs') = m /\ legs'[m] = new /\ \A k \in 1..Len(legs) : legs'[k] = legs[k]
      BY <2>2, <3>1
    <3>3. idx = 3*m + 3 /\ m \in {1, 2}
      BY <1>2, <1>6 DEF PostSteps
    <3>4. pending = [pre |-> steps[idx - 2], action |-> steps[idx - 1]]
      BY <1>1, <1>2 DEF TranscriptInv, PendingFits
    <3>5. steps'[idx - 2] = steps[idx - 2] /\ steps'[idx - 1] = steps[idx - 1]
      BY <1>2, <1>3 DEF PostSteps
    <3>6. pending.pre = steps'[3*m + 1] /\ pending.action = steps'[3*m + 2]
          /\ Point = steps'[3*m + 3]
      <4>1. idx - 2 = 3*m + 1 /\ idx - 1 = 3*m + 2 /\ idx = 3*m + 3
        BY <1>2, <3>3 DEF PostSteps
      <4>2. pending.pre = steps'[idx - 2] /\ pending.action = steps'[idx - 1]
        BY <3>4, <3>5
      <4> HIDE DEF m
      <4> QED
        BY <4>1, <4>2, <1>3
    <3>7. legs'[m] = Leg(steps'[3*m + 1], steps'[3*m + 2], steps'[3*m + 3])
      BY <3>2, <3>6
    <3>8. Len(legs') \in 0..2 /\ Len(legs') = (IF idx' < 7 THEN 0 ELSE IF idx' < 10 THEN 1 ELSE 2)
      BY <2>2, <3>2, <3>3, <1>2, <1>6 DEF PostSteps
    <3>9. ASSUME NEW k \in 1..Len(legs')
          PROVE  /\ 3*k + 3 <= Len(steps')
                 /\ legs'[k] = Leg(steps'[3*k + 1], steps'[3*k + 2], steps'[3*k + 3])
      <4>1. Len(legs) \in Nat
        BY <3>1
      <4>2. k = m \/ k \in 1..Len(legs)
        BY <3>2, <4>1
      <4>3. CASE k = m
        BY <4>3, <3>3, <3>7, <1>3
      <4>4. CASE k \in 1..Len(legs)
        BY <4>4, <3>2, <1>5
      <4> QED
        BY <4>2, <4>3, <4>4
    <3> QED
      BY <3>8, <3>9 DEF LegsFit
  <2> QED
    BY <1>1, <2>1, <2>2
<1>8. CompleteFits'
  BY <1>1 DEF TranscriptInv, CompleteFits
<1> QED
  BY <1>3, <1>4, <1>7, <1>8 DEF TranscriptInv

\* A replacement entry stands between the populations it separates.
LEMMA ReplacementRecorded ==
  ASSUME ControlInv, Progress, TranscriptInv, ReplacementCompletes
  PROVE  TranscriptInv'
<1>1. /\ pc = "replace" /\ acted
      /\ UNCHANGED <<script, legs, memory, population, status>>
  BY DEF ReplacementCompletes, Fail, Advance, target
<1>2. idx \in ReplaceSteps /\ idx \in 1..9 /\ Len(steps) = idx - 1 /\ population = Due(idx)
  BY <1>1, ReplacePopulation DEF Progress, RunningProgress, Running, ReplaceSteps
<1>3. CASE UNCHANGED <<pending, steps, seen>> /\ pc' = "done"
  BY <1>1, <1>3, Untouched
<1>4. ASSUME NEW signal \in Signals, NEW action,
             action = [step |-> Step.id, mechanism |-> Step.mechanism, lifecycle_signal |-> signal],
             steps' = Append(steps, action), seen' = Append(seen, population),
             pending' = [pending EXCEPT !.action = action], Advance
      PROVE  TranscriptInv'
  <2>1. EntryFits(idx, action, population)
    <3>1. action \in ReplacementType
      BY <1>1, <1>4, ReplacementIsTyped
    <3>2. action.step = script.steps[idx].id /\ action.mechanism = script.steps[idx].mechanism
      BY <1>4 DEF Step
    <3> QED
      BY <1>2, <3>1, <3>2 DEF EntryFits, ReplacementFits
  <2>2. /\ EntriesFit' /\ Len(steps') = idx /\ steps'[idx] = action
        /\ \A i \in 1..(idx - 1) : steps'[i] = steps[i]
    BY <1>1, <1>2, <1>4, <2>1, Recorded
  <2>3. pc' = "step" /\ idx' = idx + 1
    BY <1>4 DEF Advance
  <2>4. PendingFits'
    <3>1. pending = [pre |-> steps[idx - 1], action |-> Absent]
      BY <1>1, <1>2 DEF TranscriptInv, PendingFits
    <3>2. pending' = [pre |-> steps[idx - 1], action |-> action]
      BY <1>4, <3>1
    <3>3. idx' \in PostSteps /\ idx' - 2 = idx - 1 /\ idx' - 1 = idx
      BY <1>2, <2>3 DEF ReplaceSteps, PostSteps
    <3>4. steps'[idx - 1] = steps[idx - 1]
      BY <1>2, <2>2 DEF ReplaceSteps
    <3>5. pending' = [pre |-> steps'[idx' - 2], action |-> steps'[idx' - 1]]
      BY <2>2, <3>2, <3>3, <3>4
    <3> QED
      BY <3>3, <3>5 DEF PendingFits, ReplaceSteps, PostSteps
  <2>5. LegsFit'
    <3>1. Len(legs) = (IF idx < 7 THEN 0 ELSE 1) /\ Len(legs) \in 0..2
      BY <1>1, <1>2 DEF TranscriptInv, LegsFit
    <3>2. Len(legs') = (IF idx' < 7 THEN 0 ELSE IF idx' < 10 THEN 1 ELSE 2)
      BY <1>1, <1>2, <2>3, <3>1 DEF ReplaceSteps
    <3>3. \A k \in 1..Len(legs) : /\ 3*k + 3 <= Len(steps')
                                  /\ legs[k] = Leg(steps'[3*k + 1], steps'[3*k + 2], steps'[3*k + 3])
      BY <1>2, <2>2, LegsKept DEF TranscriptInv
    <3> QED
      BY <1>1, <3>1, <3>2, <3>3 DEF LegsFit
  <2>6. CompleteFits'
    BY <1>1 DEF TranscriptInv, CompleteFits
  <2> QED
    BY <2>2, <2>4, <2>5, <2>6 DEF TranscriptInv
<1> QED
  BY <1>3, <1>4 DEF ReplacementCompletes, Fail

\* The end of the plan adds no entry.
LEMMA Finished ==
  ASSUME ControlInv, Progress, TranscriptInv, Finish
  PROVE  TranscriptInv'
<1>1. Running /\ idx = 10 /\ Len(steps) = 9 /\ population = 2
  <2>1. Running /\ pc = "step" /\ idx > Len(script.steps)
    BY DEF Finish, Running
  <2>2. idx = 10 /\ Len(steps) = idx - 1
    BY <2>1, PlaceInPlan DEF Progress, RunningProgress
  <2>3. ~InFlight /\ population = Due(9) + 0
    BY <2>1, <2>2 DEF Progress, RunningProgress, InFlight
  <2> QED
    BY <2>1, <2>2, <2>3 DEF Due
<1>2. /\ UNCHANGED <<script, steps, seen, legs, memory, population>> /\ pc' = "done"
      /\ status' = status \/ (status' = "complete" /\ Len(legs) = 2)
  BY DEF Finish, Fail, target
<1>3. EntriesFit'
  BY <1>2 DEF TranscriptInv, EntriesFit, EntryFits, ReplacementFits, PointFits
<1>4. PendingFits' /\ LegsFit'
  BY <1>2 DEF TranscriptInv, PendingFits, LegsFit
<1>5. CompleteFits'
  BY <1>1, <1>2 DEF TranscriptInv, CompleteFits
<1> QED
  BY <1>3, <1>4, <1>5 DEF TranscriptInv
\* Every step of the executor, a helper or the game leaves the transcript as
\* faithful as it was.
LEMMA TranscriptStep ==
  ASSUME ControlInv, Progress, TranscriptInv, [Next]_vars
  PROVE  TranscriptInv'
<1> USE DEF vars, core, transcript, target, helper, timing
<1>1. CASE Validate \/ HelperTimesOut \/ SelectionCompletes
  BY <1>1, Untouched DEF Validate, HelperTimesOut, SelectionCompletes
<1>2. CASE Reap \/ ReadBreaks \/ HelperBreaks \/ ReplacementDeclines
  BY <1>2, Untouched DEF Reap, ReadBreaks, HelperBreaks, ReplacementDeclines, Fail
<1>3. CASE SelectionDeclines \/ WitnessMismatch \/ ReadPointer
  BY <1>3, Untouched DEF SelectionDeclines, WitnessMismatch, ReadPointer, RetryOrFail, Fail
<1>4. CASE HelperClicks \/ ClickLands \/ HelperDetaches \/ OrphanExits \/ Tick
  BY <1>4, Untouched DEF HelperClicks, ClickLands, HelperDetaches, OrphanExits, Tick
<1>5. CASE HelperReplaces
  BY <1>5, Replaced DEF HelperReplaces
<1>6. CASE BeginQualify \/ BeginAttempt \/ BeginReplace
  BY <1>6, Untouched DEF BeginQualify, BeginAttempt, BeginReplace, Launch, Fail
<1>7. CASE RecordControl \/ RecordPre \/ RecordPost
  BY <1>7, ControlRecorded, PreRecorded, PostRecorded
<1>8. CASE ReplacementCompletes \/ Finish
  BY <1>8, ReplacementRecorded, Finished
<1>9. CASE Returned \/ UNCHANGED vars
  BY <1>9, Untouched DEF Returned
<1> QED
  BY <1>1, <1>2, <1>3, <1>4, <1>5, <1>6, <1>7, <1>8, <1>9 DEF Next, Executor, Environment

-----------------------------------------------------------------------------
(***************************************************************************)
(* The transcript of every run, finished or under way, is made of entries  *)
(* that fit the plan, its legs of entries of it.                           *)
(***************************************************************************)
THEOREM TranscriptInvariant == Spec => [](ControlInv /\ Progress /\ TranscriptInv)
<1>1. Init => TranscriptInv
  BY TranscriptInit
<1>2. ControlInv /\ Progress /\ TranscriptInv /\ [Next]_vars => TranscriptInv'
  BY TranscriptStep
<1> QED
  BY <1>1, <1>2, ProgressInvariant, PTL DEF Spec

\* Where the transcript has an entry, it is of the kind the plan asks for.
LEMMA EntryKinds ==
  ASSUME ControlInv, Progress, TranscriptInv, NEW i \in 1..Len(steps)
  PROVE  /\ Len(script.steps) = 9 /\ i \in 1..9
         /\ EntryFits(i, steps[i], seen[i])
         /\ IsReplace(i) <=> i \in ReplaceSteps
         /\ ~IsReplace(i) => (IsPost(i) <=> i \in PostSteps)
<1>1. Len(steps) \in 0..9 /\ i \in 1..9 /\ EntryFits(i, steps[i], seen[i])
  <2>1. Len(steps) \in 0..9 /\ EntryFits(i, steps[i], seen[i])
    BY DEF TranscriptInv, EntriesFit
  <2> QED
    BY <2>1
<1>2. Running \/ pc = "done"
  BY DEF Progress, FreshProgress, Running
<1>3. Len(script.steps) = 9 /\ (IsReplace(i) <=> i \in ReplaceSteps)
  BY <1>1, <1>2, PlanFollowed DEF IsReplace
<1>4. i \notin ReplaceSteps => (IsPost(i) <=> i \in PostSteps)
  <2>1. i \notin ReplaceSteps => i \in {1, 2, 3} \/ i \in PreSteps \/ i \in PostSteps
    BY <1>1 DEF ReplaceSteps, PreSteps, PostSteps
  <2> QED
    BY <1>2, <2>1, PlanFollowed DEF IsPost, PreSteps, PostSteps
<1> QED
  BY <1>1, <1>3, <1>4

\* The transcript is the plan's, up to where the run came.
LEMMA PlanIsFollowed ==
  ASSUME ControlInv, Progress, TranscriptInv
  PROVE  TranscriptFollowsPlan
<1>1. Len(steps) <= Len(script.steps)
  <2>1. CASE pc \in {"validate", "rejected"}
    <3>1. Len(steps) = 0
      BY <2>1 DEF Progress, FreshProgress
    <3>2. script.steps \in Seq(StepType)
      BY ScriptAssumption DEF ControlInv, TypeOK
    <3> QED
      BY <3>1, <3>2
  <2>2. CASE pc \notin {"validate", "rejected"}
    <3>1. Len(steps) \in 0..9
      BY DEF TranscriptInv, EntriesFit
    <3>2. Len(script.steps) = 9
      BY <2>2, PlanFollowed DEF Running
    <3>3. \A m \in 0..9 : m <= 9
      OBVIOUS
    <3>4. Len(steps) <= 9
      BY <3>1, <3>3, Zenon
    <3> QED
      BY <3>2, <3>4, Zenon
  <2> QED
    BY <2>1, <2>2
<1>2. ASSUME NEW i \in 1..Len(steps)
      PROVE  /\ steps[i].step = script.steps[i].id
             /\ IF IsReplace(i)
                THEN steps[i].mechanism = script.steps[i].mechanism
                ELSE /\ steps[i].logical_record = script.steps[i].label
                     /\ steps[i].phase = script.steps[i].phase
  BY EntryKinds DEF EntryFits, ReplacementFits, PointFits
<1>3. ASSUME NEW k \in 1..Len(legs)
      PROVE  /\ legs[k].pre_step = steps[3*k + 1].step
             /\ legs[k].replace_step = steps[3*k + 2].step
             /\ legs[k].post_step = steps[3*k + 3].step
             /\ legs[k].pre_record_pointer = steps[3*k + 1].record_pointer
             /\ legs[k].lifecycle_signal = steps[3*k + 2].lifecycle_signal
             /\ legs[k].post_record_pointer = steps[3*k + 3].record_pointer
  <2>1. legs[k] = Leg(steps[3*k + 1], steps[3*k + 2], steps[3*k + 3])
    BY DEF TranscriptInv, LegsFit
  <2>2. \A a, b, c : /\ Leg(a, b, c).pre_step = a.step /\ Leg(a, b, c).replace_step = b.step
                     /\ Leg(a, b, c).post_step = c.step
                     /\ Leg(a, b, c).pre_record_pointer = a.record_pointer
                     /\ Leg(a, b, c).lifecycle_signal = b.lifecycle_signal
                     /\ Leg(a, b, c).post_record_pointer = c.record_pointer
    BY DEF Leg
  <2> QED
    BY <2>1, <2>2
<1>4. status = "complete" => Len(steps) = Len(script.steps) /\ Len(legs) = 2
  BY PlanFollowed DEF TranscriptInv, CompleteFits
<1> QED
  BY <1>1, <1>2, <1>3, <1>4 DEF TranscriptFollowsPlan

\* Each point still describes the population it was taken in.
LEMMA PointsHold ==
  ASSUME ControlInv, Progress, TranscriptInv
  PROVE  PointsStillHold /\ ReplacementIsReportedOnce
<1>1. ASSUME NEW i \in 1..Len(steps), ~IsReplace(i)
      PROVE  PointFits(i, steps[i], seen[i]) /\ (IsPost(i) <=> i \in PostSteps)
  BY <1>1, EntryKinds DEF EntryFits
<1> QED
  BY <1>1 DEF PointFits, PointsStillHold, ReplacementIsReportedOnce

\* The two points of a leg lie on either side of one replacement.
LEMMA PopulationsApart ==
  ASSUME ControlInv, Progress, TranscriptInv
  PROVE  LegsSeparatePopulations
<1>1. \A i \in 1..Len(steps) : seen[i] = Due(i)
  BY DEF TranscriptInv, EntriesFit, EntryFits
<1>2. ASSUME NEW i \in 1..Len(steps), i <= 3 PROVE seen[i] = 0
  BY <1>1, <1>2 DEF Due, TranscriptInv, EntriesFit
<1>3. ASSUME NEW k \in 1..Len(legs) PROVE seen[3*k + 1] = k - 1 /\ seen[3*k + 3] = k
  <2>1. k \in {1, 2} /\ 3*k + 3 <= Len(steps) /\ Len(steps) \in 0..9
    <3>1. Len(legs) \in 0..2 /\ 3*k + 3 <= Len(steps)
      BY DEF TranscriptInv, LegsFit
    <3>2. Len(steps) \in 0..9
      BY DEF TranscriptInv, EntriesFit
    <3>3. k \in {1, 2}
      <4>1. \A n \in 0..2 : \A j \in 1..n : j \in {1, 2}
        OBVIOUS
      <4> QED
        BY <3>1, <4>1, Zenon
    <3> QED
      BY <3>1, <3>2, <3>3, Zenon
  <2>2. 3*k + 1 \in 1..Len(steps) /\ 3*k + 3 \in 1..Len(steps)
    BY <2>1
  <2>3. Due(3*k + 1) = k - 1 /\ Due(3*k + 3) = k
    BY <2>1 DEF Due
  <2> QED
    BY <1>1, <2>2, <2>3
<1>4. status = "complete" => population = 2
  BY DEF TranscriptInv, CompleteFits
<1> QED
  BY <1>2, <1>3, <1>4 DEF LegsSeparatePopulations

(***************************************************************************)
(* Whatever was retried, declined or killed and whatever click landed      *)
(* late, the transcript is the plan's steps in order, its points are true  *)
(* of the populations they were taken in, and a replacement is reported by *)
(* its own post point and by no other.                                     *)
(***************************************************************************)
THEOREM TruthfulTranscript == Spec => []TranscriptIsTruthful
<1>1. ControlInv /\ Progress /\ TranscriptInv => TranscriptIsTruthful
  BY PlanIsFollowed, PointsHold, PopulationsApart DEF TranscriptIsTruthful
<1> QED
  BY <1>1, TranscriptInvariant, PTL

\* A step adds at most one entry and one leg, and none once the run is over.
LEMMA ExtendsStep ==
  ASSUME ControlInv, [Next]_vars
  PROVE  /\ steps' = steps \/ \E e : steps' = Append(steps, e)
         /\ legs' = legs \/ \E e : legs' = Append(legs, e)
         /\ pc = "done" => UNCHANGED <<transcript, pc>>
<1> USE DEF vars, core, transcript, target, helper, timing
<1>1. CASE Validate \/ HelperTimesOut \/ SelectionCompletes \/ Reap \/ ReadBreaks \/ HelperBreaks
           \/ ReplacementDeclines \/ SelectionDeclines \/ WitnessMismatch \/ ReadPointer
  BY <1>1 DEF Validate, HelperTimesOut, SelectionCompletes, Reap, ReadBreaks, HelperBreaks,
     ReplacementDeclines, SelectionDeclines, WitnessMismatch, ReadPointer
<1>2. CASE HelperClicks \/ ClickLands \/ HelperReplaces \/ HelperDetaches \/ OrphanExits \/ Tick
  BY <1>2 DEF HelperClicks, ClickLands, HelperReplaces, HelperDetaches, OrphanExits, Tick
<1>3. CASE BeginQualify \/ BeginAttempt \/ BeginReplace \/ Finish
  BY <1>3 DEF BeginQualify, BeginAttempt, BeginReplace, Finish
<1>4. CASE RecordControl \/ RecordPre
  BY <1>4 DEF RecordControl, RecordPre, Qualified
<1>5. CASE RecordPost
  <2>1. pc = "record" /\ steps' = Append(steps, Point)
    BY <1>5 DEF RecordPost, Qualified
  <2>2. legs' = legs \/ legs' = Append(legs, Leg(pending.pre, pending.action, Point))
    BY <1>5 DEF RecordPost
  <2> QED
    BY <2>1, <2>2
<1>6. CASE ReplacementCompletes
  BY <1>6 DEF ReplacementCompletes
<1>7. CASE Returned \/ UNCHANGED vars
  BY <1>7 DEF Returned
<1> QED
  BY <1>1, <1>2, <1>3, <1>4, <1>5, <1>6, <1>7 DEF Next, Executor, Environment

\* A sequence with one more element begins with the sequence it was.
LEMMA AppendExtends ==
  ASSUME NEW S, NEW s \in Seq(S), NEW e
  PROVE  /\ Len(Append(s, e)) = Len(s) + 1
         /\ SubSeq(Append(s, e), 1, Len(s)) = s
OBVIOUS

(***************************************************************************)
(* The transcript is only ever extended, and what a caller was given stays *)
(* as it is: no late click, helper or orphan reaches it.                   *)
(***************************************************************************)
THEOREM AppendOnly == Spec => TranscriptIsAppendOnly
<1>1. ControlInv /\ [Next]_vars =>
        [/\ \/ steps' = steps
            \/ Len(steps') = Len(steps) + 1 /\ SubSeq(steps', 1, Len(steps)) = steps
         /\ \/ legs' = legs
            \/ Len(legs') = Len(legs) + 1 /\ SubSeq(legs', 1, Len(legs)) = legs
         /\ pc = "done" => UNCHANGED <<transcript, pc>>]_vars
  <2> SUFFICES ASSUME ControlInv, [Next]_vars
               PROVE  /\ \/ steps' = steps
                         \/ Len(steps') = Len(steps) + 1 /\ SubSeq(steps', 1, Len(steps)) = steps
                      /\ \/ legs' = legs
                         \/ Len(legs') = Len(legs) + 1 /\ SubSeq(legs', 1, Len(legs)) = legs
                      /\ pc = "done" => UNCHANGED <<transcript, pc>>
    OBVIOUS
  <2>1. steps \in Seq(PointType \cup ReplacementType) /\ legs \in Seq(LegType)
    BY DEF ControlInv, TypeOK
  <2> QED
    BY <2>1, ExtendsStep, AppendExtends
<1> QED
  BY <1>1, ControlInvariant, PTL DEF Spec, TranscriptIsAppendOnly
-----------------------------------------------------------------------------
(* What the executor has checked by the time it returns, and the adapter    *)
(* checks again.                                                            *)

\* The control kept beside the transcript is its first three points.
ControlKept ==
  pc # "done" =>
    /\ Len(control) = (IF idx < 4 THEN idx - 1 ELSE 3)
    /\ \A i \in 1..Len(control) : control[i] = steps[i]
    /\ idx >= 4 => ControlReturns(control)

\* A leg whose pointer was reused has its signal.
LegsGuarded == \A k \in 1..Len(legs) : legs[k].pointer_reused => legs[k].lifecycle_signal = "early"

\* Behind the second leg there is nothing left that could stop the run.
CompleteOutcome ==
  /\ status = "complete" => ControlReturns(steps)
  /\ pc = "done" /\ Len(legs) = 2 => status = "complete"
  /\ pc = "reap" => idx \in 1..9

OutcomeInv == ControlKept /\ LegsGuarded /\ CompleteOutcome

PipelineInv ==
  /\ stage \in {"executing", "adapted", "accepted", "raised"}
  /\ stage \in {"executing", "raised"} => record = Absent
  /\ stage \in {"adapted", "accepted"} => pc = "done" /\ record = LifetimeRecord
  /\ stage = "raised" => pc = "rejected"
-----------------------------------------------------------------------------
\* A run that has not begun has neither legs nor an outcome.
LEMMA OutcomeInit ==
  Init => OutcomeInv
BY DEF Init, OutcomeInv, ControlKept, LegsGuarded, CompleteOutcome

\* Wherever a step of the plan is still under way a leg is missing.
LEMMA LegMissing ==
  ASSUME ControlInv, Progress, TranscriptInv, OutcomeInv, Running,
         pc = "step" => idx <= Len(script.steps)
  PROVE  idx \in 1..9 /\ Len(legs) # 2
<1>1. idx \in 1..9
  <2>1. RunningProgress
    BY DEF Progress
  <2>2. CASE pc = "step"
    BY <2>1, <2>2, PlaceInPlan
  <2>3. CASE pc = "reap"
    BY <2>3 DEF OutcomeInv, CompleteOutcome
  <2>4. CASE Qualifying
    BY <2>1, <2>4, PlaceInPlan
  <2>5. CASE pc = "replace"
    BY <2>1, <2>5, PlaceInPlan
  <2> QED
    BY <2>2, <2>3, <2>4, <2>5 DEF Qualifying, Running, ControlInv, TypeOK, PCs
<1>2. Len(legs) = (IF idx < 7 THEN 0 ELSE IF idx < 10 THEN 1 ELSE 2)
  BY DEF TranscriptInv, LegsFit, Running
<1> QED
  BY <1>1, <1>2

\* A step that records nothing and does not complete the run.
LEMMA OutcomeUntouched ==
  ASSUME OutcomeInv, UNCHANGED <<control, steps, legs, status>>,
         pc' # "done" => pc # "done" /\ UNCHANGED idx,
         pc' = "done" => pc = "done" \/ Len(legs) # 2,
         pc' = "reap" => idx \in 1..9
  PROVE  OutcomeInv'
<1>1. ControlKept'
  BY DEF OutcomeInv, ControlKept
<1>2. LegsGuarded'
  BY DEF OutcomeInv, LegsGuarded
<1>3. CompleteOutcome'
  BY DEF OutcomeInv, CompleteOutcome
<1> QED
  BY <1>1, <1>2, <1>3 DEF OutcomeInv

\* A step that appends an entry behind the control and keeps the control.
LEMMA ControlBehind ==
  ASSUME ControlKept, pc # "done", idx \in 4..9, Len(steps') = idx, control' = control,
         \A i \in 1..(idx - 1) : steps'[i] = steps[i],
         pc' # "done" => idx' = idx + 1
  PROVE  ControlKept'
<1>1. Len(control) = 3 /\ ControlReturns(control) /\ \A i \in 1..3 : control[i] = steps[i]
  BY DEF ControlKept
<1>2. \A i \in 1..3 : control[i] = steps'[i]
  BY <1>1
<1>3. pc' # "done" => idx' >= 4 /\ ~(idx' < 4)
  OBVIOUS
<1> QED
  BY <1>1, <1>2, <1>3 DEF ControlKept, ControlReturns

\* Recording an entry: what the run knows of its outcome does not change yet.
LEMMA OutcomeOpen ==
  ASSUME TranscriptInv, pc # "done", status' = status, pc' \in {"step", "done"},
         pc' = "done" => Len(legs') # 2
  PROVE  CompleteOutcome'
BY DEF TranscriptInv, CompleteFits, CompleteOutcome

\* The control is checked before anything is concluded.
LEMMA ControlOutcome ==
  ASSUME ControlInv, Progress, TranscriptInv, OutcomeInv, RecordControl
  PROVE  OutcomeInv'
<1>1. /\ pc = "record" /\ Witnessed /\ Step.phase = "selection-control"
      /\ steps' = Append(steps, Point) /\ seen' = Append(seen, population)
      /\ UNCHANGED <<script, memory, population, legs, status>>
      /\ \/ pc' = "done"
         \/ /\ pc' = "step" /\ idx' = idx + 1
            /\ control' = Append(control, Point)
            /\ Len(control') # 3 \/ ControlReturns(control')
  BY DEF RecordControl, Qualified, Fail, Advance, target
<1>2. idx \in {1, 2, 3} /\ Len(steps) = idx - 1
  BY <1>1, PhasePlaces DEF Progress, RunningProgress, Running
<1>3. /\ Len(steps') = idx /\ steps'[idx] = Point
      /\ \A i \in 1..(idx - 1) : steps'[i] = steps[i]
  BY <1>1, <1>2, PointIsFaithful, Recorded
<1>4. ControlKept'
  <2> SUFFICES ASSUME pc' # "done" PROVE ControlKept'
    BY DEF ControlKept
  <2>1. control \in Seq(PointType)
    BY DEF ControlInv, TypeOK
  <2>2. Len(control) = idx - 1 /\ \A i \in 1..(idx - 1) : control[i] = steps[i]
    BY <1>1, <1>2 DEF OutcomeInv, ControlKept
  <2>3. /\ Len(control') = idx /\ control'[idx] = Point
        /\ \A i \in 1..(idx - 1) : control'[i] = control[i]
    BY <1>1, <1>2, <2>1, <2>2
  <2>4. \A i \in 1..idx : control'[i] = steps'[i]
    BY <1>2, <1>3, <2>2, <2>3
  <2>5. idx' = idx + 1 /\ (idx = 3 => ControlReturns(control'))
    BY <1>1, <2>3
  <2>6. Len(control') = (IF idx' < 4 THEN idx' - 1 ELSE 3) /\ (idx' >= 4 => ControlReturns(control'))
    BY <1>2, <2>3, <2>5
  <2> QED
    BY <2>3, <2>4, <2>6 DEF ControlKept
<1>5. LegsGuarded'
  BY <1>1 DEF OutcomeInv, LegsGuarded
<1>6. CompleteOutcome'
  BY <1>1, LegMissing, OutcomeOpen DEF Running
<1> QED
  BY <1>4, <1>5, <1>6 DEF OutcomeInv

\* A pre point leaves the legs as they are.
LEMMA PreOutcome ==
  ASSUME ControlInv, Progress, TranscriptInv, OutcomeInv, RecordPre
  PROVE  OutcomeInv'
<1>1. /\ pc = "record" /\ Witnessed /\ Step.phase = "pre-replacement"
      /\ steps' = Append(steps, Point) /\ seen' = Append(seen, population)
      /\ UNCHANGED <<script, memory, population, legs, status, control>>
      /\ pc' = "done" \/ (pc' = "step" /\ idx' = idx + 1)
  BY DEF RecordPre, Qualified, Fail, Advance, target
<1>2. idx \in 4..9 /\ Len(steps) = idx - 1
  BY <1>1, PhasePlaces DEF Progress, RunningProgress, Running, PreSteps
<1>3. Len(steps') = idx /\ \A i \in 1..(idx - 1) : steps'[i] = steps[i]
  BY <1>1, <1>2, PointIsFaithful, Recorded
<1>4. ControlKept'
  BY <1>1, <1>2, <1>3, ControlBehind DEF OutcomeInv
<1>5. LegsGuarded'
  BY <1>1 DEF OutcomeInv, LegsGuarded
<1>6. CompleteOutcome'
  BY <1>1, LegMissing, OutcomeOpen DEF Running
<1> QED
  BY <1>4, <1>5, <1>6 DEF OutcomeInv

\* A leg whose pointer was reused is kept only with its signal.
LEMMA PostOutcome ==
  ASSUME ControlInv, Progress, TranscriptInv, OutcomeInv, RecordPost
  PROVE  OutcomeInv'
<1> DEFINE new == Leg(pending.pre, pending.action, Point)
<1>1. /\ pc = "record" /\ Witnessed /\ Step.phase = "post-replacement"
      /\ steps' = Append(steps, Point) /\ seen' = Append(seen, population)
      /\ UNCHANGED <<script, memory, population, status, control>>
      /\ \/ pc' = "done" /\ UNCHANGED legs
         \/ /\ pc' = "step" /\ idx' = idx + 1 /\ legs' = Append(legs, new)
            /\ ReuseGuarded(pending.pre, pending.action, Point)
  BY DEF RecordPost, Qualified, Fail, Advance, target
<1>2. idx \in 4..9 /\ Len(steps) = idx - 1
  BY <1>1, PhasePlaces DEF Progress, RunningProgress, Running, PostSteps
<1>3. Len(steps') = idx /\ \A i \in 1..(idx - 1) : steps'[i] = steps[i]
  BY <1>1, <1>2, PointIsFaithful, Recorded
<1>4. ControlKept'
  BY <1>1, <1>2, <1>3, ControlBehind DEF OutcomeInv
<1>5. LegsGuarded'
  <2>1. CASE UNCHANGED legs
    BY <2>1 DEF OutcomeInv, LegsGuarded
  <2>2. CASE /\ legs' = Append(legs, new)
             /\ ReuseGuarded(pending.pre, pending.action, Point)
    <3>1. legs \in Seq(LegType)
      BY DEF ControlInv, TypeOK
    <3>2. new.pointer_reused => new.lifecycle_signal = "early"
      BY <2>2 DEF ReuseGuarded, Leg
    <3> HIDE DEF new
    <3>3. \A k \in 1..Len(legs') : (k \in 1..Len(legs) /\ legs'[k] = legs[k]) \/ legs'[k] = new
      BY <2>2, <3>1
    <3> QED
      BY <3>2, <3>3 DEF OutcomeInv, LegsGuarded
  <2> QED
    BY <1>1, <2>1, <2>2
<1>6. CompleteOutcome'
  BY <1>1, LegMissing, OutcomeOpen DEF Running
<1> QED
  BY <1>4, <1>5, <1>6 DEF OutcomeInv

\* A replacement leaves the legs as they are.
LEMMA ReplacementOutcome ==
  ASSUME ControlInv, Progress, TranscriptInv, OutcomeInv, ReplacementCompletes
  PROVE  OutcomeInv'
<1>1. /\ pc = "replace"
      /\ UNCHANGED <<script, legs, memory, population, status, control>>
  BY DEF ReplacementCompletes, Fail, Advance, target
<1>2. idx \in 4..9 /\ Len(steps) = idx - 1 /\ Len(legs) # 2
  BY <1>1, ReplacePopulation, LegMissing DEF Progress, RunningProgress, Running
<1>3. CASE UNCHANGED steps /\ pc' = "done"
  BY <1>1, <1>2, <1>3, OutcomeUntouched
<1>4. ASSUME NEW action, steps' = Append(steps, action), Advance
      PROVE  OutcomeInv'
  <2>1. steps \in Seq(PointType \cup ReplacementType)
    BY DEF ControlInv, TypeOK
  <2>2. Len(steps') = idx /\ \A i \in 1..(idx - 1) : steps'[i] = steps[i]
    BY <1>2, <1>4, <2>1
  <2>3. pc' = "step" /\ idx' = idx + 1
    BY <1>4 DEF Advance
  <2>4. ControlKept'
    BY <1>1, <1>2, <2>2, <2>3, ControlBehind DEF OutcomeInv
  <2>5. LegsGuarded'
    BY <1>1 DEF OutcomeInv, LegsGuarded
  <2>6. CompleteOutcome'
    BY <1>1, <2>3, OutcomeOpen
  <2> QED
    BY <2>4, <2>5, <2>6 DEF OutcomeInv
<1> QED
  BY <1>3, <1>4 DEF ReplacementCompletes, Fail

\* The run says complete only when both legs are kept.
LEMMA FinishOutcome ==
  ASSUME ControlInv, Progress, TranscriptInv, OutcomeInv, Finish
  PROVE  OutcomeInv'
<1>1. idx = 10
  <2>1. Running /\ pc = "step" /\ idx > Len(script.steps)
    BY DEF Finish, Running
  <2> QED
    BY <2>1, PlaceInPlan DEF Progress
<1>2. pending = Absent /\ pc = "step"
  BY <1>1 DEF TranscriptInv, PendingFits, Finish
<1>3. /\ UNCHANGED <<control, steps, legs>> /\ pc' = "done"
      /\ \/ status' = status /\ Len(legs) # 2
         \/ status' = "complete"
  BY <1>2 DEF Finish, Fail, core
<1>4. ControlReturns(steps)
  <2>1. Len(control) = 3 /\ ControlReturns(control) /\ \A i \in 1..3 : control[i] = steps[i]
    BY <1>1, <1>2 DEF OutcomeInv, ControlKept
  <2> QED
    BY <2>1 DEF ControlReturns
<1>5. ControlKept' /\ LegsGuarded'
  BY <1>3 DEF OutcomeInv, ControlKept, LegsGuarded
<1>6. CompleteOutcome'
  BY <1>3, <1>4 DEF CompleteOutcome, ControlReturns
<1> QED
  BY <1>5, <1>6 DEF OutcomeInv

\* Every step keeps what the executor has checked.
LEMMA OutcomeStep ==
  ASSUME ControlInv, Progress, TranscriptInv, OutcomeInv, [Next]_vars
  PROVE  OutcomeInv'
<1> USE DEF vars, core, transcript, target, helper, timing
<1>1. CASE Validate \/ HelperClicks \/ ClickLands \/ HelperReplaces \/ HelperDetaches \/ OrphanExits
           \/ Tick
  <2>1. UNCHANGED <<control, steps, legs, status, idx>> /\ (pc' # "reap" \/ pc' = pc)
    BY <1>1 DEF Validate, HelperClicks, ClickLands, HelperReplaces, HelperDetaches, OrphanExits, Tick
  <2>2. UNCHANGED <<control, steps, legs, status, idx>> /\ (pc' = "done" <=> pc = "done")
    BY <1>1 DEF Validate, HelperClicks, ClickLands, HelperReplaces, HelperDetaches, OrphanExits, Tick
  <2>3. pc' = "reap" => idx \in 1..9
    BY <2>1 DEF OutcomeInv, CompleteOutcome
  <2> QED
    BY <2>2, <2>3, OutcomeUntouched
<1>2. CASE HelperTimesOut \/ SelectionCompletes \/ Reap \/ ReadBreaks \/ HelperBreaks
           \/ ReplacementDeclines \/ SelectionDeclines \/ WitnessMismatch \/ ReadPointer
           \/ BeginQualify \/ BeginAttempt \/ BeginReplace
  <2>1. Running /\ (pc = "step" => idx <= Len(script.steps))
    BY <1>2 DEF HelperTimesOut, SelectionCompletes, Reap, ReadBreaks, HelperBreaks,
       ReplacementDeclines, SelectionDeclines, WitnessMismatch, ReadPointer, BeginQualify,
       BeginAttempt, BeginReplace, Running
  <2>2. idx \in 1..9 /\ Len(legs) # 2
    BY <2>1, LegMissing
  <2>3. UNCHANGED <<control, steps, legs, status, idx>>
    BY <1>2 DEF HelperTimesOut, SelectionCompletes, Reap, ReadBreaks, HelperBreaks,
       ReplacementDeclines, SelectionDeclines, WitnessMismatch, ReadPointer, BeginQualify,
       BeginAttempt, BeginReplace, RetryOrFail, Fail, Launch
  <2> QED
    BY <2>1, <2>2, <2>3, OutcomeUntouched DEF Running
<1>3. CASE RecordControl \/ RecordPre \/ RecordPost
  BY <1>3, ControlOutcome, PreOutcome, PostOutcome
<1>4. CASE ReplacementCompletes \/ Finish
  BY <1>4, ReplacementOutcome, FinishOutcome
<1>5. CASE Returned \/ UNCHANGED vars
  <2>1. UNCHANGED <<control, steps, legs, status, idx, pc>>
    BY <1>5 DEF Returned
  <2> QED
    BY <2>1, OutcomeUntouched DEF OutcomeInv, CompleteOutcome
<1> QED
  BY <1>1, <1>2, <1>3, <1>4, <1>5 DEF Next, Executor, Environment
(***************************************************************************)
(* What the adapter will check again holds of every transcript, and behind *)
(* the second leg nothing can stop the run from being complete.            *)
(***************************************************************************)
THEOREM OutcomeInvariant == Spec => [](ControlInv /\ Progress /\ TranscriptInv /\ OutcomeInv)
<1>1. Init => OutcomeInv
  BY OutcomeInit
<1>2. ControlInv /\ Progress /\ TranscriptInv /\ OutcomeInv /\ [Next]_vars => OutcomeInv'
  BY OutcomeStep
<1> QED
  BY <1>1, <1>2, TranscriptInvariant, PTL DEF Spec

-----------------------------------------------------------------------------
(* The adapter on the transcript of a run that is over.                     *)

Returns == ControlInv /\ Progress /\ TranscriptInv /\ OutcomeInv /\ pc = "done"

\* The replace steps of a validated script carry the two mechanisms in order.
LEMMA PlanMechanisms ==
  ASSUME Returns
  PROVE  /\ script.steps[5].mechanism = "new-game-reset"
         /\ script.steps[8].mechanism = "save-load-replacement"
         /\ IdsAreUnique(script.steps)
<1>1. ValidScript(script.steps, script.bounds)
  BY DEF Returns, ControlInv, ScriptIsValid
<1>2. ObservedMechanisms(script.steps) = RequiredMechanisms /\ IdsAreUnique(script.steps)
  BY <1>1 DEF ValidScript
<1>3. Len(script.steps) = 9
  BY PlanFollowed DEF Returns
<1>4. ObservedMechanisms(script.steps) = [k \in 1..2 |-> script.steps[3 * k + 2].mechanism]
  <2>1. (9 - 3) \div 3 = 2
    OBVIOUS
  <2> QED
    BY <1>3, <2>1 DEF ObservedMechanisms
<1>5. /\ ObservedMechanisms(script.steps)[1] = script.steps[5].mechanism
      /\ ObservedMechanisms(script.steps)[2] = script.steps[8].mechanism
  BY <1>4
<1>6. RequiredMechanisms[1] = "new-game-reset" /\ RequiredMechanisms[2] = "save-load-replacement"
  BY DEF RequiredMechanisms
<1> QED
  BY <1>2, <1>5, <1>6

\* The points of the transcript are the entries with a phase.
LEMMA PointsAreTold ==
  ASSUME Returns, NEW i \in 1..Len(steps)
  PROVE  /\ i \in 1..9
         /\ IsPoint(steps[i]) <=> i \notin ReplaceSteps
         /\ i \notin ReplaceSteps => steps[i].phase = script.steps[i].phase
         /\ steps[i].step = script.steps[i].id
<1>1. i \in 1..9 /\ EntryFits(i, steps[i], seen[i])
  BY EntryKinds DEF Returns
<1>2. CASE i \in ReplaceSteps
  <2>1. steps[i] \in ReplacementType /\ steps[i].step = script.steps[i].id
    BY <1>1, <1>2 DEF EntryFits, ReplacementFits
  <2>2. DOMAIN steps[i] = {"step", "mechanism", "lifecycle_signal"}
    BY <2>1 DEF ReplacementType
  <2> QED
    BY <1>1, <1>2, <2>1, <2>2 DEF IsPoint
<1>3. CASE i \notin ReplaceSteps
  <2>1. /\ steps[i] \in PointType /\ steps[i].step = script.steps[i].id
        /\ steps[i].phase = script.steps[i].phase
    BY <1>1, <1>3 DEF EntryFits, PointFits
  <2>2. "phase" \in DOMAIN steps[i]
    BY <2>1 DEF PointType
  <2> QED
    BY <1>1, <1>3, <2>1, <2>2 DEF IsPoint
<1> QED
  BY <1>2, <1>3

\* A step id leads back to its one entry.
LEMMA StepsAreFound ==
  ASSUME Returns
  PROVE  Indexable /\ \A i \in 1..Len(steps) : PositionOf(steps[i].step) = i
<1>1. Indexable
  <2> SUFFICES ASSUME NEW i \in 1..Len(steps), NEW j \in 1..Len(steps),
                      steps[i].step = steps[j].step
               PROVE  i = j
    BY DEF Indexable
  <2>1. i \in 1..9 /\ j \in 1..9 /\ script.steps[i].id = script.steps[j].id
    BY PointsAreTold
  <2>2. Len(script.steps) = 9
    BY PlanFollowed DEF Returns
  <2> QED
    BY <2>1, <2>2, PlanMechanisms DEF IdsAreUnique
<1>2. ASSUME NEW i \in 1..Len(steps) PROVE PositionOf(steps[i].step) = i
  <2>1. \E j \in 1..Len(steps) : steps[j].step = steps[i].step
    OBVIOUS
  <2>2. /\ PositionOf(steps[i].step) \in 1..Len(steps)
        /\ steps[PositionOf(steps[i].step)].step = steps[i].step
    BY <2>1 DEF PositionOf
  <2> QED
    BY <1>1, <2>2 DEF Indexable
<1> QED
  BY <1>1, <1>2

\* The selection-control points are the first three entries, as far as there.
LEMMA ControlPlaces ==
  ASSUME Returns
  PROVE  ControlPoints = {i \in 1..Len(steps) : i \in {1, 2, 3}}
<1>1. ASSUME NEW i \in 1..Len(steps)
      PROVE  (IsPoint(steps[i]) /\ steps[i].phase = "selection-control") <=> i \in {1, 2, 3}
  <2>1. i \in {1, 2, 3} \/ i \in PreSteps \/ i \in PostSteps \/ i \in ReplaceSteps
    BY PointsAreTold DEF PreSteps, PostSteps, ReplaceSteps
  <2>2. CASE i \in {1, 2, 3}
    BY <2>2, PointsAreTold, PlanFollowed DEF Returns, ReplaceSteps
  <2>3. CASE i \in PreSteps
    BY <2>3, PointsAreTold, PlanFollowed DEF Returns, ReplaceSteps, PreSteps
  <2>4. CASE i \in PostSteps
    BY <2>4, PointsAreTold, PlanFollowed DEF Returns, ReplaceSteps, PostSteps
  <2>5. CASE i \in ReplaceSteps
    BY <2>5, PointsAreTold DEF ReplaceSteps
  <2> QED
    BY <2>1, <2>2, <2>3, <2>4, <2>5
<1> QED
  BY <1>1 DEF ControlPoints

\* The control of a complete transcript satisfies the adapter.
LEMMA ControlAdapts ==
  ASSUME Returns
  PROVE  SelectionAdapts
<1> SUFFICES ASSUME status = "complete" PROVE SelectionAdapts
  BY DEF SelectionAdapts
<1>1. Len(steps) = 9 /\ ControlReturns(steps)
  BY DEF Returns, TranscriptInv, CompleteFits, OutcomeInv, CompleteOutcome
<1>2. ControlPoints = {1, 2, 3}
  BY <1>1, ControlPlaces
<1>3. ASSUME NEW i \in {1, 2, 3} PROVE steps[i].logical_record = script.steps[i].label
  <2>1. i \in 1..Len(steps) /\ i \notin ReplaceSteps
    BY <1>1 DEF ReplaceSteps
  <2> QED
    BY <2>1, EntryKinds DEF Returns, EntryFits, PointFits
<1>4. ControlShape(script.steps)
  BY DEF Returns, ControlInv, ScriptIsValid, ValidScript
<1>5. /\ steps[1].logical_record # steps[2].logical_record
      /\ steps[3].logical_record = steps[1].logical_record
  BY <1>3, <1>4 DEF ControlShape
<1>6. 1 < 2 /\ 2 < 3
  OBVIOUS
<1> QED
  BY <1>1, <1>2, <1>5, <1>6 DEF SelectionAdapts, ControlReturns
\* The legs of the transcript, each with the mechanism of its place.
LEMMA LegsAreNamed ==
  ASSUME Returns
  PROVE  /\ Len(legs) \in 0..2
         /\ Len(legs) >= 1 => legs[1].mechanism = "new-game-reset"
         /\ Len(legs) >= 2 => legs[2].mechanism = "save-load-replacement"
<1>1. Len(legs) \in 0..2
  BY DEF Returns, TranscriptInv, LegsFit
<1>2. ASSUME NEW k \in 1..Len(legs)
      PROVE  legs[k].mechanism = script.steps[3*k + 2].mechanism
  <2>1. legs[k] = Leg(steps[3*k + 1], steps[3*k + 2], steps[3*k + 3]) /\ 3*k + 3 <= Len(steps)
    BY DEF Returns, TranscriptInv, LegsFit
  <2>2. legs[k].mechanism = steps[3*k + 2].mechanism
    BY <2>1 DEF Leg
  <2>3. k \in {1, 2}
    <3>1. \A n \in 0..2 : \A j \in 1..n : j \in {1, 2}
      OBVIOUS
    <3> QED
      BY <1>1, <3>1, Zenon
  <2>4. 3*k + 2 \in 1..Len(steps) /\ 3*k + 2 \in ReplaceSteps
    <3>1. Len(steps) \in Nat
      BY DEF Returns, TranscriptInv, EntriesFit
    <3> QED
      BY <2>1, <2>3, <3>1 DEF ReplaceSteps
  <2>5. steps[3*k + 2].mechanism = script.steps[3*k + 2].mechanism
    BY <2>4, EntryKinds DEF Returns, EntryFits, ReplacementFits
  <2> QED
    BY <2>2, <2>5
<1>3. Len(legs) >= 1 => legs[1].mechanism = "new-game-reset"
  <2> SUFFICES ASSUME Len(legs) >= 1 PROVE legs[1].mechanism = "new-game-reset"
    OBVIOUS
  <2>1. 1 \in 1..Len(legs) /\ 3*1 + 2 = 5
    BY <1>1
  <2>2. legs[1].mechanism = script.steps[3*1 + 2].mechanism
    BY <1>2, <2>1
  <2> QED
    BY <2>1, <2>2, PlanMechanisms
<1>4. Len(legs) >= 2 => legs[2].mechanism = "save-load-replacement"
  <2> SUFFICES ASSUME Len(legs) >= 2 PROVE legs[2].mechanism = "save-load-replacement"
    OBVIOUS
  <2>1. 2 \in 1..Len(legs) /\ 3*2 + 2 = 8
    BY <1>1
  <2>2. legs[2].mechanism = script.steps[3*2 + 2].mechanism
    BY <1>2, <2>1
  <2> QED
    BY <2>1, <2>2, PlanMechanisms
<1> QED
  BY <1>1, <1>3, <1>4

\* The adapter finds every leg's entries where the executor took them from.
LEMMA LegIsFound ==
  ASSUME Returns, NEW k \in 1..Len(legs)
  PROVE  LegAdapts(legs[k])
<1> DEFINE a == 3*k + 1
<1>1. /\ legs[k] = Leg(steps[a], steps[a + 1], steps[a + 2])
      /\ a \in 1..Len(steps) /\ a + 1 \in 1..Len(steps) /\ a + 2 \in 1..Len(steps)
      /\ a \in PreSteps /\ a + 1 \in ReplaceSteps /\ a + 2 \in PostSteps
  <2>1. legs[k] = Leg(steps[3*k + 1], steps[3*k + 2], steps[3*k + 3]) /\ 3*k + 3 <= Len(steps)
    BY DEF Returns, TranscriptInv, LegsFit
  <2>2. k \in {1, 2}
    <3>1. Len(legs) \in 0..2
      BY LegsAreNamed
    <3>2. \A n \in 0..2 : \A j \in 1..n : j \in {1, 2}
      OBVIOUS
    <3> QED
      BY <3>1, <3>2, Zenon
  <2>3. Len(steps) \in Nat
    BY DEF Returns, TranscriptInv, EntriesFit
  <2>4. a + 1 = 3*k + 2 /\ a + 2 = 3*k + 3
    BY <2>2
  <2>5. a \in 1..Len(steps) /\ a + 1 \in 1..Len(steps) /\ a + 2 \in 1..Len(steps)
    BY <2>1, <2>2, <2>3
  <2>6. a \in PreSteps /\ a + 1 \in ReplaceSteps /\ a + 2 \in PostSteps
    BY <2>2 DEF PreSteps, ReplaceSteps, PostSteps
  <2> QED
    BY <2>1, <2>4, <2>5, <2>6
<1> HIDE DEF a
<1>2. /\ legs[k].pre_step = steps[a].step /\ legs[k].replace_step = steps[a + 1].step
      /\ legs[k].post_step = steps[a + 2].step /\ legs[k].mechanism = steps[a + 1].mechanism
  BY <1>1 DEF Leg
<1>3. /\ PositionOf(legs[k].pre_step) = a
      /\ PositionOf(legs[k].replace_step) = a + 1
      /\ PositionOf(legs[k].post_step) = a + 2
  BY <1>1, <1>2, StepsAreFound
<1>4. /\ IsPoint(steps[a]) /\ steps[a].phase = "pre-replacement"
      /\ IsPoint(steps[a + 2]) /\ steps[a + 2].phase = "post-replacement"
      /\ ~IsPoint(steps[a + 1])
  <2>1. a \notin ReplaceSteps /\ a + 2 \notin ReplaceSteps
    BY <1>1 DEF PreSteps, PostSteps, ReplaceSteps
  <2>2. /\ script.steps[a].phase = "pre-replacement"
        /\ script.steps[a + 2].phase = "post-replacement"
    BY <1>1, PlanFollowed DEF Returns
  <2>3. IsPoint(steps[a]) /\ steps[a].phase = script.steps[a].phase
    BY <1>1, <2>1, PointsAreTold
  <2>4. IsPoint(steps[a + 2]) /\ steps[a + 2].phase = script.steps[a + 2].phase
    BY <1>1, <2>1, PointsAreTold
  <2>5. ~IsPoint(steps[a + 1])
    BY <1>1, PointsAreTold
  <2> QED
    BY <2>2, <2>3, <2>4, <2>5
<1>5. {legs[k].pre_step, legs[k].replace_step, legs[k].post_step}
        \subseteq {steps[i].step : i \in 1..Len(steps)}
  BY <1>1, <1>2
<1> QED
  BY <1>1, <1>2, <1>3, <1>4, <1>5 DEF LegAdapts

\* The adapter returns a record for every transcript the executor returns.
LEMMA AlwaysAdapts ==
  ASSUME Returns
  PROVE  Adapts
<1>1. status = "complete" => Len(legs) = 2
  BY DEF Returns, TranscriptInv, CompleteFits
<1>2. Len(legs) = 2 => {legs[k].mechanism : k \in 1..Len(legs)} = Mechanisms
  <2> SUFFICES ASSUME Len(legs) = 2
               PROVE  {legs[k].mechanism : k \in 1..Len(legs)} = Mechanisms
    OBVIOUS
  <2>1. 1..Len(legs) = {1, 2}
    OBVIOUS
  <2> QED
    BY <2>1, LegsAreNamed DEF Mechanisms
<1> QED
  BY <1>1, <1>2, StepsAreFound, ControlAdapts, LegIsFound DEF Adapts

-----------------------------------------------------------------------------
(* The derived record.                                                      *)

\* The transitions of the record: the control, if any of it was observed, and
\* then the legs.
LEMMA TransitionsOfTheRecord ==
  ASSUME Returns, NEW t, t = LifetimeRecord.transitions
  PROVE  \/ /\ steps = <<>> /\ Len(legs) = 0 /\ Len(t) = 0
         \/ /\ Len(t) = Len(legs) + 1
            /\ t[1].label = "selection-control" /\ ~t[1].reused
            /\ \A k \in 1..Len(legs) :
                 /\ t[k + 1].label = legs[k].mechanism
                 /\ t[k + 1].reused = legs[k].pointer_reused
                 /\ t[k + 1].signal = legs[k].lifecycle_signal
<1> DEFINE first == [label |-> "selection-control", reused |-> FALSE, signal |-> "none"]
           rest  == [k \in 1..Len(legs) |-> [label |-> legs[k].mechanism,
                       reused |-> legs[k].pointer_reused, signal |-> legs[k].lifecycle_signal]]
<1>1. t = (IF ControlPoints = {} THEN <<>> ELSE <<first>>) \o rest
  BY DEF LifetimeRecord
<1>2. Len(legs) \in Nat /\ Len(steps) \in Nat
  BY DEF Returns, TranscriptInv, LegsFit, EntriesFit
<1>3. rest \in Seq({rest[k] : k \in 1..Len(legs)}) /\ Len(rest) = Len(legs)
  BY <1>2
<1>4. \A k \in 1..Len(legs) : /\ rest[k].label = legs[k].mechanism
                              /\ rest[k].reused = legs[k].pointer_reused
                              /\ rest[k].signal = legs[k].lifecycle_signal
  OBVIOUS
<1>5. first.label = "selection-control" /\ ~first.reused
  OBVIOUS
<1> HIDE DEF first, rest
<1>6. CASE ControlPoints = {}
  <2>1. steps = <<>>
    <3>1. ~(1 \in 1..Len(steps))
      BY <1>6, ControlPlaces
    <3>2. steps \in Seq(PointType \cup ReplacementType)
      BY DEF Returns, ControlInv, TypeOK
    <3> QED
      BY <3>1, <3>2
  <2>2. Len(legs) = 0
    <3>1. Len(legs) \in 0..2 /\ \A k \in 1..Len(legs) : 3*k + 3 <= Len(steps)
      BY DEF Returns, TranscriptInv, LegsFit
    <3>2. Len(steps) = 0
      BY <2>1
    <3>3. ~(1 \in 1..Len(legs))
      BY <3>1, <3>2
    <3> QED
      BY <1>2, <3>3
  <2>3. t = <<>> \o rest /\ Len(t) = 0
    BY <1>1, <1>3, <1>6, <2>2
  <2> QED
    BY <2>1, <2>2, <2>3
<1>7. CASE ControlPoints # {}
  <2>1. t = <<first>> \o rest
    BY <1>1, <1>7
  <2>2. Len(t) = Len(legs) + 1 /\ t[1] = first /\ \A k \in 1..Len(legs) : t[k + 1] = rest[k]
    BY <1>2, <1>3, <2>1
  <2> QED
    BY <1>4, <1>5, <2>2
<1> QED
  BY <1>6, <1>7
\* The record's labels: the control's, then those of the legs in the plan's
\* order, so that their number tells which there are.
LEMMA LabelsOfTheRecord ==
  ASSUME Returns, NEW t, t = LifetimeRecord.transitions
  PROVE  /\ Len(t) \in 0..3
         /\ Len(t) >= 1 => t[1].label = "selection-control"
         /\ Len(t) >= 2 => t[2].label = "new-game-reset"
         /\ Len(t) >= 3 => t[3].label = "save-load-replacement"
         /\ Len(t) = 3 <=> Len(legs) = 2
<1>1. Len(legs) \in 0..2
  BY LegsAreNamed
<1>2. CASE Len(legs) = 0 /\ Len(t) = 0
  BY <1>2
<1>3. CASE /\ Len(t) = Len(legs) + 1 /\ t[1].label = "selection-control"
           /\ \A k \in 1..Len(legs) : t[k + 1].label = legs[k].mechanism
  <2>1. Len(t) \in 0..3 /\ (Len(t) = 3 <=> Len(legs) = 2)
    BY <1>1, <1>3
  <2>2. ASSUME Len(t) >= 2 PROVE t[2].label = "new-game-reset"
    <3>1. Len(legs) >= 1 /\ 1 \in 1..Len(legs) /\ 1 + 1 = 2
      BY <1>1, <1>3, <2>2
    <3>2. t[1 + 1].label = legs[1].mechanism
      BY <1>3, <3>1
    <3> QED
      BY <3>1, <3>2, LegsAreNamed
  <2>3. ASSUME Len(t) >= 3 PROVE t[3].label = "save-load-replacement"
    <3>1. Len(legs) >= 2 /\ 2 \in 1..Len(legs) /\ 2 + 1 = 3
      BY <1>1, <1>3, <2>3
    <3>2. t[2 + 1].label = legs[2].mechanism
      BY <1>3, <3>1
    <3> QED
      BY <3>1, <3>2, LegsAreNamed
  <2> QED
    BY <1>3, <2>1, <2>2, <2>3
<1> QED
  BY <1>2, <1>3, TransitionsOfTheRecord

\* No label is in the record twice: the oracle accepts it.
LEMMA AlwaysAccepted ==
  ASSUME Returns
  PROVE  OracleAccepts(LifetimeRecord)
<1> DEFINE t == LifetimeRecord.transitions
<1>1. /\ Len(t) \in 0..3
      /\ Len(t) >= 1 => t[1].label = "selection-control"
      /\ Len(t) >= 2 => t[2].label = "new-game-reset"
      /\ Len(t) >= 3 => t[3].label = "save-load-replacement"
  BY LabelsOfTheRecord
<1> HIDE DEF t
<1>2. ASSUME NEW i \in 1..Len(t), NEW j \in 1..Len(t), t[i].label = t[j].label
      PROVE  i = j
  BY <1>1, <1>2
<1> QED
  BY <1>2 DEF OracleAccepts, t

\* All three transitions are in the record of a complete transcript and in no
\* other.
LEMMA CoverageIsEarned ==
  ASSUME Returns, record = LifetimeRecord
  PROVE  CoverageMeansComplete
<1> DEFINE t == record.transitions
           covered == {t[i].label : i \in 1..Len(t)} = {"selection-control"} \cup Mechanisms
<1>1. /\ Len(t) \in 0..3
      /\ Len(t) >= 1 => t[1].label = "selection-control"
      /\ Len(t) >= 2 => t[2].label = "new-game-reset"
      /\ Len(t) >= 3 => t[3].label = "save-load-replacement"
      /\ Len(t) = 3 <=> Len(legs) = 2
  BY LabelsOfTheRecord
<1>2. Len(legs) = 2 <=> status = "complete"
  BY DEF Returns, TranscriptInv, CompleteFits, OutcomeInv, CompleteOutcome
<1>3. record.control_passed => status = "complete"
  BY DEF LifetimeRecord
<1> HIDE DEF t
<1>4. covered <=> Len(t) = 3
  <2>1. CASE Len(t) = 3
    <3>1. 1..Len(t) = {1, 2, 3}
      BY <2>1
    <3> QED
      BY <1>1, <2>1, <3>1 DEF Mechanisms
  <2>2. CASE Len(t) # 3
    <3>1. ASSUME NEW i \in 1..Len(t) PROVE t[i].label # "save-load-replacement"
      BY <1>1, <2>2
    <3>2. "save-load-replacement" \in {"selection-control"} \cup Mechanisms
      BY DEF Mechanisms
    <3> QED
      BY <2>2, <3>1, <3>2
  <2> QED
    BY <2>1, <2>2
<1> QED
  BY <1>1, <1>2, <1>3, <1>4 DEF CoverageMeansComplete, t

\* A reuse in the record has the signal the executor asked for.
LEMMA ReuseIsGuarded ==
  ASSUME Returns, record = LifetimeRecord
  PROVE  ReportedReuseIsGuarded
<1> DEFINE t == record.transitions
<1> SUFFICES ASSUME NEW i \in 1..Len(t), t[i].reused PROVE t[i].signal = "early"
  BY DEF ReportedReuseIsGuarded
<1>1. \/ Len(t) = 0
      \/ /\ Len(t) = Len(legs) + 1 /\ ~t[1].reused
         /\ \A k \in 1..Len(legs) : /\ t[k + 1].reused = legs[k].pointer_reused
                                    /\ t[k + 1].signal = legs[k].lifecycle_signal
  BY TransitionsOfTheRecord
<1>2. Len(legs) \in 0..2
  BY LegsAreNamed
<1> HIDE DEF t
<1>3. Len(t) = Len(legs) + 1 /\ i # 1
  BY <1>1
<1>4. i - 1 \in 1..Len(legs) /\ (i - 1) + 1 = i
  BY <1>2, <1>3
<1>5. /\ t[(i - 1) + 1].reused = legs[i - 1].pointer_reused
      /\ t[(i - 1) + 1].signal = legs[i - 1].lifecycle_signal
  <2>1. \A k \in 1..Len(legs) : /\ t[k + 1].reused = legs[k].pointer_reused
                                /\ t[k + 1].signal = legs[k].lifecycle_signal
    BY <1>1, <1>2, <1>3
  <2> QED
    BY <2>1, <1>4, Zenon
<1> QED
  BY <1>4, <1>5 DEF Returns, OutcomeInv, LegsGuarded

-----------------------------------------------------------------------------
(* The pipeline.                                                            *)

RunInv == ControlInv /\ Progress /\ TranscriptInv /\ OutcomeInv

\* A run that has not begun satisfies all the invariants of the executor.
LEMMA RunInit ==
  Init => RunInv
BY ControlInit, ProgressInit, TranscriptInit, OutcomeInit DEF RunInv

\* Every step of the executor, its helpers and the game keeps all of them.
LEMMA RunStep ==
  ASSUME RunInv, [Next]_vars
  PROVE  RunInv'
<1>1. ControlInv'
  BY TypeStep, ScriptStep, AtStepStep, PointerStep, ReplacingStep, KillTimeStep, FreshStep,
     FlagStep DEF RunInv, ControlInv
<1> QED
  BY <1>1, ProgressStep, TranscriptStep, OutcomeStep DEF RunInv

\* Whatever the pipeline does, the executor behind it takes a step or none.
LEMMA PipelineRunStep ==
  ASSUME RunInv, [PipelineNext]_pipelineVars
  PROVE  RunInv'
<1>1. [Next]_vars
  BY DEF PipelineNext, pipelineVars, Execute, ScriptRaises, Adapt, Judge, PipelineReturned
<1> QED
  BY <1>1, RunStep

\* Adapter and oracle keep what they derived, and derive it from an ended run.
LEMMA PipelineStep ==
  ASSUME RunInv, PipelineInv, [PipelineNext]_pipelineVars
  PROVE  PipelineInv'
<1>1. CASE Execute
  BY <1>1 DEF Execute, PipelineInv
<1>2. CASE ScriptRaises
  BY <1>2 DEF ScriptRaises, PipelineInv, vars
<1>3. CASE Adapt
  <2>1. Adapts
    BY <1>3, AlwaysAdapts DEF Adapt, Returns, RunInv
  <2>2. stage' = "adapted" /\ record' = LifetimeRecord /\ UNCHANGED vars /\ pc = "done"
    BY <1>3, <2>1 DEF Adapt
  <2>3. LifetimeRecord' = LifetimeRecord /\ pc' = pc
    BY <2>2 DEF LifetimeRecord, ControlPoints, IsPoint, vars, transcript
  <2> QED
    BY <2>2, <2>3 DEF PipelineInv
<1>4. CASE Judge
  <2>1. pc = "done" /\ record = LifetimeRecord
    BY <1>4 DEF Judge, PipelineInv
  <2>2. OracleAccepts(record)
    BY <2>1, AlwaysAccepted DEF Returns, RunInv
  <2>3. stage' = "accepted" /\ record' = record /\ UNCHANGED vars
    BY <1>4, <2>2 DEF Judge
  <2>4. LifetimeRecord' = LifetimeRecord /\ pc' = pc
    BY <2>3 DEF LifetimeRecord, ControlPoints, IsPoint, vars, transcript
  <2> QED
    BY <2>1, <2>3, <2>4 DEF PipelineInv
<1>5. CASE PipelineReturned \/ UNCHANGED pipelineVars
  <2>1. UNCHANGED <<stage, record, vars>>
    BY <1>5 DEF PipelineReturned, pipelineVars
  <2>2. LifetimeRecord' = LifetimeRecord /\ pc' = pc
    BY <2>1 DEF LifetimeRecord, ControlPoints, IsPoint, vars, transcript
  <2> QED
    BY <2>1, <2>2 DEF PipelineInv
<1> QED
  BY <1>1, <1>2, <1>3, <1>4, <1>5 DEF PipelineNext

(***************************************************************************)
(* The executor keeps its invariants inside the pipeline, and the pipeline *)
(* has raised for a refused script at most.                                *)
(***************************************************************************)
THEOREM PipelineInvariant == PipelineSpec => [](RunInv /\ PipelineInv)
<1>1. PipelineInit => RunInv /\ PipelineInv
  BY RunInit DEF PipelineInit, PipelineInv
<1>2. RunInv /\ PipelineInv /\ [PipelineNext]_pipelineVars => (RunInv /\ PipelineInv)'
  BY PipelineRunStep, PipelineStep
<1> QED
  BY <1>1, <1>2, PTL DEF PipelineSpec

(***************************************************************************)
(* The adapter and the oracle accept whatever transcript the executor      *)
(* returns, the record claims coverage for a complete one only, and the    *)
(* reuse of a pointer only with the signal that guards it.                 *)
(***************************************************************************)
THEOREM HonestRecord == PipelineSpec => []RecordIsHonest
<1>1. RunInv /\ PipelineInv => RecordIsHonest
  <2> SUFFICES ASSUME RunInv, PipelineInv PROVE RecordIsHonest
    OBVIOUS
  <2>1. RaisesOnlyForTheScript
    BY DEF PipelineInv, RaisesOnlyForTheScript
  <2>2. CASE record = Absent
    BY <2>1, <2>2 DEF RecordIsHonest, CoverageMeansComplete, ReportedReuseIsGuarded
  <2>3. CASE record # Absent
    <3>1. pc = "done" /\ record = LifetimeRecord
      BY <2>3 DEF PipelineInv
    <3> QED
      BY <2>1, <3>1, CoverageIsEarned, ReuseIsGuarded DEF RecordIsHonest, Returns, RunInv
  <2> QED
    BY <2>2, <2>3
<1> QED
  BY <1>1, PipelineInvariant, PTL

(***************************************************************************)
(* The transcript of a run is truthful inside the pipeline as well.        *)
(***************************************************************************)
THEOREM TruthfulInThePipeline == PipelineSpec => []TranscriptIsTruthful
<1>1. RunInv => TranscriptIsTruthful
  BY PlanIsFollowed, PointsHold, PopulationsApart DEF TranscriptIsTruthful, RunInv
<1> QED
  BY <1>1, PipelineInvariant, PTL

-----------------------------------------------------------------------------
(* The plan inside the pipeline.                                           *)

\* In a run of the plan the population is that of the replace steps recorded, or
\* of the one about to be.
PlanKept ==
  /\ Len(steps) \in 0..9
  /\ population \in {Run!Due(Len(steps)), Run!Due(Len(steps) + 1)}
  /\ Verdict = "complete" => Len(steps) = 9

\* What PlanRun promises of its steps keeps the population in step with the plan.
LEMMA PlanStaysKept == Run!RunSpec => []PlanKept
<1>1. Run!RunInit => PlanKept
  BY DEF Run!RunInit, PlanKept, Run!Due
<1>2. PlanKept /\ [Run!RunNext]_(Run!runVars) => PlanKept'
  <2> SUFFICES ASSUME PlanKept, [Run!RunNext]_(Run!runVars) PROVE PlanKept'
    OBVIOUS
  <2>1. CASE UNCHANGED Run!runVars
    BY <2>1 DEF Run!runVars, PlanKept
  <2>2. CASE Run!Admit
    BY <2>2 DEF Run!Admit, PlanKept
  <2>3. CASE Run!ReplaceWorld
    BY <2>3 DEF Run!ReplaceWorld, Run!ReplaceSteps, Run!Due, PlanKept
  <2>4. CASE Run!Record
    BY <2>4 DEF Run!Record, Run!Due, PlanKept
  <2>5. CASE Run!GiveUp
    <3>1. Verdict' # "complete" /\ population' = population
      BY <2>5 DEF Run!GiveUp
    <3>2. CASE Len(steps)' = Len(steps)
      BY <3>1, <3>2 DEF PlanKept
    <3>3. CASE Len(steps) < 9 /\ population = Run!Due(Len(steps) + 1) /\ Len(steps)' = Len(steps) + 1
      BY <3>1, <3>3 DEF PlanKept
    <3> QED
      BY <2>5, <3>2, <3>3 DEF Run!GiveUp
  <2>6. CASE Run!Complete
    BY <2>6 DEF Run!Complete, PlanKept
  <2> QED
    BY <2>1, <2>2, <2>3, <2>4, <2>5, <2>6 DEF Run!RunNext
<1> QED
  BY <1>1, <1>2, PTL DEF Run!RunSpec

\* A record that claims its control passed, or names all three transitions.
ClaimsCoverage ==
  record # Absent
    /\ \/ record.control_passed
       \/ {record.transitions[i].label : i \in 1..Len(record.transitions)}
             = {"selection-control"} \cup Mechanisms

(***************************************************************************)
(* The pipeline runs a plan as PlanRun promises, and a record that claims  *)
(* coverage was derived from a whole run of one: nine steps recorded, and  *)
(* the population replaced twice, no more and no less, whatever was        *)
(* retried, killed or late (run_pipeline, adapt_transcript).               *)
(***************************************************************************)
THEOREM CoverageIsAWholeRun ==
  PipelineSpec => ImplementsPlanRun /\ [](ClaimsCoverage => Len(steps) = 9 /\ population = 2)
<1>1. PipelineInit => Run!RunInit
  BY DEF PipelineInit, Init, Run!RunInit, Verdict
<1>2. RunInv /\ [PipelineNext]_pipelineVars => [Run!RunNext]_(Run!runVars)
  <2>1. [PipelineNext]_pipelineVars => [Next]_vars
    BY DEF PipelineNext, pipelineVars, Execute, ScriptRaises, Adapt, Judge, PipelineReturned
  <2> QED
    BY <2>1, StepRefines DEF RunInv
<1>3. PipelineSpec => ImplementsPlanRun
  BY <1>1, <1>2, PipelineInvariant, PTL DEF PipelineSpec, ImplementsPlanRun, Run!RunSpec
<1>4. ASSUME PipelineInv, RecordIsHonest, PlanKept, ClaimsCoverage
      PROVE  Len(steps) = 9 /\ population = 2
  <2>1. record # Absent /\ status = "complete"
    BY <1>4 DEF ClaimsCoverage, RecordIsHonest, CoverageMeansComplete
  <2>2. pc = "done"
    BY <1>4, <2>1 DEF PipelineInv
  <2>3. Verdict = "complete"
    BY <2>1, <2>2 DEF Verdict
  <2> QED
    <3>1. Len(steps) = 9 /\ population \in {Run!Due(9), Run!Due(9 + 1)}
      BY <1>4, <2>3 DEF PlanKept
    <3>2. Run!Due(9) = 2 /\ Run!Due(9 + 1) = 2
      BY DEF Run!Due
    <3> QED
      BY <3>1, <3>2
<1> QED
  BY <1>3, <1>4, PlanStaysKept, PipelineInvariant, HonestRecord, PTL DEF ImplementsPlanRun

-----------------------------------------------------------------------------
(* The way through the plan is finite.                                     *)

Over(l) == l \in {"done", "rejected"}

\* The order of the points one attempt comes through.
After(l) ==
  CASE l = "attempt" -> {"select", "pointer", "record", "reap"}
    [] l = "select"  -> {"pointer", "record", "reap"}
    [] l = "replace" -> {"reap"}
    [] l = "pointer" -> {"record"}
    [] OTHER         -> {}

\* The run ends, begins, comes to its next step, to the next of the attempts it
\* is allowed, or further within one.
Further ==
  \/ ~Over(pc) /\ Over(pc')
  \/ pc = "validate" /\ pc' = "step" /\ UNCHANGED <<idx, attempt>>
  \/ pc' = "step" /\ idx' = idx + 1 /\ idx' <= Len(script.steps) + 1
  \/ pc = "step" /\ pc' \in {"attempt", "replace"} /\ idx' = idx
  \/ /\ pc' = "attempt" /\ idx' = idx
     /\ attempt' = attempt + 1 /\ attempt' <= script.bounds.maxAttempts
  \/ pc' \in After(pc) /\ UNCHANGED <<idx, attempt>>

LeadsOn == [][UNCHANGED <<pc, idx, attempt>> \/ Further]_vars

\* What the executor waits for: the clock, which is still behind the time at which
\* the helper is killed, or a child that holds the pipes of a killed helper.
Waits ==
  \/ pc \in {"select", "replace"} /\ clock < until /\ clock < Horizon
  \/ pc = "reap" /\ detached

\* Where it waits for neither, the guard of one of its own steps holds.
NeverStuck ==
  \/ Over(pc) \/ Waits
  \/ pc \in {"validate", "attempt", "pointer"}
  \/ pc = "step" /\ \/ idx > Len(script.steps)
                    \/ idx <= Len(script.steps) /\ Step.action \in {"qualify", "replace"}
  \/ pc \in {"select", "replace"} /\ clock >= until
  \/ pc = "reap" /\ ~detached
  \/ pc = "record" /\ (~Witnessed \/ Step.phase \in Phases)

\* A step or its handler moves the run on, if it moves it at all.
LEMMA StepLeadsOn ==
  ASSUME ControlInv, Next
  PROVE  UNCHANGED <<pc, idx, attempt>> \/ Further
<1> USE DEF Fail, Advance, RetryOrFail, Launch, timing, target, core, transcript, helper
<1>1. CASE Validate
  BY <1>1 DEF Validate, Further, Over
<1>2. CASE BeginQualify \/ BeginReplace
  BY <1>2 DEF BeginQualify, BeginReplace, Further, Over
<1>3. CASE BeginAttempt
  BY <1>3 DEF BeginAttempt, Further, Over, After
<1>4. CASE HelperTimesOut \/ SelectionCompletes
  BY <1>4 DEF HelperTimesOut, SelectionCompletes, Further, After
<1>5. CASE SelectionDeclines \/ WitnessMismatch \/ ReadPointer
  <2>1. attempt \in Nat /\ script.bounds.maxAttempts \in Nat
    BY BoundsAreNaturals DEF ControlInv, TypeOK
  <2> QED
    BY <1>5, <2>1 DEF SelectionDeclines, WitnessMismatch, ReadPointer, Further, Over, After
<1>6. CASE HelperBreaks \/ Reap \/ ReplacementDeclines \/ ReadBreaks
  BY <1>6 DEF HelperBreaks, Reap, ReplacementDeclines, ReadBreaks, Further, Over
<1>7. CASE Finish
  BY <1>7 DEF Finish, Further, Over
<1>8. CASE ReplacementCompletes \/ RecordControl \/ RecordPre \/ RecordPost
  <2>1. idx \in Nat /\ Len(script.steps) \in Nat /\ idx <= Len(script.steps)
    <3>1. pc \in {"replace", "record"}
      BY <1>8 DEF ReplacementCompletes, RecordControl, RecordPre, RecordPost, Qualified
    <3>2. idx <= Len(script.steps)
      BY <3>1 DEF ControlInv, AtStep, Qualifying, StepInRange
    <3> QED
      BY <3>2, ScriptAssumption DEF ControlInv, TypeOK
  <2>2. (~Over(pc) /\ Over(pc')) \/ (pc' = "step" /\ idx' = idx + 1)
    BY <1>8 DEF ReplacementCompletes, RecordControl, RecordPre, RecordPost, Qualified, Over
  <2> QED
    BY <2>1, <2>2 DEF Further
<1>9. CASE HelperClicks \/ ClickLands \/ HelperReplaces \/ HelperDetaches \/ OrphanExits \/ Tick \/ Returned
  BY <1>9 DEF HelperClicks, ClickLands, HelperReplaces, HelperDetaches, OrphanExits, Tick, Returned, vars
<1> QED
  BY <1>1, <1>2, <1>3, <1>4, <1>5, <1>6, <1>7, <1>8, <1>9 DEF Next, Executor, Environment

\* The executor is at a step it can take, or waits for the clock or the pipes.
LEMMA OpenOrWaiting ==
  ASSUME ControlInv
  PROVE  NeverStuck
<1>1. /\ clock \in Nat /\ until \in Nat /\ idx \in Nat \ {0} /\ pc \in PCs
      /\ script.bounds.total \in Nat /\ script.bounds.perStep \in Nat
      /\ script.steps \in Seq(StepType)
  BY BoundsAreNaturals, ScriptAssumption DEF ControlInv, TypeOK
<1>2. CASE pc = "step"
  <2>1. CASE idx <= Len(script.steps)
    <3>1. Step \in StepType /\ WellFormedStep(Step)
      BY <1>2, <2>1, StepIsWellFormed DEF ControlInv, ScriptIsValid, Running, StepInRange
    <3> QED
      BY <1>2, <2>1, <3>1 DEF WellFormedStep, NeverStuck
  <2> QED
    BY <1>1, <1>2, <2>1 DEF NeverStuck
<1>3. CASE pc \in {"select", "replace"}
  <2>1. until <= script.bounds.total
    BY <1>3 DEF ControlInv, KillTime
  <2>2. clock < until => clock < Horizon
    BY <1>1, <2>1 DEF Horizon
  <2> QED
    BY <1>1, <1>3, <2>2 DEF NeverStuck, Waits
<1>4. CASE pc = "record"
  <2>1. ValidScript(script.steps, script.bounds) /\ StepInRange /\ Step.action = "qualify"
    BY <1>4 DEF ControlInv, ScriptIsValid, Running, AtStep, Qualifying
  <2>2. Step.phase \in Phases
    BY <2>1, StepIsWellFormed DEF ControlInv, WellFormedStep
  <2> QED
    BY <1>4, <2>2 DEF NeverStuck
<1>5. CASE pc \in {"validate", "attempt", "pointer", "reap", "done", "rejected"}
  BY <1>5 DEF NeverStuck, Waits, Over
<1> QED
  BY <1>1, <1>2, <1>3, <1>4, <1>5 DEF PCs

(***************************************************************************)
(* Whatever its helpers do, the executor either has a step to take or      *)
(* waits for the clock or for a child that holds a killed helper's pipes,  *)
(* and each move brings the run forward by one of finitely many            *)
(* (execute_observer_plan).  This is Terminates without the fairness that  *)
(* takes the steps.                                                        *)
(***************************************************************************)
THEOREM RunsLeadOn == Spec => []NeverStuck /\ LeadsOn
<1>1. ControlInv => NeverStuck
  BY OpenOrWaiting
<1>2. ControlInv /\ [Next]_vars => [UNCHANGED <<pc, idx, attempt>> \/ Further]_vars
  BY StepLeadsOn
<1> QED
  BY <1>1, <1>2, ControlInvariant, PTL DEF Spec, LeadsOn
=============================================================================
