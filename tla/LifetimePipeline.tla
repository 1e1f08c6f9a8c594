-------------------------- MODULE LifetimePipeline --------------------------
(***************************************************************************)
(* run_pipeline of scripts/run_a1_lifetime_pipeline.py: the executor of    *)
(* LifetimeObserver, then adapt_transcript                                 *)
(* (scripts/a1_lifetime_record_adapter.py) on the transcript it returned,  *)
(* then validate_record (scripts/_a1_sidecar_lifetime_oracle_core.py) on   *)
(* the derived record.  The adapter re-derives from the transcript alone   *)
(* what the executor has already checked, and raises where they disagree.  *)
(* All the claims of a derived record are FALSE and its outcome is always  *)
(* "incomplete-harness", so both are left out.                             *)
(***************************************************************************)
EXTENDS LifetimeObserver

VARIABLES
  stage,    \* "executing", "adapted", "accepted" or "raised"
  record    \* the derived record, Absent before there is one

pipelineVars == <<vars, stage, record>>

IsPoint(entry) == "phase" \in DOMAIN entry

\* _step_index: every step id occurs once; where it occurs.
Indexable == \A i, j \in 1..Len(steps) : steps[i].step = steps[j].step => i = j
PositionOf(id) == CHOOSE i \in 1..Len(steps) : steps[i].step = id

\* Where the selection-control points are in the transcript.
ControlPoints == {i \in 1..Len(steps) : IsPoint(steps[i]) /\ steps[i].phase = "selection-control"}

\* _selection_transition raises for a complete transcript whose control is
\* not A -> B -> A, and gives no transition when there is no control point.
SelectionAdapts ==
  status = "complete" =>
    \E i, j, k \in ControlPoints :
      /\ i < j /\ j < k /\ ControlPoints = {i, j, k}
      /\ steps[i].logical_record # steps[j].logical_record
      /\ steps[i].record_pointer # steps[j].record_pointer
      /\ steps[k].logical_record = steps[i].logical_record
      /\ steps[k].record_pointer = steps[i].record_pointer
      /\ steps[k].metadata_sha256 = steps[i].metadata_sha256

\* _replacement_transition: the three steps of the leg are in the transcript,
\* consecutive, of the right phases, and every field of the leg is theirs.
LegAdapts(leg) ==
  /\ {leg.pre_step, leg.replace_step, leg.post_step} \subseteq {steps[i].step : i \in 1..Len(steps)}
  /\ LET at == PositionOf(leg.pre_step)
     IN  /\ PositionOf(leg.replace_step) = at + 1
         /\ PositionOf(leg.post_step) = at + 2
         /\ LET pre == steps[at]  action == steps[at + 1]  post == steps[at + 2]
            IN  /\ IsPoint(pre) /\ pre.phase = "pre-replacement"
                /\ IsPoint(post) /\ post.phase = "post-replacement"
                /\ ~IsPoint(action) /\ action.mechanism = leg.mechanism
                /\ leg = Leg(pre, action, post)

\* A fault: both legs are expected of every transcript.
AdaptsOnlyComplete ==
  /\ Indexable
  /\ Len(legs) = 2
  /\ {legs[k].mechanism : k \in 1..Len(legs)} = Mechanisms
  /\ SelectionAdapts
  /\ \A k \in 1..Len(legs) : LegAdapts(legs[k])

\* adapt_transcript returns: its own checks and those of every transition.
Adapts ==
  /\ Indexable
  /\ status = "complete" =>
       /\ Len(legs) = 2
       /\ {legs[k].mechanism : k \in 1..Len(legs)} = Mechanisms
  /\ SelectionAdapts
  /\ \A k \in 1..Len(legs) : LegAdapts(legs[k])

LifetimeRecord ==
  [control_passed |-> status = "complete" /\ ControlPoints # {},
   transitions |->
     (IF ControlPoints = {} THEN <<>>
      ELSE <<[label |-> "selection-control", reused |-> FALSE, signal |-> "none"]>>)
     \o [k \in 1..Len(legs) |-> [label |-> legs[k].mechanism, reused |-> legs[k].pointer_reused,
                                 signal |-> legs[k].lifecycle_signal]]]

\* validate_record of an incomplete-harness record: no label twice.
OracleAccepts(r) ==
  \A i, j \in 1..Len(r.transitions) : r.transitions[i].label = r.transitions[j].label => i = j

PipelineInit == Init /\ stage = "executing" /\ record = Absent

Execute == Next /\ stage = "executing" /\ UNCHANGED <<stage, record>>

\* validate_action_script's error leaves the pipeline at once.
ScriptRaises ==
  /\ pc = "rejected" /\ stage = "executing"
  /\ stage' = "raised"
  /\ UNCHANGED <<vars, record>>

Adapt ==
  /\ pc = "done" /\ stage = "executing"
  /\ IF Adapts THEN stage' = "adapted" /\ record' = LifetimeRecord
               ELSE stage' = "raised" /\ UNCHANGED record
  /\ UNCHANGED vars

Judge ==
  /\ stage = "adapted"
  /\ stage' = IF OracleAccepts(record) THEN "accepted" ELSE "raised"
  /\ UNCHANGED <<vars, record>>

PipelineReturned == stage \in {"accepted", "raised"} /\ UNCHANGED pipelineVars

PipelineNext == Execute \/ ScriptRaises \/ Adapt \/ Judge \/ PipelineReturned

PipelineSpec == PipelineInit /\ [][PipelineNext]_pipelineVars

(***************************************************************************)
(* The adapter and the oracle accept every transcript the executor can     *)
(* return, however the run ended: the pipeline raises only for a script    *)
(* the validator refused (run_pipeline).                                   *)
(***************************************************************************)
RaisesOnlyForTheScript == stage = "raised" => pc = "rejected"

(***************************************************************************)
(* The three predeclared transitions are all in the derived record exactly *)
(* when the transcript is complete: a run that stopped early never looks   *)
(* covered, and control.passed is claimed for no other record.             *)
(***************************************************************************)
CoverageMeansComplete ==
  record # Absent =>
    LET covered == {record.transitions[i].label : i \in 1..Len(record.transitions)}
                     = {"selection-control"} \cup Mechanisms
    IN  /\ covered <=> status = "complete"
        /\ record.control_passed => covered

(***************************************************************************)
(* A reuse of the pointer reported for a leg carries a signal that changed *)
(* before the new population was addressed, in the record as in the        *)
(* transcript.                                                             *)
(***************************************************************************)
ReportedReuseIsGuarded ==
  record # Absent =>
    \A i \in 1..Len(record.transitions) :
      record.transitions[i].reused => record.transitions[i].signal = "early"

(***************************************************************************)
(* The adapter and the oracle accept every transcript the executor can     *)
(* return, the record claims coverage for a complete one only, and the     *)
(* reuse of a pointer only under a signal that changed before the new      *)
(* population was addressed (run_pipeline, adapt_transcript).              *)
(***************************************************************************)
RecordIsHonest ==
  /\ RaisesOnlyForTheScript
  /\ CoverageMeansComplete
  /\ ReportedReuseIsGuarded
=============================================================================
