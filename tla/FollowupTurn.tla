---------------------------- MODULE FollowupTurn ----------------------------
(***************************************************************************)
(* The follow-up of the turn experiment: monitor_turn of                   *)
(* scripts/run_re5_runtime_turn_path_followup.py watches one scenario of   *)
(* scripts/re5_followup_model.py under its own stop policy, and the        *)
(* functions of that file judge the trace, and the artifacts of the six    *)
(* scenarios together.  The patching, arming and teardown of a run are     *)
(* those of TurnProbe, whose operations the follow-up calls.               *)
(*                                                                         *)
(* A sample is what one pause of the game shows of the planet:             *)
(*   [slot, action, managed, stardate, collateral]                         *)
(* slot says whether +0x52 holds a slot; collateral is the set of the      *)
(* neighbours (left, right) whose action is the marker.                    *)
(***************************************************************************)
EXTENDS Integers, Sequences

ProgressTarget == 4      \* MANUAL_GATE_PROGRESS_TARGET

Scenarios == {"manual-control", "manual-gate-probe", "managed-gate-probe", "managed-control",
              "managed-policy-suppressed", "managed-action-write-suppressed"}

\* ScenarioSpec of a scenario, require_collateral_bracket (FALSE) apart.
Managed(s) == s \notin {"manual-control", "manual-gate-probe"}
Probe(s) == s \in {"manual-gate-probe", "managed-gate-probe"}
StopPolicy(s) ==
  CASE s = "manual-gate-probe"  -> "progress_target_or_timeout"
    [] s = "managed-gate-probe" -> "fixed_window"
    [] OTHER                    -> "first_action"

\* observation_policy.
Policy(s) == [stop |-> StopPolicy(s),
              target |-> IF s = "manual-gate-probe" THEN ProgressTarget ELSE 0]

\* ACCEPTED_SCENARIO_CONTRACTS: the version of the contract.
AcceptedContracts(s) ==
  CASE s = "manual-gate-probe"  -> {3}
    [] s = "managed-gate-probe" -> {2, 3}
    [] OTHER                    -> {1}

----------------------------------------------------------------------------
\* coherent_sample before the window: the planet starts empty.
StartsEmpty(first) == ~first.slot /\ first.action = "none"

\* A fault: any progress is the target.
StopsAtOnce(s, changed, progress) ==
  CASE StopPolicy(s) = "first_action" /\ changed -> "first_action"
    [] StopPolicy(s) = "progress_target_or_timeout" /\ progress >= 1 -> "progress_target"
    [] OTHER -> "none"

\* stop_reason_for_sample ("none": go on).
StopReason(s, changed, progress) ==
  CASE StopPolicy(s) = "first_action" /\ changed -> "first_action"
    [] StopPolicy(s) = "progress_target_or_timeout" /\ progress >= ProgressTarget -> "progress_target"
    [] OTHER -> "none"

\* What the loop of monitor_turn knows after the samples after the first:
\* first_slot_change_ms, first_action_change_ms and first_marker_ms as the
\* number of the sample (0: not yet), the collateral seen, the last sample
\* read and why it stopped.
Unread(first) ==
  [slot |-> 0, action |-> 0, marker |-> 0, collateral |-> {}, last |-> first, stop |-> "none"]

\* first_observation_ms: only the first time counts.
FirstTime(seen, condition, now) == IF seen = 0 /\ condition THEN now ELSE seen

\* One iteration, for the sample of number n.  Nothing is read after a stop.
Read(s, first, before, sample, n) ==
  IF before.stop # "none" THEN before
  ELSE [slot |-> FirstTime(before.slot, sample.slot # before.last.slot, n),
        action |-> FirstTime(before.action, sample.action # "none", n),
        marker |-> FirstTime(before.marker, sample.action = "marker", n),
        collateral |-> before.collateral \cup (IF Probe(s) THEN sample.collateral ELSE {}),
        last |-> sample,
        stop |-> StopReason(s, sample.action # "none", sample.stardate - first.stardate)]

Observe(s, samples) ==
  LET after[n \in 1..Len(samples)] ==
        IF n = 1 THEN Unread(samples[1])
        ELSE Read(s, samples[1], after[n - 1], samples[n], n)
  IN  after[Len(samples)]

\* The trace monitor_turn returns when the window ends.
Trace(s, samples) ==
  LET seen == Observe(s, samples)
      delta == seen.last.stardate - samples[1].stardate
  IN  [policy |-> Policy(s),
       stop |-> IF seen.stop # "none" THEN seen.stop
                ELSE IF StopPolicy(s) = "fixed_window" THEN "fixed_window" ELSE "timeout",
       slot |-> seen.slot, action |-> seen.action, marker |-> seen.marker,
       pairClosed |-> {"left", "right"} \subseteq seen.collateral,
       delta |-> delta,
       targetMet |-> s = "manual-gate-probe" /\ delta >= ProgressTarget,
       final |-> seen.last]

----------------------------------------------------------------------------
\* A fault: the progress target is not asked for.
SignsWithoutTarget(s, t) ==
  CASE s \in {"manual-control", "managed-policy-suppressed"} -> t.slot = 0 /\ t.action = 0
    [] s = "manual-gate-probe"         -> t.marker = 0 /\ t.slot = 0 /\ t.action = 0
    [] s = "managed-gate-probe"        -> t.marker # 0
    [] s = "managed-control"           -> t.slot # 0 /\ t.action # 0 /\ t.final.action # "none"
    [] s = "managed-action-write-suppressed" ->
         t.slot # 0 /\ t.action = 0 /\ t.final.action = "none"

\* validate_scenario: the signs each scenario must show.
Signs(s, t) ==
  CASE s = "manual-control"            -> t.slot = 0 /\ t.action = 0
    [] s = "manual-gate-probe"         -> t.marker = 0 /\ t.slot = 0 /\ t.action = 0 /\ t.targetMet
    [] s = "managed-gate-probe"        -> t.marker # 0
    [] s = "managed-control"           -> t.slot # 0 /\ t.action # 0 /\ t.final.action # "none"
    [] s = "managed-policy-suppressed" -> t.slot = 0 /\ t.action = 0
    [] s = "managed-action-write-suppressed" ->
         t.slot # 0 /\ t.action = 0 /\ t.final.action = "none"

Validates(s, t) ==
  /\ t.policy = Policy(s)
  /\ t.final.managed = Managed(s)
  /\ s \in {"manual-control", "manual-gate-probe", "managed-policy-suppressed"} => t.delta > 0
  /\ Signs(s, t)

\* classify_observation of the capture runner: a Manual probe that timed out
\* short of its target is kept, not failed.
Classify(s, t) ==
  CASE Validates(s, t) -> "passed"
    [] /\ ~Validates(s, t)
       /\ s = "manual-gate-probe" /\ t.stop = "timeout"
       /\ t.marker = 0 /\ t.delta > 0 /\ ~t.targetMet -> "inconclusive"
    [] OTHER -> "failed"

\* summarize_causality, its Boolean claims.
Causality(t) ==
  [manual_turn_progress_witnessed |-> t["manual-control"].delta > 0,
   manual_gate_probe_turn_progress_witnessed |-> t["manual-gate-probe"].delta > 0,
   manual_gate_probe_progress_target_met |-> t["manual-gate-probe"].targetMet,
   policy_suppressed_turn_progress_witnessed |-> t["managed-policy-suppressed"].delta > 0,
   manual_stays_idle |-> t["manual-control"].action = 0,
   manual_does_not_reach_gate_policy_call |-> t["manual-gate-probe"].marker = 0,
   managed_reaches_gate_policy_call |-> t["managed-gate-probe"].marker # 0,
   override_path_inactive_for_manual_probe |->
     /\ t["manual-gate-probe"].marker = 0
     /\ t["managed-gate-probe"].marker # 0
     /\ t["manual-gate-probe"].targetMet,
   managed_commits_action |-> t["managed-control"].action # 0,
   gate_policy_call_is_necessary |-> t["managed-policy-suppressed"].action = 0,
   selection_survives_action_write_suppression |-> t["managed-action-write-suppressed"].slot # 0,
   action_write_is_commit_seam |-> t["managed-action-write-suppressed"].action = 0]

ScenarioOrder == <<"manual-control", "manual-gate-probe", "managed-gate-probe", "managed-control",
                   "managed-policy-suppressed", "managed-action-write-suppressed">>

\* main of the capture runner, over all scenarios: the first one that does not
\* pass ends the set and gives its status.  judged is the number of scenarios
\* that ran.
RunAll(traces) ==
  LET Status(n) == Classify(ScenarioOrder[n], traces[ScenarioOrder[n]])
      short == {n \in 1..Len(ScenarioOrder) : Status(n) # "passed"}
  IN  IF short = {} THEN [status |-> "passed", judged |-> Len(ScenarioOrder), claims |-> Causality(traces)]
      ELSE LET n == CHOOSE k \in short : \A l \in short : k <= l
           IN  [status |-> Status(n), judged |-> n, claims |-> <<>>]

\* A fault: a file that says it passed is not judged again.
ArtifactTrusted(s, artifact, inputs) ==
  /\ artifact.contract \in AcceptedContracts(s)
  /\ artifact.policy = Policy(s)
  /\ artifact.status = "passed"
  /\ artifact.inputs = inputs
  /\ artifact.scenario = s

\* aggregate_focused_results, for one file: contract, policy, status, target
\* and fixture of the record, and the current oracle on the stored trace.
ArtifactUsable(s, artifact, inputs) ==
  /\ artifact.contract \in AcceptedContracts(s)
  /\ artifact.policy = Policy(s)
  /\ artifact.status = "passed"
  /\ artifact.inputs = inputs
  /\ artifact.scenario = s
  /\ Validates(s, artifact.trace)

Aggregates(artifacts, inputs) ==
  \A s \in Scenarios : ArtifactUsable(s, artifacts[s], inputs)
=============================================================================
