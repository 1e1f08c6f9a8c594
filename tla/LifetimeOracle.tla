--------------------------- MODULE LifetimeOracle ---------------------------
(***************************************************************************)
(* validate_record of scripts/_a1_sidecar_lifetime_oracle_core.py with     *)
(* validate_selection_control of scripts/a1_selection_control_oracle.py:   *)
(* which detached records are a positive identity contract.                *)
(*                                                                         *)
(* A record: outcome, source, claims (the set of the claims that are       *)
(* true), controlPassed, failsClosed (of other_identity_contract) and      *)
(* transitions, a sequence of                                              *)
(*   [label, replacement, basis, weak, points, event, signals]             *)
(* with points a function from names to qualification points and signals   *)
(* one from the names of candidate signals; weak is the set of the grounds *)
(* the contract excludes that the step declares.  A field the JSON lacks   *)
(* is represented by a value the checks refuse.                            *)
(***************************************************************************)
EXTENDS WitnessRanges, FiniteSets

Outcomes == {"positive-epoch-pointer", "positive-epoch-index", "positive-other",
             "negative-no-safe-seam", "incomplete-harness"}
Positive(outcome) ==
  outcome \in {"positive-epoch-pointer", "positive-epoch-index", "positive-other"}

ReplacementTransitions == {"new-game-reset", "save-load-replacement"}
RequiredTransitions == {"selection-control"} \cup ReplacementTransitions

AcceptedBasis ==
  [outcome \in {"positive-epoch-pointer", "positive-epoch-index", "positive-other"} |->
     IF outcome = "positive-epoch-pointer" THEN {"epoch", "reuse-detector", "epoch+reuse-detector"}
     ELSE IF outcome = "positive-epoch-index" THEN {"epoch"}
     ELSE {"other"}]

ReuseEventKind ==
  [outcome \in DOMAIN AcceptedBasis |->
     IF outcome = "positive-epoch-pointer" THEN "record-pointer-reuse"
     ELSE IF outcome = "positive-epoch-index" THEN "index-reassignment"
     ELSE "other-identity-reuse"]

\* The signals a basis rests on.
SignalsOf(basis) ==
  CASE basis = "epoch"                -> {"epoch_signal"}
    [] basis = "reuse-detector"       -> {"reuse_detector_signal"}
    [] basis = "epoch+reuse-detector" -> {"epoch_signal", "reuse_detector_signal"}
    [] basis = "other"                -> {"other_invalidation_signal"}
    [] OTHER                          -> {}

----------------------------------------------------------------------------
\* _scenario_planets: run, manifest and expected source agree on every field,
\* and a v2 manifest gives a range for exactly its planets.
ScenarioBound(record, manifest, expected) ==
  /\ expected.schema = "expected-source"
  /\ manifest.schema \in {"v1", "v2"}
  /\ \A f \in SourceFields : record.source[f] = expected[f] /\ manifest.source[f] = expected[f]
  /\ DOMAIN manifest.planets # {}
  /\ manifest.schema = "v2" => DOMAIN manifest.ranges = DOMAIN manifest.planets

\* A v1 witness carries its bytes: their digest is the declared one and the
\* one the manifest gives for the planet.
LegacyWitness(witness, logical, manifest) ==
  /\ witness.planet = logical
  /\ witness.basis # "presentation-name"
  /\ witness.metadata # <<>>
  /\ witness.declared = witness.metadata
  /\ logical \in DOMAIN manifest.planets
  /\ manifest.planets[logical] = witness.metadata

\* A fault: a witness is not tied to the record it stands for.
PointOfAnyPlanet(point, manifest) ==
  \E logical \in DOMAIN manifest.planets : point.witness.declared = manifest.planets[logical]

\* _require_point.
PointQualified(point, manifest) ==
  /\ point.seq >= 0 /\ point.pointer >= 0
  /\ IF manifest.schema = "v2" THEN WitnessBound(point.witness, point.logical, manifest)
                               ELSE LegacyWitness(point.witness, point.logical, manifest)

\* _validate_index_point.
IndexPointValid(point) ==
  point.base >= 0 /\ point.count > 0 /\ 0 <= point.index /\ point.index < point.count

\* A fault: the signal may come with the reuse.
SignalNotLate(signal, preSeq, reuseSeq) ==
  /\ signal.before # signal.after
  /\ preSeq < signal.seq /\ signal.seq <= reuseSeq

\* _validate_signal: a change, after the pre-state and before the reuse.
SignalValid(signal, preSeq, reuseSeq) ==
  /\ signal.before # signal.after
  /\ preSeq < signal.seq /\ signal.seq < reuseSeq

\* _validate_reuse_event: the event lies between the points, is of the kind
\* of the outcome, and repeats what the points say of the two records.
ReuseEventValid(event, outcome, pre, post) ==
  /\ pre.seq < event.seq /\ event.seq <= post.seq
  /\ event.kind = ReuseEventKind[outcome]
  /\ event.before # event.after
  /\ event.before = pre.logical /\ event.after = post.logical
  /\ event.beforeDigest = pre.witness.declared /\ event.afterDigest = post.witness.declared
  /\ pre.witness.declared # post.witness.declared
  /\ outcome = "positive-epoch-pointer" =>
       event.pointer = pre.pointer /\ event.pointer = post.pointer
  /\ outcome = "positive-epoch-index" =>
       /\ event.base = pre.base /\ event.base = post.base
       /\ event.index = pre.index /\ event.index = post.index
  /\ outcome = "positive-other" => event.identity # ""

\* _validate_replacement_observations.
ReplacementObserved(step, outcome, manifest) ==
  /\ {"pre", "post"} \subseteq DOMAIN step.points
  /\ LET pre == step.points["pre"]  post == step.points["post"]
     IN  /\ PointQualified(pre, manifest) /\ PointQualified(post, manifest)
         /\ pre.seq < post.seq
         /\ outcome = "positive-epoch-index" => IndexPointValid(pre) /\ IndexPointValid(post)
         /\ ReuseEventValid(step.event, outcome, pre, post)
         /\ \A s \in SignalsOf(step.basis) :
              s \in DOMAIN step.signals /\ SignalValid(step.signals[s], pre.seq, step.event.seq)

----------------------------------------------------------------------------
\* _point of the selection-control oracle: the same witness rules.
ControlPointQualified(point, manifest) ==
  /\ point.seq >= 0 /\ point.pointer >= 0
  /\ IF manifest.schema = "v2" THEN WitnessBound(point.witness, point.logical, manifest)
                               ELSE LegacyWitness(point.witness, point.logical, manifest)

\* validate_selection_control: A, then B elsewhere, then A where it was.
SelectionControlValid(record, manifest) ==
  LET controls == {i \in 1..Len(record.transitions) :
                     record.transitions[i].label = "selection-control"}
  IN  /\ Cardinality(controls) = 1
      /\ LET step == record.transitions[CHOOSE i \in controls : TRUE]
         IN  /\ step.replacement = FALSE
             /\ {"first", "second", "return"} \subseteq DOMAIN step.points
             /\ LET first == step.points["first"]
                    second == step.points["second"]
                    returned == step.points["return"]
                IN  /\ ControlPointQualified(first, manifest)
                    /\ ControlPointQualified(second, manifest)
                    /\ ControlPointQualified(returned, manifest)
                    /\ first.seq < second.seq /\ second.seq < returned.seq
                    /\ first.logical # second.logical
                    /\ first.pointer # second.pointer
                    /\ returned.logical = first.logical
                    /\ returned.pointer = first.pointer
                    /\ returned.witness.declared = first.witness.declared

----------------------------------------------------------------------------
\* validate_record, what it asks of every record.
WellFormed(record) ==
  /\ record.outcome \in Outcomes
  /\ "manual_transition_invalidation_established" \notin record.claims
  /\ "stable_index_established" \in record.claims =>
       {"array_base_established", "array_count_established"} \subseteq record.claims
  /\ \A i, j \in 1..Len(record.transitions) :
       record.transitions[i].label = record.transitions[j].label => i = j
  /\ \A i \in 1..Len(record.transitions) :
       LET step == record.transitions[i]
       IN  /\ {"presentation-name", "stride-only"} \cap step.weak = {}
           /\ step.replacement => "post-hoc" \notin step.weak

\* The claims an outcome needs.
ClaimsSuffice(record) ==
  /\ record.outcome = "positive-epoch-pointer" =>
       {"epoch_boundary_established", "reuse_detector_established"} \subseteq record.claims
  /\ record.outcome = "positive-epoch-index" =>
       {"epoch_boundary_established", "stable_index_established",
        "array_base_established", "array_count_established"} \subseteq record.claims
  /\ record.outcome = "positive-other" => record.failsClosed

\* validate_record, what it asks of a positive one.
PositiveContract(record, manifest, expected) ==
  /\ ScenarioBound(record, manifest, expected)
  /\ record.controlPassed
  /\ RequiredTransitions \subseteq {record.transitions[i].label : i \in 1..Len(record.transitions)}
  /\ \A i \in 1..Len(record.transitions) :
       LET step == record.transitions[i]
       IN  step.label \in ReplacementTransitions =>
             /\ step.replacement = TRUE
             /\ step.basis \in AcceptedBasis[record.outcome]
             /\ ReplacementObserved(step, record.outcome, manifest)
  /\ ClaimsSuffice(record)
  /\ SelectionControlValid(record, manifest)

ValidRecord(record, manifest, expected) ==
  /\ WellFormed(record)
  /\ Positive(record.outcome) => PositiveContract(record, manifest, expected)
=============================================================================
