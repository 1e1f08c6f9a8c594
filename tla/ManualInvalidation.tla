------------------------- MODULE ManualInvalidation -------------------------
(***************************************************************************)
(* validate_record of scripts/a1_manual_transition_oracle.py: which        *)
(* detached records show that every switch of a planet to Manual           *)
(* invalidates the profile that was cached while it was managed.           *)
(*                                                                         *)
(* A record: outcome, inputs, established (the claim), transitions and     *)
(* coverage; the expected coverage is supplied apart from it, with the     *)
(* digest of the evidence manifest, for which the manifest itself stands   *)
(* (SHA-256 of the canonical JSON is taken to be injective).               *)
(***************************************************************************)
EXTENDS Integers, Sequences

ManualOutcomes == {"positive-lossless-invalidation", "negative-missed-transition",
                   "incomplete-harness"}
CoverageBases == {"all-relevant-zero-write-paths", "equivalent-lossless-boundary"}
BoundFields == {"target_sha256", "harness_sha256", "scenario_identity"}
CanonicalTarget == "canonical"
ManagedValue == "ffffffff"
ManualValue == "0"

OtherBasis(basis) == CHOOSE other \in CoverageBases : other # basis

\* _validate_expected_coverage: the evidence is the one that was expected,
\* record, evidence and expectation speak of the same run, and the evidence
\* rests on exactly one of the two bases.
CoverageExpected(record, expected, evidence) ==
  /\ expected.digest = evidence
  /\ \A f \in BoundFields : record.inputs[f] = expected[f] /\ evidence[f] = expected[f]
  /\ expected.basis \in CoverageBases
  /\ evidence.basis = expected.basis
  /\ expected.basis \in evidence.established
  /\ OtherBasis(expected.basis) \notin evidence.established
  /\ ~evidence.sampled

\* A fault: the order of the write and the invalidation is not looked at.
RoundTripAnyOrder(trip, mechanism) ==
  /\ trip.managedBefore >= 0
  /\ trip.managedBefore < trip.manualWrite
  /\ trip.managedBefore < trip.invalidation
  /\ trip.invalidation < trip.managedAfter
  /\ trip.manualWrite < trip.managedAfter
  /\ trip.manualValue = ManualValue
  /\ trip.beforeValue = ManagedValue /\ trip.afterValue = ManagedValue
  /\ trip.mechanism = mechanism
  /\ trip.lossless
  /\ ~trip.staleVisible

\* One round trip Managed -> Manual -> Managed.
RoundTripValid(trip, mechanism) ==
  /\ trip.managedBefore >= 0
  /\ trip.managedBefore < trip.manualWrite
  /\ trip.manualWrite <= trip.invalidation
  /\ trip.invalidation < trip.managedAfter
  /\ trip.manualValue = ManualValue
  /\ trip.beforeValue = ManagedValue /\ trip.afterValue = ManagedValue
  /\ trip.mechanism = mechanism
  /\ trip.lossless
  /\ ~trip.staleVisible

\* The coverage the record itself reports: at least the expected basis.
CoverageReported(coverage, basis) == ~coverage.sampled /\ basis \in coverage.established

\* validate_record.
ValidManualRecord(record, expected, evidence) ==
  /\ record.outcome \in ManualOutcomes
  /\ record.inputs["target_sha256"] = CanonicalTarget
  /\ IF record.outcome # "positive-lossless-invalidation"
       THEN ~record.established
       ELSE /\ CoverageExpected(record, expected, evidence)
            /\ record.established
            /\ record.transitions # <<>>
            /\ \A i \in 1..Len(record.transitions) :
                 RoundTripValid(record.transitions[i], evidence.mechanism)
            /\ CoverageReported(record.coverage, expected.basis)
=============================================================================
