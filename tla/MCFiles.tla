------------------------------- MODULE MCFiles -------------------------------
(* The tools that write evidence and targets, each under failures, kills    *)
(* and repeated invocations; a variable no part in play uses holds None.    *)
EXTENDS Naturals, Sequences

CONSTANTS None,
          Versions, Wanted, Torn, MaxEdits,
          Invocations, Last, Sources, MaxStarts,
          Files, MaxFailures

VARIABLES part,
          candidate, source, edits, snapshot, partial, artifact,
          bytes, resume, hashes, data, document,
          output, partFile, entry, tried, member, failed, mode, raising, at, starts,
          dest, destExists, staging, stagingExists, failures,
          pc, exit

Fixture == INSTANCE FixtureObservation
Target == INSTANCE TargetFetch WITH part <- partFile
Demo == INSTANCE DemoFetch

ASSUME ConstantsFit ==
  Fixture!VersionsAssumption /\ Target!FetchAssumption /\ Demo!DemoAssumption

onlyFixture == <<candidate, source, edits, snapshot, partial, artifact,
                 bytes, resume, hashes, data, document>>
onlyTarget == <<output, partFile, entry, tried, member, failed, mode, raising, at, starts>>
onlyDemo == <<dest, destExists, staging, stagingExists, failures>>
all == <<part, onlyFixture, onlyTarget, onlyDemo, pc, exit>>

NoFixture ==
  /\ candidate = None /\ source = None /\ edits = None /\ snapshot = None /\ partial = None
  /\ artifact = None /\ bytes = None /\ resume = None /\ hashes = None /\ data = None
  /\ document = None
NoTarget ==
  /\ output = None /\ partFile = None /\ entry = None /\ tried = None /\ member = None
  /\ failed = None /\ mode = None /\ raising = None /\ at = None /\ starts = None
NoDemo ==
  /\ dest = None /\ destExists = None /\ staging = None /\ stagingExists = None
  /\ failures = None

MCInit ==
  \/ part = "fixture" /\ Fixture!Init /\ NoTarget /\ NoDemo /\ exit = None
  \/ part = "target" /\ Target!Init /\ NoFixture /\ NoDemo
  \/ part = "demo" /\ Demo!Init /\ NoFixture /\ NoTarget

FixtureStep ==
  part = "fixture" /\ Fixture!Next /\ UNCHANGED <<part, onlyTarget, onlyDemo, exit>>
TargetStep == part = "target" /\ Target!Next /\ UNCHANGED <<part, onlyFixture, onlyDemo>>
DemoStep(A) == part = "demo" /\ A /\ UNCHANGED <<part, onlyFixture, onlyTarget>>

MCNext == FixtureStep \/ TargetStep \/ DemoStep(Demo!Next)

MCSpec == MCInit /\ [][MCNext]_all /\ WF_all(DemoStep(Demo!Works))

\* The types of the part in play.
TypeOK ==
  /\ part = "fixture" => Fixture!TypeOK
  /\ part = "target" => Target!TypeOK
  /\ part = "demo" => Demo!TypeOK

(***************************************************************************)
(* A passing fixture artifact stays beside the very sources it names and   *)
(* speaks of the save it names.                                            *)
(***************************************************************************)
EvidenceHolds ==
  part = "fixture" => Fixture!EvidenceStaysWhole /\ Fixture!LoadedTheCandidate

(***************************************************************************)
(* Fetched files have their pinned bytes, success is reported for all of   *)
(* them, and a fetched tree is never mixed with an older one.              *)
(***************************************************************************)
FetchedIsPinned ==
  /\ part = "target" => Target!OutputsArePinned /\ Target!SuccessMeansAll
  /\ part = "demo" => Demo!TreeIsNotMixed

(***************************************************************************)
(* A file nobody fetched is replaced only by an invocation with --force,   *)
(* and a pinned one is never lost.                                         *)
(***************************************************************************)
KeepsWhatIsThere ==
  [][part = "target" =>
       \A e \in 1..Last : output'[e] # output[e] =>
         /\ output[e] # "good"
         /\ output[e] = "old" => \E p \in Invocations : pc[p] = "replace" /\ mode[p] = "force"]_all

(***************************************************************************)
(* However often it was killed or failed, the invocations of fetch_demo    *)
(* after it arrive at the pinned tree.                                     *)
(***************************************************************************)
Recovers == part = "demo" ~> part = "demo" /\ exit = "success" /\ dest = Demo!PinnedTree
=============================================================================
