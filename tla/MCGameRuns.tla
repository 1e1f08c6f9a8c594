----------------------------- MODULE MCGameRuns -----------------------------
(* One run of one of the tools that drive the game; a variable no part in  *)
(* play uses holds Off.                                                     *)
EXTENDS Integers, Sequences

CONSTANTS Off,
          Records, Planet, NoRecord, MaxBlips,
          Window, Horizon, Interval, MinSamples, MaxGap, MinDelta, Offsets, Expected,
          Length, Margin, Start, Size, Guard, MaxSamples,
          MaxRuntime, MaxLength,
          Timeout, Codes

VARIABLES part, pc, clock, screen, date, dates, report, result,
          field, painted, selected, queue, step, snapshots, shots, record, blips, actual,
          bias, clear, reads, stamps,
          gate, verdict,
          body, memory, shift, samples, differed,
          script, next, frames, failure, status, game, pipe, xvfb, own,
          tree, exe, expect, mount, ran, modes, ending, artifact, exit

Re4 == INSTANCE RuntimeState
Witness == INSTANCE OverrideWitness
Gate == INSTANCE GateRelocation
Capacity == INSTANCE CapacityObservation
Ui == INSTANCE UiRun
Smoke == INSTANCE SmokeRun

ASSUME ConstantsFit ==
  /\ Re4!RecordsAssumption /\ Witness!WitnessAssumption /\ Gate!GateAssumption
  /\ Capacity!CapacityAssumption
  /\ Ui!UiAssumption /\ Smoke!SmokeAssumption

onlyRe4 == <<field, painted, selected, queue, step, snapshots, shots, record, blips, actual>>
onlyWitness == <<bias, clear, reads, stamps>>
onlyGate == <<gate, verdict>>
onlyCapacity == <<body, memory, shift, samples, differed>>
onlyUi == <<script, next, frames, failure, status, game, pipe, xvfb, own>>
onlySmoke == <<tree, exe, expect, mount, ran, modes, ending, artifact, exit>>
shared == <<pc, clock, screen, date, dates, report, result>>
all == <<part, shared, onlyRe4, onlyWitness, onlyGate, onlyCapacity, onlyUi, onlySmoke>>

NoRe4 ==
  /\ field = Off /\ painted = Off /\ selected = Off /\ queue = Off /\ step = Off
  /\ snapshots = Off /\ shots = Off /\ record = Off /\ blips = Off /\ actual = Off
NoWitness == bias = Off /\ clear = Off /\ reads = Off /\ stamps = Off
NoGate == gate = Off /\ verdict = Off
NoCapacity == body = Off /\ memory = Off /\ shift = Off /\ samples = Off /\ differed = Off
NoUi ==
  /\ script = Off /\ next = Off /\ frames = Off /\ failure = Off /\ status = Off
  /\ game = Off /\ pipe = Off /\ xvfb = Off /\ own = Off
NoSmoke ==
  /\ tree = Off /\ exe = Off /\ expect = Off /\ mount = Off /\ ran = Off
  /\ modes = Off /\ ending = Off /\ artifact = Off /\ exit = Off

MCInit ==
  \/ /\ part = "re4" /\ Re4!Init /\ NoWitness /\ NoGate /\ NoCapacity /\ NoUi /\ NoSmoke
     /\ pc = Off /\ clock = Off /\ date = Off /\ dates = Off /\ report = Off
  \/ /\ part = "witness" /\ Witness!Init /\ NoRe4 /\ NoGate /\ NoCapacity /\ NoUi /\ NoSmoke
     /\ screen = Off /\ report = Off
  \/ /\ part = "gate" /\ Gate!Init /\ NoRe4 /\ NoWitness /\ NoCapacity /\ NoUi /\ NoSmoke
     /\ pc = Off /\ clock = Off /\ screen = Off /\ date = Off /\ dates = Off
     /\ report = Off /\ result = Off
  \/ /\ part = "capacity" /\ Capacity!Init /\ NoRe4 /\ NoWitness /\ NoGate /\ NoUi /\ NoSmoke
     /\ clock = Off /\ screen = Off /\ result = Off
  \/ /\ part = "ui" /\ Ui!Init /\ NoRe4 /\ NoWitness /\ NoGate /\ NoCapacity /\ NoSmoke
     /\ date = Off /\ dates = Off /\ result = Off
  \/ /\ part = "smoke" /\ Smoke!Init /\ NoRe4 /\ NoWitness /\ NoGate /\ NoCapacity /\ NoUi
     /\ screen = Off /\ date = Off /\ dates = Off /\ report = Off /\ result = Off

Re4Step ==
  /\ part = "re4" /\ Re4!Next
  /\ UNCHANGED <<part, pc, clock, date, dates, report, onlyWitness, onlyGate, onlyCapacity, onlyUi, onlySmoke>>
WitnessStep ==
  /\ part = "witness" /\ Witness!Next
  /\ UNCHANGED <<part, screen, report, onlyRe4, onlyGate, onlyCapacity, onlyUi, onlySmoke>>
GateStep ==
  /\ part = "gate" /\ Gate!Validate
  /\ UNCHANGED <<part, shared, onlyRe4, onlyWitness, onlyCapacity, onlyUi, onlySmoke>>
CapacityStep ==
  /\ part = "capacity" /\ Capacity!Next
  /\ UNCHANGED <<part, clock, screen, result, onlyRe4, onlyWitness, onlyGate, onlyUi, onlySmoke>>
UiStep(A) ==
  /\ part = "ui" /\ A
  /\ UNCHANGED <<part, date, dates, result, onlyRe4, onlyWitness, onlyGate, onlyCapacity, onlySmoke>>
SmokeStep ==
  /\ part = "smoke" /\ Smoke!Next
  /\ UNCHANGED <<part, screen, date, dates, report, result, onlyRe4, onlyWitness, onlyGate, onlyCapacity, onlyUi>>

MCNext == Re4Step \/ WitnessStep \/ GateStep \/ CapacityStep \/ UiStep(Ui!Next) \/ SmokeStep

MCSpec == MCInit /\ [][MCNext]_all
          /\ WF_all(UiStep(Ui!Runner)) /\ WF_all(UiStep(Ui!PipesClose))

\* The types of the part in play.
TypeOK ==
  /\ part = "re4" => Re4!TypeOK
  /\ part = "witness" => Witness!TypeOK
  /\ part = "gate" => Gate!TypeOK
  /\ part = "capacity" => Capacity!TypeOK
  /\ part = "ui" => Ui!TypeOK
  /\ part = "smoke" => Smoke!TypeOK

(***************************************************************************)
(* What a passing run_re4_runtime_state reports is the planet's record,    *)
(* with pictures of the mode the record had when they were taken.          *)
(***************************************************************************)
PassedRe4IsThePlanet ==
  part = "re4" => Re4!RecordIsThePlanets /\ Re4!PicturesShowTheField

(***************************************************************************)
(* What the two memory observers report is what was there.  A passing      *)
(* override witness has missed no pulse of twice its gap bound less the    *)
(* sleep between samples, and reads what the loaded instruction reads,     *)
(* unless another relocation overlaps its address; the capacity            *)
(* observation reads the candidate's own bytes, and every change a sample  *)
(* has seen.                                                               *)
(***************************************************************************)
ObserversMissNothing ==
  /\ part = "witness" => Witness!NoLongPulseIsMissed
  /\ part = "gate" => Gate!RelatedIsLoaded
  /\ part = "capacity" => Capacity!GuardsPinTheRange /\ Capacity!NoSeenChangeIsLost

(***************************************************************************)
(* A UI run passes as its script says and in its time, and is stopped by   *)
(* the deadline only for time that load_actions does not count; a smoke    *)
(* run passes for the executable it was given, or for a lower-case         *)
(* namesake in the tree, and for the mode and the ending it was asked for. *)
(***************************************************************************)
RunsPassAsAsked ==
  /\ part = "ui" => Ui!PassedAsScripted /\ Ui!DeclaredWaitsFit
  /\ part = "smoke" => Smoke!RanTheGiven /\ Smoke!PassMeansExpected

(***************************************************************************)
(* Every UI run ends with the game and the display stopped, provided that  *)
(* whoever inherited the game's pipes closes them.                         *)
(***************************************************************************)
UiRunEnds == part = "ui" ~> part = "ui" /\ Ui!Stopped
=============================================================================
