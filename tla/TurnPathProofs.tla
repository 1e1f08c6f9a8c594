---------------------------- MODULE TurnPathProofs ----------------------------
(***************************************************************************)
(* Why a passed scenario is to be believed, for any number of turns and    *)
(* whatever the game does inside: what the runner's samples show follows   *)
(* from the planet passes that the patched code made while it was armed.   *)
(***************************************************************************)
EXTENDS MCTurnPath, TLAPS

Before  == {"launch", "record", "arm", "arming", "rearmed", "patch"}
Between == {"first", "watch", "sample", "validate", "restore"}

\* The code while the patch of the scenario is in.
Patched == [policy |-> IF IsPatched(spec) /\ PatchedSite(spec) = "policy"
                       THEN Replacement(spec) ELSE "call",
            write  |-> IF IsPatched(spec) /\ PatchedSite(spec) = "write"
                       THEN Replacement(spec) ELSE "mov"]

\* What a planet pass of the armed planet does to it under that code.
WouldSelect == \/ Managed(spec) \in truth.gates /\ Patched.policy = "call"
               \/ truth.bypass /\ Managed(spec)
WouldMark == Managed(spec) \in truth.gates /\ Patched.policy = "marker"

\* The patch is in from the arming to the end of the window, and a scenario
\* passes only once it is out again.
PatchInv ==
  /\ pc \in Before => code = Original /\ ~patch_applied /\ result = "none"
  /\ pc \in {"forward"} \cup Between =>
       code = Patched /\ (patch_applied <=> IsPatched(spec)) /\ result = "none"
  /\ pc \in {"patch", "restore"} => IsPatched(spec)
  /\ result = "passed" => /\ pc \in {"finally", "teardown", "done"}
                          /\ code = Original /\ ~patch_applied

\* The game plays no turn before the fast forward, and has taken the key that
\* arms it by then.
QuietInv ==
  /\ pc \in Before \cup {"forward"} =>
       /\ ~game.forward /\ game.stardate = 0 /\ ~game.slot /\ game.action = "none"
       /\ turn = "idle" /\ ~drifted /\ passes = 0 /\ "forward" \notin keys
  /\ pc \in {"launch", "record", "arm"} => "m" \notin keys
  /\ pc = "arming" => ("m" \in keys <=> game.managed # Managed(spec))
  /\ pc \in {"rearmed", "patch", "forward"} => "m" \notin keys /\ game.managed = Managed(spec)
  /\ pc \in Between => "m" \notin keys

\* What the planet shows follows from its passes, unless the game changed the
\* armed field by itself; a selection of a game that commits directly is waited for.
GameInv ==
  pc \in Between =>
    /\ drifted <=> game.managed # Managed(spec)
    /\ ~drifted =>
         /\ StardateLast /\ (game.stardate > 0 \/ turn # "idle") => passes > 0
         /\ passes > 0 /\ WouldSelect => game.slot
         /\ passes > 0 /\ WouldMark => game.action # "none"
         /\ game.slot => WouldSelect
         /\ game.action = "marker" => WouldMark /\ passes > 0
    /\ game.slot /\ truth.direct => turn = "selected" \/ game.action # "none"

\* The last sample says the same.
TraceSays ==
  /\ trace.managed = Managed(spec) =>
       /\ StardateLast /\ trace.delta > 0 => trace.passes > 0
       /\ trace.passes > 0 /\ WouldSelect => trace.slot
       /\ trace.passes > 0 /\ WouldMark => trace.action # "none"
       /\ trace.slot => WouldSelect
       /\ trace.action = "marker" => WouldMark /\ trace.passes > 0
  /\ trace.slot /\ truth.direct => trace.torn \/ trace.action # "none"

TraceInv ==
  /\ trace.initial <= game.stardate
  /\ pc \in Before \cup {"forward", "first"} => trace = NoTrace
  /\ pc \in {"watch", "sample"} => (trace.slot => game.slot)
  /\ pc \in Between \ {"first"} \/ result = "passed" => TraceSays
  /\ pc = "restore" \/ result = "passed" => Validates(spec, trace)

ProbeInv == TypeOK /\ PatchInv /\ QuietInv /\ GameInv /\ TraceInv
-----------------------------------------------------------------------------
(* The types, in parts.                                                    *)

GameType == game \in [managed : BOOLEAN, slot : BOOLEAN, action : {"none", "auto", "marker"},
                      forward : BOOLEAN, stardate : 0..MaxTurns]
Flags == drifted \in BOOLEAN /\ alive \in BOOLEAN /\ patch_applied \in BOOLEAN
Labels == Sections \cup {"launch", "arm", "arming", "forward", "watch", "validate",
                         "finally", "teardown", "done"}
Words ==
  /\ code \in [policy : {"call", "nop", "marker", "torn"}, write : {"mov", "nop", "torn"}]
  /\ turn \in {"idle", "dated", "selected", "passed"}
  /\ halted \in {"running", "pending", "stopped"} /\ keys \subseteq {"m", "forward"}
  /\ pc \in Labels /\ result \in {"none", "passed", "raised"} /\ passes \in 0..MaxTurns

\* Only a turn of the game and a key change the planet.
LEMMA GameTypeStep == ASSUME TypeOK, [Next]_vars PROVE GameType'
<1> USE DEF TypeOK, GameType
<1>1. CASE PlanetPass
  BY <1>1 DEF PlanetPass
<1>2. CASE Commit
  BY <1>2 DEF Commit
<1>3. CASE Stardate
  BY <1>3, TurnAssumption DEF Stardate
<1>4. CASE Drift
  BY <1>4 DEF Drift
<1>5. CASE TakeKey
  BY <1>5 DEF TakeKey
<1>6. CASE ~(PlanetPass \/ Commit \/ Stardate \/ Drift \/ TakeKey)
  <2>1. game' = game
    BY <1>6 DEF Next, Runner, Launch, Halt, NotStopped, SectionBreaks, SampleRecord, Arm, WaitField,
       SampleArmed, ApplyPatch, FastForward, FirstSample, NextSample, WindowEnds, Sample, Validate,
       RestorePatch, Finally, Teardown, GameDies, KernelStops, Returned, gameVars, vars
  <2>2. QED
    BY <2>1
<1>7. QED
  BY <1>1, <1>2, <1>3, <1>4, <1>5, <1>6

\* The three flags are only ever set or reset.
LEMMA FlagStep == ASSUME TypeOK, [Next]_vars PROVE Flags'
<1>1. drifted' = drifted \/ drifted' = TRUE
  BY DEF Next, Runner, PlanetPass, Commit, Stardate, Drift, TakeKey, GameDies, KernelStops, Returned, Launch,
     Halt, NotStopped, SectionBreaks, SampleRecord, Arm, WaitField, SampleArmed, ApplyPatch, FastForward,
     FirstSample, NextSample, WindowEnds, Sample, Validate, RestorePatch, Finally, Teardown, gameVars, vars
<1>2. alive' = alive \/ alive' = TRUE \/ alive' = FALSE
  BY DEF Next, Runner, PlanetPass, Commit, Stardate, Drift, TakeKey, GameDies, KernelStops, Returned, Launch,
     Halt, NotStopped, SectionBreaks, SampleRecord, Arm, WaitField, SampleArmed, ApplyPatch, FastForward,
     FirstSample, NextSample, WindowEnds, Sample, Validate, RestorePatch, Finally, Teardown, gameVars, vars
<1>3. patch_applied' = patch_applied \/ patch_applied' = TRUE \/ patch_applied' = FALSE
  BY DEF Next, Runner, PlanetPass, Commit, Stardate, Drift, TakeKey, GameDies, KernelStops, Returned, Launch,
     Halt, NotStopped, SectionBreaks, SampleRecord, Arm, WaitField, SampleArmed, ApplyPatch, FastForward,
     FirstSample, NextSample, WindowEnds, Sample, Validate, RestorePatch, Finally, Teardown, gameVars, runVars, vars
<1>4. drifted' \in BOOLEAN
  BY <1>1 DEF TypeOK
<1>5. alive' \in BOOLEAN
  BY <1>2 DEF TypeOK
<1>6. patch_applied' \in BOOLEAN
  BY <1>3 DEF TypeOK
<1>7. QED
  BY <1>4, <1>5, <1>6 DEF Flags

\* The places of the runner, the signals, the keys and the code.
LEMMA WordStep == ASSUME TypeOK, [Next]_vars PROVE Words'
<1> USE DEF TypeOK, Words, Labels, Sections, Go, Raise, SectionRaises, Section, Pass, gameVars, runVars
<1>1. CASE PlanetPass \/ Commit \/ Stardate \/ Drift \/ TakeKey
  BY <1>1, TurnAssumption DEF PlanetPass, Commit, Stardate, Drift, TakeKey, AfterPass
<1>2. CASE GameDies \/ KernelStops \/ Halt \/ Returned \/ UNCHANGED vars
  BY <1>2 DEF GameDies, KernelStops, Halt, Returned, vars
<1>3. CASE Launch \/ NotStopped \/ SectionBreaks \/ SampleRecord \/ Arm \/ WaitField \/ SampleArmed
  BY <1>3 DEF Launch, NotStopped, SectionBreaks, SampleRecord, Arm, WaitField, SampleArmed
<1>4. CASE FastForward \/ FirstSample \/ NextSample \/ WindowEnds \/ Sample \/ Validate \/ Finally \/ Teardown
  BY <1>4 DEF FastForward, FirstSample, NextSample, WindowEnds, Sample, Validate, Finally, Teardown
<1>5. CASE ApplyPatch
  BY <1>5 DEF ApplyPatch, PatchedSite, Replacement
<1>6. CASE RestorePatch
  BY <1>6 DEF RestorePatch, PatchedSite, Original
<1>7. QED
  BY <1>1, <1>2, <1>3, <1>4, <1>5, <1>6 DEF Next, Runner

\* The progress of a sample is a number because the stardate never goes back.
LEMMA TraceTypeStep == ASSUME TypeOK, trace.initial <= game.stardate, [Next]_vars PROVE trace' \in Traces
<1> USE DEF TypeOK, Traces
<1>1. CASE FirstSample
  BY <1>1 DEF FirstSample
<1>2. CASE Sample
  <2>1. game.stardate - trace.initial \in 0..MaxTurns
    BY TurnAssumption
  <2>2. (trace.slot \/ game.slot) \in BOOLEAN /\ (turn = "selected") \in BOOLEAN
    OBVIOUS
  <2>3. QED
    BY <1>2, <2>1, <2>2 DEF Sample
<1>3. CASE ~FirstSample /\ ~Sample
  <2>1. trace' = trace
    BY <1>3 DEF Next, Runner, PlanetPass, Commit, Stardate, Drift, TakeKey, GameDies, KernelStops, Returned,
       Launch, Halt, NotStopped, SectionBreaks, SampleRecord, Arm, WaitField, SampleArmed, ApplyPatch, FastForward,
       NextSample, WindowEnds, Validate, RestorePatch, Finally, Teardown, runVars, vars
  <2>2. QED
    BY <2>1
<1>4. QED
  BY <1>1, <1>2, <1>3

\* Every step of the scenario and of its game keeps the types.
LEMMA TypeStep == ASSUME TypeOK, trace.initial <= game.stardate, [Next]_vars PROVE TypeOK'
<1>1. GameType' /\ Flags' /\ Words' /\ trace' \in Traces
  BY GameTypeStep, FlagStep, WordStep, TraceTypeStep
<1>2. spec' = spec /\ truth' = truth
  BY DEF Next, Runner, PlanetPass, Commit, Stardate, Drift, TakeKey, GameDies, KernelStops, Returned, Launch,
     Halt, NotStopped, SectionBreaks, SampleRecord, Arm, WaitField, SampleArmed, ApplyPatch, FastForward,
     FirstSample, NextSample, WindowEnds, Sample, Validate, RestorePatch, Finally, Teardown, vars
<1>3. spec' \in Scenarios /\ truth' \in Truths
  BY <1>2 DEF TypeOK
<1>4. QED
  BY <1>1, <1>3 DEF TypeOK, GameType, Flags, Words, Labels
-----------------------------------------------------------------------------
\* Writing one of the two sites.
LEMMA SiteWritten ==
  ASSUME NEW a, NEW b, NEW x, NEW site
  PROVE  /\ site = "policy" =>
              [[policy |-> a, write |-> b] EXCEPT ![site] = x] = [policy |-> x, write |-> b]
         /\ site = "write" =>
              [[policy |-> a, write |-> b] EXCEPT ![site] = x] = [policy |-> a, write |-> x]
OBVIOUS

\* Putting the replacement in place of the original gives the patched code, and
\* the other way round.
LEMMA PatchedCode ==
  ASSUME spec \in Scenarios, IsPatched(spec)
  PROVE  /\ [Original EXCEPT ![PatchedSite(spec)] = Replacement(spec)] = Patched
         /\ [Patched EXCEPT ![PatchedSite(spec)] = Original[PatchedSite(spec)]] = Original
<1>1. CASE PatchedSite(spec) = "policy"
  <2>1. Patched = [policy |-> Replacement(spec), write |-> "mov"] /\ Original = [policy |-> "call", write |-> "mov"]
    BY <1>1 DEF Original, Patched
  <2>2. Original[PatchedSite(spec)] = "call"
    BY <1>1 DEF Original
  <2>3. [Original EXCEPT ![PatchedSite(spec)] = Replacement(spec)] = Patched
    BY ONLY <1>1, <2>1, SiteWritten
  <2>4. [Patched EXCEPT ![PatchedSite(spec)] = Original[PatchedSite(spec)]] = Original
    BY ONLY <1>1, <2>1, <2>2, SiteWritten
  <2>5. QED
    BY <2>3, <2>4
<1>2. CASE PatchedSite(spec) = "write"
  <2>1. Patched = [policy |-> "call", write |-> Replacement(spec)] /\ Original = [policy |-> "call", write |-> "mov"]
    BY <1>2 DEF Original, Patched
  <2>2. Original[PatchedSite(spec)] = "mov"
    BY <1>2 DEF Original
  <2>3. [Original EXCEPT ![PatchedSite(spec)] = Replacement(spec)] = Patched
    BY ONLY <1>2, <2>1, SiteWritten
  <2>4. [Patched EXCEPT ![PatchedSite(spec)] = Original[PatchedSite(spec)]] = Original
    BY ONLY <1>2, <2>1, <2>2, SiteWritten
  <2>5. QED
    BY <2>3, <2>4
<1>3. QED
  BY <1>1, <1>2 DEF PatchedSite

\* Without a patch the code is the original one.
LEMMA UnpatchedCode == ~IsPatched(spec) => Patched = Original
BY DEF Original, Patched

\* The steps that leave the runner where it was leave the patch as it is.
LEMMA PatchStep == ASSUME TypeOK, PatchInv, [Next]_vars PROVE PatchInv'
<1> USE DEF PatchInv, Before, Between, Go, Raise, SectionRaises, Section, Pass, Sections
<1>1. spec' = spec /\ Patched' = Patched
  BY DEF Patched, IsPatched, PatchedSite, Replacement, Next, Runner, PlanetPass, Commit, Stardate, Drift,
     TakeKey, GameDies, KernelStops, Returned, Launch, Halt, NotStopped, SectionBreaks, SampleRecord, Arm,
     WaitField, SampleArmed, ApplyPatch, FastForward, FirstSample, NextSample, WindowEnds, Sample, Validate,
     RestorePatch, Finally, Teardown, vars
<1>2. CASE PlanetPass \/ Commit \/ Stardate \/ Drift \/ TakeKey \/ GameDies \/ KernelStops \/ Returned \/ Halt
           \/ UNCHANGED vars
  <2>1. UNCHANGED <<pc, code, patch_applied, result>>
    BY <1>2 DEF PlanetPass, Commit, Stardate, Drift, TakeKey, GameDies, KernelStops, Returned, Halt, gameVars,
       runVars, vars
  <2>2. QED
    BY <1>1, <2>1
<1>3. CASE Launch \/ NotStopped \/ SectionBreaks \/ SampleRecord \/ Arm \/ WaitField \/ SampleArmed
  <2>1. UNCHANGED <<code, patch_applied>>
    BY <1>3 DEF Launch, NotStopped, SectionBreaks, SampleRecord, Arm, WaitField, SampleArmed, gameVars
  <2>2. QED
    BY <1>1, <1>3, <2>1, UnpatchedCode DEF Launch, NotStopped, SectionBreaks, SampleRecord, Arm, WaitField, SampleArmed
<1>4. CASE FastForward \/ FirstSample \/ NextSample \/ WindowEnds \/ Sample \/ Validate \/ Finally \/ Teardown
  <2>1. UNCHANGED <<code, patch_applied>>
    BY <1>4 DEF FastForward, FirstSample, NextSample, WindowEnds, Sample, Validate, Finally, Teardown, gameVars
  <2>2. QED
    BY <1>1, <1>4, <2>1, UnpatchedCode DEF FastForward, FirstSample, NextSample, WindowEnds, Sample, Validate, Finally, Teardown
<1>5. CASE ApplyPatch
  <2>1. PICK bytes \in {code[PatchedSite(spec)], "torn", Replacement(spec)}, verified \in BOOLEAN :
          /\ code' = [code EXCEPT ![PatchedSite(spec)] = bytes]
          /\ IF bytes = Replacement(spec) /\ verified
             THEN Go("forward") /\ patch_applied' = TRUE /\ UNCHANGED result
             ELSE Raise /\ UNCHANGED patch_applied
    BY <1>5 DEF ApplyPatch
  <2>2. pc = "patch" /\ code = Original /\ ~patch_applied /\ result = "none" /\ IsPatched(spec)
    BY <1>5 DEF ApplyPatch
  <2>3. CASE bytes = Replacement(spec) /\ verified
    <3>1. code' = Patched
      BY <2>1, <2>2, <2>3, PatchedCode DEF TypeOK
    <3>2. QED
      BY <1>1, <2>1, <2>2, <2>3, <3>1
  <2>4. CASE ~(bytes = Replacement(spec) /\ verified)
    BY <2>1, <2>2, <2>4
  <2>5. QED
    BY <2>3, <2>4
<1>6. CASE RestorePatch
  <2>1. PICK bytes \in {code[PatchedSite(spec)], "torn", Original[PatchedSite(spec)]}, verified \in BOOLEAN :
          /\ code' = [code EXCEPT ![PatchedSite(spec)] = bytes]
          /\ CASE ~Restores(bytes, verified) -> SectionRaises /\ UNCHANGED patch_applied
               [] Restores(bytes, verified) /\ pc = "restore" -> Pass /\ patch_applied' = FALSE
               [] OTHER -> Go("teardown") /\ UNCHANGED <<result, patch_applied>>
    BY <1>6 DEF RestorePatch
  <2>2. pc \in {"restore", "rollback"} /\ result # "passed"
    BY <1>6 DEF RestorePatch
  <2>3. CASE ~Restores(bytes, verified)
    BY <2>1, <2>2, <2>3
  <2>4. CASE Restores(bytes, verified) /\ pc = "restore"
    <3>1. code' = Original
      BY <2>1, <2>4, PatchedCode DEF TypeOK, Restores
    <3>2. QED
      BY <2>1, <2>4, <3>1
  <2>5. CASE Restores(bytes, verified) /\ pc # "restore"
    BY <2>1, <2>2, <2>5
  <2>6. QED
    BY <2>3, <2>4, <2>5
<1>7. QED
  BY <1>2, <1>3, <1>4, <1>5, <1>6 DEF Next, Runner
-----------------------------------------------------------------------------
\* No turn is played before the fast forward, and no key is left over by then.
LEMMA QuietStep == ASSUME TypeOK, QuietInv, [Next]_vars PROVE QuietInv'
<1> USE DEF QuietInv, Before, Between, Go, Raise, SectionRaises, Section, Pass, Sections
<1>1. spec' = spec
  BY DEF Next, Runner, PlanetPass, Commit, Stardate, Drift, TakeKey, GameDies, KernelStops, Returned, Launch,
     Halt, NotStopped, SectionBreaks, SampleRecord, Arm, WaitField, SampleArmed, ApplyPatch, FastForward,
     FirstSample, NextSample, WindowEnds, Sample, Validate, RestorePatch, Finally, Teardown, vars
<1>2. CASE PlanetPass \/ Commit \/ Stardate \/ Drift
  <2>1. UNCHANGED <<pc, keys>> /\ pc \notin Before \cup {"forward"}
    BY <1>2 DEF PlanetPass, Commit, Stardate, Drift, runVars
  <2>2. QED
    BY <1>1, <2>1
<1>3. CASE TakeKey
  <2>1. PICK k \in keys :
          /\ keys' = keys \ {k}
          /\ game' = IF k = "m" THEN [game EXCEPT !.managed = ~@] ELSE [game EXCEPT !.forward = TRUE]
    BY <1>3 DEF TakeKey
  <2>2. UNCHANGED <<pc, turn, drifted, passes>>
    BY <1>3 DEF TakeKey
  <2>3. CASE k = "m"
    <3>1. /\ game'.managed = ~game.managed /\ game'.forward = game.forward /\ game'.slot = game.slot
          /\ game'.action = game.action /\ game'.stardate = game.stardate
      BY <2>1, <2>3 DEF TypeOK
    <3>2. game.managed \in BOOLEAN /\ Managed(spec) \in BOOLEAN
      BY DEF TypeOK, Managed
    <3>3. pc = "arming" => game'.managed = Managed(spec)
      BY <2>1, <2>3, <3>1, <3>2
    <3>4. QED
      BY <1>1, <2>1, <2>2, <2>3, <3>1, <3>3
  <2>4. CASE k # "m"
    <3>1. k = "forward"
      BY <2>1, <2>4 DEF TypeOK
    <3>2. pc \notin Before \cup {"forward"}
      BY <3>1
    <3>3. QED
      BY <1>1, <2>1, <2>2, <3>2
  <2>5. QED
    BY <2>3, <2>4
<1>4. CASE GameDies \/ KernelStops \/ Halt \/ Returned \/ UNCHANGED vars
  <2>1. UNCHANGED <<pc, keys, game, turn, drifted, passes>>
    BY <1>4 DEF GameDies, KernelStops, Returned, Halt, gameVars, runVars, vars
  <2>2. QED
    BY <1>1, <2>1
<1>5. CASE Arm
  <2>1. UNCHANGED <<game, turn, drifted, passes>> /\ pc = "arm"
    BY <1>5 DEF Arm, gameVars
  <2>2. QED
    BY <1>1, <1>5, <2>1 DEF Arm, TypeOK
<1>6. CASE Launch \/ NotStopped \/ SectionBreaks \/ SampleRecord \/ WaitField \/ SampleArmed \/ ApplyPatch
  <2>1. UNCHANGED <<game, turn, drifted, passes, keys>>
    BY <1>6 DEF Launch, NotStopped, SectionBreaks, SampleRecord, WaitField, SampleArmed, ApplyPatch, gameVars
  <2>2. QED
    BY <1>1, <1>6, <2>1 DEF Launch, NotStopped, SectionBreaks, SampleRecord, WaitField, SampleArmed, ApplyPatch
<1>7. CASE FastForward \/ FirstSample \/ NextSample \/ WindowEnds \/ Sample \/ Validate \/ RestorePatch
           \/ Finally \/ Teardown
  <2>1. pc \notin Before /\ pc' \notin Before \cup {"forward"}
    BY <1>7 DEF FastForward, FirstSample, NextSample, WindowEnds, Sample, Validate, RestorePatch, Finally, Teardown
  <2>2. keys' \subseteq keys \cup {"forward"}
    BY <1>7 DEF FastForward, FirstSample, NextSample, WindowEnds, Sample, Validate, RestorePatch, Finally, Teardown
  <2>3. pc' \in Between => pc \in {"forward"} \cup Between
    BY <1>7 DEF FastForward, FirstSample, NextSample, WindowEnds, Sample, Validate, RestorePatch, Finally, Teardown
  <2>4. QED
    BY <2>1, <2>2, <2>3
<1>8. QED
  BY <1>2, <1>3, <1>4, <1>5, <1>6, <1>7 DEF Next, Runner
-----------------------------------------------------------------------------
(* The planet and its passes.                                              *)

\* What is known of a scenario at its start, and what a step leaves alone.
LEMMA Frame ==
  ASSUME [Next]_vars
  PROVE  /\ spec' = spec /\ truth' = truth /\ Patched' = Patched
         /\ (WouldSelect' <=> WouldSelect) /\ (WouldMark' <=> WouldMark)
<1>1. spec' = spec /\ truth' = truth
  BY DEF Next, Runner, PlanetPass, Commit, Stardate, Drift, TakeKey, GameDies, KernelStops, Returned, Launch,
     Halt, NotStopped, SectionBreaks, SampleRecord, Arm, WaitField, SampleArmed, ApplyPatch, FastForward,
     FirstSample, NextSample, WindowEnds, Sample, Validate, RestorePatch, Finally, Teardown, vars
<1>2. QED
  BY <1>1 DEF Patched, WouldSelect, WouldMark, IsPatched, PatchedSite, Replacement, Managed

\* While the field is as armed, a pass selects and marks what the patched code
\* selects and marks.
LEMMA ArmedPass ==
  ASSUME TypeOK, code = Patched, game.managed = Managed(spec)
  PROVE  (Selects <=> WouldSelect) /\ (Marks <=> WouldMark)
BY DEF Selects, Marks, Reached, WouldSelect, WouldMark

\* Every step keeps what the planet shows tied to the passes it had.
LEMMA GameStep == ASSUME TypeOK, PatchInv, QuietInv, GameInv, [Next]_vars PROVE GameInv'
<1>1. spec' = spec /\ truth' = truth /\ (WouldSelect' <=> WouldSelect) /\ (WouldMark' <=> WouldMark)
  BY Frame
<1>2. CASE PlanetPass /\ pc \in Between
  <2>1. /\ turn' = IF Selects THEN "selected" ELSE AfterPass
        /\ game'.slot = (game.slot \/ Selects)
        /\ game'.action = IF game.action = "none" /\ Marks THEN "marker" ELSE game.action
        /\ game'.managed = game.managed /\ game'.stardate = game.stardate
        /\ passes' = IF Armed /\ passes < MaxTurns THEN passes + 1 ELSE passes
        /\ turn \in {"idle", "dated"} /\ UNCHANGED <<pc, drifted>>
    BY <1>2 DEF PlanetPass, runVars, TypeOK
  <2>2. code = Patched /\ (patch_applied <=> IsPatched(spec))
    BY <1>2 DEF PatchInv
  <2>3. game'.slot /\ truth.direct => turn' = "selected" \/ game'.action # "none"
    BY <1>2, <2>1 DEF GameInv
  <2>4. drifted' <=> game'.managed # Managed(spec)
    BY <1>2, <2>1 DEF GameInv
  <2>5. CASE drifted
    BY <1>1, <2>1, <2>3, <2>4, <2>5 DEF GameInv
  <2>6. CASE ~drifted
    <3>1. game.managed = Managed(spec)
      BY <1>2, <2>6 DEF GameInv
    <3>2. (Selects <=> WouldSelect) /\ (Marks <=> WouldMark)
      BY <2>2, <3>1, ArmedPass
    <3>3. passes' > 0
      BY <2>1, <2>2, <3>1, TurnAssumption DEF Armed, TypeOK
    <3>4. /\ WouldSelect => game'.slot
          /\ game'.slot => WouldSelect
          /\ WouldMark => game'.action # "none"
          /\ game'.action = "marker" => WouldMark
      BY <1>2, <2>1, <2>6, <3>2 DEF GameInv
    <3>5. QED
      BY <1>1, <2>3, <2>4, <3>3, <3>4 DEF GameInv
  <2>7. QED
    BY <2>5, <2>6
<1>3. CASE Commit /\ pc \in Between
  <2>1. /\ turn = "selected" /\ turn' = AfterPass
        /\ game'.action = IF game.action = "none" /\ Commits THEN "auto" ELSE game.action
        /\ game'.slot = game.slot /\ game'.managed = game.managed /\ game'.stardate = game.stardate
        /\ UNCHANGED <<pc, drifted, passes>>
    BY <1>3 DEF Commit, runVars, TypeOK
  <2>2. truth.direct => Commits
    BY DEF Commits
  <2>3. QED
    BY <1>1, <1>3, <2>1, <2>2 DEF GameInv
<1>4. CASE Stardate /\ pc \in Between
  <2>1. /\ turn = AfterPass /\ game'.action = game.action /\ game'.slot = game.slot
        /\ game'.managed = game.managed /\ UNCHANGED <<pc, drifted, passes>>
    BY <1>4 DEF Stardate, runVars, TypeOK
  <2>2. turn # "selected" /\ (StardateLast => turn # "idle")
    BY <2>1, TurnAssumption DEF AfterPass
  <2>3. QED
    BY <1>1, <1>4, <2>1, <2>2 DEF GameInv
<1>5. CASE Drift /\ pc \in Between
  <2>1. /\ ~drifted /\ drifted' /\ game'.managed = ~game.managed
        /\ game'.slot = game.slot /\ game'.action = game.action /\ UNCHANGED <<pc, turn>>
    BY <1>5 DEF Drift, runVars, TypeOK
  <2>2. game.managed \in BOOLEAN /\ Managed(spec) \in BOOLEAN
    BY DEF TypeOK, Managed
  <2>3. QED
    BY <1>1, <1>5, <2>1, <2>2 DEF GameInv
<1>6. CASE TakeKey /\ pc \in Between
  <2>1. game' = [game EXCEPT !.forward = TRUE] /\ UNCHANGED <<pc, turn, drifted, passes>>
    BY <1>6 DEF TakeKey, QuietInv
  <2>2. /\ game'.slot = game.slot /\ game'.action = game.action /\ game'.managed = game.managed
        /\ game'.stardate = game.stardate
    BY <2>1 DEF TypeOK
  <2>3. QED
    BY <1>1, <2>1, <2>2 DEF GameInv
<1>7. CASE FastForward
  <2>1. pc = "forward" /\ UNCHANGED <<game, turn, drifted, passes>>
    BY <1>7 DEF FastForward, gameVars
  <2>2. /\ game.stardate = 0 /\ ~game.slot /\ game.action = "none" /\ turn = "idle" /\ ~drifted
        /\ passes = 0 /\ game.managed = Managed(spec)
    BY <2>1 DEF QuietInv
  <2>3. QED
    BY <1>1, <2>1, <2>2 DEF GameInv
<1>8. CASE ~(PlanetPass \/ Commit \/ Stardate \/ Drift \/ TakeKey \/ FastForward) /\ pc' \in Between
  <2>1. UNCHANGED <<game, turn, drifted, passes>> /\ pc \in Between
    BY <1>8 DEF Next, Runner, GameDies, KernelStops, Returned, Launch, Halt, NotStopped, SectionBreaks,
       SampleRecord, Arm, WaitField, SampleArmed, ApplyPatch, FirstSample, NextSample, WindowEnds, Sample, Validate,
       RestorePatch, Finally, Teardown, gameVars, runVars, vars, Between, Go, Raise, SectionRaises, Section, Pass
  <2>2. QED
    BY <1>1, <2>1 DEF GameInv
<1>9. CASE pc' \notin Between
  BY <1>9 DEF GameInv
<1>10. CASE (PlanetPass \/ Commit \/ Stardate \/ Drift \/ TakeKey) /\ pc' \in Between
  <2>1. pc' = pc
    BY <1>10 DEF PlanetPass, Commit, Stardate, Drift, TakeKey, runVars
  <2>2. QED
    BY <1>2, <1>3, <1>4, <1>5, <1>6, <1>10, <2>1
<1>11. QED
  BY <1>7, <1>8, <1>9, <1>10
-----------------------------------------------------------------------------
(* The samples and the verdict.                                            *)

\* A sample of the planet shows what the planet shows.
LEMMA SampleSays ==
  ASSUME TypeOK, GameInv, TraceInv, Sample
  PROVE  TraceSays'
<1>1. /\ pc = "sample" /\ UNCHANGED <<spec, truth>>
      /\ trace' = [initial |-> trace.initial, delta |-> game.stardate - trace.initial,
                   slot |-> trace.slot \/ game.slot, action |-> game.action,
                   managed |-> game.managed, passes |-> passes, torn |-> turn = "selected"]
  BY DEF Sample, Section
<1>2. /\ trace'.delta = game.stardate - trace.initial /\ (trace'.slot <=> game.slot)
      /\ trace'.action = game.action /\ trace'.managed = game.managed /\ trace'.passes = passes
      /\ (trace'.torn <=> turn = "selected")
  BY <1>1 DEF TraceInv
<1>3. (WouldSelect' <=> WouldSelect) /\ (WouldMark' <=> WouldMark)
  BY <1>1 DEF Patched, WouldSelect, WouldMark, IsPatched, PatchedSite, Replacement, Managed
<1>4. trace'.delta > 0 => game.stardate > 0
  BY <1>2 DEF TypeOK, Traces
<1>5. pc \in Between
  BY <1>1 DEF Between
<1>6. QED
  BY <1>1, <1>2, <1>3, <1>4, <1>5 DEF GameInv, TraceSays

\* Every sample says what the game has done so far.
LEMMA TraceStep == ASSUME TypeOK, PatchInv, QuietInv, GameInv, TraceInv, [Next]_vars PROVE TraceInv'
<1> USE DEF Before, Between, Go, Raise, SectionRaises, Section, Pass, Sections
<1>1. spec' = spec /\ truth' = truth /\ (WouldSelect' <=> WouldSelect) /\ (WouldMark' <=> WouldMark)
  BY Frame
<1>2. ASSUME UNCHANGED trace PROVE (TraceSays' <=> TraceSays) /\ (Validates(spec, trace))' = Validates(spec, trace)
  BY <1>1, <1>2 DEF TraceSays, Validates, Signs, Managed
<1>3. CASE PlanetPass \/ Commit \/ Stardate \/ Drift \/ TakeKey
  <2>1. UNCHANGED <<pc, trace, result>>
    BY <1>3 DEF PlanetPass, Commit, Stardate, Drift, TakeKey, runVars
  <2>2. trace.initial <= game'.stardate
    <3>1. game'.stardate \in {game.stardate, game.stardate + 1}
      BY <1>3 DEF PlanetPass, Commit, Stardate, Drift, TakeKey, TypeOK
    <3>2. game.stardate \in Nat /\ trace.initial \in Nat
      BY DEF TypeOK, Traces
    <3>3. QED
      BY <3>1, <3>2 DEF TraceInv
  <2>3. game.slot => game'.slot
    BY <1>3 DEF PlanetPass, Commit, Stardate, Drift, TakeKey, TypeOK
  <2>4. QED
    BY <1>2, <2>1, <2>2, <2>3 DEF TraceInv
<1>4. CASE GameDies \/ KernelStops \/ Returned \/ Halt \/ UNCHANGED vars
  <2>1. UNCHANGED <<pc, trace, result, game>>
    BY <1>4 DEF GameDies, KernelStops, Returned, Halt, gameVars, runVars, vars
  <2>2. QED
    BY <1>2, <2>1 DEF TraceInv
<1>5. CASE Launch \/ NotStopped \/ SectionBreaks \/ SampleRecord \/ Arm \/ WaitField \/ SampleArmed \/ ApplyPatch
           \/ FastForward
  <2>1. UNCHANGED <<trace, game>>
    BY <1>5 DEF Launch, NotStopped, SectionBreaks, SampleRecord, Arm, WaitField, SampleArmed, ApplyPatch,
       FastForward, gameVars
  <2>2. pc' \notin {"watch", "sample", "validate", "restore"} /\ (result' = "passed" => result = "passed")
    BY <1>5 DEF Launch, NotStopped, SectionBreaks, SampleRecord, Arm, WaitField, SampleArmed, ApplyPatch, FastForward
  <2>3. pc' \in Before \cup {"forward", "first"} => pc \in Before \cup {"forward"}
    BY <1>5 DEF Launch, NotStopped, SectionBreaks, SampleRecord, Arm, WaitField, SampleArmed, ApplyPatch, FastForward
  <2>4. QED
    BY <1>2, <2>1, <2>2, <2>3 DEF TraceInv
<1>6. CASE FirstSample
  <2>1. /\ pc = "first" /\ UNCHANGED game /\ trace = NoTrace /\ result = "none"
        /\ trace' = [trace EXCEPT !.initial = game.stardate, !.managed = game.managed, !.passes = passes]
        /\ pc' = "watch" => ~game.slot /\ game.action = "none"
        /\ pc' \in {"watch", "finally"} /\ result' # "passed"
    BY <1>6 DEF FirstSample, gameVars, TraceInv, PatchInv
  <2>2. /\ trace'.initial = game.stardate /\ ~trace'.slot /\ trace'.delta = 0 /\ trace'.action = "none"
        /\ trace'.managed = game.managed /\ trace'.passes = passes
    BY <2>1 DEF NoTrace
  <2>3. game'.stardate \in Nat
    BY <2>1 DEF TypeOK
  <2>4. pc' = "watch" => TraceSays'
    BY <1>1, <2>1, <2>2 DEF TraceSays, GameInv
  <2>5. QED
    BY <2>1, <2>2, <2>3, <2>4 DEF TraceInv
<1>7. CASE Sample
  <2>1. /\ UNCHANGED <<game, result>> /\ pc = "sample" /\ pc' \in {"watch", "validate"} /\ result = "none"
        /\ trace'.initial = trace.initial
    BY <1>7 DEF Sample, gameVars, PatchInv
  <2>2. trace'.slot => game.slot
    BY <1>7, <2>1 DEF Sample, TraceInv
  <2>3. TraceSays'
    BY <1>7, SampleSays
  <2>4. QED
    BY <2>1, <2>2, <2>3 DEF TraceInv
<1>8. CASE NextSample \/ WindowEnds
  <2>1. UNCHANGED <<trace, game, result>> /\ pc = "watch" /\ pc' \in {"sample", "validate"} /\ result = "none"
    BY <1>8 DEF NextSample, WindowEnds, gameVars, PatchInv
  <2>2. QED
    BY <1>2, <2>1 DEF TraceInv
<1>9. CASE Validate
  <2>1. /\ UNCHANGED <<trace, game>> /\ pc = "validate" /\ pc' \in {"restore", "finally"} /\ result = "none"
        /\ pc' = "restore" \/ result' = "passed" => Validates(spec, trace)
    BY <1>9 DEF Validate, gameVars, PatchInv
  <2>2. QED
    BY <1>2, <2>1 DEF TraceInv
<1>10. CASE RestorePatch \/ Finally \/ Teardown
  <2>1. /\ UNCHANGED <<trace, game>> /\ pc' \in {"finally", "teardown", "rollback", "done"}
        /\ result' = "passed" => result = "passed" \/ pc = "restore"
    BY <1>10 DEF RestorePatch, Finally, Teardown, gameVars
  <2>2. QED
    BY <1>2, <2>1 DEF TraceInv
<1>11. QED
  BY <1>3, <1>4, <1>5, <1>6, <1>7, <1>8, <1>9, <1>10 DEF Next, Runner
-----------------------------------------------------------------------------
\* The invariant holds before the launch.
LEMMA ProbeInit == Init => ProbeInv
<1> SUFFICES ASSUME NEW s \in Scenarios, NEW t \in Truths, NEW m \in BOOLEAN, InitWith(s, t, m, "launch")
             PROVE  ProbeInv
  BY DEF Init
<1> USE DEF InitWith
<1>1. /\ game.managed = m /\ ~game.slot /\ game.action = "none" /\ ~game.forward /\ game.stardate = 0
  OBVIOUS
<1>2. TypeOK
  <2>1. game \in [managed : BOOLEAN, slot : BOOLEAN, action : {"none", "auto", "marker"},
                  forward : BOOLEAN, stardate : 0..MaxTurns]
    BY TurnAssumption
  <2>2. trace \in Traces /\ passes \in 0..MaxTurns
    BY TurnAssumption DEF Traces, NoTrace
  <2>3. drifted \in BOOLEAN /\ alive \in BOOLEAN /\ patch_applied \in BOOLEAN
    OBVIOUS
  <2>4. QED
    BY <2>1, <2>2, <2>3 DEF TypeOK, Original
<1>3. PatchInv /\ QuietInv /\ GameInv
  BY <1>1 DEF PatchInv, QuietInv, GameInv, Before, Between
<1>4. TraceInv
  <2>1. trace.initial <= game.stardate
    BY DEF NoTrace
  <2>2. QED
    BY <2>1 DEF TraceInv, Before, Between
<1>5. QED
  BY <1>2, <1>3, <1>4 DEF ProbeInv

\* Every step of the game and of the runner keeps it.
LEMMA ProbeStepKeeps == ProbeInv /\ [Next]_vars => ProbeInv'
<1> SUFFICES ASSUME ProbeInv, [Next]_vars PROVE ProbeInv'
  OBVIOUS
<1>1. TypeOK'
  BY TypeStep DEF ProbeInv, TraceInv
<1>2. QED
  BY <1>1, PatchStep, QuietStep, GameStep, TraceStep DEF ProbeInv

\* The invariant of a scenario holds throughout.
LEMMA ProbeInvariant == Spec => []ProbeInv
<1>1. Init => ProbeInv
  BY ProbeInit
<1>2. ProbeInv /\ [Next]_vars => ProbeInv'
  BY ProbeStepKeeps
<1>3. QED
  BY <1>1, <1>2, PTL DEF Spec

\* A scenario reports "passed" only with the original bytes back in the code,
\* however many turns the game plays and wherever it dies (run_scenario).
THEOREM PatchTakenBack == Spec => []PassedIsRestored
<1>1. ProbeInv => PassedIsRestored
  BY DEF ProbeInv, PatchInv, PassedIsRestored
<1>2. QED
  BY <1>1, ProbeInvariant, PTL

\* While the game is stopped, or about to be, the next step of the runner lets
\* it go on, and a stopped game does not move.
ResumeIsNext ==
  [][halted # "running" =>
       /\ halted' = "running" \/ UNCHANGED <<pc, trace, patch_applied, result, code>>
       /\ halted = "stopped" => UNCHANGED <<game, turn, keys, passes>>]_vars

(***************************************************************************)
(* What AlwaysResumed says without its promise of progress: a scenario     *)
(* leaves no stop behind, each stop encloses one operation, which is       *)
(* followed by the resume whether it fails or not, and what is read in it  *)
(* is of one instant (stopped_process, run_scenario).                      *)
(***************************************************************************)
THEOREM StopsAreTakenBack ==
  Spec => [](halted # "running" => pc \in Sections) /\ ResumeIsNext
<1>1. ProbeInv /\ (halted # "running" => pc \in Sections) /\ [Next]_vars
        => (halted # "running" => pc \in Sections)'
  <2> SUFFICES ASSUME ProbeInv, halted # "running" => pc \in Sections, [Next]_vars
               PROVE  (halted # "running" => pc \in Sections)'
    OBVIOUS
  <2>1. CASE UNCHANGED vars
    BY <2>1 DEF vars, runVars
  <2>2. CASE Halt
    BY <2>2 DEF Halt, gameVars, runVars
  <2>3. CASE KernelStops
    BY <2>3 DEF KernelStops, gameVars, runVars
  <2>4. CASE NotStopped \/ SectionBreaks
    BY <2>4 DEF NotStopped, SectionBreaks
  <2>5. CASE SampleRecord \/ SampleArmed \/ ApplyPatch \/ FirstSample \/ Sample \/ RestorePatch
    BY <2>5 DEF SampleRecord, SampleArmed, ApplyPatch, FirstSample, Sample, RestorePatch, Section
  <2>6. CASE Launch \/ Arm \/ WaitField \/ FastForward \/ NextSample \/ WindowEnds \/ Validate
             \/ Finally \/ Teardown
    <3>1. halted' = halted /\ pc \in {"launch", "arm", "arming", "forward", "watch", "validate",
                                      "finally", "teardown"}
      BY <2>6 DEF Launch, Arm, WaitField, FastForward, NextSample, WindowEnds, Validate, Finally, Teardown
    <3>2. pc \notin Sections
      BY <3>1 DEF Sections
    <3>3. QED
      BY <3>1, <3>2
  <2>7. CASE PlanetPass \/ Commit \/ Stardate \/ Drift \/ TakeKey \/ GameDies \/ Returned
    BY <2>7 DEF PlanetPass, Commit, Stardate, Drift, TakeKey, GameDies, Returned, vars, runVars
  <2>8. QED
    BY <2>1, <2>2, <2>3, <2>4, <2>5, <2>6, <2>7 DEF Next, Runner
<1>2. Init => (halted # "running" => pc \in Sections)
  BY DEF Init, InitWith
<1> DEFINE Step == halted # "running" =>
                     /\ halted' = "running" \/ UNCHANGED <<pc, trace, patch_applied, result, code>>
                     /\ halted = "stopped" => UNCHANGED <<game, turn, keys, passes>>
<1>3. (halted # "running" => pc \in Sections) /\ [Next]_vars => [Step]_vars
  <2> SUFFICES ASSUME halted # "running", pc \in Sections, Next
               PROVE  /\ halted' = "running" \/ UNCHANGED <<pc, trace, patch_applied, result, code>>
                      /\ halted = "stopped" => UNCHANGED <<game, turn, keys, passes>>
    BY DEF Step
  <2>1. CASE Halt \/ KernelStops
    BY <2>1 DEF Halt, KernelStops, gameVars, runVars
  <2>2. CASE NotStopped \/ SectionBreaks
    BY <2>2 DEF NotStopped, SectionBreaks, gameVars
  <2>3. CASE SampleRecord \/ SampleArmed \/ ApplyPatch \/ FirstSample \/ Sample \/ RestorePatch
    BY <2>3 DEF SampleRecord, SampleArmed, ApplyPatch, FirstSample, Sample, RestorePatch, Section, gameVars
  <2>4. ~(Launch \/ Arm \/ WaitField \/ FastForward \/ NextSample \/ WindowEnds \/ Validate
           \/ Finally \/ Teardown \/ Returned)
    BY DEF Launch, Arm, WaitField, FastForward, NextSample, WindowEnds, Validate, Finally, Teardown,
       Returned, Sections
  <2>5. CASE PlanetPass \/ Commit \/ Stardate \/ Drift \/ TakeKey \/ GameDies
    BY <2>5 DEF PlanetPass, Commit, Stardate, Drift, TakeKey, GameDies, Runs, gameVars, runVars
  <2>6. QED
    BY <2>1, <2>2, <2>3, <2>4, <2>5 DEF Next, Runner
<1>4. Spec => [](halted # "running" => pc \in Sections)
  BY <1>1, <1>2, ProbeInvariant, PTL DEF Spec
<1>5. QED
  BY <1>3, <1>4, PTL DEF Spec, ResumeIsNext

\* What the last sample says makes the verdict right.
LEMMA ValidatedIsRight ==
  ASSUME StardateLast, TypeOK, TraceSays, Validates(spec, trace)
  PROVE  (spec \in Negative => trace.passes > 0) /\ Conclusion(spec)
<1> USE DEF Validates, Signs, TraceSays, Negative
<1>1. trace.managed = Managed(spec)
  OBVIOUS
<1>2. spec \in Negative => trace.passes > 0
  BY <1>1
<1>3. CASE spec \in {"manual-control", "manual-gate-probe"}
  BY <1>1, <1>2, <1>3 DEF Conclusion, WouldSelect, WouldMark, Managed, Patched, PatchedSite, Replacement, IsPatched
<1>4. CASE spec \in {"managed-gate-probe", "managed-policy-suppressed"}
  BY <1>1, <1>2, <1>4 DEF Conclusion, WouldSelect, WouldMark, Managed, Patched, PatchedSite, Replacement, IsPatched
<1>5. CASE spec \in {"managed-control", "managed-action-write-suppressed"}
  BY <1>1, <1>2, <1>5 DEF Conclusion, WouldSelect, WouldMark, Managed, Patched, PatchedSite, Replacement, IsPatched
<1>6. QED
  BY <1>2, <1>3, <1>4, <1>5 DEF TypeOK, Scenarios

\* When a turn raises the stardate after its planet pass, what a passed scenario
\* concludes about the game is true of it, and a scenario that must see nothing
\* saw a pass, for any number of turns (validate_scenario, summarize_causality).
THEOREM PassedIsTrue == StardateLast => (Spec => []PassedMeansItHappened)
<1> SUFFICES ASSUME StardateLast PROVE Spec => []PassedMeansItHappened
  OBVIOUS
<1>1. ProbeInv => PassedMeansItHappened
  BY ValidatedIsRight DEF ProbeInv, TraceInv, PassedMeansItHappened, NegativeSawAPass, VerdictIsRight
<1>2. QED
  BY <1>1, ProbeInvariant, PTL
-----------------------------------------------------------------------------
(* The artifacts of the focused scenarios and their aggregate.             *)

EvidenceTypes == Evidence!TypeOK
EvidenceInv == EvidenceTypes /\ AggregateIsEvidence

\* What is aggregated are artifacts of one experiment.
LEMMA AggregatedAgree ==
  ASSUME NEW f \in [Focused -> Evidence!Results \cup Evidence!Older \cup {None}], NEW t \in {"t", "s"},
         Evidence!Complete(f), Evidence!OfThisRun(f, t), Evidence!Agree(f)
  PROVE  /\ f \in [Focused -> Evidence!Results]
         /\ \E p \in {"p", "q"}, w \in {"w", "u"} : \A s \in Focused :
              f[s] = [contract |-> "v2", planet |-> p, window |-> w, tree |-> t, status |-> "passed",
                      valid |-> TRUE]
<1>1. \A s \in Focused : f[s] \in Evidence!Results
  BY DEF Evidence!Complete, Evidence!OfThisRun, Evidence!Older, Evidence!Usual
<1>2. \A s \in Focused : f[s].planet \in {"p", "q"} /\ f[s].window \in {"w", "u"}
  BY <1>1 DEF Evidence!Results, Evidence!Usual
<1>3. PICK p \in {"p", "q"} : \A s \in Focused : f[s].planet = p
  BY <1>2 DEF Evidence!Agree
<1>4. PICK w \in {"w", "u"} : \A s \in Focused : f[s].window = w
  BY <1>2 DEF Evidence!Agree
<1>5. \A s \in Focused : f[s] = [contract |-> "v2", planet |-> p, window |-> w, tree |-> t, status |-> "passed",
                      valid |-> TRUE]
  <2> SUFFICES ASSUME NEW s \in Focused
               PROVE  f[s] = [contract |-> "v2", planet |-> p, window |-> w, tree |-> t, status |-> "passed",
                      valid |-> TRUE]
    OBVIOUS
  <2>1. f[s].contract = "v2" /\ f[s].status = "passed" /\ f[s].tree = t /\ f[s].planet = p /\ f[s].window = w
    BY <1>3, <1>4 DEF Evidence!OfThisRun
  <2>2. f[s] \in Evidence!Results
    BY <1>1
  <2>3. QED
    BY <2>1, <2>2 DEF Evidence!Results, Evidence!Usual
<1>6. QED
  BY <1>1, <1>5

\* Every invocation keeps the aggregate one experiment's and, when it ends well
\* with all files there, of those files.
LEMMA EvidenceStepKeeps == ASSUME EvidenceInv, [Evidence!Next]_evidence PROVE EvidenceInv'
<1> USE DEF EvidenceInv, EvidenceTypes, AggregateIsEvidence, evidence
<1>1. CASE Evidence!RunAll
  BY <1>1, FocusedAssumption DEF Evidence!RunAll, Evidence!TypeOK, Evidence!AggregateIsOneExperiment,
     Evidence!SuccessMeansFreshAggregate
<1>2. ASSUME NEW s \in Focused, Evidence!RunFocused(s) PROVE EvidenceInv'
  <2>1. PICK r \in Evidence!Results :
          /\ artifacts' = [artifacts EXCEPT ![s] = r] /\ latest' = s
          /\ IF r.status = "passed" THEN Evidence!Aggregate(artifacts', r.tree)
             ELSE aggregate' = aggregate /\ exit' = "failed"
    BY <1>2 DEF Evidence!RunFocused
  <2>2. artifacts' \in [Focused -> Evidence!Results \cup Evidence!Older \cup {None}] /\ latest' \in Focused
    BY <2>1 DEF Evidence!TypeOK
  <2>3. CASE r.status = "passed" /\ Evidence!Complete(artifacts') /\ Evidence!OfThisRun(artifacts', r.tree)
             /\ Evidence!Agree(artifacts')
    <3>1. aggregate' = artifacts' /\ exit' = "ok"
      BY <2>1, <2>3 DEF Evidence!Aggregate
    <3>2. r.tree \in {"t", "s"}
      BY DEF Evidence!Results, Evidence!Usual
    <3>3. /\ artifacts' \in [Focused -> Evidence!Results]
          /\ \E p \in {"p", "q"}, w \in {"w", "u"} : \A x \in Focused :
               artifacts'[x] = [contract |-> "v2", planet |-> p, window |-> w, tree |-> r.tree, status |-> "passed",
                 valid |-> TRUE]
      BY <2>2, <2>3, <3>2, AggregatedAgree
    <3>4. QED
      BY <2>2, <3>1, <3>2, <3>3 DEF Evidence!TypeOK, Evidence!AggregateIsOneExperiment,
         Evidence!SuccessMeansFreshAggregate
  <2>4. CASE ~(r.status = "passed" /\ Evidence!Complete(artifacts') /\ Evidence!OfThisRun(artifacts', r.tree)
               /\ Evidence!Agree(artifacts'))
    <3>1. /\ aggregate' = aggregate /\ exit' \in {"ok", "failed", "raised"}
          /\ exit' = "ok" => ~Evidence!Complete(artifacts')
      BY <2>1, <2>4 DEF Evidence!Aggregate
    <3>2. QED
      BY <2>2, <3>1 DEF Evidence!TypeOK, Evidence!AggregateIsOneExperiment, Evidence!SuccessMeansFreshAggregate,
         Evidence!Complete
  <2>5. QED
    BY <2>3, <2>4
<1>3. CASE UNCHANGED evidence
  BY <1>3 DEF Evidence!TypeOK, Evidence!AggregateIsOneExperiment, Evidence!SuccessMeansFreshAggregate,
     Evidence!Complete
<1>4. QED
  BY <1>1, <1>2, <1>3 DEF Evidence!Next
\* Without artifacts there is nothing to aggregate.
LEMMA EvidenceInit == Evidence!Init => EvidenceInv
BY DEF Evidence!Init, EvidenceInv, EvidenceTypes, Evidence!TypeOK, AggregateIsEvidence,
   Evidence!AggregateIsOneExperiment, Evidence!SuccessMeansFreshAggregate

\* However many invocations there are, and for any scenarios, what is aggregated
\* is one experiment's, and a run that ends well with all files there leaves the
\* aggregate of those files (aggregate_focused_results, main).
THEOREM AggregateHolds == Evidence!Spec => []AggregateIsEvidence
<1>1. Evidence!Init => EvidenceInv
  BY EvidenceInit
<1>2. EvidenceInv /\ [Evidence!Next]_evidence => EvidenceInv'
  BY EvidenceStepKeeps
<1>3. EvidenceInv => AggregateIsEvidence
  BY DEF EvidenceInv
<1>4. Evidence!Spec <=> Evidence!Init /\ [][Evidence!Next]_evidence
  BY DEF Evidence!Spec, Evidence!vars, evidence
<1>5. QED
  BY <1>1, <1>2, <1>3, <1>4, PTL
-----------------------------------------------------------------------------
(* The two parts side by side.                                             *)

\* The part that does not run has no scenario under way.
LEMMA IdleProbe ==
  InitWith("manual-control", [gates |-> {TRUE}, bypass |-> FALSE, direct |-> FALSE], FALSE, "done") => ProbeInv
<1> SUFFICES ASSUME InitWith("manual-control", [gates |-> {TRUE}, bypass |-> FALSE, direct |-> FALSE], FALSE, "done")
             PROVE  ProbeInv
  OBVIOUS
<1> USE DEF InitWith
<1>1. TypeOK
  <2>1. game \in [managed : BOOLEAN, slot : BOOLEAN, action : {"none", "auto", "marker"},
                  forward : BOOLEAN, stardate : 0..MaxTurns]
    BY TurnAssumption
  <2>2. trace \in Traces /\ passes \in 0..MaxTurns
    BY TurnAssumption DEF Traces, NoTrace
  <2>3. drifted \in BOOLEAN /\ alive \in BOOLEAN /\ patch_applied \in BOOLEAN
    OBVIOUS
  <2>4. spec \in Scenarios /\ truth \in Truths
    BY DEF Scenarios, Truths
  <2>5. QED
    BY <2>1, <2>2, <2>3, <2>4 DEF TypeOK, Original
<1>2. PatchInv /\ QuietInv /\ GameInv
  BY DEF PatchInv, QuietInv, GameInv, Before, Between
<1>3. trace.initial <= game.stardate
  BY DEF NoTrace
<1>4. QED
  BY <1>1, <1>2, <1>3 DEF ProbeInv, TraceInv, Before, Between

\* Every variable of both parts keeps its type, for any number of turns and any
\* scenarios.
THEOREM BothTyped == MCSpec => []BothTypeOK
<1> DEFINE Inv == ProbeInv /\ EvidenceInv
<1>1. MCInit => Inv
  <2>1. MCInit => ProbeInv
    BY ProbeInit, IdleProbe DEF MCInit
  <2>2. ASSUME MCInit PROVE EvidenceInv
    <3>1. Evidence!Init \/ /\ artifacts = [s \in Focused |-> None] /\ aggregate = None
                           /\ exit = "none" /\ latest = None
      BY <2>2 DEF MCInit
    <3>2. Evidence!Init
      BY <3>1 DEF Evidence!Init
    <3>3. QED
      BY <3>2, EvidenceInit
  <2>3. QED
    BY <2>1, <2>2
<1>2. Inv /\ [MCNext]_<<part, vars, evidence>> => Inv'
  <2> SUFFICES ASSUME Inv, [MCNext]_<<part, vars, evidence>> PROVE Inv'
    OBVIOUS
  <2>1. [Next]_vars /\ [Evidence!Next]_evidence
    BY DEF MCNext, ProbeStep, EvidenceStep
  <2>2. QED
    BY <2>1, ProbeStepKeeps, EvidenceStepKeeps
<1>3. Inv => BothTypeOK
  BY DEF ProbeInv, EvidenceInv, EvidenceTypes, BothTypeOK
<1>4. QED
  BY <1>1, <1>2, <1>3, PTL DEF MCSpec
=============================================================================
