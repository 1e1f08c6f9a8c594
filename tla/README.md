# Verification project: ascendancy-auto-management

TLA+ models of the parts of this repository whose correctness depends on an
order of events: TLC checks them on small instances, TLAPS proves the safety
properties of the passing runs for every value of the constants. Paths are relative to
the repository (`src/` in PROJECT.json). All models are written from the code;
where a document or a comment of the repository disagrees with it, a run shows
the disagreement (section *Findings*).

    tlasany M.tla                              # parse
    tlc -workers 2 -config X.cfg M             # model-check
    tlapm M.tla                                # check proofs

## 1. Inventory

The repository reverse-engineers the game Ascendancy (DOS, LE executables) to
build an auto-management mod. Its code is a set of Python tools. Most are pure
translations of bytes into reports; the ones below have state, partners that
move on their own, or files that outlive a run.

| Component | Code (scripts/ unless said) | State | Operations | Talks to |
|---|---|---|---|---|
| Action script | `a1_lifetime_action_script.py` | none | `validate_action_script` | called by the executor |
| Observer core | `a1_lifetime_observer_core.py` | loop index, attempt, deadline, control points, pending leg, transcript | `execute_observer_plan`, `_qualify`, `_signal` | the backend |
| Exact-target backend, resolver, witness | `a1_exact_target_runtime_backend.py`, `a1_selected_record_runtime.py`, `a1_observer_witness.py` | `_replacement_pending` | `qualify`, `replace`, `resolve_selected_record` | drivers; the memory of a running game |
| Command drivers | `a1_selection_command_driver.py`, `a1_replacement_command_driver.py` | a child process | launch, `communicate`, `killpg`, reap | helper processes |
| Row helper | `a1_planet_row_selection_helper.py` | none | one X11 click | the X server, the game |
| Record adapter, pipeline | `a1_lifetime_record_adapter.py`, `run_a1_lifetime_pipeline.py` | none | `adapt_transcript`, `run_pipeline` | executor, oracle |
| Lifetime oracle | `_a1_sidecar_lifetime_oracle_core.py`, `a1_selection_control_oracle.py`, `a1_v2_witness_binding.py`, `a1_sidecar_evidence_bundle.py`, `a1_scenario_qualification.py` | none (files) | `validate_record`, `validate_bundle`, `build_manifest` | pipeline, orchestrator |
| Orchestrator | `run_a1_lifetime_observer.py` | digests, a manifest, a child process, the record file | `run_observer` | files, the observer process, oracle |
| Manual transitions | `a1_manual_transition_oracle.py` | none | `validate_record` | files |
| Validation fixtures | `add_validation_fixture.py`, `validate_validation_fixtures.py` | declaration file, payload files | add, replace, roll back; roles, records, artifacts | the maintainer, a save the game writes |
| RE5 turn path | `run_re5_runtime_turn_path*.py`, `re5_followup_model.py` | a stopped process, patched bytes, samples, artifacts | stop/continue, patch/restore, monitor, judge, aggregate | the running game, earlier artifacts |
| RE4 probe | `run_re4_runtime_state.py` | snapshots of memory, pictures | toggle, compare, wait for the field | the running game |
| RE5 override witness | `run_re5_override_witness.py` | samples with times | locate, sample, `evaluate` | the running game |
| A2 observation | `run_a2_capacity_runtime_observation.py` | samples of a byte range | guards, samples, verdict | the running game, the executable |
| T3 fixture run | `run_t3_multi_planet_fixture.py` | artifact, preserved sources | load, observe, preserve, publish | the game, the maintainer's files |
| CF3, CF4 UI runs | `run_cf3_runtime_smoke.py`, `run_cf4_ui_validation.py` | Xvfb and DOSBox processes, frames | overlay, drive, capture, judge, tear down | X server, DOSBox |
| Fetch | `tools/fetch_free_targets.py`, `tools/fetch_demo.py` | `.part` files, trees | download, verify, replace | network, files |
| LE tools | `tools/le_image.py`, `tools/le_disasm.py`, `tools/le_diff.py` | none | parse, inventory, compare | objdump, each other's inventories |
| Reports, repository checks | `generate_*`, `probe_*`, `check-docs.py`, ... | none | bytes to reports | files |

### Hard behaviours, and what makes each part correct

* **Observer.** A sequential executor whose partners are not: the game moves the
  selection between two reads; a click is handled after its helper exited; a
  helper hangs, declines, is killed after it acted, or leaves a child that holds
  its pipes. Attempts, steps and helpers draw on one time budget. One fact (a
  replacement happened) is kept in two objects. Correct means: the transcript is
  the plan's prefix, truthful, extended only; a replacement is asked for at most
  once and reported exactly once; the two points of a leg lie in two successive
  populations; a reused pointer has its signal; the function returns.
* **Adapter and oracle.** They re-derive from a transcript what the executor
  checked on the fly, for runs that stopped anywhere. Correct means: they never
  refuse a transcript of the executor, and a partial run never looks complete.
* **Orchestrator.** Files may be rewritten while the observer runs and between any
  two reads; an earlier failed run may have left a record; the observer and its
  children may hang. Correct means: a bound record was made from the files whose
  digests it carries; a timeout leaves nobody behind; every run ends.
* **Fixtures.** A run writes two files, may fail or be killed in between, and
  copies a save that may change. Correct means: what the declaration names is
  there with the declared bytes, evidence is about these bytes, failures undo what
  they did and nothing else.
* **RE5.** The game plays turns between two samples, drops or delays keys, may die,
  and a write or its verification may fail. Correct means: SIGSTOP is undone on every
  path, a scenario that passes has its original bytes back and saw what its conclusion
  says, and the aggregate mixes no artifacts of other sessions.
* **RE4, witness, A2, CF3, CF4.** The runner acts after fixed sleeps and samples; the game
  is late, changes between samples, or exits. Correct means: what is reported as the
  planet's, the variable's, the range's or the screen's is that, and processes end.
* **Oracles and roles.** Documents written at different times by different hands are
  joined by digests and sequence numbers. Correct means: what a positive verdict is used
  for (a cache that serves no stale profile, a save that plays a role) follows from it.
* **T3 and fetch.** Kills and failed writes between any two of several file operations.
  Correct means: what is published or fetched is whole, and a later run recovers.
* **LE tools.** Short and reordered pages, call targets between instructions, functions
  with equal signatures. Correct means: addresses and bytes agree, nothing is counted
  twice or dropped.

PROJECT.json lists every hazard at its line with the properties that cover it, or
why none does.

## 2. Modules

| Module | What it is |
|---|---|
| `ActionScript` | `validate_action_script` as operators |
| `MCActionScript` | TLC: all scripts within `MaxEdits` edits of a documented plan |
| `PlanRun` | abstract specification: what a run of the plan promises |
| `LifetimeObserver` | executor, backend, resolver, drivers, helpers, game; refines `PlanRun` |
| `MCLifetimeObserver` | its scripts, populations and symmetry for TLC |
| `LifetimePipeline` | `LifetimeObserver` composed with adapter and oracle |
| `MCLifetimePipeline` | its instance for TLC |
| `LifetimeObserverProofs` | type correctness, flag agreement, deadline, replacements are not repeated; `LifetimeObserver` implements `PlanRun`; the transcript is truthful and only grows; a run leads on; the adapter's record is honest, and one that claims coverage comes from a whole run |
| `ObserverOrchestration` | `run_observer`, the observer process, writers of the files, repeated runs |
| `ObserverOrchestrationProofs` | types; the provenance of a bound record, the record is this run's, nobody survives a timeout, an attempt leads on |
| `FixtureRegistry` | `add_validation_fixture` run after run, with failures, kills and a changing save |
| `MCFixtureRegistry` | its symmetry for TLC |
| `FixtureRegistryProofs` | types; the declared payloads are in place, claims keep to their bytes, what is committed stays |
| `TurnProbe` | one RE5 scenario and its game |
| `TurnEvidence` | artifacts of many invocations and their aggregation |
| `MCTurnPath` | TLC: either of the two |
| `TurnPathProofs` | types; a scenario that passes has its patch taken back and saw what happened; stops are undone; the aggregate mixes nothing |
| `FollowupTurn` | stop policy, verdict and aggregation of the follow-up, as operators |
| `RuntimeState` | the RE4 probe of the managed field |
| `OverrideWitness` | locating and sampling a variable of the game |
| `GateRelocation` | the relocation the witness takes the address from, as the loader applies it |
| `CapacityObservation` | guards, samples and verdict of A2 |
| `UiRun` | configuration, run loop and teardown of CF4 |
| `SmokeRun` | overlay, run and verdict of CF3 |
| `MCGameRuns` | TLC: one run of one of these tools |
| `GameRunsProofs` | everything that run checks, but that the UI run ends; one that ends leaves nothing running |
| `FixtureObservation` | the T3 run: load, observe, preserve, publish; killed and repeated |
| `TargetFetch`, `DemoFetch` | the two download tools, killed and repeated |
| `MCFiles` | TLC: one of these three tools |
| `FilesProofs` | everything that run checks, but that the demo fetch recovers in the end; its success is the whole tree |
| `WitnessRanges` | qualification of a scenario, binding of a v2 witness |
| `LifetimeOracle` | every outcome of `validate_record`, with the selection control |
| `ManualInvalidation` | `validate_record` of the Manual transitions |
| `FixtureRoles` | which declared save satisfies its role |
| `LeImage`, `LeInventory`, `LeDiff`, `LeLists` | parser, code inventory and comparison, as operators, and the two loops they share |
| `MCLeCode` | images, disassemblies and inventories for TLC, and what is promised of them |
| `MCStatic` | TLC: one document of one of the validators, edited a field at a time |
| `LeProofs` | what is promised of the LE tools, for an image, a disassembly and a pair of inventories of any size |
| `StaticProofs` | everything the static run checks: scripts, records, verdicts, roles, images, inventories, comparisons |

Definitions preceded by "A fault:" are no part of any specification. Each is a
plausible slip in the definition that follows it; substituting it must make TLC
report the property it is paired with in PROJECT.json.

### ActionScript
Steps are records with the fields the validator reads, `Absent` for a missing one.
`TripleAt`, `Cursors` and `ObservedMechanisms` follow the loop that walks the script
in threes. JSON types and blank strings are not represented.

### LifetimeObserver
State: `pc`, `idx`, `attempt`, `control`, `pending`, `steps`, `legs`, `status`, `error` are
the locals and the result of `execute_observer_plan`; `replPending` is the backend's
`_replacement_pending`; `clock` and `until` stand for `time.monotonic` and for the
timeout given to `communicate`; `memory`, `selected`, `click`, `population` are the game
and the X server; `acted` and `detached` describe the helper. `seen` is history: the
population in which an entry was taken.

| Code | Actions |
|---|---|
| validation outside the handler | `Validate` |
| loop head, deadline check | `BeginQualify`, `BeginReplace` |
| retry loop of `_qualify` | `BeginAttempt`, `RetryOrFail` (used by every retryable outcome) |
| selection driver and `qualify` | `SelectionCompletes`, `SelectionDeclines`, `HelperBreaks`, `HelperTimesOut`, `Reap` |
| replacement driver and `replace` | `ReplacementCompletes`, `ReplacementDeclines`, and the same failures |
| the two reads and the witness | `ReadPointer`, `ReadBreaks`, `WitnessMismatch`, `Qualified` |
| the three phases | `RecordControl`, `RecordPre`, `RecordPost` |
| after the loop | `Finish` |
| environment | `HelperClicks`, `ClickLands`, `HelperReplaces`, `HelperDetaches`, `OrphanExits`, `Tick` |

The entry is appended before the checks of its phase are made, as in the code, so a
failed run may end with the entry that made it fail. The deadline is checked outside the
handler of the retry loop, so its expiry is not retried.

Assumptions on the environment: a replacement helper that reports `completed` has had
the population replaced (the contract between driver and helper; `ReplacementCompletes`
needs `acted`); planet records change only while a replacement helper runs, the
selection also by a late click, to any pointer, mapped or not, or to null.

### LifetimePipeline
`Execute` is a step of the observer; `Adapt` is `adapt_transcript` on the result, `Judge`
is `validate_record` on the derived record. `ScriptRaises` is the validator's error,
which no handler catches. All claims of a derived record are FALSE and its outcome is
always `incomplete-harness`, so both are left out.

### ObserverOrchestration
A file is a version number. `digest` holds what was hashed, `used` what the observer
executed and read, `record` the file it left, `group` its children. `pc` walks through
`run_observer` in the order of its reads: snapshot, output check, qualification,
expected source (parsed, then read again for its digest), executable, manifest,
recheck, launch, `communicate` with its timeout, the rechecks one file at a time, the
binding, and the two reads of `validate_bundle`. `Rewrite` may come between any two.

Assumptions: nobody rewrites the manifest before the launch (it is in a fresh
temporary directory); children that hold the observer's pipes stay in its process group;
with `Restores = FALSE` no earlier content comes back. Digests cannot see a content that
changes and changes back, so this last one is needed: it is the hypothesis of the
theorem and stated there.

### FixtureRegistry
`declaration` is the last complete document and `broken` says that its file holds a
part of one; `files` are the payloads; `save` is the maintainer's save. `Begin` is the
part of `main` that only reads (`build_entry`, `merge_entry`, `resolve_destination`,
the evidence checks); `Place`, `Copy` and `CopyFails` are `place_payload`; `Check` is
`check_payloads` with the rollback; `OpenDeclaration`, `WriteDeclaration` and `WriteFails`
are `write_text`, which empties the file before it fills it. `Crash` kills the process
at any point; `SaveChanges` is the game; `Restore` and `RemoveStray` are the maintainer
between runs. One invocation at a time.

### TurnProbe, TurnEvidence, FollowupTurn
`TurnProbe`: `pc` walks through `run_scenario`; `halted` is the process's stop state, `code`
its patched bytes, `patch_applied` the flag of the `finally` clause, `trace` what
`monitor_turn` has seen. `Halt`, `NotStopped` and `SectionBreaks` are `stopped_process` (the
stop that never arrives, and an exception inside); `ApplyPatch` and `RestorePatch` may write
short or fail their verification. The game: `PlanetPass`, `Commit` and `Stardate` are a turn,
`TakeKey` a key that arrives late, `Drift` a change of the armed field from elsewhere, `GameDies`.
What the call sites really do is in `truth`, which the runner cannot see: it is chosen at
the start, among all combinations, and `PassedMeansItHappened` compares the conclusion of
`summarize_causality` with it.
Assumption: a turn raises the stardate after its planet pass (`StardateLast`). With
`StardateLast = FALSE` TLC finds a Manual run that passes without a planet pass: the
stardate had moved and the window was over.

`TurnEvidence` is `main` over many invocations; an artifact differs from the usual one in
at most one thing (contract, planet, or none, window, tree, status, or a trace that today's oracle refuses). `FollowupTurn` has the follow-up's
own parts only: the stop policies, the verdict with its third outcome `inconclusive`, the set
of all scenarios and the aggregation, which judges every stored trace again. Its patching and
teardown are the functions that `TurnProbe` models. The bracket of the neighbours is recorded and
never required, as in the scenarios of the code.

### RuntimeState, OverrideWitness, CapacityObservation, UiRun, SmokeRun
`RuntimeState` walks a straight line of keys, snapshots, waits and pictures while the game
takes keys and paints late and other records change (`Blip`); `Candidates` is the search, after the
filter by the expected name, which several records may pass.

`OverrideWitness` has the samples and their times. The game goes on when `sample()` leaves
`stopped_process`, and `t_ms` is taken only then: `ReadInWindow` and `Stamp` are two steps, and the
clock may run between them. `evaluate` bounds the gaps between stamps, so two reads may be almost
twice the bound apart and a pulse as long as the bound can be missed; `NoLongPulseIsMissed` says which
pulse cannot. `GateRelocation` has a page whose relocations may lie at any offset, also where they
overlap the address in the instruction without starting at it; each writes four bytes, in the
order of the page, and its form is only the width of the target in its record. The code compares offsets for
equality and would not see an overlap, so `RelatedIsLoaded` excepts it: only the pinned digest of
the file keeps such a page away.

`CapacityObservation` has the guards on both sides of a range whose translated address may be off, in a
mapping that is the body with a margin on both sides; bytes beside the body may hold anything.

`UiRun` plays a script under one deadline: `Sleep` and `Helper` spend time, `Capture` and
`CompareFrames` judge, `Terminate`, `Collect` and `Report` are the `finally` clause. The deadline is set
before the tree is copied and hashed, which takes any time (`Setup`). Two sleeps are not in the sum
`load_actions` makes: the wait for the display (`XvfbSettle`) and the press of each click
(`ClickSleep`), which is not bounded by the deadline either. `DeclaredWaitsFit` therefore claims
only that the sum is what `main` sleeps as declared, and that nothing but these two, helpers and the copy bring
a deadline stop about: a script of many clicks that leaves a small budget is stopped by its own steps.
One unit of time stands for all these sleeps, and a helper's timeout is exact; in the code `max(0.05, ...)`
lets a helper started at the very end run slightly over, and teardown has times of its own after it.

`SmokeRun` copies a tree and lays the executable over it; names differ by case in the copy and not for
DOS. A tree that has the executable's name in lower case passes `verify_manifest_tree` and keeps that file
beside the copy; `RanTheGiven` names this exception.

### FixtureObservation, TargetFetch, DemoFetch
One action per file operation (`WritePartial`, `ReplacePartial`, `Publish`; `RemoveOld`,
`Move`), with a kill or a failed write between any two and the maintainer editing sources and
saves meanwhile. A source of the network delivers the right bytes, others, or nothing.
One invocation of a tool at a time: two of them share the names of their partial files.

### WitnessRanges, LifetimeOracle, ManualInvalidation, FixtureRoles
Operators on records, one per function of the code. `LifetimeOracle` judges the legs apart, as
the code does: the sequence numbers are those of one transition. It does not forbid the same
round trip twice in a Manual record; neither does the code. `FixtureRoles` also has actions:
the repository is edited by maintainers and by harnesses, and only a harness writes an
artifact. SHA-256 is injective in all of them.

### LeImage, LeInventory, LeDiff
A byte of the file stands for its offset, so that `object_bytes` shows which byte of the file
went where; `Zero` is padding. The sizes of headers and table entries are the real ones. A line of
objdump is a mnemonic and at most one hex operand, which is what the three signatures tell
apart; a digest is the body itself. Signature order is order of first occurrence, as in the
code's dictionaries, because it decides which functions the later passes pair. The loops that keep some elements of a
list and that add up its numbers are `Chosen` and `Summed` of `LeLists`, recursive functions of the
position, so that they can be proved about.

## 3. Runs

| Run | Properties | Shows |
|---|---|---|
| `lifetime_pipeline` | `TypeOK`, `PendingFlagAgrees`, `TranscriptIsTruthful`, `RecordIsHonest`, `TranscriptIsAppendOnly` | executor, adapter and oracle with records rebuilt anywhere, late clicks, failed reads, retries |
| `observer_time` | `HelperInsideDeadline`, `ReplacementsAreNotRepeated`, `Terminates`, `ImplementsPlanRun` | every way to spend the budget, helpers that hang or detach; liveness and the refinement of `PlanRun` |
| `orchestration` | `TypeOK`, `ProvenanceIsTruthful`, `TimeoutKillsTheGroup`, `RecordsAreBoundToTheirRun`, `Returns` | rewrites, stale records, hung observers |
| `fixture_registry` | `TypeOK`, `DeclaredPayloadsMatch`, `ClaimsAndPayloadsKeep`, `CommittedStays` | additions, replacements, failures, kills |
| `turn_path` | `BothTypeOK`, `PassedIsRestored`, `PassedMeansItHappened`, `AggregateIsEvidence`, `AlwaysResumed`, `Terminates` | RE5 against a moving game; artifacts of many sessions |
| `game_runs` | `TypeOK`, `PassedRe4IsThePlanet`, `ObserversMissNothing`, `RunsPassAsAsked`, `UiRunEnds` | the tools that act after fixed sleeps, against a game that is late |
| `files` | `TypeOK`, `EvidenceHolds`, `FetchedIsPinned`, `KeepsWhatIsThere`, `Recovers` | kills and failed writes between any two file operations |
| `static` | `ScriptsArePlans`, `PositiveFailsClosed`, `FollowupVerdictsHold`, `RolesRestOnRuns`, `ImagesAreTheFile`, `CodeIsComparedHonestly` | the validators and the LE tools around what they accept |
| `retried_read`, `orphan_blocks`, `rewritten_after_recheck`, `fixture_failed_write` | one each | the findings below |

The properties of `static` compare a validator with the use that is made of its verdict, not
with a second copy of its tests: `PositiveFailsClosed` runs a cache of profiles over the
history a record tells and asks that it never serves a replaced planet; `FollowupVerdictsHold`
looks at the samples, not at the registers of the monitor; `RolesRestOnRuns` follows the history of
the repository; `ImagesAreTheFile` follows the page map address by address;
`CodeIsComparedHonestly` counts by intervals where the code searches, and asks for a
partition where the code zips.

### Bounds, and why they are enough
* Edits of documents (`MaxEdits`, `RecordEdits` 2, `RoleEdits` 3): one edit makes every single slip;
  the second can hide the first. Three lines of a disassembly are edited, two entries of an image.
* Two labels, two mapped pointers and one unmapped, two witnesses: every test in the code
  is an equality between two of them or membership in the mapping.
* Observer: `MaxAttempts = 2`, one retry and then exhaustion; nothing depends on how many
  retries came before. `PerStep`, `Total` are 1 and 1 for safety (the deadline may pass
  at any point) and 2 and 3 where time matters: `PerStep < Total`, so a per-step
  timeout ends both before the deadline and cut short by it. `Horizon` stops the clock one
  `PerStep` after the deadline, when nothing compares later instants any more.
* Orchestration: `MaxVersion = 2`, all relations between versions are equalities; each of the five
  files may change once, at any time. Two attempts: one that leaves a record, one that finds it.
* Fixtures: `MaxRuns = 3`, add, replace, and a third run on what they (or a failure or kill) left;
  two ids, two places, two saves, one of which has both experiment records.
* `MaxTurns = 2`: a turn whose sign is seen and one that runs into the end of the window; the
  verdict depends on whether there was any. `TurnEvidence` has four of the six scenarios: it treats
  all alike, and needs a good, a bad and a missing one beside the one that runs.
* `MaxBlips = 3`: one stray change between each pair of the three snapshots that are compared.
  `Window = 6` with `MaxGap = 2`, `Interval = 1` leaves room for gaps inside, at and beyond the bound, and for
  the shortest excluded pulse (3) and the longest that can be missed (2). `Offsets` has the site of the
  relocation (4), offsets that overlap it on both sides by one byte or more (1, 3, 5, 7) and one past it
  (8). `Length = 5`, `Size = 2`, `Guard = 1`, `Margin = 1`: every shift that the mapping allows occurs,
  also into the margin. `MaxRuntime = 3`, `MaxLength = 3`: scripts of two captures and a wait or a
  click that fit, fit exactly and do not.
* Files: two entries of two sources, two files of a tree, two sources of a harness: the second can
  fail when the first is done. `MaxStarts = 4`, `MaxFailures = 6`: a failure at each step of an
  invocation, and a clean one after.
* `WindowSamples = 3`: a sign, its disappearance, and the sample after. `DiffFunctions = 6`: three
  functions of one signature against two and one of another.
* Symmetry is used only where no temporal liveness property is checked.
* `CHECK_DEADLOCK FALSE` is used where the subjects run out: edits (`static`), runs of the fixture tool,
  and the runs of tools that end (`game_runs`, `files`). Everywhere else a returned program
  stutters in an action of its own and TLC looks for deadlocks.

### Fairness
* Observer: `WF(Executor)` (the interpreter runs) and `WF(Tick)` (time passes). The helpers'
  exits, answers and clicks get none: a helper may hang for ever. `Terminates` has the premise that no
  helper's child in a session of its own holds the pipes for ever; `orphan_blocks` shows what
  happens otherwise.
* Orchestrator: `WF(Orchestrator)`, whose `TimesOut` is the expiry of `communicate`'s timeout; neither
  the observer nor its children are fair.
* RE5: `WF(Runner)`, and `SF(WindowEnds)`, since the loop leaves the test of the deadline for every
  sample and the clock is past it at one of them. The game gets none: it may never play a turn.
* CF4: `WF(Runner)` and `WF(PipesClose)`: `communicate()` has no timeout, so the end of the run rests on
  whoever inherited the game's pipes closing them.
* Demo fetch: `WF(Works)`; `Recovers` holds because failures are bounded (`MaxFailures`), that is, from
  the last failure on.

## 4. Findings

Each is a run with `expect: violation` and a quotation in PROJECT.json.

* `retried_read`: the observer contract says that an unmapped read or a failed witness
  ends the run; `_qualify` tries again.
* `orphan_blocks`: after `killpg` the driver waits in `communicate()` without a timeout; a
  helper's child in a session of its own keeps the run open past every documented bound.
* `rewritten_after_recheck`: inputs rewritten after their recheck are read again by
  `validate_bundle`, so a run can succeed on inputs other than those bound.
* `fixture_failed_write`: the declaration is rewritten in place, so a failed write leaves
  half a document, which the comment above it excludes.

## 5. Proofs

All leaves are checked by tlapm (SMT, Zenon, and PTL for the temporal steps). Each module names its
inductive invariant, has one lemma per action or part of it, and ends in the theorems about the
properties the runs check. A theorem holds for all constants that meet the named assumptions of the
modules it extends; a premise beyond those stands in the theorem itself and is listed at the end of
this section.

**Observer** (`LifetimeObserverProofs`). `TypeOK` is not inductive by itself: a transcript entry
is typed because the script was admitted and the control point says so. `ControlInv` adds
what each `pc` implies (a running script is one `ValidScript` accepted; at `record` the
pointer is mapped; in `replace` the pending leg has no action yet; `until` never exceeds
the total; a fresh leg has no action) and that the backend's flag is up exactly when the
pending leg has its action. `TypeCorrect`, `FlagAgreement` and `HelpersMeetDeadline` follow, for
all pointers, populations, scripts and bounds.

`Progress` ties the lengths together: the transcript has `idx - 1` entries while the run goes on,
and the population counts the replace steps behind it, plus the one in progress if its helper has
acted. It rests on `PlanShape`: a script `ValidScript` accepts has nine steps with replace at 5
and 8. `NoRepeatedReplacement` is immediate from it, and in `Refinement` each action maps to a step
of `PlanRun` or to a stutter. `RunsLeadOn` is what `Terminates` says without fairness: the executor has a
step open (`NeverStuck`) or waits for the clock, still behind the kill time, or for a child that holds the
pipes; and a move ends the run or brings it to its next step, to the next attempt it is allowed, or
further within one (`Further`).

**Transcript and record** (the same module). `TranscriptInv` says of every entry which step it
fits and in which population it was taken (`Due`), that the pending leg is the entry before the one
due, and that each leg joins the three entries around one replacement. It needs the memory in it: a
point of the present population still agrees with its witness, or the point recorded behind it could
not be told from one before the replacement. `TruthfulTranscript` and `AppendOnly` follow.
`OutcomeInv` adds what has been checked by the time something is kept: the control is the first
three points and returns, a leg with a reused pointer has its signal, and `complete` is exactly
two legs. From it the adapter refuses no transcript, wherever the run stopped (`AlwaysAdapts`), the
oracle accepts what it derives (`AlwaysAccepted`), and coverage and signals are earned:
`HonestRecord`. `CoverageIsAWholeRun` joins this with `PlanRun`, which the pipeline implements as the
executor does: `PlanKept` follows from the abstract specification alone, so a record that claims coverage
comes from nine recorded steps and exactly two replacements.

**Orchestration** (`ObserverOrchestrationProofs`). With no content coming back versions
only grow, so for a file `digest <= used <= content` from the launch on. The recheck
establishes `content = digest` for one file after another, which closes the sandwich:
`used = digest` stays true for files already rechecked whatever is rewritten
afterwards. `ProvenanceHolds` follows for any number of versions and attempts. `RunInv` adds that
every file is digested before the manifest is, that only a whole record is bound, and that
the group is empty once the tool waits for its pipes: `OrchestrationTypes` and `TimeoutIsFinal` need
no premise. `RecordsOfTheirRun` joins both. `AttemptsLeadOn` says of `Returns` what needs no fairness: a
step of the tool is open until it returns (its timeout while it waits for the observer or its pipes,
and after `killpg` no pipe is left), and each step brings it forward.

**Fixtures** (`FixtureRegistryProofs`). `DeclaredPayloadsMatch` needs two more facts: what this run
created is at a place no entry of the declaration names (so the rollback and the
copy harm no declared payload), and from `open` on the new document has been checked
against the files, which nobody changes any more. The lemma `EmptyPlaceIsUndeclared` is the
heart: an absent file is declared by nobody. For `ClaimsAndPayloads` the run also has to remember:
`FoundIsKept` says at each point what it has changed of the files it found (one absent place at most,
and only while it may still undo it), `DocumentIsMerged` that the document it will write keeps every
id. `CommittedForGood` is an action property and uses both.

**RE5** (`TurnPathProofs`). `PassedIsRestored` rests on `PatchInv`: which bytes are in at which point of
`run_scenario`, and that `passed` is only set behind a verified restore. `PassedMeansItHappened`
compares a conclusion with `truth`, which no variable of the runner mentions, so the link goes
through the game: `QuietInv` (no turn before the fast forward, and the arming key is taken by then),
`GameInv` (what a planet shows follows from its passes through the patched code, unless the game
changed the armed field itself), and `TraceInv` (the last sample says the same, and a torn sample
explains a slot without an action). `ValidatedIsRight` then goes through the scenarios.
`StopsAreTakenBack` is the half of `AlwaysResumed` that needs no fairness: a stop encloses one operation,
the runner's next step is the resume, and the game does not move in between.
`AggregateHolds` is about artifacts of any set of scenarios and any number of invocations.

**The tools that drive the game** (`GameRunsProofs`). `GameInv` is the conjunction of one invariant per
tool; the part that is not in play stands still.
* RE4: a record is the planet's or changed by itself. `ChangesInv` counts, for each record that shows
  what the runner looks for, at least as many changes as the observations before it demand
  (`SeenAt`); `QueueInv` says which keys are taken. A record other than the planet's needs six
  changes of its own (`StrayNeedsSix`), hence `MaxBlips < 6` in `TheRecordIsThePlanets`. The bound is
  sharp: with six TLC finds a run that passes on another record.
* Witness: each read lies between its own stamp and the stamp before it plus the sleep. Beside the last
  read before a stretch of instants is a read that is at most `2 * MaxGap - Interval` later, so
  a stretch of that length meets a sample (`AStretchMeetsASample`, `SampledStretch`). The bound is sharp: one instant
  less and TLC finds the pulse that is missed. A relocation that alone touches the address gives the
  loaded one, byte by byte (`OneRelocation`).
* Capacity: guards on both sides pin the shift, for any guard width, range and margin (`GuardsPin`).
* UI run: while it runs, the clock is what its helpers and the copy took (`own`), plus what it has slept,
  plus the presses of its clicks (`Due`), so a deadline stop without `own` needs the settle time and the presses to
  use up what the declared waits leave: `DeclaredWaitsFit` for scripts of any length. Frames are
  counted by `Frame`, a recursive function. `UiClean` follows the processes to the end of `main`:
  `NothingLeftRunning`, the half of `UiRunEnds` that needs no fairness.
* Smoke run: what was run is the given executable, or the namesake in lower case that the tree came with
  (`Namesake`).

**Files** (`FilesProofs`). `FixtureInv`: a passing document, published or about to be, speaks of the
wanted save and of all snapshots, and a source whose digest was taken has its snapshot; this outlives
kills because the snapshots are made before the document. `TargetInv`: the file being written is this
invocation's own, with the pinned bytes once it is written, and what lies behind it is pinned unless
something failed. It is false of two invocations that share a directory, so `Fetched` and
`NothingLost` have the premise `Alone`. `DemoInv`: the staging tree holds only pinned files, so the
move leaves a tree all old or all pinned. With it `DemoSuccessIsTheTree`: success is reported for
exactly the pinned tree, and stays.

**Validators and roles** (`StaticProofs`). `StaticInv` says that documents keep their shape however many
fields are edited (`ScriptInv`, `LifetimeInv`, `ManualInv`, `WindowInv`, `RolesInv`, `ImageRecord`, `CodeInv`, `DiffInv`); the promises are
then lemmas about all documents of that shape.
* `PlansAreAccepted`: a script of any length that `ValidScript` accepts has nine steps and is a plan, and
  the other way round (`AcceptedHasNineSteps`, `TriplesOfNine`).
* `PositiveIsSafe`: the accepted signals drop a cached profile before any replaced record can be served,
  at any instant between the sequence numbers, and no accepted witness reads a byte of the name
  (`RangesAgreeEverywhere`: the tests of the two files agree for every offset and length).
* `VerdictsFollow`: the registers of `monitor_turn` say what the samples up to the stop show, for windows of
  any length (`RegistersExist`, `ObserveSees`), and each verdict is compared with the samples.
* `RolesAreEarned`: every digest in a document a harness wrote belongs to a run or production of the history
  (`Earned`), and edits of maintainers do not write artifacts.
* `ImagesAreTheirPages` (lemmas in `LeProofs`): for every image the parser accepts, an address lies in one
  object and one page of the map (`NumberInTheMap`, over `Division`), so the memory is defined by the page
  map alone (`MemoryIsPageData`). `object_bytes` joins the chunks of the map, each as long as a page but the
  last (`Joined`, `PagesEndToEnd`), hence it shows at each address what the memory holds and padding
  elsewhere. The strings are the maximal runs of it (`ReadKeeps` is the invariant of the scan), and an
  anchor inside a page is confirmed exactly when the memory holds its bytes.
* `ComparisonsHold`: every pass of the comparison zips the groups of one signature and cuts what it
  paired from both sides (`PassIs`, `SidesAreCut`), so its classes partition the functions, no function
  is paired twice, and as many are identified as the signatures allow (`PassesAre`, `MatchedAreCounted`).
  For the inventory the starts are sorted without repetition (`SortedIs`), so the bisection finds the
  function around an address (`OwnerIs`), the lines a function owns are a run of the listing (`OwnedAre`),
  and the bytes and callers of all functions telescope to those of the object (`AllBytes`, `AllCallers`).
  Of the lines only rising addresses inside the object are assumed (`IsCode`), of the inventories only that
  no two functions have one address. The lemmas hold for any object, listing and inventories; the theorem
  is about those an instance builds, whose object is [16, 24) and whose functions stand ten bytes apart.

Recursive *functions* over the natural numbers (`Slept`, `Frame`, the registers of `monitor_turn`, the
`Chosen` and `Summed` of the LE tools, the bisection of `Owner`) are
within reach: the lemma `Induction` states induction for a set in place of a predicate, and its
instances are proved from the least element of the counterexamples.

### Premises and assumptions

| Where | What | Why it is needed, and what the code has |
|---|---|---|
| `ProvenanceHolds`, `RecordsOfTheirRun` | `~Restores` | a content that changes and changes back has its old digest |
| `PassedIsTrue` | `StardateLast` | see *TurnProbe*; otherwise TLC finds a Manual run that passes without a planet pass |
| `TheRecordIsThePlanets` | `MaxBlips < 6` | the probe looks at six changes, and cannot tell six accidents from them |
| `Fetched`, `NothingLost` | `Alone` | the tool does not lock its directory |
| `FixtureRegistry`, `MCFiles`, `MCTurnPath`, `SmokeRun` | `Undeclared \notin Entries`, `None` is no content and no result, `"all"` is no scenario, `"any"` and `"timeout"` are no exit codes | markers of the models, different from what they mark |

### Only model-checked

Liveness, which is out of the prover's reach like ENABLED: `Terminates` of both, `Returns`,
`AlwaysResumed`, `UiRunEnds`, `Recovers`. For all but RE5's `Terminates` what they say without fairness is
proved (`RunsLeadOn`, `AttemptsLeadOn`, `StopsAreTakenBack`, `NothingLeftRunning`,
`DemoSuccessIsTheTree`); what TLC adds is that the steps are taken.

## 6. Plan

The code that has state, partners or files is modelled, every safety property of the passing runs is
proved, and every liveness property is checked. Left, in this order:

1. The half of RE5's `Terminates` that needs no fairness: a measure of samples and sections that every
   step of the runner lowers.
2. Two invocations of the fixture tool that share a declaration, and two of a fetch tool that share a
   `.part` name. `NothingLost` has the premise `Alone` for the latter; what still holds without it is not
   stated.
3. Anchors across the end of a page, once it is settled what the tool is meant to confirm there.

## 7. Not modelled

* Static reports and probes (`generate_*`, `probe_*`, `t1_lineage_probe.py`, `inspect_target.py`, ...) and
  the repository checks: one pass over fixed bytes or documents, no state and no second actor.
* `validate_cf3_debugger.py`, `validate_cf2_real_targets.py`: they run other tools and compare output.
* The menus of the game the harnesses click through, picture formats, X events, the geometry of the
  row helper.
* Anchors of `le_image.py` across the end of a page. `check_anchor` compares bytes that follow in the
  file; in memory the next page may be another one, or the page may be short. Inside a page
  `ImagesAreTheFile` shows that an anchor is confirmed exactly when the memory holds it; without the
  restriction TLC finds, at once, an image with a reordered page map that confirms bytes the memory does
  not hold.
* Concurrent invocations of the fixture tool or of a fetch tool: nothing in the code or documents
  claims that two of them exclude each other; they do not.
* Helpers that outlive the orchestrator's `killpg` because the drivers start them in sessions of their
  own: they neither hold the observer's pipes nor write its record.
* `run_cf4_ui_validation.py` decodes the game's output in `communicate(text=True)`: output that is no
  UTF-8 would raise there, before the display is stopped. `UiRunEnds` assumes output that decodes.
* RE5: a slot or an action that changes and changes back between two samples. In `TurnProbe`
  they change once a turn and stay; the code samples and cannot exclude more.
* The relocations of pages other than that of the instruction the override witness decodes.
* Texts of exceptions, JSON types, labels of white space only (the oracle refuses what the builder of the
  manifest takes), `managed_field_value` (copied through).
