------------------------------ MODULE MCStatic ------------------------------
(***************************************************************************)
(* The validators of detached evidence, each in the neighbourhood of what  *)
(* it accepts.  A behaviour takes one subject: a script (MCActionScript),  *)
(* a lifetime record with its scenario, a Manual-transition record with    *)
(* its coverage, a witness range, the samples of a follow-up window, the   *)
(* six artifacts of the follow-up, a repository of fixtures                *)
(* (FixtureRoles), or a subject of the LE tools (MCLeCode); and edits it,  *)
(* a field at a time.                                                      *)
(***************************************************************************)
EXTENDS MCActionScript, MCLeCode

CONSTANTS RecordEdits,     \* bound on the edits of a record
          WindowSamples,   \* bound on the samples of a window
          RoleEdits,       \* bound on the edits of a repository
          DiffFunctions,   \* bound on the functions of two inventories
          Saves, TrueProperties, HarnessFiles

VARIABLES subject, doc,
          declared, files, harness, written

\* What the game shows of two saves that both fit the roles.
ShownProperties ==
  [v \in {"s1", "s2"} |->
     [names |-> {"p", "q"}, owned |-> 2, empty |-> IF v = "s1" THEN {"p"} ELSE {"q"}]]

scriptVars == <<steps, bounds>>
rolesVars == <<declared, files, harness, written>>

Oracle == INSTANCE LifetimeOracle
Manual == INSTANCE ManualInvalidation
Followup == INSTANCE FollowupTurn
Roles == INSTANCE FixtureRoles WITH MaxEdits <- RoleEdits

ASSUME RolesConstantsFit == Roles!RolesAssumption

----------------------------------------------------------------------------
(* A lifetime record, the scenario input and the expected source.          *)

Planets == {"A", "B"}
Bytes == [planet \in Planets |-> IF planet = "A" THEN <<65>> ELSE <<66>>]
Contents == {Bytes[planet] : planet \in Planets}
This == [f \in Oracle!SourceFields |-> "this"]
ExpectedSource ==
  [f \in Oracle!SourceFields \cup {"schema"} |-> IF f = "schema" THEN "expected-source" ELSE "this"]

Input(schema) ==
  [schema |-> schema, source |-> This,
   planets |-> << [label |-> "A", basis |-> "bounded-record-metadata", metadata |-> Bytes["A"],
                   length |-> 1, offset |-> 0],
                  [label |-> "B", basis |-> "bounded-record-metadata", metadata |-> Bytes["B"],
                   length |-> 1, offset |-> 0] >>]

Point(schema, seq, pointer, planet) ==
  [seq |-> seq, pointer |-> pointer, logical |-> planet, base |-> 8, count |-> 2, index |-> 1,
   witness |-> [planet |-> planet, basis |-> "bounded-record-metadata",
                metadata |-> IF schema = "v1" THEN Bytes[planet] ELSE <<>>,
                declared |-> Bytes[planet], offset |-> 0, length |-> 1]]

ReplacementStep(label, schema, outcome, basis) ==
  [label |-> label, replacement |-> TRUE, basis |-> basis, weak |-> {},
   points |-> [pre |-> Point(schema, 1, 100, "A"), post |-> Point(schema, 4, 100, "B")],
   event |-> [seq |-> 3, kind |-> Oracle!ReuseEventKind[outcome], before |-> "A", after |-> "B",
              beforeDigest |-> Bytes["A"], afterDigest |-> Bytes["B"],
              pointer |-> 100, base |-> 8, index |-> 1, identity |-> "epoch"],
   signals |-> [s \in {"epoch_signal", "reuse_detector_signal", "other_invalidation_signal"} |->
                  [before |-> 1, after |-> 2, seq |-> 2]]]

GoodRecord(schema, outcome, basis) ==
  [outcome |-> outcome, source |-> This, controlPassed |-> TRUE, failsClosed |-> TRUE,
   claims |-> {"epoch_boundary_established", "reuse_detector_established",
               "array_base_established", "array_count_established", "stable_index_established"},
   transitions |->
     << [label |-> "selection-control", replacement |-> FALSE, basis |-> "none", weak |-> {},
         points |-> [n \in {"first", "second", "return"} |->
                       CASE n = "first"  -> Point(schema, 1, 100, "A")
                         [] n = "second" -> Point(schema, 2, 200, "B")
                         [] n = "return" -> Point(schema, 3, 100, "A")]],
        ReplacementStep("new-game-reset", schema, outcome, basis),
        ReplacementStep("save-load-replacement", schema, outcome, basis) >>]

LifetimeDocs ==
  {[record |-> GoodRecord(k[1], k[2], k[3]), input |-> Input(k[1]), expected |-> ExpectedSource] :
     k \in { <<"v1", "positive-epoch-pointer", "epoch+reuse-detector">>,
             <<"v2", "positive-epoch-pointer", "reuse-detector">>,
             <<"v2", "positive-epoch-index", "epoch">>,
             <<"v1", "positive-other", "other">> }}

WitnessEdits(w) ==
  {[w EXCEPT !.planet = p] : p \in Planets}
    \cup {[w EXCEPT !.basis = "presentation-name"]}
    \cup {[w EXCEPT !.metadata = c] : c \in Contents \cup {<<>>}}
    \cup {[w EXCEPT !.declared = c] : c \in Contents}
    \cup {[w EXCEPT !.offset = 40], [w EXCEPT !.length = 4]}

PointEdits(p) ==
  {[p EXCEPT !.seq = n] : n \in 0..4}
    \cup {[p EXCEPT !.pointer = n] : n \in {-1, 100, 200}}
    \cup {[p EXCEPT !.logical = planet] : planet \in Planets}
    \cup {[p EXCEPT !.base = 0], [p EXCEPT !.count = 0], [p EXCEPT !.index = 0], [p EXCEPT !.index = 2]}
    \cup {[p EXCEPT !.witness = w] : w \in WitnessEdits(p.witness)}

EventEdits(e) ==
  {[e EXCEPT !.seq = n] : n \in 0..4}
    \cup {[e EXCEPT !.before = planet] : planet \in Planets}
    \cup {[e EXCEPT !.after = planet] : planet \in Planets}
    \cup {[e EXCEPT !.beforeDigest = c] : c \in Contents}
    \cup {[e EXCEPT !.afterDigest = c] : c \in Contents}
    \cup {[e EXCEPT !.kind = "index-reassignment"], [e EXCEPT !.pointer = 200],
          [e EXCEPT !.base = 0], [e EXCEPT !.index = 0],
          [e EXCEPT !.identity = ""]}

StepEdits(s) ==
  (UNION {{[s EXCEPT !.points[n] = p] : p \in PointEdits(s.points[n])} : n \in DOMAIN s.points})
    \cup {[s EXCEPT !.points = [m \in DOMAIN s.points \ {n} |-> s.points[m]]] : n \in DOMAIN s.points}
    \cup {[s EXCEPT !.replacement = ~@], [s EXCEPT !.weak = {"post-hoc"}],
          [s EXCEPT !.label = "new-game-reset"]}
    \cup {[s EXCEPT !.basis = b] : b \in {"none", "epoch", "reuse-detector", "other"}}

LegEdits(s) ==
  StepEdits(s)
    \cup {[s EXCEPT !.event = e] : e \in EventEdits(s.event)}
    \cup {[s EXCEPT !.signals[n].seq = t] : n \in DOMAIN s.signals, t \in 0..4}
    \cup {[s EXCEPT !.signals[n].after = s.signals[n].before] : n \in DOMAIN s.signals}

RecordEditsOf(r) ==
  {[r EXCEPT !.transitions[2] = s] : s \in LegEdits(r.transitions[2])}
    \cup {[r EXCEPT !.transitions[1] = s] : s \in StepEdits(r.transitions[1])}
    \cup {[r EXCEPT !.outcome = o] : o \in Oracle!Outcomes}
    \cup {[r EXCEPT !.claims = @ \ {c}] : c \in r.claims}
    \cup {[r EXCEPT !.controlPassed = FALSE], [r EXCEPT !.failsClosed = FALSE]}
    \cup {[r EXCEPT !.source[f] = "other"] : f \in Oracle!SourceFields}

InputEdits(i) ==
  {[i EXCEPT !.planets[1] = e] : e \in
     {[i.planets[1] EXCEPT !.offset = n] : n \in {30, 40, 67, 68, 122, 123}}
       \cup {[i.planets[1] EXCEPT !.length = n] : n \in {0, 1, 4, 37}}
       \cup {[i.planets[1] EXCEPT !.metadata = Bytes["B"]], [i.planets[1] EXCEPT !.label = "B"]}}
    \cup {[i EXCEPT !.schema = v] : v \in {"v1", "v2"}}
    \cup {[i EXCEPT !.source[f] = "other"] : f \in Oracle!SourceFields}

LifetimeEdits(d) ==
  {[d EXCEPT !.record = r] : r \in RecordEditsOf(d.record)}
    \cup {[d EXCEPT !.input = i] : i \in InputEdits(d.input)}
    \cup {[d EXCEPT !.expected["schema"] = "other"]}

(***************************************************************************)
(* A cache of profiles, keyed by the identity the outcome names: the entry *)
(* made for the record at the pre-state lives until a signal of the basis  *)
(* changes.  From the reuse event on the key stands for the other record.  *)
(***************************************************************************)
Key(outcome, point) ==
  CASE outcome = "positive-epoch-pointer" -> <<point.pointer>>
    [] outcome = "positive-epoch-index"   -> <<point.base, point.index>>
    [] OTHER                              -> <<"other">>

HolderAt(step, t) == IF t >= step.event.seq THEN step.event.after ELSE step.event.before

EntryLivesAt(step, t) ==
  /\ t >= step.points["pre"].seq
  /\ ~\E n \in Oracle!SignalsOf(step.basis) :
       /\ step.signals[n].before # step.signals[n].after
       /\ step.points["pre"].seq < step.signals[n].seq /\ step.signals[n].seq < t

LegFailsClosed(step, outcome) ==
  LET pre == step.points["pre"]  post == step.points["post"]
  IN  /\ Key(outcome, pre) = Key(outcome, post)
      /\ HolderAt(step, pre.seq) = pre.logical /\ HolderAt(step, post.seq) = post.logical
      /\ pre.logical # post.logical
      /\ \A t \in 0..4 : EntryLivesAt(step, t) => HolderAt(step, t) = pre.logical

\* The bytes that told two records apart are bytes of the record and not of
\* its name.
NoNameByte(offset, length) ==
  \A b \in offset..(offset + length - 1) : b < 123 /\ ~(36 <= b /\ b < 68)

----------------------------------------------------------------------------
(* A Manual-transition record.                                             *)

Coverage(basis) == [sampled |-> FALSE, established |-> {basis}]

Evidence(basis) ==
  [target_sha256 |-> "canonical", harness_sha256 |-> "h", scenario_identity |-> "s",
   basis |-> basis, established |-> {basis}, sampled |-> FALSE, mechanism |-> "m"]

Trip ==
  [managedBefore |-> 0, manualWrite |-> 1, invalidation |-> 1, managedAfter |-> 3,
   manualValue |-> "0", beforeValue |-> "ffffffff", afterValue |-> "ffffffff",
   mechanism |-> "m", lossless |-> TRUE, staleVisible |-> FALSE]

ManualDocs ==
  {[record |-> [outcome |-> o, established |-> TRUE, transitions |-> <<Trip, Trip>>,
                inputs |-> [f \in Manual!BoundFields |-> Evidence(b)[f]], coverage |-> Coverage(b)],
    evidence |-> Evidence(b),
    expected |-> [target_sha256 |-> "canonical", harness_sha256 |-> "h", scenario_identity |-> "s",
                  basis |-> b, digest |-> Evidence(b)]] :
     b \in Manual!CoverageBases, o \in Manual!ManualOutcomes}

TripEdits(t) ==
  {[t EXCEPT ![f] = n] :
     f \in {"managedBefore", "manualWrite", "invalidation", "managedAfter"}, n \in 0..4}
    \cup {[t EXCEPT ![f] = v] : f \in {"manualValue", "beforeValue", "afterValue"}, v \in {"0", "ffffffff"}}
    \cup {[t EXCEPT !.mechanism = "n"], [t EXCEPT !.lossless = FALSE], [t EXCEPT !.staleVisible = TRUE]}

ManualEdits(d) ==
  {[d EXCEPT !.record.transitions[1] = t] : t \in TripEdits(d.record.transitions[1])}
    \cup {[d EXCEPT !.record.established = ~@]}
    \cup {[d EXCEPT !.record.inputs[f] = "other"] : f \in Manual!BoundFields}
    \cup {[d EXCEPT !.record.coverage = c] :
            c \in [sampled : BOOLEAN, established : SUBSET Manual!CoverageBases]}
    \cup {[d EXCEPT !.expected.digest = d.evidence],
          [d EXCEPT !.expected.basis = Manual!OtherBasis(@)],
          [d EXCEPT !.expected.harness_sha256 = "other"],
          [d EXCEPT !.evidence.scenario_identity = "other"],
          [d EXCEPT !.evidence.mechanism = "n"],
          [d EXCEPT !.evidence.sampled = TRUE]}
    \cup {[d EXCEPT !.evidence.established = e] : e \in SUBSET Manual!CoverageBases}

\* While the planet is managed its profile may be cached at any instant; it
\* is gone from the invalidation on.
TripFailsClosed(t) ==
  /\ t.managedBefore < t.manualWrite /\ t.manualWrite < t.managedAfter
  /\ \A cached \in t.managedBefore..(t.manualWrite - 1) :
       cached < t.invalidation /\ t.invalidation < t.managedAfter

----------------------------------------------------------------------------
(* The samples of a follow-up window, and the artifacts of six of them.    *)

FirstSamples == {[slot |-> FALSE, action |-> "none", managed |-> m, stardate |-> 0, collateral |-> {}] :
                   m \in BOOLEAN}

NextSamples(s, last) ==
  [slot : BOOLEAN, action : {"none", "auto", "marker"}, managed : BOOLEAN,
   stardate : {last.stardate, last.stardate + 1, last.stardate + 3},
   collateral : IF Followup!Probe(s) THEN {{}, {"left", "right"}} ELSE {{}}]

WindowDocs == {[scenario |-> s, samples |-> <<first>>] : s \in Followup!Scenarios, first \in FirstSamples}

\* What the samples up to the stop of a scenario show, without the registers
\* of the monitor.
Watched(s, samples) ==
  LET stops == {n \in 2..Len(samples) :
                  \/ Followup!StopPolicy(s) = "first_action" /\ samples[n].action # "none"
                  \/ /\ s = "manual-gate-probe"
                     /\ samples[n].stardate - samples[1].stardate >= 4}
  IN  IF stops = {} THEN samples
      ELSE SubSeq(samples, 1, CHOOSE n \in stops : \A k \in stops : n <= k)

Shows(s, w) ==
  LET last == w[Len(w)]
      selected == \E n \in 2..Len(w) : w[n].slot
      acted == \E n \in 2..Len(w) : w[n].action # "none"
      marked == \E n \in 2..Len(w) : w[n].action = "marker"
      progress == last.stardate - w[1].stardate
  IN  /\ last.managed = Followup!Managed(s)
      /\ CASE s \in {"manual-control", "managed-policy-suppressed"} -> ~selected /\ ~acted /\ progress > 0
           [] s = "manual-gate-probe"  -> ~selected /\ ~acted /\ progress >= 4
           [] s = "managed-gate-probe" -> marked
           [] s = "managed-control"    -> selected /\ last.action # "none"
           [] s = "managed-action-write-suppressed" -> selected /\ ~acted

\* Windows whose traces end up in artifacts: nothing happened, the game went
\* on, and each kind of sign.
Sample(s, slot, action, stardate) ==
  [slot |-> slot, action |-> action, managed |-> Followup!Managed(s), stardate |-> stardate,
   collateral |-> {}]
Windows(s) ==
  {<<Sample(s, FALSE, "none", 0), Sample(s, slot, action, n)>> :
     slot \in BOOLEAN, action \in {"none", "auto", "marker"}, n \in {0, 1, 4}}

Artifact(s, w) ==
  [contract |-> CHOOSE c \in Followup!AcceptedContracts(s) : TRUE, policy |-> Followup!Policy(s),
   status |-> Followup!Classify(s, Followup!Trace(s, w)), inputs |-> "this", scenario |-> s,
   trace |-> Followup!Trace(s, w)]

GoodWindow(s) == CHOOSE w \in Windows(s) : Followup!Validates(s, Followup!Trace(s, w))

ArtifactDocs == {[artifacts |-> [s \in Followup!Scenarios |-> Artifact(s, GoodWindow(s))]]}

ArtifactEdits(d) ==
  UNION {{[d EXCEPT !.artifacts[s] = a] : a \in
            {Artifact(s, w) : w \in Windows(s)}
              \cup {[d.artifacts[s] EXCEPT !.contract = c] : c \in 1..3}
              \cup {[d.artifacts[s] EXCEPT !.inputs = "other"],
                    [d.artifacts[s] EXCEPT !.status = "failed"],
                    [d.artifacts[s] EXCEPT !.status = "passed"]}} :
         s \in Followup!Scenarios}

----------------------------------------------------------------------------
NoScript == steps = <<>> /\ bounds = <<>>
NoRoles == declared = <<>> /\ files = <<>> /\ harness = <<>> /\ written = {}

MCInit ==
  \/ subject = "script" /\ Init /\ doc = <<>> /\ NoRoles
  \/ subject = "roles" /\ Roles!Init /\ doc = <<>> /\ NoScript
  \/ /\ NoScript /\ NoRoles /\ edits = 0
     /\ \/ subject = "lifetime" /\ doc \in LifetimeDocs
        \/ subject = "manual" /\ doc \in ManualDocs
        \/ subject = "window" /\ doc \in WindowDocs
        \/ subject = "artifacts" /\ doc \in ArtifactDocs
        \/ subject = "image" /\ doc \in ImageDocs
        \/ subject = "code" /\ doc \in CodeDocs
        \/ subject = "diff" /\ doc \in DiffDocs
        \/ subject = "range" /\ doc \in [offset : 0..124, length : 0..124]

EditScript == subject = "script" /\ Next /\ UNCHANGED <<subject, doc, rolesVars>>
EditRoles == subject = "roles" /\ Roles!Next /\ UNCHANGED <<subject, doc, scriptVars>>

EditDoc(name, bound, next) ==
  /\ subject = name /\ edits < bound
  /\ edits' = edits + 1
  /\ doc' \in next
  /\ UNCHANGED <<subject, scriptVars, rolesVars>>

EditLifetime == subject = "lifetime" /\ EditDoc("lifetime", RecordEdits, LifetimeEdits(doc))
EditManual == subject = "manual" /\ EditDoc("manual", RecordEdits, ManualEdits(doc))
EditArtifacts == subject = "artifacts" /\ EditDoc("artifacts", RecordEdits, ArtifactEdits(doc))
EditImage == subject = "image" /\ EditDoc("image", RecordEdits, ImageEdits(doc))
EditCode == subject = "code" /\ EditDoc("code", RecordEdits + 1, CodeEdits(doc))
AddFunction == subject = "diff" /\ EditDoc("diff", DiffFunctions, DiffEdits(doc))
TakeSample ==
  /\ subject = "window"
  /\ EditDoc("window", WindowSamples,
             {[doc EXCEPT !.samples = Append(@, x)] :
                x \in NextSamples(doc.scenario, doc.samples[Len(doc.samples)])})

MCNext ==
  \/ EditScript \/ EditRoles
  \/ EditLifetime \/ EditManual
  \/ EditArtifacts \/ TakeSample
  \/ EditImage \/ EditCode \/ AddFunction

MCSpec == MCInit /\ [][MCNext]_<<subject, doc, edits, scriptVars, rolesVars>>

----------------------------------------------------------------------------
LifetimeFailsClosed ==
  subject = "lifetime" =>
    LET manifest == Oracle!BuildManifest(doc.input)
        r == doc.record
    IN  Oracle!ValidRecord(r, manifest, doc.expected) /\ Oracle!Positive(r.outcome) =>
          \A i \in 1..Len(r.transitions) :
            /\ r.transitions[i].label \in Oracle!ReplacementTransitions =>
                 LegFailsClosed(r.transitions[i], r.outcome)
            /\ manifest.schema = "v2" =>
                 \A n \in DOMAIN r.transitions[i].points :
                   LET w == r.transitions[i].points[n].witness
                   IN  w.declared = Bytes[r.transitions[i].points[n].logical]
                         => NoNameByte(w.offset, w.length)

ManualFailsClosed ==
  /\ subject = "manual"
  /\ Manual!ValidManualRecord(doc.record, doc.expected, doc.evidence)
  /\ doc.record.outcome = "positive-lossless-invalidation"
  => /\ \A i \in 1..Len(doc.record.transitions) : TripFailsClosed(doc.record.transitions[i])
     /\ ~doc.evidence.sampled /\ ~doc.record.coverage.sampled
     /\ doc.record.coverage.established \cap doc.evidence.established # {}

RangesAgree ==
  subject = "range" =>
    LET entry == [label |-> "A", basis |-> "bounded-record-metadata", metadata |-> Bytes["A"],
                  length |-> doc.length, offset |-> doc.offset]
        input == [schema |-> "v2", source |-> This, planets |-> <<entry>>]
        usable == doc.length > 0 /\ NoNameByte(doc.offset, doc.length)
    IN  /\ Oracle!InputValid(input, This) <=> usable
        /\ Oracle!WitnessContract(Oracle!BuildManifest(input), "A") <=> usable

(***************************************************************************)
(* What a positive record is accepted for holds of the history it tells: a *)
(* cache keyed by the accepted identity, and dropped on the accepted       *)
(* signals, serves no profile of the record that was replaced, at any      *)
(* instant (validate_record of both oracles); and the bytes that told the  *)
(* records apart are never those of the name, on which the two files that  *)
(* decide it agree for every offset and length.                            *)
(***************************************************************************)
PositiveFailsClosed == LifetimeFailsClosed /\ ManualFailsClosed /\ RangesAgree

(***************************************************************************)
(* A follow-up scenario passes exactly when the samples up to its stop     *)
(* show what its conclusion says, and is inconclusive only for a Manual    *)
(* probe whose game went on, unmarked, short of the target; the artifacts  *)
(* that aggregate, and a set that passes, support every claim of the       *)
(* summary (validate_scenario, classify_observation, summarize_causality). *)
(***************************************************************************)
FollowupVerdictsHold ==
  /\ subject = "window" =>
       LET watched == Watched(doc.scenario, doc.samples)
           progress == watched[Len(watched)].stardate - watched[1].stardate
           verdict == Followup!Classify(doc.scenario, Followup!Trace(doc.scenario, doc.samples))
       IN  /\ verdict = "passed" <=> Shows(doc.scenario, watched)
           /\ verdict = "inconclusive" <=>
                /\ doc.scenario = "manual-gate-probe" /\ progress \in 1..3
                /\ \A n \in 2..Len(watched) : watched[n].action # "marker"
  /\ subject = "artifacts" =>
       (Followup!Aggregates(doc.artifacts, "this") =>
          LET claims == Followup!Causality([s \in Followup!Scenarios |-> doc.artifacts[s].trace])
          IN  \A claim \in DOMAIN claims : claims[claim])
  /\ subject = "artifacts" =>
       LET traces == [s \in Followup!Scenarios |-> doc.artifacts[s].trace]
           all == Followup!RunAll(traces)
       IN  /\ (\E s \in Followup!Scenarios : ~Followup!Validates(s, traces[s])) => all.status # "passed"
           /\ all.status = "passed" => \A claim \in DOMAIN all.claims : all.claims[claim]

\* The validator of scripts accepts exactly the plans of the contract.
ScriptsArePlans == subject = "script" => AcceptsExactlyThePlan

(***************************************************************************)
(* Of an image the parser accepts, what it says of the memory is what the  *)
(* page map puts there: bytes, addresses, strings and anchors (object_bytes,*)
(* va_to_file_offset, strings, check_anchor); see MCLeCode.                *)
(***************************************************************************)
ImagesAreTheFile == subject = "image" => ImageIsTheFile(doc)

(***************************************************************************)
(* The inventory attributes every instruction and every call once          *)
(* (build_inventory), and a comparison puts every function in the class    *)
(* that is true of it (match_pass, compare); see MCLeCode.                 *)
(***************************************************************************)
CodeIsComparedHonestly ==
  /\ subject = "code" => InventoryCounts(doc)
  /\ subject = "diff" => DiffIsHonest(doc)

\* See FixtureRoles.
RolesRestOnRuns == subject = "roles" => Roles!RolesRestOnRuns
=============================================================================
