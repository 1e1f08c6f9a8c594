---------------------------- MODULE FixtureRoles ----------------------------
(***************************************************************************)
(* scripts/validate_validation_fixtures.py: which declared save fixtures   *)
(* satisfy the role they are declared for.  The declaration, the Markdown  *)
(* record of an experiment, the detached artifact of a run, the preserved  *)
(* sources of its harness and the sources as they are now are separate     *)
(* files of a repository, and each is changed at its own time: the actions *)
(* are the maintainers and the harnesses at work (external), the operators *)
(* are the validator.                                                      *)
(*                                                                         *)
(* A file's digest is taken to be injective, so that a pin holds the       *)
(* content it was made of.  Artifacts are written by the harnesses only.   *)
(***************************************************************************)
EXTENDS Integers, Sequences, FiniteSets

CONSTANTS Saves,          \* save files, by their bytes
          TrueProperties, \* what the game shows when it loads a save
          HarnessFiles,   \* the sources of the T3 harness
          MaxEdits        \* bound on the number of edits

RolesAssumption == MaxEdits \in Nat /\ Cardinality(Saves) >= 2

CanonicalTarget == "canonical"
EvidenceLevels == {"runtime", "reported", "unverified"}
Storages == {"repository", "operator-supplied"}

\* role_requirements of the declaration; the flags are
\* requires_runtime_canonical_target_production and
\* requires_detached_runtime_observation_artifact.
Requirements ==
  [single   |-> [owned |-> 1, empty |-> 1, production |-> FALSE, artifact |-> FALSE],
   multi    |-> [owned |-> 2, empty |-> 1, production |-> FALSE, artifact |-> TRUE],
   produced |-> [owned |-> 1, empty |-> 1, production |-> TRUE,  artifact |-> FALSE]]

\* Paths, and those under docs/experiments.
Snapshot(name) == <<"snapshot", name>>
ProducerSnapshot == <<"snapshot", "producer">>
Record == <<"record", "">>
RunArtifact == <<"artifact", "run">>
ProductionArtifact == <<"artifact", "production">>
Prose == <<"policy", "">>
NoPath == <<"none", "">>
Paths == {Record, RunArtifact, ProductionArtifact, Prose, ProducerSnapshot}
           \cup {Snapshot(name) : name \in HarnessFiles}
Experiments == Paths \ {Prose}

VARIABLES declared,   \* the declared fixtures, a sequence
          files,      \* the content of each path
          harness,    \* the version of each harness source in scripts/
          written,    \* saves the canonical target wrote in ordinary play (ghost)
          edits       \* how many edits were made

rolesVars == <<declared, files, harness, written, edits>>

----------------------------------------------------------------------------
\* A fault: the bytes the run loaded are not compared.
ArtifactOfAnySave(a, fixture) ==
  /\ a.kind = "run" /\ a.status = "passed"
  /\ a.id = fixture.id
  /\ {"provenance", "source-changed", "target", "retail-tree"} \cap a.flaws = {}

\* check_current_state_run_artifact: identity of the run and its inputs.
ArtifactIdentified(a, fixture) ==
  /\ a.kind = "run" /\ a.status = "passed"
  /\ a.id = fixture.id /\ a.save = fixture.save
  /\ {"provenance", "source-changed", "target", "retail-tree"} \cap a.flaws = {}

\* No guest write, no changed input, and a known emulator.
ArtifactUndisturbed(a) ==
  {"code-writes", "data-writes", "inputs-modified", "environment"} \cap a.flaws = {}

\* Every harness source is preserved as it was executed.
ArtifactReproducible(a) ==
  /\ DOMAIN a.sources = HarnessFiles
  /\ \A name \in HarnessFiles :
       files[Snapshot(name)] = [kind |-> "source", version |-> a.sources[name]]

\* The claim of the run and what it observed are what is declared.
ArtifactClaims(a, fixture) == a.role = fixture.role /\ a.claimed = fixture.properties
ArtifactObserved(a, fixture) ==
  /\ {"incoherent", "save-changed", "unmapped", "checks"} \cap a.flaws = {}
  /\ a.observed = fixture.properties

CurrentStateArtifact(path, pin, fixture) ==
  /\ path \in Experiments
  /\ files[path] = pin
  /\ pin.kind = "run"
  /\ ArtifactIdentified(pin, fixture) /\ ArtifactUndisturbed(pin)
  /\ ArtifactReproducible(pin)
  /\ ArtifactClaims(pin, fixture) /\ ArtifactObserved(pin, fixture)

\* parse_source_observations: the record has exactly one block.
OneBlock(blocks) == Len(blocks) = 1

\* check_source_record: the record binds save, target and every property.
SourceRecord(path, fixture, needsArtifact) ==
  /\ path \in Experiments /\ files[path].kind = "record"
  /\ files[path].runtime
  /\ OneBlock(files[path].observations)
  /\ LET block == files[path].observations[1]
     IN  /\ block.save = fixture.save /\ block.target = CanonicalTarget
         /\ block.properties = fixture.properties
         /\ needsArtifact => CurrentStateArtifact(block.artifact, block.pin, fixture)

----------------------------------------------------------------------------
\* check_production_run_artifact: the identity of the producing run.
ProductionIdentified(a, fixture) ==
  /\ a.kind = "production" /\ a.status = "passed"
  /\ a.save = fixture.save
  /\ {"provenance", "target", "retail-tree", "not-exact", "environment"} \cap a.flaws = {}

\* The preserved source of the harness is the executed one.
ProductionReproducible(a) ==
  files[ProducerSnapshot] = [kind |-> "source", version |-> a.source]

\* A fault: how the bytes came about is not looked at.
ProductionByMethod(a, method) == a.method = method

\* The save was written by ordinary play, to the end, with nothing patched.
ProductionOrdinary(a, method) ==
  /\ a.method = method
  /\ {"code-writes", "data-writes", "inputs-modified", "unfinished"} \cap a.flaws = {}

\* The exact-byte oracle of the run passed for these bytes.
ProductionMatched(a, fixture) == "oracle" \notin a.flaws /\ a.output = fixture.save

ProductionRun(path, pin, fixture, method) ==
  /\ path \in Experiments
  /\ files[path] = pin
  /\ pin.kind = "production"
  /\ ProductionIdentified(pin, fixture) /\ ProductionReproducible(pin)
  /\ ProductionOrdinary(pin, method) /\ ProductionMatched(pin, fixture)

\* check_production_source_record, with parse_source_production.
ProductionRecord(path, fixture) ==
  /\ path \in Experiments /\ files[path].kind = "record"
  /\ files[path].runtime
  /\ OneBlock(files[path].productions)
  /\ LET block == files[path].productions[1]
     IN  /\ block.save = fixture.save /\ block.target = CanonicalTarget
         /\ block.exact
         /\ ProductionRun(block.artifact, block.pin, fixture, block.method)

----------------------------------------------------------------------------
\* check_role_requirements.  A verified fixture that contradicts its role is
\* an error of the declaration; other shortcomings only leave it unsatisfied.
Contradicts(fixture) ==
  /\ fixture.evidence = "runtime"
  /\ \/ fixture.properties.owned < Requirements[fixture.role].owned
     \/ Cardinality(fixture.properties.empty) < Requirements[fixture.role].empty

Satisfies(fixture) ==
  LET required == Requirements[fixture.role]
  IN  /\ fixture.evidence = "runtime"
      /\ fixture.target = CanonicalTarget
      /\ SourceRecord(fixture.source, fixture, required.artifact)
      /\ required.production =>
           /\ fixture.producer.evidence = "runtime"
           /\ ProductionRecord(fixture.producer.source, fixture)

\* check_declaration, for one fixture and for all.
FixtureValid(fixture) ==
  /\ fixture.role \in DOMAIN Requirements
  /\ fixture.storage \in Storages
  /\ fixture.evidence \in EvidenceLevels /\ fixture.producer.evidence \in EvidenceLevels
  /\ fixture.producer.evidence # "unverified" => fixture.producer.source # NoPath
  /\ Cardinality(fixture.properties.names) = fixture.properties.owned
  /\ fixture.properties.empty \subseteq fixture.properties.names
  /\ ~Contradicts(fixture)

DeclarationValid ==
  /\ declared # <<>>
  /\ \A i \in 1..Len(declared) : FixtureValid(declared[i])
  /\ \A i, j \in 1..Len(declared) : declared[i].id = declared[j].id => i = j

\* main with --require-role: exit status 0.
RoleSatisfied(role) ==
  /\ DeclarationValid
  /\ \E i \in 1..Len(declared) : declared[i].role = role /\ Satisfies(declared[i])

----------------------------------------------------------------------------
(* The maintainers and the harnesses at work.                              *)

NoFile == [kind |-> "none"]

Edit == edits < MaxEdits /\ edits' = edits + 1

\* What a run leaves: its claim, what it saw, and the sources it executed.  A
\* run with a flaw may see anything, and a claim it does not confirm fails.
RunOf(v, claim, seen, flaws) ==
  [kind |-> "run", status |-> IF claim = seen THEN "passed" ELSE "failed",
   id |-> "fixture", save |-> v, role |-> "multi", claimed |-> claim, observed |-> seen,
   flaws |-> flaws, sources |-> harness]

Observe ==
  /\ Edit
  /\ \E v \in Saves, claim, seen \in {TrueProperties[s] : s \in Saves},
        flaws \in {{}, {"target"}, {"data-writes"}, {"save-changed"}} :
       /\ flaws = {} => seen = TrueProperties[v]
       /\ files' = [p \in Paths |->
                      IF p = RunArtifact THEN RunOf(v, claim, seen, flaws)
                      ELSE IF \E name \in HarnessFiles : p = Snapshot(name)
                      THEN [kind |-> "source",
                            version |-> harness[CHOOSE name \in HarnessFiles : p = Snapshot(name)]]
                      ELSE files[p]]
  /\ UNCHANGED <<declared, harness, written>>

Produce ==
  /\ Edit
  /\ \E v \in Saves, flaws \in {{}, {"target"}, {"code-writes"}, {"oracle"}} :
       /\ files' = [files EXCEPT
                      ![ProductionArtifact] =
                         [kind |-> "production", status |-> "passed", save |-> v, output |-> v,
                          method |-> "save menu", flaws |-> flaws, source |-> "1"],
                      ![ProducerSnapshot] = [kind |-> "source", version |-> "1"]]
       /\ written' = IF flaws = {} THEN written \cup {v} ELSE written
  /\ UNCHANGED <<declared, harness>>

\* A source of the harness moves on, here or in its preserved copy.
EditSource ==
  /\ Edit
  /\ \E name \in HarnessFiles :
       \/ harness' = [harness EXCEPT ![name] = "2"] /\ UNCHANGED files
       \/ /\ files' = [files EXCEPT ![Snapshot(name)] = [kind |-> "source", version |-> "2"]]
          /\ UNCHANGED harness
  /\ UNCHANGED <<declared, written>>

ObservationBlock(v, properties, pin) ==
  [save |-> v, target |-> CanonicalTarget, properties |-> properties,
   artifact |-> RunArtifact, pin |-> pin]

ProductionBlock(v, pin) ==
  [save |-> v, target |-> CanonicalTarget, exact |-> TRUE, method |-> "save menu",
   artifact |-> ProductionArtifact, pin |-> pin]

\* The record is rewritten, with or without a new pin, or by appending.
EditRecord ==
  /\ Edit
  /\ \E v \in Saves, properties \in {TrueProperties[s] : s \in Saves} :
       \/ \E pin \in {files[RunArtifact]}
                       \cup {files[Record].observations[i].pin : i \in 1..Len(files[Record].observations)} :
            \/ files' = [files EXCEPT ![Record].observations = <<ObservationBlock(v, properties, pin)>>]
            \/ files' = [files EXCEPT ![Record].observations =
                                        Append(@, ObservationBlock(v, properties, pin))]
       \/ files' = [files EXCEPT ![Record].productions =
                                   <<ProductionBlock(v, files[ProductionArtifact])>>]
       \/ files' = [files EXCEPT ![Record].runtime = ~@]
  /\ UNCHANGED <<declared, harness, written>>

\* The first fixture is declared anew, or a second one is added.
EditDeclaration ==
  /\ Edit
  /\ \/ \E v \in Saves : declared' = [declared EXCEPT ![1].save = v]
     \/ \E v \in Saves : declared' = [declared EXCEPT ![1].properties = TrueProperties[v]]
     \/ \E role \in DOMAIN Requirements, evidence \in EvidenceLevels, source \in {Record, NoPath} :
          declared' = [declared EXCEPT ![1].role = role,
                                       ![1].producer = [evidence |-> evidence, source |-> source]]
     \/ \E source \in {Prose, NoPath} : declared' = [declared EXCEPT ![1].source = source]
     \/ \E evidence \in EvidenceLevels : declared' = [declared EXCEPT ![1].evidence = evidence]
     \/ \E id \in {"fixture", "other"} :
          Len(declared) = 1 /\ declared' = Append(declared, [declared[1] EXCEPT !.id = id])
  /\ UNCHANGED <<files, harness, written>>

\* A repository whose fixture has been observed, but not produced.
Init ==
  /\ \E v \in Saves :
       LET properties == TrueProperties[v]
           sources == [name \in HarnessFiles |-> "1"]
           run == [kind |-> "run", status |-> "passed", id |-> "fixture", save |-> v,
                   role |-> "multi", claimed |-> properties, observed |-> properties,
                   flaws |-> {}, sources |-> sources]
       IN  /\ declared = << [id |-> "fixture", role |-> "multi", storage |-> "repository",
                             save |-> v, target |-> CanonicalTarget, evidence |-> "runtime",
                             properties |-> properties, source |-> Record,
                             producer |-> [evidence |-> "unverified", source |-> NoPath]] >>
           /\ harness = sources
           /\ files = [p \in Paths |->
                CASE p = RunArtifact -> run
                  [] p = Record -> [kind |-> "record", runtime |-> TRUE,
                                    observations |-> <<ObservationBlock(v, properties, run)>>,
                                    productions |-> <<>>]
                  [] p = Prose -> [kind |-> "record", runtime |-> FALSE, observations |-> <<>>,
                                   productions |-> <<>>]
                  [] p \in {ProductionArtifact, ProducerSnapshot} -> NoFile
                  [] OTHER -> [kind |-> "source", version |-> "1"]]
  /\ written = {} /\ edits = 0

Next == Observe \/ Produce \/ EditSource \/ EditRecord \/ EditDeclaration

Spec == Init /\ [][Next]_rolesVars
----------------------------------------------------------------------------
(***************************************************************************)
(* A fixture that satisfies its role is declared with what the game shows  *)
(* of exactly these bytes, and with a producing target that wrote exactly  *)
(* these bytes, where the role asks for it; although declaration, record,  *)
(* artifact and sources were all edited apart (check_role_requirements).   *)
(***************************************************************************)
RolesRestOnRuns ==
  DeclarationValid =>
    \A i \in 1..Len(declared) :
      Satisfies(declared[i]) =>
        /\ Requirements[declared[i].role].artifact =>
             declared[i].properties = TrueProperties[declared[i].save]
        /\ Requirements[declared[i].role].production => declared[i].save \in written
=============================================================================
