------------------------- MODULE ObserverOrchestration -------------------------
(***************************************************************************)
(* run_observer of scripts/run_a1_lifetime_observer.py: it digests the     *)
(* input files, has an observer process run on the manifest derived from   *)
(* them, digests the files again, binds the digests into the record the    *)
(* observer left, and gives the record to validate_bundle                  *)
(* (scripts/a1_sidecar_evidence_bundle.py), which reads the files anew.    *)
(*                                                                         *)
(* The environment rewrites files, the observer leaves processes behind    *)
(* and an operator runs the tool again after a failure.  The content of a  *)
(* file is a version number; 0 stands for "not read yet".                  *)
(***************************************************************************)
EXTENDS Naturals, Sequences

CONSTANTS
  Restores,     \* whether a writer may put an earlier content back
  MaxVersion,   \* bound on the versions a file goes through
  MaxAttempts   \* bound on the times the tool is run

ASSUME RestoresAssumption == Restores \in BOOLEAN
ASSUME BoundAssumption == MaxVersion \in Nat \ {0} /\ MaxAttempts \in Nat \ {0}

Nothing == 0
Versions == Nat \ {0}

\* The two independent inputs, the executable, the generated manifest and the
\* file-backed immutable inputs, one standing for all of them.
Files == {"qualification", "source", "observer", "manifest", "inputs"}
\* What reaches the observer process.
Seen == {"observer", "manifest", "inputs"}

Outcomes == {"positive", "incomplete-harness", "invalid", "unreadable"}

VARIABLES
  content,    \* the version of each file on disk
  pc, attempt, why,
  raw,        \* the qualification bytes held in memory
  digest,     \* the digests taken before the launch
  next,       \* the position in RecheckOrder
  judging,    \* the expected source validate_bundle has read
  judged,     \* the manifest the record was judged against
  record,     \* the record file
  used,       \* what the observer executed and read
  proc,       \* the observer process: "none", "running", "exited" or "killed"
  code,       \* whether it exited with 0
  group       \* its children of its process group, by whether they hold its pipes

orchestrator == <<pc, attempt, why, raw, digest, next, judging, judged>>
process      == <<used, proc, code, group>>
vars == <<content, record, orchestrator, process>>

NoRecord == [outcome |-> "none", prebound |-> FALSE,
             seen |-> [f \in Seen |-> Nothing],
             provenance |-> [f \in Files |-> Nothing]]

Bound(r) == r.provenance["observer"] # Nothing
Returned == pc \in {"succeeded", "failed"}

\* The expected source of version v names the qualification input of version v,
\* and the manifest is a function of the qualification bytes it names.
Binds(source, qualification) == source = qualification

Init ==
  /\ content = [f \in Files |-> 1]
  /\ pc = "start" /\ attempt = 1 /\ why = "none"
  /\ raw = Nothing /\ digest = [f \in Files |-> Nothing] /\ next = 1
  /\ judging = Nothing /\ judged = Nothing
  /\ record = NoRecord
  /\ used = [f \in Seen |-> Nothing] /\ proc = "none" /\ code = "none" /\ group = {}

Goto(l) == pc' = l /\ UNCHANGED why
Fail(w) == pc' = "failed" /\ why' = w

-----------------------------------------------------------------------------
(* Before the launch *)

\* The argument checks, then _snapshot_immutable_inputs.
SnapshotInputs ==
  /\ pc = "start"
  /\ \/ Fail("arguments") /\ UNCHANGED digest
     \/ digest' = [digest EXCEPT !["inputs"] = content["inputs"]] /\ Goto("output")
  /\ UNCHANGED <<content, record, process, attempt, raw, next, judging, judged>>

\* A fault: an existing record is taken for this run's own.
AnyOutput ==
  /\ pc = "output"
  /\ Goto("qualification")
  /\ UNCHANGED <<content, record, process, attempt, raw, digest, next, judging, judged>>

CheckOutput ==
  /\ pc = "output"
  /\ IF record # NoRecord THEN Fail("output") ELSE Goto("qualification")
  /\ UNCHANGED <<content, record, process, attempt, raw, digest, next, judging, judged>>

ReadQualification ==
  /\ pc = "qualification"
  /\ raw' = content["qualification"]
  /\ Goto("source")
  /\ UNCHANGED <<content, record, process, attempt, digest, next, judging, judged>>

\* The expected source is parsed here, and build_manifest compares it with the
\* bytes in memory, whose digest is taken.
BuildManifest ==
  /\ pc = "source"
  /\ IF Binds(content["source"], raw)
     THEN digest' = [digest EXCEPT !["qualification"] = raw] /\ Goto("digest source")
     ELSE Fail("manifest") /\ UNCHANGED digest
  /\ UNCHANGED <<content, record, process, attempt, raw, next, judging, judged>>

\* The file of the expected source is read a second time for its digest.
DigestSource ==
  /\ pc = "digest source"
  /\ digest' = [digest EXCEPT !["source"] = content["source"]]
  /\ Goto("digest observer")
  /\ UNCHANGED <<content, record, process, attempt, raw, next, judging, judged>>

DigestObserver ==
  /\ pc = "digest observer"
  /\ digest' = [digest EXCEPT !["observer"] = content["observer"]]
  /\ Goto("manifest")
  /\ UNCHANGED <<content, record, process, attempt, raw, next, judging, judged>>

\* Nobody knows the temporary directory before the launch.
WriteManifest ==
  /\ pc = "manifest"
  /\ content' = [content EXCEPT !["manifest"] = raw]
  /\ digest' = [digest EXCEPT !["manifest"] = raw]
  /\ Goto("inputs")
  /\ UNCHANGED <<record, process, attempt, raw, next, judging, judged>>

RecheckBeforeLaunch ==
  /\ pc = "inputs"
  /\ IF content["inputs"] = digest["inputs"] THEN Goto("launch") ELSE Fail("inputs")
  /\ UNCHANGED <<content, record, process, attempt, raw, digest, next, judging, judged>>

Launch ==
  /\ pc = "launch"
  /\ proc' = "running" /\ code' = "none"
  /\ used' = [f \in Seen |-> IF f = "observer" THEN content["observer"] ELSE Nothing]
  /\ Goto("communicate")
  /\ UNCHANGED <<content, record, attempt, raw, digest, next, judging, judged, group>>

-----------------------------------------------------------------------------
(* The observer process and what it starts *)

ObserverReads(f) ==
  /\ proc = "running" /\ used[f] = Nothing
  /\ used' = [used EXCEPT ![f] = content[f]]
  /\ UNCHANGED <<content, record, orchestrator, proc, code, group>>

\* It writes its record once it has read its arguments; it may have filled in
\* a provenance of its own, or produced a record the oracle refuses.
ObserverWrites ==
  /\ proc = "running" /\ \A f \in Seen : used[f] # Nothing
  /\ record = NoRecord
  /\ \E o \in Outcomes, b \in BOOLEAN :
       record' = [NoRecord EXCEPT !.outcome = o, !.prebound = b, !.seen = used]
  /\ UNCHANGED <<content, orchestrator, process>>

\* A child that holds the observer's pipes or has its own (DOSBox's and Xvfb's
\* output goes to /dev/null); it stays in the process group.
ObserverStarts ==
  /\ proc = "running"
  /\ \E c \in {"piped", "quiet"} : group' = group \cup {c}
  /\ UNCHANGED <<content, record, orchestrator, used, proc, code>>

ChildExits ==
  /\ \E c \in group : group' = group \ {c}
  /\ UNCHANGED <<content, record, orchestrator, used, proc, code>>

ObserverExits ==
  /\ proc = "running"
  /\ proc' = "exited" /\ code' \in {"zero", "nonzero"}
  /\ UNCHANGED <<content, record, orchestrator, used, group>>

-----------------------------------------------------------------------------
(* communicate() *)

\* A fault: only the observer itself is waited for in time, then its pipes.
TimesOutOnProcess ==
  /\ pc = "communicate" /\ proc = "running"
  /\ proc' = "killed" /\ group' = {}
  /\ Goto("reap")
  /\ UNCHANGED <<content, record, attempt, raw, digest, next, judging, judged, used, code>>

\* A fault: the observer is killed and its group is not.
TimesOutKillsProcess ==
  /\ pc = "communicate" /\ (proc = "running" \/ "piped" \in group)
  /\ proc' = IF proc = "running" THEN "killed" ELSE proc
  /\ Goto("reap")
  /\ UNCHANGED <<content, record, attempt, raw, digest, next, judging, judged, used, code,
                 group>>

\* The timeout, while the observer or a holder of its pipes lives: killpg.
TimesOut ==
  /\ pc = "communicate" /\ (proc = "running" \/ "piped" \in group)
  /\ proc' = IF proc = "running" THEN "killed" ELSE proc
  /\ group' = {}
  /\ Goto("reap")
  /\ UNCHANGED <<content, record, attempt, raw, digest, next, judging, judged, used, code>>

Reap ==
  /\ pc = "reap" /\ "piped" \notin group
  /\ Fail("timeout")
  /\ UNCHANGED <<content, record, process, attempt, raw, digest, next, judging, judged>>

\* End of file on the pipes and an exit status: the group is left alone.
Collect ==
  /\ pc = "communicate" /\ proc = "exited" /\ "piped" \notin group
  /\ IF code = "nonzero" THEN Fail("exit")
     ELSE IF record = NoRecord THEN Fail("no record") ELSE Goto("recheck")
  /\ next' = 1
  /\ UNCHANGED <<content, record, process, attempt, raw, digest, judging, judged>>

-----------------------------------------------------------------------------
(* After the observer *)

\* A fault: the immutable inputs are not looked at again.
RecheckOrderWithoutInputs == <<"qualification", "source", "observer", "manifest">>

RecheckOrder == <<"qualification", "source", "observer", "manifest", "inputs">>

Recheck ==
  /\ pc = "recheck"
  /\ LET f == RecheckOrder[next]
     IN  IF content[f] # digest[f] THEN Fail("changed") /\ UNCHANGED next
         ELSE /\ next' = next + 1
              /\ IF next = Len(RecheckOrder) THEN Goto("bind") ELSE Goto("recheck")
  /\ UNCHANGED <<content, record, process, attempt, raw, digest, judging, judged>>

\* A fault: one of the digests is left out of the record.
BindWithoutSource ==
  /\ pc = "bind"
  /\ IF record.outcome = "unreadable" \/ record.prebound
     THEN Fail("record") /\ UNCHANGED record
     ELSE /\ record' = [record EXCEPT !.provenance = [digest EXCEPT !["source"] = Nothing]]
          /\ Goto("judge source")
  /\ UNCHANGED <<content, process, attempt, raw, digest, next, judging, judged>>

\* _bind_orchestration_provenance refuses what it cannot parse and a record
\* that has a provenance already.
Bind ==
  /\ pc = "bind"
  /\ IF record.outcome = "unreadable" \/ record.prebound
     THEN Fail("record") /\ UNCHANGED record
     ELSE record' = [record EXCEPT !.provenance = digest] /\ Goto("judge source")
  /\ UNCHANGED <<content, process, attempt, raw, digest, next, judging, judged>>

\* validate_bundle reads the expected source, the record, the qualification.
JudgeSource ==
  /\ pc = "judge source"
  /\ judging' = content["source"]
  /\ Goto("judge")
  /\ UNCHANGED <<content, record, process, attempt, raw, digest, next, judged>>

\* A fault: the oracle does not bind the run inputs to the expected source.
AcceptsAnySource(qualification) == record.outcome \in {"positive", "incomplete-harness"}

\* A positive record must name the source it is judged against; an incomplete
\* one is accepted whatever it was made from.
Accepts(qualification) ==
  \/ record.outcome = "incomplete-harness"
  \/ record.outcome = "positive" /\ record.seen["manifest"] = qualification

Judge ==
  /\ pc = "judge"
  /\ LET qualification == content["qualification"]
     IN  IF Binds(judging, qualification) /\ Accepts(qualification)
         THEN judged' = qualification /\ Goto("succeeded")
         ELSE Fail("judged") /\ UNCHANGED judged
  /\ UNCHANGED <<content, record, process, attempt, raw, digest, next, judging>>

-----------------------------------------------------------------------------
(* The environment *)

\* Someone rewrites a file; the manifest only once it has been given away.
Rewrite(f) ==
  /\ f = "manifest" => pc \in {"communicate", "recheck"}
  /\ ~Returned
  /\ \E v \in 1..MaxVersion :
       /\ v # content[f]
       /\ Restores \/ v > content[f]
       /\ content' = [content EXCEPT ![f] = v]
  /\ UNCHANGED <<record, orchestrator, process>>

\* The tool is run again, with the record of the failed run removed or not.
RunAgain ==
  /\ pc = "failed" /\ attempt < MaxAttempts
  /\ attempt' = attempt + 1
  /\ pc' = "start" /\ why' = "none"
  /\ record' \in {record, NoRecord}
  /\ raw' = Nothing /\ digest' = [f \in Files |-> Nothing] /\ next' = 1
  /\ judging' = Nothing /\ judged' = Nothing
  /\ used' = [f \in Seen |-> Nothing] /\ proc' = "none" /\ code' = "none" /\ group' = {}
  /\ UNCHANGED content

Stop == Returned /\ UNCHANGED vars

Orchestrator ==
  \/ SnapshotInputs \/ CheckOutput \/ ReadQualification \/ BuildManifest
  \/ DigestSource \/ DigestObserver \/ WriteManifest \/ RecheckBeforeLaunch \/ Launch
  \/ TimesOut \/ Reap \/ Collect \/ Recheck \/ Bind \/ JudgeSource \/ Judge

Environment ==
  \/ \E f \in Seen : ObserverReads(f)
  \/ ObserverWrites \/ ObserverStarts \/ ChildExits \/ ObserverExits
  \/ \E f \in Files : Rewrite(f)

Next == Orchestrator \/ Environment \/ RunAgain \/ Stop

Spec == Init /\ [][Next]_vars

\* The tool's own steps, its timeout among them, are taken; nothing else is.
FairSpec == Spec /\ WF_vars(Orchestrator)

-----------------------------------------------------------------------------
(* Properties *)

Labels == {"start", "output", "qualification", "source", "digest source", "digest observer",
           "manifest", "inputs", "launch", "communicate", "reap", "recheck", "bind",
           "judge source", "judge", "succeeded", "failed"}

Records == [outcome : Outcomes \cup {"none"}, prebound : BOOLEAN,
            seen : [Seen -> Nat], provenance : [Files -> Nat]]

\* The type invariant: no step of the orchestrator goes past the last file of
\* the recheck, and a record is only ever bound with a digest of every file.
TypeOK ==
  /\ content \in [Files -> Versions]
  /\ pc \in Labels /\ attempt \in 1..MaxAttempts
  /\ why \in {"none", "arguments", "output", "manifest", "inputs", "timeout", "exit",
              "no record", "changed", "record", "judged"}
  /\ raw \in Nat /\ digest \in [Files -> Nat] /\ next \in 1..(Len(RecheckOrder) + 1)
  /\ judging \in Nat /\ judged \in Nat
  /\ record \in Records
  /\ used \in [Seen -> Nat]
  /\ proc \in {"none", "running", "exited", "killed"} /\ code \in {"none", "zero", "nonzero"}
  /\ group \subseteq {"piped", "quiet"}
  /\ Bound(record) => record.provenance \in [Files -> Versions]

\* A record that carries a provenance was made by an observer of the digested
\* executable, from the digested manifest and inputs, and that manifest was
\* built from the digested qualification input: however the files are rewritten
\* while the observer runs, as long as no content comes back, and whatever
\* record an earlier attempt left (run_observer, the rechecks and the binding).
ProvenanceIsTruthful ==
  Bound(record) =>
    /\ \A f \in Seen : record.seen[f] = record.provenance[f]
    /\ record.provenance["manifest"] = record.provenance["qualification"]

\* A positive record is accepted only against the qualification input whose
\* digest it carries and whose manifest the observer had read, although
\* validate_bundle reads the file again after its last recheck.
PositiveIsBound ==
  pc = "succeeded" /\ record.outcome = "positive" =>
    /\ judged = record.provenance["qualification"]
    /\ judged = record.seen["manifest"]

\* When the tool reports a timeout, neither the observer nor a child of its
\* process group still runs (_run_bounded_process).
TimeoutKillsTheGroup ==
  pc = "failed" /\ why = "timeout" => group = {} /\ proc \in {"exited", "killed"}

\* The binding step rewrites only a record that the observer of the same attempt
\* wrote, never one that was there before it (the check of record_output).
OnlyItsOwnRecordIsBound ==
  [][Bound(record') /\ ~Bound(record) => record # NoRecord /\ record.seen = used]_vars

\* Both: however attempts, files and old records interleave, what is bound is
\* the attempt's own record, and what is accepted as positive is judged against
\* the very input it was made from (run_observer).
RecordsAreBoundToTheirRun == []PositiveIsBound /\ OnlyItsOwnRecordIsBound

\* What the comment before the rechecks says, "This fails closed on concurrent
\* mutation": a success has been judged against the inputs whose digests the
\* record carries.
SuccessMeansBoundInputs ==
  pc = "succeeded" =>
    /\ judged = record.provenance["qualification"]
    /\ Binds(record.provenance["source"], record.provenance["qualification"])

\* Whatever the observer and its children do, every attempt returns: the
\* timeout kills whoever holds the pipes (_run_bounded_process).
Returns == \A n \in 1..MaxAttempts : attempt = n ~> attempt = n /\ Returned
=============================================================================
