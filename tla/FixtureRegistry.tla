---------------------------- MODULE FixtureRegistry ----------------------------
(***************************************************************************)
(* scripts/add_validation_fixture.py: a run takes a save and a request,    *)
(* merges an entry into the declaration, checks the result, copies the     *)
(* payload to its place, checks all committed payloads and rewrites the    *)
(* declaration.  Runs follow one another; each may fail or be killed       *)
(* between any two writes, and the save outside the repository may change. *)
(***************************************************************************)
EXTENDS Naturals

CONSTANTS
  Ids, Paths,   \* fixture ids, places for payloads in the repository
  Saves,        \* the complete contents a save can have
  Observed,     \* those a runtime experiment record describes
  Produced,     \* those a production record describes
  Undeclared,   \* stands for no entry
  MaxRuns       \* bound on the invocations

ASSUME RecordsAssumption == Observed \subseteq Saves /\ Produced \subseteq Saves
ASSUME RunsAssumption == MaxRuns \in Nat
ASSUME NamesAssumption == "operator" \notin Paths /\ "outside" \notin Paths
                         /\ "absent" \notin Saves

Absent == "absent"
Partial == "partial"      \* what a copy that was cut short leaves
Bytes == Saves \cup {Partial}

Outside == "outside"      \* the save as the maintainer has it
Operator == "operator"    \* storage operator-supplied: no place in the repository

Entries == [sha : Bytes, place : Paths \cup {Operator},
            evidence : {"unverified", "runtime"}, producer : {"none", "reported", "runtime"}]
\* No entry is None.
ASSUME UndeclaredAssumption == Undeclared \notin Entries

Requests == [id : Ids, source : Paths \cup {Outside}, place : Paths \cup {Operator},
             replace : BOOLEAN, evidence : {"unverified", "runtime"},
             producer : {"none", "reported", "runtime"}]

VARIABLES
  declaration,  \* the last complete document: the entry of each id
  broken,       \* whether its file now holds a part of a document
  files,        \* the payloads in the repository
  save,         \* the bytes of the save outside
  pc, runs, request, document, created,
  before        \* history: declaration, broken and files when the run began

disk == <<declaration, broken, files>>
run == <<runs, request, document, created, before>>
vars == <<disk, save, pc, run>>

NoRequest == [id |-> "none"]

Declares(d, p) == {i \in Ids : d[i] # Undeclared /\ d[i].place = p}

Init ==
  /\ declaration = [i \in Ids |-> Undeclared] /\ broken = FALSE
  /\ files = [p \in Paths |-> Absent]
  /\ save \in Saves
  /\ pc = "idle" /\ runs = 0 /\ request = NoRequest
  /\ document = declaration /\ created = FALSE
  /\ before = [declaration |-> declaration, broken |-> FALSE, files |-> files]

-----------------------------------------------------------------------------
(* One run *)

Content(source) == IF source = Outside THEN save ELSE files[source]

\* merge_entry: producer provenance is kept unless the request gives one.
Merged(r) ==
  LET previous == declaration[r.id]
  IN  [sha |-> Content(r.source), place |-> r.place, evidence |-> r.evidence,
       producer |-> IF r.producer = "none" /\ previous # Undeclared
                    THEN previous.producer ELSE r.producer]

\* A fault: an id may be bound to other bytes.
MayMergeAnyBytes(r) == declaration[r.id] # Undeclared => r.replace

MayMerge(r) ==
  declaration[r.id] # Undeclared =>
    r.replace /\ declaration[r.id].sha = Content(r.source)

\* resolve_destination: nothing there, the save itself, or the payload of this
\* very fixture.
MayPlace(r) ==
  \/ r.place \in {Operator, r.source}
  \/ files[r.place] = Absent
  \/ /\ declaration[r.id] # Undeclared /\ declaration[r.id].place = r.place
     /\ files[r.place] = Content(r.source)

\* A runtime claim needs the record of an experiment on these very bytes.
EvidenceHolds(r) ==
  /\ r.evidence = "runtime" => Content(r.source) \in Observed
  /\ r.producer = "runtime" => Content(r.source) \in Produced

\* The whole part of main that only reads; other checks (roles, planets,
\* fields) may refuse any request, and a dry run ends here.
Begin ==
  /\ pc = "idle" /\ runs < MaxRuns
  /\ \E r \in Requests :
       /\ request' = r
       /\ IF Content(r.source) # Absent /\ ~broken /\ MayMerge(r) /\ MayPlace(r)
             /\ EvidenceHolds(r)
          THEN /\ pc' \in {"place", "idle"}
               /\ document' = [declaration EXCEPT ![r.id] = Merged(r)]
          ELSE pc' = "failed" /\ UNCHANGED document
  /\ runs' = runs + 1 /\ created' = FALSE
  /\ before' = [declaration |-> declaration, broken |-> broken, files |-> files]
  /\ UNCHANGED <<disk, save>>

\* A fault: what is in place already counts as created, too.
PlaceClaimsAll ==
  /\ pc = "place" /\ pc' = "check" /\ created' = TRUE
  /\ UNCHANGED <<disk, save, runs, request, document, before>>

\* place_payload: no copy where the payload is in place; copy2 opens the
\* destination first.
Place ==
  /\ pc = "place"
  /\ IF request.place \in {Operator, request.source} \/ files[request.place] # Absent
     THEN pc' = "check" /\ UNCHANGED <<files, created>>
     ELSE pc' = "copy" /\ files' = [files EXCEPT ![request.place] = Partial] /\ UNCHANGED created
  /\ UNCHANGED <<declaration, broken, save, runs, request, document, before>>

Copy ==
  /\ pc = "copy"
  /\ files' = [files EXCEPT ![request.place] = Content(request.source)]
  /\ created' = TRUE /\ pc' = "check"
  /\ UNCHANGED <<declaration, broken, save, runs, request, document, before>>

\* A fault: the partial copy stays.
CopyFailsAndStays ==
  /\ pc = "copy" /\ pc' = "failed"
  /\ UNCHANGED <<disk, save, run>>

CopyFails ==
  /\ pc = "copy"
  /\ files' = [files EXCEPT ![request.place] = Absent]
  /\ pc' = "failed"
  /\ UNCHANGED <<declaration, broken, save, run>>

\* check_payloads on the new document: committed payloads are there and whole.
PayloadsMatch(d) ==
  \A i \in Ids : d[i] # Undeclared /\ d[i].place \in Paths => files[d[i].place] = d[i].sha

\* A fault: the destination is removed whoever created it.
RollBackAll ==
  files' = IF request.place \in Paths THEN [files EXCEPT ![request.place] = Absent] ELSE files

\* The except clause: what this run created is removed.
RollBack ==
  files' = IF created THEN [files EXCEPT ![request.place] = Absent] ELSE files

\* A fault: the payloads are taken as they were placed.
CheckNothing ==
  /\ pc = "check" /\ pc' = "open"
  /\ UNCHANGED <<disk, save, run>>

Check ==
  /\ pc = "check"
  /\ IF PayloadsMatch(document)
     THEN pc' = "open" /\ UNCHANGED files
     ELSE pc' = "failed" /\ RollBack
  /\ UNCHANGED <<declaration, broken, save, run>>

\* write_text empties the file before it writes.
OpenDeclaration ==
  /\ pc = "open"
  /\ broken' = TRUE /\ pc' = "write"
  /\ UNCHANGED <<declaration, files, save, run>>

WriteDeclaration ==
  /\ pc = "write"
  /\ declaration' = document /\ broken' = FALSE /\ pc' = "idle"
  /\ UNCHANGED <<files, save, run>>

\* It cannot be opened, or the file system is full half way.
WriteFails ==
  /\ pc \in {"open", "write"}
  /\ RollBack /\ pc' = "failed"
  /\ UNCHANGED <<declaration, broken, save, run>>

-----------------------------------------------------------------------------
(* Around the runs *)

\* The process is killed.
Crash ==
  /\ pc \in {"place", "copy", "check", "open", "write"}
  /\ pc' = "idle"
  /\ UNCHANGED <<disk, save, run>>

Report == pc = "failed" /\ pc' = "idle" /\ UNCHANGED <<disk, save, run>>

\* The game writes the save while a run is under way; after the check of the
\* payloads it is not read again.
SaveChanges ==
  /\ pc \in {"place", "copy", "check", "idle"}
  /\ save' \in Saves \ {save}
  /\ UNCHANGED <<disk, pc, run>>

\* The maintainer checks the declaration out again, or removes a file that
\* nothing declares.
Restore ==
  /\ pc = "idle" /\ broken /\ broken' = FALSE
  /\ UNCHANGED <<declaration, files, save, pc, run>>

RemoveStray(p) ==
  /\ pc = "idle" /\ files[p] # Absent /\ Declares(declaration, p) = {}
  /\ files' = [files EXCEPT ![p] = Absent]
  /\ UNCHANGED <<declaration, broken, save, pc, run>>

Next ==
  \/ Begin \/ Place \/ Copy \/ CopyFails \/ Check
  \/ OpenDeclaration \/ WriteDeclaration \/ WriteFails
  \/ Crash \/ Report \/ SaveChanges \/ Restore
  \/ \E p \in Paths : RemoveStray(p)

Spec == Init /\ [][Next]_vars

-----------------------------------------------------------------------------
(* Properties *)

\* The type invariant; besides the types, a run that created a payload knows
\* its place, and a broken declaration is never taken for a document.
TypeOK ==
  /\ declaration \in [Ids -> Entries \cup {Undeclared}] /\ broken \in BOOLEAN
  /\ document \in [Ids -> Entries \cup {Undeclared}]
  /\ files \in [Paths -> Bytes \cup {Absent}] /\ save \in Saves
  /\ pc \in {"idle", "place", "copy", "check", "open", "write", "failed"}
  /\ runs \in 0..MaxRuns /\ request \in Requests \cup {NoRequest} /\ created \in BOOLEAN
  /\ created => request.place \in Paths
  /\ pc \in {"place", "copy", "check", "open"} => ~broken

\* Every payload the declaration calls committed is in the repository with the
\* declared bytes, whatever run failed, was killed or read a changing save (the
\* order of place_payload, check_payloads and the write in main).
DeclaredPayloadsMatch == PayloadsMatch(declaration)

\* A runtime claim, also one carried over from a replaced entry, is about the
\* bytes that the experiment record describes (merge_entry, main).
EvidenceIsOfTheseBytes ==
  \A i \in Ids : declaration[i] # Undeclared =>
    /\ declaration[i].evidence = "runtime" => declaration[i].sha \in Observed
    /\ declaration[i].producer = "runtime" => declaration[i].sha \in Produced

\* A run that fails has changed no payload: what it created is gone and what
\* it found is there (place_payload and the except clause of main).
FailureKeepsPayloads == pc = "failed" => files = before.files

\* The comment in main, "a failed invocation leaves no copied payload behind
\* and no half-updated declaration".
FailureKeepsDeclaration ==
  pc = "failed" => declaration = before.declaration /\ broken = before.broken

\* An id keeps its bytes for ever: other evidence is pinned to it (merge_entry).
IdKeepsItsBytes ==
  [][\A i \in Ids : declaration[i] # Undeclared
        => declaration'[i] # Undeclared /\ declaration'[i].sha = declaration[i].sha]_vars

\* A committed payload is neither overwritten nor removed (resolve_destination,
\* place_payload and the rollback of main).
CommittedPayloadsSurvive ==
  [][\A p \in Paths : Declares(declaration, p) # {} => files'[p] = files[p]]_vars

\* Through replacements, changing saves, failures and kills, a runtime claim is
\* about the bytes its record describes, and a run that failed left the
\* payloads as it found them (merge_entry, place_payload, main).
ClaimsAndPayloadsKeep == EvidenceIsOfTheseBytes /\ FailureKeepsPayloads

\* From one step to the next an id keeps its bytes and a committed payload its
\* place, also while another run is rolled back (merge_entry, main).
CommittedStays == IdKeepsItsBytes /\ CommittedPayloadsSurvive
=============================================================================
