------------------------- MODULE FixtureRegistryProofs -------------------------
(***************************************************************************)
(* The declaration never names a payload that is not there, claims only    *)
(* what the records bear out and keeps what it committed, for every set of *)
(* ids and places and any number of runs that fail or are killed.          *)
(***************************************************************************)
EXTENDS FixtureRegistry, TLAPS

Types ==
  /\ declaration \in [Ids -> Entries \cup {Undeclared}]
  /\ document \in [Ids -> Entries \cup {Undeclared}]
  /\ files \in [Paths -> Bytes \cup {Absent}] /\ save \in Saves
  /\ created \in BOOLEAN
  /\ pc \in {"idle", "place", "copy", "check", "open", "write", "failed"}
  /\ pc \in {"place", "copy", "check", "open", "write"} => request \in Requests

\* What a run may still remove or overwrite is declared by nobody.
OnlyOwnIsRemoved ==
  /\ pc = "place" => ~created
  /\ pc = "copy" => request.place \in Paths /\ Declares(declaration, request.place) = {}
  /\ pc \in {"check", "open", "write"} /\ created =>
       request.place \in Paths /\ Declares(declaration, request.place) = {}

\* What is about to be written has been checked.
DocumentIsChecked == pc \in {"open", "write"} => PayloadsMatch(document)

IInv == Types /\ OnlyOwnIsRemoved /\ DocumentIsChecked /\ DeclaredPayloadsMatch
-----------------------------------------------------------------------------
\* The words for "nothing there" are no payload.
LEMMA AbsentIsNoPayload == Absent \notin Bytes
BY NamesAssumption DEF Absent, Bytes, Partial

\* A place where nothing is cannot be declared while the payloads match.
LEMMA EmptyPlaceIsUndeclared ==
  ASSUME Types, DeclaredPayloadsMatch, NEW p \in Paths, files[p] = Absent
  PROVE  Declares(declaration, p) = {}
<1> SUFFICES ASSUME NEW i \in Ids, declaration[i] # Undeclared, declaration[i].place = p
             PROVE  FALSE
  BY DEF Declares
<1>1. declaration[i] \in Entries
  BY DEF Types
<1>2. declaration[i].sha \in Bytes
  BY <1>1 DEF Entries
<1>3. files[p] = declaration[i].sha
  BY DEF DeclaredPayloadsMatch, PayloadsMatch
<1>4. QED
  BY <1>2, <1>3, AbsentIsNoPayload

\* Whatever happens to an undeclared place leaves the declared payloads alone.
LEMMA UndeclaredPlaceChanges ==
  ASSUME Types, DeclaredPayloadsMatch, NEW p \in Paths, Declares(declaration, p) = {},
         NEW x, files' = [files EXCEPT ![p] = x], declaration' = declaration
  PROVE  DeclaredPayloadsMatch'
<1>1. \A i \in Ids : declaration[i] # Undeclared => declaration[i].place # p
  BY DEF Declares
<1>2. \A q \in Paths : q # p => files'[q] = files[q]
  BY DEF Types
<1>3. QED
  BY <1>1, <1>2 DEF DeclaredPayloadsMatch, PayloadsMatch

\* So does the except clause of main.
LEMMA RollBackIsHarmless ==
  ASSUME IInv, pc \in {"check", "open", "write"}, RollBack, declaration' = declaration
  PROVE  DeclaredPayloadsMatch' /\ files' \in [Paths -> Bytes \cup {Absent}]
<1>1. CASE created
  <2>1. request.place \in Paths /\ Declares(declaration, request.place) = {}
    BY <1>1 DEF IInv, OnlyOwnIsRemoved
  <2>2. files' = [files EXCEPT ![request.place] = Absent]
    BY <1>1 DEF RollBack
  <2>3. QED
    BY <2>1, <2>2, UndeclaredPlaceChanges DEF IInv, Types
<1>2. CASE ~created
  BY <1>2 DEF RollBack, IInv, Types, DeclaredPayloadsMatch, PayloadsMatch
<1>3. QED
  BY <1>1, <1>2

\* The empty registry satisfies the invariant.
LEMMA InvInit == Init => IInv
BY DEF Init, IInv, Types, OnlyOwnIsRemoved, DocumentIsChecked, DeclaredPayloadsMatch, PayloadsMatch

\* A source holds bytes or nothing.
LEMMA ContentType == ASSUME Types, NEW r \in Requests PROVE Content(r.source) \in Bytes \cup {Absent}
BY NamesAssumption DEF Content, Types, Requests, Bytes, Outside

\* Every step of a run, and everything around the runs, keeps the invariant.
LEMMA InvStep == ASSUME IInv, [Next]_vars PROVE IInv'
<1> USE DEF IInv
<1>1. CASE Begin
  <2> PICK r \in Requests :
        /\ request' = r
        /\ IF Content(r.source) # Absent /\ ~broken /\ MayMerge(r) /\ MayPlace(r)
              /\ EvidenceHolds(r)
           THEN /\ pc' \in {"place", "idle"}
                /\ document' = [declaration EXCEPT ![r.id] = Merged(r)]
           ELSE pc' = "failed" /\ UNCHANGED document
    BY <1>1 DEF Begin
  <2>1. UNCHANGED <<declaration, files, save>> /\ created' = FALSE
    BY <1>1 DEF Begin, disk
  <2>2. Content(r.source) # Absent => Merged(r) \in Entries
    <3>1. r.id \in Ids /\ r.place \in Paths \cup {Operator} /\ r.evidence \in {"unverified", "runtime"}
          /\ r.producer \in {"none", "reported", "runtime"}
      BY DEF Requests
    <3>2. declaration[r.id] # Undeclared => declaration[r.id].producer \in {"none", "reported", "runtime"}
      BY <3>1 DEF Types, Entries
    <3>3. QED
      BY <3>1, <3>2, ContentType DEF Merged, Entries
  <2>3. document' \in [Ids -> Entries \cup {Undeclared}]
    BY <2>2 DEF Types
  <2>4. QED
    BY <2>1, <2>3 DEF Types, OnlyOwnIsRemoved, DocumentIsChecked, DeclaredPayloadsMatch, PayloadsMatch
<1>2. CASE Place
  <2>1. CASE request.place \in {Operator, request.source} \/ files[request.place] # Absent
    <3>1. /\ pc' = "check" /\ created' = created
          /\ UNCHANGED <<declaration, files, save, document, request>>
      BY <1>2, <2>1 DEF Place
    <3>2. ~created
      BY <1>2 DEF Place, OnlyOwnIsRemoved
    <3>3. QED
      BY <1>2, <3>1, <3>2 DEF Place, Types, OnlyOwnIsRemoved, DocumentIsChecked,
                           DeclaredPayloadsMatch, PayloadsMatch
  <2>2. CASE ~(request.place \in {Operator, request.source} \/ files[request.place] # Absent)
    <3>1. request.place \in Paths /\ files[request.place] = Absent
      BY <1>2, <2>2 DEF Place, Types, Requests
    <3>2. Declares(declaration, request.place) = {}
      BY <3>1, EmptyPlaceIsUndeclared
    <3>3. /\ pc' = "copy" /\ files' = [files EXCEPT ![request.place] = Partial]
          /\ UNCHANGED <<declaration, save, document, request, created>>
      BY <1>2, <2>2 DEF Place
    <3>4. DeclaredPayloadsMatch'
      BY <3>1, <3>2, <3>3, UndeclaredPlaceChanges
    <3>5. Types'
      BY <1>2, <3>3 DEF Types, Bytes, Place
    <3>6. QED
      BY <3>1, <3>2, <3>3, <3>4, <3>5 DEF OnlyOwnIsRemoved, DocumentIsChecked, Declares
  <2>3. QED
    BY <2>1, <2>2
<1>3. CASE Copy
  <2>1. request.place \in Paths /\ Declares(declaration, request.place) = {}
    BY <1>3 DEF Copy, OnlyOwnIsRemoved
  <2>2. /\ files' = [files EXCEPT ![request.place] = Content(request.source)]
        /\ pc' = "check" /\ created' = TRUE /\ UNCHANGED <<declaration, save, document, request>>
    BY <1>3 DEF Copy
  <2>3. Content(request.source) \in Bytes \cup {Absent}
    BY <1>3, ContentType DEF Copy, Types
  <2>4. Types'
    BY <1>3, <2>2, <2>3 DEF Types, Copy
  <2>5. DeclaredPayloadsMatch'
    BY <2>1, <2>2, UndeclaredPlaceChanges
  <2>6. QED
    BY <2>1, <2>2, <2>4, <2>5 DEF OnlyOwnIsRemoved, DocumentIsChecked, Declares
<1>4. CASE CopyFails
  <2>1. request.place \in Paths /\ Declares(declaration, request.place) = {}
    BY <1>4 DEF CopyFails, OnlyOwnIsRemoved
  <2>2. /\ files' = [files EXCEPT ![request.place] = Absent]
        /\ pc' = "failed" /\ UNCHANGED <<declaration, save, document, created>>
    BY <1>4 DEF CopyFails, run
  <2>3. DeclaredPayloadsMatch'
    BY <2>1, <2>2, UndeclaredPlaceChanges
  <2>4. QED
    BY <2>2, <2>3 DEF Types, OnlyOwnIsRemoved, DocumentIsChecked
<1>5. CASE Check
  <2>1. CASE PayloadsMatch(document)
    BY <1>5, <2>1 DEF Check, run, Types, OnlyOwnIsRemoved, DocumentIsChecked, DeclaredPayloadsMatch,
                     PayloadsMatch, Declares
  <2>2. CASE ~PayloadsMatch(document)
    BY <1>5, <2>2, RollBackIsHarmless DEF Check, run, Types, OnlyOwnIsRemoved, DocumentIsChecked
  <2>3. QED
    BY <2>1, <2>2
<1>6. CASE OpenDeclaration
  BY <1>6 DEF OpenDeclaration, run, Types, OnlyOwnIsRemoved, DocumentIsChecked,
              DeclaredPayloadsMatch, PayloadsMatch, Declares
<1>7. CASE WriteDeclaration
  BY <1>7 DEF WriteDeclaration, run, Types, OnlyOwnIsRemoved, DocumentIsChecked,
              DeclaredPayloadsMatch, PayloadsMatch
<1>8. CASE WriteFails
  BY <1>8, RollBackIsHarmless DEF WriteFails, run, Types, OnlyOwnIsRemoved, DocumentIsChecked
<1>9. CASE Crash \/ Report \/ SaveChanges \/ Restore \/ UNCHANGED vars
  BY <1>9 DEF Crash, Report, SaveChanges, Restore, vars, run, disk, Types, OnlyOwnIsRemoved,
              DocumentIsChecked, DeclaredPayloadsMatch, PayloadsMatch, Declares
<1>10. CASE \E p \in Paths : RemoveStray(p)
  <2> PICK p \in Paths : RemoveStray(p)
    BY <1>10
  <2>1. /\ files' = [files EXCEPT ![p] = Absent] /\ Declares(declaration, p) = {}
        /\ pc = "idle" /\ UNCHANGED <<declaration, save, pc, document, created>>
    BY DEF RemoveStray, run
  <2>2. DeclaredPayloadsMatch'
    BY <2>1, UndeclaredPlaceChanges
  <2>3. QED
    BY <2>1, <2>2 DEF Types, OnlyOwnIsRemoved, DocumentIsChecked
<1>11. QED
  BY <1>1, <1>2, <1>3, <1>4, <1>5, <1>6, <1>7, <1>8, <1>9, <1>10 DEF Next

\* Every committed payload the declaration names is in place with the declared
\* bytes, whatever run failed or was killed and whatever the save did meanwhile.
THEOREM DeclaredPayloadsHold == Spec => []DeclaredPayloadsMatch
<1>1. Init => IInv
  BY InvInit
<1>2. IInv /\ [Next]_vars => IInv'
  BY InvStep
<1>3. IInv => DeclaredPayloadsMatch
  BY DEF IInv
<1>4. QED
  BY <1>1, <1>2, <1>3, PTL DEF Spec
-----------------------------------------------------------------------------
(* What a run knows of the declaration it will write, and of what it found. *)

Busy == {"place", "copy", "check", "open", "write"}

\* A runtime claim of a document is about bytes of its record.
ClaimsOf(d) ==
  \A i \in Ids : d[i] # Undeclared =>
    /\ d[i].evidence = "runtime" => d[i].sha \in Observed
    /\ d[i].producer = "runtime" => d[i].sha \in Produced

\* Every id a document keeps has the bytes it had.
KeepsIds(old, new) ==
  \A i \in Ids : old[i] # Undeclared => new[i] # Undeclared /\ new[i].sha = old[i].sha

\* The document of a run under way makes the claims the records bear out, and
\* drops no entry of the declaration.
DocumentIsMerged == pc \in Busy => ClaimsOf(document) /\ KeepsIds(declaration, document)

\* What a run has changed of the payloads is what it may still undo.
FoundIsKept ==
  /\ before.files \in [Paths -> Bytes \cup {Absent}]
  /\ pc = "place" => files = before.files
  /\ pc = "copy" => /\ request.place \in Paths /\ before.files[request.place] = Absent
                    /\ files = [before.files EXCEPT ![request.place] = files[request.place]]
  /\ pc \in {"check", "open", "write"} /\ created =>
       /\ request.place \in Paths /\ before.files[request.place] = Absent
       /\ files = [before.files EXCEPT ![request.place] = files[request.place]]
  /\ pc \in {"check", "open", "write"} /\ ~created => files = before.files
  /\ pc = "failed" => files = before.files

RunInv == TypeOK /\ EvidenceIsOfTheseBytes /\ DocumentIsMerged /\ FoundIsKept

\* Nothing is declared before the first run.
LEMMA RunInit == Init => RunInv
<1> SUFFICES ASSUME Init PROVE RunInv
  OBVIOUS
<1>1. TypeOK
  <2>1. Types
    BY InvInit DEF IInv
  <2>2. created = FALSE /\ broken = FALSE /\ pc = "idle"
    BY DEF Init
  <2>3. runs \in 0..MaxRuns /\ request \in Requests \cup {NoRequest}
    BY RunsAssumption DEF Init
  <2>4. QED
    BY <2>1, <2>2, <2>3 DEF TypeOK, Types
<1>2. EvidenceIsOfTheseBytes /\ DocumentIsMerged
  BY DEF Init, EvidenceIsOfTheseBytes, DocumentIsMerged, Busy
<1>3. FoundIsKept
  BY DEF Init, FoundIsKept
<1>4. QED
  BY <1>1, <1>2, <1>3 DEF RunInv

\* What merge_entry makes of an admitted request is borne out and keeps its id.
LEMMA MergedIsHonest ==
  ASSUME IInv, EvidenceIsOfTheseBytes, NEW r \in Requests, Content(r.source) # Absent,
         MayMerge(r), EvidenceHolds(r)
  PROVE  /\ Merged(r) \in Entries /\ Merged(r) # Undeclared /\ Merged(r).sha = Content(r.source)
         /\ Merged(r).evidence = "runtime" => Merged(r).sha \in Observed
         /\ Merged(r).producer = "runtime" => Merged(r).sha \in Produced
         /\ declaration[r.id] # Undeclared => declaration[r.id].sha = Merged(r).sha
<1>1. r.id \in Ids /\ r.place \in Paths \cup {Operator} /\ r.evidence \in {"unverified", "runtime"}
      /\ r.producer \in {"none", "reported", "runtime"}
  BY DEF Requests
<1>2. declaration[r.id] # Undeclared => declaration[r.id].producer \in {"none", "reported", "runtime"}
  BY <1>1 DEF IInv, Types, Entries
<1>3. Content(r.source) \in Bytes
  BY ContentType DEF IInv
<1>4. Merged(r) \in Entries
  BY <1>1, <1>2, <1>3 DEF Merged, Entries
<1>5. Merged(r) # Undeclared
  BY <1>4, UndeclaredAssumption
<1>6. declaration[r.id] # Undeclared => declaration[r.id].sha = Content(r.source)
  BY DEF MayMerge
<1>7. Merged(r).producer = "runtime" => Content(r.source) \in Produced
  <2>1. CASE r.producer = "none" /\ declaration[r.id] # Undeclared
    BY <1>1, <1>6, <2>1 DEF Merged, EvidenceIsOfTheseBytes
  <2>2. CASE ~(r.producer = "none" /\ declaration[r.id] # Undeclared)
    BY <2>2 DEF Merged, EvidenceHolds
  <2>3. QED
    BY <2>1, <2>2
<1>8. QED
  BY <1>4, <1>5, <1>6, <1>7 DEF Merged, EvidenceHolds

\* The except clause puts the payloads back as the run found them.
LEMMA RollBackRestores ==
  ASSUME FoundIsKept, pc \in {"check", "open", "write"}, RollBack
  PROVE  files' = before.files
<1>1. CASE created
  <2>1. files' = [files EXCEPT ![request.place] = Absent]
    BY <1>1 DEF RollBack
  <2>2. QED
    BY <1>1, <2>1 DEF FoundIsKept
<1>2. CASE ~created
  BY <1>2 DEF RollBack, FoundIsKept
<1>3. QED
  BY <1>1, <1>2

\* Every step keeps what a run knows.
LEMMA RunStep == ASSUME IInv, RunInv, [Next]_vars PROVE RunInv'
<1> USE DEF RunInv, Busy
<1>0. Types'
  BY InvStep DEF IInv
<1>1. CASE Begin
  <2> PICK r \in Requests :
        /\ request' = r
        /\ IF Content(r.source) # Absent /\ ~broken /\ MayMerge(r) /\ MayPlace(r)
              /\ EvidenceHolds(r)
           THEN /\ pc' \in {"place", "idle"}
                /\ document' = [declaration EXCEPT ![r.id] = Merged(r)]
           ELSE pc' = "failed" /\ UNCHANGED document
    BY <1>1 DEF Begin
  <2>1. /\ UNCHANGED <<declaration, files, save, broken>> /\ created' = FALSE /\ runs' = runs + 1
        /\ pc = "idle" /\ runs < MaxRuns /\ before'.files = files
    BY <1>1 DEF Begin, disk
  <2>2. pc' \in Busy => pc' = "place" /\ ~broken /\ document' = [declaration EXCEPT ![r.id] = Merged(r)]
                        /\ Content(r.source) # Absent /\ MayMerge(r) /\ EvidenceHolds(r)
    OBVIOUS
  <2>3. TypeOK'
    BY <1>0, <2>1, <2>2, RunsAssumption DEF TypeOK, Types
  <2>4. EvidenceIsOfTheseBytes'
    BY <2>1 DEF EvidenceIsOfTheseBytes
  <2>5. DocumentIsMerged'
    <3> SUFFICES ASSUME pc' \in Busy PROVE ClaimsOf(document') /\ KeepsIds(declaration', document')
      BY DEF DocumentIsMerged
    <3>1. /\ Merged(r) # Undeclared
          /\ Merged(r).evidence = "runtime" => Merged(r).sha \in Observed
          /\ Merged(r).producer = "runtime" => Merged(r).sha \in Produced
          /\ declaration[r.id] # Undeclared => declaration[r.id].sha = Merged(r).sha
      BY <2>2, MergedIsHonest
    <3>2. r.id \in Ids /\ document' = [declaration EXCEPT ![r.id] = Merged(r)]
      BY <2>2 DEF Requests
    <3>3. ClaimsOf(document')
      BY <3>1, <3>2 DEF ClaimsOf, EvidenceIsOfTheseBytes, IInv, Types
    <3>4. KeepsIds(declaration', document')
      BY <2>1, <3>1, <3>2 DEF KeepsIds, IInv, Types
    <3>5. QED
      BY <3>3, <3>4
  <2>6. FoundIsKept'
    BY <2>1, <2>2, <1>0 DEF FoundIsKept, Types
  <2>7. QED
    BY <2>3, <2>4, <2>5, <2>6
<1>2. CASE Place \/ Copy \/ CopyFails \/ Check \/ OpenDeclaration \/ WriteFails
  <2>1. UNCHANGED <<declaration, document, save, request, runs, before>> /\ pc \in Busy
    BY <1>2 DEF Place, Copy, CopyFails, Check, OpenDeclaration, WriteFails, run
  <2>2. broken' = broken \/ (broken' = TRUE /\ pc' = "write")
    BY <1>2 DEF Place, Copy, CopyFails, Check, OpenDeclaration, WriteFails
  <2>3. created' = created \/ pc = "copy"
    BY <1>2 DEF Place, Copy, CopyFails, Check, OpenDeclaration, WriteFails, run
  <2>4. pc' \in {"place", "copy", "check", "open"} => pc \in {"place", "copy", "check"}
    BY <1>2 DEF Place, Copy, CopyFails, Check, OpenDeclaration, WriteFails
  <2>5. TypeOK'
    <3>1. created' => request'.place \in Paths
      BY <2>1, <2>3, <1>2 DEF TypeOK, IInv, OnlyOwnIsRemoved, Place, CopyFails, Check, OpenDeclaration,
                         WriteFails
    <3>2. broken' \in BOOLEAN /\ (pc' \in {"place", "copy", "check", "open"} => ~broken')
      <4>1. CASE broken' = broken
        BY <2>4, <4>1 DEF TypeOK
      <4>2. CASE broken' = TRUE /\ pc' = "write"
        BY <4>2
      <4>3. QED
        BY <2>2, <4>1, <4>2
    <3>3. runs' \in 0..MaxRuns /\ request' \in Requests \cup {NoRequest}
      BY <2>1 DEF TypeOK
    <3>4. QED
      BY <1>0, <3>1, <3>2, <3>3 DEF TypeOK, Types
  <2>6. EvidenceIsOfTheseBytes' /\ DocumentIsMerged'
    BY <2>1 DEF EvidenceIsOfTheseBytes, DocumentIsMerged
  <2>7. FoundIsKept'
    <3>1. CASE Place
      BY <2>1, <3>1 DEF Place, FoundIsKept, IInv, Types, OnlyOwnIsRemoved, Requests
    <3>2. CASE Copy
      BY <2>1, <3>2 DEF Copy, FoundIsKept
    <3>3. CASE CopyFails
      BY <2>1, <3>3 DEF CopyFails, FoundIsKept
    <3>4. CASE Check
      <4>1. CASE PayloadsMatch(document)
        BY <2>1, <3>4, <4>1 DEF Check, FoundIsKept, run
      <4>2. CASE ~PayloadsMatch(document)
        BY <2>1, <3>4, <4>2, RollBackRestores DEF Check, FoundIsKept
      <4>3. QED
        BY <4>1, <4>2
    <3>5. CASE OpenDeclaration
      BY <2>1, <3>5 DEF OpenDeclaration, FoundIsKept, run
    <3>6. CASE WriteFails
      BY <2>1, <3>6, RollBackRestores DEF WriteFails, FoundIsKept
    <3>7. QED
      BY <1>2, <3>1, <3>2, <3>3, <3>4, <3>5, <3>6
  <2>8. QED
    BY <2>5, <2>6, <2>7
<1>3. CASE WriteDeclaration
  <2>1. /\ pc = "write" /\ pc' = "idle" /\ declaration' = document /\ broken' = FALSE
        /\ UNCHANGED <<files, save, runs, request, document, created, before>>
    BY <1>3 DEF WriteDeclaration, run
  <2>2. TypeOK'
    <3>1. created' => request'.place \in Paths
      BY <2>1 DEF TypeOK
    <3>2. runs' \in 0..MaxRuns /\ request' \in Requests \cup {NoRequest}
      BY <2>1 DEF TypeOK
    <3>3. QED
      BY <1>0, <2>1, <3>1, <3>2 DEF TypeOK, Types
  <2>3. EvidenceIsOfTheseBytes'
    BY <2>1 DEF DocumentIsMerged, ClaimsOf, EvidenceIsOfTheseBytes
  <2>4. QED
    BY <2>1, <2>2, <2>3 DEF DocumentIsMerged, FoundIsKept
<1>4. CASE Crash \/ Report \/ SaveChanges \/ Restore \/ UNCHANGED vars
  <2>1. UNCHANGED <<declaration, files, runs, request, document, created, before>>
    BY <1>4 DEF Crash, Report, SaveChanges, Restore, vars, run, disk
  <2>2. (pc' = pc \/ pc' = "idle") /\ (broken' = broken \/ broken' = FALSE)
    BY <1>4 DEF Crash, Report, SaveChanges, Restore, vars, run, disk
  <2>3. TypeOK'
    <3>1. created' => request'.place \in Paths
      BY <2>1 DEF TypeOK
    <3>2. runs' \in 0..MaxRuns /\ request' \in Requests \cup {NoRequest}
      BY <2>1 DEF TypeOK
    <3>3. broken' \in BOOLEAN /\ (pc' \in {"place", "copy", "check", "open"} => ~broken')
      <4>1. CASE broken' = broken
        BY <2>2, <4>1 DEF TypeOK
      <4>2. CASE broken' = FALSE
        BY <4>2
      <4>3. QED
        BY <2>2, <4>1, <4>2
    <3>4. QED
      BY <1>0, <3>1, <3>2, <3>3 DEF TypeOK, Types
  <2>4. QED
    BY <2>1, <2>2, <2>3 DEF EvidenceIsOfTheseBytes, DocumentIsMerged, FoundIsKept
<1>5. CASE \E p \in Paths : RemoveStray(p)
  <2>1. /\ UNCHANGED <<declaration, broken, runs, request, document, created, before>>
        /\ pc = "idle" /\ pc' = pc
    BY <1>5 DEF RemoveStray, run
  <2>2. TypeOK'
    BY <1>0, <2>1 DEF TypeOK, Types
  <2>3. QED
    BY <2>1, <2>2 DEF EvidenceIsOfTheseBytes, DocumentIsMerged, FoundIsKept
<1>6. QED
  BY <1>1, <1>2, <1>3, <1>4, <1>5 DEF Next

\* No step takes an entry's bytes away, or touches a declared place.
LEMMA CommittedStep ==
  ASSUME IInv, RunInv, [Next]_vars
  PROVE  /\ KeepsIds(declaration, declaration')
         /\ \A p \in Paths : Declares(declaration, p) # {} => files'[p] = files[p]
<1>1. KeepsIds(declaration, declaration')
  <2>1. CASE WriteDeclaration
    BY <2>1 DEF WriteDeclaration, RunInv, DocumentIsMerged, Busy
  <2>2. CASE ~WriteDeclaration
    <3>1. declaration' = declaration
      BY <2>2 DEF Next, Begin, Place, Copy, CopyFails, Check, OpenDeclaration, WriteFails, Crash, Report,
                  SaveChanges, Restore, RemoveStray, vars, disk
    <3>2. QED
      BY <3>1 DEF KeepsIds
  <2>3. QED
    BY <2>1, <2>2
<1>2. ASSUME NEW p \in Paths, Declares(declaration, p) # {} PROVE files'[p] = files[p]
  <2> USE <1>2 DEF IInv, Types, OnlyOwnIsRemoved
  <2>1. CASE Begin \/ OpenDeclaration \/ WriteDeclaration \/ Crash \/ Report \/ SaveChanges \/ Restore
             \/ UNCHANGED vars
    BY <2>1 DEF Begin, OpenDeclaration, WriteDeclaration, Crash, Report, SaveChanges, Restore, vars, disk
  <2>2. CASE Place
    <3>1. CASE request.place \in {Operator, request.source} \/ files[request.place] # Absent
      BY <2>2, <3>1 DEF Place
    <3>2. CASE ~(request.place \in {Operator, request.source} \/ files[request.place] # Absent)
      <4>1. request.place \in Paths /\ files[request.place] = Absent
        BY <2>2, <3>2 DEF Place, Requests
      <4>2. Declares(declaration, request.place) = {}
        BY <4>1, EmptyPlaceIsUndeclared
      <4>3. QED
        BY <2>2, <3>2, <4>2 DEF Place
    <3>3. QED
      BY <3>1, <3>2
  <2>3. CASE Copy \/ CopyFails
    BY <2>3 DEF Copy, CopyFails
  <2>4. CASE Check \/ WriteFails
    <3>1. files' = files \/ RollBack
      BY <2>4 DEF Check, WriteFails
    <3>2. QED
      BY <2>4, <3>1 DEF RollBack, Check, WriteFails
  <2>5. CASE \E q \in Paths : RemoveStray(q)
    BY <2>5 DEF RemoveStray
  <2>6. QED
    BY <2>1, <2>2, <2>3, <2>4, <2>5 DEF Next
<1>3. QED
  BY <1>1, <1>2

\* The invariant of the runs, with that of the payloads.
LEMMA RegistryInvariant == Spec => [](IInv /\ RunInv)
<1>1. Init => IInv /\ RunInv
  BY InvInit, RunInit
<1>2. IInv /\ RunInv /\ [Next]_vars => (IInv /\ RunInv)'
  BY InvStep, RunStep
<1>3. QED
  BY <1>1, <1>2, PTL DEF Spec

\* Every variable keeps its type; what a run has created has a place in the
\* repository, and no run goes on from a broken declaration.
THEOREM RegistryTypes == Spec => []TypeOK
<1>1. RunInv => TypeOK
  BY DEF RunInv
<1>2. QED
  BY <1>1, RegistryInvariant, PTL

\* Runtime claims are about the bytes their records describe, also when a
\* replacement carried them over, and a run that failed has put the payloads
\* back (merge_entry, place_payload, the except clause of main).
THEOREM ClaimsAndPayloads == Spec => []ClaimsAndPayloadsKeep
<1>1. RunInv => ClaimsAndPayloadsKeep
  BY DEF RunInv, FoundIsKept, FailureKeepsPayloads, ClaimsAndPayloadsKeep
<1>2. QED
  BY <1>1, RegistryInvariant, PTL

\* No step binds an id to other bytes or touches a committed payload
\* (merge_entry, resolve_destination, the rollback).
THEOREM CommittedForGood == Spec => CommittedStays
<1>1. IInv /\ RunInv /\ [Next]_vars =>
        [\A i \in Ids : declaration[i] # Undeclared
            => declaration'[i] # Undeclared /\ declaration'[i].sha = declaration[i].sha]_vars
  BY CommittedStep DEF KeepsIds
<1>2. IInv /\ RunInv /\ [Next]_vars =>
        [\A p \in Paths : Declares(declaration, p) # {} => files'[p] = files[p]]_vars
  BY CommittedStep
<1>3. QED
  BY <1>1, <1>2, RegistryInvariant, PTL
     DEF Spec, CommittedStays, IdKeepsItsBytes, CommittedPayloadsSurvive
=============================================================================
