----------------------------- MODULE TargetFetch -----------------------------
(***************************************************************************)
(* tools/fetch_free_targets.py: each entry of the manifest is downloaded,  *)
(* checked against its pins, written beside its output and moved over it.  *)
(* Invocations share the directory, and may fail to write or be killed.    *)
(***************************************************************************)
EXTENDS Naturals

CONSTANTS Invocations,
          Last,          \* the number of entries, processed in order
          Sources,       \* the number of sources of an entry
          None,
          MaxStarts      \* bound: invocations started

Entries == 1..Last
Members == {"good", "bad"}                 \* what a source delivers, if it does
Modes == {"fetch", "force", "verify"}      \* no option, --force, --verify
Contents == Members \cup {"torn", "old"}   \* "old" is a file nobody fetched

\* None is no content of a file.
FetchAssumption ==
  /\ Last \in Nat \ {0} /\ Sources \in Nat \ {0} /\ MaxStarts \in Nat
  /\ None \notin Contents

VARIABLES output, part,     \* the files of each entry
          pc, entry, tried, member, failed, mode, raising, exit,  \* of each invocation
          at,               \* the name its open file has now
          starts

files == <<output, part>>
vars == <<files, pc, entry, tried, member, failed, mode, raising, exit, at, starts>>

TypeOK ==
  /\ output \in [Entries -> Contents \cup {None}] /\ part \in [Entries -> Contents \cup {None}]
  /\ pc \in [Invocations -> {"idle", "check", "download", "open", "write", "replace", "unlink"}]
  /\ entry \in [Invocations -> Entries] /\ tried \in [Invocations -> 0..Sources]
  /\ member \in [Invocations -> Members \cup {None}]
  /\ failed \in [Invocations -> BOOLEAN] /\ mode \in [Invocations -> Modes]
  /\ raising \in [Invocations -> BOOLEAN]
  /\ exit \in [Invocations -> {"none", "success", "failure", "raised", "killed"}]
  /\ at \in [Invocations -> {"part", "output", "gone"}] /\ starts \in 0..MaxStarts

Init ==
  /\ output \in [Entries -> {None, "old"}] /\ part = [e \in Entries |-> None]
  /\ pc = [p \in Invocations |-> "idle"] /\ entry = [p \in Invocations |-> 1]
  /\ tried = [p \in Invocations |-> 0] /\ member = [p \in Invocations |-> None]
  /\ failed = [p \in Invocations |-> FALSE] /\ raising = failed
  /\ mode = [p \in Invocations |-> "fetch"]
  /\ exit = [p \in Invocations |-> "none"] /\ at = [p \in Invocations |-> "gone"]
  /\ starts = 0

Goto(p, place) == pc' = [pc EXCEPT ![p] = place]

\* main: resolve_dest, select_entries and select_source have accepted the request.
Start(p) ==
  /\ pc[p] = "idle" /\ starts < MaxStarts /\ starts' = starts + 1
  /\ Goto(p, "check") /\ exit' = [exit EXCEPT ![p] = "none"]
  /\ entry' = [entry EXCEPT ![p] = 1] /\ failed' = [failed EXCEPT ![p] = FALSE]
  /\ tried' = [tried EXCEPT ![p] = 0]
  /\ raising' = [raising EXCEPT ![p] = FALSE]
  /\ \E m \in Modes : mode' = [mode EXCEPT ![p] = m]
  /\ UNCHANGED <<files, member, at>>

\* A fault: only the last entry decides.
EndEntryForgets(p, fails) ==
  /\ failed' = [failed EXCEPT ![p] = fails]
  /\ tried' = [tried EXCEPT ![p] = 0]
  /\ IF entry[p] < Last
     THEN Goto(p, "check") /\ entry' = [entry EXCEPT ![p] = @ + 1] /\ UNCHANGED exit
     ELSE /\ Goto(p, "idle") /\ UNCHANGED entry
          /\ exit' = [exit EXCEPT ![p] = IF failed'[p] THEN "failure" ELSE "success"]

\* The loop of main; after the last entry its verdict.
EndEntry(p, fails) ==
  /\ failed' = [failed EXCEPT ![p] = @ \/ fails]
  /\ tried' = [tried EXCEPT ![p] = 0]
  /\ IF entry[p] < Last
     THEN Goto(p, "check") /\ entry' = [entry EXCEPT ![p] = @ + 1] /\ UNCHANGED exit
     ELSE /\ Goto(p, "idle") /\ UNCHANGED entry
          /\ exit' = [exit EXCEPT ![p] = IF failed'[p] THEN "failure" ELSE "success"]

\* A fault: any file that is there may be replaced.
RefusesNothing(p) == FALSE

\* fetch_entry's first test.
Refuses(p) == output[entry[p]] \notin {None, "good"} /\ mode[p] # "force"

Check(p) ==
  /\ pc[p] = "check" /\ mode[p] # "verify"
  /\ IF output[entry[p]] = "good" THEN EndEntry(p, FALSE)
     ELSE IF Refuses(p) THEN EndEntry(p, TRUE)
     ELSE Goto(p, "download") /\ UNCHANGED <<entry, tried, failed, exit>>
  /\ UNCHANGED <<files, member, mode, raising, at, starts>>

\* verify_entry.
Verify(p) ==
  /\ pc[p] = "check" /\ mode[p] = "verify"
  /\ EndEntry(p, output[entry[p]] # "good")
  /\ UNCHANGED <<files, member, mode, raising, at, starts>>

\* A fault: the member is not checked once the archive is.
PinnedArchive(m) == m \in Members

\* download, extract_member, and the four pins.
Pinned(m) == m = "good"

\* The sources in turn: one may not answer, or deliver something else.
Download(p) ==
  /\ pc[p] = "download"
  /\ \/ /\ tried[p] < Sources
        /\ \E m \in Members :
             IF Pinned(m)
             THEN /\ member' = [member EXCEPT ![p] = m] /\ Goto(p, "open")
                  /\ UNCHANGED tried
             ELSE tried' = [tried EXCEPT ![p] = @ + 1] /\ UNCHANGED <<member, pc>>
        /\ UNCHANGED <<entry, failed, exit>>
     \/ tried[p] = Sources /\ EndEntry(p, TRUE) /\ UNCHANGED member
  /\ UNCHANGED <<files, mode, raising, at, starts>>

\* write_bytes empties the .part that is there, whoever writes it.
Open(p) ==
  /\ pc[p] = "open"
  /\ \/ /\ part' = [part EXCEPT ![entry[p]] = "torn"] /\ at' = [at EXCEPT ![p] = "part"]
        /\ Goto(p, "write") /\ UNCHANGED raising
     \/ Goto(p, "unlink") /\ raising' = [raising EXCEPT ![p] = TRUE] /\ UNCHANGED <<part, at>>
  /\ UNCHANGED <<output, entry, tried, member, failed, mode, exit, starts>>

Write(p) ==
  /\ pc[p] = "write"
  /\ \/ /\ Goto(p, "replace") /\ UNCHANGED raising
        /\ part' = IF at[p] = "part" THEN [part EXCEPT ![entry[p]] = member[p]] ELSE part
        /\ output' = IF at[p] = "output" THEN [output EXCEPT ![entry[p]] = member[p]] ELSE output
     \/ Goto(p, "unlink") /\ raising' = [raising EXCEPT ![p] = TRUE] /\ UNCHANGED files
  /\ UNCHANGED <<entry, tried, member, failed, mode, exit, at, starts>>

\* Whoever still has the moved or unlinked file open keeps it.
Renamed(e) ==
  [q \in Invocations |->
     IF pc[q] # "write" \/ entry[q] # e THEN at[q]
     ELSE IF at[q] = "part" THEN "output" ELSE "gone"]

\* os.replace raises when there is no .part.
Replace(p) ==
  /\ pc[p] = "replace" /\ Goto(p, "unlink")
  /\ LET e == entry[p]
     IN  IF part[e] = None
         THEN raising' = [raising EXCEPT ![p] = TRUE] /\ UNCHANGED <<files, at>>
         ELSE /\ output' = [output EXCEPT ![e] = part[e]] /\ part' = [part EXCEPT ![e] = None]
              /\ at' = Renamed(e) /\ UNCHANGED raising
  /\ UNCHANGED <<entry, tried, member, failed, mode, exit, starts>>

\* An OSError is no FetchError: it leaves main, whatever entries remain.
Unlink(p) ==
  /\ pc[p] = "unlink"
  /\ part' = [part EXCEPT ![entry[p]] = None]
  /\ at' = [q \in Invocations |-> IF pc[q] = "write" /\ entry[q] = entry[p] /\ at[q] = "part"
                                  THEN "gone" ELSE at[q]]
  /\ IF raising[p]
     THEN /\ Goto(p, "idle") /\ exit' = [exit EXCEPT ![p] = "raised"]
          /\ UNCHANGED <<entry, tried, failed>>
     ELSE EndEntry(p, FALSE)
  /\ UNCHANGED <<output, member, mode, raising, starts>>

Kill(p) ==
  /\ pc[p] # "idle" /\ Goto(p, "idle") /\ exit' = [exit EXCEPT ![p] = "killed"]
  /\ UNCHANGED <<files, entry, tried, member, failed, mode, raising, at, starts>>

Works(p) == Check(p) \/ Verify(p) \/ Download(p) \/ Open(p) \/ Write(p) \/ Replace(p) \/ Unlink(p)

Next == \E p \in Invocations : Start(p) \/ Works(p) \/ Kill(p)

Spec == Init /\ [][Next]_vars
-----------------------------------------------------------------------------
(***************************************************************************)
(* A file at an output's name has the pinned bytes or was there before     *)
(* (fetch_entry), through failed writes and kills.  It holds for one       *)
(* invocation at a time: two share the name of the .part.                  *)
(***************************************************************************)
OutputsArePinned == \A e \in Entries : output[e] \in {None, "old", "good"}

(***************************************************************************)
(* An invocation that reports success leaves every entry pinned: no entry  *)
(* that failed, and none skipped by an exception, is counted as verified   *)
(* (main).                                                                 *)
(***************************************************************************)
SuccessMeansAll ==
  \A p \in Invocations : exit[p] = "success" => \A e \in Entries : output[e] = "good"

(***************************************************************************)
(* A file nobody fetched is replaced only by an invocation with --force,   *)
(* and a pinned one is never lost (fetch_entry).                           *)
(***************************************************************************)
KeepsWhatIsThere ==
  [][\A e \in Entries :
       output'[e] # output[e] =>
         /\ output[e] # "good"
         /\ output[e] = "old" => \E p \in Invocations : pc[p] = "replace" /\ mode[p] = "force"]_vars
=============================================================================
