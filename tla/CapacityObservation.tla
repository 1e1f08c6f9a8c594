------------------------- MODULE CapacityObservation -------------------------
(***************************************************************************)
(* run_a2_capacity_runtime_observation.py: a range of zero bytes of the    *)
(* executable is watched in the memory of the running game.  Its address   *)
(* there is derived from an anchor elsewhere in the mapping and checked by *)
(* the bytes on both sides of the range, which the file must have nonzero. *)
(* A byte is zero or not; the game may write the range at any time.        *)
(***************************************************************************)
EXTENDS Integers, Sequences, Functions

CONSTANTS Length,        \* of the object's body
          Margin,        \* bytes of the mapping on either side of the body
          Start, Size,   \* the candidate, an offset and a length
          Guard,         \* GUARD_WIDTH
          MaxSamples     \* bound: samples of the window

CapacityAssumption ==
  Length \in Nat /\ Margin \in Nat /\ Start \in Nat /\ Size \in Nat \ {0} /\ Guard \in Nat \ {0}
  /\ MaxSamples \in Nat

Bodies == [0..Length - 1 -> {0, 1}]
Mapping == -Margin..Length + Margin - 1
Mappings == [Mapping -> {0, 1}]
Shifts == -Size..Size      \* how far the derived address may be off

Slice(memory, from, size) == [i \in 0..size - 1 |-> memory[from + i]]
Any(slice) == \E i \in DOMAIN slice : slice[i] # 0

\* A fault: the guards may be zero.
ContractWithoutGuards(body) ==
  /\ ~Any(Slice(body, Start, Size))
  /\ Start >= Guard /\ Start + Size + Guard <= Length

\* static_candidate_contract.
Contract(body) ==
  /\ ~Any(Slice(body, Start, Size))
  /\ Start >= Guard /\ Start + Size + Guard <= Length
  /\ Any(Slice(body, Start - Guard, Guard)) /\ Any(Slice(body, Start + Size, Guard))

\* candidate_host_range: the range lies in the mapping.
HostRange(shift) == Start + shift >= -Margin /\ Start + shift + Size <= Length + Margin

VARIABLES body, memory, shift,   \* the file, the mapping, the error of the address
          pc, samples, dates, date, report,
          differed               \* ghost: a sample was taken of changed memory

vars == <<body, memory, shift, pc, samples, dates, date, report, differed>>

Reports == [differs : BOOLEAN, initiallyNonzero : BOOLEAN]

TypeOK ==
  /\ body \in Bodies /\ memory \in Mappings /\ shift \in Shifts /\ date \in 0..1
  /\ pc \in {"contract", "guards", "initial", "window", "judge", "verify", "passed", "failed"}
  /\ Len(samples) <= MaxSamples + 1 /\ Len(dates) = Len(samples)
  /\ \A i \in DOMAIN samples : samples[i] \in [0..Size - 1 -> {0, 1}]
  /\ report \in Reports \cup {<<>>} /\ differed \in BOOLEAN

\* The game has not written the object.
Unwritten == \A i \in DOMAIN body : memory[i] = body[i]

Init ==
  /\ body \in Bodies /\ memory \in Mappings /\ Unwritten /\ shift \in Shifts
  /\ pc = "contract" /\ samples = << >> /\ dates = << >> /\ date = 0
  /\ report = << >> /\ differed = FALSE
-----------------------------------------------------------------------------
(* Fail stands for the contract's errors and for everything that raises:   *)
(* the launch, the anchor, the record search, a stop, a short read.        *)
Fail == pc' = "failed" /\ UNCHANGED <<samples, dates, report, differed>>

CheckContract ==
  /\ pc = "contract"
  /\ \/ Contract(body) /\ pc' = "guards"
        /\ UNCHANGED <<samples, dates, report, differed>>
     \/ Fail
  /\ UNCHANGED <<body, memory, shift, date>>

\* What lies beside the mapping may be anything, or not be there.
Reads(at, byte) == at \in Mapping => memory[at] = byte

\* validate_runtime_guards.
GuardsMatch ==
  \A i \in 0..Guard - 1 :
       /\ Reads(Start + shift - Guard + i, body[Start - Guard + i])
       /\ Reads(Start + shift + Size + i, body[Start + Size + i])

ValidateGuards ==
  /\ pc = "guards"
  /\ \/ HostRange(shift) /\ GuardsMatch /\ pc' = "initial" /\ UNCHANGED <<samples, dates, report, differed>>
     \/ Fail
  /\ UNCHANGED <<body, memory, shift, date>>

Watched == Slice(memory, Start + shift, Size)

\* coherent_snapshot, before the first one fast-forward is off.
Sample ==
  /\ \/ pc = "initial"
     \/ pc = "window" /\ Len(samples) <= MaxSamples
  /\ \/ /\ samples' = Append(samples, Watched) /\ dates' = Append(dates, date)
        /\ differed' = (differed \/ (samples # << >> /\ samples[1] # Watched))
        /\ pc' = "window" /\ UNCHANGED report
     \/ Fail
  /\ UNCHANGED <<body, memory, shift, date>>

\* The deadline may have passed before the first sample of the window.
CloseWindow ==
  /\ pc = "window" /\ pc' = "judge"
  /\ UNCHANGED <<body, memory, shift, samples, dates, date, report, differed>>

\* A fault: the last sample is compared with the first.
SummaryOfLast ==
  [differs |-> samples[Len(samples)] # samples[1], initiallyNonzero |-> Any(samples[1])]

\* summarize_snapshots.
Summary ==
  [differs |-> \E i \in DOMAIN samples : samples[i] # samples[1],
   initiallyNonzero |-> Any(samples[1])]

\* A fault: the date need not advance.
JudgeAnyDate ==
  /\ pc = "judge" /\ report' = Summary /\ pc' = "verify"
  /\ UNCHANGED <<body, memory, shift, samples, dates, date, differed>>

Judge ==
  /\ pc = "judge"
  /\ IF dates[Len(dates)] > dates[1]
     THEN report' = Summary /\ pc' = "verify" /\ UNCHANGED <<samples, dates, differed>>
     ELSE Fail
  /\ UNCHANGED <<body, memory, shift, date>>

\* verify_runtime_input once more.
VerifyAgain ==
  /\ pc = "verify"
  /\ \/ pc' = "passed" /\ UNCHANGED <<samples, dates, report, differed>>
     \/ Fail
  /\ UNCHANGED <<body, memory, shift, date>>

\* The game writes data, before or after a turn; code and guards are not written.
GameWrites ==
  /\ pc \in {"guards", "initial", "window"}
  /\ \E i \in Start..Start + Size - 1 : memory' = [memory EXCEPT ![i] = 1 - @]
  /\ UNCHANGED <<body, shift, pc, samples, dates, date, report, differed>>

TurnEnds ==
  /\ pc = "window" /\ date = 0 /\ date' = 1
  /\ UNCHANGED <<body, memory, shift, pc, samples, dates, report, differed>>

Next ==
  \/ CheckContract \/ ValidateGuards \/ Sample \/ CloseWindow \/ Judge \/ VerifyAgain
  \/ GameWrites \/ TurnEnds

Spec == Init /\ [][Next]_vars
-----------------------------------------------------------------------------
(***************************************************************************)
(* The guards pin the address: while the game has not written the range,   *)
(* no address that is off by at most the range's length passes them        *)
(* (static_candidate_contract, validate_runtime_guards).                   *)
(***************************************************************************)
GuardsPinTheRange ==
  pc = "guards" /\ Unwritten /\ GuardsMatch => shift = 0

(***************************************************************************)
(* A passing run that reports no change has taken a later sample, at a     *)
(* later date, and never one of changed memory, also when the game put the *)
(* old bytes back before the end (run_observation, summarize_snapshots).   *)
(***************************************************************************)
NoSeenChangeIsLost ==
  pc = "passed" =>
    /\ differed => report.differs
    /\ Len(samples) > 1 /\ \E i \in DOMAIN dates : dates[i] # dates[1]
=============================================================================
