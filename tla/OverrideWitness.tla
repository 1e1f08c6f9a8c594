---------------------------- MODULE OverrideWitness ----------------------------
(***************************************************************************)
(* run_re5_override_witness.py: a variable of the game, found through an   *)
(* instruction and its relocation, is watched for a window; the witness    *)
(* says that it stayed clear.  The runner samples when it gets to it: the  *)
(* clock runs on between two samples.                                      *)
(***************************************************************************)
EXTENDS Integers, Sequences, SequencesExt

CONSTANTS Window,      \* WINDOW_SECONDS, in clock ticks
          Horizon,     \* bound: clock ticks from the click to the end of the run
          Interval,    \* SAMPLE_INTERVAL_SECONDS
          MinSamples, MaxGap, MinDelta

WitnessAssumption ==
  /\ Window \in Nat /\ Horizon \in Nat /\ Interval \in Nat
  /\ MinSamples \in Nat \ {0} /\ MaxGap \in Nat \ {0} /\ MinDelta \in Nat

VARIABLES bias,   \* what each data signature implies of the mapping
          pc, clock, clear, date, dates, result,
          reads, stamps        \* of the samples: when it was taken, and its t_ms

vars == <<bias, pc, clock, clear, date, reads, stamps, dates, result>>

\* Two of the five signatures; each is matched at a set of places, right ones or decoys.
Matches == [{"a", "b"} -> {{}, {"right"}, {"decoy"}, {"right", "decoy"}}]

\* infer_uniform_bias, and the stardate read both ways in resolve_stardate_host.
BiasHolds(hits) == \A s \in DOMAIN hits : hits[s] = {"right"}

TypeOK ==
  /\ bias \in Matches
  /\ pc \in {"launch", "before", "window", "after", "done"}
  /\ clock \in 0..Horizon /\ DOMAIN clear = 0..clock
  /\ reads \in Seq(0..clock) /\ stamps \in Seq(0..clock)
  /\ Len(stamps) \in {Len(reads), Len(reads) - 1} /\ date \in 0..MinDelta /\ dates \in Seq(0..MinDelta)
  /\ result \in {"none", "raised", "failed", "passed"}

Init ==
  /\ bias \in Matches
  /\ pc = "launch" /\ clock = 0 /\ clear \in [0..0 -> BOOLEAN]
  /\ date = 0 /\ reads = << >> /\ stamps = << >> /\ dates = << >> /\ result = "none"

Raise == pc' = "done" /\ result' = "raised"

\* run up to the first sample; wait_window, the anchor, the relation of the instruction to
\* the address (GateRelocation) or the record search may also raise.
Locate ==
  /\ pc = "launch"
  /\ \/ BiasHolds(bias) /\ pc' = "before" /\ UNCHANGED result
     \/ Raise
  /\ UNCHANGED <<bias, clock, clear, date, reads, stamps, dates>>

\* A coherent sample under a stop: the stop itself, or a read, may fail.
SampleBefore ==
  /\ pc = "before"
  /\ \/ pc' = "window" /\ dates' = <<date>> /\ UNCHANGED result
     \/ Raise /\ UNCHANGED dates
  /\ UNCHANGED <<bias, clock, clear, date, reads, stamps>>

\* The loop of the window: the game is stopped, the values are read and it goes on; the
\* time of the sample is taken when it runs again.
ReadInWindow ==
  /\ pc = "window" /\ Len(reads) = Len(stamps) /\ clock < Window
  /\ stamps # << >> => clock >= Last(stamps) + Interval
  /\ \/ reads' = Append(reads, clock) /\ UNCHANGED <<pc, result>>
     \/ Raise /\ UNCHANGED reads
  /\ UNCHANGED <<bias, clock, clear, date, stamps, dates>>

Stamp ==
  /\ pc = "window" /\ Len(reads) = Len(stamps) + 1
  /\ stamps' = Append(stamps, clock)
  /\ UNCHANGED <<bias, pc, clock, clear, date, reads, dates, result>>

\* Time goes by: the watched values change, and so may the game's date.
Tick ==
  /\ pc = "window" /\ clock < Horizon
  /\ clock' = clock + 1
  /\ \E c \in BOOLEAN : clear' = [t \in 0..clock' |-> IF t = clock' THEN c ELSE clear[t]]
  /\ date' \in {date} \cup ({date + 1} \cap 0..MinDelta)
  /\ UNCHANGED <<bias, pc, reads, stamps, dates, result>>

CloseWindow ==
  /\ pc = "window" /\ Len(reads) = Len(stamps) /\ clock >= Window
  /\ stamps # << >> => clock >= Last(stamps) + Interval
  /\ pc' = "after"
  /\ UNCHANGED <<bias, clock, clear, date, reads, stamps, dates, result>>

Gaps == {stamps[k + 1] - stamps[k] : k \in 1..Len(stamps) - 1}

SeenClear == \A t \in ToSet(reads) \cup {0, clock} : clear[t]

\* evaluate. All samples are looked at; before and after are clear[0] and clear[clock].
\* A fault: the gaps are not looked at.
EvaluatesAnyGap ==
  Len(stamps) >= MinSamples /\ date - dates[1] >= MinDelta /\ SeenClear

Evaluates ==
  /\ Len(stamps) >= MinSamples
  /\ \A g \in Gaps : g <= MaxGap
  /\ date - dates[1] >= MinDelta
  /\ SeenClear

SampleAfter ==
  /\ pc = "after"
  /\ \/ /\ stamps # << >>
        /\ pc' = "done" /\ result' = (IF Evaluates THEN "passed" ELSE "failed")
        /\ dates' = Append(dates, date)
     \/ Raise /\ UNCHANGED dates
  /\ UNCHANGED <<bias, clock, clear, date, reads, stamps>>

Next ==
  Locate \/ SampleBefore \/ ReadInWindow \/ Stamp \/ Tick \/ CloseWindow \/ SampleAfter

Spec == Init /\ [][Next]_vars
-----------------------------------------------------------------------------
(***************************************************************************)
(* evaluate bounds the gaps between the stamps, and a stamp is taken when  *)
(* the game runs again: two reads may be farther apart than the bound.     *)
(* What a passing run does exclude, from its second read to its last, is a *)
(* pulse of twice the bound less the sleep between two samples, since      *)
(* every read lies between its own stamp and the one before.               *)
(***************************************************************************)
NoLongPulseIsMissed ==
  result = "passed" =>
    \A i \in 0..clock : \A j \in i..clock :
      /\ j - i + 1 >= 2 * MaxGap - Interval
      /\ Len(reads) >= 2 /\ reads[2] < i /\ j < Last(reads)
      => \E t \in i..j : clear[t]
=============================================================================
