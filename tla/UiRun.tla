-------------------------------- MODULE UiRun --------------------------------
(***************************************************************************)
(* run_cf4_ui_validation.py: a script of waits, input and captures is      *)
(* played to the game under one deadline.  Captured frames are compared    *)
(* with pinned regions and with each other, and whatever happens the game  *)
(* and its display are stopped and run.json is written.  The game shows    *)
(* one of two screens, as it likes; helpers take time of their own.        *)
(***************************************************************************)
EXTENDS Integers, Sequences, FiniteSets, SequencesExt

CONSTANTS MaxRuntime,   \* max_runtime_seconds, in units of the default settle time
          MaxLength     \* bound: steps of a script

UiAssumption == MaxRuntime \in Nat \ {0} /\ MaxLength \in Nat

Default == -1   \* no settle_seconds
DefaultSettle == 1
ChordSettle == 1
XvfbSettle == 1
ClickSleep == 1   \* between press and release of a button, in XTestInput.click

Waits == [action : {"wait"}, seconds : {0, 2}]
Inputs == [action : {"input"}, seconds : {Default, 0}]    \* mouse_move, key_chord
Clicks == [action : {"click"}, seconds : {Default, 0}]    \* click, mouse_capture
Captures == [action : {"capture"}, oracle : BOOLEAN, change : BOOLEAN]
Scripts == [startup : {0, 1}, chords : {0, 1},
            steps : UNION {[1..n -> Waits \cup Inputs \cup Clicks \cup Captures] : n \in 1..MaxLength}]

Seconds(step) == IF step.seconds = Default THEN DefaultSettle ELSE step.seconds

Captured(script) == {i \in DOMAIN script.steps : script.steps[i].action = "capture"}
Clicked(script) == {i \in DOMAIN script.steps : script.steps[i].action = "click"}

\* The number of the frame that a capture at step i adds: capture_steps[Frame - 1].
Frame(script, i) == Cardinality({j \in Captured(script) : j <= i})

\* The sum of the first n of the numbers f.
Total(f, n) ==
  LET sum[k \in Nat] == IF k = 0 THEN 0 ELSE sum[k - 1] + f[k]
  IN  sum[n]

\* A fault: a settle time that is not given counts as none.
EstimatedWithoutDefaults(script) ==
  LET sleeps == [i \in DOMAIN script.steps |->
                   IF i \in Captured(script) \/ script.steps[i].seconds = Default THEN 0
                   ELSE script.steps[i].seconds]
  IN  script.startup + ChordSettle * script.chords + Total(sleeps, Len(script.steps))

Sleeping(script) ==
  [i \in DOMAIN script.steps |-> IF i \in Captured(script) THEN 0 ELSE Seconds(script.steps[i])]

Estimated(script) ==
  script.startup + ChordSettle * script.chords + Total(Sleeping(script), Len(script.steps))

\* load_actions, which does not count the sleep inside a click: what it asks of a script as a whole.
Loads(script) ==
  /\ Cardinality(Captured(script)) >= 2
  /\ \A i \in Captured(script) : script.steps[i].change => Frame(script, i) > 1
  /\ \E i \in Captured(script) : script.steps[i].oracle
  /\ Estimated(script) < MaxRuntime

VARIABLES script, screen, pc, next, clock, frames, failure, status,
          game, pipe, xvfb,   \* DOSBox, a holder of its pipes, the X server
          report,             \* run.json
          own                 \* ghost: time spent in helpers and the copy

vars == <<script, screen, pc, next, clock, frames, failure, status, game, pipe, xvfb, report, own>>
processes == <<game, pipe, xvfb>>

Places == {"setup", "display", "window", "chords", "geometry", "startup", "steps", "ratios",
           "complete", "terminate", "collect", "report", "done"}

TypeOK ==
  /\ script \in Scripts /\ screen \in {"pinned", "other"} /\ pc \in Places
  /\ next \in 1..MaxLength + 1 /\ clock \in 0..MaxRuntime /\ own \in 0..clock
  /\ Len(frames) <= MaxLength /\ ToSet(frames) \subseteq {"pinned", "other"}
  /\ failure \in {"none", "deadline", "error"} /\ status \in {"failed", "passed"}
  /\ game \in {"none", "running", "gone"} /\ pipe \in BOOLEAN /\ xvfb \in BOOLEAN
  /\ report \in {"none", "failed", "passed"}

Init ==
  /\ script \in {s \in Scripts : Loads(s)} /\ screen \in {"pinned", "other"}
  /\ pc = "setup" /\ next = 1 /\ clock = 0 /\ own = 0 /\ frames = << >>
  /\ failure = "none" /\ status = "failed"
  /\ game = "none" /\ pipe = FALSE /\ xvfb = FALSE /\ report = "none"
-----------------------------------------------------------------------------
(* Time.  A sleep is refused when it would pass the deadline, a helper has *)
(* what is left as its timeout; the press of a button is neither.          *)

Raise(why) == pc' = "terminate" /\ failure' = why /\ UNCHANGED <<next, frames, status>>
Go(place) == pc' = place /\ UNCHANGED <<failure, status>>

\* A fault: the deadline is looked at after the sleep only.
SleepsPast(now, seconds) == seconds > 0 => now <= MaxRuntime

Sleeps(now, seconds) == seconds > 0 => now + seconds <= MaxRuntime

\* A step that does no more than press for a time and then sleep as declared.
Sleep(pressed, seconds, place) ==
  /\ IF Sleeps(clock + pressed, seconds)
     THEN clock' = clock + pressed + seconds /\ pc' = place /\ UNCHANGED failure
     ELSE clock' = clock + pressed /\ pc' = "terminate" /\ failure' = "deadline"
  /\ UNCHANGED <<frames, status, own>>

\* _remaining, then a helper that takes its time; it may fail, or reach its timeout.
Helper(Then) ==
  IF clock = MaxRuntime THEN Raise("deadline") /\ UNCHANGED <<clock, own>>
  ELSE \E e \in {0, 1} :
         /\ clock' = clock + e /\ own' = own + e
         /\ \/ Then
            \/ Raise(IF clock' = MaxRuntime THEN "deadline" ELSE "error")
-----------------------------------------------------------------------------
(* The runner. *)

\* The copy of the tree and the hash of the copied executable, on the clock but under no
\* deadline: they take any time, up to all there is.
Setup ==
  /\ pc = "setup"
  /\ \E e \in 0..MaxRuntime : clock' = clock + e /\ own' = own + e
  /\ Raise("error") \/ (Go("display") /\ UNCHANGED <<next, frames>>)
  /\ UNCHANGED <<script, screen, processes, report>>

\* Xvfb is started and given time; it may be gone by then, and DOSBox may not start.
StartDisplay ==
  /\ pc = "display" /\ UNCHANGED own
  /\ \/ Raise("error") /\ UNCHANGED <<clock, processes>>
     \/ /\ ~Sleeps(clock, XvfbSettle) /\ Raise("deadline")
        /\ xvfb' \in BOOLEAN /\ UNCHANGED <<clock, game, pipe>>
     \/ /\ Sleeps(clock, XvfbSettle) /\ clock' = clock + XvfbSettle
        /\ \/ xvfb' \in BOOLEAN /\ Raise("error") /\ UNCHANGED <<game, pipe>>
           \/ /\ xvfb' = TRUE /\ game' = "running" /\ pipe' = TRUE
              /\ Go("window") /\ UNCHANGED <<next, frames>>
  /\ UNCHANGED <<script, screen, report>>

\* find_dosbox_window, then wait_for_window_geometry after the first keys.
FindWindow ==
  /\ pc \in {"window", "geometry"}
  /\ Helper(/\ game = "running" /\ Go(IF pc = "window" THEN "chords" ELSE "startup")
            /\ UNCHANGED <<next, frames>>)
  /\ UNCHANGED <<script, screen, processes, report>>

\* The keys may have names X does not know.
PreVideo ==
  /\ pc = "chords"
  /\ \/ Sleep(0, ChordSettle * script.chords, "geometry") /\ UNCHANGED next
     \/ script.chords > 0 /\ Raise("error") /\ UNCHANGED <<clock, own>>
  /\ UNCHANGED <<script, screen, processes, report>>

StartupWait ==
  /\ pc = "startup"
  /\ \/ game = "running" /\ Sleep(0, script.startup, "steps") /\ next' = next
     \/ game # "running" /\ Raise("error") /\ UNCHANGED <<clock, own>>
  /\ UNCHANGED <<script, screen, processes, report>>

Current == script.steps[next]
AfterStep == IF next = Len(script.steps) THEN "ratios" ELSE "steps"

Pressed(step) == IF step.action = "click" THEN ClickSleep ELSE 0

WaitOrInput ==
  /\ pc = "steps" /\ Current.action # "capture"
  /\ \/ clock = MaxRuntime /\ Raise("deadline") /\ UNCHANGED <<clock, own>>
     \/ clock < MaxRuntime /\ (game # "running" \/ Current.action = "input")
        /\ Raise("error") /\ UNCHANGED <<clock, own>>
     \/ /\ clock < MaxRuntime /\ game = "running"
        /\ Sleep(Pressed(Current), Seconds(Current), AfterStep) /\ next' = next + 1
  /\ UNCHANGED <<script, screen, processes, report>>

\* capture_frame and verify_frame_oracles: the frame stays, also if its oracle fails.
Capture ==
  /\ pc = "steps" /\ Current.action = "capture"
  /\ Helper(/\ game = "running" /\ frames' = Append(frames, screen)
            /\ IF Current.oracle /\ screen # "pinned"
               THEN pc' = "terminate" /\ failure' = "error" /\ UNCHANGED <<next, status>>
               ELSE Go(AfterStep) /\ next' = next + 1)
  /\ UNCHANGED <<script, screen, processes, report>>

Changes(i) == frames[i] # frames[i - 1]

Threshold(i) == script.steps[i].change

\* A fault: the threshold is taken from the capture before.
EnoughChangeShifted ==
  \A i \in Captured(script) :
    Threshold(i) /\ Frame(script, i) < Len(frames) => Changes(Frame(script, i) + 1)

\* frame_change_ratio of each pair, against the threshold of its second capture.
EnoughChange ==
  \A i \in Captured(script) :
    Threshold(i) /\ Frame(script, i) > 1 => Changes(Frame(script, i))

CompareFrames ==
  /\ pc = "ratios"
  /\ Helper(EnoughChange /\ Go("complete") /\ UNCHANGED <<next, frames>>)
  /\ UNCHANGED <<script, screen, processes, report>>

Complete ==
  /\ pc = "complete" /\ UNCHANGED <<clock, own, next, frames>>
  /\ IF clock = MaxRuntime
     THEN pc' = "terminate" /\ failure' = "deadline" /\ UNCHANGED status
     ELSE pc' = "terminate" /\ status' = "passed" /\ UNCHANGED failure
  /\ UNCHANGED <<script, screen, processes, report>>

\* A fault: a game that does not take SIGTERM is left alone.
TerminateOnly ==
  /\ pc = "terminate" /\ pc' = "collect"
  /\ game' \in (IF game = "running" THEN {"running", "gone"} ELSE {game})
  /\ UNCHANGED <<script, screen, next, clock, frames, failure, status, pipe, xvfb, report, own>>

\* terminate, wait, kill.
Terminate ==
  /\ pc = "terminate" /\ pc' = "collect"
  /\ game' = IF game = "none" THEN "none" ELSE "gone"
  /\ UNCHANGED <<script, screen, next, clock, frames, failure, status, pipe, xvfb, report, own>>

\* communicate, which waits for the pipes; then the display goes.
Collect ==
  /\ pc = "collect" /\ game # "running" /\ ~pipe
  /\ pc' = "report" /\ xvfb' = FALSE
  /\ UNCHANGED <<script, screen, next, clock, frames, failure, status, game, pipe, report, own>>

\* The logs and run.json; a failed write leaves main by its exception.
Report ==
  /\ pc = "report" /\ pc' = "done" /\ report' \in {"none", status}
  /\ UNCHANGED <<script, screen, next, clock, frames, failure, status, processes, own>>

Runner ==
  \/ Setup \/ StartDisplay \/ FindWindow \/ PreVideo \/ StartupWait \/ WaitOrInput
  \/ Capture \/ CompareFrames \/ Complete \/ Terminate \/ Collect \/ Report
-----------------------------------------------------------------------------
(* The game and what it started. *)

Shows ==
  /\ game = "running" /\ pc \in {"steps", "startup"}
  /\ screen' = (IF screen = "pinned" THEN "other" ELSE "pinned")
  /\ UNCHANGED <<script, pc, next, clock, frames, failure, status, processes, report, own>>

GameExits ==
  /\ game = "running" /\ game' = "gone"
  /\ UNCHANGED <<script, screen, pc, next, clock, frames, failure, status, pipe, xvfb, report, own>>

\* Whoever held the pipes beside the game closes them.
PipesClose ==
  /\ game = "gone" /\ pipe /\ pipe' = FALSE
  /\ UNCHANGED <<script, screen, pc, next, clock, frames, failure, status, game, xvfb, report, own>>

Next == Runner \/ Shows \/ GameExits \/ PipesClose

\* The runner's loop runs on; whoever inherited the pipes closes them some day.
Spec == Init /\ [][Next]_vars /\ WF_vars(Runner) /\ WF_vars(PipesClose)
-----------------------------------------------------------------------------
(***************************************************************************)
(* A run passes only when every capture of its script was taken, in time,  *)
(* showed the pinned screen where the script pins it, and changed from its *)
(* predecessor where the script asks for that (main).                      *)
(***************************************************************************)
PassedAsScripted ==
  status = "passed" =>
    /\ Len(frames) = Cardinality(Captured(script)) /\ clock < MaxRuntime
    /\ \A i \in Captured(script) :
         LET f == Frame(script, i)
         IN  /\ script.steps[i].oracle => frames[f] = "pinned"
             /\ script.steps[i].change => f > 1 /\ frames[f] # frames[f - 1]

Declared ==
  script.startup + ChordSettle * script.chords
  + Total([i \in DOMAIN script.steps |-> IF script.steps[i].action = "capture" THEN 0
                                         ELSE Seconds(script.steps[i])], Len(script.steps))

(***************************************************************************)
(* load_actions counts every declared wait as main will sleep it, so that  *)
(* the waits of an accepted script fit into its budget.  It counts neither *)
(* the settle time of Xvfb nor the time each click holds its button: the   *)
(* deadline stops an accepted script only when these use up what the       *)
(* declared waits leave, or when helpers and the copy take time.           *)
(***************************************************************************)
DeclaredWaitsFit ==
  /\ Declared < MaxRuntime
  /\ failure = "deadline" =>
       \/ own > 0
       \/ Declared + XvfbSettle + ClickSleep * Cardinality(Clicked(script)) >= MaxRuntime

\* The end of main, reached with nothing left running.
Stopped == pc = "done" /\ game # "running" /\ ~xvfb
=============================================================================
