----------------------------- MODULE TurnEvidence -----------------------------
(***************************************************************************)
(* main of run_re5_runtime_turn_path.py over many invocations: focused     *)
(* runs leave one artifact per scenario, and the invocation that finds all *)
(* of them aggregates them into one piece of evidence.  Runs are made      *)
(* with different windows, planets and trees, and some artifacts were      *)
(* left by an older contract of the experiment or an older version of the  *)
(* code, whose oracle passed what the current one refuses.                 *)
(***************************************************************************)
CONSTANTS Focused,   \* the scenarios
          None       \* no file

\* An artifact differs from the usual run in one thing at most.
Usual == [contract |-> "v2", planet |-> "p", window |-> "w", tree |-> "t", status |-> "passed",
          valid |-> TRUE]

Results == {Usual, [Usual EXCEPT !.planet = "q"], [Usual EXCEPT !.window = "u"],
            [Usual EXCEPT !.tree = "s"], [Usual EXCEPT !.status = "failed"]}

\* Of another contract, with a trace that validate_scenario refuses today, or with no planet.
Older == {[Usual EXCEPT !.contract = "v1"], [Usual EXCEPT !.valid = FALSE],
          [Usual EXCEPT !.planet = "none"]}

VARIABLES artifacts,   \* run-<scenario>.json
          aggregate,   \* run-aggregate.json: the results it was made of, or None
          exit,        \* how the last invocation ended: "none", "ok", "failed", "raised"
          latest       \* what the last invocation ran: a scenario, "all" or None

vars == <<artifacts, aggregate, exit, latest>>

TypeOK ==
  /\ artifacts \in [Focused -> Results \cup Older \cup {None}]
  /\ aggregate \in [Focused -> Results] \cup {None}
  /\ exit \in {"none", "ok", "failed", "raised"}
  /\ latest \in Focused \cup {"all", None}

Init ==
  /\ artifacts \in [Focused -> Older \cup {None}]
  /\ aggregate = None /\ exit = "none" /\ latest = None

Complete(files) == \A s \in Focused : files[s] # None

\* aggregate_focused_results: every file is of this contract and this tree, has passed, is
\* valid for the current oracle, names a planet, and agrees with the first one on the planet
\* and the window.
OfThisRun(files, tree) ==
  \A s \in Focused :
    /\ files[s].contract = "v2" /\ files[s].status = "passed" /\ files[s].tree = tree
    /\ files[s].valid /\ files[s].planet # "none"

\* A fault: the windows are not compared.
AgreeOnPlanet(files) == \A r, s \in Focused : files[r].planet = files[s].planet

Agree(files) ==
  \A r, s \in Focused : files[r].planet = files[s].planet /\ files[r].window = files[s].window

\* A fault: an aggregate that is there is kept.
AggregateOnce(files, tree) ==
  IF Complete(files) /\ aggregate = None
  THEN aggregate' = files /\ exit' = "ok"
  ELSE aggregate' = aggregate /\ exit' = "ok"

Aggregate(files, tree) ==
  IF ~Complete(files) THEN aggregate' = aggregate /\ exit' = "ok"
  ELSE IF OfThisRun(files, tree) /\ Agree(files) THEN aggregate' = files /\ exit' = "ok"
  ELSE aggregate' = aggregate /\ exit' = "raised"

\* main with one scenario: the artifact is written whatever the outcome.
RunFocused(s) ==
  \E r \in Results :
    /\ artifacts' = [artifacts EXCEPT ![s] = r]
    /\ latest' = s
    /\ IF r.status = "passed" THEN Aggregate(artifacts', r.tree)
       ELSE aggregate' = aggregate /\ exit' = "failed"

\* main with all of them writes run.json and touches no focused file.
RunAll ==
  /\ latest' = "all" /\ exit' \in {"ok", "failed"}
  /\ UNCHANGED <<artifacts, aggregate>>

Next == RunAll \/ \E s \in Focused : RunFocused(s)

Spec == Init /\ [][Next]_vars
-----------------------------------------------------------------------------
(***************************************************************************)
(* The aggregate is evidence of one experiment: its six results passed     *)
(* under the current contract and oracle, on one tree, planet and window,  *)
(* although they were made by different invocations                        *)
(* (aggregate_focused_results).                                            *)
(***************************************************************************)
AggregateIsOneExperiment ==
  aggregate # None =>
    \E p \in {"p", "q"}, w \in {"w", "u"}, t \in {"t", "s"} : \A s \in Focused :
      aggregate[s] = [contract |-> "v2", planet |-> p, window |-> w, tree |-> t,
                      status |-> "passed", valid |-> TRUE]

(***************************************************************************)
(* A focused run that ends well with all files present leaves an aggregate *)
(* of exactly those files: an older aggregate is never passed off as it.   *)
(***************************************************************************)
SuccessMeansFreshAggregate ==
  exit = "ok" /\ latest \in Focused /\ Complete(artifacts) => aggregate = artifacts
=============================================================================
