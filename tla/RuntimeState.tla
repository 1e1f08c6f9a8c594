---------------------------- MODULE RuntimeState ----------------------------
(***************************************************************************)
(* run_scenario of run_re4_runtime_state.py: the runner toggles the mode   *)
(* of the planet selected in a list and finds, by comparing snapshots of   *)
(* the game's memory, the record whose field follows the key; pictures of  *)
(* the list are taken as a second witness.  The game takes keys and paints *)
(* the screen when it gets to it, and fields of other records may change   *)
(* on their own.                                                           *)
(***************************************************************************)
EXTENDS Naturals, Sequences, FiniteSets, SequencesExt

CONSTANTS Records,   \* the records of the snapshot; one is the listed planet
          Planet,    \* the planet in the row the runner clicks
          NoRecord,
          MaxBlips   \* bound: changes of other records during the run

RecordsAssumption == Planet \in Records /\ NoRecord \notin Records /\ MaxBlips \in Nat

\* The straight line of run_scenario between launch and return.
Script == <<"shot", "select", "snapshot", "m", "snapshot", "m", "snapshot", "find", "manual",
            "m", "managed", "m", "manual", "m", "managed", "Escape", "shot",
            "select", "m", "manual", "Escape", "shot", "judge">>

VARIABLES field,     \* planet + 0x5a of every record: managed or not
          screen,    \* what the row of the list shows: "manual", "managed", "planet"
          painted,   \* the row as the list painted it last
          selected,  \* the record the game's "m" toggles
          queue,     \* input the game has not taken
          step, snapshots, shots, record, result,
          blips, actual  \* ghosts: blips so far, what the field was at each shot

game == <<field, screen, painted, selected, queue, blips>>
vars == <<game, step, snapshots, shots, record, result, actual>>

TypeOK ==
  /\ field \in [Records -> BOOLEAN]
  /\ screen \in {"manual", "managed", "planet"} /\ painted \in {"manual", "managed"}
  /\ selected \in Records \cup {NoRecord}
  /\ ToSet(queue) \subseteq {"m", "Escape", "select"}
  /\ step \in 0..Len(Script) + 1
  /\ \A i \in DOMAIN snapshots : snapshots[i] \in [Records -> BOOLEAN]
  /\ ToSet(shots) \subseteq {"manual", "managed", "planet"} /\ Len(shots) <= 3
  /\ record \in Records \cup {NoRecord} /\ result \in {"none", "passed", "failed"}
  /\ blips \in 0..MaxBlips

Init ==
  /\ field = [r \in Records |-> FALSE] /\ screen \in {"manual", "planet"} /\ painted = "manual"
  /\ selected = NoRecord /\ queue = << >>
  /\ step = 0 /\ snapshots = << >> /\ shots = << >> /\ record = NoRecord /\ result = "none"
  /\ blips = 0 /\ actual = << >>
-----------------------------------------------------------------------------
(* The game. *)

Listed == IF field[Planet] THEN "managed" ELSE "manual"

TakeInput ==
  /\ queue # << >> /\ queue' = Tail(queue)
  /\ CASE Head(queue) = "m" ->
            /\ field' = IF selected = NoRecord THEN field
                        ELSE [field EXCEPT ![selected] = ~@]
            /\ UNCHANGED <<selected, screen>>
       [] Head(queue) = "select" ->
            /\ selected' \in {selected, Planet} /\ screen' = "planet" /\ UNCHANGED field
       [] Head(queue) = "Escape" ->
            /\ screen' \in {screen, painted, Listed} /\ UNCHANGED <<field, selected>>
  /\ painted' = IF screen' = "planet" THEN painted ELSE screen'
  /\ UNCHANGED <<blips, step, snapshots, shots, record, result, actual>>

Blip ==
  /\ blips < MaxBlips /\ blips' = blips + 1
  /\ \E r \in Records \ {Planet} : field' = [field EXCEPT ![r] = ~@]
  /\ UNCHANGED <<screen, painted, selected, queue, step, snapshots, shots, record, result, actual>>
-----------------------------------------------------------------------------
(* The runner. *)

At(op) == step \in DOMAIN Script /\ Script[step] = op /\ result = "none"
Forward == step' = step + 1 /\ UNCHANGED result
Fail == result' = "failed" /\ UNCHANGED step

\* Popen of Xvfb and DOSBox, wait_window, wait_game_geometry, the menus: any may raise.
Launch ==
  /\ step = 0 /\ result = "none"
  /\ Forward \/ Fail
  /\ UNCHANGED <<game, snapshots, shots, record, actual>>

SendInput ==
  /\ step \in DOMAIN Script /\ Script[step] \in {"m", "Escape", "select"} /\ result = "none"
  /\ queue' = Append(queue, Script[step])
  /\ Forward
  /\ UNCHANGED <<field, screen, painted, selected, blips, snapshots, shots, record, actual>>

\* The mapping is read while the game runs; it may be gone, or the read be short.
Snapshot ==
  /\ At("snapshot")
  /\ \/ snapshots' = Append(snapshots, field) /\ Forward
     \/ UNCHANGED snapshots /\ Fail
  /\ UNCHANGED <<game, shots, record, actual>>

Candidates(named) == {r \in named : ~snapshots[1][r] /\ snapshots[2][r] /\ ~snapshots[3][r]}

\* find_transition_record: exactly one record went 0 -> ffffffff -> 0, of those that have
\* the expected name: one record or several, none, or all when no name is given.
FindRecord ==
  /\ At("find")
  /\ \E named \in SUBSET Records :
       IF Cardinality(Candidates(named)) = 1
       THEN record' = (CHOOSE r \in Candidates(named) : TRUE) /\ Forward
       ELSE UNCHANGED record /\ Fail
  /\ UNCHANGED <<game, snapshots, shots, actual>>

\* A fault: the wait ends at its deadline as if the field had the value.
WaitFieldGivesUp ==
  /\ At("manual") \/ At("managed")
  /\ Forward
  /\ UNCHANGED <<game, snapshots, shots, record, actual>>

\* wait_field (and the one read before the latency probe).
WaitField ==
  /\ At("manual") \/ At("managed")
  /\ IF field[record] = At("managed") THEN Forward ELSE Fail
  /\ UNCHANGED <<game, snapshots, shots, record, actual>>

\* capture and the hash of the row's region; ffmpeg may fail.
Capture ==
  /\ At("shot")
  /\ \/ /\ shots' = Append(shots, screen) /\ actual' = Append(actual, field[Planet])
        /\ Forward
     \/ UNCHANGED <<shots, actual>> /\ Fail
  /\ UNCHANGED <<game, snapshots, record>>

\* A fault: the last picture is not compared.
ShowsManaged == shots[2] = "managed" /\ shots[1] # shots[2]

\* validate_renderer_transition: the middle picture is the pinned one, the others agree.
Shows ==
  /\ shots[2] = "managed"
  /\ shots[1] # shots[2] /\ shots[3] = shots[1]

Judge ==
  /\ At("judge")
  /\ IF Shows THEN step' = step + 1 /\ result' = "passed" ELSE Fail
  /\ UNCHANGED <<game, snapshots, shots, record, actual>>

Next ==
  \/ TakeInput \/ Blip
  \/ Launch \/ SendInput \/ Snapshot \/ FindRecord \/ WaitField \/ Capture \/ Judge

Spec == Init /\ [][Next]_vars
-----------------------------------------------------------------------------
(***************************************************************************)
(* The record a passing run reports is the planet's, also when input is    *)
(* taken late or lost and other records change meanwhile: the snapshots    *)
(* and the latency probe together leave no other one, unless one changes   *)
(* six times by itself, each time when it is looked at.                    *)
(***************************************************************************)
RecordIsThePlanets == result = "passed" => record = Planet

(***************************************************************************)
(* The pictures a passing run keeps show the mode the field had when they  *)
(* were taken: none is stale (validate_renderer_transition).               *)
(***************************************************************************)
PicturesShowTheField ==
  result = "passed" => \A i \in 1..3 : (shots[i] = "managed") <=> actual[i]
=============================================================================
