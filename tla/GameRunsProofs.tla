--------------------------- MODULE GameRunsProofs ---------------------------
(***************************************************************************)
(* TLAPS proofs about the tools that drive the game, in the composition of *)
(* MCGameRuns: the RE4 probe of the managed field, the override witness,   *)
(* the capacity observation, the smoke run and the UI run, against a game  *)
(* that acts when it likes.                                                *)
(***************************************************************************)
EXTENDS MCGameRuns, FiniteSetTheorems, WellFoundedInduction, TLAPS

-----------------------------------------------------------------------------
(* The RE4 probe: its line of steps.                                        *)

\* The keys in the order they are sent; at step s the first SentAt[s + 1] of them
\* are sent, PressedBy[k + 1] of the first k toggle the mode, and the observations
\* made before step s show at least SeenAt[s + 1] changes of the field.
Keys == <<"select", "m", "m", "m", "m", "m", "Escape", "select", "m", "Escape">>
PressedBy == <<0, 0, 1, 2, 3, 4, 5, 5, 5, 6, 6>>
SentAt == <<0, 0, 0, 1, 1, 2, 2, 3, 3, 3, 3, 4, 4, 5, 5, 6, 6, 7, 7, 8, 9, 9, 10, 10, 10>>
SeenAt == <<0, 0, 0, 0, 0, 0, 1, 1, 2, 2, 2, 2, 3, 3, 4, 4, 5, 5, 5, 5, 5, 6, 6, 6, 6>>

Sent(s) == SentAt[s + 1]
Seen(s) == SeenAt[s + 1]
Pressed(k) == PressedBy[k + 1]

\* The tables agree with the script step by step: a key is sent where the
\* script has one.
LEMMA Tables ==
  ASSUME NEW s \in 1..23
  PROVE  /\ Re4!Script[s] \in {"m", "Escape", "select"} =>
              Sent(s + 1) = Sent(s) + 1 /\ Keys[Sent(s) + 1] = Re4!Script[s] /\ Seen(s + 1) = Seen(s)
         /\ Re4!Script[s] \notin {"m", "Escape", "select"} => Sent(s + 1) = Sent(s)
         /\ Sent(s) \in 0..10 /\ Seen(s) \in 0..6
<1> USE DEF Sent, Seen, Keys, SentAt, SeenAt, Re4!Script
<1>1. s \in 1..6 \/ s \in 7..12 \/ s \in 13..18 \/ s \in 19..23
  OBVIOUS
<1>2. CASE s \in 1..6
  BY <1>2
<1>3. CASE s \in 7..12
  BY <1>3
<1>4. CASE s \in 13..18
  BY <1>4
<1>5. CASE s \in 19..23
  BY <1>5
<1> QED
  BY <1>1, <1>2, <1>3, <1>4, <1>5

\* What the game has not taken yet are the last of the keys that were sent.
Taken == Sent(step) - Len(queue)
QueueInv ==
  /\ queue \in Seq({"m", "Escape", "select"}) /\ Len(queue) <= Sent(step)
  /\ \A i \in 1..Len(queue) : queue[i] = Keys[Taken + i]

\* How often the field of a record may have changed: the planet's by the keys that
\* were taken, another's by the changes on its own.
Changes(r) == IF r = Planet THEN Pressed(Taken) ELSE blips

\* The record shows what the runner looks for in every snapshot so far.
Follows(r) ==
  record \in {NoRecord, r} /\ \A i \in 1..Len(snapshots) : snapshots[i][r] <=> i = 2

\* A record that shows it all has changed as often as that, and if no more often it
\* has now the value seen last.
ChangesInv ==
  \A r \in Records : Follows(r) =>
    /\ Changes(r) >= Seen(step)
    /\ Changes(r) = Seen(step) => (field[r] <=> Seen(step) \in {1, 3, 5})

\* What the runner holds at each step.
HeldInv ==
  /\ snapshots \in Seq([Records -> BOOLEAN])
  /\ Len(snapshots) = (IF step <= 3 THEN 0 ELSE IF step <= 5 THEN 1 ELSE IF step <= 7 THEN 2 ELSE 3)
  /\ step <= 8 => record = NoRecord
  /\ step > 8 => record \in Records /\ Follows(record)

\* The pictures: the first is taken before any key, the others when the keys before
\* them have been taken.
ShotsInv ==
  /\ shots \in Seq({"manual", "managed", "planet"}) /\ actual \in Seq(BOOLEAN)
  /\ Len(shots) = (IF step <= 1 THEN 0 ELSE IF step <= 17 THEN 1 ELSE IF step <= 22 THEN 2 ELSE 3)
  /\ Len(actual) = Len(shots)
  /\ step <= 1 => screen # "managed"
  /\ Len(shots) > 0 => shots[1] # "managed" /\ ~actual[1]
  /\ Len(shots) > 1 /\ record = Planet => actual[2]
  /\ Len(shots) > 2 /\ record = Planet => ~actual[3]

VerdictInv == result = "passed" => step = 24 /\ Re4!Shows

Re4Types ==
  /\ field \in [Records -> BOOLEAN]
  /\ screen \in {"manual", "managed", "planet"} /\ painted \in {"manual", "managed"}
  /\ selected \in {Planet, NoRecord}
  /\ step \in 0..24 /\ (step = 24 => result = "passed")
  /\ record \in Records \cup {NoRecord} /\ result \in {"none", "passed", "failed"}
  /\ blips \in 0..MaxBlips

Re4Inv == Re4Types /\ QueueInv /\ HeldInv /\ ChangesInv /\ ShotsInv /\ VerdictInv

\* Before the launch nothing is sent, seen or pictured.
LEMMA Re4Init ==
  Re4!Init => Re4Inv
<1> SUFFICES ASSUME Re4!Init PROVE Re4Inv
  OBVIOUS
<1> USE DEF Re4!Init
<1>1. MaxBlips \in Nat
  BY ConstantsFit DEF Re4!RecordsAssumption
<1>2. Re4Types
  BY <1>1 DEF Re4Types
<1>3. Sent(0) = 0 /\ Seen(0) = 0 /\ Pressed(0) = 0
  BY DEF Sent, Seen, Pressed, SentAt, SeenAt, PressedBy
<1>4. QueueInv /\ Taken = 0
  BY <1>3 DEF QueueInv, Taken
<1>5. HeldInv
  BY DEF HeldInv
<1>6. ChangesInv
  BY <1>3, <1>4 DEF ChangesInv, Changes
<1>7. ShotsInv /\ VerdictInv
  BY DEF ShotsInv, VerdictInv
<1> QED
  BY <1>2, <1>4, <1>5, <1>6, <1>7 DEF Re4Inv

\* The tables stay within the ten keys and six changes, and every m toggles
\* once.
LEMMA MoreTables ==
  /\ \A s \in 0..24 : Sent(s) \in 0..10 /\ Seen(s) \in 0..6
  /\ \A k \in 0..9 : Pressed(k + 1) = Pressed(k) + (IF Keys[k + 1] = "m" THEN 1 ELSE 0)
  /\ \A k \in 0..10 : Pressed(k) \in 0..6
  /\ Sent(1) = 0 /\ Seen(1) = 0
<1>1. Sent(0) \in 0..10 /\ Seen(0) \in 0..6 /\ Sent(24) \in 0..10 /\ Seen(24) \in 0..6
  BY DEF Sent, Seen, SentAt, SeenAt
<1>2. \A s \in 1..23 : Sent(s) \in 0..10 /\ Seen(s) \in 0..6
  BY Tables
<1>3. \A k \in 0..9 : Pressed(k + 1) = Pressed(k) + (IF Keys[k + 1] = "m" THEN 1 ELSE 0)
  BY DEF Pressed, PressedBy, Keys
<1>4. \A k \in 0..10 : Pressed(k) \in 0..6
  BY DEF Pressed, PressedBy
<1>5. Sent(1) = 0 /\ Seen(1) = 0
  BY DEF Sent, Seen, SentAt, SeenAt
<1>6. \A s \in 0..24 : s = 0 \/ s = 24 \/ s \in 1..23
  OBVIOUS
<1> QED
  BY <1>1, <1>2, <1>3, <1>4, <1>5, <1>6

\* What was taken and what waits make up what was sent.
LEMMA TakenFits ==
  ASSUME Re4Inv
  PROVE  /\ Len(queue) \in Nat /\ Taken \in 0..10 /\ Taken + Len(queue) = Sent(step)
         /\ Sent(step) \in 0..10 /\ Seen(step) \in 0..6 /\ Pressed(Taken) \in 0..6
<1>1. Len(queue) \in Nat
  BY DEF Re4Inv, QueueInv
<1>2. Sent(step) \in 0..10 /\ Seen(step) \in 0..6
  BY MoreTables DEF Re4Inv, Re4Types
<1>3. Taken \in 0..10 /\ Taken + Len(queue) = Sent(step)
  BY <1>1, <1>2 DEF Re4Inv, QueueInv, Taken
<1> QED
  BY <1>1, <1>2, <1>3, MoreTables

\* The game takes the next key, however late: an m on the planet changes its
\* field once.
LEMMA TakeInputKeeps ==
  ASSUME Re4Inv, Re4!TakeInput
  PROVE  Re4Inv'
<1>a. Re4Types /\ QueueInv /\ HeldInv /\ ChangesInv /\ ShotsInv /\ VerdictInv
  BY DEF Re4Inv
<1>b. /\ Len(queue) \in Nat /\ Taken \in 0..10 /\ Taken + Len(queue) = Sent(step)
      /\ Sent(step) \in 0..10 /\ Seen(step) \in 0..6 /\ Pressed(Taken) \in 0..6
  BY TakenFits
<1>1. /\ queue # << >> /\ queue' = Tail(queue)
      /\ UNCHANGED <<blips, step, snapshots, shots, record, result, actual>>
  BY DEF Re4!TakeInput
<1>2. /\ Len(queue) \in Nat \ {0} /\ Len(queue') = Len(queue) - 1
      /\ queue' \in Seq({"m", "Escape", "select"})
      /\ Head(queue) = queue[1] /\ Head(queue) \in {"m", "Escape", "select"}
      /\ \A i \in 1..Len(queue') : queue'[i] = queue[i + 1]
  BY <1>a, <1>1 DEF QueueInv
<1>3. Taken' = Taken + 1
  BY <1>1, <1>2, <1>b DEF Taken
<1>4. Head(queue) = Keys[Taken + 1]
  BY <1>a, <1>2 DEF QueueInv
<1>5. QueueInv'
  <2>1. \A i \in 1..Len(queue') : queue'[i] = Keys[Taken' + i]
    <3> SUFFICES ASSUME NEW i \in 1..Len(queue') PROVE queue'[i] = Keys[Taken' + i]
      OBVIOUS
    <3>1. i + 1 \in 1..Len(queue) /\ Taken + (i + 1) = Taken' + i
      BY <1>2, <1>3, <1>b
    <3> QED
      BY <1>a, <1>2, <3>1 DEF QueueInv
  <2> QED
    BY <1>a, <1>1, <1>2, <2>1, <1>b DEF QueueInv
<1>6. /\ Head(queue) = "m" => field' = (IF selected = NoRecord THEN field
                                        ELSE [field EXCEPT ![selected] = ~@])
      /\ Head(queue) # "m" => field' = field
  BY <1>2 DEF Re4!TakeInput
<1>7. selected' \in {Planet, NoRecord}
  BY <1>a, <1>2 DEF Re4!TakeInput, Re4Types
<1>8. field' \in [Records -> BOOLEAN] /\ \A r \in Records \ {Planet} : field'[r] = field[r]
  BY <1>a, <1>6 DEF Re4Types
<1>9. screen' \in {"manual", "managed", "planet"}
  BY <1>a, <1>2 DEF Re4!TakeInput, Re4Types, Re4!Listed
<1>10. painted' \in {"manual", "managed"}
  BY <1>a, <1>9 DEF Re4!TakeInput, Re4Types
<1>11. Re4Types'
  BY <1>a, <1>1, <1>7, <1>8, <1>9, <1>10 DEF Re4Types
<1>12. \A r : Follows(r)' <=> Follows(r)
  BY <1>1 DEF Follows
<1>13. HeldInv'
  BY <1>a, <1>1, <1>12 DEF HeldInv
<1>14. Taken \in 0..9
  BY <1>1, <1>2, <1>b
<1>15. ChangesInv'
  <2> SUFFICES ASSUME NEW r \in Records, Follows(r)
               PROVE  /\ Changes(r)' >= Seen(step)
                      /\ Changes(r)' = Seen(step) => (field'[r] <=> Seen(step) \in {1, 3, 5})
    BY <1>a, <1>1, <1>12 DEF ChangesInv
  <2>1. /\ Changes(r) >= Seen(step)
        /\ Changes(r) = Seen(step) => (field[r] <=> Seen(step) \in {1, 3, 5})
    BY <1>a DEF ChangesInv
  <2>2. CASE r # Planet
    BY <1>1, <1>8, <2>1, <2>2 DEF Changes
  <2>3. CASE r = Planet
    <3>1. Changes(r)' = Pressed(Taken + 1) /\ Changes(r) = Pressed(Taken)
      BY <1>3, <2>3 DEF Changes
    <3>2. CASE Head(queue) = "m"
      <4>1. Changes(r)' = Changes(r) + 1
        BY <1>4, <1>14, <3>1, <3>2, MoreTables
      <4> QED
        BY <2>1, <3>1, <4>1, <1>b
    <3>3. CASE Head(queue) # "m"
      <4>2. Pressed(Taken + 1) = Pressed(Taken) + (IF Keys[Taken + 1] = "m" THEN 1 ELSE 0)
        BY <1>14, MoreTables
      <4>3. Pressed(Taken + 1) = Pressed(Taken)
        BY <1>4, <1>b, <3>3, <4>2
      <4>1. Changes(r)' = Changes(r)
        BY <3>1, <4>3
      <4> QED
        BY <1>6, <2>1, <3>3, <4>1
    <3> QED
      BY <3>2, <3>3
  <2> QED
    BY <2>2, <2>3
<1>16. ShotsInv'
  <2>1. ~(step <= 1)
    <3>1. step \in 0..1 => Sent(step) = 0
      BY DEF Sent, SentAt
    <3>2. step \in Nat
      BY <1>a DEF Re4Types
    <3>3. Sent(step) # 0
      BY <1>a, <1>2, <1>b
    <3> QED
      BY <3>1, <3>2, <3>3
  <2>2. UNCHANGED <<step, shots, record, actual>>
    BY <1>1
  <2> QED
    BY <1>a, <2>1, <2>2, Zenon DEF ShotsInv
<1>17. VerdictInv'
  BY <1>a, <1>1 DEF VerdictInv, Re4!Shows
<1> QED
  BY <1>5, <1>11, <1>13, <1>15, <1>16, <1>17 DEF Re4Inv

\* A change of another record counts against that record.
LEMMA BlipKeeps ==
  ASSUME Re4Inv, Re4!Blip
  PROVE  Re4Inv'
<1> USE DEF Re4Inv
<1>1. /\ blips < MaxBlips /\ blips' = blips + 1
      /\ UNCHANGED <<screen, painted, selected, queue, step, snapshots, shots, record, result, actual>>
  BY DEF Re4!Blip
<1>2. PICK q \in Records \ {Planet} : field' = [field EXCEPT ![q] = ~@]
  BY DEF Re4!Blip
<1>3. MaxBlips \in Nat
  BY ConstantsFit DEF Re4!RecordsAssumption
<1>4. field' \in [Records -> BOOLEAN] /\ (Planet \in Records => field'[Planet] = field[Planet])
  BY <1>2 DEF Re4Types
<1>5. Re4Types'
  <2>1. blips' \in 0..MaxBlips
    BY <1>1, <1>3 DEF Re4Types
  <2> QED
    BY <1>1, <1>4, <2>1 DEF Re4Types
<1>6. Taken' = Taken
  BY <1>1 DEF Taken
<1>7. QueueInv'
  BY <1>1, <1>6 DEF QueueInv
<1>8. \A r : Follows(r)' <=> Follows(r)
  BY <1>1 DEF Follows
<1>9. HeldInv'
  BY <1>1, <1>8 DEF HeldInv
<1>10. ChangesInv'
  <2> SUFFICES ASSUME NEW r \in Records, Follows(r)
               PROVE  /\ Changes(r)' >= Seen(step)
                      /\ Changes(r)' = Seen(step) => (field'[r] <=> Seen(step) \in {1, 3, 5})
    BY <1>1, <1>8 DEF ChangesInv
  <2>1. /\ Changes(r) >= Seen(step)
        /\ Changes(r) = Seen(step) => (field[r] <=> Seen(step) \in {1, 3, 5})
    BY DEF ChangesInv
  <2>2. CASE r = Planet
    BY <1>4, <1>6, <2>1, <2>2 DEF Changes
  <2>3. CASE r # Planet
    <3>1. Changes(r)' = Changes(r) + 1 /\ Changes(r) \in Nat
      BY <1>1, <2>3 DEF Changes, Re4Types
    <3> QED
      BY <2>1, <3>1, TakenFits
  <2> QED
    BY <2>2, <2>3
<1>11. ShotsInv' /\ VerdictInv'
  BY <1>1 DEF ShotsInv, VerdictInv, Re4!Shows
<1> QED
  BY <1>5, <1>7, <1>9, <1>10, <1>11

\* Where each kind of step stands, and what is seen there.
LEMMA Steps ==
  ASSUME NEW s \in DOMAIN Re4!Script
  PROVE  /\ s \in 1..23
         /\ Re4!Script[s] = "shot" => s \in {1, 17, 22}
         /\ Re4!Script[s] = "snapshot" => s \in {3, 5, 7}
         /\ Re4!Script[s] = "find" => s = 8
         /\ Re4!Script[s] = "manual" => s \in {9, 13, 20}
         /\ Re4!Script[s] = "managed" => s \in {11, 15}
         /\ Re4!Script[s] = "judge" => s = 23
         /\ Re4!Script[s] \in {"m", "Escape", "select"} => s \notin {1, 3, 5, 7, 8, 17, 22, 23}
<1>1. s \in 1..23
  BY DEF Re4!Script
<1>2. s \in 1..6 \/ s \in 7..12 \/ s \in 13..18 \/ s \in 19..23
  BY <1>1
<1> USE DEF Re4!Script
<1>3. CASE s \in 1..6
  BY <1>3
<1>4. CASE s \in 7..12
  BY <1>4
<1>5. CASE s \in 13..18
  BY <1>5
<1>6. CASE s \in 19..23
  BY <1>6
<1> QED
  BY <1>2, <1>3, <1>4, <1>5, <1>6

\* The tables at the steps where the runner looks.
LEMMA Observations ==
  /\ Seen(3) = 0 /\ Seen(4) = 0 /\ Seen(5) = 0 /\ Seen(6) = 1 /\ Seen(7) = 1 /\ Seen(8) = 2
  /\ Seen(9) = 2 /\ Seen(10) = 2 /\ Seen(11) = 2 /\ Seen(12) = 3 /\ Seen(13) = 3 /\ Seen(14) = 4
  /\ Seen(15) = 4 /\ Seen(16) = 5 /\ Seen(17) = 5 /\ Seen(18) = 5 /\ Seen(20) = 5 /\ Seen(21) = 6
  /\ Seen(22) = 6 /\ Seen(23) = 6 /\ Seen(24) = 6 /\ Seen(0) = 0 /\ Seen(2) = 0
  /\ Sent(0) = 0 /\ Sent(2) = 0 /\ Sent(17) = 7 /\ Sent(22) = 10 /\ Sent(23) = 10 /\ Sent(24) = 10
  /\ \A k \in 0..7 : Pressed(k) <= 5
<1>1. \A k \in 0..7 : Pressed(k) <= 5
  BY DEF Pressed, PressedBy
<1> QED
  BY <1>1 DEF Seen, SeenAt, Sent, SentAt

\* A run that fails leaves everything as it is.
LEMMA Re4FailKeeps ==
  ASSUME Re4Inv, result' = "failed", result = "none",
         UNCHANGED <<field, screen, painted, selected, queue, blips, step, snapshots, shots,
                     record, actual>>
  PROVE  Re4Inv'
<1>a. Re4Types /\ QueueInv /\ HeldInv /\ ChangesInv /\ ShotsInv
  BY DEF Re4Inv
<1>1. Re4Types'
  BY <1>a DEF Re4Types
<1>2. QueueInv'
  BY <1>a DEF QueueInv, Taken
<1>3. HeldInv'
  BY <1>a DEF HeldInv, Follows
<1>4. ChangesInv'
  BY <1>a DEF ChangesInv, Changes, Follows, Taken
<1>5. ShotsInv'
  BY <1>a, Zenon DEF ShotsInv
<1>6. VerdictInv'
  BY DEF VerdictInv
<1> QED
  BY <1>1, <1>2, <1>3, <1>4, <1>5, <1>6 DEF Re4Inv

\* What a step forward that sends nothing leaves to show.
LEMMA ForwardKeeps ==
  ASSUME Re4Inv, step' = step + 1, result' = "none", result = "none", Sent(step + 1) = Sent(step),
         step \in 0..22,
         UNCHANGED <<field, screen, painted, selected, queue, blips>>,
         record' \in Records \cup {NoRecord},
         \A r \in Records :
           Follows(r)' =>
             /\ Changes(r) >= Seen(step + 1)
             /\ Changes(r) = Seen(step + 1) => (field[r] <=> Seen(step + 1) \in {1, 3, 5}),
         HeldInv', ShotsInv'
  PROVE  Re4Inv'
<1>1. Re4Types'
  BY DEF Re4Inv, Re4Types
<1>2. Taken' = Taken
  BY DEF Taken
<1>3. QueueInv'
  BY <1>2 DEF Re4Inv, QueueInv
<1>4. ChangesInv'
  BY <1>2 DEF ChangesInv, Changes
<1>5. VerdictInv'
  BY DEF VerdictInv
<1> QED
  BY <1>1, <1>3, <1>4, <1>5 DEF Re4Inv

\* The launch only starts the line.
LEMMA LaunchKeeps ==
  ASSUME Re4Inv, Re4!Launch
  PROVE  Re4Inv'
<1>a. Re4Types /\ QueueInv /\ HeldInv /\ ChangesInv /\ ShotsInv
  BY DEF Re4Inv
<1>1. CASE Re4!Fail
  BY <1>1, Re4FailKeeps DEF Re4!Launch, Re4!Fail, Re4!game
<1>2. CASE Re4!Forward
  <2>1. /\ step = 0 /\ step' = 1 /\ result = "none" /\ result' = "none"
        /\ UNCHANGED <<field, screen, painted, selected, queue, blips>>
        /\ UNCHANGED <<snapshots, shots, record, actual>>
    BY <1>2 DEF Re4!Launch, Re4!Forward, Re4!game
  <2>2. Sent(1) = Sent(0) /\ Seen(1) = Seen(0)
    BY Observations, MoreTables
  <2>3. HeldInv'
    BY <1>a, <2>1 DEF HeldInv
  <2>4. ShotsInv'
    <3>1. shots \in Seq({"manual", "managed", "planet"}) /\ actual \in Seq(BOOLEAN)
          /\ Len(shots) = 0 /\ Len(actual) = Len(shots) /\ screen # "managed"
      BY <1>a, <2>1 DEF ShotsInv
    <3> QED
      BY <2>1, <3>1 DEF ShotsInv
  <2>5. \A r \in Records : Follows(r)' =>
             /\ Changes(r) >= Seen(1)
             /\ Changes(r) = Seen(1) => (field[r] <=> Seen(1) \in {1, 3, 5})
    BY <1>a, <2>1, <2>2 DEF ChangesInv, Follows
  <2>6. record' \in Records \cup {NoRecord}
    BY <1>a, <2>1 DEF Re4Types
  <2> QED
    BY <2>1, <2>2, <2>3, <2>4, <2>5, <2>6, ForwardKeeps
<1> QED
  BY <1>1, <1>2 DEF Re4!Launch

\* A key that is sent waits behind those sent before.
LEMMA SendInputKeeps ==
  ASSUME Re4Inv, Re4!SendInput
  PROVE  Re4Inv'
<1>a. Re4Types /\ QueueInv /\ HeldInv /\ ChangesInv /\ ShotsInv
  BY DEF Re4Inv
<1>1. /\ step \in DOMAIN Re4!Script /\ Re4!Script[step] \in {"m", "Escape", "select"}
      /\ result = "none" /\ result' = "none" /\ step' = step + 1
      /\ queue' = Append(queue, Re4!Script[step])
      /\ UNCHANGED <<field, screen, painted, selected, blips>>
      /\ UNCHANGED <<snapshots, shots, record, actual>>
  BY DEF Re4!SendInput, Re4!Forward
<1>2. step \in 1..23 /\ step \notin {1, 3, 5, 7, 8, 17, 22, 23}
  BY <1>1, Steps
<1>3. /\ Sent(step + 1) = Sent(step) + 1 /\ Keys[Sent(step) + 1] = Re4!Script[step]
      /\ Seen(step + 1) = Seen(step)
  BY <1>1, <1>2, Tables
<1>b. /\ Len(queue) \in Nat /\ Taken \in 0..10 /\ Taken + Len(queue) = Sent(step)
      /\ Sent(step) \in 0..10
  BY TakenFits
<1>4. Len(queue') = Len(queue) + 1 /\ queue' \in Seq({"m", "Escape", "select"})
  BY <1>1, <1>a DEF QueueInv
<1>5. Taken' = Taken
  BY <1>1, <1>3, <1>4, <1>b DEF Taken
<1>6. QueueInv'
  <2> SUFFICES ASSUME NEW i \in 1..Len(queue') PROVE queue'[i] = Keys[Taken + i]
    BY <1>1, <1>3, <1>4, <1>5, <1>b DEF QueueInv
  <2>1. CASE i \in 1..Len(queue)
    <3>1. queue'[i] = queue[i]
      BY <1>1, <1>a, <2>1 DEF QueueInv
    <3> QED
      BY <1>a, <2>1, <3>1 DEF QueueInv
  <2>2. CASE i \notin 1..Len(queue)
    <3>1. i = Len(queue) + 1 /\ Taken + i = Sent(step) + 1
      BY <1>4, <1>b, <2>2
    <3>2. queue'[i] = Re4!Script[step]
      BY <1>1, <1>a, <3>1 DEF QueueInv
    <3> QED
      BY <1>3, <3>1, <3>2
  <2> QED
    BY <2>1, <2>2
<1>7. Re4Types'
  BY <1>a, <1>1, <1>2 DEF Re4Types
<1>8. \A r : Follows(r)' <=> Follows(r)
  BY <1>1 DEF Follows
<1>9. HeldInv'
  <2>1. /\ (step' <= 8 <=> step <= 8) /\ (step' > 8 <=> step > 8)
        /\ (IF step' <= 3 THEN 0 ELSE IF step' <= 5 THEN 1 ELSE IF step' <= 7 THEN 2 ELSE 3)
             = (IF step <= 3 THEN 0 ELSE IF step <= 5 THEN 1 ELSE IF step <= 7 THEN 2 ELSE 3)
    BY <1>1, <1>2
  <2>2. UNCHANGED <<snapshots, record>>
    BY <1>1
  <2>3. Follows(record)' <=> Follows(record)
    BY <2>2 DEF Follows
  <2> QED
    BY <1>a, <2>1, <2>2, <2>3, Zenon DEF HeldInv
<1>10. ChangesInv'
  BY <1>a, <1>1, <1>3, <1>5, <1>8 DEF ChangesInv, Changes
<1>11. ShotsInv'
  <2>1. /\ step > 1 /\ ~(step' <= 1)
        /\ (IF step' <= 1 THEN 0 ELSE IF step' <= 17 THEN 1 ELSE IF step' <= 22 THEN 2 ELSE 3)
             = (IF step <= 1 THEN 0 ELSE IF step <= 17 THEN 1 ELSE IF step <= 22 THEN 2 ELSE 3)
    BY <1>1, <1>2
  <2>2. UNCHANGED <<shots, record, actual>>
    BY <1>1
  <2> QED
    BY <1>a, <2>1, <2>2, Zenon DEF ShotsInv
<1>12. VerdictInv'
  BY <1>1 DEF VerdictInv
<1> QED
  BY <1>6, <1>7, <1>9, <1>10, <1>11, <1>12 DEF Re4Inv

\* A snapshot counts as a change seen for a record that differs from the
\* snapshot before.
LEMMA SnapshotKeeps ==
  ASSUME Re4Inv, Re4!Snapshot
  PROVE  Re4Inv'
<1>a. Re4Types /\ QueueInv /\ HeldInv /\ ChangesInv /\ ShotsInv
  BY DEF Re4Inv
<1>1. CASE Re4!Fail
  <2>1. result' = "failed" /\ result = "none" /\ UNCHANGED step
    BY <1>1 DEF Re4!Snapshot, Re4!Fail, Re4!At
  <2>2. UNCHANGED snapshots
    BY <2>1 DEF Re4!Snapshot, Re4!Forward
  <2>3. UNCHANGED <<field, screen, painted, selected, queue, blips, shots, record, actual>>
    BY DEF Re4!Snapshot, Re4!game
  <2> QED
    BY <2>1, <2>2, <2>3, Re4FailKeeps
<1>2. CASE Re4!Forward
  <2>1. /\ step \in {3, 5, 7} /\ step' = step + 1 /\ result = "none" /\ result' = "none"
        /\ UNCHANGED <<field, screen, painted, selected, queue, blips>>
        /\ UNCHANGED <<shots, record, actual>>
        /\ Re4!Script[step] = "snapshot" /\ step \in 1..23
    BY <1>2, Steps DEF Re4!Snapshot, Re4!Forward, Re4!game, Re4!At
  <2>2. snapshots' = Append(snapshots, field)
    BY <1>2, <2>1 DEF Re4!Snapshot, Re4!Fail
  <2>3. Sent(step + 1) = Sent(step)
    BY <2>1, Tables
  <2>4. /\ Len(snapshots) = (IF step = 3 THEN 0 ELSE IF step = 5 THEN 1 ELSE 2)
        /\ snapshots \in Seq([Records -> BOOLEAN]) /\ field \in [Records -> BOOLEAN]
        /\ record = NoRecord
    BY <1>a, <2>1 DEF HeldInv, Re4Types
  <2>5. /\ Len(snapshots') = Len(snapshots) + 1 /\ snapshots' \in Seq([Records -> BOOLEAN])
        /\ snapshots'[Len(snapshots) + 1] = field
        /\ \A i \in 1..Len(snapshots) : snapshots'[i] = snapshots[i]
    BY <2>2, <2>4
  <2>6. HeldInv'
    BY <2>1, <2>4, <2>5 DEF HeldInv
  <2>7. ShotsInv'
    <3>1. /\ ~(step <= 1) /\ ~(step' <= 1)
          /\ (IF step' <= 1 THEN 0 ELSE IF step' <= 17 THEN 1 ELSE IF step' <= 22 THEN 2 ELSE 3)
               = (IF step <= 1 THEN 0 ELSE IF step <= 17 THEN 1 ELSE IF step <= 22 THEN 2 ELSE 3)
      BY <2>1
    <3>2. UNCHANGED <<shots, record, actual>>
      BY <2>1
    <3> QED
      BY <1>a, <3>1, <3>2, Zenon DEF ShotsInv
  <2>8. ASSUME NEW r \in Records, Follows(r)'
        PROVE  /\ Changes(r) >= Seen(step + 1)
               /\ Changes(r) = Seen(step + 1) => (field[r] <=> Seen(step + 1) \in {1, 3, 5})
    <3>1. Follows(r)
      <4>1. \A i \in 1..Len(snapshots) : i \in 1..Len(snapshots')
        BY <2>4, <2>5
      <4>2. \A i \in 1..Len(snapshots) : snapshots'[i] = snapshots[i]
        BY <2>5
      <4>3. /\ record \in {NoRecord, r}
            /\ \A i \in 1..Len(snapshots') : snapshots'[i][r] <=> i = 2
        BY <2>1, <2>8 DEF Follows
      <4> QED
        BY <4>1, <4>2, <4>3 DEF Follows
    <3>2. field[r] <=> Len(snapshots) + 1 = 2
      BY <2>4, <2>5, <2>8 DEF Follows
    <3>3. /\ Changes(r) >= Seen(step)
          /\ Changes(r) = Seen(step) => (field[r] <=> Seen(step) \in {1, 3, 5})
      BY <1>a, <3>1 DEF ChangesInv
    <3>4. Changes(r) \in Int
      BY <1>a, TakenFits DEF Changes, Re4Types
    <3>5. CASE step = 3
      BY <2>4, <3>2, <3>3, <3>4, <3>5, Observations
    <3>6. CASE step = 5
      BY <2>4, <3>2, <3>3, <3>4, <3>6, Observations
    <3>7. CASE step = 7
      BY <2>4, <3>2, <3>3, <3>4, <3>7, Observations
    <3> QED
      BY <2>1, <3>5, <3>6, <3>7
  <2>9. record' \in Records \cup {NoRecord} /\ step \in 0..22
    BY <1>a, <2>1 DEF Re4Types
  <2> QED
    BY <2>1, <2>3, <2>6, <2>7, <2>8, <2>9, ForwardKeeps
<1> QED
  BY <1>1, <1>2 DEF Re4!Snapshot

\* RuntimeState counts with a Cardinality of its own instance.
LEMMA SameCardinality ==
  ASSUME NEW S
  PROVE  Re4!Cardinality(S) = Cardinality(S)
BY DEF Re4!Cardinality, Cardinality

\* The one record that is TRUE in the second snapshot alone is the record that
\* follows the keys.
LEMMA FindRecordKeeps ==
  ASSUME Re4Inv, Re4!FindRecord
  PROVE  Re4Inv'
<1>a. Re4Types /\ QueueInv /\ HeldInv /\ ChangesInv /\ ShotsInv
  BY DEF Re4Inv
<1>1. step = 8 /\ result = "none"
  BY Steps DEF Re4!FindRecord, Re4!At
<1>0. PICK named \in SUBSET Records :
         IF Re4!Cardinality(Re4!Candidates(named)) = 1
         THEN record' = (CHOOSE r \in Re4!Candidates(named) : TRUE) /\ Re4!Forward
         ELSE UNCHANGED record /\ Re4!Fail
  BY DEF Re4!FindRecord
<1>2. CASE Re4!Cardinality(Re4!Candidates(named)) = 1
  <2>1. /\ step' = 9 /\ result' = "none" /\ record' = (CHOOSE r \in Re4!Candidates(named) : TRUE)
        /\ UNCHANGED <<field, screen, painted, selected, queue, blips>>
        /\ UNCHANGED <<snapshots, shots, actual>>
    <3>1. record' = (CHOOSE r \in Re4!Candidates(named) : TRUE) /\ Re4!Forward
      BY <1>0, <1>2
    <3>2. UNCHANGED <<field, screen, painted, selected, queue, blips, snapshots, shots, actual>>
      BY DEF Re4!FindRecord, Re4!game
    <3>3. step' = 9 /\ result' = "none"
      BY <1>1, <3>1 DEF Re4!Forward
    <3> QED
      BY <3>1, <3>2, <3>3
  <2>2. Re4!Candidates(named) # {}
    BY <1>2, FS_EmptySet, SameCardinality
  <2>3. record' \in Re4!Candidates(named)
    BY <2>1, <2>2
  <2>4. Len(snapshots) = 3 /\ snapshots \in Seq([Records -> BOOLEAN]) /\ record = NoRecord
    BY <1>1, <1>a DEF HeldInv
  <2>5. record' \in Records /\ ~snapshots[1][record'] /\ snapshots[2][record'] /\ ~snapshots[3][record']
    BY <2>3 DEF Re4!Candidates
  <2>6. Follows(record)'
    <3>1. \A i \in 1..3 : i = 1 \/ i = 2 \/ i = 3
      OBVIOUS
    <3>2. UNCHANGED snapshots
      BY <2>1
    <3>3. \A i \in 1..3 : snapshots[i][record'] <=> i = 2
      BY <2>5, <3>1
    <3> QED
      BY <2>4, <3>2, <3>3 DEF Follows
  <2>7. HeldInv'
    <3>1. snapshots' = snapshots
      BY <2>1
    <3> QED
      BY <2>1, <2>4, <2>5, <2>6, <3>1 DEF HeldInv
  <2>8. ShotsInv'
    <3>1. /\ shots \in Seq({"manual", "managed", "planet"}) /\ actual \in Seq(BOOLEAN)
          /\ Len(shots) = 1 /\ Len(actual) = 1 /\ shots[1] # "managed" /\ ~actual[1]
      BY <1>1, <1>a DEF ShotsInv
    <3>2. UNCHANGED <<shots, actual>>
      BY <2>1
    <3>3. Len(shots') = (IF step' <= 1 THEN 0 ELSE IF step' <= 17 THEN 1 ELSE IF step' <= 22 THEN 2 ELSE 3)
      BY <2>1, <3>1, <3>2
    <3>4. ~(step' <= 1) /\ ~(1 > 1) /\ ~(1 > 2)
      BY <2>1
    <3> QED
      BY <3>1, <3>2, <3>3, <3>4, Zenon DEF ShotsInv
  <2>9. \A r \in Records : Follows(r)' =>
             /\ Changes(r) >= Seen(9)
             /\ Changes(r) = Seen(9) => (field[r] <=> Seen(9) \in {1, 3, 5})
    <3>1. Seen(9) = Seen(8)
      BY Observations
    <3>2. \A r \in Records : Follows(r)' => Follows(r)
      BY <2>1, <2>4 DEF Follows
    <3> QED
      BY <1>1, <1>a, <3>1, <3>2 DEF ChangesInv
  <2>10. Sent(9) = Sent(8)
    BY <1>1, Tables DEF Re4!FindRecord, Re4!At
  <2> QED
    BY <1>1, <2>1, <2>5, <2>7, <2>8, <2>9, <2>10, ForwardKeeps
<1>3. CASE Re4!Cardinality(Re4!Candidates(named)) # 1
  <2>1. UNCHANGED record /\ Re4!Fail
    BY <1>0, <1>3
  <2>2. UNCHANGED <<field, screen, painted, selected, queue, blips, snapshots, shots, actual>>
    BY DEF Re4!FindRecord, Re4!game
  <2> QED
    BY <1>1, <2>1, <2>2, Re4FailKeeps DEF Re4!Fail
<1> QED
  BY <1>2, <1>3

\* A field that shows the awaited value has changed once more than when it was
\* last seen.
LEMMA WaitFieldKeeps ==
  ASSUME Re4Inv, Re4!WaitField
  PROVE  Re4Inv'
<1>a. Re4Types /\ QueueInv /\ HeldInv /\ ChangesInv /\ ShotsInv
  BY DEF Re4Inv
<1>1. UNCHANGED <<field, screen, painted, selected, queue, blips, snapshots, shots, record, actual>>
  BY DEF Re4!WaitField, Re4!game
<1>2. /\ step \in {9, 11, 13, 15, 20} /\ result = "none"
      /\ Re4!Script[step] \in {"manual", "managed"} /\ step \in 1..23
  BY Steps DEF Re4!WaitField, Re4!At
<1>3. CASE Re4!Fail
  BY <1>1, <1>2, <1>3, Re4FailKeeps DEF Re4!Fail
<1>4. CASE ~Re4!Fail
  <2>1. step' = step + 1 /\ result' = "none" /\ (field[record] = Re4!At("managed"))
    BY <1>2, <1>4 DEF Re4!WaitField, Re4!Forward
  <2>2. field[record] <=> step \in {11, 15}
    <3>1. Re4!At("managed") <=> step \in {11, 15}
      BY <1>2, Steps DEF Re4!At, Re4!Script
    <3> QED
      BY <2>1, <3>1
  <2>3. record \in Records /\ Len(snapshots) = 3
    BY <1>2, <1>a DEF HeldInv
  <2>4. HeldInv'
    <3>1. /\ ~(step' <= 8) /\ step > 8
          /\ (IF step' <= 3 THEN 0 ELSE IF step' <= 5 THEN 1 ELSE IF step' <= 7 THEN 2 ELSE 3) = 3
          /\ (IF step <= 3 THEN 0 ELSE IF step <= 5 THEN 1 ELSE IF step <= 7 THEN 2 ELSE 3) = 3
      BY <1>2, <2>1
    <3>2. UNCHANGED <<snapshots, record>>
      BY <1>1
    <3>3. Follows(record)' <=> Follows(record)
      BY <3>2 DEF Follows
    <3> QED
      BY <1>a, <3>1, <3>2, <3>3, Zenon DEF HeldInv
  <2>5. ShotsInv'
    <3>1. /\ ~(step' <= 1)
          /\ (IF step' <= 1 THEN 0 ELSE IF step' <= 17 THEN 1 ELSE IF step' <= 22 THEN 2 ELSE 3)
               = (IF step <= 1 THEN 0 ELSE IF step <= 17 THEN 1 ELSE IF step <= 22 THEN 2 ELSE 3)
      BY <1>2, <2>1
    <3>2. UNCHANGED <<shots, record, actual>>
      BY <1>1
    <3> QED
      BY <1>a, <3>1, <3>2, Zenon DEF ShotsInv
  <2>6. ASSUME NEW r \in Records, Follows(r)'
        PROVE  /\ Changes(r) >= Seen(step + 1)
               /\ Changes(r) = Seen(step + 1) => (field[r] <=> Seen(step + 1) \in {1, 3, 5})
    <3>1. Follows(r) /\ r = record
      BY <1>1, <2>3, <2>6, ConstantsFit DEF Follows, Re4!RecordsAssumption
    <3>2. /\ Changes(r) >= Seen(step)
          /\ Changes(r) = Seen(step) => (field[r] <=> Seen(step) \in {1, 3, 5})
      BY <1>a, <3>1 DEF ChangesInv
    <3>3. Changes(r) \in Int
      BY <1>a, TakenFits DEF Changes, Re4Types
    <3>4. field[r] <=> step \in {11, 15}
      BY <2>2, <3>1
    <3>5. CASE step = 9
      BY <3>2, <3>5, Observations
    <3>6. CASE step = 11
      BY <3>2, <3>3, <3>4, <3>6, Observations
    <3>7. CASE step = 13
      BY <3>2, <3>3, <3>4, <3>7, Observations
    <3>8. CASE step = 15
      BY <3>2, <3>3, <3>4, <3>8, Observations
    <3>9. CASE step = 20
      BY <3>2, <3>3, <3>4, <3>9, Observations
    <3> QED
      BY <1>2, <3>5, <3>6, <3>7, <3>8, <3>9
  <2>7. Sent(step + 1) = Sent(step)
    BY <1>2, Tables
  <2>8. record' \in Records \cup {NoRecord} /\ step \in 0..22
    BY <1>1, <1>2, <2>3
  <2> QED
    BY <1>1, <1>2, <2>1, <2>4, <2>5, <2>6, <2>7, <2>8, ForwardKeeps
<1> QED
  BY <1>3, <1>4

\* A picture of the planet is taken when the keys before it have had their
\* effect.
LEMMA CaptureKeeps ==
  ASSUME Re4Inv, Re4!Capture
  PROVE  Re4Inv'
<1>a. Re4Types /\ QueueInv /\ HeldInv /\ ChangesInv /\ ShotsInv
  BY DEF Re4Inv
<1>1. UNCHANGED <<field, screen, painted, selected, queue, blips, snapshots, record>>
  BY DEF Re4!Capture, Re4!game
<1>2. /\ step \in {1, 17, 22} /\ result = "none" /\ Re4!Script[step] = "shot" /\ step \in 1..23
  BY Steps DEF Re4!Capture, Re4!At
<1>3. CASE UNCHANGED <<shots, actual>> /\ Re4!Fail
  BY <1>1, <1>2, <1>3, Re4FailKeeps DEF Re4!Fail
<1>4. CASE /\ shots' = Append(shots, screen) /\ actual' = Append(actual, field[Planet])
           /\ Re4!Forward
  <2>1. step' = step + 1 /\ result' = "none"
    BY <1>2, <1>4 DEF Re4!Forward
  <2>2. HeldInv'
    <3>1. /\ (step' <= 8 <=> step <= 8) /\ (step' > 8 <=> step > 8)
          /\ (IF step' <= 3 THEN 0 ELSE IF step' <= 5 THEN 1 ELSE IF step' <= 7 THEN 2 ELSE 3)
               = (IF step <= 3 THEN 0 ELSE IF step <= 5 THEN 1 ELSE IF step <= 7 THEN 2 ELSE 3)
      BY <1>2, <2>1
    <3>2. UNCHANGED <<snapshots, record>>
      BY <1>1
    <3>3. Follows(record)' <=> Follows(record)
      BY <3>2 DEF Follows
    <3> QED
      BY <1>a, <3>1, <3>2, <3>3, Zenon DEF HeldInv
  <2>3. Sent(step + 1) = Sent(step) /\ Seen(step + 1) = Seen(step)
    BY <1>2, Tables, MoreTables, Observations DEF Seen, SeenAt
  <2>4. \A r \in Records : Follows(r)' =>
             /\ Changes(r) >= Seen(step + 1)
             /\ Changes(r) = Seen(step + 1) => (field[r] <=> Seen(step + 1) \in {1, 3, 5})
    BY <1>1, <1>a, <2>3 DEF ChangesInv, Follows
  <2>5. Planet \in Records /\ NoRecord \notin Records
    BY ConstantsFit DEF Re4!RecordsAssumption
  \* What the planet's field is when the picture is taken.
  <2>6. Follows(Planet) => /\ Pressed(Taken) >= Seen(step)
                           /\ Pressed(Taken) = Seen(step) => (field[Planet] <=> Seen(step) \in {1, 3, 5})
    BY <1>a, <2>5 DEF ChangesInv, Changes
  <2>7. field[Planet] \in BOOLEAN /\ screen \in {"manual", "managed", "planet"}
    BY <1>a, <2>5 DEF Re4Types
  <2>8. /\ shots \in Seq({"manual", "managed", "planet"}) /\ actual \in Seq(BOOLEAN)
        /\ Len(actual) = Len(shots)
        /\ Len(shots) = (IF step <= 1 THEN 0 ELSE IF step <= 17 THEN 1 ELSE IF step <= 22 THEN 2 ELSE 3)
    BY <1>a DEF ShotsInv
  <2>9. /\ shots' \in Seq({"manual", "managed", "planet"}) /\ Len(shots') = Len(shots) + 1
        /\ shots'[Len(shots) + 1] = screen /\ \A i \in 1..Len(shots) : shots'[i] = shots[i]
    BY <1>4, <2>7, <2>8
  <2>10. /\ actual' \in Seq(BOOLEAN) /\ Len(actual') = Len(actual) + 1
         /\ actual'[Len(actual) + 1] = field[Planet]
         /\ \A i \in 1..Len(actual) : actual'[i] = actual[i]
    BY <1>4, <2>7, <2>8
  <2>11. /\ shots' \in Seq({"manual", "managed", "planet"}) /\ actual' \in Seq(BOOLEAN)
         /\ Len(shots') = (IF step' <= 1 THEN 0 ELSE IF step' <= 17 THEN 1 ELSE IF step' <= 22 THEN 2 ELSE 3)
         /\ Len(actual') = Len(shots')
         /\ step' <= 1 => screen' # "managed"
    BY <1>2, <2>1, <2>8, <2>9, <2>10
  <2>12. Len(shots) \in Nat /\ record' = record
    BY <1>1, <2>8
  <2>13. ASSUME step = 1 PROVE ShotsInv'
    <3>1. Len(shots) = 0 /\ Len(snapshots) = 0 /\ record = NoRecord /\ screen # "managed"
      BY <1>a, <2>8, <2>13 DEF HeldInv, ShotsInv
    <3>2. Taken = 0 /\ Seen(step) = 0
      BY <2>13, TakenFits, MoreTables
    <3>3. Pressed(Taken) = 0
      BY <3>2 DEF Pressed, PressedBy
    <3>4. ~field[Planet]
      BY <2>6, <3>1, <3>2, <3>3 DEF Follows
    <3>5. shots'[1] # "managed" /\ ~actual'[1]
      BY <2>8, <2>9, <2>10, <3>1, <3>4
    <3>6. ~(Len(shots') > 1) /\ ~(Len(shots') > 2)
      BY <2>9, <3>1
    <3>7. /\ Len(shots') > 0 => shots'[1] # "managed" /\ ~actual'[1]
          /\ Len(shots') > 1 /\ record' = Planet => actual'[2]
          /\ Len(shots') > 2 /\ record' = Planet => ~actual'[3]
      BY <3>5, <3>6, Zenon
    <3> QED
      BY <2>11, <3>7 DEF ShotsInv
  <2>14. ASSUME step = 17 PROVE ShotsInv'
    <3>1. /\ Len(shots) = 1 /\ Len(actual) = 1 /\ record \in Records /\ Follows(record)
          /\ shots[1] # "managed" /\ ~actual[1]
      BY <1>a, <2>8, <2>14 DEF HeldInv, ShotsInv
    <3>2. Pressed(Taken) <= 5 /\ Seen(step) = 5 /\ Pressed(Taken) \in Int
      BY <2>14, TakenFits, Observations
    <3>3. record = Planet => field[Planet]
      BY <2>6, <3>1, <3>2
    <3>4. shots'[1] = shots[1] /\ actual'[1] = actual[1] /\ actual'[2] = field[Planet]
      BY <2>9, <2>10, <3>1
    <3>5. (shots'[1] # "managed" /\ ~actual'[1]) /\ (record' = Planet => actual'[2])
      BY <2>12, <3>1, <3>3, <3>4, Zenon
    <3>6. ~(Len(shots') > 2)
      BY <2>9, <3>1
    <3>7. /\ Len(shots') > 0 => shots'[1] # "managed" /\ ~actual'[1]
          /\ Len(shots') > 1 /\ record' = Planet => actual'[2]
          /\ Len(shots') > 2 /\ record' = Planet => ~actual'[3]
      BY <3>5, <3>6, Zenon
    <3> QED
      BY <2>11, <3>7 DEF ShotsInv
  <2>15. ASSUME step = 22 PROVE ShotsInv'
    <3>1. /\ Len(shots) = 2 /\ Len(actual) = 2 /\ record \in Records /\ Follows(record)
          /\ shots[1] # "managed" /\ ~actual[1] /\ (record = Planet => actual[2])
      BY <1>a, <2>8, <2>15 DEF HeldInv, ShotsInv
    <3>2. Pressed(Taken) <= 6 /\ Seen(step) = 6 /\ Pressed(Taken) \in Int
      BY <2>15, TakenFits, Observations
    <3>3. record = Planet => ~field[Planet]
      BY <2>6, <3>1, <3>2
    <3>4. /\ shots'[1] = shots[1] /\ actual'[1] = actual[1] /\ actual'[2] = actual[2]
          /\ actual'[3] = field[Planet]
      BY <2>9, <2>10, <3>1
    <3>5. /\ shots'[1] # "managed" /\ ~actual'[1]
          /\ (record' = Planet => actual'[2]) /\ (record' = Planet => ~actual'[3])
      BY <2>12, <3>1, <3>3, <3>4, Zenon
    <3>7. /\ Len(shots') > 0 => shots'[1] # "managed" /\ ~actual'[1]
          /\ Len(shots') > 1 /\ record' = Planet => actual'[2]
          /\ Len(shots') > 2 /\ record' = Planet => ~actual'[3]
      BY <3>5, Zenon
    <3> QED
      BY <2>11, <3>7 DEF ShotsInv
  <2>16. record' \in Records \cup {NoRecord} /\ step \in 0..22
    BY <1>1, <1>2, <1>a DEF Re4Types
  <2> QED
    BY <1>1, <1>2, <2>1, <2>2, <2>3, <2>4, <2>13, <2>14, <2>15, <2>16, ForwardKeeps
<1> QED
  BY <1>3, <1>4 DEF Re4!Capture

\* The verdict is passed only by pictures that show what they should.
LEMMA JudgeKeeps ==
  ASSUME Re4Inv, Re4!Judge
  PROVE  Re4Inv'
<1>a. Re4Types /\ QueueInv /\ HeldInv /\ ChangesInv /\ ShotsInv
  BY DEF Re4Inv
<1>1. UNCHANGED <<field, screen, painted, selected, queue, blips, snapshots, shots, record, actual>>
  BY DEF Re4!Judge, Re4!game
<1>2. step = 23 /\ result = "none"
  BY Steps DEF Re4!Judge, Re4!At
<1>3. CASE Re4!Shows
  <2>1. step' = 24 /\ result' = "passed"
    BY <1>2, <1>3 DEF Re4!Judge
  <2>2. Sent(24) = Sent(23) /\ Seen(24) = Seen(23)
    BY Observations
  <2>3. Taken' = Taken
    BY <1>1, <1>2, <2>1, <2>2 DEF Taken
  <2>4. Re4Types'
    BY <1>a, <1>1, <2>1 DEF Re4Types
  <2>5. QueueInv'
    BY <1>a, <1>1, <1>2, <2>1, <2>2, <2>3 DEF QueueInv
  <2>6. \A r : Follows(r)' <=> Follows(r)
    BY <1>1 DEF Follows
  <2>7. HeldInv'
    <3>1. /\ ~(step' <= 8) /\ step > 8
          /\ (IF step' <= 3 THEN 0 ELSE IF step' <= 5 THEN 1 ELSE IF step' <= 7 THEN 2 ELSE 3) = 3
          /\ (IF step <= 3 THEN 0 ELSE IF step <= 5 THEN 1 ELSE IF step <= 7 THEN 2 ELSE 3) = 3
      BY <1>2, <2>1
    <3>2. UNCHANGED <<snapshots, record>>
      BY <1>1
    <3>3. Follows(record)' <=> Follows(record)
      BY <3>2 DEF Follows
    <3> QED
      BY <1>a, <3>1, <3>2, <3>3, Zenon DEF HeldInv
  <2>8. ChangesInv'
    BY <1>a, <1>1, <1>2, <2>1, <2>2, <2>3, <2>6 DEF ChangesInv, Changes
  <2>9. ShotsInv'
    <3>1. /\ ~(step' <= 1)
          /\ (IF step' <= 1 THEN 0 ELSE IF step' <= 17 THEN 1 ELSE IF step' <= 22 THEN 2 ELSE 3)
               = (IF step <= 1 THEN 0 ELSE IF step <= 17 THEN 1 ELSE IF step <= 22 THEN 2 ELSE 3)
      BY <1>2, <2>1
    <3>2. UNCHANGED <<shots, record, actual>>
      BY <1>1
    <3> QED
      BY <1>a, <3>1, <3>2, Zenon DEF ShotsInv
  <2>10. VerdictInv'
    BY <1>1, <1>3, <2>1 DEF VerdictInv, Re4!Shows
  <2> QED
    BY <2>4, <2>5, <2>7, <2>8, <2>9, <2>10 DEF Re4Inv
<1>4. CASE ~Re4!Shows
  BY <1>1, <1>2, <1>4, Re4FailKeeps DEF Re4!Judge, Re4!Fail
<1> QED
  BY <1>3, <1>4

\* Every step of the probe and of its game keeps the invariant.
LEMMA Re4StepKeeps ==
  ASSUME Re4Inv, Re4!Next
  PROVE  Re4Inv'
BY TakeInputKeeps, BlipKeeps, LaunchKeeps, SendInputKeeps, SnapshotKeeps, FindRecordKeeps,
   WaitFieldKeeps, CaptureKeeps, JudgeKeeps DEF Re4!Next

\* A record that is reported and is not the planet's has changed on its own at each of
\* six observations.
LEMMA StrayNeedsSix ==
  ASSUME Re4Inv, result = "passed", record # Planet
  PROVE  blips >= 6
<1>1. step = 24 /\ Seen(24) = 6
  BY Observations DEF Re4Inv, VerdictInv
<1>2. record \in Records /\ Follows(record)
  BY <1>1 DEF Re4Inv, HeldInv
<1> QED
  BY <1>1, <1>2 DEF Re4Inv, ChangesInv, Changes

\* When the record found is the planet's, the pictures show the mode the planet
\* was in.
LEMMA PicturesOfThePlanet ==
  ASSUME Re4Inv, result = "passed", record = Planet
  PROVE  \A i \in 1..3 : (shots[i] = "managed") <=> actual[i]
<1>1. step = 24 /\ shots[2] = "managed" /\ shots[1] # shots[2] /\ shots[3] = shots[1]
  BY DEF Re4Inv, VerdictInv, Re4!Shows
<1>2. Len(shots) = 3
  BY <1>1 DEF Re4Inv, ShotsInv
<1>3. actual[2] /\ ~actual[1] /\ ~actual[3]
  BY <1>2 DEF Re4Inv, ShotsInv
<1>4. \A i \in 1..3 : i = 1 \/ i = 2 \/ i = 3
  OBVIOUS
<1> QED
  BY <1>1, <1>3, <1>4
-----------------------------------------------------------------------------
(* The override witness.                                                    *)

\* A set of natural numbers that is not empty has a least element.
LEMMA Least ==
  ASSUME NEW T \in SUBSET Nat, T # {}
  PROVE  \E x \in T : \A y \in T : x <= y
<1> DEFINE R == {ss \in Nat \X Nat : ss[1] < ss[2]}
<1>1. IsWellFoundedOn(R, Nat)
  BY NatLessThanWellFounded, Zenon DEF OpToRel
<1> HIDE DEF R
<1>2. \E x \in T : \A y \in T : ~ (<<y, x>> \in R)
  BY <1>1, WFMin, Zenon
<1>3. \A x, y \in Nat : ~ (<<y, x>> \in R) => x <= y
  BY DEF R
<1> QED
  BY <1>2, <1>3

\* One that is bounded has a greatest.
LEMMA Greatest ==
  ASSUME NEW T \in SUBSET Nat, T # {}, NEW n \in Nat, \A t \in T : t <= n
  PROVE  \E x \in T : \A y \in T : y <= x
<1> DEFINE D == {n - t : t \in T}
<1>1. D \in SUBSET Nat /\ D # {}
  <2>1. \A t \in T : n - t \in Nat
    OBVIOUS
  <2> QED
    BY <2>1
<1>2. PICK d \in D : \A e \in D : d <= e
  BY <1>1, Least
<1>3. PICK x \in T : d = n - x
  OBVIOUS
<1>4. \A y \in T : y <= x
  BY <1>2, <1>3
<1> QED
  BY <1>4

\* What the samples of a window look like: each is taken before its own stamp, and
\* the sleep lies between a stamp and the next one.
Sampling ==
  /\ clock \in Nat /\ reads \in Seq(0..clock) /\ stamps \in Seq(0..clock)
  /\ Len(stamps) \in {Len(reads), Len(reads) - 1}
  /\ \A k \in 1..Len(stamps) : reads[k] <= stamps[k]
  /\ \A k \in 2..Len(reads) : reads[k] >= stamps[k - 1] + Interval

\* Of the reads before a stretch that lies between the second and the last, there is
\* a latest; the next one comes no more than the bound later.
LEMMA AStretchMeetsASample ==
  ASSUME Sampling, Len(stamps) = Len(reads), \A g \in Witness!Gaps : g <= MaxGap,
         NEW i \in Nat, NEW j \in Nat, i <= j, j - i + 1 >= 2 * MaxGap - Interval,
         Len(reads) >= 2, reads[2] < i, j < reads[Len(reads)]
  PROVE  \E k \in 1..Len(reads) : reads[k] \in i..j
<1>1. /\ MaxGap \in Nat /\ Interval \in Nat /\ Len(reads) \in Nat
      /\ \A k \in 1..Len(reads) : reads[k] \in Nat /\ stamps[k] \in Nat
  <2>1. MaxGap \in Nat /\ Interval \in Nat
    BY ConstantsFit DEF Witness!WitnessAssumption
  <2>2. clock \in Nat /\ reads \in Seq(0..clock) /\ stamps \in Seq(0..clock)
    BY DEF Sampling
  <2>3. \A k \in 1..Len(reads) : reads[k] \in 0..clock /\ stamps[k] \in 0..clock
    BY <2>2
  <2> QED
    BY <2>1, <2>2, <2>3
<1> DEFINE T == {k \in 1..Len(reads) : reads[k] < i}
<1>2. PICK k \in T : \A l \in T : l <= k
  <2>1. 2 \in T /\ T \in SUBSET Nat /\ \A l \in T : l <= Len(reads)
    BY <1>1
  <2> HIDE DEF T
  <2> QED
    BY <1>1, <2>1, Greatest
<1>3. k >= 2 /\ k < Len(reads) /\ k \in Nat
  <2>1. 2 \in T /\ Len(reads) \notin T
    BY <1>1
  <2> QED
    BY <1>1, <1>2, <2>1
<1>4. k + 1 \in 1..Len(reads) /\ k - 1 \in 1..Len(reads) /\ k + 1 \notin T /\ reads[k] < i
  BY <1>1, <1>2, <1>3
<1>5. reads[k + 1] >= i
  BY <1>1, <1>4
<1>6. stamps[k + 1] - stamps[k] <= MaxGap /\ stamps[k] - stamps[k - 1] <= MaxGap
  <2>1. k \in 1..Len(stamps) - 1 /\ k - 1 \in 1..Len(stamps) - 1
    BY <1>1, <1>3, <1>4
  <2>2. stamps[k + 1] - stamps[k] \in Witness!Gaps
    BY <2>1 DEF Witness!Gaps
  <2>3. stamps[(k - 1) + 1] - stamps[k - 1] \in Witness!Gaps
    BY <2>1 DEF Witness!Gaps
  <2>4. (k - 1) + 1 = k
    BY <1>3
  <2> QED
    BY <2>2, <2>3, <2>4
<1>7. reads[k] >= stamps[k - 1] + Interval /\ reads[k + 1] <= stamps[k + 1]
  BY <1>1, <1>3, <1>4 DEF Sampling
<1>8. /\ reads[k] \in Nat /\ reads[k + 1] \in Nat
      /\ stamps[k - 1] \in Nat /\ stamps[k] \in Nat /\ stamps[k + 1] \in Nat
  BY <1>1, <1>3, <1>4
<1>9. reads[k + 1] <= j
  <2>1. \A r, t, u, v, w \in Nat :
          /\ r < i /\ r >= u + Interval /\ t <= w /\ w - v <= MaxGap /\ v - u <= MaxGap
          => t <= j
    BY <1>1
  <2> QED
    BY <1>4, <1>6, <1>7, <1>8, <2>1
<1> QED
  BY <1>4, <1>5, <1>8, <1>9

\* When no gap between two stamps is longer than the bound and every sample was
\* clear, no pulse of twice the bound less the sleep passed between the samples.
LEMMA SampledStretch ==
  ASSUME Sampling, Len(stamps) = Len(reads), \A g \in Witness!Gaps : g <= MaxGap, Witness!SeenClear
  PROVE  Witness!NoLongPulseIsMissed
<1>1. ASSUME NEW i \in 0..clock, NEW j \in i..clock, j - i + 1 >= 2 * MaxGap - Interval,
             Len(reads) >= 2, reads[2] < i, j < Witness!Last(reads)
      PROVE  \E t \in i..j : clear[t]
  <2>1. i \in Nat /\ j \in Nat /\ i <= j /\ j < reads[Len(reads)]
    BY <1>1 DEF Sampling, Witness!Last
  <2>2. PICK k \in 1..Len(reads) : reads[k] \in i..j
    BY <1>1, <2>1, AStretchMeetsASample
  <2>3. reads[k] \in Witness!ToSet(reads)
    <3>1. DOMAIN reads = 1..Len(reads)
      BY DEF Sampling
    <3> QED
      BY <3>1 DEF Witness!ToSet
  <2>4. clear[reads[k]]
    BY <2>3 DEF Witness!SeenClear
  <2> QED
    BY <2>2, <2>4
<1> QED
  BY <1>1 DEF Witness!NoLongPulseIsMissed

WitnessInv ==
  /\ Sampling
  /\ pc = "after" => Len(stamps) = Len(reads)
  /\ result = "passed" => /\ pc = "done" /\ Len(stamps) = Len(reads)
                          /\ \A g \in Witness!Gaps : g <= MaxGap
                          /\ Witness!SeenClear

\* A sample lies after the stamp before it, and its stamp after it.
LEMMA SamplingKeeps ==
  ASSUME Sampling, Witness!ReadInWindow \/ Witness!Stamp \/ Witness!Tick
  PROVE  Sampling'
<1>a. /\ clock \in Nat /\ Interval \in Nat /\ Len(reads) \in Nat /\ Len(stamps) \in Nat
      /\ reads \in Seq(0..clock) /\ stamps \in Seq(0..clock)
      /\ \A k \in 1..Len(reads) : reads[k] \in 0..clock
  BY ConstantsFit DEF Sampling, Witness!WitnessAssumption
<1>1. CASE Witness!ReadInWindow
  <2>1. /\ Len(reads) = Len(stamps) /\ UNCHANGED <<clock, stamps>>
        /\ stamps # << >> => clock >= stamps[Len(stamps)] + Interval
        /\ reads' \in {reads, Append(reads, clock)}
    BY <1>1 DEF Witness!ReadInWindow, Witness!Last
  <2>2. CASE reads' = reads
    BY <2>1, <2>2 DEF Sampling
  <2>3. CASE reads' = Append(reads, clock)
    <3>1. /\ reads' \in Seq(0..clock) /\ Len(reads') = Len(reads) + 1
          /\ \A k \in 1..Len(reads) : reads'[k] = reads[k]
          /\ reads'[Len(reads) + 1] = clock
      BY <1>a, <2>3
    <3>2. \A k \in 1..Len(stamps)' : reads'[k] <= stamps'[k]
      BY <2>1, <3>1 DEF Sampling
    <3>3. ASSUME NEW k \in 2..Len(reads')
          PROVE  reads'[k] >= stamps'[k - 1] + Interval
      <4>1. CASE k \in 2..Len(reads)
        BY <2>1, <3>1, <4>1 DEF Sampling
      <4>2. CASE k = Len(reads) + 1
        <5>1. stamps # << >> /\ k - 1 = Len(stamps)
          BY <1>a, <2>1, <3>3, <4>2
        <5> QED
          BY <2>1, <3>1, <4>2, <5>1
      <4> QED
        BY <1>a, <3>1, <3>3, <4>1, <4>2
    <3> QED
      BY <1>a, <2>1, <3>1, <3>2, <3>3 DEF Sampling
  <2> QED
    BY <2>1, <2>2, <2>3
<1>2. CASE Witness!Stamp
  <2>1. /\ Len(reads) = Len(stamps) + 1 /\ UNCHANGED <<clock, reads>>
        /\ stamps' = Append(stamps, clock)
    BY <1>2 DEF Witness!Stamp
  <2>2. /\ stamps' \in Seq(0..clock) /\ Len(stamps') = Len(stamps) + 1
        /\ \A k \in 1..Len(stamps) : stamps'[k] = stamps[k]
        /\ stamps'[Len(stamps) + 1] = clock
    BY <1>a, <2>1
  <2>3. ASSUME NEW k \in 1..Len(stamps') PROVE reads'[k] <= stamps'[k]
    <3>1. CASE k \in 1..Len(stamps)
      BY <2>1, <2>2, <3>1 DEF Sampling
    <3>2. CASE k = Len(stamps) + 1
      <4>1. reads[k] \in 0..clock
        BY <1>a, <2>1, <3>2
      <4> QED
        BY <2>1, <2>2, <3>2, <4>1
    <3> QED
      BY <1>a, <2>2, <2>3, <3>1, <3>2
  <2>4. ASSUME NEW k \in 2..Len(reads') PROVE reads'[k] >= stamps'[k - 1] + Interval
    <3>1. k - 1 \in 1..Len(stamps) /\ k \in 2..Len(reads)
      BY <1>a, <2>1, <2>4
    <3> QED
      BY <2>1, <2>2, <3>1 DEF Sampling
  <2> QED
    BY <1>a, <2>1, <2>2, <2>3, <2>4 DEF Sampling
<1>3. CASE Witness!Tick
  <2>1. clock' = clock + 1 /\ UNCHANGED <<reads, stamps>>
    BY <1>3 DEF Witness!Tick
  <2>2. reads' \in Seq(0..clock') /\ stamps' \in Seq(0..clock')
    BY <1>a, <2>1
  <2> QED
    BY <1>a, <2>1, <2>2 DEF Sampling
<1> QED
  BY <1>1, <1>2, <1>3

\* Every step of the witness and of its game keeps the invariant.
LEMMA WitnessStepKeeps ==
  ASSUME WitnessInv, Witness!Next
  PROVE  WitnessInv'
<1>1. CASE Witness!ReadInWindow \/ Witness!Stamp \/ Witness!Tick
  <2>1. pc = "window" /\ pc' \in {"window", "done"} /\ result' \in {result, "raised"}
    BY <1>1 DEF Witness!ReadInWindow, Witness!Stamp, Witness!Tick, Witness!Raise
  <2>2. Sampling'
    BY <1>1, SamplingKeeps DEF WitnessInv
  <2> QED
    BY <2>1, <2>2 DEF WitnessInv
<1>2. CASE Witness!Locate \/ Witness!SampleBefore
  <2>1. /\ pc \in {"launch", "before"} /\ pc' \in {"before", "window", "done"}
        /\ UNCHANGED <<clock, reads, stamps>> /\ result' \in {result, "raised"}
    BY <1>2 DEF Witness!Locate, Witness!SampleBefore, Witness!Raise
  <2> QED
    BY <2>1 DEF WitnessInv, Sampling
<1>3. CASE Witness!CloseWindow
  <2>1. /\ pc = "window" /\ Len(stamps) = Len(reads) /\ UNCHANGED <<clock, reads, stamps, result>>
    BY <1>3 DEF Witness!CloseWindow
  <2> QED
    BY <2>1 DEF WitnessInv, Sampling
<1>4. CASE Witness!SampleAfter
  <2>1. /\ pc = "after" /\ pc' = "done" /\ UNCHANGED <<clock, clear, reads, stamps>>
        /\ result' = "passed" => Witness!Evaluates
    BY <1>4 DEF Witness!SampleAfter, Witness!Raise
  <2>2. Witness!Gaps' = Witness!Gaps /\ (Witness!SeenClear' <=> Witness!SeenClear)
    BY <2>1 DEF Witness!Gaps, Witness!SeenClear
  <2>3. Sampling'
    BY <2>1 DEF WitnessInv, Sampling
  <2> QED
    BY <2>1, <2>2, <2>3 DEF WitnessInv, Witness!Evaluates
<1> QED
  BY <1>1, <1>2, <1>3, <1>4 DEF Witness!Next
-----------------------------------------------------------------------------
(* The relocation of the watched instruction.                               *)

\* The one relocation at the site is the only one to write the address in the
\* instruction when no other overlaps it.
LEMMA OneRelocation ==
  ASSUME gate \in Gate!Gates, Gate!Relates(gate)
  PROVE  \/ Gate!Loaded(gate) = Gate!Bytes(Expected)
         \/ \E f \in Gate!ToSet(gate.fixups) : f.at # Gate!Site /\ Gate!Site - f.at \in -3..3
<1> SUFFICES ASSUME \A f \in Gate!ToSet(gate.fixups) :
                      f.at # Gate!Site => ~ (Gate!Site - f.at \in -3..3)
             PROVE  Gate!Loaded(gate) = Gate!Bytes(Expected)
  OBVIOUS
<1>1. PICK n \in 0..2 : gate.fixups \in [1..n -> Gate!Fixups]
  BY DEF Gate!Gates
<1>2. DOMAIN gate.fixups = 1..n /\ \A i \in 1..n : gate.fixups[i] \in Gate!Fixups
  BY <1>1
<1>3. \A i \in 1..n : gate.fixups[i].at \in Nat
  BY <1>2, ConstantsFit DEF Gate!Fixups, Gate!GateAssumption
<1>4. PICK k : Gate!AtSite(gate) = {k}
  <2>1. Cardinality(Gate!AtSite(gate)) = 1
    BY DEF Gate!Relates, Gate!Cardinality, Cardinality
  <2>2. IsFiniteSet(Gate!AtSite(gate))
    <3>1. Gate!AtSite(gate) \subseteq 1..n /\ IsFiniteSet(1..n)
      BY <1>2, FS_Interval DEF Gate!AtSite
    <3> QED
      BY <3>1, FS_Subset
  <2> QED
    BY <2>1, <2>2, FS_Singleton
<1>5. k \in 1..n /\ gate.fixups[k].at = Gate!Site
  BY <1>2, <1>4 DEF Gate!AtSite
<1>6. Gate!Address(gate.fixups[k]) = Expected
  <2>1. (CHOOSE i \in Gate!AtSite(gate) : TRUE) = k
    BY <1>4
  <2> QED
    BY <2>1 DEF Gate!Relates
<1>7. ASSUME NEW i \in 1..n, NEW b \in 0..3, Gate!Site + b - gate.fixups[i].at \in 0..3
      PROVE  i = k
  <2>1. gate.fixups[i] \in Gate!ToSet(gate.fixups)
    BY <1>2 DEF Gate!ToSet
  <2>2. Gate!Site - gate.fixups[i].at \in -3..3
    BY <1>3, <1>7 DEF Gate!Site
  <2>3. gate.fixups[i].at = Gate!Site
    BY <2>1, <2>2
  <2> QED
    BY <1>2, <1>4, <2>3 DEF Gate!AtSite
<1>8. ASSUME NEW b \in 0..3 PROVE Gate!Writing(gate, b) = {k}
  <2>1. Gate!Site + b - gate.fixups[k].at \in 0..3
    BY <1>5 DEF Gate!Site
  <2> QED
    BY <1>2, <1>5, <1>7, <2>1 DEF Gate!Writing
<1>9. Gate!Highest({k}) = k
  BY <1>5 DEF Gate!Highest
<1>10. ASSUME NEW b \in 0..3
       PROVE  Gate!Site + b - gate.fixups[k].at = b
  BY <1>5 DEF Gate!Site
<1>11. \A b \in 0..3 :
         (IF Gate!Writing(gate, b) = {} THEN Gate!Byte(gate.raw, b)
          ELSE LET f == gate.fixups[Gate!Highest(Gate!Writing(gate, b))]
               IN  Gate!Byte(Gate!Address(f), Gate!Site + b - f.at))
         = Gate!Byte(Expected, b)
  BY <1>6, <1>8, <1>9, <1>10, Zenon
<1> QED
  BY <1>11, Zenon DEF Gate!Loaded, Gate!Bytes

GateInv ==
  /\ gate \in Gate!Gates /\ verdict \in {"none", "related", "refused"}
  /\ verdict = "related" => Gate!Relates(gate)

\* Validation gives its verdict about the relocations it is shown.
LEMMA ValidateKeeps ==
  ASSUME GateInv, Gate!Validate
  PROVE  GateInv'
BY DEF GateInv, Gate!Validate

\* What was related is what the loaded instruction has, or is overlapped.
LEMMA GateInvSuffices ==
  ASSUME GateInv
  PROVE  Gate!RelatedIsLoaded
BY OneRelocation, Zenon DEF GateInv, Gate!RelatedIsLoaded
-----------------------------------------------------------------------------
(* The capacity observation.                                                *)

\* Zero bytes between two that are not: moved by at most its length, the range would
\* show the nearest of them under a zero of the file.
LEMMA GuardsPin ==
  ASSUME body \in Capacity!Bodies, shift \in Capacity!Shifts, Capacity!Unwritten,
         Capacity!Contract(body), Capacity!GuardsMatch
  PROVE  shift = 0
<1>1. Length \in Nat /\ Margin \in Nat /\ Start \in Nat /\ Size \in Nat \ {0} /\ Guard \in Nat \ {0}
  BY ConstantsFit DEF Capacity!CapacityAssumption
<1>2. Start >= Guard /\ Start + Size + Guard <= Length /\ shift \in -Size..Size
  BY DEF Capacity!Contract, Capacity!Shifts
<1>3. body \in [0..Length - 1 -> {0, 1}]
  BY DEF Capacity!Bodies
<1>4. \A k \in Start..Start + Size - 1 : body[k] = 0
  <2> SUFFICES ASSUME NEW k \in Start..Start + Size - 1 PROVE body[k] = 0
    OBVIOUS
  <2>1. k - Start \in 0..Size - 1 /\ Start + (k - Start) = k
    BY <1>1
  <2>2. Capacity!Slice(body, Start, Size)[k - Start] = body[k]
    BY <2>1 DEF Capacity!Slice
  <2>3. k - Start \in DOMAIN Capacity!Slice(body, Start, Size)
    BY <2>1 DEF Capacity!Slice
  <2> QED
    BY <2>2, <2>3 DEF Capacity!Contract, Capacity!Any
<1>5. \E k \in Start - Guard..Start - 1 : body[k] # 0
  <2>1. PICK i \in 0..Guard - 1 : body[Start - Guard + i] # 0
    BY DEF Capacity!Contract, Capacity!Any, Capacity!Slice
  <2> QED
    BY <1>1, <2>1
<1>6. \E k \in Start + Size..Start + Size + Guard - 1 : body[k] # 0
  <2>1. PICK i \in 0..Guard - 1 : body[Start + Size + i] # 0
    BY DEF Capacity!Contract, Capacity!Any, Capacity!Slice
  <2> QED
    BY <1>1, <2>1
<1>9. \A k \in 0..Length - 1 : k \in Capacity!Mapping /\ memory[k] = body[k]
  BY <1>1, <1>3 DEF Capacity!Unwritten, Capacity!Mapping
<1>7. \A k \in Start - Guard..Start - 1 : k + shift \in 0..Length - 1 => body[k + shift] = body[k]
  <2> SUFFICES ASSUME NEW k \in Start - Guard..Start - 1, k + shift \in 0..Length - 1
               PROVE  body[k + shift] = body[k]
    OBVIOUS
  <2>1. /\ k - Start + Guard \in 0..Guard - 1 /\ Start - Guard + (k - Start + Guard) = k
        /\ Start + shift - Guard + (k - Start + Guard) = k + shift
    BY <1>1, <1>2
  <2>2. Capacity!Reads(k + shift, body[k])
    BY <2>1 DEF Capacity!GuardsMatch
  <2> QED
    BY <1>9, <2>2 DEF Capacity!Reads
<1>8. \A k \in Start + Size..Start + Size + Guard - 1 :
        k + shift \in 0..Length - 1 => body[k + shift] = body[k]
  <2> SUFFICES ASSUME NEW k \in Start + Size..Start + Size + Guard - 1, k + shift \in 0..Length - 1
               PROVE  body[k + shift] = body[k]
    OBVIOUS
  <2>1. /\ k - Start - Size \in 0..Guard - 1 /\ Start + Size + (k - Start - Size) = k
        /\ Start + shift + Size + (k - Start - Size) = k + shift
    BY <1>1, <1>2
  <2>2. Capacity!Reads(k + shift, body[k])
    BY <2>1 DEF Capacity!GuardsMatch
  <2> QED
    BY <1>9, <2>2 DEF Capacity!Reads
<1>10. CASE shift > 0
  <2> DEFINE A == {k \in Start - Guard..Start - 1 : body[k] # 0}
  <2>1. A \in SUBSET Nat /\ A # {} /\ \A k \in A : k <= Start
    BY <1>1, <1>2, <1>5
  <2>2. PICK a \in A : \A k \in A : k <= a
    <3> HIDE DEF A
    <3> QED
      BY <1>1, <2>1, Greatest
  <2>3. \A k \in a + 1..Start + Size - 1 : body[k] = 0
    BY <1>1, <1>4, <2>2
  <2>4. a + shift \in a + 1..Start + Size - 1 /\ a + shift \in 0..Length - 1
    BY <1>1, <1>2, <1>10
  <2> QED
    BY <1>7, <2>3, <2>4
<1>11. CASE shift < 0
  <2> DEFINE B == {k \in Start + Size..Start + Size + Guard - 1 : body[k] # 0}
  <2>1. B \in SUBSET Nat /\ B # {}
    BY <1>1, <1>6
  <2>2. PICK b \in B : \A k \in B : b <= k
    <3> HIDE DEF B
    <3> QED
      BY <2>1, Least
  <2>3. \A k \in Start..b - 1 : body[k] = 0
    BY <1>1, <1>4, <2>2
  <2>4. b + shift \in Start..b - 1 /\ b + shift \in 0..Length - 1
    BY <1>1, <1>2, <1>11
  <2> QED
    BY <1>8, <2>3, <2>4
<1> QED
  BY <1>2, <1>10, <1>11

Early == {"contract", "guards", "initial"}

CapacityInv ==
  /\ body \in Capacity!Bodies /\ memory \in Capacity!Mappings /\ shift \in Capacity!Shifts
  /\ date \in 0..1 /\ differed \in BOOLEAN
  /\ pc \in {"contract", "guards", "initial", "window", "judge", "verify", "passed", "failed"}
  /\ pc = "guards" => Capacity!Contract(body)
  /\ pc \notin {"contract", "guards", "failed"} => Capacity!HostRange(shift)
  /\ samples \in Seq([0..Size - 1 -> {0, 1}]) /\ dates \in Seq(0..1)
  /\ Len(dates) = Len(samples) /\ Len(samples) <= MaxSamples + 1
  /\ pc \in Early => samples = << >> /\ ~differed
  /\ pc \in {"window", "judge", "verify", "passed"} => samples # << >>
  /\ differed => \E i \in DOMAIN samples : samples[i] # samples[1]
  /\ report \in Capacity!Reports \cup {<< >>}
  /\ pc \in {"verify", "passed"} => /\ report = Capacity!Summary
                                    /\ dates[Len(dates)] > dates[1]

\* The invariant of the capacity run holds what the run promises.
LEMMA CapacityInvSuffices ==
  ASSUME CapacityInv
  PROVE  Capacity!TypeOK /\ Capacity!GuardsPinTheRange /\ Capacity!NoSeenChangeIsLost
<1>1. Capacity!TypeOK
  BY DEF CapacityInv, Capacity!TypeOK
<1>2. Capacity!GuardsPinTheRange
  BY GuardsPin DEF CapacityInv, Capacity!GuardsPinTheRange
<1>3. Capacity!NoSeenChangeIsLost
  <2> SUFFICES ASSUME pc = "passed"
               PROVE  /\ differed => report.differs
                      /\ Len(samples) > 1 /\ \E i \in DOMAIN dates : dates[i] # dates[1]
    BY DEF Capacity!NoSeenChangeIsLost
  <2>1. report = Capacity!Summary /\ (differed => \E i \in DOMAIN samples : samples[i] # samples[1])
    BY DEF CapacityInv
  <2>2. differed => report.differs
    BY <2>1, Zenon DEF Capacity!Summary
  <2>3. /\ dates[Len(dates)] > dates[1] /\ dates \in Seq(0..1)
        /\ Len(dates) = Len(samples) /\ Len(dates) # 0
    BY DEF CapacityInv
  <2>4. dates[Len(dates)] \in 0..1 /\ dates[1] \in 0..1
    BY <2>3
  <2>5. Len(dates) > 1 /\ Len(dates) \in DOMAIN dates /\ dates[Len(dates)] # dates[1]
    BY <2>3, <2>4
  <2> QED
    BY <2>2, <2>3, <2>5
<1> QED
  BY <1>1, <1>2, <1>3

\* A capacity run starts in its invariant, whatever the shift of the mapping.
LEMMA CapacityInitial ==
  ASSUME Capacity!Init
  PROVE  CapacityInv
<1>1. MaxSamples \in Nat
  BY ConstantsFit DEF Capacity!CapacityAssumption
<1>2. /\ body \in Capacity!Bodies /\ memory \in Capacity!Mappings /\ shift \in Capacity!Shifts
      /\ samples = << >> /\ dates = << >> /\ report = << >> /\ differed = FALSE
      /\ pc = "contract" /\ date \in 0..1
  BY DEF Capacity!Init
<1>3. /\ samples \in Seq([0..Size - 1 -> {0, 1}]) /\ dates \in Seq(0..1)
      /\ Len(dates) = Len(samples) /\ Len(samples) <= MaxSamples + 1
  BY <1>1, <1>2
<1> QED
  BY <1>2, <1>3 DEF CapacityInv, Early

\* A capacity run that gives up promises nothing.
LEMMA CapacityFailKeeps ==
  ASSUME CapacityInv, Capacity!Fail,
         UNCHANGED <<body, memory, shift, date>>
  PROVE  CapacityInv'
<1>1. /\ pc' = "failed"
      /\ UNCHANGED <<body, memory, shift, date, samples, dates, report, differed>>
  BY DEF Capacity!Fail
<1> QED
  BY <1>1 DEF CapacityInv, Early

\* A sample is kept with the date read beside it, or ends the run.
LEMMA SampleKeeps ==
  ASSUME CapacityInv, Capacity!Sample
  PROVE  CapacityInv'
<1>1. CASE Capacity!Fail
  BY <1>1, CapacityFailKeeps DEF Capacity!Sample
<1>2. CASE ~Capacity!Fail
  <2>1. /\ samples' = Append(samples, Capacity!Watched) /\ dates' = Append(dates, date)
        /\ differed' = (differed \/ (samples # << >> /\ samples[1] # Capacity!Watched))
        /\ pc' = "window" /\ UNCHANGED <<body, memory, shift, date, report>>
    BY <1>2 DEF Capacity!Sample
  <2>2. pc \in {"initial", "window"} /\ Len(samples) <= MaxSamples /\ MaxSamples \in Nat
    BY ConstantsFit DEF Capacity!Sample, CapacityInv, Early, Capacity!CapacityAssumption
  <2>3. Capacity!Watched \in [0..Size - 1 -> {0, 1}]
    <3>1. /\ Start + shift >= -Margin /\ Start + shift + Size <= Length + Margin /\ shift \in Int
          /\ Start \in Nat /\ Length \in Nat /\ Size \in Nat /\ Margin \in Nat
      BY <2>2, ConstantsFit
      DEF CapacityInv, Capacity!HostRange, Capacity!Shifts, Capacity!CapacityAssumption
    <3>2. \A i \in 0..Size - 1 : Start + shift + i \in Capacity!Mapping
      BY <3>1 DEF Capacity!Mapping
    <3>3. memory \in [Capacity!Mapping -> {0, 1}]
      BY DEF CapacityInv, Capacity!Mappings
    <3> QED
      BY <3>2, <3>3 DEF Capacity!Watched, Capacity!Slice
  <2>4. /\ samples \in Seq([0..Size - 1 -> {0, 1}]) /\ dates \in Seq(0..1) /\ date \in 0..1
        /\ Len(dates) = Len(samples)
    BY DEF CapacityInv
  <2>5. /\ samples' \in Seq([0..Size - 1 -> {0, 1}]) /\ dates' \in Seq(0..1)
        /\ Len(dates') = Len(samples') /\ Len(samples') = Len(samples) + 1
        /\ samples'[Len(samples) + 1] = Capacity!Watched
        /\ \A i \in 1..Len(samples) : samples'[i] = samples[i]
    BY <2>1, <2>3, <2>4
  <2>6. samples' # << >> /\ Len(samples') <= MaxSamples + 1
    BY <2>2, <2>4, <2>5
  <2>7. differed' => \E i \in DOMAIN samples' : samples'[i] # samples'[1]
    <3>1. CASE samples = << >>
      <4>1. ~differed
        BY <3>1 DEF CapacityInv
      <4> QED
        BY <2>1, <3>1, <4>1
    <3>2. CASE samples # << >>
      <4>1. samples'[1] = samples[1] /\ DOMAIN samples' = 1..Len(samples) + 1
            /\ DOMAIN samples = 1..Len(samples)
        BY <2>4, <2>5, <3>2
      <4>2. CASE differed
        <5>1. PICK i \in 1..Len(samples) : samples[i] # samples[1]
          BY <4>1, <4>2 DEF CapacityInv
        <5> QED
          BY <2>4, <2>5, <4>1, <5>1
      <4>3. CASE samples[1] # Capacity!Watched
        BY <2>4, <2>5, <4>1, <4>3
      <4> QED
        BY <2>1, <4>2, <4>3
    <3> QED
      BY <3>1, <3>2
  <2>8. differed' \in BOOLEAN
    BY <2>1 DEF CapacityInv
  <2>9. /\ body' \in Capacity!Bodies /\ memory' \in Capacity!Mappings /\ shift' \in Capacity!Shifts
        /\ date' \in 0..1 /\ Capacity!HostRange(shift') /\ report' \in Capacity!Reports \cup {<< >>}
    BY <2>1, <2>2 DEF CapacityInv
  <2>10. pc' = "window"
    BY <2>1
  <2> QED
    BY <2>5, <2>6, <2>7, <2>8, <2>9, <2>10 DEF CapacityInv, Early
<1> QED
  BY <1>1, <1>2

\* The verdict sums up all samples, and only when the date has moved.
LEMMA CapacityJudgeKeeps ==
  ASSUME CapacityInv, Capacity!Judge
  PROVE  CapacityInv'
<1>1. CASE Capacity!Fail
  BY <1>1, CapacityFailKeeps DEF Capacity!Judge
<1>2. CASE ~Capacity!Fail
  <2>1. /\ dates[Len(dates)] > dates[1] /\ report' = Capacity!Summary /\ pc = "judge" /\ pc' = "verify"
        /\ UNCHANGED <<samples, dates, differed, body, memory, shift, date>>
    BY <1>2 DEF Capacity!Judge
  <2>2. Capacity!Summary' = Capacity!Summary
    BY <2>1 DEF Capacity!Summary
  <2>3. Capacity!Summary \in Capacity!Reports
    BY DEF Capacity!Summary, Capacity!Reports, Capacity!Any
  <2>4. report' = Capacity!Summary' /\ report' \in Capacity!Reports \cup {<< >>}
    BY <2>1, <2>2, <2>3
  <2> HIDE DEF Capacity!Summary
  <2> QED
    BY <2>1, <2>4 DEF CapacityInv, Early
<1> QED
  BY <1>1, <1>2

\* Every step of the capacity run and of its game keeps the invariant.
LEMMA CapacityStepKeeps ==
  ASSUME CapacityInv, Capacity!Next
  PROVE  CapacityInv'
<1>1. CASE Capacity!CheckContract
  <2>1. CASE Capacity!Fail
    BY <1>1, <2>1, CapacityFailKeeps DEF Capacity!CheckContract
  <2>2. CASE ~Capacity!Fail
    <3>1. /\ pc' = "guards" /\ Capacity!Contract(body)
          /\ UNCHANGED <<samples, dates, report, differed, body, memory, shift, date>>
      BY <1>1, <2>2 DEF Capacity!CheckContract
    <3>2. pc = "contract"
      BY <1>1 DEF Capacity!CheckContract
    <3> QED
      BY <3>1, <3>2 DEF CapacityInv, Early
  <2> QED
    BY <2>1, <2>2
<1>2. CASE Capacity!ValidateGuards
  <2>1. CASE Capacity!Fail
    BY <1>2, <2>1, CapacityFailKeeps DEF Capacity!ValidateGuards
  <2>2. CASE ~Capacity!Fail
    <3>1. /\ pc' = "initial" /\ Capacity!HostRange(shift)
          /\ UNCHANGED <<samples, dates, report, differed, body, memory, shift, date>>
      BY <1>2, <2>2 DEF Capacity!ValidateGuards
    <3>2. pc = "guards"
      BY <1>2 DEF Capacity!ValidateGuards
    <3> QED
      BY <3>1, <3>2 DEF CapacityInv, Early
  <2> QED
    BY <2>1, <2>2
<1>3. CASE Capacity!Sample
  BY <1>3, SampleKeeps
<1>4. CASE Capacity!CloseWindow
  BY <1>4 DEF Capacity!CloseWindow, CapacityInv, Early
<1>5. CASE Capacity!Judge
  BY <1>5, CapacityJudgeKeeps
<1>6. CASE Capacity!VerifyAgain
  <2>1. CASE Capacity!Fail
    BY <1>6, <2>1, CapacityFailKeeps DEF Capacity!VerifyAgain
  <2>2. CASE ~Capacity!Fail
    <3>1. /\ pc = "verify" /\ pc' = "passed"
          /\ UNCHANGED <<samples, dates, report, differed, body, memory, shift, date>>
      BY <1>6, <2>2 DEF Capacity!VerifyAgain
    <3>2. Capacity!Summary' = Capacity!Summary
      BY <3>1 DEF Capacity!Summary
    <3> QED
      BY <3>1, <3>2 DEF CapacityInv, Early
  <2> QED
    BY <2>1, <2>2
<1>7. CASE Capacity!GameWrites
  <2>1. PICK i \in Start..Start + Size - 1 : memory' = [memory EXCEPT ![i] = 1 - @]
    BY <1>7 DEF Capacity!GameWrites
  <2>2. memory' \in Capacity!Mappings
    <3>1. memory \in [Capacity!Mapping -> {0, 1}]
      BY DEF CapacityInv, Capacity!Mappings
    <3>2. i \in Capacity!Mapping => 1 - memory[i] \in {0, 1}
      BY <3>1
    <3> QED
      BY <2>1, <3>1, <3>2 DEF Capacity!Mappings
  <2>3. /\ pc \in {"guards", "initial", "window"}
        /\ UNCHANGED <<body, shift, pc, samples, dates, date, report, differed>>
    BY <1>7 DEF Capacity!GameWrites
  <2> QED
    BY <2>2, <2>3 DEF CapacityInv, Early
<1>8. CASE Capacity!TurnEnds
  BY <1>8 DEF Capacity!TurnEnds, CapacityInv, Early
<1> QED
  BY <1>1, <1>2, <1>3, <1>4, <1>5, <1>6, <1>7, <1>8 DEF Capacity!Next
-----------------------------------------------------------------------------
(* The smoke run.                                                           *)

Ended == clock \in 0..Timeout /\ (ending = "timeout" => clock = Timeout) /\ (ending \in Codes => clock < Timeout)

\* A file of the executable's name in lower case.
Namesake == [exe EXCEPT !.upper = FALSE] \in tree

SmokeInv ==
  /\ tree \subseteq Smoke!Names
  /\ exe \in [stem : {"ascend"}, upper : BOOLEAN] /\ expect \in Smoke!Expectations
  /\ mount \subseteq Smoke!Names \X Smoke!Contents /\ ran \in Smoke!Contents \cup {"nothing"}
  /\ pc \in {"check", "overlay", "launch", "run", "artifact", "judge", "done"}
  /\ clock \in 0..Timeout /\ modes \in Seq(BOOLEAN) /\ Len(modes) <= clock
  /\ ending \in {"none", "timeout"} \cup Codes
  /\ artifact \in [ending : {"timeout"} \cup Codes, mode : BOOLEAN] \cup {<< >>}
  /\ exit \in {"none", "pass", "fail"}
  /\ pc = "launch" => mount = Smoke!Overlaid
  /\ pc \in {"run", "artifact", "judge"} => (ran = "given" \/ Namesake)
  /\ pc \in {"artifact", "judge"} => ending \in {"timeout"} \cup Codes /\ Ended
  /\ pc # "done" => exit = "none"
  /\ Smoke!RanTheGiven /\ Smoke!PassMeansExpected

\* A smoke run starts in its invariant, for every tree of files.
LEMMA SmokeInitial ==
  ASSUME Smoke!Init
  PROVE  SmokeInv
<1>1. Timeout \in Nat
  BY ConstantsFit DEF Smoke!SmokeAssumption
<1>2. /\ tree \subseteq Smoke!Names
      /\ exe \in [stem : {"ascend"}, upper : BOOLEAN] /\ expect \in Smoke!Expectations
  BY DEF Smoke!Init
<1>3. /\ mount = {} /\ ran = "nothing" /\ pc = "check" /\ clock = 0 /\ modes = << >>
      /\ ending = "none" /\ artifact = << >> /\ exit = "none"
  BY DEF Smoke!Init
<1>4. Smoke!RanTheGiven /\ Smoke!PassMeansExpected
  BY <1>3 DEF Smoke!RanTheGiven, Smoke!PassMeansExpected
<1>5. modes \in Seq(BOOLEAN) /\ Len(modes) <= clock /\ clock \in 0..Timeout
  BY <1>1, <1>3
<1> QED
  BY <1>2, <1>3, <1>4, <1>5 DEF SmokeInv

\* Nothing else has the executable's name, but for a namesake in lower case.
LEMMA OnlyTheGiven ==
  ASSUME SmokeInv, NEW f \in Smoke!Overlaid, f[1].stem = exe.stem
  PROVE  f[2] = "given" \/ Namesake
<1>1. /\ Smoke!Target = [stem |-> "ascend", upper |-> TRUE] /\ exe.stem = "ascend"
      /\ [exe EXCEPT !.upper = FALSE] = [stem |-> "ascend", upper |-> FALSE]
  <2>1. PICK u \in BOOLEAN : exe = [stem |-> "ascend", upper |-> u]
    BY DEF SmokeInv
  <2>2. \A v \in BOOLEAN : [exe EXCEPT !.upper = v] = [stem |-> "ascend", upper |-> v]
    BY <2>1
  <2>3. exe.stem = "ascend"
    BY <2>1
  <2> QED
    BY <2>2, <2>3 DEF Smoke!Target
<1>2. ASSUME f \in Smoke!Files(tree), f[1] # Smoke!Target PROVE Namesake
  <2>1. f[1] \in tree /\ f[1] \in Smoke!Names
    BY <1>2 DEF Smoke!Files, SmokeInv
  <2>2. PICK u \in BOOLEAN : f[1] = [stem |-> "ascend", upper |-> u]
    BY <1>1, <2>1 DEF Smoke!Names
  <2>3. u = FALSE
    BY <1>1, <1>2, <2>2
  <2> QED
    BY <1>1, <2>1, <2>2, <2>3 DEF Namesake
<1> QED
  BY <1>2 DEF Smoke!Overlaid

\* Steps that only end the run, or go on to the next place.
LEMMA SmokeMoves ==
  ASSUME SmokeInv, pc # "done", UNCHANGED <<tree, exe, expect, clock, modes>>,
         mount' \subseteq Smoke!Names \X Smoke!Contents, ran' \in Smoke!Contents \cup {"nothing"},
         ending' \in {"none", "timeout"} \cup Codes,
         artifact' \in [ending : {"timeout"} \cup Codes, mode : BOOLEAN] \cup {<< >>},
         \/ pc' = "done" /\ exit' = "fail"
         \/ /\ pc' \in {"overlay", "launch", "run", "artifact", "judge"} /\ exit' = exit
            /\ pc' = "launch" => mount' = Smoke!Overlaid
            /\ pc' \in {"run", "artifact", "judge"} => (ran' = "given" \/ Namesake')
            /\ pc' \in {"artifact", "judge"} => ending' \in {"timeout"} \cup Codes /\ Ended'
  PROVE  SmokeInv'
<1>1. exit' # "pass" /\ exit' \in {"none", "pass", "fail"} /\ (pc' # "done" => exit' = "none")
  BY DEF SmokeInv
<1>2. Smoke!RanTheGiven' /\ Smoke!PassMeansExpected'
  BY <1>1 DEF Smoke!RanTheGiven, Smoke!PassMeansExpected
<1>3. Smoke!Overlaid' = Smoke!Overlaid
  BY DEF Smoke!Overlaid, Smoke!Target, Smoke!Files
<1>4. /\ tree' \subseteq Smoke!Names
      /\ exe' \in [stem : {"ascend"}, upper : BOOLEAN] /\ expect' \in Smoke!Expectations
      /\ clock' \in 0..Timeout /\ modes' \in Seq(BOOLEAN) /\ Len(modes') <= clock'
  BY DEF SmokeInv
<1> HIDE DEF Ended, Namesake, Smoke!Overlaid
<1> QED
  BY <1>1, <1>2, <1>3, <1>4, Zenon DEF SmokeInv

\* Every step of the smoke run keeps the invariant.
LEMMA SmokeStepKeeps ==
  ASSUME SmokeInv, Smoke!Next
  PROVE  SmokeInv'
<1>a. /\ mount \subseteq Smoke!Names \X Smoke!Contents /\ ran \in Smoke!Contents \cup {"nothing"}
      /\ ending \in {"none", "timeout"} \cup Codes
      /\ artifact \in [ending : {"timeout"} \cup Codes, mode : BOOLEAN] \cup {<< >>}
      /\ exe \in [stem : {"ascend"}, upper : BOOLEAN] /\ expect \in Smoke!Expectations
      /\ tree \subseteq Smoke!Names /\ Timeout \in Nat
      /\ clock \in 0..Timeout /\ modes \in Seq(BOOLEAN) /\ Len(modes) <= clock
  BY ConstantsFit DEF SmokeInv, Smoke!SmokeAssumption
<1>b. /\ pc = "launch" => mount = Smoke!Overlaid
      /\ pc \in {"run", "artifact", "judge"} => (ran = "given" \/ Namesake)
      /\ pc \in {"artifact", "judge"} => ending \in {"timeout"} \cup Codes /\ Ended
      /\ pc # "done" => exit = "none"
  BY DEF SmokeInv
<1>1. CASE Smoke!CheckInputs
  BY <1>1, <1>a, SmokeMoves DEF Smoke!CheckInputs, Smoke!Fail
<1>2. CASE Smoke!Overlay
  <2>1. Smoke!Overlaid \subseteq Smoke!Names \X Smoke!Contents
    <3>1. PICK u \in BOOLEAN : exe = [stem |-> "ascend", upper |-> u]
      BY <1>a
    <3>2. Smoke!Target \in Smoke!Names
      BY <3>1 DEF Smoke!Target, Smoke!Names
    <3> QED
      BY <3>2 DEF Smoke!Overlaid, Smoke!Files, Smoke!Contents
  <2>2. \/ mount' = Smoke!Overlaid /\ pc' = "launch" /\ exit' = exit
        \/ mount' = mount /\ pc' = "done" /\ exit' = "fail"
    BY <1>2 DEF Smoke!Overlay, Smoke!Fail
  <2>3. pc = "overlay" /\ UNCHANGED <<tree, exe, expect, ran, clock, modes, ending, artifact>>
    BY <1>2 DEF Smoke!Overlay
  <2> QED
    BY <1>a, <2>1, <2>2, <2>3, SmokeMoves
<1>3. CASE Smoke!Launch
  <2>1. PICK f \in mount : f[1].stem = exe.stem /\ ran' = f[2]
    BY <1>3 DEF Smoke!Launch
  <2>2. /\ pc = "launch" /\ pc' = "run"
        /\ UNCHANGED <<tree, exe, expect, mount, clock, modes, ending, artifact, exit>>
    BY <1>3 DEF Smoke!Launch
  <2>3. ran' \in Smoke!Contents
    BY <1>a, <2>1
  <2>4. ran' = "given" \/ Namesake'
    BY <1>b, <2>1, <2>2, OnlyTheGiven DEF Namesake
  <2> QED
    BY <1>a, <2>2, <2>3, <2>4, SmokeMoves
<1>4. CASE Smoke!GameRuns
  <2>1. /\ pc = "run" /\ clock < Timeout /\ clock' = clock + 1
        /\ modes' \in {modes} \cup {Append(modes, ok) : ok \in BOOLEAN}
        /\ UNCHANGED <<tree, exe, expect, mount, ran, pc, ending, artifact, exit>>
    BY <1>4 DEF Smoke!GameRuns
  <2>2. clock' \in 0..Timeout
    BY <1>a, <2>1
  <2>3. modes' \in Seq(BOOLEAN) /\ Len(modes') <= Len(modes) + 1
    BY <1>a, <2>1
  <2>4. Len(modes') <= clock'
    BY <1>a, <2>1, <2>3
  <2>5. exit' = "none"
    BY <1>b, <2>1
  <2>6. Smoke!RanTheGiven' /\ Smoke!PassMeansExpected'
    BY <2>5 DEF Smoke!RanTheGiven, Smoke!PassMeansExpected
  <2> QED
    BY <2>1, <2>2, <2>3, <2>4, <2>5, <2>6 DEF SmokeInv, Namesake
<1>5. CASE Smoke!GameEnds
  <2>1. /\ pc = "run" /\ pc' = "artifact"
        /\ IF clock = Timeout THEN ending' = "timeout" ELSE ending' \in Codes
        /\ UNCHANGED <<tree, exe, expect, mount, ran, clock, modes, artifact, exit>>
    BY <1>5 DEF Smoke!GameEnds
  <2>2. "timeout" \notin Codes
    BY ConstantsFit DEF Smoke!SmokeAssumption
  <2>3. ending' \in {"timeout"} \cup Codes /\ Ended'
    BY <1>a, <2>1, <2>2 DEF Ended
  <2> QED
    BY <1>a, <1>b, <2>1, <2>3, SmokeMoves DEF Namesake
<1>6. CASE Smoke!WriteArtifact
  <2>1. /\ pc = "artifact"
        /\ UNCHANGED <<tree, exe, expect, mount, ran, clock, modes, ending>>
        /\ \/ artifact' = [ending |-> ending, mode |-> expect.mode => Smoke!ModeSeen]
              /\ pc' = "judge" /\ exit' = exit
           \/ artifact' = artifact /\ pc' = "done" /\ exit' = "fail"
    BY <1>6 DEF Smoke!WriteArtifact, Smoke!Fail
  <2>2. ending \in {"timeout"} \cup Codes /\ Ended
    BY <1>b, <2>1
  <2>3. [ending |-> ending, mode |-> expect.mode => Smoke!ModeSeen]
           \in [ending : {"timeout"} \cup Codes, mode : BOOLEAN]
    BY <2>2
  <2>4. Ended'
    BY <2>1, <2>2 DEF Ended
  <2> QED
    BY <1>a, <1>b, <2>1, <2>2, <2>3, <2>4, SmokeMoves DEF Namesake
<1>7. CASE Smoke!Judge
  <2>1. /\ pc = "judge" /\ pc' = "done"
        /\ exit' = IF (expect.mode => Smoke!ModeSeen) /\ expect.ending \in {"any", ending}
                   THEN "pass" ELSE "fail"
        /\ UNCHANGED <<tree, exe, expect, mount, ran, clock, modes, ending, artifact>>
    BY <1>7 DEF Smoke!Judge
  <2>2. Smoke!RanTheGiven'
    BY <1>b, <2>1 DEF Smoke!RanTheGiven, Namesake
  <2>3. Smoke!PassMeansExpected'
    <3>1. ASSUME exit' = "pass"
          PROVE  (expect.mode => Smoke!ModeSeen) /\ expect.ending \in {"any", ending}
      BY <2>1, <3>1
    <3>2. Smoke!ModeSeen => \E i \in DOMAIN modes : modes[i]
      BY <1>a DEF Smoke!ModeSeen, Smoke!ToSet
    <3>3. expect.ending = ending =>
            (expect.ending = "timeout" => clock = Timeout) /\ (expect.ending \in Codes => clock < Timeout)
      BY <1>b, <2>1 DEF Ended
    <3>4. expect.ending = "any" =>
            (expect.ending = "timeout" => clock = Timeout) /\ (expect.ending \in Codes => clock < Timeout)
      BY ConstantsFit DEF Smoke!SmokeAssumption
    <3>5. UNCHANGED <<expect, modes, clock>>
      BY <2>1
    <3> QED
      BY <3>1, <3>2, <3>3, <3>4, <3>5, Zenon DEF Smoke!PassMeansExpected
  <2>4. exit' \in {"none", "pass", "fail"}
    BY <2>1
  <2> QED
    BY <1>a, <2>1, <2>2, <2>3, <2>4 DEF SmokeInv
<1> QED
  BY <1>1, <1>2, <1>3, <1>4, <1>5, <1>6, <1>7 DEF Smoke!Next
-----------------------------------------------------------------------------
(* The UI run: running sums and numbers of frames.                          *)

\* Induction over the natural numbers, for a set in the place of a predicate.
LEMMA Induction ==
  ASSUME NEW S, 0 \in S, \A n \in Nat : n \in S => n + 1 \in S
  PROVE  \A n \in Nat : n \in S
<1> SUFFICES ASSUME \E n \in Nat : n \notin S PROVE FALSE
  OBVIOUS
<1> DEFINE T == {n \in Nat : n \notin S}
<1>1. PICK x \in T : \A y \in T : x <= y
  <2> T # {} /\ T \in SUBSET Nat
    OBVIOUS
  <2> QED
    BY Least
<1>2. x \in Nat /\ x # 0 /\ x - 1 \in Nat
  OBVIOUS
<1>3. x - 1 \in S
  BY <1>1, <1>2
<1> QED
  BY <1>2, <1>3

\* g holds the sums of f up to n.
Sums(g, f, n) == g = [k \in 0..n |-> IF k = 0 THEN 0 ELSE g[k - 1] + f[k]]

\* For every length there is a table of partial sums.
LEMMA SumsExist ==
  ASSUME NEW f
  PROVE  \A n \in Nat : \E g : Sums(g, f, n)
<1> DEFINE S == {n \in Nat : \E g : Sums(g, f, n)}
<1>1. 0 \in S
  <2> DEFINE g == [k \in 0..0 |-> 0]
  <2>1. \A k \in 0..0 : k = 0
    OBVIOUS
  <2>2. g = [k \in 0..0 |-> IF k = 0 THEN 0 ELSE g[k - 1] + f[k]]
    BY <2>1
  <2> QED
    BY <2>2 DEF Sums
<1>2. ASSUME NEW n \in Nat, n \in S PROVE n + 1 \in S
  <2>1. PICK g : Sums(g, f, n)
    BY <1>2
  <2> DEFINE h == [k \in 0..n + 1 |-> IF k = n + 1 THEN g[n] + f[n + 1] ELSE g[k]]
  <2>2. ASSUME NEW k \in 0..n + 1 PROVE h[k] = IF k = 0 THEN 0 ELSE h[k - 1] + f[k]
    <3>1. CASE k = n + 1
      BY <3>1
    <3>2. CASE k # n + 1
      <4>1. k \in 0..n /\ h[k] = g[k]
        BY <3>2
      <4>2. g[k] = IF k = 0 THEN 0 ELSE g[k - 1] + f[k]
        BY <2>1, <4>1 DEF Sums
      <4>3. k # 0 => k - 1 \in 0..n /\ h[k - 1] = g[k - 1]
        BY <4>1
      <4> QED
        BY <4>1, <4>2, <4>3
    <3> QED
      BY <3>1, <3>2
  <2>3. h = [k \in 0..n + 1 |-> h[k]]
    OBVIOUS
  <2> HIDE DEF h
  <2>4. Sums(h, f, n + 1)
    BY <2>2, <2>3 DEF Sums
  <2> QED
    BY <2>4
<1> HIDE DEF S
<1>3. \A n \in Nat : n \in S
  BY <1>1, <1>2, Induction
<1> QED
  BY <1>3 DEF S

\* Two tables of partial sums agree as far as both reach.
LEMMA SumsAgree ==
  ASSUME NEW f, NEW m \in Nat, NEW n \in Nat, NEW g, NEW h, Sums(g, f, m), Sums(h, f, n)
  PROVE  \A k \in Nat : k <= m /\ k <= n => g[k] = h[k]
<1> DEFINE S == {k \in Nat : k <= m /\ k <= n => g[k] = h[k]}
<1>1. 0 \in S
  BY DEF Sums
<1>2. ASSUME NEW k \in Nat, k \in S PROVE k + 1 \in S
  <2>1. k + 1 <= m => g[k + 1] = g[k] + f[k + 1]
    BY DEF Sums
  <2>2. k + 1 <= n => h[k + 1] = h[k] + f[k + 1]
    BY DEF Sums
  <2> QED
    BY <1>2, <2>1, <2>2
<1> HIDE DEF S
<1>3. \A k \in Nat : k \in S
  BY <1>1, <1>2, Induction
<1> QED
  BY <1>3 DEF S

\* The recursive sum is what it says: nothing for no summand, and one more
\* summand each time.
LEMMA TotalAdds ==
  ASSUME NEW f
  PROVE  /\ Ui!Total(f, 0) = 0
         /\ \A n \in Nat : Ui!Total(f, n + 1) = Ui!Total(f, n) + f[n + 1]
<1> DEFINE G(n) == CHOOSE g : Sums(g, f, n)
           sum == [k \in Nat |-> G(k)[k]]
           Fits(s) == s = [k \in Nat |-> IF k = 0 THEN 0 ELSE s[k - 1] + f[k]]
<1>1. \A n \in Nat : Sums(G(n), f, n)
  BY SumsExist
<1>2. ASSUME NEW k \in Nat PROVE sum[k] = IF k = 0 THEN 0 ELSE sum[k - 1] + f[k]
  <2>1. k \in 0..k /\ Sums(G(k), f, k)
    BY <1>1
  <2> HIDE DEF G
  <2>2. G(k)[k] = IF k = 0 THEN 0 ELSE G(k)[k - 1] + f[k]
    BY <2>1 DEF Sums
  <2>3. ASSUME k # 0 PROVE G(k)[k - 1] = G(k - 1)[k - 1]
    <3>1. k - 1 \in Nat /\ k - 1 <= k
      BY <2>3
    <3> QED
      BY <1>1, <3>1, SumsAgree
  <2>4. sum[k] = G(k)[k] /\ (k # 0 => sum[k - 1] = G(k - 1)[k - 1])
    OBVIOUS
  <2> QED
    BY <2>2, <2>3, <2>4
<1>3. sum = [k \in Nat |-> sum[k]]
  OBVIOUS
<1> HIDE DEF sum
<1>4. Fits(sum)
  BY <1>2, <1>3
<1> DEFINE chosen == CHOOSE s : Fits(s)
<1>5. Fits(chosen)
  BY <1>4
<1>6. \A n : Ui!Total(f, n) = chosen[n]
  BY DEF Ui!Total
<1> HIDE DEF chosen
<1>7. chosen[0] = 0 /\ \A n \in Nat : chosen[n + 1] = chosen[n] + f[n + 1]
  BY <1>5
<1> QED
  BY <1>6, <1>7
Last == Len(script.steps)

\* What a script is made of, in the form the proofs use.
LEMMA ScriptFacts ==
  ASSUME script \in Ui!Scripts
  PROVE  /\ Last \in 1..MaxLength /\ MaxLength \in Nat /\ DOMAIN script.steps = 1..Last
         /\ script.startup \in {0, 1} /\ script.chords \in {0, 1}
         /\ \A i \in 1..Last \ Ui!Captured(script) : Ui!Seconds(script.steps[i]) \in Nat
         /\ \A i \in Ui!Captured(script) :
              script.steps[i].oracle \in BOOLEAN /\ script.steps[i].change \in BOOLEAN
         /\ \A i : i \in Ui!Captured(script) <=> i \in 1..Last /\ script.steps[i].action = "capture"
         /\ \A i : i \in Ui!Clicked(script) <=> i \in 1..Last /\ script.steps[i].action = "click"
<1>1. MaxLength \in Nat
  BY ConstantsFit DEF Ui!UiAssumption
<1>2. PICK n \in 1..MaxLength : script.steps \in [1..n -> Ui!Waits \cup Ui!Inputs \cup Ui!Clicks \cup Ui!Captures]
  BY DEF Ui!Scripts
<1>3. script.startup \in {0, 1} /\ script.chords \in {0, 1}
  BY DEF Ui!Scripts
<1>4. Last = n /\ DOMAIN script.steps = 1..Last
  BY <1>1, <1>2 DEF Last
<1>5. \A i : i \in Ui!Captured(script) <=> i \in 1..Last /\ script.steps[i].action = "capture"
  BY <1>4 DEF Ui!Captured
<1>6. \A s \in Ui!Waits \cup Ui!Inputs \cup Ui!Clicks \cup Ui!Captures :
        /\ s.action # "capture" => Ui!Seconds(s) \in Nat
        /\ s.action = "capture" => s.oracle \in BOOLEAN /\ s.change \in BOOLEAN
  BY DEF Ui!Waits, Ui!Inputs, Ui!Clicks, Ui!Captures, Ui!Seconds, Ui!Default, Ui!DefaultSettle
<1>7. \A i : i \in Ui!Clicked(script) <=> i \in 1..Last /\ script.steps[i].action = "click"
  BY <1>4 DEF Ui!Clicked
<1> QED
  BY <1>1, <1>2, <1>3, <1>4, <1>5, <1>6, <1>7

\* The number of members of C up to n.
UpTo(C, n) == {j \in C : j <= n}

\* Along the numbers it grows by one at each member, up to all of them.
LEMMA Counts ==
  ASSUME NEW m \in Nat, NEW C \in SUBSET (1..m)
  PROVE  /\ \A i \in 0..m : Cardinality(UpTo(C, i)) \in 0..i
         /\ \A i \in 1..m : Cardinality(UpTo(C, i)) = Cardinality(UpTo(C, i - 1))
                               + (IF i \in C THEN 1 ELSE 0)
         /\ Cardinality(UpTo(C, m)) = Cardinality(C)
         /\ \A i, j \in 0..m : i <= j => Cardinality(UpTo(C, i)) <= Cardinality(UpTo(C, j))
<1>0. \A j : j \in C => j \in Nat /\ 1 <= j /\ j <= m
  OBVIOUS
<1>1. ASSUME NEW i \in 0..m
      PROVE  UpTo(C, i) \subseteq 1..i /\ IsFiniteSet(1..i) /\ Cardinality(1..i) = i
  <2>1. UpTo(C, i) \subseteq 1..i
    BY <1>0 DEF UpTo
  <2> QED
    BY <2>1, FS_Interval
<1>2. \A i \in 0..m : IsFiniteSet(UpTo(C, i)) /\ Cardinality(UpTo(C, i)) \in 0..i
  BY <1>1, FS_Subset, FS_CardinalityType
<1>3. ASSUME NEW i \in 1..m
      PROVE  Cardinality(UpTo(C, i)) = Cardinality(UpTo(C, i - 1)) + (IF i \in C THEN 1 ELSE 0)
  <2>1. i - 1 \in 0..m /\ i \in 0..m
    OBVIOUS
  <2>2. CASE i \in C
    <3>1. UpTo(C, i) = UpTo(C, i - 1) \cup {i} /\ i \notin UpTo(C, i - 1)
      BY <1>0, <2>2 DEF UpTo
    <3> QED
      BY <1>2, <2>1, <2>2, <3>1, FS_AddElement
  <2>3. CASE i \notin C
    <3>1. UpTo(C, i) = UpTo(C, i - 1)
      BY <1>0, <2>3 DEF UpTo
    <3> QED
      BY <1>2, <2>1, <2>3, <3>1
  <2> QED
    BY <2>2, <2>3
<1>4. UpTo(C, m) = C
  BY <1>0 DEF UpTo
<1>5. ASSUME NEW i \in 0..m, NEW j \in 0..m, i <= j
      PROVE  Cardinality(UpTo(C, i)) <= Cardinality(UpTo(C, j))
  <2>1. UpTo(C, i) \subseteq UpTo(C, j)
    BY <1>0, <1>5 DEF UpTo
  <2> QED
    BY <1>2, <2>1, FS_Subset
<1> QED
  BY <1>2, <1>3, <1>4, <1>5

\* The frame of a step is the number of captures up to it.
LEMMA FrameCounts ==
  ASSUME script \in Ui!Scripts
  PROVE  /\ \A i \in 0..Last : Ui!Frame(script, i) \in 0..i
         /\ \A i \in 1..Last : Ui!Frame(script, i) = Ui!Frame(script, i - 1)
                                  + (IF i \in Ui!Captured(script) THEN 1 ELSE 0)
         /\ Ui!Frame(script, Last) = Ui!Cardinality(Ui!Captured(script))
         /\ \A i, j \in 0..Last : i <= j => Ui!Frame(script, i) <= Ui!Frame(script, j)
<1>1. \A S : Ui!Cardinality(S) = Cardinality(S)
  BY DEF Ui!Cardinality, Cardinality
<1>2. \A i : Ui!Frame(script, i) = Cardinality(UpTo(Ui!Captured(script), i))
  BY <1>1 DEF Ui!Frame, UpTo
<1>3. Last \in Nat /\ Ui!Captured(script) \in SUBSET (1..Last)
  BY ScriptFacts
<1> QED
  BY <1>1, <1>2, <1>3, Counts

\* What the first n steps sleep by themselves.
Slept(n) == Ui!Total(Ui!Sleeping(script), n)

\* The waits up to a step add up to no more than all of them.
LEMMA SleptAdds ==
  ASSUME script \in Ui!Scripts
  PROVE  /\ Slept(0) = 0 /\ \A n \in 0..Last : Slept(n) \in Nat /\ Slept(n) <= Slept(Last)
         /\ \A n \in 1..Last : Slept(n) = Slept(n - 1) + (IF n \in Ui!Captured(script) THEN 0
                                                         ELSE Ui!Seconds(script.steps[n]))
<1> DEFINE d == Ui!Sleeping(script)
<1>1. \A n \in 1..Last : d[n] = (IF n \in Ui!Captured(script) THEN 0 ELSE Ui!Seconds(script.steps[n]))
                         /\ d[n] \in Nat
  BY ScriptFacts DEF Ui!Sleeping
<1>2. Slept(0) = 0 /\ \A n \in Nat : Slept(n + 1) = Slept(n) + d[n + 1]
  BY TotalAdds DEF Slept
<1> HIDE DEF d
<1>3. Last \in Nat
  BY ScriptFacts
<1>4. \A n \in 1..Last : Slept(n) = Slept(n - 1) + d[n]
  <2> SUFFICES ASSUME NEW n \in 1..Last PROVE Slept(n) = Slept(n - 1) + d[n]
    OBVIOUS
  <2>1. n - 1 \in Nat /\ (n - 1) + 1 = n
    BY <1>3
  <2> QED
    BY <1>2, <2>1
<1> DEFINE S == {n \in Nat : n <= Last => Slept(n) \in Nat}
<1>5. 0 \in S
  BY <1>2
<1>6. ASSUME NEW n \in Nat, n \in S PROVE n + 1 \in S
  <2>1. n + 1 <= Last => n + 1 \in 1..Last /\ n <= Last
    BY <1>3
  <2>2. Slept(n + 1) = Slept(n) + d[n + 1]
    BY <1>2
  <2> QED
    BY <1>1, <1>6, <2>1, <2>2
<1> HIDE DEF S
<1>7. \A n \in 0..Last : Slept(n) \in Nat
  <2>1. \A n \in Nat : n \in S
    BY <1>5, <1>6, Induction
  <2> QED
    BY <1>3, <2>1 DEF S
<1> DEFINE D == {n \in Nat : n <= Last => Slept(Last - n) <= Slept(Last)}
<1>8. 0 \in D
  BY <1>3, <1>7
<1>9. ASSUME NEW n \in Nat, n \in D PROVE n + 1 \in D
  <2>1. CASE n + 1 <= Last
    <3>1. /\ Last - n \in 1..Last /\ Last - (n + 1) = (Last - n) - 1 /\ Last - n \in 0..Last
          /\ (Last - n) - 1 \in 0..Last /\ n <= Last /\ Last \in 0..Last
      BY <1>3, <2>1
    <3>2. Slept(Last - n) = Slept((Last - n) - 1) + d[Last - n] /\ d[Last - n] \in Nat
      BY <1>1, <1>4, <3>1
    <3>3. Slept(Last - n) <= Slept(Last)
      BY <1>9, <3>1
    <3>4. Slept((Last - n) - 1) <= Slept(Last)
      BY <1>7, <3>1, <3>2, <3>3
    <3> QED
      BY <3>1, <3>4
  <2> QED
    BY <1>3, <2>1
<1> HIDE DEF D
<1>10. \A n \in 0..Last : Slept(n) <= Slept(Last)
  <2>1. \A n \in Nat : n \in D
    BY <1>8, <1>9, Induction
  <2>2. ASSUME NEW n \in 0..Last PROVE Slept(n) <= Slept(Last)
    <3>1. Last - n \in Nat /\ Last - n <= Last /\ Last - (Last - n) = n
      BY <1>3
    <3> QED
      BY <2>1, <3>1 DEF D
  <2> QED
    BY <2>2
<1> QED
  BY <1>1, <1>2, <1>4, <1>7, <1>10

\* What the first n steps take by themselves, the presses of their clicks included.
Presses(n) == Cardinality(UpTo(Ui!Clicked(script), n))
Spent(n) == Slept(n) + Presses(n)
Takes(wait) == Ui!Pressed(wait) + Ui!Seconds(wait)

LEMMA SpentAdds ==
  ASSUME script \in Ui!Scripts
  PROVE  /\ Spent(0) = 0 /\ \A n \in 0..Last : Spent(n) \in Nat /\ Spent(n) <= Spent(Last)
         /\ \A n \in 1..Last : Spent(n) = Spent(n - 1) + (IF n \in Ui!Captured(script) THEN 0
                                                         ELSE Takes(script.steps[n]))
         /\ \A n \in 1..Last \ Ui!Captured(script) : Takes(script.steps[n]) \in Nat
         /\ Spent(Last) = Slept(Last) + Ui!Cardinality(Ui!Clicked(script))
         /\ Slept(Last) \in Nat /\ Ui!Cardinality(Ui!Clicked(script)) \in Nat
<1>1. Last \in Nat /\ Ui!Clicked(script) \in SUBSET (1..Last)
  BY ScriptFacts
<1>2. /\ \A n \in 0..Last : Presses(n) \in 0..n /\ Presses(n) <= Presses(Last)
      /\ \A n \in 1..Last : Presses(n) = Presses(n - 1) + (IF n \in Ui!Clicked(script) THEN 1 ELSE 0)
      /\ Presses(Last) = Cardinality(Ui!Clicked(script))
  <2>1. Last \in 0..Last /\ \A n \in 0..Last : n <= Last
    BY <1>1
  <2> QED
    BY <1>1, <2>1, Counts DEF Presses
<1>3. /\ Slept(0) = 0 /\ \A n \in 0..Last : Slept(n) \in Nat /\ Slept(n) <= Slept(Last)
      /\ \A n \in 1..Last : Slept(n) = Slept(n - 1) + (IF n \in Ui!Captured(script) THEN 0
                                                      ELSE Ui!Seconds(script.steps[n]))
  BY SleptAdds
<1>4. Spent(0) = 0
  <2>1. 0 \in 0..Last
    BY <1>1
  <2>2. Presses(0) = 0
    BY <1>2, <2>1
  <2> QED
    BY <1>3, <2>2 DEF Spent
<1>5. ASSUME NEW n \in 0..Last PROVE Spent(n) \in Nat /\ Spent(n) <= Spent(Last)
  <2>1. Last \in 0..Last
    BY <1>1
  <2> QED
    BY <1>2, <1>3, <2>1 DEF Spent
<1>6. ASSUME NEW n \in 1..Last
      PROVE  /\ Spent(n) = Spent(n - 1) + (IF n \in Ui!Captured(script) THEN 0
                                           ELSE Takes(script.steps[n]))
             /\ n \notin Ui!Captured(script) => Takes(script.steps[n]) \in Nat
  <2>1. /\ n \in Ui!Captured(script) <=> script.steps[n].action = "capture"
        /\ n \in Ui!Clicked(script) <=> script.steps[n].action = "click"
        /\ n \notin Ui!Captured(script) => Ui!Seconds(script.steps[n]) \in Nat
    BY <1>6, ScriptFacts
  <2>2. n - 1 \in 0..Last
    BY <1>1
  <2>3. Presses(n - 1) \in Nat /\ Slept(n - 1) \in Nat
    BY <1>2, <1>3, <2>2
  <2>4. Presses(n) = Presses(n - 1) + (IF n \in Ui!Clicked(script) THEN 1 ELSE 0)
    BY <1>2
  <2>5. Slept(n) = Slept(n - 1) + (IF n \in Ui!Captured(script) THEN 0
                                   ELSE Ui!Seconds(script.steps[n]))
    BY <1>3
  <2>6. Ui!Pressed(script.steps[n]) = IF n \in Ui!Clicked(script) THEN 1 ELSE 0
    BY <2>1 DEF Ui!Pressed, Ui!ClickSleep
  <2>7. n \in Ui!Clicked(script) => n \notin Ui!Captured(script)
    BY <2>1
  <2> QED
    BY <2>1, <2>3, <2>4, <2>5, <2>6, <2>7 DEF Spent, Takes
<1>7. Ui!Cardinality(Ui!Clicked(script)) = Presses(Last) /\ Presses(Last) \in Nat
  <2>1. Last \in 0..Last
    BY <1>1
  <2> QED
    BY <1>2, <2>1 DEF Ui!Cardinality, Cardinality
<1>8. Slept(Last) \in Nat
  BY <1>1, <1>3
<1> QED
  BY <1>4, <1>5, <1>6, <1>7, <1>8 DEF Spent

\* While the run goes on its clock shows the time of its helpers and what it has slept.
Running == {"setup", "display", "window", "chords", "geometry", "startup", "steps", "ratios", "complete"}
Due ==
  (IF pc \in {"setup", "display"} THEN 0 ELSE 1)
  + (IF pc \in {"setup", "display", "window", "chords"} THEN 0 ELSE script.chords)
  + (IF pc \in {"steps", "ratios", "complete"} THEN script.startup + Spent(next - 1) ELSE 0)

\* All that a script takes by itself once the display is up.
Needed == script.startup + script.chords + Spent(Last)

\* The frames of the captures before the next step, with what their oracles saw.
FramesInv ==
  /\ Len(frames) = Ui!Frame(script, next - 1)
  /\ \A i \in Ui!Captured(script) :
       i < next /\ script.steps[i].oracle => frames[Ui!Frame(script, i)] = "pinned"

UiTypes ==
  /\ script \in Ui!Scripts /\ Ui!Loads(script) /\ screen \in {"pinned", "other"} /\ pc \in Ui!Places
  /\ next \in 1..Last + 1 /\ clock \in 0..MaxRuntime /\ own \in 0..clock
  /\ frames \in Seq({"pinned", "other"}) /\ Len(frames) <= Last
  /\ failure \in {"none", "deadline", "error"} /\ status \in {"failed", "passed"}
  /\ report \in {"none", "failed", "passed"}

Processes == game \in {"none", "running", "gone"} /\ pipe \in BOOLEAN /\ xvfb \in BOOLEAN

UiInv ==
  /\ UiTypes /\ Processes
  /\ pc \in Running => failure = "none" /\ status = "failed" /\ clock = own + Due
  /\ pc \in {"setup", "display", "window", "chords", "geometry", "startup"} => next = 1 /\ frames = << >>
  /\ pc = "setup" => own = 0
  /\ pc = "steps" => next <= Last
  /\ pc \in {"ratios", "complete"} => next = Last + 1
  /\ pc \in {"steps", "ratios", "complete"} => FramesInv
  /\ pc = "complete" => Ui!EnoughChange
  /\ Ui!PassedAsScripted /\ Ui!DeclaredWaitsFit

\* The invariant of the UI run types its variables.
LEMMA UiInvTypes ==
  ASSUME UiInv
  PROVE  Ui!TypeOK
<1>1. Last <= MaxLength /\ Last \in Nat /\ MaxLength \in Nat
  BY ScriptFacts DEF UiInv, UiTypes
<1>2. next \in 1..MaxLength + 1 /\ Len(frames) <= MaxLength
  BY <1>1 DEF UiInv, UiTypes
<1>3. Ui!ToSet(frames) \subseteq {"pinned", "other"}
  BY DEF UiInv, UiTypes, Ui!ToSet
<1> QED
  BY <1>2, <1>3 DEF UiInv, UiTypes, Processes, Ui!TypeOK

\* A script that loads declares its waits within the budget; the display and the
\* presses of its clicks come on top.
LEMMA DeclaredSleeps ==
  ASSUME script \in Ui!Scripts, Ui!Loads(script)
  PROVE  /\ Ui!Declared = script.startup + script.chords + Slept(Last)
         /\ Ui!Declared \in Nat /\ Ui!Declared < MaxRuntime /\ MaxRuntime \in Nat
         /\ Ui!Declared + Ui!XvfbSettle + Ui!ClickSleep * Ui!Cardinality(Ui!Clicked(script)) = Needed + 1
<1>1. Ui!Sleeping(script) =
        [i \in DOMAIN script.steps |-> IF script.steps[i].action = "capture" THEN 0
                                       ELSE Ui!Seconds(script.steps[i])]
  BY DEF Ui!Sleeping, Ui!Captured
<1>2. script.chords \in Nat /\ script.startup \in Nat /\ Slept(Last) \in Nat
  BY ScriptFacts, SleptAdds
<1>3. Ui!ChordSettle * script.chords = script.chords
  BY <1>2 DEF Ui!ChordSettle
<1>4. Ui!Declared = script.startup + script.chords + Slept(Last)
  BY <1>1, <1>3 DEF Ui!Declared, Slept, Last
<1>5. script.startup + script.chords + Slept(Last) < MaxRuntime
  BY <1>3 DEF Ui!Loads, Ui!Estimated, Slept, Last
<1>6. MaxRuntime \in Nat
  BY ConstantsFit DEF Ui!UiAssumption
<1>7. /\ Spent(Last) = Slept(Last) + Ui!Cardinality(Ui!Clicked(script))
      /\ Ui!Cardinality(Ui!Clicked(script)) \in Nat
  BY SpentAdds
<1>8. Ui!ClickSleep * Ui!Cardinality(Ui!Clicked(script)) = Ui!Cardinality(Ui!Clicked(script))
  BY <1>7 DEF Ui!ClickSleep
<1>9. Ui!Declared + Ui!XvfbSettle + Ui!ClickSleep * Ui!Cardinality(Ui!Clicked(script)) = Needed + 1
  BY <1>2, <1>4, <1>7, <1>8 DEF Needed, Ui!XvfbSettle
<1> QED
  BY <1>2, <1>4, <1>5, <1>6, <1>9

\* While the run goes on, its waits so far and its own time make up the clock,
\* within the budget.
LEMMA DueFits ==
  ASSUME UiInv, pc \in Running
  PROVE  /\ Due \in Nat /\ Due <= Needed + 1 /\ Needed \in Nat
         /\ MaxRuntime \in Nat /\ clock = own + Due
         /\ clock \in 0..MaxRuntime /\ own \in 0..clock /\ failure = "none" /\ status = "failed"
<1>1. /\ script \in Ui!Scripts /\ Ui!Loads(script) /\ next \in 1..Last + 1 /\ clock = own + Due
      /\ clock \in 0..MaxRuntime /\ own \in 0..clock /\ failure = "none" /\ status = "failed"
  BY DEF UiInv, UiTypes
<1>2. MaxRuntime \in Nat
  BY ConstantsFit DEF Ui!UiAssumption
<1>3. script.startup \in {0, 1} /\ script.chords \in {0, 1} /\ Last \in Nat
  BY <1>1, ScriptFacts
<1>4. Spent(next - 1) \in Nat /\ Spent(next - 1) <= Spent(Last) /\ Spent(Last) \in Nat
  <2>1. next - 1 \in 0..Last /\ Last \in 0..Last
    BY <1>1, <1>3
  <2> QED
    BY <1>1, <2>1, SpentAdds
<1>5. Due \in Nat /\ Due <= 1 + script.chords + script.startup + Spent(Last)
  BY <1>3, <1>4 DEF Due
<1> QED
  BY <1>1, <1>2, <1>3, <1>4, <1>5 DEF Needed

\* A step that ends the run.
LEMMA StopKeeps ==
  ASSUME UiInv, pc \in Running, pc' = "terminate", failure' \in {"deadline", "error"},
         UNCHANGED <<status, script, screen, report>>, next' \in 1..Last + 1,
         frames' \in Seq({"pinned", "other"}), Len(frames') <= Last,
         clock' \in 0..MaxRuntime, own' \in 0..clock', Processes',
         failure' = "deadline" => own' > 0 \/ Needed + 1 >= MaxRuntime
  PROVE  UiInv'
<1>1. status' = "failed"
  BY DueFits
<1>2. Ui!Declared' = Ui!Declared /\ Last' = Last
  BY DEF Ui!Declared, Ui!Total, Last
<1>3. Ui!PassedAsScripted'
  BY <1>1 DEF Ui!PassedAsScripted
<1>4. Ui!DeclaredWaitsFit'
  <2>1. script \in Ui!Scripts /\ Ui!Loads(script)
    BY DEF UiInv, UiTypes
  <2>2. /\ Ui!Declared < MaxRuntime
        /\ failure' = "deadline" =>
             \/ own' > 0
             \/ Ui!Declared + Ui!XvfbSettle + Ui!ClickSleep * Ui!Cardinality(Ui!Clicked(script)) >= MaxRuntime
    BY <2>1, DeclaredSleeps
  <2> QED
    BY <1>2, <2>2 DEF Ui!DeclaredWaitsFit
<1>5. UiTypes'
  <2>1. script' \in Ui!Scripts /\ Ui!Loads(script)' /\ screen' \in {"pinned", "other"}
        /\ report' \in {"none", "failed", "passed"}
    BY DEF UiInv, UiTypes
  <2> QED
    BY <1>1, <1>2, <2>1 DEF UiTypes, Ui!Places
<1> QED
  BY <1>3, <1>4, <1>5 DEF UiInv, Running

\* What a helper that fails leaves.
LEMMA HelperStops ==
  ASSUME UiInv, pc \in Running, NEW why \in {"deadline", "error"}, Ui!Raise(why),
         UNCHANGED <<script, screen, report>>, Processes',
         \/ UNCHANGED <<clock, own>> /\ (why = "deadline" => clock = MaxRuntime)
         \/ \E e \in {0, 1} : /\ clock # MaxRuntime /\ clock' = clock + e /\ own' = own + e
                              /\ why = (IF clock' = MaxRuntime THEN "deadline" ELSE "error")
  PROVE  UiInv'
<1>1. pc' = "terminate" /\ failure' = why /\ UNCHANGED <<next, frames, status>>
  BY DEF Ui!Raise
<1>2. next \in 1..Last + 1 /\ frames \in Seq({"pinned", "other"}) /\ Len(frames) <= Last
  BY DEF UiInv, UiTypes
<1>3. /\ clock' \in 0..MaxRuntime /\ own' \in 0..clock'
      /\ failure' = "deadline" => own' > 0 \/ Needed + 1 >= MaxRuntime
  BY <1>1, DueFits
<1> QED
  BY <1>1, <1>2, <1>3, StopKeeps
\* A step of the runner that goes on.
LEMMA AdvanceKeeps ==
  ASSUME UiInv, pc \in Running, pc' \in Running \ {"setup"},
         UNCHANGED <<failure, status, script, screen, report>>, Processes', next' \in 1..Last + 1,
         frames' \in Seq({"pinned", "other"}), Len(frames') <= Last,
         clock' \in 0..MaxRuntime, own' \in 0..clock', clock' = own' + Due',
         pc' \in {"display", "window", "chords", "geometry", "startup"} => next' = 1 /\ frames' = << >>,
         pc' = "steps" => next' <= Last,
         pc' \in {"ratios", "complete"} => next' = Last + 1,
         pc' \in {"steps", "ratios", "complete"} => FramesInv',
         pc' = "complete" => Ui!EnoughChange'
  PROVE  UiInv'
<1>1. status' = "failed" /\ failure' = "none"
  BY DueFits
<1>2. Last' = Last /\ Ui!Declared' = Ui!Declared
  BY DEF Ui!Declared, Ui!Total, Last
<1>3. Ui!PassedAsScripted'
  BY <1>1 DEF Ui!PassedAsScripted
<1>4. Ui!DeclaredWaitsFit'
  BY <1>1, <1>2 DEF UiInv, Ui!DeclaredWaitsFit
<1>5. UiTypes'
  <2>1. /\ script' \in Ui!Scripts /\ Ui!Loads(script)' /\ screen' \in {"pinned", "other"}
        /\ report' \in {"none", "failed", "passed"}
    BY DEF UiInv, UiTypes
  <2> QED
    BY <1>1, <1>2, <2>1 DEF UiTypes, Running, Ui!Places
<1>6. pc' \in Running /\ pc' # "setup"
  OBVIOUS
<1> QED
  BY <1>1, <1>2, <1>3, <1>4, <1>5, <1>6, Zenon DEF UiInv

\* A step of anyone but the runner, and one of the runner after the end of the script.
LEMMA OthersKeep ==
  ASSUME UiInv, UNCHANGED <<script, next, clock, frames, failure, status, own>>,
         pc' = pc \/ pc' \in {"collect", "report", "done"},
         screen' \in {"pinned", "other"}, report' \in {"none", "failed", "passed"}, Processes'
  PROVE  UiInv'
<1>1. /\ Last' = Last /\ Ui!PassedAsScripted' /\ Ui!DeclaredWaitsFit'
      /\ (FramesInv => FramesInv') /\ (Ui!EnoughChange => Ui!EnoughChange')
  <2>1. Ui!PassedAsScripted' <=> Ui!PassedAsScripted
    BY DEF Ui!PassedAsScripted
  <2>2. Ui!Declared' = Ui!Declared
    BY DEF Ui!Declared, Ui!Total
  <2>3. Ui!DeclaredWaitsFit' <=> Ui!DeclaredWaitsFit
    BY <2>2 DEF Ui!DeclaredWaitsFit
  <2>4. FramesInv' <=> FramesInv
    BY DEF FramesInv
  <2>5. Ui!EnoughChange' <=> Ui!EnoughChange
    BY DEF Ui!EnoughChange, Ui!Changes, Ui!Threshold
  <2>6. Last' = Last
    BY DEF Last
  <2>7. Ui!PassedAsScripted /\ Ui!DeclaredWaitsFit
    BY DEF UiInv
  <2> QED
    BY <2>1, <2>3, <2>4, <2>5, <2>6, <2>7
<1>2. UiTypes'
  BY <1>1 DEF UiInv, UiTypes, Ui!Places
<1>3. CASE pc' = pc
  <2>1. Due' = Due
    BY <1>3 DEF Due, Spent, Slept, Presses
  <2> QED
    BY <1>1, <1>2, <1>3, <2>1 DEF UiInv
<1>4. CASE pc' \in {"collect", "report", "done"}
  BY <1>1, <1>2, <1>4 DEF UiInv, Running
<1> QED
  BY <1>3, <1>4

\* A UI run starts in its invariant, for every script and budget.
LEMMA UiInitial ==
  ASSUME Ui!Init
  PROVE  UiInv
<1>1. MaxRuntime \in Nat /\ script \in Ui!Scripts /\ Ui!Loads(script)
  BY ConstantsFit DEF Ui!UiAssumption, Ui!Init
<1>2. Last \in Nat \ {0}
  BY <1>1, ScriptFacts
<1>3. /\ screen \in {"pinned", "other"} /\ pc = "setup" /\ next = 1 /\ clock = 0 /\ own = 0
      /\ frames = << >> /\ failure = "none" /\ status = "failed"
      /\ game = "none" /\ pipe = FALSE /\ xvfb = FALSE /\ report = "none"
  BY DEF Ui!Init
<1>4. UiTypes /\ Processes
  <2>1. frames \in Seq({"pinned", "other"}) /\ Len(frames) <= Last /\ next \in 1..Last + 1
    BY <1>2, <1>3
  <2>2. clock \in 0..MaxRuntime /\ own \in 0..clock
    BY <1>1, <1>3
  <2> QED
    BY <1>1, <1>3, <2>1, <2>2 DEF UiTypes, Processes, Ui!Places
<1>5. Due = 0
  BY <1>3 DEF Due
<1>6. Ui!PassedAsScripted /\ Ui!DeclaredWaitsFit
  BY <1>1, <1>3, DeclaredSleeps DEF Ui!PassedAsScripted, Ui!DeclaredWaitsFit
<1> QED
  BY <1>3, <1>4, <1>5, <1>6 DEF UiInv

\* The copy and the hash take any time.
LEMMA UiSetupKeeps ==
  ASSUME UiInv, Ui!Setup
  PROVE  UiInv'
<1>1. /\ pc = "setup" /\ pc \in Running /\ UNCHANGED <<script, screen, report, game, pipe, xvfb>>
      /\ \/ Ui!Raise("error")
         \/ Ui!Go("display") /\ UNCHANGED <<next, frames>>
  BY DEF Ui!Setup, Running, Ui!processes
<1>2. \E e \in 0..MaxRuntime : clock' = clock + e /\ own' = own + e
  BY DEF Ui!Setup
<1>3. Processes'
  BY <1>1 DEF UiInv, Processes
<1>4. /\ next = 1 /\ frames = << >> /\ Last \in Nat /\ own = 0 /\ Due = 0
      /\ MaxRuntime \in Nat /\ clock = own + Due
  BY <1>1, ScriptFacts, ConstantsFit DEF UiInv, UiTypes, Due, Ui!UiAssumption
<1>5. clock' \in 0..MaxRuntime /\ own' \in 0..clock' /\ clock' = own' + 0
  BY <1>2, <1>4
<1>6. next \in 1..Last + 1 /\ Len(frames) <= Last /\ frames \in Seq({"pinned", "other"})
  BY <1>4
<1>7. CASE Ui!Raise("error")
  <2>1. pc' = "terminate" /\ failure' = "error" /\ UNCHANGED <<next, frames, status>>
    BY <1>7 DEF Ui!Raise
  <2> QED
    BY <1>1, <1>3, <1>5, <1>6, <2>1, StopKeeps
<1>8. CASE Ui!Go("display") /\ UNCHANGED <<next, frames>>
  <2>1. pc' = "display" /\ UNCHANGED <<failure, status, next, frames>>
    BY <1>8 DEF Ui!Go
  <2>2. Due' = 0
    BY <2>1 DEF Due
  <2>3. clock' = own' + Due'
    BY <1>5, <2>2
  <2>4. pc' \in Running \ {"setup"}
    BY <2>1 DEF Running
  <2> QED
    BY <1>1, <1>3, <1>4, <1>5, <1>6, <2>1, <2>3, <2>4, AdvanceKeeps
<1> QED
  BY <1>1, <1>7, <1>8

\* Starting the display and the game fails, for want of time too, or takes the settle
\* time.
LEMMA StartDisplayKeeps ==
  ASSUME UiInv, Ui!StartDisplay
  PROVE  UiInv'
<1>1. pc = "display" /\ pc \in Running /\ UNCHANGED <<script, screen, report, own>>
  BY DEF Ui!StartDisplay, Running
<1>2. /\ next = 1 /\ frames = << >> /\ Last \in Nat /\ Due = 0 /\ clock = own
      /\ clock \in 0..MaxRuntime /\ own \in 0..clock /\ MaxRuntime \in Nat /\ MaxRuntime # 0
      /\ Processes
  BY <1>1, ScriptFacts, ConstantsFit DEF UiInv, UiTypes, Due, Ui!UiAssumption
<1>3. next \in 1..Last + 1 /\ Len(frames) <= Last /\ frames \in Seq({"pinned", "other"})
  BY <1>2
<1>4. CASE Ui!Raise("error") /\ UNCHANGED clock /\ Processes'
  <2>1. pc' = "terminate" /\ failure' = "error" /\ UNCHANGED <<next, frames, status>>
    BY <1>4 DEF Ui!Raise
  <2> QED
    BY <1>1, <1>2, <1>3, <1>4, <2>1, StopKeeps
<1>5. CASE ~Ui!Sleeps(clock, Ui!XvfbSettle) /\ Ui!Raise("deadline") /\ UNCHANGED clock /\ Processes'
  <2>1. pc' = "terminate" /\ failure' = "deadline" /\ UNCHANGED <<next, frames, status>>
    BY <1>5 DEF Ui!Raise
  <2>2. own > 0
    BY <1>2, <1>5 DEF Ui!Sleeps, Ui!XvfbSettle
  <2>3. own' > 0 /\ own' \in 0..clock' /\ clock' \in 0..MaxRuntime
    BY <1>1, <1>2, <1>5, <2>2
  <2> QED
    BY <1>1, <1>2, <1>3, <1>5, <2>1, <2>3, StopKeeps
<1>6. CASE Ui!Sleeps(clock, Ui!XvfbSettle) /\ clock' = clock + Ui!XvfbSettle /\ Processes'
           /\ (Ui!Raise("error") \/ (Ui!Go("window") /\ UNCHANGED <<next, frames>>))
  <2>1. clock' = own' + 1 /\ clock' \in 0..MaxRuntime /\ own' \in 0..clock'
    BY <1>1, <1>2, <1>6 DEF Ui!Sleeps, Ui!XvfbSettle
  <2>2. CASE Ui!Raise("error")
    <3>1. pc' = "terminate" /\ failure' = "error" /\ UNCHANGED <<next, frames, status>>
      BY <2>2 DEF Ui!Raise
    <3> QED
      BY <1>1, <1>2, <1>3, <1>6, <2>1, <3>1, StopKeeps
  <2>3. CASE Ui!Go("window") /\ UNCHANGED <<next, frames>>
    <3>1. pc' = "window" /\ UNCHANGED <<failure, status, next, frames>>
      BY <2>3 DEF Ui!Go
    <3>2. Due' = 1
      BY <3>1 DEF Due
    <3>3. clock' = own' + Due' /\ pc' \in Running \ {"setup"}
      BY <2>1, <3>1, <3>2 DEF Running
    <3> QED
      BY <1>1, <1>2, <1>3, <1>6, <2>1, <3>1, <3>3, AdvanceKeeps
  <2> QED
    BY <1>6, <2>2, <2>3
<1>7. Processes'
  BY <1>2 DEF Ui!StartDisplay, Ui!processes, Processes
<1> QED
  BY <1>4, <1>5, <1>6, <1>7 DEF Ui!StartDisplay

\* A helper that ends well.
LEMMA HelperTime ==
  ASSUME UiInv, pc \in Running, NEW e \in {0, 1}, clock # MaxRuntime, clock' = clock + e, own' = own + e
  PROVE  clock' \in 0..MaxRuntime /\ own' \in 0..clock' /\ clock' = own' + Due
BY DueFits

\* Looking for the window spends time of its own or finds it.
LEMMA FindWindowKeeps ==
  ASSUME UiInv, Ui!FindWindow
  PROVE  UiInv'
<1>1. /\ pc \in {"window", "geometry"} /\ pc \in Running
      /\ UNCHANGED <<script, screen, report, game, pipe, xvfb>>
  BY DEF Ui!FindWindow, Running, Ui!processes
<1>2. Processes'
  BY <1>1 DEF UiInv, Processes
<1>3. CASE \E why \in {"deadline", "error"} :
             /\ Ui!Raise(why)
             /\ \/ UNCHANGED <<clock, own>> /\ (why = "deadline" => clock = MaxRuntime)
                \/ \E e \in {0, 1} :
                     /\ clock # MaxRuntime /\ clock' = clock + e /\ own' = own + e
                     /\ why = (IF clock' = MaxRuntime THEN "deadline" ELSE "error")
  BY <1>1, <1>2, <1>3, HelperStops
<1>4. CASE \E e \in {0, 1} :
             /\ clock # MaxRuntime /\ clock' = clock + e /\ own' = own + e
             /\ Ui!Go(IF pc = "window" THEN "chords" ELSE "startup")
             /\ UNCHANGED <<next, frames>>
  <2>1. /\ pc' = (IF pc = "window" THEN "chords" ELSE "startup")
        /\ UNCHANGED <<failure, status, next, frames>>
    BY <1>4 DEF Ui!Go
  <2>2. clock' \in 0..MaxRuntime /\ own' \in 0..clock' /\ clock' = own' + Due
    BY <1>1, <1>4, HelperTime
  <2>3. Due' = Due
    BY <1>1, <2>1 DEF Due
  <2>4. /\ next = 1 /\ frames = << >> /\ next \in 1..Last + 1 /\ Len(frames) <= Last
        /\ frames \in Seq({"pinned", "other"})
    BY <1>1 DEF UiInv, UiTypes
  <2>5. pc' \in {"chords", "startup"} /\ pc' \in Running \ {"setup"}
    BY <2>1 DEF Running
  <2> QED
    BY <1>1, <1>2, <2>1, <2>2, <2>3, <2>4, <2>5, AdvanceKeeps
<1> QED
  BY <1>3, <1>4 DEF Ui!FindWindow, Ui!Helper
\* A sleep that is refused by the deadline, when it is a declared one.
LEMMA SleepStops ==
  ASSUME UiInv, pc \in Running, NEW pressed \in Nat, NEW seconds \in Nat,
         Due + pressed + seconds <= Needed + 1, clock + pressed <= MaxRuntime,
         ~Ui!Sleeps(clock + pressed, seconds), pc' = "terminate", failure' = "deadline",
         clock' = clock + pressed,
         UNCHANGED <<frames, status, own, script, screen, report>>, Processes',
         next' \in 1..Last + 1
  PROVE  UiInv'
<1>1. frames \in Seq({"pinned", "other"}) /\ Len(frames) <= Last
  BY DEF UiInv, UiTypes
<1>2. own > 0 \/ Needed + 1 >= MaxRuntime
  BY DueFits DEF Ui!Sleeps
<1>3. clock' \in 0..MaxRuntime /\ own' \in 0..clock' /\ own' = own
  BY DueFits
<1> QED
  BY <1>1, <1>2, <1>3, StopKeeps

\* A sleep that is due within the deadline ends within it.
LEMMA SleepTime ==
  ASSUME UiInv, pc \in Running, NEW pressed \in Nat, NEW seconds \in Nat,
         clock + pressed <= MaxRuntime, Ui!Sleeps(clock + pressed, seconds),
         clock' = clock + pressed + seconds, own' = own
  PROVE  /\ clock' \in 0..MaxRuntime /\ own' \in 0..clock'
         /\ clock' = own' + Due + pressed + seconds
BY DueFits DEF Ui!Sleeps

\* The wait after the keys before the first picture keeps the invariant.
LEMMA PreVideoKeeps ==
  ASSUME UiInv, Ui!PreVideo
  PROVE  UiInv'
<1>1. /\ pc = "chords" /\ pc \in Running
      /\ UNCHANGED <<script, screen, report, game, pipe, xvfb>>
      /\ \/ Ui!Sleep(0, Ui!ChordSettle * script.chords, "geometry") /\ UNCHANGED next
         \/ Ui!Raise("error") /\ UNCHANGED <<clock, own>>
  BY DEF Ui!PreVideo, Running, Ui!processes
<1>2. Processes'
  BY <1>1 DEF UiInv, Processes
<1>3. /\ script \in Ui!Scripts /\ Ui!Loads(script) /\ next = 1 /\ frames = << >>
      /\ next \in 1..Last + 1 /\ Len(frames) <= Last /\ frames \in Seq({"pinned", "other"})
      /\ clock \in 0..MaxRuntime /\ MaxRuntime \in Nat
  BY <1>1, ConstantsFit DEF UiInv, UiTypes, Ui!UiAssumption
<1>4. /\ script.chords \in Nat /\ script.startup \in Nat /\ Spent(Last) \in Nat
      /\ Ui!ChordSettle * script.chords = script.chords
      /\ clock + 0 = clock /\ clock + 0 <= MaxRuntime
  BY <1>3, ScriptFacts, SpentAdds DEF Ui!ChordSettle
<1>5. Due = 1 /\ Due + 0 + script.chords <= Needed + 1
  BY <1>1, <1>3, <1>4 DEF Due, Needed
<1>6. CASE Ui!Raise("error") /\ UNCHANGED <<clock, own>>
  BY <1>1, <1>2, <1>6, HelperStops
<1>7. CASE Ui!Sleep(0, Ui!ChordSettle * script.chords, "geometry") /\ UNCHANGED next
  <2>0. UNCHANGED <<frames, status, own, next>>
    BY <1>7 DEF Ui!Sleep
  <2>1. CASE Ui!Sleeps(clock + 0, script.chords)
    <3>1. clock' = clock + 0 + script.chords /\ pc' = "geometry" /\ UNCHANGED failure
      BY <1>4, <1>7, <2>1 DEF Ui!Sleep
    <3>2. /\ clock' \in 0..MaxRuntime /\ own' \in 0..clock'
          /\ clock' = own' + Due + 0 + script.chords
      BY <1>1, <1>4, <2>0, <2>1, <3>1, SleepTime
    <3>3. Due' = 1 + script.chords
      BY <1>1, <1>4, <3>1 DEF Due
    <3>4. pc' \in Running \ {"setup"} /\ own' \in Int
      BY <3>1, <3>2 DEF Running
    <3>5. clock' = own' + Due'
      BY <1>4, <1>5, <3>2, <3>3, <3>4
    <3> QED
      BY <1>1, <1>2, <1>3, <2>0, <3>1, <3>2, <3>4, <3>5, AdvanceKeeps
  <2>2. CASE ~Ui!Sleeps(clock + 0, script.chords)
    <3>1. pc' = "terminate" /\ failure' = "deadline" /\ clock' = clock + 0
      BY <1>4, <1>7, <2>2 DEF Ui!Sleep
    <3> QED
      BY <1>1, <1>2, <1>3, <1>4, <1>5, <2>0, <2>2, <3>1, SleepStops
  <2> QED
    BY <2>1, <2>2
<1> QED
  BY <1>1, <1>6, <1>7

\* The wait before the script keeps the invariant.
LEMMA StartupKeeps ==
  ASSUME UiInv, Ui!StartupWait
  PROVE  UiInv'
<1>1. /\ pc = "startup" /\ pc \in Running
      /\ UNCHANGED <<script, screen, report, game, pipe, xvfb>>
  BY DEF Ui!StartupWait, Running, Ui!processes
<1>2. Processes'
  BY <1>1 DEF UiInv, Processes
<1>3. /\ script \in Ui!Scripts /\ Ui!Loads(script) /\ next = 1 /\ frames = << >>
      /\ next \in 1..Last + 1 /\ Len(frames) <= Last /\ frames \in Seq({"pinned", "other"})
  BY <1>1 DEF UiInv, UiTypes
<1>4. /\ script.chords \in Nat /\ script.startup \in Nat /\ Spent(Last) \in Nat
      /\ Spent(0) = 0 /\ Last \in Nat \ {0}
      /\ clock \in Nat /\ clock + 0 = clock /\ clock + 0 <= MaxRuntime
  <2>1. /\ script.chords \in Nat /\ script.startup \in Nat /\ Spent(Last) \in Nat
        /\ Spent(0) = 0 /\ Last \in Nat \ {0}
    BY <1>3, ScriptFacts, SpentAdds
  <2> QED
    BY <1>1, <2>1, DueFits
<1>5. Due = 1 + script.chords /\ Due + 0 + script.startup <= Needed + 1
  BY <1>1, <1>3, <1>4 DEF Due, Needed
<1>6. CASE game # "running" /\ Ui!Raise("error") /\ UNCHANGED <<clock, own>>
  BY <1>1, <1>2, <1>6, HelperStops
<1>7. CASE game = "running" /\ Ui!Sleep(0, script.startup, "steps") /\ next' = next
  <2>0. UNCHANGED <<frames, status, own, next>>
    BY <1>7 DEF Ui!Sleep
  <2>1. CASE Ui!Sleeps(clock + 0, script.startup)
    <3>1. clock' = clock + 0 + script.startup /\ pc' = "steps" /\ UNCHANGED failure
      BY <1>7, <2>1 DEF Ui!Sleep
    <3>2. /\ clock' \in 0..MaxRuntime /\ own' \in 0..clock'
          /\ clock' = own' + Due + 0 + script.startup
      BY <1>1, <1>4, <2>0, <2>1, <3>1, SleepTime
    <3>3. Due' = 1 + script.chords + script.startup
      <4>1. Spent(next - 1)' = 0
        BY <1>1, <1>3, <1>4, <2>0 DEF Spent, Slept, Presses
      <4> QED
        BY <1>1, <1>4, <3>1, <4>1 DEF Due
    <3>4. pc' \in Running \ {"setup"} /\ own' \in Int
      BY <3>1, <3>2 DEF Running
    <3>5. Last' = Last
      BY <1>1 DEF Last
    <3>6. FramesInv'
      <4>1. Ui!Frame(script, 0) = 0 /\ \A i \in Ui!Captured(script) : i \in 1..Last
        BY <1>3, <1>4, FrameCounts, ScriptFacts
      <4>2. Len(frames) = Ui!Frame(script, next - 1) /\ \A i \in Ui!Captured(script) : ~(i < next)
        BY <1>3, <1>4, <4>1
      <4>3. FramesInv
        BY <4>2 DEF FramesInv
      <4> QED
        BY <1>1, <2>0, <4>3 DEF FramesInv
    <3> QED
      BY <1>1, <1>2, <1>3, <1>4, <1>5, <2>0, <3>1, <3>2, <3>3, <3>4, <3>6, AdvanceKeeps
  <2>2. CASE ~Ui!Sleeps(clock + 0, script.startup)
    <3>1. pc' = "terminate" /\ failure' = "deadline" /\ clock' = clock + 0
      BY <1>7, <2>2 DEF Ui!Sleep
    <3> QED
      BY <1>1, <1>2, <1>3, <1>4, <1>5, <2>0, <2>2, <3>1, SleepStops
  <2> QED
    BY <2>1, <2>2
<1> QED
  BY <1>6, <1>7 DEF Ui!StartupWait

\* Facts about the step that is next.
LEMMA NextStep ==
  ASSUME UiInv, pc = "steps"
  PROVE  /\ script \in Ui!Scripts /\ next \in 1..Last /\ Last \in Nat /\ pc \in Running
         /\ frames \in Seq({"pinned", "other"}) /\ Len(frames) <= Last /\ FramesInv
         /\ next \in Ui!Captured(script) <=> Ui!Current.action = "capture"
         /\ Ui!Current = script.steps[next]
         /\ Spent(next - 1) \in Nat /\ Spent(next) \in Nat /\ Spent(Last) \in Nat
         /\ Spent(next) <= Spent(Last)
         /\ script.chords \in Nat /\ script.startup \in Nat
         /\ Due = 1 + script.chords + script.startup + Spent(next - 1)
<1>1. script \in Ui!Scripts /\ Ui!Loads(script) /\ next \in 1..Last + 1 /\ next <= Last /\ FramesInv
      /\ frames \in Seq({"pinned", "other"}) /\ Len(frames) <= Last
  BY DEF UiInv, UiTypes
<1>2. Last \in Nat /\ script.chords \in Nat /\ script.startup \in Nat
  BY <1>1, ScriptFacts
<1>3. next \in 1..Last /\ next - 1 \in 0..Last /\ next \in 0..Last /\ Last \in 0..Last
  BY <1>1, <1>2
<1>4. /\ Spent(next - 1) \in Nat /\ Spent(next) \in Nat /\ Spent(Last) \in Nat
      /\ Spent(next) <= Spent(Last)
  BY <1>1, <1>3, SpentAdds
<1>5. next \in Ui!Captured(script) <=> script.steps[next].action = "capture"
  BY <1>1, <1>3, ScriptFacts
<1>6. Due = 1 + script.chords + script.startup + Spent(next - 1)
  BY <1>2, <1>4 DEF Due
<1> QED
  BY <1>1, <1>2, <1>3, <1>4, <1>5, <1>6 DEF Ui!Current, Running
\* After the step at next: where the runner goes, and how much time its steps took.
LEMMA StepDone ==
  ASSUME UiInv, pc = "steps", next' = next + 1, UNCHANGED script, pc' = Ui!AfterStep
  PROVE  /\ pc' \in {"steps", "ratios"} /\ pc' \in Running \ {"setup"} /\ next' \in 1..Last + 1
         /\ pc' = "steps" => next' <= Last
         /\ pc' = "ratios" => next' = Last + 1
         /\ Due' = Due + (IF next \in Ui!Captured(script) THEN 0 ELSE Takes(script.steps[next]))
<1>1. /\ script \in Ui!Scripts /\ next \in 1..Last /\ Last \in Nat
      /\ Spent(next - 1) \in Nat /\ Spent(next) \in Nat
      /\ script.chords \in Nat /\ script.startup \in Nat
      /\ Due = 1 + script.chords + script.startup + Spent(next - 1)
  BY NextStep
<1>2. pc' = IF next = Last THEN "ratios" ELSE "steps"
  BY DEF Ui!AfterStep, Last
<1>3. Spent(next - 1)' = Spent(next)
  <2>1. next' - 1 = next
    BY <1>1
  <2> QED
    BY <2>1 DEF Spent, Slept, Presses
<1>4. Due' = 1 + script.chords + script.startup + Spent(next)
  BY <1>1, <1>2, <1>3 DEF Due
<1>5. Spent(next) = Spent(next - 1) + (IF next \in Ui!Captured(script) THEN 0
                                       ELSE Takes(script.steps[next]))
  BY <1>1, SpentAdds
<1>6. next \notin Ui!Captured(script) => Takes(script.steps[next]) \in Nat
  BY <1>1, SpentAdds
<1> QED
  BY <1>1, <1>2, <1>4, <1>5, <1>6 DEF Running

\* A wait or an input of the script moves the clock by what was declared for it and
\* by its press.
LEMMA WaitOrInputKeeps ==
  ASSUME UiInv, Ui!WaitOrInput
  PROVE  UiInv'
<1>1. /\ pc = "steps" /\ pc \in Running /\ Ui!Current.action # "capture"
      /\ UNCHANGED <<script, screen, report, game, pipe, xvfb>>
  BY DEF Ui!WaitOrInput, Running, Ui!processes
<1>2. Processes'
  BY <1>1 DEF UiInv, Processes
<1>3. /\ script \in Ui!Scripts /\ next \in 1..Last /\ Last \in Nat /\ next \notin Ui!Captured(script)
      /\ frames \in Seq({"pinned", "other"}) /\ Len(frames) <= Last /\ FramesInv
      /\ Ui!Current = script.steps[next]
  BY <1>1, NextStep
<1>4. CASE clock = MaxRuntime /\ Ui!Raise("deadline") /\ UNCHANGED <<clock, own>>
  BY <1>1, <1>2, <1>4, HelperStops
<1>5. CASE Ui!Raise("error") /\ UNCHANGED <<clock, own>>
  BY <1>1, <1>2, <1>5, HelperStops
<1>6. CASE /\ clock < MaxRuntime /\ game = "running"
           /\ Ui!Sleep(Ui!Pressed(Ui!Current), Ui!Seconds(Ui!Current), Ui!AfterStep)
           /\ next' = next + 1
  <2> DEFINE seconds == Ui!Seconds(script.steps[next])
             pressed == Ui!Pressed(script.steps[next])
  <2>1. /\ seconds \in Nat /\ pressed \in {0, 1} /\ Takes(script.steps[next]) = pressed + seconds
        /\ UNCHANGED <<frames, status, own>>
    BY <1>3, <1>6, ScriptFacts DEF Ui!Sleep, Takes, Ui!Pressed, Ui!ClickSleep
  <2>2. Ui!Sleep(pressed, seconds, Ui!AfterStep)
    BY <1>3, <1>6
  <2>3. Spent(next) = Spent(next - 1) + Takes(script.steps[next])
    BY <1>3, SpentAdds
  <2> HIDE DEF seconds, pressed
  <2>4. Due + pressed + seconds <= Needed + 1 /\ Due \in Nat
    <3>1. /\ Spent(next) <= Spent(Last) /\ Spent(next - 1) \in Nat /\ Spent(Last) \in Nat
          /\ script.chords \in Nat /\ script.startup \in Nat
          /\ Due = 1 + script.chords + script.startup + Spent(next - 1)
      BY <1>1, NextStep
    <3> QED
      BY <2>1, <2>3, <3>1 DEF Needed
  <2>5. clock + pressed <= MaxRuntime /\ pressed \in Nat
    BY <1>1, <1>6, <2>1, DueFits
  <2>6. CASE Ui!Sleeps(clock + pressed, seconds)
    <3>1. clock' = clock + pressed + seconds /\ pc' = Ui!AfterStep /\ UNCHANGED failure
      BY <2>2, <2>6 DEF Ui!Sleep
    <3>2. /\ clock' \in 0..MaxRuntime /\ own' \in 0..clock'
          /\ clock' = own' + Due + pressed + seconds
      BY <1>1, <2>1, <2>5, <2>6, <3>1, SleepTime
    <3>3. /\ pc' \in {"steps", "ratios"} /\ pc' \in Running \ {"setup"} /\ next' \in 1..Last + 1
          /\ pc' = "steps" => next' <= Last
          /\ pc' = "ratios" => next' = Last + 1
          /\ Due' = Due + Takes(script.steps[next])
      BY <1>1, <1>3, <1>6, <3>1, StepDone
    <3>4. clock' = own' + Due'
      BY <2>1, <2>4, <3>2, <3>3
    <3>5. FramesInv'
      <4>1. Ui!Frame(script, next) = Ui!Frame(script, next - 1) /\ next' - 1 = next
        BY <1>3, <1>6, FrameCounts
      <4>2. \A i \in Ui!Captured(script) : i < next' => i < next
        <5>1. \A i \in Ui!Captured(script) : i \in 1..Last /\ i # next
          BY <1>3, ScriptFacts
        <5> QED
          BY <1>3, <1>6, <5>1
      <4> QED
        BY <1>1, <1>3, <2>1, <4>1, <4>2 DEF FramesInv
    <3> QED
      BY <1>1, <1>2, <1>3, <2>1, <3>1, <3>2, <3>3, <3>4, <3>5, AdvanceKeeps
  <2>7. CASE ~Ui!Sleeps(clock + pressed, seconds)
    <3>1. pc' = "terminate" /\ failure' = "deadline" /\ clock' = clock + pressed
      BY <2>2, <2>7 DEF Ui!Sleep
    <3>2. next' \in 1..Last + 1
      BY <1>3, <1>6
    <3> QED
      BY <1>1, <1>2, <2>1, <2>4, <2>5, <2>7, <3>1, <3>2, SleepStops
  <2> QED
    BY <2>6, <2>7
<1> QED
  BY <1>4, <1>5, <1>6 DEF Ui!WaitOrInput

\* A capture adds one frame, or fails the run for want of time.
LEMMA UiCaptureKeeps ==
  ASSUME UiInv, Ui!Capture
  PROVE  UiInv'
<1>1. /\ pc = "steps" /\ pc \in Running /\ Ui!Current.action = "capture"
      /\ UNCHANGED <<script, screen, report, game, pipe, xvfb>>
  BY DEF Ui!Capture, Running, Ui!processes
<1>2. Processes'
  BY <1>1 DEF UiInv, Processes
<1>3. /\ script \in Ui!Scripts /\ next \in 1..Last /\ Last \in Nat /\ next \in Ui!Captured(script)
      /\ frames \in Seq({"pinned", "other"}) /\ Len(frames) <= Last /\ FramesInv
      /\ Ui!Current = script.steps[next] /\ screen \in {"pinned", "other"}
  BY <1>1, NextStep DEF UiInv, UiTypes
<1>4. CASE \E why \in {"deadline", "error"} :
             /\ Ui!Raise(why)
             /\ \/ UNCHANGED <<clock, own>> /\ (why = "deadline" => clock = MaxRuntime)
                \/ \E e \in {0, 1} :
                     /\ clock # MaxRuntime /\ clock' = clock + e /\ own' = own + e
                     /\ why = (IF clock' = MaxRuntime THEN "deadline" ELSE "error")
  BY <1>1, <1>2, <1>4, HelperStops
<1>5. CASE /\ \E e \in {0, 1} : clock # MaxRuntime /\ clock' = clock + e /\ own' = own + e
           /\ frames' = Append(frames, screen)
           /\ IF Ui!Current.oracle /\ screen # "pinned"
              THEN pc' = "terminate" /\ failure' = "error" /\ UNCHANGED <<next, status>>
              ELSE Ui!Go(Ui!AfterStep) /\ next' = next + 1
  <2>1. clock' \in 0..MaxRuntime /\ own' \in 0..clock' /\ clock' = own' + Due
    BY <1>1, <1>5, HelperTime
  <2>2. /\ Ui!Frame(script, next) = Ui!Frame(script, next - 1) + 1
        /\ Ui!Frame(script, next) \in 0..next /\ Len(frames) = Ui!Frame(script, next - 1)
    <3>1. next \in 0..Last
      BY <1>3
    <3> QED
      BY <1>3, <3>1, FrameCounts DEF FramesInv
  <2>3. /\ frames' \in Seq({"pinned", "other"}) /\ Len(frames') = Len(frames) + 1
        /\ \A i \in 1..Len(frames) : frames'[i] = frames[i]
        /\ frames'[Len(frames) + 1] = screen /\ Len(frames) \in Nat
    BY <1>3, <1>5
  <2>4. Len(frames') = Ui!Frame(script, next) /\ Len(frames') <= Last
    BY <1>3, <2>2, <2>3
  <2>5. CASE Ui!Current.oracle /\ screen # "pinned"
    <3>1. pc' = "terminate" /\ failure' = "error" /\ UNCHANGED <<next, status>> /\ next \in 1..Last + 1
      BY <1>3, <1>5, <2>5
    <3> QED
      BY <1>1, <1>2, <2>1, <2>3, <2>4, <3>1, StopKeeps
  <2>6. CASE ~(Ui!Current.oracle /\ screen # "pinned")
    <3>1. pc' = Ui!AfterStep /\ next' = next + 1 /\ UNCHANGED <<failure, status>>
      BY <1>5, <2>6 DEF Ui!Go
    <3>2. /\ pc' \in {"steps", "ratios"} /\ pc' \in Running \ {"setup"} /\ next' \in 1..Last + 1
          /\ pc' = "steps" => next' <= Last
          /\ pc' = "ratios" => next' = Last + 1
          /\ Due' = Due + 0
      BY <1>1, <1>3, <3>1, StepDone
    <3>3. Due' = Due
      BY <1>1, <3>2, DueFits
    <3>4. FramesInv'
      <4>1. next' - 1 = next /\ next' = next + 1
        BY <1>3, <3>1
      <4>2. ASSUME NEW i \in Ui!Captured(script), i < next', script.steps[i].oracle
            PROVE  frames'[Ui!Frame(script, i)] = "pinned"
        <5>1. i \in 1..Last
          BY <1>3, ScriptFacts
        <5>2. CASE i = next
          <6>1. screen = "pinned"
            BY <1>3, <2>6, <4>2, <5>2
          <6> QED
            BY <2>2, <2>3, <5>2, <6>1
        <5>3. CASE i # next
          <6>1. i < next /\ i \in 0..Last /\ next - 1 \in 0..Last /\ i <= next - 1
                /\ i - 1 \in 0..Last
            BY <1>3, <4>1, <4>2, <5>1, <5>3
          <6>2. /\ Ui!Frame(script, i) = Ui!Frame(script, i - 1) + 1
                /\ Ui!Frame(script, i - 1) \in 0..i - 1
                /\ Ui!Frame(script, i) <= Ui!Frame(script, next - 1)
            BY <1>3, <5>1, <6>1, FrameCounts
          <6>3. Ui!Frame(script, i) \in 1..Len(frames)
            BY <2>2, <5>1, <6>2
          <6>4. frames[Ui!Frame(script, i)] = "pinned"
            BY <1>3, <4>2, <6>1 DEF FramesInv
          <6> QED
            BY <2>3, <6>3, <6>4
        <5> QED
          BY <5>2, <5>3
      <4> QED
        BY <1>1, <2>4, <4>1, <4>2 DEF FramesInv
    <3> QED
      BY <1>1, <1>2, <2>1, <2>3, <2>4, <3>1, <3>2, <3>3, <3>4, AdvanceKeeps
  <2> QED
    BY <2>5, <2>6
<1> QED
  BY <1>4, <1>5 DEF Ui!Capture, Ui!Helper

\* A frame is accepted only when it shows what its step asks for.
LEMMA CompareKeeps ==
  ASSUME UiInv, Ui!CompareFrames
  PROVE  UiInv'
<1>1. /\ pc = "ratios" /\ pc \in Running
      /\ UNCHANGED <<script, screen, report, game, pipe, xvfb>>
  BY DEF Ui!CompareFrames, Running, Ui!processes
<1>2. Processes'
  BY <1>1 DEF UiInv, Processes
<1>3. CASE \E why \in {"deadline", "error"} :
             /\ Ui!Raise(why)
             /\ \/ UNCHANGED <<clock, own>> /\ (why = "deadline" => clock = MaxRuntime)
                \/ \E e \in {0, 1} :
                     /\ clock # MaxRuntime /\ clock' = clock + e /\ own' = own + e
                     /\ why = (IF clock' = MaxRuntime THEN "deadline" ELSE "error")
  BY <1>1, <1>2, <1>3, HelperStops
<1>4. CASE /\ \E e \in {0, 1} : clock # MaxRuntime /\ clock' = clock + e /\ own' = own + e
           /\ Ui!EnoughChange /\ Ui!Go("complete") /\ UNCHANGED <<next, frames>>
  <2>1. pc' = "complete" /\ UNCHANGED <<failure, status, next, frames>>
    BY <1>4 DEF Ui!Go
  <2>2. clock' \in 0..MaxRuntime /\ own' \in 0..clock' /\ clock' = own' + Due
    BY <1>1, <1>4, HelperTime
  <2>3. Due' = Due /\ Last' = Last
    BY <1>1, <2>1 DEF Due, Spent, Slept, Presses, Last
  <2>4. /\ next = Last + 1 /\ next \in 1..Last + 1 /\ Len(frames) <= Last
        /\ frames \in Seq({"pinned", "other"}) /\ FramesInv
    BY <1>1 DEF UiInv, UiTypes
  <2>5. FramesInv' /\ Ui!EnoughChange'
    BY <1>1, <1>4, <2>1, <2>4 DEF FramesInv, Ui!EnoughChange, Ui!Changes, Ui!Threshold
  <2>6. pc' \in Running \ {"setup"}
    BY <2>1 DEF Running
  <2> QED
    BY <1>1, <1>2, <2>1, <2>2, <2>3, <2>4, <2>5, <2>6, AdvanceKeeps
<1> QED
  BY <1>3, <1>4 DEF Ui!CompareFrames, Ui!Helper

\* The run passes only at the end of its script.
LEMMA CompleteKeeps ==
  ASSUME UiInv, Ui!Complete
  PROVE  UiInv'
<1>1. /\ pc = "complete" /\ pc \in Running /\ UNCHANGED <<clock, own, next, frames>> /\ pc' = "terminate"
      /\ UNCHANGED <<script, screen, report, game, pipe, xvfb>>
  BY DEF Ui!Complete, Running, Ui!processes
<1>2. Processes'
  BY <1>1 DEF UiInv, Processes
<1>3. CASE clock = MaxRuntime /\ failure' = "deadline" /\ UNCHANGED status
  <2>1. Ui!Raise("deadline") /\ UNCHANGED <<clock, own>>
    BY <1>1, <1>3 DEF Ui!Raise
  <2> QED
    BY <1>1, <1>2, <1>3, <2>1, HelperStops
<1>4. CASE clock # MaxRuntime /\ status' = "passed" /\ UNCHANGED failure
  <2>1. /\ script \in Ui!Scripts /\ Ui!Loads(script) /\ next = Last + 1 /\ FramesInv /\ Ui!EnoughChange
    BY <1>1 DEF UiInv, UiTypes
  <2>2. clock \in 0..MaxRuntime /\ MaxRuntime \in Nat /\ failure = "none"
    BY <1>1, DueFits
  <2>3. Last \in Nat /\ \A i \in Ui!Captured(script) : i \in 1..Last
    BY <2>1, ScriptFacts
  <2>4. next - 1 = Last /\ \A i \in Ui!Captured(script) : i < next
    BY <2>1, <2>3
  <2>5. Len(frames) = Ui!Cardinality(Ui!Captured(script))
    BY <2>1, <2>4, FrameCounts DEF FramesInv
  <2>6. ASSUME NEW i \in Ui!Captured(script)
        PROVE  /\ script.steps[i].oracle => frames[Ui!Frame(script, i)] = "pinned"
               /\ script.steps[i].change =>
                    /\ Ui!Frame(script, i) > 1
                    /\ frames[Ui!Frame(script, i)] # frames[Ui!Frame(script, i) - 1]
    <3>1. script.steps[i].oracle => frames[Ui!Frame(script, i)] = "pinned"
      BY <2>1, <2>4 DEF FramesInv
    <3>2. script.steps[i].change => Ui!Frame(script, i) > 1
      BY <2>1 DEF Ui!Loads
    <3>3. script.steps[i].change => frames[Ui!Frame(script, i)] # frames[Ui!Frame(script, i) - 1]
      BY <2>1, <3>2 DEF Ui!EnoughChange, Ui!Threshold, Ui!Changes
    <3> QED
      BY <3>1, <3>2, <3>3
  <2>7. clock < MaxRuntime
    BY <1>4, <2>2
  <2>8. Ui!PassedAsScripted'
    <3>1. UNCHANGED <<script, frames, clock>>
      BY <1>1
    <3> QED
      BY <2>5, <2>6, <2>7, <3>1 DEF Ui!PassedAsScripted
  <2>9. Ui!DeclaredWaitsFit'
    <3>1. Ui!Declared' = Ui!Declared
      BY <1>1 DEF Ui!Declared, Ui!Total
    <3> QED
      BY <1>4, <2>2, <3>1 DEF UiInv, Ui!DeclaredWaitsFit
  <2>10. Last' = Last
    BY <1>1 DEF Last
  <2>11. UiTypes'
    BY <1>1, <1>4, <2>10 DEF UiInv, UiTypes, Ui!Places
  <2> QED
    BY <1>1, <1>2, <2>8, <2>9, <2>11 DEF UiInv, Running
<1> QED
  BY <1>3, <1>4 DEF Ui!Complete

\* Every step of the UI run, teardown included, keeps the invariant.
LEMMA UiStepKeeps ==
  ASSUME UiInv, Ui!Next
  PROVE  UiInv'
<1>a. /\ screen \in {"pinned", "other"} /\ report \in {"none", "failed", "passed"}
      /\ status \in {"failed", "passed"} /\ Processes
  BY DEF UiInv, UiTypes
<1>1. CASE Ui!Setup
  BY <1>1, UiSetupKeeps
<1>15. CASE Ui!StartDisplay
  BY <1>15, StartDisplayKeeps
<1>2. CASE Ui!FindWindow
  BY <1>2, FindWindowKeeps
<1>3. CASE Ui!PreVideo
  BY <1>3, PreVideoKeeps
<1>4. CASE Ui!StartupWait
  BY <1>4, StartupKeeps
<1>5. CASE Ui!WaitOrInput
  BY <1>5, WaitOrInputKeeps
<1>6. CASE Ui!Capture
  BY <1>6, UiCaptureKeeps
<1>7. CASE Ui!CompareFrames
  BY <1>7, CompareKeeps
<1>8. CASE Ui!Complete
  BY <1>8, CompleteKeeps
<1>9. CASE Ui!Terminate
  <2>1. Processes'
    BY <1>a, <1>9 DEF Ui!Terminate, Processes
  <2> QED
    BY <1>a, <1>9, <2>1, OthersKeep DEF Ui!Terminate
<1>10. CASE Ui!Collect
  <2>1. Processes'
    BY <1>a, <1>10 DEF Ui!Collect, Processes
  <2> QED
    BY <1>a, <1>10, <2>1, OthersKeep DEF Ui!Collect
<1>11. CASE Ui!Report
  <2>1. Processes'
    BY <1>a, <1>11 DEF Ui!Report, Ui!processes, Processes
  <2> QED
    BY <1>a, <1>11, <2>1, OthersKeep DEF Ui!Report
<1>12. CASE Ui!Shows
  <2>1. Processes'
    BY <1>a, <1>12 DEF Ui!Shows, Ui!processes, Processes
  <2> QED
    BY <1>a, <1>12, <2>1, OthersKeep DEF Ui!Shows
<1>13. CASE Ui!GameExits
  <2>1. Processes'
    BY <1>a, <1>13 DEF Ui!GameExits, Processes
  <2> QED
    BY <1>a, <1>13, <2>1, OthersKeep DEF Ui!GameExits
<1>14. CASE Ui!PipesClose
  <2>1. Processes'
    BY <1>a, <1>14 DEF Ui!PipesClose, Processes
  <2> QED
    BY <1>a, <1>14, <2>1, OthersKeep DEF Ui!PipesClose
<1> QED
  BY <1>1, <1>2, <1>3, <1>4, <1>5, <1>6, <1>7, <1>8, <1>9, <1>10, <1>11, <1>12, <1>13, <1>14, <1>15
  DEF Ui!Next, Ui!Runner
-----------------------------------------------------------------------------
(* The composition.                                                         *)

\* The invariant of the probe types its variables.
LEMMA Re4Typed ==
  ASSUME Re4Inv
  PROVE  Re4!TypeOK
<1>a. Re4Types /\ QueueInv /\ HeldInv /\ ShotsInv
  BY DEF Re4Inv
<1>1. Re4!ToSet(queue) \subseteq {"m", "Escape", "select"}
  BY <1>a DEF QueueInv, Re4!ToSet
<1>2. \A i \in DOMAIN snapshots : snapshots[i] \in [Records -> BOOLEAN]
  BY <1>a DEF HeldInv
<1>3. Re4!ToSet(shots) \subseteq {"manual", "managed", "planet"} /\ Len(shots) <= 3
  BY <1>a DEF ShotsInv, Re4!ToSet
<1>4. Len(Re4!Script) + 1 = 24
  BY DEF Re4!Script
<1>5. Planet \in Records
  BY ConstantsFit DEF Re4!RecordsAssumption
<1> QED
  BY <1>a, <1>1, <1>2, <1>3, <1>4, <1>5 DEF Re4!TypeOK, Re4Types

\* Every step of the witness keeps its types.
LEMMA WitnessTyped ==
  ASSUME Witness!TypeOK, WitnessInv, Witness!Next
  PROVE  Witness!TypeOK'
<1>1. Horizon \in Nat /\ MinDelta \in Nat
  BY ConstantsFit DEF Witness!WitnessAssumption
<1>2. /\ pc' \in {"launch", "before", "window", "after", "done"}
      /\ result' \in {"none", "raised", "failed", "passed"} /\ UNCHANGED bias
  BY DEF Witness!TypeOK, Witness!Next, Witness!Locate, Witness!SampleBefore, Witness!ReadInWindow,
         Witness!Stamp, Witness!Tick, Witness!CloseWindow, Witness!SampleAfter, Witness!Raise
<1>3. date \in 0..MinDelta /\ dates \in Seq(0..MinDelta) /\ clock \in 0..Horizon /\ DOMAIN clear = 0..clock
  BY DEF Witness!TypeOK
<1>4. clock' \in 0..Horizon /\ DOMAIN clear' = 0..clock' /\ date' \in 0..MinDelta
  <2>1. CASE Witness!Tick
    BY <1>1, <1>3, <2>1 DEF Witness!Tick
  <2>2. CASE ~Witness!Tick
    <3>1. UNCHANGED <<clock, clear, date>>
      BY <2>2 DEF Witness!Next, Witness!Locate, Witness!SampleBefore, Witness!ReadInWindow,
                  Witness!Stamp, Witness!CloseWindow, Witness!SampleAfter
    <3> QED
      BY <1>3, <3>1
  <2> QED
    BY <2>1, <2>2
<1>5. dates' \in Seq(0..MinDelta)
  <2>1. dates' \in {dates, <<date>>, Append(dates, date)}
    BY DEF Witness!Next, Witness!Locate, Witness!SampleBefore, Witness!ReadInWindow,
           Witness!Stamp, Witness!Tick, Witness!CloseWindow, Witness!SampleAfter
  <2> QED
    BY <1>3, <2>1
<1>6. /\ reads' \in Seq(0..clock') /\ stamps' \in Seq(0..clock')
      /\ Len(stamps') \in {Len(reads'), Len(reads') - 1}
  BY WitnessStepKeeps DEF WitnessInv, Sampling
<1> QED
  BY <1>2, <1>4, <1>5, <1>6 DEF Witness!TypeOK

\* A witness starts in its invariant.
LEMMA WitnessInitial ==
  ASSUME Witness!Init
  PROVE  WitnessInv /\ Witness!TypeOK
<1>1. Horizon \in Nat /\ MinDelta \in Nat
  BY ConstantsFit DEF Witness!WitnessAssumption
<1>2. /\ clock = 0 /\ reads = << >> /\ stamps = << >> /\ dates = << >>
      /\ pc = "launch" /\ result = "none"
  BY DEF Witness!Init
<1>3. /\ reads \in Seq(0..clock) /\ stamps \in Seq(0..clock) /\ dates \in Seq(0..MinDelta)
      /\ Len(reads) = 0 /\ Len(stamps) = 0
  BY <1>2
<1>4. WitnessInv
  BY <1>2, <1>3 DEF WitnessInv, Sampling
<1> QED
  BY <1>1, <1>3, <1>4 DEF Witness!Init, Witness!TypeOK

\* The verdict about the relocations starts in its invariant.
LEMMA GateInitial ==
  ASSUME Gate!Init
  PROVE  GateInv
BY DEF Gate!Init, GateInv

\* The invariant of the smoke run types its variables.
LEMMA SmokeTyped ==
  ASSUME SmokeInv
  PROVE  Smoke!TypeOK
<1>1. exe \in Smoke!Names
  BY DEF SmokeInv, Smoke!Names
<1>2. Len(modes) <= Timeout
  BY ConstantsFit DEF SmokeInv, Smoke!SmokeAssumption
<1> QED
  BY <1>1, <1>2 DEF SmokeInv, Smoke!TypeOK

GameInv ==
  \/ part = "re4" /\ Re4Inv
  \/ part = "witness" /\ WitnessInv /\ Witness!TypeOK
  \/ part = "gate" /\ GateInv
  \/ part = "capacity" /\ CapacityInv
  \/ part = "ui" /\ UiInv
  \/ part = "smoke" /\ SmokeInv

\* A step of the tool in play keeps its invariant.
LEMMA StepsKeep ==
  ASSUME GameInv, MCNext
  PROVE  GameInv'
<1>1. CASE Re4Step
  BY <1>1, Re4StepKeeps DEF Re4Step, GameInv
<1>2. CASE WitnessStep
  BY <1>2, WitnessStepKeeps, WitnessTyped DEF WitnessStep, GameInv
<1>3. CASE CapacityStep
  BY <1>3, CapacityStepKeeps DEF CapacityStep, GameInv
<1>4. CASE UiStep(Ui!Next)
  BY <1>4, UiStepKeeps DEF UiStep, GameInv
<1>5. CASE SmokeStep
  BY <1>5, SmokeStepKeeps DEF SmokeStep, GameInv
<1>6. CASE GateStep
  BY <1>6, ValidateKeeps DEF GateStep, GameInv
<1> QED
  BY <1>1, <1>2, <1>3, <1>4, <1>5, <1>6 DEF MCNext

\* Whichever tool is in play starts in its invariant.
LEMMA GameInitial ==
  ASSUME MCInit
  PROVE  GameInv
BY Re4Init, WitnessInitial, GateInitial, CapacityInitial, UiInitial, SmokeInitial DEF MCInit, GameInv

\* The invariant of the probe depends on its own variables only.
LEMMA Re4Still ==
  ASSUME UNCHANGED <<onlyRe4, screen, result>>, Re4Inv
  PROVE  Re4Inv'
<1>1. /\ UNCHANGED <<field, painted, selected, queue, step, snapshots, shots, record, blips, actual>>
      /\ UNCHANGED <<screen, result>>
  BY DEF onlyRe4
<1>2. Re4Types' /\ VerdictInv'
  BY <1>1 DEF Re4Inv, Re4Types, VerdictInv, Re4!Shows
<1>3. Taken' = Taken /\ \A r : Follows(r)' <=> Follows(r)
  BY <1>1 DEF Taken, Follows
<1>4. QueueInv'
  BY <1>1, <1>3 DEF Re4Inv, QueueInv
<1>5. HeldInv'
  <2>1. HeldInv
    BY DEF Re4Inv
  <2>2. Follows(record)' <=> Follows(record)
    BY <1>1 DEF Follows
  <2> QED
    BY <1>1, <2>1, <2>2 DEF HeldInv
<1>6. ChangesInv'
  BY <1>1, <1>3 DEF Re4Inv, ChangesInv, Changes
<1>7. ShotsInv'
  BY <1>1 DEF Re4Inv, ShotsInv
<1> QED
  BY <1>2, <1>4, <1>5, <1>6, <1>7 DEF Re4Inv

\* A stuttering step keeps the invariant.
LEMMA StillKeeps ==
  ASSUME UNCHANGED all, GameInv
  PROVE  GameInv'
<1>1. /\ UNCHANGED <<part, pc, clock, screen, date, dates, report, result>>
      /\ UNCHANGED <<onlyRe4, onlyWitness, onlyGate, onlyCapacity, onlyUi, onlySmoke>>
  BY DEF all, shared
<1>2. CASE part = "re4" /\ Re4Inv
  BY <1>1, <1>2, Re4Still DEF GameInv
<1>3. CASE part = "witness" /\ WitnessInv /\ Witness!TypeOK
  <2>1. UNCHANGED <<bias, clear, reads, stamps>>
    BY <1>1 DEF onlyWitness
  <2>2. /\ Witness!Gaps' = Witness!Gaps /\ (Witness!SeenClear' <=> Witness!SeenClear)
        /\ (Sampling' <=> Sampling)
    BY <1>1, <2>1 DEF Witness!Gaps, Witness!SeenClear, Sampling
  <2>3. WitnessInv'
    BY <1>1, <1>3, <2>1, <2>2 DEF WitnessInv
  <2>4. Witness!TypeOK'
    BY <1>1, <1>3, <2>1 DEF Witness!TypeOK
  <2> QED
    BY <1>1, <1>3, <2>3, <2>4 DEF GameInv
<1>4. CASE part = "capacity" /\ CapacityInv
  <2>1. UNCHANGED <<body, memory, shift, samples, differed>>
    BY <1>1 DEF onlyCapacity
  <2>2. Capacity!Summary' = Capacity!Summary
    BY <2>1 DEF Capacity!Summary
  <2>3. CapacityInv'
    BY <1>1, <1>4, <2>1, <2>2 DEF CapacityInv
  <2> QED
    BY <1>1, <1>4, <2>3 DEF GameInv
<1>5. CASE part = "ui" /\ UiInv
  <2>1. UNCHANGED <<script, next, frames, failure, status, game, pipe, xvfb, own>>
    BY <1>1 DEF onlyUi
  <2>2. screen' \in {"pinned", "other"} /\ report' \in {"none", "failed", "passed"} /\ Processes'
    BY <1>1, <1>5, <2>1 DEF UiInv, UiTypes, Processes
  <2>3. UiInv'
    BY <1>1, <1>5, <2>1, <2>2, OthersKeep
  <2> QED
    BY <1>1, <1>5, <2>3 DEF GameInv
<1>6. CASE part = "smoke" /\ SmokeInv
  <2>1. UNCHANGED <<tree, exe, expect, mount, ran, modes, ending, artifact, exit>>
    BY <1>1 DEF onlySmoke
  <2>2. /\ Smoke!Overlaid' = Smoke!Overlaid /\ (Ended' <=> Ended)
        /\ (Smoke!RanTheGiven' <=> Smoke!RanTheGiven) /\ (Namesake' <=> Namesake)
        /\ (Smoke!PassMeansExpected' <=> Smoke!PassMeansExpected)
    BY <1>1, <2>1 DEF Smoke!Overlaid, Smoke!Target, Smoke!Files, Ended, Smoke!RanTheGiven,
                      Namesake, Smoke!PassMeansExpected
  <2>3. SmokeInv'
    BY <1>1, <1>6, <2>1, <2>2 DEF SmokeInv
  <2> QED
    BY <1>1, <1>6, <2>3 DEF GameInv
<1>7. CASE part = "gate" /\ GateInv
  BY <1>1, <1>7 DEF GameInv, GateInv, onlyGate
<1> QED
  BY <1>2, <1>3, <1>4, <1>5, <1>6, <1>7 DEF GameInv

(***************************************************************************)
(* Every run keeps the invariant of the tool it is a run of: what the      *)
(* steps so far have established, and the types.                           *)
(***************************************************************************)
THEOREM GameInvariant == MCSpec => []GameInv
<1>1. GameInv /\ [MCNext]_all => GameInv'
  BY StepsKeep, StillKeeps
<1> QED
  BY <1>1, GameInitial, PTL DEF MCSpec

(***************************************************************************)
(* The types of the five tools and of the verdict about relocations, among *)
(* them that no sleep and no helper of a UI run ends after its deadline    *)
(* (_sleep_bounded, _run_checked) and that a capacity observation takes no *)
(* more samples than its bound.                                            *)
(***************************************************************************)
THEOREM GameTypes == MCSpec => []TypeOK
<1>1. GameInv => TypeOK
  BY Re4Typed, UiInvTypes, SmokeTyped, CapacityInvSuffices DEF GameInv, TypeOK, GateInv, Gate!TypeOK
<1> QED
  BY <1>1, GameInvariant, PTL

(***************************************************************************)
(* find_transition_record and the latency probe of run_scenario together   *)
(* leave no record but the planet's, unless one that is not touched by the *)
(* key changes at least six times by itself while they look, and then the  *)
(* pictures a passing run keeps show the mode the planet had.  The bound   *)
(* is sharp: six changes at the right moments look like the planet's.      *)
(***************************************************************************)
THEOREM TheRecordIsThePlanets == MaxBlips < 6 => (MCSpec => []PassedRe4IsThePlanet)
<1> SUFFICES ASSUME MaxBlips < 6 PROVE MCSpec => []PassedRe4IsThePlanet
  OBVIOUS
<1>1. GameInv => PassedRe4IsThePlanet
  <2> SUFFICES ASSUME Re4Inv, result = "passed"
               PROVE  record = Planet /\ \A i \in 1..3 : (shots[i] = "managed") <=> actual[i]
    BY DEF GameInv, PassedRe4IsThePlanet, Re4!RecordIsThePlanets, Re4!PicturesShowTheField
  <2>1. record = Planet
    <3>1. blips \in 0..MaxBlips /\ MaxBlips \in Nat
      BY ConstantsFit DEF Re4Inv, Re4Types, Re4!RecordsAssumption
    <3> QED
      BY <3>1, StrayNeedsSix
  <2> QED
    BY <2>1, PicturesOfThePlanet
<1> QED
  BY <1>1, GameInvariant, PTL

(***************************************************************************)
(* evaluate of the override witness bounds the pulses a passing run can    *)
(* miss, by twice the longest gap less the sleep between two samples, and  *)
(* validate_gate_override_relationship takes the address the loaded        *)
(* instruction has, for every page none of whose relocations overlaps it;  *)
(* the guards of the capacity observation pin its address, whatever the    *)
(* file has, and its summary loses no change a sample has seen.            *)
(***************************************************************************)
THEOREM ObserversSeeAll == MCSpec => []ObserversMissNothing
<1>1. GameInv => ObserversMissNothing
  <2>1. ASSUME WitnessInv PROVE Witness!NoLongPulseIsMissed
    <3>1. CASE result = "passed"
      BY <2>1, <3>1, SampledStretch DEF WitnessInv
    <3>2. CASE result # "passed"
      BY <3>2 DEF Witness!NoLongPulseIsMissed
    <3> QED
      BY <3>1, <3>2
  <2> QED
    BY <2>1, GateInvSuffices, CapacityInvSuffices DEF GameInv, ObserversMissNothing
<1> QED
  BY <1>1, GameInvariant, PTL

(***************************************************************************)
(* A UI run passes as its script says and in its time, and its declared    *)
(* waits fit into its budget, so that the deadline stops it only for what  *)
(* load_actions does not count: helpers, the copy, the settle time of the  *)
(* display and the press of each click; a smoke run passes for the mode    *)
(* and the ending it was asked for and, unless its tree has a namesake in  *)
(* lower case, for the executable it was given.                            *)
(***************************************************************************)
THEOREM PassesAreAsAsked == MCSpec => []RunsPassAsAsked
<1>1. GameInv => RunsPassAsAsked
  BY DEF GameInv, UiInv, SmokeInv, RunsPassAsAsked
<1> QED
  BY <1>1, GameInvariant, PTL

\* Where the processes of a UI run are by the end of it.
UiClean ==
  /\ pc \in {"setup", "display"} => game = "none"
  /\ pc \in {"collect", "report", "done"} => game # "running"
  /\ pc \in {"report", "done"} => ~xvfb

(***************************************************************************)
(* A UI run that returns has stopped the game and the display, wherever it *)
(* failed and however the game took its signal (main).  This is UiRunEnds  *)
(* without its promise that the run ends.                                  *)
(***************************************************************************)
THEOREM NothingLeftRunning == MCSpec => [](part = "ui" /\ pc = "done" => Ui!Stopped)
<1> DEFINE Inv == part = "ui" => UiClean
<1>1. MCInit => Inv
  BY DEF MCInit, UiClean, Ui!Init
<1>2. Inv /\ [MCNext]_all => Inv'
  <2> SUFFICES ASSUME Inv, [MCNext]_all PROVE Inv'
    OBVIOUS
  <2>1. CASE UNCHANGED all
    BY <2>1 DEF all, shared, onlyUi, UiClean
  <2>2. CASE Re4Step \/ WitnessStep \/ GateStep \/ CapacityStep \/ SmokeStep
    BY <2>2 DEF Re4Step, WitnessStep, GateStep, CapacityStep, SmokeStep
  <2>3. CASE UiStep(Ui!Next)
    <3>1. UiClean /\ Ui!Next
      BY <2>3 DEF UiStep
    <3>2. CASE Ui!Setup
      BY <3>1, <3>2 DEF UiClean, Ui!Setup, Ui!Raise, Ui!Go, Ui!processes
    <3>7. CASE Ui!StartDisplay
      <4>1. pc' \in {"terminate", "window"}
        BY <3>7 DEF Ui!StartDisplay, Ui!Raise, Ui!Go
      <4> QED
        BY <4>1 DEF UiClean
    <3>3. CASE Ui!FindWindow \/ Ui!PreVideo \/ Ui!StartupWait
      <4>1. pc' \in {"terminate", "chords", "startup", "geometry", "steps"}
        BY <3>3 DEF Ui!FindWindow, Ui!PreVideo, Ui!StartupWait, Ui!Helper, Ui!Raise, Ui!Go, Ui!Sleep
      <4> QED
        BY <4>1 DEF UiClean
    <3>4. CASE Ui!WaitOrInput \/ Ui!Capture \/ Ui!CompareFrames \/ Ui!Complete
      <4>1. pc' \in {"terminate", "ratios", "steps", "complete"}
        BY <3>4 DEF Ui!WaitOrInput, Ui!Capture, Ui!CompareFrames, Ui!Complete, Ui!Helper, Ui!Raise,
           Ui!Go, Ui!Sleep, Ui!AfterStep
      <4> QED
        BY <4>1 DEF UiClean
    <3>5. CASE Ui!Terminate \/ Ui!Collect \/ Ui!Report
      BY <3>1, <3>5 DEF UiClean, Ui!Terminate, Ui!Collect, Ui!Report, Ui!processes
    <3>6. CASE Ui!Shows \/ Ui!GameExits \/ Ui!PipesClose
      BY <3>1, <3>6 DEF UiClean, Ui!Shows, Ui!GameExits, Ui!PipesClose, Ui!processes
    <3> QED
      BY <3>1, <3>2, <3>3, <3>4, <3>5, <3>6, <3>7 DEF Ui!Next, Ui!Runner
  <2> QED
    BY <2>1, <2>2, <2>3 DEF MCNext
<1>3. Inv => (part = "ui" /\ pc = "done" => Ui!Stopped)
  BY DEF UiClean, Ui!Stopped
<1> QED
  BY <1>1, <1>2, <1>3, PTL DEF MCSpec
=============================================================================
