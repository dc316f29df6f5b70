------------------------- MODULE AgentHarnessProofs -------------------------
(***************************************************************************)
(* Theorems about the drivers of the agent harness.  About ClaudeLaunches, *)
(* for any numbers of launches, turns and attempts:                        *)
(*  - its state keeps its types;                                           *)
(*  - a turn reported as not sent does not run;                            *)
(*  - a session is resumed once its old processes are gone;                *)
(*  - a launch removes its own copy only, never the session.               *)
(* The invariant follows each launch (what it started, how far its task    *)
(* is) and the turn under way: which launch it awaits, that what earlier   *)
(* attempts started is at rest, and that every other launch is of a turn   *)
(* that was stopped.                                                       *)
(*                                                                         *)
(* About ProcessTurns, for any number of turns, processes and deaths of    *)
(* the daemon: its state keeps its types; never two processes in one       *)
(* session (but for an overtaken one), an earlier daemon's processes gone  *)
(* before a start, and the session an agent worked in confirmed.  The      *)
(* second rests on the order of the processes: the turns start theirs one  *)
(* after the other (Filled, InTurn), so a process that registers after a   *)
(* later one is what the model calls overtaken, and short of that the      *)
(* registry names the one process a thread has registered (Registered).    *)
(***************************************************************************)
EXTENDS ClaudeLaunches, ProcessTurns, FiniteSetTheorems, SequenceTheorems, TLAPS
-----------------------------------------------------------------------------
(* The launches of Claude Code.                                            *)

\* A launch has an id of its own, the next number.
LaunchIds ==
  /\ IsFiniteSet(launches)
  /\ \A l \in launches : l.id \in 1 .. Cardinality(launches)
  /\ \A l, m \in launches : l.id = m.id => l = m

ProcRecords == [bg : Procs, prompt : 0 .. MaxPrompts,
                at : {"none", "starting", "listed", "exiting", "gone"},
                how : {"none", "inPlace", "copy", "unclear"}]
LaunchRecords == [id : Procs, turn : 0 .. MaxPrompts, resume : BOOLEAN,
                  bg : Procs, at : LaunchStages]

\* What a launch started, and how far its task is with it.
LaunchFits(l) ==
  IF l.at = "starts" THEN procs[l.id].at = "none"
  ELSE /\ procs[l.id].at # "none" /\ procs[l.id].prompt = l.turn
       /\ procs[l.id].how \in {"inPlace", "copy", "unclear"}
       /\ procs[l.id].bg = (IF procs[l.id].how = "copy" THEN l.id ELSE l.bg)
       /\ procs[l.id].how # "inPlace" => l.resume
       /\ l.at \in {"lists", "stops", "removes"} => procs[l.id].how = "copy"
       /\ l.at \in {"halts", "haltsListed"} => procs[l.id].how = "inPlace"
       /\ l.at = "done" /\ procs[l.id].how = "copy" => procs[l.id].at = "gone"

\* Every process but the first was launched, and only those are shown.
ProcsAreLaunched ==
  /\ procs[0].prompt = 0 /\ procs[0].at # "none"
  /\ \A l \in launches : LaunchFits(l)
  /\ \A p \in Procs \ {0} :
       procs[p].at # "none" => \E l \in launches : l.id = p /\ l.at # "starts"
  /\ \A p \in shown : procs[p].at # "none"

LaunchInv == LaunchesTyped /\ LaunchIds /\ ProcsAreLaunched
-----------------------------------------------------------------------------
(* What happens to processes and launches.                                 *)

\* Processes that are not launched now only come nearer to their exit.
Decay ==
  /\ procs' \in [Procs -> ProcRecords]
  /\ \A p \in Procs :
       /\ procs'[p].bg = procs[p].bg /\ procs'[p].prompt = procs[p].prompt
       /\ procs'[p].how = procs[p].how
       /\ procs[p].at = "none" => procs'[p].at = "none"
       /\ procs'[p].at = "none" => procs[p].at = "none"
       /\ procs[p].at = "gone" => procs'[p].at = "gone"
       /\ procs'[p].at \in {"starting", "listed"} => Active(p)
       /\ procs'[p].at = "exiting" => Runs(p)

\* A stop makes the session's processes exit.
LEMMA StopDecays ==
  ASSUME LaunchesTyped, NEW bg, procs' = AfterStop(bg)
  PROVE  Decay /\ \A p \in OfSession(bg) : procs'[p].at \notin {"starting", "listed"}
<1>1. ASSUME NEW p \in Procs, p \in OfSession(bg) /\ Active(p)
      PROVE  procs'[p] = [procs[p] EXCEPT !.at = "exiting"]
  BY <1>1 DEF AfterStop
<1>2. ASSUME NEW p \in Procs, ~(p \in OfSession(bg) /\ Active(p))
      PROVE  procs'[p] = procs[p]
  BY <1>2 DEF AfterStop
<1>3. \A p \in Procs : procs[p] \in ProcRecords
  BY DEF LaunchesTyped, ProcRecords
<1>4. ASSUME NEW p \in Procs
      PROVE  /\ procs'[p] \in ProcRecords
             /\ procs'[p].bg = procs[p].bg /\ procs'[p].prompt = procs[p].prompt
             /\ procs'[p].how = procs[p].how
             /\ procs'[p].at = IF p \in OfSession(bg) /\ Active(p) THEN "exiting"
                               ELSE procs[p].at
  BY <1>1, <1>2, <1>3 DEF ProcRecords
<1>5. procs' \in [Procs -> ProcRecords]
  <2>1. procs' = [p \in Procs |-> procs'[p]]
    BY DEF AfterStop
  <2>2. QED BY <1>4, <2>1
<1>6. QED BY <1>4, <1>5 DEF Decay, Active, Runs, OfSession

\* One is listed, or exits.
LEMMA OneDecays ==
  ASSUME LaunchesTyped, ProcListed \/ ProcExits
  PROVE  Decay /\ UNCHANGED claudeKeeps
<1>1. PICK p \in Procs, at \in {"listed", "gone"} :
        /\ procs' = [procs EXCEPT ![p].at = at]
        /\ \/ procs[p].at = "starting" /\ at = "listed"
           \/ procs[p].at = "exiting" /\ at = "gone"
        /\ UNCHANGED claudeKeeps
  BY DEF ProcListed, ProcExits
<1>2. procs \in [Procs -> ProcRecords]
  BY DEF LaunchesTyped, ProcRecords
<1>3. procs' \in [Procs -> ProcRecords]
  BY <1>1, <1>2 DEF ProcRecords
<1>4. ASSUME NEW q \in Procs
      PROVE  /\ procs'[q].bg = procs[q].bg /\ procs'[q].prompt = procs[q].prompt
             /\ procs'[q].how = procs[q].how
             /\ procs'[q].at = IF q = p THEN at ELSE procs[q].at
  BY <1>1, <1>2 DEF ProcRecords
<1>5. QED BY <1>1, <1>3, <1>4 DEF Decay, Active, Runs

LEMMA NoneDecays == ASSUME LaunchesTyped, UNCHANGED procs PROVE Decay
BY DEF LaunchesTyped, ProcRecords, Decay, Active, Runs

\* A copy's processes are gone once it is removed.
LEMMA RemovedDecays ==
  ASSUME LaunchesTyped, NEW bg,
         procs' = [p \in Procs |-> IF p \in OfSession(bg) THEN [procs[p] EXCEPT !.at = "gone"]
                                                         ELSE procs[p]]
  PROVE  Decay /\ \A p \in OfSession(bg) : procs'[p].at = "gone"
<1>1. ASSUME NEW p \in Procs, p \in OfSession(bg)
      PROVE  procs'[p] = [procs[p] EXCEPT !.at = "gone"]
  BY <1>1
<1>2. ASSUME NEW p \in Procs, p \notin OfSession(bg)
      PROVE  procs'[p] = procs[p]
  BY <1>2
<1>3. \A p \in Procs : procs[p] \in ProcRecords
  BY DEF LaunchesTyped, ProcRecords
<1>4. ASSUME NEW p \in Procs
      PROVE  /\ procs'[p] \in ProcRecords
             /\ procs'[p].bg = procs[p].bg /\ procs'[p].prompt = procs[p].prompt
             /\ procs'[p].how = procs[p].how
             /\ procs'[p].at = IF p \in OfSession(bg) THEN "gone" ELSE procs[p].at
  BY <1>1, <1>2, <1>3 DEF ProcRecords
<1>5. procs' \in [Procs -> ProcRecords]
  <2>1. procs' = [p \in Procs |-> procs'[p]]
    OBVIOUS
  <2>2. QED BY <1>4, <2>1
<1>6. QED BY <1>4, <1>5 DEF Decay, Active, Runs, OfSession

\* A launch's task goes on.
Moves(l, m) ==
  /\ l \in launches /\ launches' = (launches \ {l}) \cup {m}
  /\ m \in LaunchRecords
  /\ m.id = l.id /\ m.turn = l.turn /\ m.resume = l.resume /\ m.bg = l.bg

LEMMA BecomesMoves ==
  ASSUME LaunchesTyped, NEW l \in launches, NEW at \in LaunchStages, Becomes(l, at)
  PROVE  \E m : Moves(l, m) /\ m.at = at
<1> DEFINE m == [l EXCEPT !.at = at]
<1>1. l \in LaunchRecords
  BY DEF LaunchesTyped, LaunchRecords
<1>2. /\ m \in LaunchRecords /\ m.at = at
      /\ m.id = l.id /\ m.turn = l.turn /\ m.resume = l.resume /\ m.bg = l.bg
  BY <1>1 DEF LaunchRecords
<1>3. launches' = (launches \ {l}) \cup {m}
  BY DEF Becomes
<1> HIDE DEF m
<1>4. QED BY <1>2, <1>3 DEF Moves

\* Their ids stay apart.
LEMMA MovesKeepIds == ASSUME LaunchIds, NEW l, NEW m, Moves(l, m) PROVE LaunchIds'
<1>1. m \notin launches \ {l}
  BY DEF Moves, LaunchIds
<1>2. /\ IsFiniteSet(launches \ {l})
      /\ Cardinality(launches \ {l}) = Cardinality(launches) - 1
      /\ Cardinality(launches) \in Nat
  BY FS_RemoveElement, FS_CardinalityType DEF Moves, LaunchIds
<1>3. IsFiniteSet(launches') /\ Cardinality(launches') = Cardinality(launches)
  <2> DEFINE rest == launches \ {l}
  <2>1. IsFiniteSet(rest \cup {m}) /\ Cardinality(rest \cup {m}) = Cardinality(rest) + 1
    BY <1>1, <1>2, FS_AddElement
  <2>2. QED BY <1>2, <2>1 DEF Moves
<1>4. \A k \in launches' : k = m \/ k \in launches \ {l}
  BY DEF Moves
<1>5. \A k \in launches' : k.id \in 1 .. Cardinality(launches')
  BY <1>3, <1>4 DEF Moves, LaunchIds
<1>6. \A j, k \in launches' : j.id = k.id => j = k
  BY <1>4 DEF Moves, LaunchIds
<1>7. QED BY <1>3, <1>5, <1>6 DEF LaunchIds
-----------------------------------------------------------------------------
(* What was launched.                                                      *)

\* Only listed processes are shown.
ShowsListed == shown' \subseteq shown \cup {p \in Procs : procs[p].at = "listed"}

\* Without a launch starting, processes stay those of their launches.
LEMMA DecayKeepsLaunched ==
  ASSUME LaunchInv, Decay, UNCHANGED launches, ShowsListed
  PROVE  ProcsAreLaunched'
<1>1. \A l \in launches : l.id \in Procs
  BY DEF LaunchInv, LaunchesTyped
<1>2. \A l \in launches : LaunchFits(l)'
  BY <1>1 DEF LaunchInv, ProcsAreLaunched, LaunchFits, Decay
<1>3. \A p \in shown' : procs'[p].at # "none"
  BY DEF ShowsListed, LaunchInv, LaunchesTyped, ProcsAreLaunched, Decay
<1>4. 0 \in Procs
  BY LaunchBounds DEF Procs
<1>5. QED BY <1>2, <1>3, <1>4 DEF LaunchInv, ProcsAreLaunched, Decay

\* Nor when the task of one goes on.
LEMMA MovingKeepsLaunched ==
  ASSUME LaunchInv, Decay, NEW l, NEW m, Moves(l, m), ShowsListed,
         l.at # "starts", LaunchFits(m)'
  PROVE  ProcsAreLaunched'
<1>1. \A k \in launches : k.id \in Procs
  BY DEF LaunchInv, LaunchesTyped
<1>2. \A k \in launches : LaunchFits(k)'
  BY <1>1 DEF LaunchInv, ProcsAreLaunched, LaunchFits, Decay
<1>3. \A k \in launches' : LaunchFits(k)'
  BY <1>2 DEF Moves
<1>4. \A p \in shown' : procs'[p].at # "none"
  BY DEF ShowsListed, LaunchInv, LaunchesTyped, ProcsAreLaunched, Decay
<1>5. m.at # "starts"
  BY DEF LaunchFits, Decay, Moves, LaunchInv, LaunchesTyped, ProcsAreLaunched
<1>6. ASSUME NEW p \in Procs \ {0}, procs'[p].at # "none"
      PROVE  \E k \in launches' : k.id = p /\ k.at # "starts"
  <2>1. PICK k \in launches : k.id = p /\ k.at # "starts"
    BY <1>6 DEF LaunchInv, ProcsAreLaunched, Decay
  <2>2. CASE k = l
    BY <1>5, <2>1, <2>2 DEF Moves
  <2>3. CASE k # l
    BY <2>1, <2>3 DEF Moves
  <2>4. QED BY <2>2, <2>3
<1>7. 0 \in Procs
  BY LaunchBounds DEF Procs
<1>8. QED BY <1>3, <1>4, <1>6, <1>7 DEF LaunchInv, ProcsAreLaunched, Decay

\* A launch starts its process, which no other is of.
Starts(l, m, how) ==
  /\ l.at = "starts" /\ m.at = "prints" /\ Moves(l, m)
  /\ how \in {"inPlace", "copy", "unclear"}
  /\ how # "inPlace" => l.resume
  /\ procs' = [procs EXCEPT ![l.id] =
       [bg |-> IF how = "copy" THEN l.id ELSE l.bg, prompt |-> l.turn,
        at |-> "starting", how |-> how]]
  /\ UNCHANGED <<seen, shown, session, launchKeeps>>

LEMMA StartsOne ==
  ASSUME LaunchInv, LaunchStarts
  PROVE  \E l, m, how : Starts(l, m, how) /\ removed' \subseteq removed
<1>1. PICK l \in launches, how \in {"inPlace", "copy", "unclear"} :
        /\ l.at = "starts"
        /\ how # "inPlace" => l.resume
        /\ procs' = [procs EXCEPT ![l.id] =
             [bg |-> IF how = "copy" THEN l.id ELSE l.bg, prompt |-> l.turn,
              at |-> "starting", how |-> how]]
        /\ removed' \subseteq removed
        /\ Becomes(l, "prints")
        /\ UNCHANGED <<seen, shown, session, launchKeeps>>
  BY DEF LaunchStarts
<1>2. "prints" \in LaunchStages
  BY DEF LaunchStages
<1>3. PICK m : Moves(l, m) /\ m.at = "prints"
  BY <1>1, <1>2, BecomesMoves DEF LaunchInv
<1>4. QED BY <1>1, <1>3 DEF Starts

\* Which processes and launches there are then.
LEMMA StartedProcs ==
  ASSUME LaunchInv, NEW l, NEW m, NEW how, Starts(l, m, how)
  PROVE  /\ l \in launches /\ l.id \in Procs \ {0} /\ procs[l.id].at = "none"
         /\ l.id \notin shown
         /\ procs' \in [Procs -> ProcRecords]
         /\ procs'[l.id].bg = IF how = "copy" THEN l.id ELSE l.bg
         /\ procs'[l.id].prompt = l.turn /\ procs'[l.id].at = "starting"
         /\ procs'[l.id].how = how
         /\ \A p \in Procs \ {l.id} : procs'[p] = procs[p]
         /\ \A k \in launches : k # l => k.id # l.id
<1>1. l \in launches /\ l \in LaunchRecords
  BY DEF Starts, Moves, LaunchInv, LaunchesTyped, LaunchRecords
<1>2. l.id \in Procs \ {0} /\ l.bg \in Procs /\ l.turn \in 0 .. MaxPrompts
  BY <1>1 DEF LaunchRecords, LaunchInv, LaunchIds
<1>3. procs[l.id].at = "none" /\ l.id \notin shown
  BY <1>1 DEF Starts, LaunchInv, ProcsAreLaunched, LaunchFits
<1> DEFINE new == [bg |-> IF how = "copy" THEN l.id ELSE l.bg, prompt |-> l.turn,
                   at |-> "starting", how |-> how]
<1>4. /\ new \in ProcRecords
      /\ new.bg = IF how = "copy" THEN l.id ELSE l.bg
      /\ new.prompt = l.turn /\ new.at = "starting" /\ new.how = how
  BY <1>2 DEF ProcRecords, Starts
<1>5. procs \in [Procs -> ProcRecords] /\ procs' = [procs EXCEPT ![l.id] = new]
  BY DEF LaunchInv, LaunchesTyped, ProcRecords, Starts
<1> HIDE DEF new
<1>6. procs' \in [Procs -> ProcRecords] /\ procs'[l.id] = new
      /\ \A p \in Procs \ {l.id} : procs'[p] = procs[p]
  BY <1>2, <1>4, <1>5
<1>7. QED BY <1>1, <1>2, <1>3, <1>4, <1>6 DEF LaunchInv, LaunchIds

LEMMA StartingKeepsLaunched ==
  ASSUME LaunchInv, NEW l, NEW m, NEW how, Starts(l, m, how)
  PROVE  ProcsAreLaunched'
<1>1. \A k \in launches : k.id \in Procs
  BY DEF LaunchInv, LaunchesTyped
<1>2. LaunchFits(m)'
  BY StartedProcs DEF Starts, Moves, LaunchFits
<1>3. \A k \in launches : k # l => LaunchFits(k)'
  BY <1>1, StartedProcs DEF LaunchFits, LaunchInv, ProcsAreLaunched
<1>4. \A k \in launches' : LaunchFits(k)'
  BY <1>2, <1>3 DEF Starts, Moves
<1>5. \A p \in shown' : procs'[p].at # "none"
  BY StartedProcs DEF Starts, LaunchInv, LaunchesTyped, ProcsAreLaunched
<1>6. ASSUME NEW p \in Procs \ {0}, procs'[p].at # "none"
      PROVE  \E k \in launches' : k.id = p /\ k.at # "starts"
  <2>1. CASE p = l.id
    BY <2>1 DEF Starts, Moves
  <2>2. CASE p # l.id
    <3>1. PICK k \in launches : k.id = p /\ k.at # "starts"
      BY <1>6, <2>2, StartedProcs DEF LaunchInv, ProcsAreLaunched
    <3>2. QED BY <2>2, <3>1 DEF Starts, Moves
  <2>3. QED BY <2>1, <2>2
<1>7. procs'[0] = procs[0]
  BY StartedProcs, LaunchBounds DEF Procs
<1>8. QED BY <1>4, <1>5, <1>6, <1>7 DEF LaunchInv, ProcsAreLaunched

\* A launch with the next id is registered.
Registers(l) ==
  /\ launches' = launches \cup {l} /\ l \in LaunchRecords /\ l.at = "starts"
  /\ l.id = Cardinality(launches) + 1
  /\ UNCHANGED <<procs, removed, seen, shown, session, stopper, prompts, halted, unsent>>

LEMMA SpawnRegisters ==
  ASSUME LaunchInv, Spawn
  PROVE  \E l : /\ Registers(l) /\ l.turn = driver.turn
                /\ l.resume => l.bg = session
                /\ ~l.resume => l.bg = l.id
                /\ driver' = [driver EXCEPT !.at = "await", !.launch = l.id]
<1> DEFINE id == Cardinality(launches) + 1
           l == [id |-> id, turn |-> driver.turn, resume |-> At("resume"),
                 bg |-> IF At("resume") THEN session ELSE id, at |-> "starts"]
<1>1. Cardinality(launches) \in Nat
  BY FS_CardinalityType DEF LaunchInv, LaunchIds
<1>2. id \in Procs
  BY <1>1, LaunchBounds DEF Spawn, Procs
<1>3. PICK resume \in BOOLEAN : resume = At("resume")
  BY DEF At
<1>4. l = [id |-> id, turn |-> driver.turn, resume |-> resume,
           bg |-> IF resume THEN session ELSE id, at |-> "starts"]
  BY <1>3
<1>5. l \in LaunchRecords
  BY <1>2, <1>4 DEF LaunchRecords, LaunchStages, LaunchInv, LaunchesTyped
<1>6. /\ launches' = launches \cup {l} /\ driver' = [driver EXCEPT !.at = "await", !.launch = id]
      /\ UNCHANGED <<procs, removed, seen, shown, session, stopper, prompts, halted, unsent>>
  BY DEF Spawn
<1>7. /\ l.at = "starts" /\ l.id = id /\ l.turn = driver.turn
      /\ l.resume => l.bg = session
      /\ ~l.resume => l.bg = l.id
  BY <1>4
<1> HIDE DEF l
<1>8. QED BY <1>5, <1>6, <1>7 DEF Registers

LEMMA RegisteringKeepsLaunched ==
  ASSUME LaunchInv, NEW l, Registers(l)
  PROVE  LaunchIds' /\ ProcsAreLaunched' /\ \A k \in launches : k.id # l.id
<1>1. Cardinality(launches) \in Nat
  BY FS_CardinalityType DEF LaunchInv, LaunchIds
<1>2. \A k \in launches : k.id # l.id
  BY <1>1 DEF LaunchInv, LaunchIds, Registers
<1>3. l \notin launches
  BY <1>2
<1>4. IsFiniteSet(launches') /\ Cardinality(launches') = Cardinality(launches) + 1
  BY <1>3, FS_AddElement DEF LaunchInv, LaunchIds, Registers
<1>5. LaunchIds'
  <2>1. \A k \in launches' : k \in launches \/ k = l
    BY DEF Registers
  <2>2. \A k \in launches' : k.id \in 1 .. Cardinality(launches')
    BY <1>1, <1>4, <2>1 DEF LaunchInv, LaunchIds, Registers
  <2>3. \A k, j \in launches' : k.id = j.id => k = j
    BY <1>2, <2>1 DEF LaunchInv, LaunchIds
  <2>4. QED BY <1>4, <2>2, <2>3 DEF LaunchIds
<1>6. l.id \in Procs \ {0}
  BY <1>1 DEF Registers, LaunchRecords
<1>7. procs[l.id].at = "none"
  BY <1>2, <1>6 DEF LaunchInv, ProcsAreLaunched
<1>8. \A k \in launches' : LaunchFits(k)'
  BY <1>7 DEF Registers, LaunchFits, LaunchInv, ProcsAreLaunched
<1>9. \A p \in Procs \ {0} :
        procs'[p].at # "none" => \E k \in launches' : k.id = p /\ k.at # "starts"
  BY DEF Registers, LaunchInv, ProcsAreLaunched
<1>10. ProcsAreLaunched'
  BY <1>8, <1>9 DEF Registers, LaunchInv, ProcsAreLaunched
<1>11. QED BY <1>2, <1>5, <1>10
-----------------------------------------------------------------------------
(* Turns that are not sent.                                                *)

\* The turn under way is the newest, and neither stopped nor given up.
NewestTurn ==
  /\ halted \cap unsent = {}
  /\ driver.at # "none" => /\ driver.turn = prompts /\ prompts # 0
                           /\ prompts \notin halted \cup unsent

\* A launch under way is of a stopped turn, or the one awaited.
LaunchesAreOfTurns ==
  /\ \A l \in launches : l.turn \in 1 .. prompts
  /\ \A l \in launches : l.at # "done" =>
       l.turn \in halted \/ (driver.at = "await" /\ driver.launch = l.id /\ l.turn = prompts)

\* The launch the driver awaits, or of which it stops what it started.
AwaitedIsLaunched ==
  /\ driver.at \in {"await", "stopResumed"} =>
       \E l \in launches : /\ l.id = driver.launch /\ l.turn = prompts
                           /\ l.resume => l.bg = session
  /\ driver.at = "stopResumed" => driver.launch \in OfSession(session)

TurnInv == NewestTurn /\ LaunchesAreOfTurns /\ AwaitedIsLaunched

\* What earlier attempts of a turn started is stopped before the next one.
EarlierAtRest ==
  driver.at # "none" => \A p \in Procs : Active(p) /\ procs[p].prompt = driver.turn =>
    /\ driver.at \in {"await", "stopResumed", "watch"}
    /\ driver.at \in {"await", "stopResumed"} => p = driver.launch

SentInv == TurnInv /\ EarlierAtRest /\ NotSentDoesNotRun
-----------------------------------------------------------------------------
\* The task of a launch goes on, and may report the session's id.
LEMMA MovingKeepsSent ==
  ASSUME LaunchInv, SentInv, Decay, NEW l, NEW m, Moves(l, m), l.at # "done",
         UNCHANGED launchKeeps,
         session' = session \/ (session' = l.bg /\ l.turn \notin halted)
  PROVE  SentInv'
<1>1. UNCHANGED <<driver, prompts, halted, unsent>>
  BY DEF launchKeeps
<1>2. NewestTurn'
  BY <1>1 DEF SentInv, TurnInv, NewestTurn
<1>3. LaunchesAreOfTurns'
  BY <1>1 DEF SentInv, TurnInv, LaunchesAreOfTurns, Moves
<1>4. ASSUME session' # session
      PROVE  driver.at = "await" /\ driver.launch = l.id /\ session' = l.bg
  BY <1>4 DEF Moves, SentInv, TurnInv, LaunchesAreOfTurns
<1>5. AwaitedIsLaunched'
  <2>1. ASSUME driver.at \in {"await", "stopResumed"}
        PROVE  \E k \in launches' : /\ k.id = driver.launch /\ k.turn = prompts
                                    /\ k.resume => k.bg = session'
    <3>1. PICK k \in launches : /\ k.id = driver.launch /\ k.turn = prompts
                                /\ k.resume => k.bg = session
      BY <2>1 DEF SentInv, TurnInv, AwaitedIsLaunched
    <3>2. CASE k = l
      <4>1. m.resume => m.bg = session'
        BY <1>4, <3>1, <3>2 DEF Moves
      <4>2. QED BY <3>1, <3>2, <4>1 DEF Moves
    <3>3. CASE k # l
      <4>1. k \in launches' /\ session' = session
        BY <1>4, <3>1, <3>3 DEF Moves, LaunchInv, LaunchIds
      <4>2. QED BY <3>1, <4>1
    <3>4. QED BY <3>2, <3>3
  <2>2. driver.at = "stopResumed" => driver.launch \in OfSession(session)'
    BY <1>4 DEF SentInv, TurnInv, AwaitedIsLaunched, OfSession, Decay
  <2>3. QED BY <1>1, <2>1, <2>2 DEF AwaitedIsLaunched
<1>6. EarlierAtRest' /\ NotSentDoesNotRun'
  BY <1>1 DEF SentInv, EarlierAtRest, NotSentDoesNotRun, Active, Decay
<1>7. QED BY <1>2, <1>3, <1>5, <1>6 DEF SentInv, TurnInv

\* A launch starts a process: of the turn the driver awaits, or of a stopped
\* one, which is never reported as not sent.
LEMMA StartingKeepsSent ==
  ASSUME LaunchInv, SentInv, NEW l, NEW m, NEW how, Starts(l, m, how)
  PROVE  SentInv'
<1>1. UNCHANGED <<driver, prompts, halted, unsent, session>>
  BY DEF Starts, launchKeeps
<1>2. NewestTurn'
  BY <1>1 DEF SentInv, TurnInv, NewestTurn
<1>3. LaunchesAreOfTurns'
  BY <1>1 DEF SentInv, TurnInv, LaunchesAreOfTurns, Starts, Moves
<1>4. l.turn \in halted \/ (driver.at = "await" /\ driver.launch = l.id /\ l.turn = prompts)
  BY DEF Starts, Moves, SentInv, TurnInv, LaunchesAreOfTurns
<1>5. AwaitedIsLaunched'
  <2>1. ASSUME driver.at \in {"await", "stopResumed"}
        PROVE  \E k \in launches' : /\ k.id = driver.launch /\ k.turn = prompts
                                    /\ k.resume => k.bg = session
    <3>1. PICK k \in launches : /\ k.id = driver.launch /\ k.turn = prompts
                                /\ k.resume => k.bg = session
      BY <2>1 DEF SentInv, TurnInv, AwaitedIsLaunched
    <3>2. QED BY <3>1 DEF Starts, Moves
  <2>2. driver.at = "stopResumed" => driver.launch \in OfSession(session)'
    <3>1. driver.at = "stopResumed" =>
            driver.launch \in Procs \ {l.id} /\ procs[driver.launch].bg = session
            /\ procs[driver.launch].at # "none"
      BY StartedProcs DEF SentInv, TurnInv, AwaitedIsLaunched, OfSession
    <3>2. QED BY <1>1, <3>1, StartedProcs DEF OfSession
  <2>3. QED BY <1>1, <2>1, <2>2 DEF AwaitedIsLaunched
<1>6. ASSUME NEW p \in Procs, Active(p)'
      PROVE  \/ p = l.id /\ procs'[p].prompt = l.turn
             \/ p # l.id /\ Active(p) /\ procs'[p].prompt = procs[p].prompt
  BY <1>6, StartedProcs DEF Active
<1>7. EarlierAtRest'
  BY <1>1, <1>4, <1>6 DEF SentInv, TurnInv, NewestTurn, EarlierAtRest
<1>8. NotSentDoesNotRun'
  BY <1>1, <1>4, <1>6 DEF SentInv, TurnInv, NewestTurn, NotSentDoesNotRun
<1>9. QED BY <1>2, <1>3, <1>5, <1>7, <1>8 DEF SentInv, TurnInv

\* A launch is registered once nothing of its turn runs.
LEMMA SpawningKeepsSent == ASSUME LaunchInv, SentInv, Spawn PROVE SentInv'
<1>1. PICK l : /\ Registers(l) /\ l.turn = driver.turn
               /\ l.resume => l.bg = session
               /\ ~l.resume => l.bg = l.id
               /\ driver' = [driver EXCEPT !.at = "await", !.launch = l.id]
  BY SpawnRegisters
<1>2. UNCHANGED <<procs, prompts, halted, unsent, session>>
  BY <1>1 DEF Registers
<1>3. driver'.at = "await" /\ driver'.launch = l.id /\ driver'.turn = driver.turn
  BY <1>1 DEF LaunchInv, LaunchesTyped
<1>4. driver.at \in {"resume", "first"}
  BY DEF Spawn
<1>5. NewestTurn'
  BY <1>2, <1>3, <1>4 DEF SentInv, TurnInv, NewestTurn
<1>6. prompts \in Nat
  BY LaunchBounds DEF LaunchInv, LaunchesTyped
<1>7. LaunchesAreOfTurns'
  BY <1>1, <1>2, <1>3, <1>4, <1>6
    DEF SentInv, TurnInv, NewestTurn, LaunchesAreOfTurns, Registers
<1>8. AwaitedIsLaunched'
  BY <1>1, <1>2, <1>3, <1>4 DEF SentInv, TurnInv, NewestTurn, AwaitedIsLaunched, Registers
<1>9. EarlierAtRest' /\ NotSentDoesNotRun'
  BY <1>2, <1>3, <1>4 DEF SentInv, EarlierAtRest, NotSentDoesNotRun, Active
<1>10. QED BY <1>5, <1>7, <1>8, <1>9 DEF SentInv, TurnInv
-----------------------------------------------------------------------------
\* The driver goes on, between launches.
AwaitIsOver ==
  /\ driver.at # "none"
  /\ driver.at = "await" => \E l \in launches : l.id = driver.launch /\ l.at = "done"

\* Nothing of the driver's turn runs now.
TurnAtRest == \A p \in Procs : Active(p)' => procs[p].prompt # driver.turn

LEMMA DriverKeepsSent ==
  ASSUME LaunchInv, SentInv, Decay, UNCHANGED <<launches, session, prompts, halted>>,
         AwaitIsOver,
         \/ driver'.at \in {"stop", "wait", "settle", "resume", "first"}
            /\ driver'.turn = driver.turn /\ TurnAtRest /\ UNCHANGED unsent
         \/ driver' = NoDriver /\ TurnAtRest /\ unsent' = unsent \cup {driver.turn}
         \/ driver' = NoDriver /\ UNCHANGED unsent
         \/ driver'.at = "watch" /\ driver'.turn = driver.turn /\ UNCHANGED unsent
  PROVE  SentInv'
<1>1. \A l \in launches : l.at # "done" => l.turn \in halted
  BY DEF AwaitIsOver, LaunchInv, LaunchIds, SentInv, TurnInv, LaunchesAreOfTurns
<1>2. /\ driver'.at \notin {"await", "stopResumed"}
      /\ driver'.at # "none" => driver'.turn = driver.turn /\ UNCHANGED unsent
      /\ driver'.at \notin {"none", "watch"} => TurnAtRest
      /\ unsent' = unsent \/ (unsent' = unsent \cup {driver.turn} /\ TurnAtRest)
  BY DEF NoDriver
<1>3. driver.turn \notin halted
  BY DEF AwaitIsOver, SentInv, TurnInv, NewestTurn
<1>4. NewestTurn'
  BY <1>2, <1>3 DEF AwaitIsOver, SentInv, TurnInv, NewestTurn
<1>5. LaunchesAreOfTurns' /\ AwaitedIsLaunched'
  BY <1>1, <1>2 DEF SentInv, TurnInv, LaunchesAreOfTurns, AwaitedIsLaunched
<1>6. \A p \in Procs : Active(p)' => Active(p) /\ procs'[p].prompt = procs[p].prompt
  BY DEF Active, Decay
<1>7. EarlierAtRest'
  BY <1>2, <1>6 DEF EarlierAtRest, TurnAtRest
<1>8. NotSentDoesNotRun'
  BY <1>2, <1>6 DEF SentInv, NotSentDoesNotRun, TurnAtRest
<1>9. QED BY <1>4, <1>5, <1>7, <1>8 DEF SentInv, TurnInv

\* Which of them leave the driver's turn alone.
LEMMA OthersKeepSent ==
  ASSUME LaunchInv, SentInv, Decay,
         UNCHANGED <<launches, session, prompts, halted, unsent, driver>>
  PROVE  SentInv'
<1>1. NewestTurn' /\ LaunchesAreOfTurns'
  BY DEF SentInv, TurnInv, NewestTurn, LaunchesAreOfTurns
<1>2. AwaitedIsLaunched'
  BY DEF SentInv, TurnInv, AwaitedIsLaunched, OfSession, Decay
<1>3. \A p \in Procs : Active(p)' => Active(p) /\ procs'[p].prompt = procs[p].prompt
  BY DEF Active, Decay
<1>4. EarlierAtRest' /\ NotSentDoesNotRun'
  BY <1>3 DEF SentInv, EarlierAtRest, NotSentDoesNotRun
<1>5. QED BY <1>1, <1>2, <1>4 DEF SentInv, TurnInv

\* A turn is sent, and a turn is stopped.
LEMMA SendingKeepsSent == ASSUME LaunchInv, SentInv, TurnSent \/ HaltTurn PROVE SentInv'
<1>1. Decay /\ UNCHANGED <<procs, launches, session, unsent>>
  BY NoneDecays DEF LaunchInv, TurnSent, HaltTurn
<1>2. prompts \in Nat /\ halted \subseteq 1 .. prompts /\ unsent \subseteq 1 .. prompts
  BY LaunchBounds DEF LaunchInv, LaunchesTyped
<1>3. CASE TurnSent
  <2>1. /\ driver.at = "none" /\ prompts' = prompts + 1 /\ halted' = halted
        /\ driver'.at = "check" /\ driver'.turn = prompts + 1
    BY <1>3 DEF TurnSent, At
  <2>2. NewestTurn'
    BY <1>1, <1>2, <2>1 DEF SentInv, TurnInv, NewestTurn
  <2>3. LaunchesAreOfTurns' /\ AwaitedIsLaunched'
    BY <1>1, <1>2, <2>1 DEF SentInv, TurnInv, LaunchesAreOfTurns, AwaitedIsLaunched
  <2>4. \A p \in Procs : procs[p].at # "none" => procs[p].prompt # prompts + 1
    <3>1. \A l \in launches : l.turn \in 1 .. prompts
      BY DEF SentInv, TurnInv, LaunchesAreOfTurns
    <3>2. \A p \in Procs \ {0} : procs[p].at # "none" =>
            \E l \in launches : procs[p].prompt = l.turn
      BY DEF LaunchInv, ProcsAreLaunched, LaunchFits
    <3>3. QED BY <1>2, <3>1, <3>2 DEF LaunchInv, ProcsAreLaunched
  <2>5. EarlierAtRest' /\ NotSentDoesNotRun'
    BY <1>1, <2>1, <2>4 DEF SentInv, EarlierAtRest, NotSentDoesNotRun, Active
  <2>6. QED BY <2>2, <2>3, <2>5 DEF SentInv, TurnInv
<1>4. CASE HaltTurn
  <2>1. /\ driver.at # "none" /\ prompts' = prompts /\ halted' = halted \cup {driver.turn}
        /\ driver'.at = "none"
    BY <1>4 DEF HaltTurn, At, NoDriver
  <2>2. NewestTurn' /\ LaunchesAreOfTurns' /\ AwaitedIsLaunched'
    BY <1>1, <2>1 DEF SentInv, TurnInv, NewestTurn, LaunchesAreOfTurns, AwaitedIsLaunched
  <2>3. EarlierAtRest' /\ NotSentDoesNotRun'
    BY <1>1, <2>1 DEF SentInv, EarlierAtRest, NotSentDoesNotRun, Active
  <2>4. QED BY <2>2, <2>3 DEF SentInv, TurnInv
<1>5. QED BY <1>3, <1>4

\* The driver recognises a resume that left open what it did.
LEMMA UnclearKeepsSent == ASSUME LaunchInv, SentInv, LaunchUnclear PROVE SentInv'
<1>1. PICK l \in launches : l.id = driver.launch /\ l.at = "done"
  BY DEF LaunchUnclear, Launched
<1>2. /\ UNCHANGED <<procs, launches, session, prompts, halted, unsent>>
      /\ driver.at = "await" /\ procs[l.id].how = "unclear"
      /\ driver' = [driver EXCEPT !.at = "stopResumed"]
  BY <1>1 DEF LaunchUnclear, Launched, At, To, driverKeeps
<1>3. driver'.at = "stopResumed" /\ driver'.launch = l.id /\ driver'.turn = driver.turn
  BY <1>1, <1>2 DEF LaunchInv, LaunchesTyped
<1>4. NewestTurn'
  BY <1>2, <1>3 DEF SentInv, TurnInv, NewestTurn
<1>5. LaunchesAreOfTurns'
  BY <1>1, <1>2, <1>3 DEF SentInv, TurnInv, LaunchesAreOfTurns, LaunchInv, LaunchIds
<1>6. PICK k \in launches : /\ k.id = driver.launch /\ k.turn = prompts
                            /\ k.resume => k.bg = session
  BY <1>2 DEF SentInv, TurnInv, AwaitedIsLaunched
<1>7. k = l
  BY <1>1, <1>6 DEF LaunchInv, LaunchIds
<1>8. l.id \in Procs /\ procs[l.id].at # "none" /\ procs[l.id].bg = session
  BY <1>1, <1>2, <1>6, <1>7 DEF LaunchInv, LaunchesTyped, ProcsAreLaunched, LaunchFits
<1>9. AwaitedIsLaunched'
  BY <1>2, <1>3, <1>6, <1>7, <1>8 DEF AwaitedIsLaunched, OfSession
<1>10. EarlierAtRest' /\ NotSentDoesNotRun'
  BY <1>2, <1>3 DEF SentInv, EarlierAtRest, NotSentDoesNotRun, Active
<1>11. QED BY <1>4, <1>5, <1>9, <1>10 DEF SentInv, TurnInv

\* The driver's steps between launches: the turn goes on, once what it
\* started is at rest, or is not sent, or is watched.
LEMMA DriverStepsKeepSent ==
  ASSUME LaunchInv, SentInv,
         \/ CheckGone \/ CheckBusy \/ Check \/ StopOld \/ WaitEnds \/ Settle \/ WaitTimesOut
         \/ LaunchRan \/ LaunchCopied \/ StopResumed \/ WatchEnds
  PROVE  SentInv'
<1>1. DOMAIN driver = {"at", "turn", "attempt", "launch"}
  BY DEF LaunchInv, LaunchesTyped
<1>2. ASSUME NEW at, To(at) PROVE driver'.at = at /\ driver'.turn = driver.turn
  BY <1>1, <1>2 DEF To
<1>3. CASE CheckGone \/ CheckBusy \/ Check \/ WaitEnds \/ Settle \/ WaitTimesOut
  <2>1. /\ driver.at \in {"check", "wait", "settle"}
        /\ UNCHANGED <<procs, launches, session, prompts, halted>>
    BY <1>3 DEF CheckGone, CheckBusy, Check, WaitEnds, Settle, WaitTimesOut, At, driverKeeps
  <2>2. Decay
    BY <2>1, NoneDecays DEF LaunchInv
  <2>3. TurnAtRest
    BY <2>1 DEF SentInv, EarlierAtRest, TurnAtRest, Active
  <2>4. AwaitIsOver
    BY <2>1 DEF AwaitIsOver
  <2>5. \/ \E at \in {"stop", "settle", "resume", "first"} : To(at) /\ UNCHANGED unsent
        \/ NotSent
    BY <1>3 DEF CheckGone, CheckBusy, Check, WaitEnds, Settle, WaitTimesOut
  <2>6. QED BY <1>2, <2>1, <2>2, <2>3, <2>4, <2>5, DriverKeepsSent DEF NotSent
<1>4. CASE StopOld
  <2>1. /\ driver.at = "stop" /\ procs' = AfterStop(session) /\ To("wait")
        /\ UNCHANGED <<launches, session, prompts, halted, unsent>>
    BY <1>4 DEF StopOld, At, driverKeeps
  <2>2. Decay
    BY <2>1, StopDecays DEF LaunchInv
  <2>3. TurnAtRest
    BY <2>1, <2>2 DEF SentInv, EarlierAtRest, TurnAtRest, Active, Decay
  <2>4. AwaitIsOver
    BY <2>1 DEF AwaitIsOver
  <2>5. QED BY <1>2, <2>1, <2>2, <2>3, <2>4, DriverKeepsSent
<1>5. CASE LaunchRan \/ WatchEnds
  <2>1. /\ UNCHANGED <<procs, launches, session, prompts, halted, unsent>>
        /\ To("watch") \/ driver' = NoDriver
        /\ AwaitIsOver
    BY <1>5 DEF LaunchRan, WatchEnds, Launched, At, AwaitIsOver, driverKeeps
  <2>2. QED BY <1>2, <2>1, NoneDecays, DriverKeepsSent DEF LaunchInv
<1>6. CASE LaunchCopied
  <2>1. PICK l \in launches : l.id = driver.launch /\ l.at = "done"
    BY <1>6 DEF LaunchCopied, Launched
  <2>2. /\ UNCHANGED <<procs, launches, session, prompts, halted>>
        /\ driver.at = "await" /\ procs[l.id].how = "copy"
        /\ \/ driver' = [driver EXCEPT !.attempt = @ + 1, !.at = "stop"] /\ UNCHANGED unsent
           \/ NotSent
    BY <1>6, <2>1 DEF LaunchCopied, Launched, At, driverKeeps
  <2>3. TurnAtRest
    <3>1. procs[l.id].at = "gone"
      BY <2>1, <2>2 DEF LaunchInv, ProcsAreLaunched, LaunchFits
    <3>2. QED BY <2>1, <2>2, <3>1 DEF SentInv, EarlierAtRest, TurnAtRest, Active
  <2>4. AwaitIsOver
    BY <2>1, <2>2 DEF AwaitIsOver
  <2>5. \/ driver'.at = "stop" /\ driver'.turn = driver.turn /\ UNCHANGED unsent
        \/ NotSent
    BY <1>1, <2>2
  <2>6. QED BY <2>2, <2>3, <2>4, <2>5, NoneDecays, DriverKeepsSent DEF NotSent, LaunchInv
<1>7. CASE StopResumed
  <2>1. /\ driver.at = "stopResumed" /\ procs' = AfterStop(session)
        /\ UNCHANGED <<launches, session, prompts, halted>>
        /\ \/ driver' = [driver EXCEPT !.attempt = @ + 1, !.at = "wait"] /\ UNCHANGED unsent
           \/ NotSent
    BY <1>7 DEF StopResumed, At, driverKeeps
  <2>2. Decay /\ \A p \in OfSession(session) : ~Active(p)'
    BY <2>1, StopDecays DEF LaunchInv, Active
  <2>3. TurnAtRest
    BY <2>1, <2>2
      DEF SentInv, EarlierAtRest, TurnInv, AwaitedIsLaunched, TurnAtRest, Active, Decay
  <2>4. AwaitIsOver
    BY <2>1 DEF AwaitIsOver
  <2>5. \/ driver'.at = "wait" /\ driver'.turn = driver.turn /\ UNCHANGED unsent
        \/ NotSent
    BY <1>1, <2>1
  <2>6. QED BY <2>1, <2>2, <2>3, <2>4, <2>5, DriverKeepsSent DEF NotSent
<1>8. QED BY <1>3, <1>4, <1>5, <1>6, <1>7

\* The steps of Claude Code, the user, the listings and `--stop`.
LEMMA OtherSteps ==
  ASSUME LaunchInv,
         \/ ProcListed \/ ProcExits \/ UserRemoves \/ WaitLists \/ ResumedLists \/ WatchLists
         \/ StopTask
  PROVE  Decay /\ UNCHANGED <<launches, session, prompts, halted, unsent, driver>>
<1>1. CASE ProcListed \/ ProcExits
  BY <1>1, OneDecays DEF LaunchInv, claudeKeeps
<1>2. CASE UserRemoves \/ WaitLists \/ ResumedLists \/ WatchLists \/ StopLists
  BY <1>2, NoneDecays
    DEF LaunchInv, UserRemoves, WaitLists, ResumedLists, WatchLists, StopLists, driverKeeps
<1>3. CASE StopCommand
  BY <1>3, StopDecays DEF LaunchInv, StopCommand
<1>4. QED BY <1>1, <1>2, <1>3 DEF StopTask

\* A task that goes on leaves the processes to their exit; a session's id is
\* reported for a turn that was not stopped, and only a copy is removed.
LEMMA TaskMoves ==
  ASSUME LaunchInv, LaunchTask, ~LaunchStarts
  PROVE  \E l, m : /\ Moves(l, m) /\ Decay /\ ShowsListed
                   /\ l.at \notin {"starts", "done"} /\ LaunchFits(m)'
                   /\ UNCHANGED launchKeeps
                   /\ session' = session \/ (session' = l.bg /\ l.turn \notin halted)
                   /\ \/ removed' = removed
                      \/ procs[l.id].how = "copy" /\ removed' = removed \cup {l.id}
<1> USE DEF LaunchInv
<1>1. {"lists", "done", "halts", "haltsListed", "stops", "removes"} \subseteq LaunchStages
  BY DEF LaunchStages
<1>2. ASSUME NEW l \in launches
      PROVE  l.id \in Procs /\ LaunchFits(l)
  BY DEF LaunchesTyped, ProcsAreLaunched
<1>3. ASSUME NEW bg, Notes(bg) PROVE ShowsListed
  BY <1>3 DEF Notes, ShowsListed, ListedWith, OfSession
<1>4. CASE LaunchPrintsCopy \/ LaunchPrintsUnclear \/ LaunchReports
  <2>1. PICK l \in launches, at \in {"lists", "done", "halts"} :
          /\ l.at = "prints" /\ Becomes(l, at)
          /\ at = "lists" => Printed(l) = "copy"
          /\ at = "done" => Printed(l) # "copy"
          /\ at = "halts" => Printed(l) = "inPlace"
          /\ UNCHANGED <<procs, removed, seen, shown, launchKeeps>>
          /\ session' = session \/ (session' = l.bg /\ l.turn \notin halted)
    BY <1>4 DEF LaunchPrintsCopy, LaunchPrintsUnclear, LaunchReports, IsCopy, Reported
  <2>2. PICK m : Moves(l, m) /\ m.at = at
    BY <1>1, <2>1, BecomesMoves
  <2>3. LaunchFits(m)'
    BY <1>2, <2>1, <2>2 DEF LaunchFits, Moves, Printed
  <2>4. Decay /\ ShowsListed
    BY <2>1, NoneDecays DEF ShowsListed
  <2>5. QED BY <2>1, <2>2, <2>3, <2>4
<1>5. CASE HaltedLists \/ CopyLists
  <2>1. PICK l \in launches, at \in {"haltsListed", "stops"} :
          /\ Becomes(l, at) /\ \E bg : Notes(bg)
          /\ l.at = IF at = "stops" THEN "lists" ELSE "halts"
          /\ UNCHANGED <<procs, removed, session, launchKeeps>>
    BY <1>5 DEF HaltedLists, CopyLists
  <2>2. PICK m : Moves(l, m) /\ m.at = at
    BY <1>1, <2>1, BecomesMoves
  <2>3. LaunchFits(m)'
    BY <1>2, <2>1, <2>2 DEF LaunchFits, Moves
  <2>4. Decay /\ ShowsListed
    BY <1>3, <2>1, NoneDecays
  <2>5. QED BY <2>1, <2>2, <2>3, <2>4
<1>6. CASE HaltedStops \/ CopyStops
  <2>1. PICK l \in launches, at \in {"done", "removes"} :
          /\ Becomes(l, at) /\ \E bg : procs' = AfterStop(bg)
          /\ l.at = IF at = "done" THEN "haltsListed" ELSE "stops"
          /\ UNCHANGED <<removed, seen, shown, session, launchKeeps>>
    BY <1>6 DEF HaltedStops, CopyStops
  <2>2. PICK m : Moves(l, m) /\ m.at = at
    BY <1>1, <2>1, BecomesMoves
  <2>3. Decay /\ ShowsListed
    BY <2>1, StopDecays DEF ShowsListed
  <2>4. LaunchFits(m)'
    BY <1>2, <2>1, <2>2, <2>3 DEF LaunchFits, Moves, Decay
  <2>5. QED BY <2>1, <2>2, <2>3, <2>4
<1>7. CASE CopyRemoved
  <2>1. PICK l \in launches : l.at = "removes" /\ Becomes(l, "done")
          /\ procs' = [p \in Procs |-> IF p \in OfSession(procs[l.id].bg)
                                       THEN [procs[p] EXCEPT !.at = "gone"] ELSE procs[p]]
          /\ removed' = removed \cup {procs[l.id].bg}
          /\ UNCHANGED <<shown, session, launchKeeps>>
    BY <1>7 DEF CopyRemoved
  <2>2. PICK m : Moves(l, m) /\ m.at = "done"
    BY <1>1, <2>1, BecomesMoves
  <2>3. procs[l.id].how = "copy" /\ procs[l.id].bg = l.id /\ procs[l.id].at # "none"
    BY <1>2, <2>1 DEF LaunchFits
  <2>4. Decay /\ procs'[l.id].at = "gone"
    BY <1>2, <2>1, <2>3, RemovedDecays DEF OfSession
  <2>5. LaunchFits(m)'
    BY <1>2, <2>1, <2>2, <2>3, <2>4 DEF LaunchFits, Moves, Decay
  <2>6. ShowsListed
    BY <2>1 DEF ShowsListed
  <2>7. QED BY <2>1, <2>2, <2>3, <2>4, <2>5, <2>6
<1>8. QED BY <1>4, <1>5, <1>6, <1>7 DEF LaunchTask
-----------------------------------------------------------------------------
\* A step does one of these.
DriverStep == \/ CheckGone \/ CheckBusy \/ Check \/ StopOld \/ WaitEnds \/ Settle
              \/ WaitTimesOut \/ LaunchRan \/ LaunchCopied \/ LaunchUnclear
              \/ StopResumed \/ WatchEnds \/ TurnSent \/ HaltTurn
OtherStep  == \/ ProcListed \/ ProcExits \/ UserRemoves \/ WaitLists \/ ResumedLists
              \/ WatchLists \/ StopTask

\* The driver's steps, and those of others, launch nothing.
LEMMA NothingLaunched ==
  ASSUME LaunchInv, DriverStep \/ OtherStep
  PROVE  Decay /\ UNCHANGED <<launches, session>> /\ ShowsListed
<1> USE DEF LaunchInv
<1>1. ASSUME NEW bg, Notes(bg) PROVE ShowsListed
  BY <1>1 DEF Notes, ShowsListed, ListedWith, OfSession
<1>2. UNCHANGED <<launches, session>>
  <2>1. CASE DriverStep
    BY <2>1 DEF DriverStep, CheckGone, CheckBusy, Check, StopOld, WaitEnds, Settle,
      WaitTimesOut, LaunchRan, LaunchCopied, LaunchUnclear, StopResumed, WatchEnds, TurnSent,
      HaltTurn, driverKeeps
  <2>2. CASE OtherStep
    BY <2>2, OtherSteps DEF OtherStep
  <2>3. QED BY <2>1, <2>2
<1>3. Decay
  <2>1. CASE StopOld \/ StopResumed
    BY <2>1, StopDecays DEF StopOld, StopResumed
  <2>2. CASE DriverStep /\ ~(StopOld \/ StopResumed)
    BY <2>2, NoneDecays DEF DriverStep, CheckGone, CheckBusy, Check, WaitEnds, Settle,
      WaitTimesOut, LaunchRan, LaunchCopied, LaunchUnclear, WatchEnds, TurnSent, HaltTurn
  <2>3. CASE OtherStep
    BY <2>3, OtherSteps DEF OtherStep
  <2>4. QED BY <2>1, <2>2, <2>3
<1>4. ShowsListed
  <2>1. CASE CheckBusy \/ Check \/ WaitLists \/ ResumedLists \/ WatchLists \/ StopLists
    BY <1>1, <2>1 DEF CheckBusy, Check, WaitLists, ResumedLists, WatchLists, StopLists
  <2>2. CASE CheckGone
    BY <2>2 DEF CheckGone, ShowsListed
  <2>3. CASE \/ StopOld \/ WaitEnds \/ Settle \/ WaitTimesOut \/ LaunchRan \/ LaunchCopied
             \/ LaunchUnclear \/ StopResumed \/ WatchEnds \/ TurnSent \/ HaltTurn
             \/ ProcListed \/ ProcExits \/ UserRemoves \/ StopCommand
    BY <2>3 DEF StopOld, WaitEnds, Settle, WaitTimesOut, LaunchRan, LaunchCopied,
      LaunchUnclear, StopResumed, WatchEnds, TurnSent, HaltTurn, ProcListed, ProcExits,
      UserRemoves, StopCommand, claudeKeeps, ShowsListed
  <2>4. QED BY <2>1, <2>2, <2>3 DEF DriverStep, OtherStep, StopTask
<1>5. QED BY <1>2, <1>3, <1>4

LEMMA StepKinds ==
  ASSUME LaunchInv, LaunchesNext
  PROVE  DriverStep \/ OtherStep \/ Spawn \/ LaunchStarts \/ (LaunchTask /\ ~LaunchStarts)
BY DEF LaunchesNext, DriverStep, OtherStep, LaunchTask
-----------------------------------------------------------------------------
(* The processes the driver remembers.                                     *)

\* Every process a listing showed is remembered as long as it runs.
ShownIsSeen == \A p \in shown : Runs(p) => p \in seen

\* The listings remember, and the driver forgets what is gone or removed.
Remembers ==
  \/ UNCHANGED <<seen, shown>>
  \/ \E bg : Notes(bg)
  \/ \E bg : Forget(bg) /\ shown' = shown /\ \A p \in seen \cap OfSession(bg) : ~Runs(p)'
  \/ \E bg : Forget(bg) /\ shown' = shown \ OfSession(bg)

LEMMA StepsRemember == ASSUME LaunchInv, LaunchesNext PROVE Remembers
<1>1. CASE \/ CheckBusy \/ Check \/ WaitLists \/ ResumedLists \/ WatchLists \/ StopLists
           \/ HaltedLists \/ CopyLists
  BY <1>1 DEF CheckBusy, Check, WaitLists, ResumedLists, WatchLists, StopLists, HaltedLists,
    CopyLists, Remembers
<1>2. CASE CheckGone
  BY <1>2 DEF CheckGone, Remembers
<1>3. CASE WaitEnds \/ Settle
  <2>1. Forget(session) /\ UNCHANGED <<procs, shown>> /\ ~RunsYet(session)
    BY <1>3 DEF WaitEnds, Settle
  <2>2. QED BY <2>1 DEF RunsYet, Runs, Active, Remembers
<1>4. CASE CopyRemoved
  <2>1. PICK bg : /\ Forget(bg) /\ shown' = shown
                  /\ procs' = [p \in Procs |-> IF p \in OfSession(bg)
                                 THEN [procs[p] EXCEPT !.at = "gone"] ELSE procs[p]]
    BY <1>4 DEF CopyRemoved
  <2>2. \A p \in OfSession(bg) : procs'[p].at = "gone"
    BY <2>1, RemovedDecays DEF LaunchInv
  <2>3. QED BY <2>1, <2>2 DEF Remembers, Runs, Active
<1>5. CASE \/ ProcListed \/ ProcExits \/ UserRemoves \/ TurnSent \/ StopOld \/ WaitTimesOut
           \/ Spawn \/ LaunchRan \/ LaunchCopied \/ LaunchUnclear \/ StopResumed \/ WatchEnds
           \/ HaltTurn \/ StopCommand \/ LaunchStarts \/ LaunchPrintsCopy
           \/ LaunchPrintsUnclear \/ LaunchReports \/ HaltedStops \/ CopyStops
  BY <1>5 DEF ProcListed, ProcExits, UserRemoves, TurnSent, StopOld, WaitTimesOut,
    Spawn, LaunchRan, LaunchCopied, LaunchUnclear, StopResumed, WatchEnds, HaltTurn,
    StopCommand, LaunchStarts, LaunchPrintsCopy, LaunchPrintsUnclear, LaunchReports,
    HaltedStops, CopyStops, claudeKeeps, Remembers
<1>6. QED BY <1>1, <1>2, <1>3, <1>4, <1>5 DEF LaunchesNext, LaunchTask, StopTask

LEMMA RememberingKeepsSeen ==
  ASSUME LaunchInv, ShownIsSeen, Remembers,
         \A p \in shown \cup {q \in Procs : procs[q].at = "listed"} : Runs(p)' => Runs(p)
  PROVE  ShownIsSeen' /\ seen' \subseteq shown' /\ shown' \subseteq Procs
<1>1. seen \subseteq shown /\ shown \subseteq Procs
  BY DEF LaunchInv, LaunchesTyped
<1>2. CASE UNCHANGED <<seen, shown>>
  BY <1>1, <1>2 DEF ShownIsSeen
<1>3. ASSUME NEW bg, Notes(bg)
      PROVE  ShownIsSeen' /\ seen' \subseteq shown' /\ shown' \subseteq Procs
  <2>1. \A p \in ListedWith(bg) : p \in Procs /\ procs[p].at = "listed" /\ Runs(p)
    BY DEF ListedWith, OfSession, Runs, Active
  <2>2. CASE ListedAlive(bg)
    <3>1. /\ seen' = {p \in seen : p \notin OfSession(bg) \/ Runs(p)} \cup ListedWith(bg)
          /\ shown' = shown \cup ListedWith(bg)
      BY <1>3, <2>2 DEF Notes, Remembered
    <3>2. QED BY <1>1, <2>1, <3>1 DEF ShownIsSeen
  <2>3. CASE ~ListedAlive(bg)
    <3>1. seen' = seen /\ shown' = shown
      BY <1>3, <2>3 DEF Notes, Remembered, ListedAlive
    <3>2. QED BY <1>1, <3>1 DEF ShownIsSeen
  <2>4. QED BY <2>2, <2>3
<1>4. ASSUME NEW bg, Forget(bg),
             \/ shown' = shown /\ \A p \in seen \cap OfSession(bg) : ~Runs(p)'
             \/ shown' = shown \ OfSession(bg)
      PROVE  ShownIsSeen' /\ seen' \subseteq shown' /\ shown' \subseteq Procs
  <2>1. seen' = seen \ OfSession(bg)
    BY <1>4 DEF Forget
  <2>2. QED BY <1>1, <1>4, <2>1 DEF ShownIsSeen
<1>5. QED BY <1>2, <1>3, <1>4 DEF Remembers

LEMMA SeenStep ==
  ASSUME LaunchInv, ShownIsSeen, LaunchesNext
  PROVE  ShownIsSeen' /\ seen' \subseteq shown' /\ shown' \subseteq Procs
<1>1. ASSUME Decay PROVE \A p \in Procs : Runs(p)' => Runs(p)
  BY <1>1 DEF Decay, Runs, Active
<1>2. CASE LaunchStarts
  <2>1. PICK l, m, how : Starts(l, m, how)
    BY <1>2, StartsOne
  <2>2. \A p \in shown \cup {q \in Procs : procs[q].at = "listed"} : Runs(p)' => Runs(p)
    BY <2>1, StartedProcs DEF Runs, Active, LaunchInv, LaunchesTyped
  <2>3. QED BY <2>2, StepsRemember, RememberingKeepsSeen
<1>3. CASE Spawn
  <2>1. Decay
    BY <1>3, NoneDecays DEF LaunchInv, Spawn
  <2>2. QED BY <1>1, <2>1, StepsRemember, RememberingKeepsSeen DEF LaunchInv, LaunchesTyped
<1>4. CASE DriverStep \/ OtherStep \/ (LaunchTask /\ ~LaunchStarts)
  <2>1. Decay
    BY <1>4, NothingLaunched, TaskMoves
  <2>2. QED BY <1>1, <2>1, StepsRemember, RememberingKeepsSeen DEF LaunchInv, LaunchesTyped
<1>5. QED BY <1>2, <1>3, <1>4, StepKinds
-----------------------------------------------------------------------------
(* Types.                                                                  *)

DriverRecords == [at : {"none", "check", "stop", "wait", "settle", "resume",
                        "first", "await", "stopResumed", "watch"},
                  turn : 0 .. MaxPrompts, attempt : 0 .. ResumeAttempts, launch : Procs]

\* The driver, and what the turns came to.
LEMMA DriverStaysTyped ==
  ASSUME LaunchInv, TurnInv, DriverStep
  PROVE  /\ driver' \in DriverRecords /\ prompts' \in 0 .. MaxPrompts
         /\ halted' \subseteq 1 .. prompts' /\ unsent' \subseteq 1 .. prompts'
<1>1. /\ driver \in DriverRecords /\ prompts \in 0 .. MaxPrompts
      /\ halted \subseteq 1 .. prompts /\ unsent \subseteq 1 .. prompts
      /\ MaxPrompts \in Nat /\ ResumeAttempts \in Nat \ {0} /\ 0 \in Procs
  <2>1. MaxPrompts \in Nat /\ ResumeAttempts \in Nat \ {0} /\ 0 \in Procs
    BY LaunchBounds DEF Procs
  <2>2. /\ driver \in DriverRecords /\ prompts \in 0 .. MaxPrompts
        /\ halted \subseteq 1 .. prompts /\ unsent \subseteq 1 .. prompts
    BY DEF LaunchInv, LaunchesTyped, DriverRecords
  <2>3. QED BY <2>1, <2>2
<1>2. NoDriver \in DriverRecords
  BY <1>1 DEF NoDriver, DriverRecords
<1>3. ASSUME NEW at \in {"stop", "wait", "settle", "resume", "first", "stopResumed", "watch"},
             To(at)
      PROVE  driver' \in DriverRecords
  BY <1>1, <1>3 DEF To, DriverRecords
<1>4. driver.at # "none" => driver.turn \in 1 .. prompts
  BY <1>1 DEF TurnInv, NewestTurn
<1>5. CASE \/ CheckGone \/ CheckBusy \/ Check \/ StopOld \/ WaitEnds \/ Settle \/ WaitTimesOut
           \/ LaunchRan \/ LaunchCopied \/ LaunchUnclear \/ StopResumed \/ WatchEnds
  <2>1. UNCHANGED <<prompts, halted>> /\ driver.at # "none"
    BY <1>5 DEF CheckGone, CheckBusy, Check, StopOld, WaitEnds, Settle, WaitTimesOut, LaunchRan,
      LaunchCopied, LaunchUnclear, StopResumed, WatchEnds, Launched, At, driverKeeps
  <2>2. unsent' = unsent \/ NotSent
    BY <1>5 DEF CheckGone, CheckBusy, Check, StopOld, WaitEnds, Settle, WaitTimesOut, LaunchRan,
      LaunchCopied, LaunchUnclear, StopResumed, WatchEnds
  <2>3. \/ \E at \in {"stop", "wait", "settle", "resume", "first", "stopResumed", "watch"} : To(at)
        \/ driver' = NoDriver
        \/ /\ driver.attempt < ResumeAttempts
           /\ \E at \in {"stop", "wait"} : driver' = [driver EXCEPT !.attempt = @ + 1, !.at = at]
    BY <1>5 DEF CheckGone, CheckBusy, Check, StopOld, WaitEnds, Settle, WaitTimesOut, LaunchRan,
      LaunchCopied, LaunchUnclear, StopResumed, WatchEnds, NotSent
  <2>4. ASSUME NEW at \in {"stop", "wait"}, driver.attempt < ResumeAttempts,
               driver' = [driver EXCEPT !.attempt = @ + 1, !.at = at]
        PROVE  driver' \in DriverRecords
    <3>1. driver.attempt + 1 \in 0 .. ResumeAttempts
      BY <1>1, <2>4 DEF DriverRecords
    <3>2. QED BY <1>1, <2>4, <3>1 DEF DriverRecords
  <2>5. driver' \in DriverRecords
    BY <1>2, <1>3, <2>3, <2>4
  <2>6. QED BY <1>1, <1>4, <2>1, <2>2, <2>5 DEF NotSent
<1>6. CASE TurnSent
  <2>1. prompts' = prompts + 1 /\ prompts + 1 \in 1 .. MaxPrompts /\ UNCHANGED <<halted, unsent>>
    BY <1>1, <1>6 DEF TurnSent
  <2>2. driver' \in DriverRecords
    BY <1>1, <1>6, <2>1 DEF TurnSent, DriverRecords
  <2>3. QED BY <1>1, <2>1, <2>2
<1>7. CASE HaltTurn
  BY <1>1, <1>2, <1>4, <1>7 DEF HaltTurn, At
<1>8. QED BY <1>5, <1>6, <1>7 DEF DriverStep

\* Everything keeps its type.
LEMMA StaysTyped ==
  ASSUME LaunchInv, TurnInv, ShownIsSeen, LaunchesNext
  PROVE  LaunchesTyped'
<1>1. /\ launches \subseteq LaunchRecords /\ driver \in DriverRecords
      /\ removed \subseteq Procs /\ session \in Procs
      /\ procs \in [Procs -> ProcRecords]
      /\ stopper \in [at : {"none", "list", "command"}, bg : Procs]
      /\ prompts \in 0 .. MaxPrompts
      /\ halted \subseteq 1 .. prompts /\ unsent \subseteq 1 .. prompts
      /\ 0 \in Procs
  <2>1. 0 \in Procs
    BY LaunchBounds DEF Procs
  <2>2. QED BY <2>1 DEF LaunchInv, LaunchesTyped, LaunchRecords, DriverRecords, ProcRecords
<1>2. seen' \subseteq shown' /\ shown' \subseteq Procs
  BY SeenStep
<1>3. ASSUME procs' \in [Procs -> ProcRecords], launches' \subseteq LaunchRecords,
             session' \in Procs, removed' \subseteq Procs, driver' \in DriverRecords,
             stopper' \in [at : {"none", "list", "command"}, bg : Procs],
             prompts' \in 0 .. MaxPrompts,
             halted' \subseteq 1 .. prompts', unsent' \subseteq 1 .. prompts'
      PROVE  LaunchesTyped'
  BY <1>2, <1>3 DEF LaunchesTyped, LaunchRecords, DriverRecords, ProcRecords
<1>4. CASE DriverStep
  <2>1. removed' = removed
    BY <1>4 DEF DriverStep, CheckGone, CheckBusy, Check, StopOld, WaitEnds, Settle,
      WaitTimesOut, LaunchRan, LaunchCopied, LaunchUnclear, StopResumed, WatchEnds, TurnSent,
      HaltTurn, driverKeeps
  <2>2. stopper' = stopper \/ stopper' = [at |-> "list", bg |-> session]
    BY <1>4 DEF DriverStep, CheckGone, CheckBusy, Check, StopOld, WaitEnds, Settle,
      WaitTimesOut, LaunchRan, LaunchCopied, LaunchUnclear, StopResumed, WatchEnds, TurnSent,
      HaltTurn, driverKeeps
  <2>3. QED
    BY <1>1, <1>3, <1>4, <2>1, <2>2, DriverStaysTyped, NothingLaunched DEF Decay
<1>5. CASE OtherStep
  <2>1. removed' \in {removed, removed \cup {session}}
    BY <1>5 DEF OtherStep, ProcListed, ProcExits, UserRemoves, WaitLists, ResumedLists,
      WatchLists, StopTask, StopLists, StopCommand, driverKeeps, claudeKeeps
  <2>2. stopper' \in {stopper, [stopper EXCEPT !.at = "command"], NoStop}
    BY <1>5 DEF OtherStep, ProcListed, ProcExits, UserRemoves, WaitLists, ResumedLists,
      WatchLists, StopTask, StopLists, StopCommand, driverKeeps, claudeKeeps
  <2>3. stopper' \in [at : {"none", "list", "command"}, bg : Procs]
    BY <1>1, <2>2 DEF NoStop
  <2>4. UNCHANGED <<prompts, halted, unsent, driver>>
    BY <1>5, OtherSteps DEF OtherStep
  <2>5. QED BY <1>1, <1>3, <1>5, <2>1, <2>3, <2>4, NothingLaunched DEF Decay
<1>6. CASE Spawn
  <2>1. PICK l : /\ Registers(l)
                 /\ driver' = [driver EXCEPT !.at = "await", !.launch = l.id]
    BY <1>6, SpawnRegisters
  <2>2. driver' \in DriverRecords
    BY <1>1, <2>1 DEF Registers, LaunchRecords, DriverRecords
  <2>3. QED BY <1>1, <1>3, <2>1, <2>2 DEF Registers
<1>7. CASE LaunchStarts
  <2>1. PICK l, m, how : Starts(l, m, how) /\ removed' \subseteq removed
    BY <1>7, StartsOne
  <2>2. UNCHANGED <<session, driver, stopper, prompts, halted, unsent>>
    BY <2>1 DEF Starts, launchKeeps
  <2>3. launches' \subseteq LaunchRecords
    BY <1>1, <2>1 DEF Starts, Moves
  <2>4. QED BY <1>1, <1>3, <2>1, <2>2, <2>3, StartedProcs
<1>8. CASE LaunchTask /\ ~LaunchStarts
  <2>1. PICK l, m : /\ Moves(l, m) /\ Decay /\ UNCHANGED launchKeeps
                    /\ session' = session \/ session' = l.bg
                    /\ removed' = removed \/ removed' = removed \cup {l.id}
    BY <1>8, TaskMoves
  <2>2. launches' \subseteq LaunchRecords /\ l.id \in Procs /\ l.bg \in Procs
    BY <1>1, <2>1 DEF Moves, LaunchRecords
  <2>3. QED BY <1>1, <1>3, <2>1, <2>2 DEF launchKeeps, Decay
<1>9. QED BY <1>4, <1>5, <1>6, <1>7, <1>8, StepKinds
-----------------------------------------------------------------------------
(* Copies.                                                                 *)

\* The ids a session may have: the first one's, and those of launches that
\* began one.  A copy is of a launch that resumed.
Roots == {0} \cup {l.id : l \in {k \in launches : ~k.resume}}

IdsAreRoots == session \in Roots /\ \A l \in launches : l.bg \in Roots

LEMMA RootsStay ==
  ASSUME LaunchInv, IdsAreRoots, LaunchesNext
  PROVE  /\ IdsAreRoots'
         /\ launches' # launches => session \notin removed' \ removed
<1>1. CASE DriverStep \/ OtherStep
  BY <1>1, NothingLaunched DEF IdsAreRoots, Roots
<1>2. CASE Spawn
  <2>1. PICK l : /\ Registers(l)
                 /\ l.resume => l.bg = session
                 /\ ~l.resume => l.bg = l.id
    BY <1>2, SpawnRegisters
  <2>2. QED BY <2>1 DEF IdsAreRoots, Roots, Registers
<1>3. ASSUME NEW l, NEW m, Moves(l, m), session' \in {session, l.bg}
      PROVE  IdsAreRoots'
  <2>1. \A k \in launches' : k \in launches \/ (k = m /\ l \in launches)
    BY <1>3 DEF Moves
  <2>2. \A id \in Roots : id \in Roots'
    BY <1>3 DEF Roots, Moves
  <2>3. QED BY <1>3, <2>1, <2>2 DEF IdsAreRoots, Moves
<1>4. CASE LaunchStarts
  <2>1. PICK l, m, how : Starts(l, m, how) /\ removed' \subseteq removed
    BY <1>4, StartsOne
  <2>2. QED BY <1>3, <2>1 DEF Starts
<1>5. CASE LaunchTask /\ ~LaunchStarts
  <2>1. PICK l, m : /\ Moves(l, m) /\ l.at # "starts"
                    /\ session' = session \/ session' = l.bg
                    /\ \/ removed' = removed
                       \/ procs[l.id].how = "copy" /\ removed' = removed \cup {l.id}
    BY <1>5, TaskMoves
  <2>2. ASSUME procs[l.id].how = "copy" PROVE l.id \notin Roots
    <3>1. l \in launches /\ l.resume /\ l.id # 0
      BY <2>1, <2>2 DEF Moves, LaunchInv, LaunchIds, ProcsAreLaunched, LaunchFits
    <3>2. QED BY <3>1 DEF Roots, LaunchInv, LaunchIds
  <2>3. QED BY <1>3, <2>1, <2>2 DEF IdsAreRoots
<1>6. QED BY <1>1, <1>2, <1>4, <1>5, StepKinds
-----------------------------------------------------------------------------
(* Theorems.                                                               *)

LaunchesInv == LaunchInv /\ SentInv /\ ShownIsSeen /\ IdsAreRoots

\* At the start there is one process, and no launch.
LEMMA StartsLaunches == ASSUME LaunchesInit PROVE LaunchesInv
<1>1. PICK at \in {"listed", "exiting", "gone"} :
        procs = [p \in Procs |-> IF p = 0 THEN [NoProc EXCEPT !.at = at] ELSE NoProc]
  BY DEF LaunchesInit
<1>2. /\ 0 \in Procs /\ MaxPrompts \in Nat /\ ResumeAttempts \in Nat \ {0}
      /\ launches = {} /\ removed = {} /\ session = 0 /\ driver = NoDriver
      /\ stopper = NoStop /\ prompts = 0 /\ halted = {} /\ unsent = {}
      /\ shown = {p \in {0} : procs[p].at \in {"listed", "exiting"}} /\ seen = shown
  BY LaunchBounds DEF LaunchesInit, Procs
<1>3. \A p \in Procs : /\ procs[p] \in ProcRecords
                       /\ procs[p].at = IF p = 0 THEN at ELSE "none"
                       /\ procs[p].prompt = 0
  BY <1>1, <1>2 DEF NoProc, ProcRecords
<1>4. procs \in [Procs -> ProcRecords]
  BY <1>1, <1>3
<1>5. LaunchesTyped
  BY <1>2, <1>4 DEF LaunchesTyped, ProcRecords, NoDriver, NoStop
<1>6. LaunchIds /\ Cardinality(launches) = 0
  BY <1>2, FS_EmptySet DEF LaunchIds
<1>7. ProcsAreLaunched /\ ShownIsSeen /\ IdsAreRoots
  BY <1>2, <1>3 DEF ProcsAreLaunched, ShownIsSeen, IdsAreRoots, Roots
<1>8. SentInv
  BY <1>2 DEF SentInv, TurnInv, NewestTurn, LaunchesAreOfTurns, AwaitedIsLaunched,
    EarlierAtRest, NotSentDoesNotRun, NoDriver
<1>9. QED BY <1>5, <1>6, <1>7, <1>8 DEF LaunchesInv, LaunchInv

\* Every step keeps what was launched as it is declared.
LEMMA LaunchedStays == ASSUME LaunchesInv, LaunchesNext PROVE LaunchInv'
<1> USE DEF LaunchesInv
<1>1. LaunchesTyped'
  BY StaysTyped DEF SentInv
<1>2. LaunchIds' /\ ProcsAreLaunched'
  <2>1. CASE DriverStep \/ OtherStep
    <3>1. Decay /\ UNCHANGED launches /\ ShowsListed
      BY <2>1, NothingLaunched
    <3>2. QED BY <3>1, DecayKeepsLaunched DEF LaunchInv, LaunchIds
  <2>2. CASE Spawn
    BY <2>2, SpawnRegisters, RegisteringKeepsLaunched
  <2>3. CASE LaunchStarts
    <3>1. PICK l, m, how : Starts(l, m, how)
      BY <2>3, StartsOne
    <3>2. QED BY <3>1, MovesKeepIds, StartingKeepsLaunched DEF Starts, LaunchInv
  <2>4. CASE LaunchTask /\ ~LaunchStarts
    BY <2>4, TaskMoves, MovesKeepIds, MovingKeepsLaunched DEF LaunchInv
  <2>5. QED BY <2>1, <2>2, <2>3, <2>4, StepKinds
<1>3. QED BY <1>1, <1>2 DEF LaunchInv

\* And what was sent.
LEMMA SentStays == ASSUME LaunchesInv, LaunchesNext PROVE SentInv'
<1> USE DEF LaunchesInv
<1>1. CASE DriverStep
  BY <1>1, UnclearKeepsSent, DriverStepsKeepSent, SendingKeepsSent DEF DriverStep
<1>2. CASE OtherStep
  BY <1>2, OtherSteps, OthersKeepSent DEF OtherStep
<1>3. CASE Spawn
  BY <1>3, SpawningKeepsSent
<1>4. CASE LaunchStarts
  BY <1>4, StartsOne, StartingKeepsSent
<1>5. CASE LaunchTask /\ ~LaunchStarts
  BY <1>5, TaskMoves, MovingKeepsSent
<1>6. QED BY <1>1, <1>2, <1>3, <1>4, <1>5, StepKinds

\* Without a step all stays.
LEMMA StutterStays == ASSUME LaunchesInv, UNCHANGED launchVars PROVE LaunchesInv'
BY DEF launchVars, LaunchesInv, LaunchInv, LaunchesTyped, LaunchIds, ProcsAreLaunched,
  LaunchFits, SentInv, TurnInv, NewestTurn, LaunchesAreOfTurns, AwaitedIsLaunched,
  EarlierAtRest, NotSentDoesNotRun, ShownIsSeen, IdsAreRoots, Roots, Runs, Active, OfSession

\* LaunchesInv holds in every state.
THEOREM LaunchesInvariant == LaunchesSpec => []LaunchesInv
<1>1. LaunchesInv /\ [LaunchesNext]_launchVars => LaunchesInv'
  BY LaunchedStays, SentStays, SeenStep, RootsStay, StutterStays DEF LaunchesInv
<1>2. QED BY <1>1, StartsLaunches, PTL DEF LaunchesSpec

\* The launches keep their types: the bounds of every count, of the attempts
\* at a resume included (RESUME_ATTEMPTS).
THEOREM LaunchesKeepTypes == LaunchesSpec => []LaunchesTyped
<1>1. LaunchesInv => LaunchesTyped
  BY DEF LaunchesInv, LaunchInv
<1>2. QED BY <1>1, LaunchesInvariant, PTL

\* A turn reported as not sent does not run, and never will: whatever the
\* attempts before left behind is stopped, an unclear resume too, and a
\* launch still under way is of a stopped turn (next_turn, stop_resumed).
THEOREM UnsentTurnsDoNotRun == LaunchesSpec => []NotSentDoesNotRun
<1>1. LaunchesInv => NotSentDoesNotRun
  BY DEF LaunchesInv, SentInv
<1>2. QED BY <1>1, LaunchesInvariant, PTL

\* The driver resumes a session only once every process a listing showed of
\* it is gone, also those another task listed and stopped (Exits, settle,
\* wait_for_exit).
THEOREM ResumesWait == LaunchesSpec => ResumeWaits
<1>1. ASSUME LaunchesInv, [LaunchesNext]_launchVars
      PROVE  [To("resume") /\ driver' # driver =>
                \A p \in OfSession(session) \cap shown : ~Runs(p)]_launchVars
  <2>1. CASE WaitEnds \/ Settle
    <3>1. ~RunsYet(session)
      BY <2>1 DEF WaitEnds, Settle
    <3>2. QED BY <1>1, <3>1 DEF LaunchesInv, ShownIsSeen, RunsYet
  <2>2. ASSUME LaunchesNext, ~(WaitEnds \/ Settle), driver' # driver
        PROVE  ~To("resume")
    <3>1. DOMAIN driver = {"at", "turn", "attempt", "launch"}
      BY <1>1 DEF LaunchesInv, LaunchInv, LaunchesTyped
    <3>2. ASSUME NEW at, driver'.at = at, at # "resume" PROVE ~To("resume")
      BY <3>1, <3>2 DEF To
    <3>3. CASE DriverStep
      <4>1. \/ \E at \in {"stop", "settle", "first", "wait", "stopResumed", "watch"} : To(at)
            \/ driver' = NoDriver
            \/ \E at \in {"stop", "wait"} : driver' = [driver EXCEPT !.attempt = @ + 1, !.at = at]
            \/ \E turn : driver' = [at |-> "check", turn |-> turn, attempt |-> 1, launch |-> 0]
        BY <2>2, <3>3 DEF DriverStep, CheckGone, CheckBusy, Check, StopOld, WaitTimesOut,
          LaunchRan, LaunchCopied, LaunchUnclear, StopResumed, WatchEnds, TurnSent, HaltTurn,
          NotSent
      <4>2. ASSUME NEW at, To(at) PROVE driver'.at = at
        BY <3>1, <4>2 DEF To
      <4>3. ASSUME NEW at, driver' = [driver EXCEPT !.attempt = @ + 1, !.at = at]
            PROVE  driver'.at = at
        BY <3>1, <4>3
      <4>4. NoDriver.at = "none"
        BY DEF NoDriver
      <4>5. \A turn :
              [at |-> "check", turn |-> turn, attempt |-> 1, launch |-> 0].at = "check"
        OBVIOUS
      <4>6. driver'.at # "resume"
        BY <4>1, <4>2, <4>3, <4>4, <4>5
      <4>7. QED BY <3>2, <4>6
    <3>4. CASE Spawn
      <4>1. driver'.at = "await"
        BY <1>1, <3>1, <3>4, SpawnRegisters DEF LaunchesInv
      <4>2. QED BY <3>2, <4>1
    <3>5. CASE OtherStep
      BY <1>1, <2>2, <3>5, OtherSteps DEF OtherStep, LaunchesInv
    <3>6. CASE LaunchTask
      <4>1. UNCHANGED launchKeeps
        BY <1>1, <3>6, TaskMoves, StartsOne DEF Starts, LaunchesInv
      <4>2. QED BY <2>2, <4>1 DEF launchKeeps
    <3>7. QED BY <1>1, <2>2, <3>3, <3>4, <3>5, <3>6, StepKinds DEF LaunchesInv, LaunchTask
  <2>3. CASE UNCHANGED launchVars
    BY <2>3
  <2>4. QED BY <1>1, <2>1, <2>2, <2>3
<1>2. QED BY <1>1, LaunchesInvariant, PTL DEF LaunchesSpec, ResumeWaits

\* No launch removes the agent's session, whatever the resume printed
\* (copy_id, discard_copy).
THEOREM SessionsAreKept == LaunchesSpec => OriginalKept
<1>1. LaunchesInv /\ [LaunchesNext]_launchVars =>
        [launches' # launches => session \notin removed' \ removed]_launchVars
  BY RootsStay DEF LaunchesInv
<1>2. QED BY <1>1, LaunchesInvariant, PTL DEF LaunchesSpec, OriginalKept
-----------------------------------------------------------------------------
(* The turns with a process of their own.                                  *)

\* A thread before it registered its process, and from then to the exit; a
\* task that waits for a process, or reads one.
Starting    == {"spawns", "inserts"}
Registering == {"reports", "hands", "writes", "waits"}
Holding     == {"waits", "awaits", "reads"}

\* The variables' shape, as far as the argument needs it.
Task == [at : {"none", "sweep", "previous", "waits", "spawns", "awaits", "reads"},
         try : Nat, scope : BOOLEAN, before : Sessions,
         reported : BOOLEAN, rewatch : BOOLEAN]
Try == [turn : Nat,
        thread : {"none", "spawns", "inserts", "reports", "hands", "writes",
                  "waits", "failed", "over"},
        at : {"none", "runs", "ended"}, scope : BOOLEAN, left : BOOLEAN,
        prompted : BOOLEAN, stopped : BOOLEAN, ready : BOOLEAN,
        harness : BOOLEAN, old : BOOLEAN, report : BOOLEAN]

TaskShape ==
  /\ runs \in Nat /\ running \in {0, runs}
  /\ task \in Task
  /\ task.at = "none" <=> running = 0
  /\ task.at \in Holding => task.try \in Tries
  /\ registry \in Tries \cup {0}
  /\ swept \in BOOLEAN /\ overtaken \in BOOLEAN
TriesShape == tries \in [Tries -> Try]
TalkShape ==
  /\ latest \in Sessions /\ known \in Sessions /\ updates \in Seq(Sessions)
  /\ worked \in BOOLEAN
Shape == TaskShape /\ TriesShape /\ TalkShape

\* How far a process is, and what its thread has done with it.
Stage(s) ==
  /\ tries[s].turn <= runs
  /\ tries[s].left => tries[s].at = "ended"
  /\ tries[s].thread = "none" <=> tries[s].turn = 0
  /\ tries[s].thread \in {"none", "spawns", "failed"} => tries[s].at = "none"
  /\ tries[s].thread = "over" /\ ~tries[s].old => tries[s].at = "ended"
  /\ tries[s].old => tries[s].thread \in {"none", "failed", "over"}
  /\ tries[s].prompted => tries[s].harness /\ tries[s].thread \in {"waits", "over"}
  /\ tries[s].ready => tries[s].thread \in {"writes", "waits", "over"}
  /\ tries[s].thread # "none" /\ ~swept => tries[s].old
Stages == \A s \in Tries : Stage(s)

\* The sweep: a turn past it, and what it leaves.
SweptInv ==
  /\ task.at \notin {"none", "sweep"} => swept
  /\ swept => \A s \in Tries : ~(Alive(s) /\ tries[s].old /\ tries[s].scope)

\* The processes are started in order.
Filled == \E n \in 0 .. MaxTries : {s \in Tries : tries[s].turn # 0} = 1 .. n

\* The tries of one turn come one after the other, and the last one is the task's.
InTurn ==
  /\ task.at \in {"previous", "waits"} \/ (task.at = "sweep" /\ ~task.rewatch)
       => \A s \in Tries : tries[s].turn < runs
  /\ task.at = "spawns" =>
       \A s \in Tries : tries[s].thread \in Starting => tries[s].turn < runs
  /\ task.at \in Holding => ~tries[task.try].old /\ tries[task.try].turn # 0
  /\ task.at \in {"awaits", "reads"} =>
       /\ tries[task.try].turn = runs
       /\ \A s \in Tries : s > task.try => tries[s].turn = 0
  /\ task.at = "reads" => tries[task.try].ready
  /\ \A q, s \in Tries :
       tries[q].thread \in Starting /\ s > q /\ tries[s].turn # 0
         => tries[q].turn < tries[s].turn

\* What the registry holds, as long as nobody overtook.
Registered ==
  /\ registry # 0 => ~tries[registry].old
                     /\ tries[registry].thread \in Registering \cup {"over"}
  /\ ~overtaken =>
       /\ \A s \in Tries : tries[s].thread \in Registering => registry = s
       /\ task.at = "spawns" => registry = 0
       /\ task.at \in Holding => registry \in {0, task.try}
       /\ \A q \in Tries : tries[q].thread \in Starting =>
            /\ registry = 0 \/ q < registry
            /\ task.at = "waits" => q < task.try

\* The session the record will hold once the updates are applied.
Newest == IF updates = <<>> THEN known ELSE updates[Len(updates)]

\* Which session that is, and who may still report a pending one.
Confirmed ==
  /\ running = 0 => WorkedIsKnown
  /\ running # 0 =>
       /\ worked => Newest = "known"
       /\ latest = "none" => updates = <<>>
       /\ latest # "none" => Newest = latest
       /\ task.before = "known" => Newest = "known"
       /\ worked => task.rewatch \/ task.before = "known"
                      \/ (task.at = "reads" /\ tries[task.try].harness)
       /\ task.rewatch => task.at = "sweep" /\ latest = "none"
  /\ \A s \in Tries :
       tries[s].report /\ tries[s].turn = running
         /\ tries[s].thread \in {"spawns", "inserts", "reports"}
         => task.at = "awaits" /\ task.try = s /\ task.before = "none"

IInv == Shape /\ Stages /\ SweptInv /\ Filled /\ InTurn /\ Registered /\ Confirmed

-----------------------------------------------------------------------------
(* What the steps do to the processes.                                     *)

\* Most steps of the task, and all of a stop's, leave the processes alone.
ProcessesApart == UNCHANGED <<tries, swept>> /\ runs' \in {runs, runs + 1}

TaskSteps ==
  \/ RunStarts \/ Swept \/ CutOff \/ Previous \/ PreviousGone \/ SpawnFails
  \/ ReadBegins \/ ReadWorks \/ ApplyReport \/ ReadEnds \/ HaltRun
Stopping == HaltGets \/ HaltReturns \/ GuardDrops \/ DetachedEnds

\* None of them starts, ends or moves a process.
LEMMA TaskStepsApart == ASSUME TaskSteps \/ Stopping PROVE ProcessesApart
<1>1. CASE RunStarts \/ Swept \/ CutOff \/ Previous \/ PreviousGone
  BY <1>1 DEF RunStarts, Swept, CutOff, Previous, PreviousGone, ProcessesApart,
              recordVars, stopVars, daemonVars
<1>2. CASE SpawnFails \/ ReadBegins \/ ReadWorks \/ ApplyReport \/ ReadEnds \/ HaltRun
  BY <1>2 DEF SpawnFails, ReadBegins, ReadWorks, ApplyReport, ReadEnds, HaltRun,
              ProcessesApart, recordVars, stopVars, daemonVars
<1>3. CASE Stopping
  BY <1>3 DEF Stopping, HaltGets, HaltReturns, GuardDrops, DetachedEnds, ProcessesApart,
              recordVars, stopVars, daemonVars
<1>4. QED BY <1>1, <1>2, <1>3 DEF TaskSteps

\* Processes end: of a try only `at` and `left` change.
SameBut(t, u) ==
  /\ t.turn = u.turn /\ t.thread = u.thread /\ t.scope = u.scope
  /\ t.prompted = u.prompted /\ t.stopped = u.stopped /\ t.ready = u.ready
  /\ t.harness = u.harness /\ t.old = u.old /\ t.report = u.report
Ending ==
  /\ UNCHANGED <<task, registry, recordVars, overtaken>>
  /\ swept' \in {swept, TRUE}
  /\ tries' \in [Tries -> Try]
  /\ \A s \in Tries :
       /\ SameBut(tries'[s], tries[s])
       /\ tries'[s].at = tries[s].at \/ (tries[s].at # "none" /\ tries'[s].at = "ended")
       /\ tries'[s].left => tries'[s].at = "ended"

\* An end, a stop signal and the sweep change nothing else of a process.
LEMMA EndingSteps ==
  ASSUME Shape, Stages, HarnessEnds \/ Dies \/ Sweep
  PROVE  Ending
<1>1. tries \in [Tries -> Try] /\ swept \in BOOLEAN
  BY DEF Shape, TriesShape, TaskShape
<1>2. CASE HarnessEnds
  <2>1. PICK s \in Tries, left \in BOOLEAN :
          tries[s].at = "runs" /\ tries' = [tries EXCEPT ![s] = [@ EXCEPT !.at = "ended", !.left = left]]
    BY <1>2 DEF HarnessEnds, Alive
  <2>2. [tries[s] EXCEPT !.at = "ended", !.left = left] \in Try
    BY <1>1, <2>1 DEF Try
  <2>3. QED BY <1>1, <1>2, <2>1, <2>2
            DEF HarnessEnds, Ending, SameBut, Stages, Stage, Try, recordVars, stopVars, daemonVars
<1>3. CASE Dies
  <2>1. PICK s \in stopAsked :
          /\ tries[s].at = "runs" \/ tries[s].left
          /\ tries' = [tries EXCEPT ![s] = [@ EXCEPT !.at = "ended", !.left = FALSE]]
    BY <1>3 DEF Dies, Alive
  <2>2. s \in Tries => [tries[s] EXCEPT !.at = "ended", !.left = FALSE] \in Try
    BY <1>1, <2>1 DEF Try
  <2>3. /\ UNCHANGED <<task, registry, recordVars, overtaken, swept>>
        /\ tries' \in [Tries -> Try]
    BY <1>1, <1>3, <2>1, <2>2 DEF Dies, recordVars, daemonVars
  <2>4. CASE s \notin Tries
    <3>1. tries' = tries
      BY <1>1, <2>1, <2>4
    <3>2. QED BY <2>3, <3>1 DEF Ending, SameBut, Stages, Stage
  <2>5. CASE s \in Tries
    <3>1. tries[s].at # "none"
      BY <2>1, <2>5 DEF Stages, Stage
    <3>2. QED BY <1>1, <2>1, <2>2, <2>3, <2>5, <3>1 DEF Ending, SameBut, Stages, Stage, Try
  <2>6. QED BY <2>4, <2>5
<1>4. CASE Sweep
  <2> DEFINE Ended(t) == [t EXCEPT !.at = IF @ = "runs" THEN "ended" ELSE @, !.left = FALSE]
  <2>1. \A t \in Try : Ended(t) \in Try /\ SameBut(Ended(t), t) /\ ~Ended(t).left
                       /\ Ended(t).at \in {t.at} \cup (IF t.at = "none" THEN {} ELSE {"ended"})
    BY DEF Try, SameBut
  <2>2. \A s \in Tries : tries'[s] \in {tries[s], Ended(tries[s])}
    BY <1>4 DEF Sweep
  <2>3. tries' \in [Tries -> Try]
    BY <1>1, <1>4, <2>1 DEF Sweep
  <2>4. UNCHANGED <<task, registry, recordVars, overtaken>> /\ swept' = TRUE
    BY <1>4 DEF Sweep
  <2>5. ASSUME NEW s \in Tries
        PROVE  /\ SameBut(tries'[s], tries[s])
               /\ tries'[s].at = tries[s].at \/ (tries[s].at # "none" /\ tries'[s].at = "ended")
               /\ tries'[s].left => tries'[s].at = "ended"
    <3>1. CASE tries'[s] = tries[s]
      BY <3>1 DEF SameBut, Stages, Stage
    <3>2. CASE tries'[s] = Ended(tries[s])
      <4>1. tries[s] \in Try
        BY <1>1
      <4> HIDE DEF Ended
      <4>2. QED BY <2>1, <3>2, <4>1
    <3>3. QED BY <2>2, <3>1, <3>2
  <2>6. QED BY <2>3, <2>4, <2>5 DEF Ending
<1>5. QED BY <1>2, <1>3, <1>4

\* The daemon dies: every try is of an old one, and its thread with it.
Dying ==
  /\ tries' \in [Tries -> Try]
  /\ \A s \in Tries :
       /\ tries'[s].old /\ tries'[s].turn = tries[s].turn /\ tries'[s].at = tries[s].at
       /\ tries'[s].left = tries[s].left /\ tries'[s].prompted = tries[s].prompted
       /\ tries'[s].ready = tries[s].ready /\ tries'[s].harness = tries[s].harness
       /\ tries'[s].thread = IF tries[s].thread = "none" THEN "none"
                             ELSE IF tries[s].thread = "spawns" THEN "failed" ELSE "over"

\* A death of the daemon ends the threads and leaves the processes.
LEMMA DyingSteps == ASSUME TriesShape, ProcessesDie PROVE Dying
<1> DEFINE Aged(t) == [t EXCEPT !.old = TRUE,
      !.thread = IF @ = "none" THEN @ ELSE IF @ = "spawns" THEN "failed" ELSE "over"]
<1>1. \A t \in Try : Aged(t) \in Try
  BY DEF Try
<1>2. tries' = [s \in Tries |-> Aged(tries[s])]
  BY DEF ProcessesDie
<1>3. \A s \in Tries : tries[s] \in Try
  BY DEF TriesShape
<1>4. \A s \in Tries : tries'[s] = Aged(tries[s])
  BY <1>2
<1>5. \A t \in Try :
        /\ Aged(t).old /\ Aged(t).turn = t.turn /\ Aged(t).at = t.at
        /\ Aged(t).left = t.left /\ Aged(t).prompted = t.prompted
        /\ Aged(t).ready = t.ready /\ Aged(t).harness = t.harness
        /\ Aged(t).thread = IF t.thread = "none" THEN "none"
                            ELSE IF t.thread = "spawns" THEN "failed" ELSE "over"
  BY DEF Try
<1>6. tries' \in [Tries -> Try]
  BY <1>1, <1>2, <1>3
<1> HIDE DEF Aged
<1>7. QED BY <1>3, <1>4, <1>5, <1>6 DEF Dying

\* A try begins: the next one, of the turn that runs.
Beginning(s) ==
  /\ task.at = "spawns" /\ s \in Tries /\ running # 0
  /\ \A k \in Tries : tries[k].turn # 0 <=> k < s
  /\ tries' \in [Tries -> Try] /\ \A k \in Tries \ {s} : tries'[k] = tries[k]
  /\ tries'[s].turn = running /\ tries'[s].thread = "spawns" /\ tries'[s].at = "none"
  /\ ~tries'[s].left /\ ~tries'[s].prompted /\ ~tries'[s].ready /\ ~tries'[s].old
  /\ tries'[s].report => task.before = "none" /\ ~task.reported
  /\ task' = [task EXCEPT !.at = "awaits", !.try = s]
  /\ UNCHANGED <<registry, recordVars, swept, overtaken>>

\* The task's start of a thread begins the next process in order.
LEMMA SpawnBegins ==
  ASSUME TaskShape, TriesShape, Filled, SpawnThread
  PROVE  \E s \in Tries : Beginning(s)
<1>1. PICK n \in 0 .. MaxTries : {k \in Tries : tries[k].turn # 0} = 1 .. n
  BY DEF Filled
<1>2. n \in Nat /\ MaxTries \in Nat
  BY <1>1, ProcessBounds
<1>3. Started = n
  <2>1. Cardinality(1 .. n) = n
    BY <1>2, FS_Interval
  <2>2. QED BY <1>1, <2>1 DEF Started
<1>4. n + 1 \in Tries /\ \A k \in Tries : tries[k].turn # 0 <=> k < n + 1
  BY <1>1, <1>2, <1>3 DEF SpawnThread, Tries
<1>5. PICK report \in BOOLEAN :
        /\ report => task.before = "none" /\ ~task.reported
        /\ tries' = [tries EXCEPT ![n + 1] =
             [NoTry EXCEPT !.turn = running, !.thread = "spawns",
                           !.scope = task.scope, !.report = report]]
        /\ task' = [task EXCEPT !.at = "awaits", !.try = n + 1]
  BY <1>3 DEF SpawnThread
<1> DEFINE new == [NoTry EXCEPT !.turn = running, !.thread = "spawns",
                                !.scope = task.scope, !.report = report]
<1>6. /\ new \in Try /\ new.turn = running /\ new.thread = "spawns" /\ new.at = "none"
      /\ ~new.left /\ ~new.prompted /\ ~new.ready /\ ~new.old /\ (new.report => report)
  <2>1. running \in Nat /\ task.scope \in BOOLEAN
    BY DEF TaskShape, Task
  <2>2. /\ NoTry \in Try /\ NoTry.at = "none" /\ ~NoTry.left /\ ~NoTry.prompted
        /\ ~NoTry.ready /\ ~NoTry.old
    BY DEF NoTry, Try
  <2>3. QED BY <2>1, <2>2 DEF Try
<1>7. tries' \in [Tries -> Try] /\ tries'[n + 1] = new /\ \A k \in Tries \ {n + 1} : tries'[k] = tries[k]
  BY <1>4, <1>5, <1>6 DEF TriesShape
<1>8. running # 0 /\ task.at = "spawns"
  BY DEF SpawnThread, TaskShape
<1>9. UNCHANGED <<registry, recordVars, swept, overtaken>>
  BY DEF SpawnThread, daemonVars
<1> HIDE DEF new
<1>10. QED BY <1>4, <1>5, <1>6, <1>7, <1>8, <1>9 DEF Beginning

\* A thread takes a step: one try changes, and keeps what it was started for.
Threading(s) ==
  /\ s \in Tries
  /\ tries' \in [Tries -> Try] /\ \A k \in Tries \ {s} : tries'[k] = tries[k]
  /\ tries'[s].turn = tries[s].turn /\ tries'[s].old = tries[s].old
  /\ tries'[s].scope = tries[s].scope /\ tries'[s].left = tries[s].left
  /\ tries'[s].report = tries[s].report
  /\ <<tries[s].thread, tries'[s].thread>> \in
       {<<"spawns", "inserts">>, <<"spawns", "failed">>, <<"inserts", "reports">>,
        <<"reports", "hands">>, <<"hands", "writes">>, <<"hands", "waits">>,
        <<"writes", "waits">>, <<"waits", "over">>}
  /\ tries'[s].at = IF tries'[s].thread = "inserts" THEN "runs" ELSE tries[s].at
  /\ tries[s].thread = "waits" => tries[s].at = "ended"
  /\ tries[s].thread # "spawns" => tries'[s].harness = tries[s].harness
  /\ tries'[s].ready = (tries[s].ready \/ tries[s].thread = "hands")
  /\ tries'[s].prompted => \/ tries[s].prompted
                           \/ tries[s].thread = "writes" /\ tries[s].harness
  /\ tries'[s].thread = "reports" => ThreadInserts

\* Every step of a thread is one of these.
LEMMA ThreadStep ==
  ASSUME TriesShape, ThreadSteps
  PROVE  \E s \in Tries : Threading(s)
<1> USE DEF TriesShape
<1>1. CASE ThreadSpawns
  <2>1. PICK s \in Tries, there \in BOOLEAN :
          /\ tries[s].thread = "spawns"
          /\ tries' = [tries EXCEPT ![s] = [@ EXCEPT !.thread = "inserts", !.at = "runs",
                                                     !.harness = there]]
    BY <1>1 DEF ThreadSpawns
  <2>2. [tries[s] EXCEPT !.thread = "inserts", !.at = "runs", !.harness = there] \in Try
    BY <2>1 DEF Try
  <2>3. QED BY <2>1, <2>2 DEF Threading, Try
<1>2. CASE ThreadFails
  BY <1>2 DEF ThreadFails, To_, Threading, Try
<1>3. CASE ThreadInserts
  <2>1. PICK s \in Tries :
          tries[s].thread = "inserts" /\ tries' = [tries EXCEPT ![s].thread = "reports"]
    BY <1>3 DEF ThreadInserts, To_
  <2>2. QED BY <1>3, <2>1 DEF Threading, Try
<1>4. CASE ThreadReports
  <2>1. PICK s \in Tries, stopped \in BOOLEAN :
          /\ tries[s].thread = "reports"
          /\ tries' = [tries EXCEPT ![s] = [@ EXCEPT !.thread = "hands", !.stopped = stopped]]
    <3>1. PICK s \in Tries :
            /\ tries[s].thread = "reports"
            /\ tries' = [tries EXCEPT ![s] = [@ EXCEPT !.thread = "hands",
                                                       !.stopped = tries[s].turn \in stoppedRuns]]
      BY <1>4 DEF ThreadReports
    <3>2. (tries[s].turn \in stoppedRuns) \in BOOLEAN
      OBVIOUS
    <3>3. QED BY ONLY <3>1, <3>2, Zenon
  <2>2. [tries[s] EXCEPT !.thread = "hands", !.stopped = stopped] \in Try
    BY <2>1 DEF Try
  <2>3. QED BY <2>1, <2>2 DEF Threading, Try
<1>5. CASE ThreadHands
  <2>1. PICK s \in Tries, next \in {"writes", "waits"} :
          /\ tries[s].thread = "hands"
          /\ tries' = [tries EXCEPT ![s] = [@ EXCEPT !.thread = next, !.ready = TRUE]]
    BY <1>5 DEF ThreadHands
  <2>2. [tries[s] EXCEPT !.thread = next, !.ready = TRUE] \in Try
    BY <2>1 DEF Try
  <2>3. QED BY <2>1, <2>2 DEF Threading, Try
<1>6. CASE ThreadWrites
  <2>1. PICK s \in Tries, given \in BOOLEAN :
          /\ tries[s].thread = "writes" /\ (given => tries[s].harness)
          /\ tries' = [tries EXCEPT ![s] = [@ EXCEPT !.thread = "waits", !.prompted = given]]
    BY <1>6 DEF ThreadWrites, Alive
  <2>2. [tries[s] EXCEPT !.thread = "waits", !.prompted = given] \in Try
    BY <2>1 DEF Try
  <2>3. QED BY <2>1, <2>2 DEF Threading, Try
<1>7. CASE ThreadWaits
  BY <1>7 DEF ThreadWaits, To_, Threading, Try
<1>8. QED BY <1>1, <1>2, <1>3, <1>4, <1>5, <1>6, <1>7 DEF ThreadSteps
-----------------------------------------------------------------------------
(* The invariant, part by part.                                            *)

\* The processes keep their shape.
LEMMA TriesKeepShape ==
  ASSUME Shape, Stages, Filled, ProcessNext
  PROVE  TriesShape'
<1>1. CASE TaskSteps \/ Stopping
  BY <1>1, TaskStepsApart DEF ProcessesApart, Shape, TriesShape
<1>2. CASE HarnessEnds \/ Dies \/ Sweep
  BY <1>2, EndingSteps DEF Ending, TriesShape
<1>3. CASE SpawnThread
  BY <1>3, SpawnBegins DEF Beginning, Shape, TriesShape
<1>4. CASE ThreadSteps
  BY <1>4, ThreadStep DEF Threading, Shape, TriesShape
<1>5. CASE ProcessesDie
  BY <1>5, DyingSteps DEF Dying, Shape, TriesShape
<1>6. QED BY <1>1, <1>2, <1>3, <1>4, <1>5 DEF ProcessNext, TaskSteps, Stopping, StopSteps

\* A process and its thread go through their stages in order.
LEMMA StagesKept ==
  ASSUME Shape, Stages, Filled, SweptInv, ProcessNext
  PROVE  Stages'
<1>1. runs \in Nat /\ running \in {0, runs} /\ \A s \in Tries : tries[s] \in Try
  BY DEF Shape, TaskShape, TriesShape
<1>2. CASE TaskSteps \/ Stopping
  BY <1>1, <1>2, TaskStepsApart DEF ProcessesApart, Stages, Stage, Try
<1>3. CASE HarnessEnds \/ Dies \/ Sweep
  <2>1. Ending /\ runs' = runs
    BY <1>3, EndingSteps DEF Ending, recordVars
  <2>2. ASSUME NEW s \in Tries PROVE Stage(s)'
    <3>1. tries[s] \in Try /\ Stage(s)
      BY <1>1 DEF Stages
    <3>2. QED BY <2>1, <3>1 DEF Ending, SameBut, Stage, Try
  <2>3. QED BY <2>2 DEF Stages
<1>4. CASE SpawnThread
  <2>1. PICK s \in Tries : Beginning(s)
    BY <1>4, SpawnBegins DEF Shape
  <2>2. runs' = runs /\ swept /\ swept' /\ running = runs
    BY <1>1, <2>1 DEF Beginning, SweptInv, recordVars
  <2>3. Stage(s)'
    BY <1>1, <2>1, <2>2 DEF Beginning, Stage
  <2>4. \A k \in Tries \ {s} : Stage(k)'
    BY <2>1, <2>2 DEF Beginning, Stages, Stage
  <2>5. QED BY <2>3, <2>4 DEF Stages
<1>5. CASE ThreadSteps
  <2>1. PICK s \in Tries : Threading(s)
    BY <1>5, ThreadStep DEF Shape
  <2>2. UNCHANGED <<runs, swept>>
    BY <1>5 DEF ThreadSteps, ThreadSpawns, ThreadFails, ThreadInserts, ThreadReports,
                ThreadHands, ThreadWrites, ThreadWaits, recordVars, daemonVars
  <2>3. QED BY <1>1, <2>1, <2>2 DEF Threading, Stages, Stage, Try
<1>6. CASE ProcessesDie
  <2>1. runs' = runs /\ Dying
    BY <1>6, DyingSteps DEF ProcessesDie, Shape
  <2>2. QED BY <1>1, <2>1 DEF Dying, Stages, Stage, Try
<1>7. QED BY <1>2, <1>3, <1>4, <1>5, <1>6 DEF ProcessNext, TaskSteps, Stopping, StopSteps

\* Only the next process in order begins.
LEMMA FilledKept ==
  ASSUME Shape, Stages, Filled, ProcessNext
  PROVE  Filled'
<1> DEFINE Full(f) == {s \in Tries : f[s].turn # 0}
<1>1. PICK n \in 0 .. MaxTries : Full(tries) = 1 .. n
  BY DEF Filled
<1>2. SUFFICES \/ \A s \in Tries : tries'[s].turn = tries[s].turn
               \/ \E s \in Tries : Beginning(s)
  <2>1. CASE \A s \in Tries : tries'[s].turn = tries[s].turn
    <3>1. Full(tries') = Full(tries)
      BY <2>1
    <3>2. QED BY <1>1, <3>1 DEF Filled
  <2>2. ASSUME NEW s \in Tries, Beginning(s) PROVE Filled'
    <3>1. MaxTries \in Nat /\ n \in Nat /\ s \in 1 .. MaxTries
      BY <1>1, ProcessBounds DEF Tries
    <3>2. \A k \in 1 .. MaxTries : k \in 1 .. n <=> k < s
      BY <1>1, <2>2 DEF Beginning, Tries
    <3>3. \A k \in 1 .. MaxTries : tries'[k].turn # 0 <=> (k = s \/ k < s)
      <4>1. tries'[s].turn # 0
        BY <2>2 DEF Beginning
      <4>2. \A k \in Tries \ {s} : tries'[k].turn # 0 <=> k < s
        BY <2>2 DEF Beginning
      <4>3. QED BY <3>1, <4>1, <4>2 DEF Tries
    <3>4. Full(tries') = 1 .. s
      BY <3>1, <3>3 DEF Tries
    <3>5. QED BY <3>1, <3>4 DEF Filled
  <2>3. QED BY <2>1, <2>2
<1>3. CASE TaskSteps \/ Stopping
  BY <1>3, TaskStepsApart DEF ProcessesApart
<1>4. CASE HarnessEnds \/ Dies \/ Sweep
  BY <1>4, EndingSteps DEF Ending, SameBut
<1>5. CASE SpawnThread
  BY <1>5, SpawnBegins DEF Shape
<1>6. CASE ThreadSteps
  BY <1>6, ThreadStep DEF Threading, Shape
<1>7. CASE ProcessesDie
  BY <1>7, DyingSteps DEF Dying, Shape
<1>8. QED BY <1>3, <1>4, <1>5, <1>6, <1>7 DEF ProcessNext, TaskSteps, Stopping, StopSteps

\* No turn gets past the sweep before it swept, and none starts an old one.
LEMMA SweptKept ==
  ASSUME Shape, Stages, Filled, SweptInv, ProcessNext
  PROVE  SweptInv'
<1>1. CASE TaskSteps \/ Stopping
  <2>1. ProcessesApart
    BY <1>1, TaskStepsApart
  <2>2. task'.at \in {"none", "sweep"} \/ swept
    <3>1. CASE RunStarts
      BY <3>1 DEF RunStarts, NoRun
    <3>2. CASE CutOff \/ HaltRun
      BY <3>2 DEF CutOff, HaltRun, NoRun
    <3>3. CASE Swept \/ Previous \/ PreviousGone
      BY <3>3 DEF Swept, Previous, PreviousGone, SweptInv
    <3>4. CASE SpawnFails \/ ReadBegins \/ ReadEnds
      BY <3>4 DEF SpawnFails, EndsWith, ReadBegins, ReadEnds, SweptInv, NoRun
    <3>5. CASE ReadWorks \/ ApplyReport \/ Stopping
      BY <3>5 DEF ReadWorks, ApplyReport, Stopping, HaltGets, HaltReturns, GuardDrops,
           DetachedEnds, SweptInv
    <3>6. QED BY <1>1, <3>1, <3>2, <3>3, <3>4, <3>5 DEF TaskSteps
  <2>3. QED BY <2>1, <2>2 DEF ProcessesApart, SweptInv, Alive
<1>2. CASE HarnessEnds \/ Dies
  <2>1. Ending /\ UNCHANGED <<task, swept>>
    BY <1>2, EndingSteps DEF HarnessEnds, Dies, Ending, daemonVars
  <2>2. QED BY <2>1 DEF Ending, SameBut, SweptInv, Alive
<1>3. CASE Sweep
  BY <1>3 DEF Sweep, SweptInv, Alive, Shape, TriesShape, Try
<1>4. CASE SpawnThread
  BY <1>4, SpawnBegins DEF Beginning, SweptInv, Alive, Shape, TaskShape, Task
<1>5. CASE ThreadSteps
  <2>1. PICK s \in Tries : Threading(s)
    BY <1>5, ThreadStep DEF Shape
  <2>2. UNCHANGED <<task, swept>>
    BY <1>5 DEF ThreadSteps, ThreadSpawns, ThreadFails, ThreadInserts, ThreadReports,
                ThreadHands, ThreadWrites, ThreadWaits, recordVars, daemonVars
  <2>3. ~tries[s].old
    BY <2>1 DEF Threading, Stages, Stage
  <2>4. QED BY <2>1, <2>2, <2>3 DEF Threading, SweptInv, Alive
<1>6. CASE ProcessesDie
  BY <1>6 DEF ProcessesDie, SweptInv, NoRun
<1>7. QED BY <1>1, <1>2, <1>3, <1>4, <1>5, <1>6 DEF ProcessNext, TaskSteps, Stopping, StopSteps

\* The task, the registry and the sweep keep their shape.
LEMMA TaskKeepsShape ==
  ASSUME Shape, Stages, Filled, ProcessNext
  PROVE  TaskShape'
<1>1. /\ runs \in Nat /\ running \in {0, runs} /\ task \in Task
      /\ task.at = "none" <=> running = 0
      /\ task.at \in Holding => task.try \in Tries
      /\ registry \in Tries \cup {0} /\ swept \in BOOLEAN /\ overtaken \in BOOLEAN
      /\ known \in Sessions /\ Tries \subseteq Nat
  BY ProcessBounds DEF Shape, TaskShape, TalkShape, Tries
<1>2. NoRun \in Task /\ NoRun.at = "none"
  BY DEF NoRun, Task, Sessions, Tries
<1>3. CASE RunStarts
  <2>1. task' = [NoRun EXCEPT !.at = "sweep", !.before = known]
    BY <1>3 DEF RunStarts
  <2>2. task' \in Task /\ task'.at = "sweep"
    BY <1>1, <1>2, <2>1 DEF Task
  <2>3. QED BY <1>1, <1>3, <2>2 DEF RunStarts, TaskShape, Holding, daemonVars
<1>4. CASE Swept \/ CutOff \/ ReadBegins \/ ReadWorks \/ ApplyReport
  BY <1>1, <1>2, <1>4 DEF Swept, CutOff, ReadBegins, ReadWorks, ApplyReport, TaskShape, Task,
     Holding, recordVars, stopVars, daemonVars
<1>5. CASE Previous
  <2>1. \/ registry # 0 /\ task' = [task EXCEPT !.at = "waits", !.try = registry]
        \/ task' = [task EXCEPT !.at = "spawns", !.scope = TRUE]
    BY <1>5 DEF Previous
  <2>2. task' \in Task /\ task'.at # "none" /\ (task'.at \in Holding => task'.try \in Tries)
    BY <1>1, <2>1 DEF Task, Holding
  <2>3. QED BY <1>1, <1>5, <2>2 DEF Previous, TaskShape, recordVars, daemonVars
<1>6. CASE PreviousGone
  BY <1>1, <1>6 DEF PreviousGone, Removed, TaskShape, Task, Holding, recordVars, daemonVars
<1>7. CASE SpawnFails \/ ReadEnds
  <2>1. \/ task' = NoRun /\ running' = 0
        \/ /\ running' = running
           /\ \E scope \in BOOLEAN : task' = [task EXCEPT !.at = "spawns", !.scope = scope]
    BY <1>7 DEF SpawnFails, ReadEnds, EndsWith
  <2>2. task' \in Task /\ task'.at \in {"none", "spawns"} /\ (task'.at = "none" <=> running' = 0)
    BY <1>1, <1>2, <1>7, <2>1 DEF Task, SpawnFails, ReadEnds
  <2>3. registry' \in {0, registry} /\ UNCHANGED <<runs, swept, overtaken>>
    BY <1>7 DEF SpawnFails, ReadEnds, Removed, daemonVars
  <2>4. QED BY <1>1, <2>1, <2>2, <2>3 DEF TaskShape, Holding
<1>8. CASE HaltRun \/ HaltGets \/ HaltReturns \/ GuardDrops \/ DetachedEnds
  BY <1>1, <1>2, <1>8 DEF HaltRun, HaltGets, HaltReturns, GuardDrops, DetachedEnds, Removed,
     TaskShape, Holding, recordVars, daemonVars
<1>9. CASE HarnessEnds \/ Dies \/ Sweep
  BY <1>1, <1>9, EndingSteps DEF Ending, TaskShape, recordVars
<1>10. CASE SpawnThread
  <2>1. PICK s \in Tries : Beginning(s)
    BY <1>10, SpawnBegins DEF Shape
  <2>2. task' \in Task /\ task'.at = "awaits" /\ task'.try = s
    BY <1>1, <2>1 DEF Beginning, Task
  <2>3. QED BY <1>1, <2>1, <2>2 DEF Beginning, TaskShape, recordVars
<1>11. CASE ThreadSteps
  BY <1>1, <1>11 DEF ThreadSteps, ThreadSpawns, ThreadFails, ThreadInserts, ThreadReports,
     ThreadHands, ThreadWrites, ThreadWaits, To_, TaskShape, recordVars, daemonVars
<1>12. CASE ProcessesDie
  <2>1. task' \in Task /\ task'.at \in {"none", "sweep"} /\ (task'.at = "none" <=> running = 0)
    BY <1>2, <1>12 DEF ProcessesDie, Task
  <2>2. QED BY <1>1, <1>12, <2>1 DEF ProcessesDie, TaskShape, Holding
<1>13. QED
  BY <1>3, <1>4, <1>5, <1>6, <1>7, <1>8, <1>9, <1>10, <1>11, <1>12 DEF ProcessNext, StopSteps

\* The sessions reported and recorded keep their shape.
LEMMA TalkKeepsShape ==
  ASSUME Shape, ProcessNext
  PROVE  TalkShape'
<1>1. /\ latest \in Sessions /\ known \in Sessions /\ updates \in Seq(Sessions)
      /\ worked \in BOOLEAN /\ task.before \in Sessions
  BY DEF Shape, TalkShape, TaskShape, Task
<1>2. CASE SpawnFails \/ ReadEnds
  <2>1. ASSUME NEW more \in Seq(Sessions), EndsWith(more)
        PROVE  known' \in Sessions /\ updates' = <<>>
    BY <1>1, <2>1 DEF EndsWith
  <2>2. <<task.before>> \in Seq(Sessions) /\ <<>> \in Seq(Sessions)
    BY <1>1
  <2>3. \/ UNCHANGED <<known, updates>>
        \/ EndsWith(<<task.before>>) \/ EndsWith(<<>>)
    BY <1>2 DEF SpawnFails, ReadEnds
  <2>4. UNCHANGED <<latest, worked>>
    BY <1>2 DEF SpawnFails, ReadEnds
  <2>5. QED BY <1>1, <2>1, <2>2, <2>3, <2>4 DEF TalkShape
<1>3. CASE RunStarts \/ CutOff \/ ReadWorks \/ ApplyReport \/ HaltRun \/ ThreadReports
  <2>1. CASE RunStarts
    BY <1>1, <2>1 DEF RunStarts, TalkShape, Sessions
  <2>2. CASE CutOff
    BY <1>1, <2>2 DEF CutOff, TalkShape
  <2>3. CASE ReadWorks
    BY <1>1, <2>3 DEF ReadWorks, TalkShape, Sessions
  <2>4. CASE ApplyReport
    BY <1>1, <2>4 DEF ApplyReport, TalkShape
  <2>5. CASE HaltRun
    BY <1>1, <2>5 DEF HaltRun, Kept, TalkShape
  <2>6. CASE ThreadReports
    BY <1>1, <2>6 DEF ThreadReports, TalkShape, Sessions
  <2>7. QED BY <1>3, <2>1, <2>2, <2>3, <2>4, <2>5, <2>6
<1>4. CASE ProcessesDie
  <2>1. (known = "known") \in BOOLEAN /\ "none" \in Sessions /\ <<>> \in Seq(Sessions)
    BY DEF Sessions
  <2>2. QED BY <1>1, <1>4, <2>1 DEF ProcessesDie, TalkShape
<1>5. CASE UNCHANGED recordVars
  BY <1>1, <1>5 DEF TalkShape, recordVars
<1>6. QED
  BY <1>2, <1>3, <1>4, <1>5 DEF ProcessNext, HarnessEnds, Sweep, Swept, Previous, PreviousGone,
     SpawnThread, ReadBegins, ThreadSteps, ThreadSpawns, ThreadFails, ThreadInserts, ThreadHands,
     ThreadWrites, ThreadWaits, StopSteps, HaltGets, HaltReturns, GuardDrops, DetachedEnds, Dies,
     recordVars

\* A turn starts a process only when no other of its own is about to start.
LEMMA InTurnKept ==
  ASSUME Shape, Stages, Filled, SweptInv, InTurn, Registered, ProcessNext
  PROVE  InTurn'
<1>1. /\ runs \in Nat /\ running \in {0, runs} /\ task \in Task
      /\ task.at = "none" <=> running = 0
      /\ task.at \in Holding => task.try \in Tries
      /\ registry \in Tries \cup {0} /\ Tries \subseteq Nat
      /\ \A s \in Tries : tries[s] \in Try /\ Stage(s)
  BY ProcessBounds DEF Shape, TaskShape, TriesShape, Stages, Tries
<1>2. CASE TaskSteps
  <2>1. UNCHANGED tries
    BY <1>2, TaskStepsApart DEF ProcessesApart
  <2>2. CASE RunStarts
    BY <1>1, <2>1, <2>2 DEF RunStarts, NoRun, InTurn, Holding, Stage, Try
  <2>3. CASE Swept \/ CutOff
    BY <1>1, <2>1, <2>3 DEF Swept, CutOff, NoRun, InTurn, Holding, Task, recordVars
  <2>4. CASE Previous
    <3>1. runs' = runs
      BY <2>4 DEF Previous, recordVars
    <3>2. CASE registry # 0
      <4>1. task'.at = "waits" /\ task'.try = registry
        BY <1>1, <2>4, <3>2 DEF Previous, Task
      <4>2. ~tries[registry].old /\ tries[registry].turn # 0
        BY <1>1, <3>2 DEF Registered, Stage, Registering
      <4>3. QED BY <2>1, <2>4, <3>1, <3>2, <4>1, <4>2 DEF Previous, InTurn, Holding
    <3>3. CASE registry = 0
      <4>1. task'.at = "spawns"
        BY <1>1, <2>4, <3>3 DEF Previous, Task
      <4>2. QED BY <2>1, <2>4, <3>1, <4>1 DEF Previous, InTurn, Holding
    <3>4. QED BY <3>2, <3>3
  <2>5. CASE PreviousGone
    BY <1>1, <2>1, <2>5 DEF PreviousGone, InTurn, Holding, Task, recordVars
  <2>6. CASE SpawnFails \/ ReadEnds
    <3>1. runs' = runs /\ task'.at \in {"none", "spawns"}
      <4>1. \/ task' = NoRun
            \/ \E scope \in BOOLEAN : task' = [task EXCEPT !.at = "spawns", !.scope = scope]
        BY <2>6 DEF SpawnFails, ReadEnds, EndsWith
      <4>2. runs' = runs
        BY <2>6 DEF SpawnFails, ReadEnds
      <4>3. NoRun.at = "none" /\ \A scope \in BOOLEAN :
              [task EXCEPT !.at = "spawns", !.scope = scope].at = "spawns"
        BY <1>1 DEF NoRun, Task
      <4>4. task'.at \in {"none", "spawns"}
        <5>1. CASE task' = NoRun
          BY <4>3, <5>1
        <5>2. ASSUME NEW scope \in BOOLEAN, task' = [task EXCEPT !.at = "spawns", !.scope = scope]
              PROVE  task'.at = "spawns"
          BY <4>3, <5>2
        <5>3. QED BY <4>1, <5>1, <5>2
      <4>5. QED BY <4>2, <4>4
    <3>2. \A s \in Tries : tries[s].thread \in Starting => tries[s].turn < runs
      <4> SUFFICES ASSUME NEW s \in Tries, tries[s].thread \in Starting
                   PROVE  tries[s].turn < runs
        OBVIOUS
      <4>1. task.at \in {"awaits", "reads"} /\ tries[task.try].thread \in {"failed", "over"}
        BY <2>6 DEF SpawnFails, ReadEnds, ExitSeen
      <4>2. s # task.try /\ tries[s].turn # 0 /\ task.try \in Tries
        BY <1>1, <4>1 DEF Starting, Stage, Holding
      <4>3. tries[task.try].turn = runs /\ ~(s > task.try)
        BY <4>1, <4>2 DEF InTurn
      <4>4. s \in Nat /\ task.try \in Nat
        BY <1>1, <4>2
      <4>5. task.try > s
        BY <4>2, <4>3, <4>4
      <4>6. tries[s].turn < tries[task.try].turn
        <5>1. tries[task.try].turn # 0
          BY <1>1, <4>1, <4>2 DEF Stage
        <5>2. QED BY <4>2, <4>5, <5>1 DEF InTurn
      <4>7. QED BY <4>3, <4>6
    <3>3. QED BY <2>1, <3>1, <3>2 DEF InTurn, Holding
  <2>7. CASE ReadBegins
    <3>1. task'.at = "reads" /\ task'.try = task.try /\ task.at = "awaits" /\ runs' = runs
      BY <1>1, <2>7 DEF ReadBegins, Task, recordVars
    <3>2. QED BY <2>1, <2>7, <3>1 DEF ReadBegins, InTurn, Holding
  <2>8. CASE ReadWorks \/ ApplyReport
    BY <2>1, <2>8 DEF ReadWorks, ApplyReport, InTurn
  <2>9. CASE HaltRun
    BY <2>1, <2>9 DEF HaltRun, NoRun, InTurn, Holding
  <2>10. QED BY <1>2, <2>2, <2>3, <2>4, <2>5, <2>6, <2>7, <2>8, <2>9 DEF TaskSteps
<1>3. CASE Stopping
  BY <1>3 DEF Stopping, HaltGets, HaltReturns, GuardDrops, DetachedEnds, InTurn, recordVars
<1>4. CASE HarnessEnds \/ Dies \/ Sweep
  <2>1. UNCHANGED <<task, runs>>
    BY <1>4, EndingSteps DEF Ending, recordVars
  <2>2. \A k \in Tries :
          /\ tries'[k].turn = tries[k].turn /\ tries'[k].old = tries[k].old
          /\ tries'[k].ready = tries[k].ready /\ tries'[k].thread = tries[k].thread
    BY <1>4, EndingSteps DEF Ending, SameBut
  <2>3. QED BY <1>1, <2>1, <2>2 DEF InTurn, Holding
<1>5. CASE SpawnThread
  <2>1. PICK s \in Tries : Beginning(s)
    BY <1>5, SpawnBegins DEF Shape
  <2>2. task'.at = "awaits" /\ task'.try = s /\ runs' = runs /\ running = runs
    BY <1>1, <2>1 DEF Beginning, Task, recordVars
  <2>3. \A k \in Tries : k > s => tries'[k].turn = 0
    BY <1>1, <2>1 DEF Beginning
  <2>4. \A q \in Tries : tries'[q].thread \in Starting /\ q # s => q < s /\ tries[q].turn < runs
    BY <1>1, <2>1 DEF Beginning, InTurn, Starting, Stage
  <2>5. \A q, k \in Tries :
          tries'[q].thread \in Starting /\ k > q /\ tries'[k].turn # 0
            => tries'[q].turn < tries'[k].turn
    BY <1>1, <2>1, <2>2, <2>3, <2>4 DEF Beginning, InTurn
  <2>6. QED BY <2>1, <2>2, <2>3, <2>5 DEF Beginning, InTurn, Holding
<1>6. CASE ThreadSteps
  <2>1. PICK s \in Tries : Threading(s)
    BY <1>6, ThreadStep DEF Shape
  <2>2. UNCHANGED <<task, runs>>
    BY <1>6 DEF ThreadSteps, ThreadSpawns, ThreadFails, ThreadInserts, ThreadReports,
                ThreadHands, ThreadWrites, ThreadWaits, recordVars
  <2>3. \A k \in Tries :
          /\ tries'[k].turn = tries[k].turn /\ tries'[k].old = tries[k].old
          /\ tries[k].ready => tries'[k].ready
          /\ tries'[k].thread \in Starting => tries[k].thread \in Starting
    BY <2>1 DEF Threading, Starting
  <2>4. QED BY <1>1, <2>2, <2>3 DEF InTurn, Holding
<1>7. CASE ProcessesDie
  <2>1. Dying /\ runs' = runs
    BY <1>7, DyingSteps DEF ProcessesDie, Shape
  <2>2. task'.at = "none" \/ (task'.at = "sweep" /\ task'.rewatch)
    BY <1>7 DEF ProcessesDie, NoRun
  <2>3. \A q \in Tries : tries'[q].thread \notin Starting
    BY <1>1, <2>1 DEF Dying, Try, Starting
  <2>4. QED BY <2>2, <2>3 DEF InTurn, Holding
<1>8. QED
  BY <1>2, <1>3, <1>4, <1>5, <1>6, <1>7 DEF ProcessNext, TaskSteps, Stopping, StopSteps

\* The registry forgets only a process whose exit was seen.
Forgets == registry' = registry \/ (registry' = 0 /\ registry # 0 /\ ExitSeen(registry))

\* Removing a process whose exit was seen is all that empties the registry.
LEMMA RemovedForgets ==
  ASSUME NEW s, ExitSeen(s), Removed(s)
  PROVE  Forgets /\ (s # 0 => registry' # s)
BY DEF Removed, Forgets

\* A process that registers finds the registry empty or naming an earlier
\* one that is over, unless the next turn looked before.
LEMMA RegisteredKept ==
  ASSUME Shape, Stages, Filled, InTurn, Registered, ProcessNext
  PROVE  Registered'
<1>1. /\ runs \in Nat /\ running \in {0, runs} /\ task \in Task
      /\ task.at \in Holding => task.try \in Tries
      /\ registry \in Tries \cup {0} /\ Tries \subseteq Nat
      /\ \A s \in Tries : tries[s] \in Try /\ Stage(s)
  BY ProcessBounds DEF Shape, TaskShape, TriesShape, Stages, Tries
<1>2. ASSUME UNCHANGED <<task, overtaken>>, Forgets,
             \A s \in Tries : tries'[s].thread = tries[s].thread /\ tries'[s].old = tries[s].old
      PROVE  Registered'
  BY <1>1, <1>2 DEF Forgets, ExitSeen, Registered, Registering
<1>3. CASE HarnessEnds \/ Dies \/ Sweep
  <2>1. UNCHANGED <<task, overtaken>> /\ Forgets
    BY <1>3, EndingSteps DEF Ending, Forgets
  <2>2. \A s \in Tries : tries'[s].thread = tries[s].thread /\ tries'[s].old = tries[s].old
    BY <1>3, EndingSteps DEF Ending, SameBut
  <2>3. QED BY <1>2, <2>1, <2>2
<1>4. CASE ReadWorks \/ ApplyReport \/ HaltGets
  BY <1>2, <1>4 DEF ReadWorks, ApplyReport, HaltGets, Forgets, daemonVars
<1>5. CASE HaltReturns \/ GuardDrops \/ DetachedEnds
  <2>1. UNCHANGED <<tries, task, overtaken>>
    BY <1>5 DEF HaltReturns, GuardDrops, DetachedEnds, daemonVars
  <2>2. registry' = registry \/ \E s : ExitSeen(s) /\ Removed(s)
    BY <1>5 DEF HaltReturns, GuardDrops, DetachedEnds, Gone
  <2>3. Forgets
    <3>1. ASSUME NEW s, ExitSeen(s), Removed(s) PROVE Forgets
      BY <3>1, RemovedForgets
    <3>2. CASE registry' = registry
      BY <3>2 DEF Forgets
    <3>3. QED BY <2>2, <3>1, <3>2
  <2>4. QED BY <1>2, <2>1, <2>3
<1>6. CASE RunStarts \/ Swept \/ CutOff \/ HaltRun \/ ReadBegins
  <2>1. UNCHANGED <<tries, registry, overtaken>>
    BY <1>6 DEF RunStarts, Swept, CutOff, HaltRun, ReadBegins, daemonVars
  <2>2. \/ task'.at \in {"none", "sweep", "previous"}
        \/ task.at = "awaits" /\ task'.at = "reads" /\ task'.try = task.try
    <3>1. CASE RunStarts
      BY <3>1 DEF RunStarts, NoRun
    <3>2. CASE Swept
      BY <1>1, <3>2 DEF Swept, Task
    <3>3. CASE CutOff \/ HaltRun
      BY <3>3 DEF CutOff, HaltRun, NoRun
    <3>4. CASE ReadBegins
      BY <1>1, <3>4 DEF ReadBegins, Task
    <3>5. QED BY <1>6, <3>1, <3>2, <3>3, <3>4
  <2>3. QED BY <2>1, <2>2 DEF Registered, Holding
<1>7. CASE Previous
  <2>1. UNCHANGED <<tries, registry, overtaken>>
    BY <1>7 DEF Previous, daemonVars
  <2>2. CASE registry # 0
    <3>1. task'.at = "waits" /\ task'.try = registry
      BY <1>1, <1>7, <2>2 DEF Previous, Task
    <3>2. QED BY <2>1, <2>2, <3>1 DEF Registered, Holding
  <2>3. CASE registry = 0
    <3>1. task'.at = "spawns"
      BY <1>1, <1>7, <2>3 DEF Previous, Task
    <3>2. QED BY <2>1, <2>3, <3>1 DEF Registered, Holding
  <2>4. QED BY <2>2, <2>3
<1>8. CASE PreviousGone \/ ReadEnds
  <2>1. UNCHANGED <<tries, overtaken>> /\ ExitSeen(task.try) /\ Removed(task.try)
    BY <1>8 DEF PreviousGone, ReadEnds, Gone, daemonVars
  <2>2. task.at \in Holding
    BY <1>8 DEF PreviousGone, ReadEnds, Holding
  <2>3. Forgets /\ registry' # task.try
    <3>1. task.try # 0
      BY <1>1, <2>2, ProcessBounds DEF Tries
    <3>2. QED BY <2>1, <3>1, RemovedForgets
  <2>4. task'.at \in {"none", "spawns"}
    <3>1. \/ task' = NoRun
          \/ \E scope \in BOOLEAN : task' = [task EXCEPT !.at = "spawns", !.scope = scope]
      BY <1>8 DEF PreviousGone, ReadEnds, EndsWith
    <3>2. NoRun.at = "none" /\ \A scope \in BOOLEAN :
            [task EXCEPT !.at = "spawns", !.scope = scope].at = "spawns"
      BY <1>1 DEF NoRun, Task
    <3>3. QED BY <3>1, <3>2, Zenon
  <2>5. QED BY <2>1, <2>2, <2>3, <2>4 DEF Registered, Forgets, ExitSeen, Holding, Registering
<1>9. CASE SpawnFails
  <2>1. UNCHANGED <<tries, registry, overtaken>> /\ task.at = "awaits"
        /\ tries[task.try].thread = "failed"
    BY <1>9 DEF SpawnFails, daemonVars
  <2>2. ~overtaken => registry = 0
    BY <2>1 DEF Registered, Holding, Registering
  <2>3. task'.at \in {"none", "spawns"}
    <3>1. CASE task.scope
      BY <1>1, <1>9, <3>1 DEF SpawnFails, Task
    <3>2. CASE ~task.scope
      BY <1>9, <3>2 DEF SpawnFails, EndsWith, NoRun
    <3>3. QED BY <3>1, <3>2
  <2>4. QED BY <2>1, <2>2, <2>3 DEF Registered, Holding
<1>10. CASE SpawnThread
  <2>1. PICK s \in Tries : Beginning(s)
    BY <1>10, SpawnBegins DEF Shape
  <2>2. UNCHANGED <<registry, overtaken>> /\ task'.at = "awaits" /\ (~overtaken => registry = 0)
    BY <1>1, <2>1 DEF Beginning, Task, Registered
  <2>3. registry # 0 => registry # s
    BY <1>1, <2>1 DEF Beginning, Registered, Registering, Stage
  <2>4. QED BY <1>1, <2>1, <2>2, <2>3 DEF Beginning, Registered, Registering, Starting, Holding
<1>11. CASE ThreadInserts
  <2>1. PICK s \in Tries :
          /\ tries[s].thread = "inserts" /\ To_(s, "reports")
          /\ registry' = s /\ overtaken' = (overtaken \/ NextLooked(s)) /\ task' = task
    BY <1>11 DEF ThreadInserts
  <2>2. /\ tries'[s].thread = "reports" /\ tries'[s].old = tries[s].old
        /\ \A k \in Tries \ {s} : tries'[k] = tries[k]
    BY <1>1, <2>1 DEF To_, Shape, TriesShape, Try
  <2>3. ~tries[s].old /\ tries[s].turn # 0
    BY <1>1, <2>1 DEF Stage
  <2>4. SUFFICES ASSUME ~overtaken'
        PROVE  /\ \A k \in Tries \ {s} : tries[k].thread \notin Registering
               /\ task.at \notin {"spawns", "waits"}
               /\ task.at \in Holding => s = task.try
               /\ \A q \in Tries \ {s} : tries[q].thread \in Starting => q < s
    BY <2>1, <2>2, <2>3, <2>4 DEF Registered, Registering, Starting, Holding
  <2>5. ~overtaken /\ ~NextLooked(s)
    BY <2>1, <2>4
  <2>6. \A k \in Tries : tries[k].turn # 0 => ~(k > s)
    BY <1>1, <2>1, <2>5 DEF InTurn, Starting, NextLooked
  <2>7. s \in Nat /\ \A k \in Tries : k \in Nat /\ (tries[k].turn # 0 /\ k # s => k < s)
    BY <1>1, <2>6
  <2>8. ASSUME NEW k \in Tries, k # s, tries[k].thread \in Registering PROVE FALSE
    <3>1. registry = k /\ k # 0
      BY <2>5, <2>8, ProcessBounds DEF Registered, Tries
    <3>2. s < k
      BY <2>1, <2>5, <3>1 DEF Registered, Starting
    <3>3. tries[k].turn # 0
      BY <1>1, <2>8 DEF Stage, Registering
    <3>4. QED BY <2>7, <2>8, <3>2, <3>3
  <2>9. task.at # "spawns"
    BY <1>1, <2>1, <2>5 DEF InTurn, Starting, NextLooked
  <2>10. task.at # "waits"
    <3>1. task.at = "waits" => s < task.try /\ tries[task.try].turn # 0 /\ task.try \in Tries
      <4>1. task.at = "waits" => s < task.try
        BY <2>1, <2>5 DEF Registered, Starting
      <4>2. task.at = "waits" => tries[task.try].turn # 0 /\ task.try \in Tries
        BY <1>1 DEF InTurn, Holding
      <4>3. QED BY <4>1, <4>2
    <3>2. task.at = "waits" => task.try # s /\ s \in Nat /\ task.try \in Nat
      BY <2>7, <3>1
    <3>3. QED BY <2>7, <3>1, <3>2
  <2>11. task.at \in Holding => s = task.try
    <3>1. CASE task.at \in {"awaits", "reads"}
      <4>1. task.try \in Tries /\ tries[task.try].turn # 0 /\ ~(s > task.try)
        BY <1>1, <2>3, <3>1 DEF InTurn, Holding
      <4>2. QED BY <2>7, <4>1
    <3>2. QED BY <2>10, <3>1 DEF Holding
  <2>12. \A q \in Tries \ {s} : tries[q].thread \in Starting => q < s
    BY <1>1, <2>7 DEF Starting, Stage
  <2>13. QED BY <2>8, <2>9, <2>10, <2>11, <2>12
<1>12. CASE ThreadSteps /\ ~ThreadInserts
  <2>1. PICK s \in Tries : Threading(s)
    BY <1>12, ThreadStep DEF Shape
  <2>2. UNCHANGED <<task, registry, overtaken>>
    BY <1>12 DEF ThreadSteps, ThreadSpawns, ThreadFails, ThreadReports, ThreadHands,
                 ThreadWrites, ThreadWaits, daemonVars
  <2>3. tries'[s].thread # "reports"
    BY <1>12, <2>1 DEF Threading
  <2>4. QED BY <1>1, <2>1, <2>2, <2>3 DEF Threading, Registered, Registering, Starting, Holding
<1>13. CASE ProcessesDie
  <2>1. registry' = 0 /\ task'.at \in {"none", "sweep"}
    BY <1>13 DEF ProcessesDie, NoRun
  <2>2. \A s \in Tries : tries'[s].thread \in {"none", "failed", "over"}
    BY <1>13, DyingSteps DEF Dying, Shape
  <2>3. QED BY <2>1, <2>2 DEF Registered, Registering, Starting, Holding
<1>14. QED
  BY <1>3, <1>4, <1>5, <1>6, <1>7, <1>8, <1>9, <1>10, <1>11, <1>12, <1>13
  DEF ProcessNext, StopSteps

\* A report becomes the newest; applying one does not change the newest.
LEMMA NewestMoves ==
  ASSUME Shape, NEW id \in Sessions
  PROVE  /\ known' = known /\ updates' = Append(updates, id) => Newest' = id
         /\ updates # <<>> /\ known' = Head(updates) /\ updates' = Tail(updates)
              => Newest' = Newest
<1>1. updates \in Seq(Sessions)
  BY DEF Shape, TalkShape
<1>2. ASSUME updates' = Append(updates, id) PROVE Newest' = id
  <2>1. updates' # <<>> /\ updates'[Len(updates')] = id
    BY <1>1, <1>2
  <2>2. QED BY <2>1 DEF Newest
<1>3. ASSUME updates # <<>>, known' = Head(updates), updates' = Tail(updates)
      PROVE  Newest' = Newest
  <2>1. CASE Len(updates) = 1
    <3>1. updates' = <<>> /\ updates[Len(updates)] = Head(updates)
      BY <1>1, <1>3, <2>1
    <3>2. QED BY <1>3, <3>1 DEF Newest
  <2>2. CASE Len(updates) # 1
    <3>1. Len(updates) \in Nat /\ Len(updates) - 1 \in 1 .. Len(updates) - 1
      <4>1. Len(updates) \in Nat /\ Len(updates) # 0
        BY <1>1, <1>3, EmptySeq
      <4>2. \A n \in Nat : n # 0 /\ n # 1 => n - 1 \in 1 .. n - 1
        OBVIOUS
      <4>3. QED BY <2>2, <4>1, <4>2
    <3>2. Len(updates') = Len(updates) - 1
      BY <1>1, <1>3
    <3>3. updates'[Len(updates) - 1] = updates[Len(updates)]
      BY <1>1, <1>3, <3>1
    <3>4. updates' # <<>>
      BY <3>1, <3>2
    <3>5. QED BY <1>3, <3>2, <3>3, <3>4 DEF Newest
  <2>3. QED BY <2>1, <2>2
<1>4. QED BY <1>2, <1>3

\* A process that will report its session, and did not yet.
Untold(s) == tries[s].report /\ tries[s].turn = running
             /\ tries[s].thread \in {"spawns", "inserts", "reports"}

\* A pending session is reported before any work, and never after it.
LEMMA ConfirmedKept ==
  ASSUME Shape, Stages, Filled, InTurn, Confirmed, ProcessNext
  PROVE  Confirmed'
<1>1. /\ runs \in Nat /\ running \in {0, runs} /\ task \in Task
      /\ task.at = "none" <=> running = 0
      /\ task.at \in Holding => task.try \in Tries
      /\ \A s \in Tries : tries[s] \in Try /\ Stage(s)
  BY DEF Shape, TaskShape, TriesShape, Stages
<1>2. /\ latest \in Sessions /\ known \in Sessions /\ updates \in Seq(Sessions)
      /\ worked \in BOOLEAN
  BY DEF Shape, TalkShape
<1>3. \A s \in Tries : Untold(s) =>
        task.at = "awaits" /\ task.try = s /\ task.before = "none" /\ running # 0
  BY <1>1 DEF Confirmed, Untold, Stage
<1>4. ASSUME running' = 0, \A s \in Tries : tries'[s] = tries[s], worked' = worked,
             worked => known' = "known"
      PROVE  Confirmed'
  BY <1>1, <1>4 DEF Confirmed, WorkedIsKnown, Stage
<1>5. running # 0 /\ task.rewatch => task.at = "sweep"
  BY DEF Confirmed
\* Steps that say nothing of the session.
<1>6. ASSUME UNCHANGED recordVars,
             task'.before = task.before /\ task'.rewatch = task.rewatch,
             running # 0 /\ task.rewatch => task'.at = "sweep",
             task.at = "reads" /\ tries[task.try].harness
               => task'.at = "reads" /\ tries'[task'.try].harness,
             \A s \in Tries : Untold(s)' => task'.at = "awaits" /\ task'.try = s
                                            /\ task'.before = "none"
      PROVE  Confirmed'
  BY <1>6 DEF Confirmed, WorkedIsKnown, Untold, Newest, recordVars
<1>7. CASE HarnessEnds \/ Dies \/ Sweep
  <2>1. UNCHANGED <<task, recordVars>> /\ \A s \in Tries : SameBut(tries'[s], tries[s])
    BY <1>7, EndingSteps DEF Ending
  <2>2. \A s \in Tries : Untold(s)' => Untold(s)
    BY <2>1 DEF SameBut, Untold, recordVars
  <2>3. task.at = "reads" => tries'[task.try].harness = tries[task.try].harness
    BY <1>1, <2>1 DEF SameBut, Holding
  <2>4. QED BY <1>3, <1>5, <1>6, <2>1, <2>2, <2>3
<1>8. CASE Swept \/ Previous \/ PreviousGone
  <2>1. UNCHANGED <<tries, recordVars>> /\ task.at \in {"sweep", "previous", "waits"}
    BY <1>8 DEF Swept, Previous, PreviousGone
  <2>2. task'.before = task.before /\ task'.rewatch = task.rewatch
    <3>1. CASE Swept
      BY <1>1, <3>1 DEF Swept, Task
    <3>2. CASE Previous
      BY <1>1, <3>2 DEF Previous, Task
    <3>3. CASE PreviousGone
      BY <1>1, <3>3 DEF PreviousGone, Task
    <3>4. QED BY <1>8, <3>1, <3>2, <3>3
  <2>3. ~(running # 0 /\ task.rewatch)
    BY <1>5, <1>8 DEF Swept, Previous, PreviousGone
  <2>4. \A s \in Tries : ~Untold(s)'
    BY <1>3, <2>1 DEF Untold, recordVars
  <2>5. QED BY <1>6, <2>1, <2>2, <2>3, <2>4
<1>9. CASE SpawnThread
  <2>1. PICK s \in Tries : Beginning(s)
    BY <1>9, SpawnBegins DEF Shape
  <2>2. /\ task'.at = "awaits" /\ task'.try = s /\ task.at = "spawns"
        /\ task'.before = task.before /\ task'.rewatch = task.rewatch
        /\ UNCHANGED recordVars
    BY <1>1, <2>1 DEF Beginning, Task
  <2>3. \A k \in Tries \ {s} : ~Untold(k)'
    BY <1>3, <2>1, <2>2 DEF Beginning, Untold, recordVars
  <2>4. Untold(s)' => task.before = "none"
    BY <2>1 DEF Beginning, Untold
  <2>5. QED BY <1>5, <1>6, <2>2, <2>3, <2>4
<1>10. CASE ReadBegins
  <2>1. /\ task'.at = "reads" /\ task.at = "awaits" /\ tries[task.try].ready
        /\ task'.before = task.before /\ task'.rewatch = task.rewatch
        /\ UNCHANGED <<tries, recordVars>>
    BY <1>1, <1>10 DEF ReadBegins, Task
  <2>2. \A s \in Tries : ~Untold(s)'
    BY <1>1, <1>3, <2>1 DEF Untold, Stage, recordVars
  <2>3. QED BY <1>5, <1>6, <2>1, <2>2
<1>11. CASE ThreadSteps /\ ~ThreadReports
  <2>1. PICK s \in Tries : Threading(s)
    BY <1>11, ThreadStep DEF Shape
  <2>2. UNCHANGED <<task, recordVars>>
    BY <1>11 DEF ThreadSteps, ThreadSpawns, ThreadFails, ThreadInserts, ThreadHands,
                 ThreadWrites, ThreadWaits
  <2>3. \A k \in Tries : Untold(k)' => Untold(k)
    BY <2>1, <2>2 DEF Threading, Untold, recordVars
  <2>4. task.at = "reads" => tries[task.try].ready /\ task.try \in Tries
    BY <1>1 DEF InTurn, Holding
  <2>5. task.at = "reads" => tries'[task.try].harness = tries[task.try].harness
    BY <1>1, <2>1, <2>4 DEF Threading, Stage
  <2>6. QED BY <1>3, <1>5, <1>6, <2>2, <2>3, <2>5
<1>12. CASE HaltGets \/ HaltReturns \/ GuardDrops \/ DetachedEnds
  <2>1. UNCHANGED <<task, tries, recordVars>>
    BY <1>12 DEF HaltGets, HaltReturns, GuardDrops, DetachedEnds, recordVars
  <2>2. QED BY <1>3, <1>5, <1>6, <2>1 DEF Untold, recordVars
\* Steps that do, or that begin or end a turn.
<1>13. CASE RunStarts
  <2>1. /\ running' = runs + 1 /\ latest' = "none" /\ updates' = <<>>
        /\ UNCHANGED <<tries, known, worked>> /\ running = 0
    BY <1>13 DEF RunStarts
  <2>2. task'.at = "sweep" /\ task'.before = known /\ ~task'.rewatch
    BY <1>13 DEF RunStarts, NoRun
  <2>3. \A s \in Tries : ~Untold(s)'
    BY <1>1, <2>1 DEF Untold, Stage, Try
  <2>4. QED BY <2>1, <2>2, <2>3 DEF Confirmed, WorkedIsKnown, Untold, Newest
<1>14. CASE CutOff
  <2>1. worked => known = "known"
    BY <1>1, <1>14 DEF CutOff, Confirmed, WorkedIsKnown, Newest
  <2>2. QED BY <1>4, <1>14, <2>1 DEF CutOff
<1>15. CASE SpawnFails
  <2>1. /\ task.at = "awaits" /\ tries[task.try].thread = "failed" /\ running # 0
        /\ UNCHANGED <<tries, latest, worked>>
    BY <1>1, <1>15 DEF SpawnFails
  <2>2. worked => task.before = "known"
    BY <1>5, <2>1 DEF Confirmed
  <2>3. \A s \in Tries : ~Untold(s)
    BY <1>3, <2>1 DEF Untold
  <2>4. CASE task.scope
    <3>1. /\ task'.at = "spawns" /\ UNCHANGED recordVars
          /\ task'.before = task.before /\ task'.rewatch = task.rewatch
      BY <1>1, <1>15, <2>4 DEF SpawnFails, Task, recordVars
    <3>2. QED BY <1>5, <1>6, <2>1, <2>3, <3>1 DEF Untold, recordVars
  <2>5. CASE ~task.scope
    <3>1. /\ running' = 0
          /\ task.before = "known" => known' = IF updates = <<>> THEN known
                                                ELSE updates[Len(updates)]
      BY <1>2, <1>15, <2>5 DEF SpawnFails, EndsWith
    <3>2. worked => known' = "known"
      BY <2>1, <2>2, <3>1 DEF Confirmed, Newest
    <3>3. QED BY <1>4, <2>1, <3>1, <3>2
  <2>6. QED BY <2>4, <2>5
<1>16. CASE ReadWorks
  <2>1. /\ task.at = "reads" /\ tries[task.try].harness /\ running # 0
        /\ UNCHANGED <<task, tries, running, known>> /\ worked'
    BY <1>1, <1>16 DEF ReadWorks, Stage, Holding
  <2>2. \/ "known" \in {task.before, latest} /\ UNCHANGED <<latest, updates>>
        \/ latest' = "known" /\ updates' = Append(updates, "known")
    BY <1>16 DEF ReadWorks
  <2>3. Newest' = "known" /\ (latest' # "none" => latest' = "known" \/ latest' = latest)
        /\ (latest' = "none" => updates' = <<>>) /\ (latest' # "none" => Newest' = latest')
    <3>1. CASE "known" \in {task.before, latest} /\ UNCHANGED <<latest, updates>>
      BY <2>1, <3>1 DEF Confirmed, Newest
    <3>2. CASE latest' = "known" /\ updates' = Append(updates, "known")
      BY <2>1, <3>2, NewestMoves DEF Sessions
    <3>3. QED BY <2>2, <3>1, <3>2
  <2>4. ~task.rewatch /\ \A s \in Tries : ~Untold(s)'
    BY <1>3, <1>5, <2>1 DEF Untold
  <2>5. QED BY <2>1, <2>3, <2>4 DEF Confirmed, Untold
<1>17. CASE ApplyReport
  <2>1. /\ updates # <<>> /\ known' = Head(updates) /\ updates' = Tail(updates)
        /\ UNCHANGED <<running, task, tries, latest, worked>> /\ running # 0
    BY <1>1, <1>17 DEF ApplyReport
  <2>2. Newest' = Newest
    BY <2>1, NewestMoves DEF Sessions
  <2>3. QED BY <1>3, <2>1, <2>2 DEF Confirmed, Untold
<1>18. CASE ReadEnds
  <2>1. task.at = "reads" /\ running # 0 /\ UNCHANGED <<tries, latest, worked>>
    BY <1>1, <1>18 DEF ReadEnds
  <2>2. CASE tries[task.try].harness
    <3>1. running' = 0 /\ known' = Newest
      BY <1>2, <1>18, <2>2 DEF ReadEnds, EndsWith, Newest
    <3>2. QED BY <1>4, <2>1, <3>1 DEF Confirmed
  <2>3. CASE ~tries[task.try].harness
    <3>1. PICK scope \in BOOLEAN : task' = [task EXCEPT !.at = "spawns", !.scope = scope]
      BY <1>18, <2>3 DEF ReadEnds
    <3>2. /\ task'.at = "spawns" /\ UNCHANGED recordVars
          /\ task'.before = task.before /\ task'.rewatch = task.rewatch
      BY <1>1, <1>18, <2>3, <3>1 DEF ReadEnds, Task, recordVars
    <3>3. QED BY <1>3, <1>5, <1>6, <2>1, <2>3, <3>2 DEF Untold, recordVars
  <2>4. QED BY <2>2, <2>3
<1>19. CASE ThreadReports
  <2>1. PICK s \in Tries :
          /\ tries[s].thread = "reports"
          /\ IF tries[s].report /\ tries[s].turn = running
             THEN latest' = "pending" /\ updates' = Append(updates, "pending")
             ELSE UNCHANGED <<latest, updates>>
    BY <1>19 DEF ThreadReports
  <2>2. UNCHANGED <<running, task, known, worked>>
    BY <1>19 DEF ThreadReports
  <2>3. PICK k \in Tries : Threading(k)
    BY <1>19, ThreadStep DEF Shape, ThreadSteps
  <2>4. \A q \in Tries : Untold(q)' => Untold(q)
    BY <2>2, <2>3 DEF Threading, Untold
  <2>5. task.at = "reads" => tries'[task.try].harness = tries[task.try].harness
    BY <1>1, <2>3 DEF Threading, Stage, InTurn, Holding
  <2>6. CASE ~Untold(s)
    <3>1. UNCHANGED <<latest, updates>>
      BY <2>1, <2>6 DEF Untold
    <3>2. UNCHANGED recordVars
      BY <1>19, <2>2, <3>1 DEF ThreadReports, recordVars
    <3>3. QED BY <1>3, <1>5, <1>6, <2>2, <2>4, <2>5, <3>2
  <2>7. CASE Untold(s)
    <3>1. task.at = "awaits" /\ task.before = "none" /\ running # 0 /\ ~task.rewatch
      BY <1>3, <1>5, <2>7
    <3>2. latest' = "pending" /\ Newest' = "pending" /\ ~worked
      <4>1. latest' = "pending" /\ updates' = Append(updates, "pending")
        BY <2>1, <2>7 DEF Untold
      <4>2. QED BY <2>2, <3>1, <4>1, NewestMoves DEF Sessions, Confirmed
    <3>3. \A q \in Tries : Untold(q)' => task'.at = "awaits" /\ task'.try = q
                                          /\ task'.before = "none"
      BY <1>3, <2>2, <2>4
    <3>4. QED BY <2>2, <3>1, <3>2, <3>3 DEF Confirmed, Untold
  <2>8. QED BY <2>6, <2>7
<1>20. CASE HaltRun
  <2>1. worked => known' = "known"
    BY <1>20 DEF HaltRun, Kept, Confirmed, Newest
  <2>2. QED BY <1>4, <1>20, <2>1 DEF HaltRun
<1>21. CASE ProcessesDie
  <2>1. /\ UNCHANGED <<running, known>> /\ latest' = "none" /\ updates' = <<>>
        /\ worked' = (known = "known")
    BY <1>21 DEF ProcessesDie
  <2>2. task'.before = "none" /\ (running # 0 => task'.at = "sweep" /\ task'.rewatch)
    BY <1>21 DEF ProcessesDie, NoRun
  <2>3. \A s \in Tries : tries'[s].thread \in {"none", "failed", "over"}
    BY <1>21, DyingSteps DEF Dying, Shape
  <2>4. QED BY <2>1, <2>2, <2>3 DEF Confirmed, WorkedIsKnown, Newest
<1>22. QED
  BY <1>7, <1>8, <1>9, <1>10, <1>11, <1>12, <1>13, <1>14, <1>15, <1>16, <1>17, <1>18,
     <1>19, <1>20, <1>21 DEF ProcessNext, ThreadSteps, StopSteps

-----------------------------------------------------------------------------
(* The theorems.                                                           *)

\* The invariant holds at the start,
LEMMA ProcessBegins == ASSUME ProcessInit PROVE IInv
<1>1. NoTry \in Try /\ NoRun \in Task /\ NoTry.turn = 0 /\ NoTry.thread = "none"
  BY DEF NoTry, NoRun, Try, Task, Sessions
<1>2. \A s \in Tries : tries[s] = NoTry
  BY DEF ProcessInit
<1>3. Shape
  <2>1. TaskShape
    <3>1. task = NoRun /\ NoRun.at = "none"
      BY DEF ProcessInit, NoRun
    <3>2. QED BY <1>1, <3>1 DEF ProcessInit, TaskShape, Holding
  <2>2. TriesShape
    BY <1>1 DEF ProcessInit, TriesShape
  <2>3. TalkShape
    <3>1. <<>> \in Seq(Sessions) /\ "none" \in Sessions
      BY EmptySeq DEF Sessions
    <3>2. QED BY <3>1 DEF ProcessInit, TalkShape
  <2>4. QED BY <2>1, <2>2, <2>3 DEF Shape
<1>4. Stages
  BY <1>2 DEF Stages, Stage, NoTry, ProcessInit
<1>5. SweptInv /\ InTurn /\ Registered
  BY <1>1, <1>2 DEF ProcessInit, SweptInv, InTurn, Registered, NoRun, Holding, Starting,
                    Registering
<1>6. Filled
  <2>1. {s \in Tries : tries[s].turn # 0} = 1 .. 0 /\ 0 \in 0 .. MaxTries
    BY <1>1, <1>2, ProcessBounds
  <2>2. QED BY <2>1 DEF Filled
<1>7. Confirmed
  BY <1>2 DEF ProcessInit, Confirmed, WorkedIsKnown, NoTry
<1>8. QED BY <1>3, <1>4, <1>5, <1>6, <1>7 DEF IInv

\* and every step keeps it.
LEMMA ProcessKeeps == ASSUME IInv, ProcessNext PROVE IInv'
<1> USE DEF IInv
<1>1. Shape'
  BY TaskKeepsShape, TriesKeepShape, TalkKeepsShape DEF Shape
<1>2. Stages' /\ Filled' /\ SweptInv'
  BY StagesKept, FilledKept, SweptKept
<1>3. InTurn' /\ Registered' /\ Confirmed'
  BY InTurnKept, RegisteredKept, ConfirmedKept
<1>4. QED BY <1>1, <1>2, <1>3

\* The invariant holds: what the threads, tasks and stops have done agrees
\* with the registry, the sweep and the sessions reported.
THEOREM ProcessInvariant == ProcessSpec => []IInv
<1>1. IInv /\ UNCHANGED processVars => IInv'
  BY DEF IInv, Shape, TaskShape, TriesShape, TalkShape, Stages, Stage, SweptInv, Alive, Filled,
         InTurn, Registered, Confirmed, Newest, WorkedIsKnown, processVars
<1>2. QED BY ProcessBegins, ProcessKeeps, <1>1, PTL DEF ProcessSpec

\* Two processes never work in one session (wait_previous and the registry),
\* unless a stopped turn's was registered after the next turn had looked.
THEOREM ProcessesKeepApart == ProcessSpec => []OneProcess
<1>1. ASSUME IInv PROVE OneProcess
  <2>1. ASSUME NEW s \in Tries, Alive(s), tries[s].prompted, ~tries[s].old, ~overtaken
        PROVE  registry = s
    <3>1. tries[s].thread \in {"waits", "over"} /\ tries[s].at = "runs"
      BY <1>1, <2>1 DEF IInv, Stages, Stage, Alive
    <3>2. tries[s].thread = "waits"
      BY <1>1, <2>1, <3>1 DEF IInv, Stages, Stage
    <3>3. QED BY <1>1, <2>1, <3>2 DEF IInv, Registered, Registering
  <2>2. QED BY <2>1 DEF OneProcess
<1>2. QED BY <1>1, ProcessInvariant, PTL

\* What an earlier daemon's turn left in its scope is gone before this one
\* starts a process (TurnScopes::sweep).
THEOREM OldProcessesGoFirst == ProcessSpec => []SweptFirst
<1>1. ASSUME IInv PROVE SweptFirst
  BY <1>1 DEF IInv, SweptFirst, SweptInv, Stages, Stage
<1>2. QED BY <1>1, ProcessInvariant, PTL

\* The session an agent worked in is confirmed in its record once the turn
\* is over, however it ended and whatever updates a stop dropped.
THEOREM SessionIsConfirmed == ProcessSpec => []WorkedIsKnown
<1>1. IInv => WorkedIsKnown
  BY DEF IInv, Confirmed, WorkedIsKnown
<1>2. QED BY <1>1, ProcessInvariant, PTL
-----------------------------------------------------------------------------
(* The types: ProcessTyped.                                                *)
\* What ProcessTyped says beside IInv: the bounds, and the stops.
BoundsTyped ==
  /\ runs <= MaxRuns /\ task.try <= MaxTries
  /\ deaths \in 0 .. MaxDeaths
StopsTyped ==
  /\ stopAsked \subseteq Tries /\ detached \subseteq stopAsked /\ drops \subseteq Tries
  /\ halt \in [at : {"none", "get", "waits"}, turn : 0 .. MaxRuns, try : 0 .. MaxTries]
  /\ stoppedRuns \subseteq 1 .. MaxRuns

\* No step leaves the bounds.
LEMMA BoundsStay ==
  ASSUME TaskShape, BoundsTyped, [ProcessNext]_processVars PROVE BoundsTyped'
<1> USE ProcessBounds DEF BoundsTyped
<1>0. CASE UNCHANGED processVars BY <1>0 DEF processVars
<1>1. registry <= MaxTries BY DEF TaskShape, Tries
<1>2. NoRun.try = 0 BY DEF NoRun
<1>3. CASE RunStarts
  BY <1>2, <1>3 DEF RunStarts, NoRun, TaskShape, daemonVars
<1>4. CASE Swept \/ CutOff \/ Previous \/ PreviousGone
  <2>1. CASE Swept BY <2>1 DEF Swept, TaskShape, Task, recordVars, daemonVars
  <2>2. CASE CutOff BY <1>2, <2>2 DEF CutOff, daemonVars
  <2>3. CASE Previous BY <1>1, <2>3 DEF Previous, TaskShape, Task, recordVars, daemonVars
  <2>4. CASE PreviousGone BY <2>4 DEF PreviousGone, TaskShape, Task, recordVars, daemonVars
  <2> QED BY <1>4, <2>1, <2>2, <2>3, <2>4
<1>5. CASE SpawnThread
  <2>1. Started \in Nat /\ Started + 1 <= MaxTries
    <3> DEFINE T == {s \in Tries : tries[s].turn # 0}
    <3>1. IsFiniteSet(Tries) BY FS_Interval DEF Tries
    <3>2. IsFiniteSet(T) BY <3>1, FS_Subset
    <3>3. Cardinality(T) \in Nat BY <3>2, FS_CardinalityType
    <3> QED BY <1>5, <3>3 DEF SpawnThread, Started
  <2> QED BY <1>5, <2>1 DEF SpawnThread, TaskShape, Task, recordVars, daemonVars
<1>6. CASE SpawnFails \/ ReadBegins \/ ReadWorks \/ ApplyReport \/ ReadEnds \/ HaltRun
  <2>0. /\ task' = NoRun => task'.try <= MaxTries
        /\ \A scope \in BOOLEAN :
             task' = [task EXCEPT !.at = "spawns", !.scope = scope] => task'.try <= MaxTries
    <3>1. task' = NoRun => task'.try <= MaxTries BY <1>2
    <3>2. ASSUME NEW scope \in BOOLEAN, task' = [task EXCEPT !.at = "spawns", !.scope = scope]
          PROVE  task'.try <= MaxTries
      BY <3>2 DEF TaskShape, Task
    <3> QED BY <3>1, <3>2
  <2>1. CASE SpawnFails
    <3>1. task' = NoRun \/ \E scope \in BOOLEAN : task' = [task EXCEPT !.at = "spawns", !.scope = scope]
      BY <2>1 DEF SpawnFails, EndsWith
    <3>2. task'.try <= MaxTries BY <2>0, <3>1
    <3> QED BY <2>1, <3>2 DEF SpawnFails, daemonVars
  <2>2. CASE ReadBegins BY <2>2 DEF ReadBegins, TaskShape, Task, recordVars, daemonVars
  <2>3. CASE ReadWorks \/ ApplyReport BY <2>3 DEF ReadWorks, ApplyReport, daemonVars
  <2>4. CASE ReadEnds
    <3>1. task' = NoRun \/ \E scope \in BOOLEAN : task' = [task EXCEPT !.at = "spawns", !.scope = scope]
      BY <2>4 DEF ReadEnds, EndsWith
    <3>2. task'.try <= MaxTries BY <2>0, <3>1
    <3> QED BY <2>4, <3>2 DEF ReadEnds, daemonVars
  <2>5. CASE HaltRun BY <1>2, <2>5 DEF HaltRun, daemonVars
  <2> QED BY <1>6, <2>1, <2>2, <2>3, <2>4, <2>5
<1>7. CASE ThreadSteps \/ StopSteps \/ HarnessEnds \/ Sweep
  BY <1>7 DEF ThreadSteps, ThreadSpawns, ThreadFails, ThreadInserts, ThreadReports, ThreadHands,
     ThreadWrites, ThreadWaits, StopSteps, HaltGets, HaltReturns, GuardDrops, DetachedEnds, Dies,
     HarnessEnds, Sweep, recordVars, daemonVars
<1>8. CASE ProcessesDie
  <2>1. task'.try = 0 BY <1>8 DEF ProcessesDie, NoRun
  <2>2. runs' = runs /\ deaths < MaxDeaths /\ deaths' = deaths + 1 BY <1>8 DEF ProcessesDie
  <2> QED BY <2>1, <2>2
<1> QED
  BY <1>0, <1>3, <1>4, <1>5, <1>6, <1>7, <1>8 DEF ProcessNext

\* Nor does one ask for the stop of what is no process.
LEMMA StopsStay ==
  ASSUME TaskShape, BoundsTyped, StopsTyped, [ProcessNext]_processVars PROVE StopsTyped'
<1> USE ProcessBounds DEF StopsTyped
<1>0. CASE UNCHANGED processVars
  BY <1>0 DEF processVars, stopVars, recordVars
<1>1. NoHalt \in [at : {"none", "get", "waits"}, turn : 0 .. MaxRuns, try : 0 .. MaxTries]
  BY DEF NoHalt
<1>2. CASE RunStarts \/ Swept \/ CutOff \/ PreviousGone \/ SpawnThread \/ SpawnFails
  BY <1>2 DEF RunStarts, Swept, CutOff, PreviousGone, SpawnThread, SpawnFails, stopVars, recordVars
<1>3. CASE ReadBegins \/ ReadWorks \/ ApplyReport \/ ReadEnds
  BY <1>3 DEF ReadBegins, ReadWorks, ApplyReport, ReadEnds, stopVars, recordVars
<1>4. CASE Previous
  <2>1. registry # 0 => registry \in Tries BY DEF TaskShape
  <2>2. /\ stopAsked' = stopAsked \/ (stopAsked' = stopAsked \cup {registry} /\ registry # 0)
        /\ UNCHANGED <<detached, drops, halt, stoppedRuns>>
    BY <1>4 DEF Previous, recordVars
  <2> QED BY <2>1, <2>2
<1>5. CASE HaltRun
  <2>1. running \in 1 .. MaxRuns BY <1>5 DEF HaltRun, TaskShape, BoundsTyped
  <2>2. task.at = "reads" => task.try \in Tries BY DEF TaskShape, Holding
  <2> QED BY <1>5, <2>1, <2>2 DEF HaltRun
<1>6. CASE HaltGets
  <2>1. registry # 0 => registry \in Tries /\ registry \in 0 .. MaxTries
    BY DEF TaskShape, Tries
  <2>2. /\ \/ halt' = NoHalt /\ UNCHANGED stopAsked
           \/ /\ registry # 0 /\ stopAsked' = stopAsked \cup {registry}
              /\ halt' = [halt EXCEPT !.at = "waits", !.try = registry]
        /\ UNCHANGED <<detached, drops, stoppedRuns>>
    BY <1>6 DEF HaltGets
  <2> QED BY <1>1, <2>1, <2>2
<1>7. CASE HaltReturns
  BY <1>1, <1>7 DEF HaltReturns, recordVars
<1>8. CASE GuardDrops
  BY <1>8 DEF GuardDrops, StopDetached, recordVars
<1>9. CASE DetachedEnds
  BY <1>9 DEF DetachedEnds, recordVars
<1>10. CASE Dies \/ HarnessEnds \/ Sweep
  BY <1>10 DEF Dies, HarnessEnds, Sweep, stopVars, recordVars
<1>11. CASE ThreadSteps
  BY <1>11 DEF ThreadSteps, ThreadSpawns, ThreadFails, ThreadInserts, ThreadReports, ThreadHands,
     StopDetached, ThreadWrites, ThreadWaits, stopVars, recordVars
<1>12. CASE ProcessesDie BY <1>1, <1>12 DEF ProcessesDie
<1> QED
  BY <1>0, <1>2, <1>3, <1>4, <1>5, <1>6, <1>7, <1>8, <1>9, <1>10, <1>11, <1>12
     DEF ProcessNext, StopSteps

\* The state of the processes keeps its types: with IInv, which has those of
\* the turn, of each process and of the session.
THEOREM ProcessKeepsTypes == ProcessSpec => []ProcessTyped
<1>1. ProcessInit => BoundsTyped /\ StopsTyped
  BY ProcessBounds DEF ProcessInit, BoundsTyped, StopsTyped, NoRun, NoHalt
<1>2. IInv /\ BoundsTyped /\ StopsTyped /\ [ProcessNext]_processVars
        => BoundsTyped' /\ StopsTyped'
  BY BoundsStay, StopsStay DEF IInv, Shape
<1>3. IInv /\ BoundsTyped /\ StopsTyped => ProcessTyped
  <2> SUFFICES ASSUME IInv, BoundsTyped, StopsTyped PROVE ProcessTyped OBVIOUS
  <2> USE ProcessBounds
  <2>1. runs \in 0 .. MaxRuns /\ running \in 0 .. runs
    BY DEF IInv, Shape, TaskShape, BoundsTyped
  <2>2. task \in [at : {"none", "sweep", "previous", "waits", "spawns", "awaits", "reads"},
                  try : 0 .. MaxTries, scope : BOOLEAN, before : Sessions,
                  reported : BOOLEAN, rewatch : BOOLEAN]
    BY DEF IInv, Shape, TaskShape, Task, BoundsTyped
  <2>3. \A s \in Tries : tries[s] \in Try /\ tries[s].turn \in 0 .. MaxRuns
    BY <2>1 DEF IInv, Shape, TriesShape, Stages, Stage, Try
  <2>4. tries \in [Tries -> [turn : 0 .. MaxRuns,
          thread : {"none", "spawns", "inserts", "reports", "hands", "writes",
                    "waits", "failed", "over"},
          at : {"none", "runs", "ended"}, scope : BOOLEAN, left : BOOLEAN,
          prompted : BOOLEAN, stopped : BOOLEAN, ready : BOOLEAN,
          harness : BOOLEAN, old : BOOLEAN, report : BOOLEAN]]
    <3>1. tries = [s \in Tries |-> tries[s]] BY DEF IInv, Shape, TriesShape
    <3> QED BY <2>3, <3>1 DEF Try
  <2>5. registry \in 0 .. MaxTries /\ deaths \in 0 .. MaxDeaths
    BY DEF IInv, Shape, TaskShape, Tries, BoundsTyped
  <2>6. {swept, worked, overtaken} \subseteq BOOLEAN
    BY Zenon DEF IInv, Shape, TaskShape, TalkShape
  <2>7. latest \in Sessions /\ known \in Sessions /\ updates \in Seq(Sessions)
    BY Zenon DEF IInv, Shape, TalkShape
  <2>8. /\ stopAsked \subseteq Tries /\ detached \subseteq Tries /\ drops \subseteq Tries
        /\ halt \in [at : {"none", "get", "waits"}, turn : 0 .. MaxRuns, try : 0 .. MaxTries]
        /\ stoppedRuns \subseteq 1 .. MaxRuns /\ detached \subseteq stopAsked
    BY Zenon DEF StopsTyped
  <2> QED BY Zenon, <2>1, <2>2, <2>4, <2>5, <2>6, <2>7, <2>8 DEF ProcessTyped
<1> QED BY <1>1, <1>2, <1>3, ProcessInvariant, PTL DEF ProcessSpec
=============================================================================
