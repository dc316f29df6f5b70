--------------------------- MODULE ClaudeLaunches ---------------------------
(***************************************************************************)
(* How the Claude Code driver (agent/claude.rs) continues one session:     *)
(* stop its old process, wait until that is gone, resume, and recognise a  *)
(* copy Claude Code started instead.  A launch runs on a task of its own,  *)
(* so that a `--stop`, which aborts the turn's task, cannot cut it off     *)
(* between starting a process and reporting it.                            *)
(*                                                                         *)
(* Claude Code is external.  A process is starting (not listed yet),       *)
(* listed with its pid, exiting (stopped, its pid no longer listed) or     *)
(* gone.  A resume continues the session in place, starts a copy, or       *)
(* prints the session's own bg id with a note that it is a copy, which     *)
(* leaves open what it did ("unclear").  A bg id is the launch that        *)
(* printed it, 0 for the session there is first.  Left out: commands of    *)
(* Claude Code that fail.                                                  *)
(***************************************************************************)
EXTENDS Naturals, FiniteSets

CONSTANTS
  MaxLaunches,      \* processes launched
  MaxPrompts,       \* turns
  ResumeAttempts    \* RESUME_ATTEMPTS

ASSUME LaunchBounds == /\ MaxLaunches \in Nat /\ MaxPrompts \in Nat
                       /\ ResumeAttempts \in Nat \ {0}

VARIABLES
  procs,        \* the processes by launch, 0 for the one there is first
  removed,      \* the bg ids no longer listed
  seen,         \* Exits.seen: the processes remembered
  shown,        \* those a listing showed, since their session was removed
  session,      \* the bg id of the agent's session
  driver,       \* the turn's task, in next_turn
  launches,     \* the launch tasks
  stopper,      \* Driver::stop: about to list, or to stop what it listed
  prompts,      \* turns so far
  halted,       \* those a `--stop` ended (TurnUpdates.stopped)
  unsent        \* those reported as not sent

launchVars == <<procs, removed, seen, shown, session, driver, launches,
                stopper, prompts, halted, unsent>>

Procs    == 0 .. MaxLaunches
NoProc   == [bg |-> 0, prompt |-> 0, at |-> "none", how |-> "none"]
NoDriver == [at |-> "none", turn |-> 0, attempt |-> 0, launch |-> 0]
NoStop   == [at |-> "none", bg |-> 0]

LaunchStages == {"starts", "prints", "lists", "stops", "removes", "halts",
                 "haltsListed", "done"}

LaunchesTyped ==
  /\ procs \in [Procs -> [bg : Procs, prompt : 0 .. MaxPrompts,
                          at : {"none", "starting", "listed", "exiting", "gone"},
                          how : {"none", "inPlace", "copy", "unclear"}]]
  /\ seen \subseteq shown /\ shown \subseteq Procs
  /\ removed \subseteq Procs /\ session \in Procs
  /\ driver \in [at : {"none", "check", "stop", "wait", "settle", "resume",
                       "first", "await", "stopResumed", "watch"},
                 turn : 0 .. MaxPrompts, attempt : 0 .. ResumeAttempts,
                 launch : Procs]
  /\ launches \subseteq [id : Procs, turn : 0 .. MaxPrompts, resume : BOOLEAN,
                         bg : Procs, at : LaunchStages]
  /\ stopper \in [at : {"none", "list", "command"}, bg : Procs]
  /\ prompts \in 0 .. MaxPrompts
  /\ halted \subseteq 1 .. prompts /\ unsent \subseteq 1 .. prompts

LaunchesInit ==
  /\ \E at \in {"listed", "exiting", "gone"} :
       procs = [p \in Procs |-> IF p = 0 THEN [NoProc EXCEPT !.at = at] ELSE NoProc]
  /\ removed = {} /\ session = 0
  /\ shown = {p \in {0} : procs[p].at \in {"listed", "exiting"}} /\ seen = shown
  /\ driver = NoDriver /\ launches = {} /\ stopper = NoStop
  /\ prompts = 0 /\ halted = {} /\ unsent = {}
-----------------------------------------------------------------------------
(* Claude Code, and what the driver asks of it.                            *)

Active(p) == procs[p].at \in {"starting", "listed"}
Runs(p)   == Active(p) \/ procs[p].at = "exiting"
OfSession(bg) == {p \in Procs : procs[p].at # "none" /\ procs[p].bg = bg}

ListedWith(bg)  == {p \in OfSession(bg) : procs[p].at = "listed"}
ListedAlive(bg) == ListedWith(bg) # {}
IsListed(bg)    == bg \notin removed

\* `claude stop`: it returns, and the pid is unlisted, before the exit.
AfterStop(bg) == [p \in Procs |->
  IF p \in OfSession(bg) /\ Active(p) THEN [procs[p] EXCEPT !.at = "exiting"]
                                      ELSE procs[p]]

\* Exits::note: the process a listing shows is remembered, exited ones not.
Remembered(bg) ==
  IF ListedAlive(bg) THEN {p \in seen : p \notin OfSession(bg) \/ Runs(p)} \cup ListedWith(bg)
                     ELSE seen
Notes(bg) == seen' = Remembered(bg) /\ shown' = shown \cup ListedWith(bg)
Forget(bg) == seen' = seen \ OfSession(bg)
RunsYet(bg) == \E p \in seen \cap OfSession(bg) : Runs(p)

claudeKeeps == <<removed, seen, shown, session, driver, launches, stopper,
                 prompts, halted, unsent>>

ProcListed == \E p \in Procs :
  /\ procs[p].at = "starting" /\ procs' = [procs EXCEPT ![p].at = "listed"]
  /\ UNCHANGED claudeKeeps
ProcExits == \E p \in Procs :
  /\ procs[p].at = "exiting" /\ procs' = [procs EXCEPT ![p].at = "gone"]
  /\ UNCHANGED claudeKeeps

\* The user removes a session nothing works in.
UserRemoves ==
  /\ \A p \in OfSession(session) : ~Active(p)
  /\ IsListed(session) /\ removed' = removed \cup {session}
  /\ UNCHANGED <<procs, seen, shown, session, driver, launches, stopper,
                 prompts, halted, unsent>>
-----------------------------------------------------------------------------
(* next_turn, on the task of the turn.                                     *)

At(at)   == driver.at = at
To(at)   == driver' = [driver EXCEPT !.at = at]
NotSent  == driver' = NoDriver /\ unsent' = unsent \cup {driver.turn}

driverKeeps == <<removed, session, launches, stopper, prompts, halted>>

TurnSent ==
  /\ At("none") /\ prompts < MaxPrompts
  /\ prompts' = prompts + 1
  /\ driver' = [at |-> "check", turn |-> prompts + 1, attempt |-> 1, launch |-> 0]
  /\ UNCHANGED <<procs, removed, seen, shown, session, launches, stopper,
                 halted, unsent>>

\* A listing: the session is gone, works on its own, is alive or stopped.
CheckGone ==
  /\ At("check") /\ ~IsListed(session)
  /\ Forget(session) /\ To("first") /\ shown' = shown \ OfSession(session)
  /\ UNCHANGED <<procs, unsent, driverKeeps>>
CheckBusy ==
  /\ At("check") /\ IsListed(session) /\ ListedAlive(session)
  /\ Notes(session) /\ NotSent
  /\ UNCHANGED <<procs, driverKeeps>>
Check ==
  /\ At("check") /\ IsListed(session)
  /\ Notes(session) /\ To(IF ListedAlive(session) THEN "stop" ELSE "settle")
  /\ UNCHANGED <<procs, unsent, driverKeeps>>

\* stop_and_wait.
StopOld ==
  /\ At("stop") /\ procs' = AfterStop(session) /\ To("wait")
  /\ UNCHANGED <<seen, shown, unsent, driverKeeps>>

\* wait_for_exit: until it is listed without a pid, or not at all, and no
\* process remembered for it runs.
WaitLists ==
  /\ At("wait") /\ IsListed(session) /\ ListedAlive(session)
  /\ Notes(session)
  /\ UNCHANGED <<procs, driver, unsent, driverKeeps>>
WaitEnds ==
  /\ At("wait") /\ (IsListed(session) => ~ListedAlive(session)) /\ ~RunsYet(session)
  /\ Forget(session) /\ To(IF IsListed(session) THEN "resume" ELSE "first")
  /\ UNCHANGED <<procs, shown, unsent, driverKeeps>>

\* settle: the process of a session stopped elsewhere may still be exiting.
SettleM ==  \* mutant: a listing without a pid is enough
  /\ At("settle") /\ Forget(session) /\ To("resume")
  /\ UNCHANGED <<procs, shown, unsent, driverKeeps>>
Settle ==
  /\ At("settle") /\ ~RunsYet(session)
  /\ Forget(session) /\ To("resume")
  /\ UNCHANGED <<procs, shown, unsent, driverKeeps>>

\* STOP_WAIT runs out.
WaitTimesOut ==
  /\ driver.at \in {"wait", "settle"} /\ (RunsYet(session) \/ ListedAlive(session))
  /\ NotSent
  /\ UNCHANGED <<procs, seen, shown, driverKeeps>>

\* launch_reported spawns its task and awaits it.
Spawn ==
  /\ driver.at \in {"resume", "first"} /\ Cardinality(launches) < MaxLaunches
  /\ LET id == Cardinality(launches) + 1 IN
     /\ launches' = launches \cup
          {[id |-> id, turn |-> driver.turn, resume |-> At("resume"),
            bg |-> IF At("resume") THEN session ELSE id, at |-> "starts"]}
     /\ driver' = [driver EXCEPT !.at = "await", !.launch = id]
  /\ UNCHANGED <<procs, removed, seen, shown, session, stopper, prompts,
                 halted, unsent>>

Launched(how) ==
  /\ At("await") /\ procs[driver.launch].how = how
  /\ \E l \in launches : l.id = driver.launch /\ l.at = "done"

LaunchRan ==
  /\ Launched("inPlace") /\ To("watch")
  /\ UNCHANGED <<procs, seen, shown, unsent, driverKeeps>>

\* A copy, discarded by now: the old process is stopped, waited for, and the
\* resume tried once more, or the turn is not sent.
LaunchCopied ==
  /\ Launched("copy")
  /\ IF driver.attempt < ResumeAttempts
     THEN /\ driver' = [driver EXCEPT !.attempt = @ + 1, !.at = "stop"]
          /\ UNCHANGED unsent
     ELSE NotSent
  /\ UNCHANGED <<procs, seen, shown, driverKeeps>>

LaunchUnclearM ==  \* mutant: the second one is left alone
  /\ Launched("unclear")
  /\ IF driver.attempt < ResumeAttempts THEN To("stopResumed") /\ UNCHANGED unsent
                                        ELSE NotSent
  /\ UNCHANGED <<procs, seen, shown, driverKeeps>>
LaunchUnclear ==
  /\ Launched("unclear") /\ To("stopResumed")
  /\ UNCHANGED <<procs, seen, shown, unsent, driverKeeps>>

\* stop_resumed: listed until it shows with a process, or for long enough,
\* then stopped.
ResumedLists ==
  /\ At("stopResumed") /\ Notes(session)
  /\ UNCHANGED <<procs, driver, unsent, driverKeeps>>
StopResumed ==
  /\ At("stopResumed") /\ procs' = AfterStop(session)
  /\ IF driver.attempt < ResumeAttempts
     THEN /\ driver' = [driver EXCEPT !.attempt = @ + 1, !.at = "wait"]
          /\ UNCHANGED unsent
     ELSE NotSent
  /\ UNCHANGED <<seen, shown, driverKeeps>>

\* watch, until the session is idle again.
WatchLists ==
  /\ At("watch") /\ Notes(session)
  /\ UNCHANGED <<procs, driver, unsent, driverKeeps>>
WatchEnds ==
  /\ At("watch") /\ driver' = NoDriver
  /\ UNCHANGED <<procs, seen, shown, unsent, driverKeeps>>
-----------------------------------------------------------------------------
(* The tasks of launch_reported.                                           *)

Becomes(l, at) == launches' = (launches \ {l}) \cup {[l EXCEPT !.at = at]}

launchKeeps == <<driver, stopper, prompts, halted, unsent>>

\* Claude Code starts a process: in place only when none of it runs.
LaunchStarts == \E l \in launches : \E how \in {"inPlace", "copy", "unclear"} :
  /\ l.at = "starts"
  /\ how = "inPlace" => \A p \in OfSession(l.bg) : ~Runs(p)
  /\ how \in {"copy", "unclear"} => l.resume
  /\ procs' = [procs EXCEPT ![l.id] =
       [bg |-> IF how = "copy" THEN l.id ELSE l.bg, prompt |-> l.turn,
        at |-> "starting", how |-> how]]
  /\ removed' = removed \ {procs'[l.id].bg}
  /\ Becomes(l, "prints")
  /\ UNCHANGED <<seen, shown, session, launchKeeps>>

Printed(l) == procs[l.id].how

\* It prints the bg id.  copy_id: an id that is not the session's is a copy.
IsCopyM(l) == Printed(l) \in {"copy", "unclear"}  \* mutant: the note suffices
IsCopy(l)  == Printed(l) = "copy"

LaunchPrintsCopy == \E l \in launches :
  /\ l.at = "prints" /\ IsCopy(l)
  /\ Becomes(l, "lists")
  /\ UNCHANGED <<procs, removed, seen, shown, session, launchKeeps>>
LaunchPrintsUnclear == \E l \in launches :
  /\ l.at = "prints" /\ ~IsCopy(l) /\ Printed(l) = "unclear"
  /\ Becomes(l, "done")
  /\ UNCHANGED <<procs, removed, seen, shown, session, launchKeeps>>

\* report_session, in one step with TurnUpdates::stop.
ReportedM(l) ==  \* mutant: the task does not look whether it was stopped
  session' = l.bg /\ Becomes(l, "done")
Reported(l) ==
  IF l.turn \in halted THEN Becomes(l, "halts") /\ UNCHANGED session
                       ELSE Becomes(l, "done") /\ session' = l.bg
LaunchReports == \E l \in launches :
  /\ l.at = "prints" /\ Printed(l) = "inPlace" /\ Reported(l)
  /\ UNCHANGED <<procs, removed, seen, shown, launchKeeps>>

\* stop_noting, for a turn that was stopped meanwhile.
HaltedLists == \E l \in launches :
  /\ l.at = "halts" /\ Notes(l.bg) /\ Becomes(l, "haltsListed")
  /\ UNCHANGED <<procs, removed, session, launchKeeps>>
HaltedStops == \E l \in launches :
  /\ l.at = "haltsListed" /\ procs' = AfterStop(l.bg) /\ Becomes(l, "done")
  /\ UNCHANGED <<removed, seen, shown, session, launchKeeps>>

\* discard_copy: listed for a while, stopped, waited for, removed.
CopyLists == \E l \in launches :
  /\ l.at = "lists" /\ Notes(procs[l.id].bg) /\ Becomes(l, "stops")
  /\ UNCHANGED <<procs, removed, session, launchKeeps>>
CopyStops == \E l \in launches :
  /\ l.at = "stops" /\ procs' = AfterStop(procs[l.id].bg) /\ Becomes(l, "removes")
  /\ UNCHANGED <<removed, seen, shown, session, launchKeeps>>
CopyRemoved == \E l \in launches :
  /\ l.at = "removes" /\ Becomes(l, "done")
  /\ LET bg == procs[l.id].bg IN
     /\ procs' = [p \in Procs |-> IF p \in OfSession(bg) THEN [procs[p] EXCEPT !.at = "gone"]
                                                         ELSE procs[p]]
     /\ removed' = removed \cup {bg} /\ Forget(bg)
  /\ UNCHANGED <<shown, session, launchKeeps>>
-----------------------------------------------------------------------------
(* `--stop`: stop_turn marks the turn stopped and aborts its task under    *)
(* the lock; Driver::stop then stops the session by the newest ids.        *)

HaltTurn ==
  /\ ~At("none") /\ stopper = NoStop
  /\ halted' = halted \cup {driver.turn}
  /\ driver' = NoDriver /\ stopper' = [at |-> "list", bg |-> session]
  /\ UNCHANGED <<procs, removed, seen, shown, session, launches, prompts, unsent>>
StopLists ==
  /\ stopper.at = "list"
  /\ Notes(stopper.bg) /\ stopper' = [stopper EXCEPT !.at = "command"]
  /\ UNCHANGED <<procs, removed, session, driver, launches, prompts, halted, unsent>>
StopCommand ==
  /\ stopper.at = "command"
  /\ procs' = AfterStop(stopper.bg) /\ stopper' = NoStop
  /\ UNCHANGED <<removed, seen, shown, session, driver, launches, prompts,
                 halted, unsent>>
-----------------------------------------------------------------------------
LaunchTask == \/ LaunchStarts \/ LaunchPrintsCopy \/ LaunchPrintsUnclear
              \/ LaunchReports \/ HaltedLists \/ HaltedStops
              \/ CopyLists \/ CopyStops \/ CopyRemoved
StopTask == StopLists \/ StopCommand

LaunchesNext ==
  \/ ProcListed \/ ProcExits \/ UserRemoves
  \/ TurnSent \/ CheckGone \/ CheckBusy \/ Check \/ StopOld \/ WaitLists
  \/ WaitEnds \/ Settle \/ WaitTimesOut \/ Spawn \/ LaunchRan \/ LaunchCopied
  \/ LaunchUnclear \/ ResumedLists \/ StopResumed \/ WatchLists \/ WatchEnds
  \/ LaunchTask \/ HaltTurn \/ StopTask

\* Tokio polls a spawned task until it is done, and a command of Claude Code
\* returns or times out.
LaunchesFair == WF_launchVars(LaunchTask) /\ WF_launchVars(StopTask)

LaunchesSpec == LaunchesInit /\ [][LaunchesNext]_launchVars /\ LaunchesFair
-----------------------------------------------------------------------------
(* Every process a listing showed for the session is gone before the       *)
(* driver goes on to resume it, whoever stopped it (a --stop, a turn       *)
(* stopped during its launch, a wait that ran out), even though the        *)
(* listing drops a pid before its process exits (Exits, settle).  Only     *)
(* those from before the session was found removed are forgotten: a launch *)
(* of an older, stopped turn that brings it back then may meet them.       *)
ResumeWaits ==
  [][To("resume") /\ driver' # driver =>
       \A p \in OfSession(session) \cap shown : ~Runs(p)]_launchVars

(* A turn reported as not sent does not run (next_turn: "Stopped, so a     *)
(* turn reported as not sent does not run").                               *)
NotSentDoesNotRun == \A p \in Procs : Active(p) => procs[p].prompt \notin unsent

(* Only copies are removed: no launch ever removes the session itself,     *)
(* whatever id and note a resume printed (copy_id, discard_copy).          *)
OriginalKept == [][launches' # launches => session \notin removed' \ removed]_launchVars

(* No process strays: a copy is removed, also when the turn that made it   *)
(* was stopped, and a stopped turn's process is stopped, also when the     *)
(* launch was between starting it and printing its id; apart from a resume *)
(* that printed the session's own id with a copy note.                     *)
StraysStop == \A p \in Procs \ {0} :
  (procs[p].how = "copy" \/ (procs[p].prompt \in halted /\ procs[p].how # "unclear"))
    ~> (~Active(p) /\ (procs[p].how = "copy" => procs[p].at = "gone"))

=============================================================================
