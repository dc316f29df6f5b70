---------------------------- MODULE ProcessTurns ----------------------------
(***************************************************************************)
(* The process-per-turn driver (agent/process.rs, for OpenCode, Codex and  *)
(* the like) for one agent: the task of its turn, the thread that starts   *)
(* and waits for each harness process, the registry a `--stop` looks into, *)
(* the tasks that stop a process nobody reads, the session the turn        *)
(* reports, and a daemon that dies, leaves processes in their scopes and   *)
(* sweeps them at its next start.                                          *)
(*                                                                         *)
(* A step is what happens between two awaits, locks or calls of the        *)
(* system.  The harness is external: its process runs until it ends, may   *)
(* leave one behind, shows that it works in the session, and dies of the   *)
(* last stop signal.  The prompt is on its stdin.  Left out: what the      *)
(* output says besides, a spawn thread that cannot start, a missing dir.   *)
(***************************************************************************)
EXTENDS Naturals, Sequences, FiniteSets

CONSTANTS
  MaxRuns,      \* turns
  MaxTries,     \* processes started
  MaxDeaths     \* deaths of the daemon

ASSUME ProcessBounds == MaxRuns \in Nat /\ MaxTries \in Nat /\ MaxDeaths \in Nat

VARIABLES
  runs,         \* turns so far
  running,      \* the one in the agent's slot, 0 for none
  task,         \* its task: run_turn or rewatch
  tries,        \* the processes started, each with its thread
  registry,     \* TurnProcesses: the agent's process, 0 for none
  stopAsked,    \* processes whose stop was asked for (TurnProcess.stopped)
  detached,     \* stop_detached tasks, by process
  drops,        \* Registered guards an aborted task still drops
  halt,         \* `--stop`, in Driver::stop
  stoppedRuns,  \* turns marked stopped (TurnUpdates.stopped)
  latest,       \* the newest session the turn reported (TurnUpdates.latest)
  updates,      \* updates sent and not applied
  known,        \* the session in the agent's record
  swept,        \* TurnScopes.swept
  deaths,       \* deaths so far
  worked,       \* the harness was seen working in the session
  overtaken     \* a stopped turn's process was registered after the next
                \* turn had looked for it

processVars == <<runs, running, task, tries, registry, stopAsked, detached,
                 drops, halt, stoppedRuns, latest, updates, known, swept,
                 deaths, worked, overtaken>>

Tries    == 1 .. MaxTries
Sessions == {"none", "pending", "known"}
NoTry    == [turn |-> 0, thread |-> "none", at |-> "none", scope |-> FALSE,
             left |-> FALSE, prompted |-> FALSE, stopped |-> FALSE,
             ready |-> FALSE, harness |-> TRUE, old |-> FALSE, report |-> FALSE]
NoRun    == [at |-> "none", try |-> 0, scope |-> FALSE, before |-> "none",
             reported |-> FALSE, rewatch |-> FALSE]

ProcessTyped ==
  /\ runs \in 0 .. MaxRuns /\ running \in 0 .. runs
  /\ task \in [at : {"none", "sweep", "previous", "waits", "spawns", "awaits", "reads"},
               try : 0 .. MaxTries, scope : BOOLEAN, before : Sessions,
               reported : BOOLEAN, rewatch : BOOLEAN]
  /\ tries \in [Tries -> [turn : 0 .. MaxRuns,
       thread : {"none", "spawns", "inserts", "reports", "hands", "writes",
                 "waits", "failed", "over"},
       at : {"none", "runs", "ended"}, scope : BOOLEAN, left : BOOLEAN,
       prompted : BOOLEAN, stopped : BOOLEAN, ready : BOOLEAN,
       harness : BOOLEAN, old : BOOLEAN, report : BOOLEAN]]
  /\ registry \in 0 .. MaxTries
  /\ stopAsked \subseteq Tries /\ detached \subseteq Tries /\ drops \subseteq Tries
  /\ halt \in [at : {"none", "get", "waits"}, turn : 0 .. MaxRuns, try : 0 .. MaxTries]
  /\ stoppedRuns \subseteq 1 .. MaxRuns
  /\ latest \in Sessions /\ known \in Sessions /\ updates \in Seq(Sessions)
  /\ {swept, worked, overtaken} \subseteq BOOLEAN /\ deaths \in 0 .. MaxDeaths
  /\ detached \subseteq stopAsked

NoHalt == [at |-> "none", turn |-> 0, try |-> 0]

ProcessInit ==
  /\ runs = 0 /\ running = 0 /\ task = NoRun
  /\ tries = [s \in Tries |-> NoTry] /\ registry = 0
  /\ stopAsked = {} /\ detached = {} /\ drops = {} /\ halt = NoHalt
  /\ stoppedRuns = {} /\ latest = "none" /\ updates = <<>>
  /\ known = "none" /\ swept = FALSE /\ deaths = 0
  /\ worked = FALSE /\ overtaken = FALSE
-----------------------------------------------------------------------------
Alive(s)      == tries[s].at = "runs"
ExitSeen(s)   == tries[s].thread = "over"
Gone(s)       == ExitSeen(s) /\ ~tries[s].left
Started       == Cardinality({s \in Tries : tries[s].turn # 0})

\* TurnProcesses::remove: unless another one replaced it.
Removed(s)    == registry' = IF registry = s THEN 0 ELSE registry

recordVars == <<runs, running, stoppedRuns, latest, updates, known, worked>>
stopVars   == <<stopAsked, detached, drops, halt>>
daemonVars == <<swept, deaths, overtaken>>
-----------------------------------------------------------------------------
(* The harness and its process.                                            *)

HarnessEnds == \E s \in Tries, left \in BOOLEAN :
  /\ Alive(s) /\ tries' = [tries EXCEPT ![s] = [@ EXCEPT !.at = "ended", !.left = left]]
  /\ UNCHANGED <<task, registry, recordVars, stopVars, daemonVars>>

\* What escalate's signals do to the process and to what it left behind.
Dies == \E s \in stopAsked :
  /\ Alive(s) \/ tries[s].left
  /\ tries' = [tries EXCEPT ![s] = [@ EXCEPT !.at = "ended", !.left = FALSE]]
  /\ UNCHANGED <<task, registry, recordVars, stopVars, daemonVars>>
-----------------------------------------------------------------------------
(* run_turn.                                                               *)

RunStarts ==
  /\ running = 0 /\ runs < MaxRuns /\ task = NoRun
  /\ runs' = runs + 1 /\ running' = runs + 1
  /\ task' = [NoRun EXCEPT !.at = "sweep", !.before = known]
  /\ latest' = "none" /\ updates' = <<>>
  /\ UNCHANGED <<tries, registry, stoppedRuns, known, worked, stopVars,
                 daemonVars>>

\* TurnScopes::sweep: once, whoever asks first; a turn waits for it.
Sweep ==
  /\ ~swept /\ swept' = TRUE
  /\ tries' = [s \in Tries |->
       IF tries[s].old /\ tries[s].scope
       THEN [tries[s] EXCEPT !.at = IF @ = "runs" THEN "ended" ELSE @, !.left = FALSE]
       ELSE tries[s]]
  /\ UNCHANGED <<task, registry, deaths, overtaken, recordVars, stopVars>>
SweptM ==  \* mutant: the turn does not wait for it
  /\ task.at = "sweep" /\ ~task.rewatch
  /\ task' = [task EXCEPT !.at = "previous"]
  /\ UNCHANGED <<tries, registry, recordVars, stopVars, daemonVars>>
Swept ==
  /\ task.at = "sweep" /\ swept /\ ~task.rewatch
  /\ task' = [task EXCEPT !.at = "previous"]
  /\ UNCHANGED <<tries, registry, recordVars, stopVars, daemonVars>>

\* rewatch: the process ended with the old daemon.
CutOff ==
  /\ task.at = "sweep" /\ swept /\ task.rewatch
  /\ task' = NoRun /\ running' = 0
  /\ UNCHANGED <<runs, tries, registry, stoppedRuns, latest, updates, known,
                 worked, stopVars, daemonVars>>

\* wait_previous.
PreviousM ==  \* mutant: not waited for
  /\ task.at = "previous" /\ task' = [task EXCEPT !.at = "spawns", !.scope = TRUE]
  /\ UNCHANGED <<tries, registry, stopAsked, detached, drops, halt, recordVars, daemonVars>>
Previous ==
  /\ task.at = "previous"
  /\ IF registry # 0
     THEN /\ stopAsked' = stopAsked \cup {registry}
          /\ task' = [task EXCEPT !.at = "waits", !.try = registry]
     ELSE /\ task' = [task EXCEPT !.at = "spawns", !.scope = TRUE]
          /\ UNCHANGED stopAsked
  /\ UNCHANGED <<tries, registry, detached, drops, halt, recordVars, daemonVars>>
PreviousGone ==
  /\ task.at = "waits" /\ Gone(task.try)
  /\ Removed(task.try) /\ task' = [task EXCEPT !.at = "spawns", !.scope = TRUE]
  /\ UNCHANGED <<tries, recordVars, stopVars, daemonVars>>

\* spawn: in a scope, or directly when systemd-run could not; a session the
\* launch names and the agent has not is reported, once.
SpawnThread ==
  /\ task.at = "spawns" /\ Started < MaxTries
  /\ LET s == Started + 1
         report == task.before = "none" /\ ~task.reported
     IN /\ tries' = [tries EXCEPT ![s] =
             [NoTry EXCEPT !.turn = running, !.thread = "spawns",
                           !.scope = task.scope, !.report = report]]
        /\ task' = [task EXCEPT !.at = "awaits", !.try = s]
  /\ UNCHANGED <<registry, recordVars, stopVars, daemonVars>>

\* finish_turn, after the updates still in the channel.
EndsWith(more) ==
  LET all == updates \o more IN
  /\ known' = IF all = <<>> THEN known ELSE all[Len(all)]
  /\ updates' = <<>> /\ task' = NoRun /\ running' = 0

\* systemd-run is missing, or the harness is: a start that never ran it
\* leaves the session as it was.
SpawnFails ==
  /\ task.at = "awaits" /\ tries[task.try].thread = "failed"
  /\ IF task.scope
     THEN /\ task' = [task EXCEPT !.at = "spawns", !.scope = FALSE]
          /\ UNCHANGED <<running, updates, known>>
     ELSE EndsWith(IF task.reported /\ task.before = "none" THEN <<task.before>> ELSE <<>>)
  /\ UNCHANGED <<runs, tries, registry, stoppedRuns, latest, worked,
                 stopVars, daemonVars>>

ReadBegins ==
  /\ task.at = "awaits" /\ tries[task.try].ready
  /\ task' = [task EXCEPT !.at = "reads", !.reported = TRUE]
  /\ UNCHANGED <<tries, registry, recordVars, stopVars, daemonVars>>

\* StreamState: the first text or tool call confirms a pending session.
ReadWorks ==
  /\ task.at = "reads" /\ tries[task.try].prompted /\ Alive(task.try)
  /\ worked' = TRUE
  /\ IF "known" \in {task.before, latest} THEN UNCHANGED <<latest, updates>>
     ELSE latest' = "known" /\ updates' = Append(updates, "known")
  /\ UNCHANGED <<runs, running, task, tries, registry, stoppedRuns, known,
                 stopVars, daemonVars>>

ApplyReport ==
  /\ task.at # "none" /\ updates # <<>>
  /\ known' = Head(updates) /\ updates' = Tail(updates)
  /\ UNCHANGED <<runs, running, task, tries, registry, stoppedRuns, latest,
                 worked, stopVars, daemonVars>>

\* The exit was seen and the output read: the guard forgets the process; a
\* start that never ran the harness is tried another way.
ReadEnds ==
  /\ task.at = "reads" /\ ExitSeen(task.try) /\ Removed(task.try)
  /\ IF tries[task.try].harness THEN EndsWith(<<>>)
     ELSE /\ \E scope \in BOOLEAN : task' = [task EXCEPT !.at = "spawns", !.scope = scope]
          /\ UNCHANGED <<running, updates, known>>
  /\ UNCHANGED <<runs, tries, stoppedRuns, latest, worked, stopVars,
                 daemonVars>>
-----------------------------------------------------------------------------
(* The thread of a process (spawn).                                        *)

To_(s, stage) == tries' = [tries EXCEPT ![s].thread = stage]
StopDetached(s) == stopAsked' = stopAsked \cup {s} /\ detached' = detached \cup {s}

ThreadSpawns == \E s \in Tries, there \in BOOLEAN :
  /\ tries[s].thread = "spawns" /\ (there \/ tries[s].scope)
  /\ tries' = [tries EXCEPT ![s] = [@ EXCEPT !.thread = "inserts", !.at = "runs",
                                              !.harness = there]]
  /\ UNCHANGED <<task, registry, recordVars, stopVars, daemonVars>>
ThreadFails == \E s \in Tries :
  /\ tries[s].thread = "spawns" /\ To_(s, "failed")
  /\ UNCHANGED <<task, registry, recordVars, stopVars, daemonVars>>

NextLooked(s) == \/ task.at = "spawns" /\ tries[s].turn # runs
                 \/ \E q \in Tries : tries[q].turn > tries[s].turn
ThreadInserts == \E s \in Tries :
  /\ tries[s].thread = "inserts" /\ To_(s, "reports")
  /\ registry' = s
  /\ overtaken' = (overtaken \/ NextLooked(s))
  /\ UNCHANGED <<task, swept, deaths, recordVars, stopVars>>

\* report_session or stopped, in one step with TurnUpdates::stop.
ThreadReports == \E s \in Tries :
  /\ tries[s].thread = "reports"
  /\ tries' = [tries EXCEPT ![s] = [@ EXCEPT !.thread = "hands",
                                              !.stopped = tries[s].turn \in stoppedRuns]]
  /\ IF tries[s].report /\ tries[s].turn = running
     THEN latest' = "pending" /\ updates' = Append(updates, "pending")
     ELSE UNCHANGED <<latest, updates>>
  /\ UNCHANGED <<runs, running, task, registry, stoppedRuns, known, worked,
                 stopVars, daemonVars>>

\* The pipes go to the turn.  The receiver of an aborted turn may be there
\* a moment longer.
ThreadHands == \E s \in Tries, unread \in BOOLEAN :
  /\ tries[s].thread = "hands"
  /\ unread => tries[s].turn # running
  /\ LET ours == ~tries[s].stopped /\ ~unread IN
     /\ tries' = [tries EXCEPT ![s] = [@ EXCEPT !.thread = IF ours THEN "writes" ELSE "waits",
                                                 !.ready = TRUE]]
     /\ IF ours THEN UNCHANGED <<stopAsked, detached>> ELSE StopDetached(s)
  /\ UNCHANGED <<task, registry, drops, halt, recordVars, daemonVars>>
ThreadWrites == \E s \in Tries :
  /\ tries[s].thread = "writes"
  /\ tries' = [tries EXCEPT ![s] = [@ EXCEPT !.thread = "waits",
                                              !.prompted = Alive(s) /\ tries[s].harness]]
  /\ UNCHANGED <<task, registry, recordVars, stopVars, daemonVars>>
ThreadWaits == \E s \in Tries :
  /\ tries[s].thread = "waits" /\ tries[s].at = "ended" /\ To_(s, "over")
  /\ UNCHANGED <<task, registry, recordVars, stopVars, daemonVars>>
-----------------------------------------------------------------------------
(* `--stop`, what it aborts, and stop_detached.                            *)

\* stop_turn's section: marked stopped, aborted, its newest session kept.
KeptM == known  \* mutant: what was applied so far
Kept  == IF latest = "none" THEN known ELSE latest
HaltRun ==
  /\ running # 0 /\ halt = NoHalt
  /\ stoppedRuns' = stoppedRuns \cup {running}
  /\ known' = Kept /\ updates' = <<>>
  /\ halt' = [at |-> "get", turn |-> running, try |-> 0]
  /\ drops' = IF task.at = "reads" THEN drops \cup {task.try} ELSE drops
  /\ task' = NoRun /\ running' = 0
  /\ UNCHANGED <<runs, tries, registry, stopAsked, detached, latest, worked,
                 daemonVars>>

\* Driver::stop.
HaltGets ==
  /\ halt.at = "get"
  /\ IF registry = 0
     THEN halt' = NoHalt /\ UNCHANGED stopAsked
     ELSE /\ stopAsked' = stopAsked \cup {registry}
          /\ halt' = [halt EXCEPT !.at = "waits", !.try = registry]
  /\ UNCHANGED <<runs, running, task, tries, registry, detached, drops,
                 stoppedRuns, latest, updates, known, worked, daemonVars>>
HaltReturns ==
  /\ halt.at = "waits" /\ Gone(halt.try) /\ Removed(halt.try) /\ halt' = NoHalt
  /\ UNCHANGED <<task, tries, stopAsked, detached, drops, recordVars, daemonVars>>

GuardDropsM ==  \* mutant: the guard only forgets the process
  \E s \in drops :
    /\ drops' = drops \ {s} /\ Removed(s)
    /\ UNCHANGED <<task, tries, stopAsked, detached, halt, recordVars, daemonVars>>
GuardDrops == \E s \in drops :
  /\ drops' = drops \ {s}
  /\ IF ExitSeen(s) THEN Removed(s) /\ UNCHANGED <<stopAsked, detached>>
                    ELSE StopDetached(s) /\ UNCHANGED registry
  /\ UNCHANGED <<task, tries, halt, recordVars, daemonVars>>

DetachedEnds == \E s \in detached :
  /\ Gone(s) /\ Removed(s) /\ detached' = detached \ {s}
  /\ UNCHANGED <<task, tries, stopAsked, drops, halt, recordVars, daemonVars>>
-----------------------------------------------------------------------------
(* The daemon dies: each process gets SIGINT (PR_SET_PDEATHSIG) and may    *)
(* ignore it.  The next one watches a turn again that was running.         *)
ProcessesDie ==
  /\ deaths < MaxDeaths /\ deaths' = deaths + 1
  /\ tries' = [s \in Tries |->
       [tries[s] EXCEPT !.old = TRUE,
          !.thread = IF @ = "none" THEN @ ELSE IF @ = "spawns" THEN "failed" ELSE "over"]]
  /\ registry' = 0 /\ stopAsked' = {} /\ detached' = {} /\ drops' = {} /\ halt' = NoHalt
  /\ task' = IF running = 0 THEN NoRun ELSE [NoRun EXCEPT !.at = "sweep", !.rewatch = TRUE]
  /\ updates' = <<>> /\ latest' = "none" /\ swept' = FALSE
  /\ worked' = (known = "known") /\ overtaken' = FALSE
  /\ UNCHANGED <<runs, running, stoppedRuns, known>>
-----------------------------------------------------------------------------
ThreadSteps == \/ ThreadSpawns \/ ThreadFails \/ ThreadInserts \/ ThreadReports
               \/ ThreadHands \/ ThreadWrites \/ ThreadWaits
StopSteps == HaltGets \/ HaltReturns \/ GuardDrops \/ DetachedEnds \/ Dies

ProcessNext ==
  \/ HarnessEnds \/ RunStarts \/ Sweep \/ Swept \/ CutOff \/ Previous \/ PreviousGone
  \/ SpawnThread \/ SpawnFails \/ ReadBegins \/ ReadWorks \/ ApplyReport
  \/ ReadEnds \/ ThreadSteps \/ HaltRun \/ StopSteps \/ ProcessesDie

\* A thread runs on, a spawned task is polled (the daemon starts with the
\* sweep), and the last stop signal is SIGKILL.
ProcessFair ==
  /\ WF_processVars(ThreadSteps) /\ WF_processVars(HaltGets \/ HaltReturns)
  /\ WF_processVars(GuardDrops) /\ WF_processVars(DetachedEnds)
  /\ WF_processVars(Dies) /\ WF_processVars(Sweep)
ProcessSpec == ProcessInit /\ [][ProcessNext]_processVars /\ ProcessFair
-----------------------------------------------------------------------------
(* A stopped turn's process dies, wherever the stop met its start: before  *)
(* the thread registered it, between that and the turn reading it, or      *)
(* later; in its scope also when the daemon dies meanwhile.  Apart from    *)
(* one that an earlier turn's process overtook in the registry.            *)
StoppedDies == \A s \in Tries :
  (Alive(s) /\ ~tries[s].old /\ tries[s].turn \in stoppedRuns)
    ~> (~Alive(s) \/ overtaken \/ (tries[s].old /\ ~tries[s].scope))

(* Never two processes of one session at once (wait_previous): as long as  *)
(* no stopped turn's process is registered after the next turn looked.     *)
OneProcess == \A p, q \in Tries :
  Alive(p) /\ Alive(q) /\ tries[p].prompted /\ tries[q].prompted
  /\ ~tries[p].old /\ ~tries[q].old /\ ~overtaken => p = q

(* What an earlier daemon's turn left in its scope is gone before a turn   *)
(* of this one starts a process (TurnScopes::sweep).                       *)
SweptFirst == \A p, q \in Tries :
  Alive(p) /\ tries[p].old /\ tries[p].scope /\ tries[q].turn # 0 => tries[q].old

(* A session the agent was seen working in is the agent's, confirmed, once *)
(* its turn is over, also when a stop dropped the update that said so.     *)
WorkedIsKnown == worked /\ running = 0 => known = "known"
=============================================================================
