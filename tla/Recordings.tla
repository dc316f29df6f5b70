----------------------------- MODULE Recordings -----------------------------
(***************************************************************************)
(* The recording daemon (daemon/recording.rs): starting and stopping a     *)
(* meeting recording, the one processing worker and its queue, the network *)
(* retries, retry, rename, summary and delete, the retention sweep, and    *)
(* what a crash or a shutdown leaves for the next start.                   *)
(*                                                                         *)
(* The disk (recording.json and the tracks of each recording) survives a   *)
(* crash; the view, the queue and every task do not.                       *)
(*                                                                         *)
(* A step is a section of code without an await: a check of the view and   *)
(* the claim that follows it are one step.  A rewrite of recording.json on *)
(* the blocking pool that shares the recording with other writers is two,  *)
(* its read and its write.                                                 *)
(***************************************************************************)
EXTENDS Integers, Sequences, SequencesExt

CONSTANTS
  Recs,         \* ids of recordings: folders under the recordings root
  Tasks,        \* commands handled at once (IPC clients, hotkey, tray)
  Worker,       \* run_worker
  Startup,      \* recover_on_startup
  Timer,        \* run_network_retries
  MaxAttempts,  \* MAX_ATTEMPTS
  NetworkMax,   \* NETWORK_RETRY_MAX
  MaxCrashes,   \* bound: crashes and shutdowns
  Asks,         \* bound: the commands the tasks are given
  DiskFails,    \* whether a start, a stop, a repair or a mark may fail to write
  Patient,      \* whether nobody touches a recording whose tracks are written
  None

Procs == Tasks \cup {Worker, Startup, Timer}

ASSUME ProcsAssumption ==
  /\ {Worker, Startup, Timer} \cap Tasks = {}
  /\ Worker # Startup /\ Worker # Timer /\ Startup # Timer
ASSUME NoneAssumption   == None \notin Recs \cup Tasks \cup Nat
ASSUME LimitsAssumption ==
  MaxAttempts \in Nat \ {0} /\ NetworkMax \in Nat /\ MaxCrashes \in Nat
ASSUME AsksAssumption   ==
  Asks \subseteq {"start", "cancel", "retry", "name", "summarize", "delete"}
ASSUME ModeAssumption   == DiskFails \in BOOLEAN /\ Patient \in BOOLEAN

VARIABLES
  \* the disk
  meta,         \* recording.json of each recording
  tracks,       \* its audio files
  \* RecordingRuntime
  lock,         \* the start that holds the session mutex across an await
  session,      \* the recording in progress
  capturing,    \* view.capturing
  processing,   \* view.processing
  queued,       \* view.queued
  waiting,      \* view.waiting
  held,         \* view.held
  queue,        \* what was sent to the worker, its own backlog included
  shutting,     \* shutting_down
  \* the tasks
  ending,       \* how the stop of each recording's tracks goes on
  pc, job, seen, todo,
  \* history
  spent,        \* attempts not given back, since the last retry
  told,         \* recordings whose rename was reported done
  crashes

diskVars  == <<meta, tracks>>
viewVars  == <<capturing, processing, queued, waiting, held>>
localVars == <<pc, job, seen, todo>>
pastVars  == <<spent, told, crashes>>
vars == <<diskVars, lock, session, viewVars, queue, shutting, ending,
          localVars, pastVars>>

Opt(S)  == S \cup {None}
Some(x) == {x} \ {None}

\* "none": no folder yet; "claimed": a folder without recording.json;
\* "gone": removed. An id is not used again within a behaviour.
Statuses == {"none", "claimed", "gone", "recording", "processing", "done", "failed",
             "waiting"}
\* "live": a writer appends to them; "stuck": it did not end with the stop.
Tracks   == {"none", "live", "stuck", "ended", "deleted"}
Kinds    == {"transcribe", "network", "asked", "auto"}
Jobs     == [rec : Recs, kind : Kinds]
ASSUME JobsAssumption == None \notin Jobs

Meta == [status   : Statuses,
         attempts : Nat,                      \* attempts
         tries    : Opt(Nat),                 \* network_wait.attempts
         summary  : {"no", "asked", "auto"},  \* summary_pending
         named    : BOOLEAN]                  \* speaker_names

Fresh(status) == [status |-> status, attempts |-> 0, tries |-> None,
                  summary |-> "no", named |-> FALSE]

TaskSteps    == {"idle", "create", "write", "open", "show", "claim", "repair",
                 "send", "markRead", "markWrite", "nameRead", "nameWrite",
                 "deleteHold", "delete"}
WorkerSteps  == {"idle", "begin", "run", "make", "summary", "markRead",
                 "markWrite", "send", "sweep", "sweeping", "swept", "dead"}
StartupSteps == {"list", "recover", "repair", "send", "resume", "markRead",
                 "markWrite", "clear", "scan", "giveUp", "sweep", "sweeping",
                 "swept", "over"}
TimerSteps   == {"idle", "scan", "giveUp"}

StepsOf(p) ==
  CASE p \in Tasks  -> TaskSteps
    [] p = Worker   -> WorkerSteps
    [] p = Startup  -> StartupSteps
    [] p = Timer    -> TimerSteps
Steps == TaskSteps \cup WorkerSteps \cup StartupSteps \cup TimerSteps

TypeOK ==
  /\ meta \in [Recs -> Meta]
  /\ tracks \in [Recs -> Tracks]
  /\ lock \in Opt(Tasks)
  /\ session \in Opt(Recs)
  /\ capturing \in Opt(Recs)
  /\ processing \in Opt(Jobs)
  /\ queued \subseteq Jobs
  /\ waiting \subseteq Recs
  /\ held \subseteq Recs
  /\ queue \in Seq(Jobs)
  /\ shutting \in BOOLEAN
  /\ ending \in [Recs -> {"no", "stop", "cancel", "enqueue"}]
  /\ pc \in [Procs -> Steps] /\ \A p \in Procs : pc[p] \in StepsOf(p)
  /\ job \in [Procs -> Opt(Jobs)]
  /\ seen \in [Procs -> Opt(Meta)]
  /\ todo \in [Procs -> SUBSET Jobs]
  /\ spent \in [Recs -> Nat]
  /\ told \subseteq Recs
  /\ crashes \in 0..MaxCrashes

Job(r, kind)   == [rec |-> r, kind |-> kind]
Transcribes(j) == j.kind \in {"transcribe", "network"}

Start0 == [p \in Procs |-> IF p = Startup THEN "list" ELSE "idle"]

Init ==
  /\ meta = [r \in Recs |-> Fresh("none")]
  /\ tracks = [r \in Recs |-> "none"]
  /\ lock = None /\ session = None
  /\ capturing = None /\ processing = None
  /\ queued = {} /\ waiting = {} /\ held = {}
  /\ queue = <<>>
  /\ shutting = FALSE
  /\ ending = [r \in Recs |-> "no"]
  /\ pc = Start0
  /\ job = [p \in Procs |-> None]
  /\ seen = [p \in Procs |-> None]
  /\ todo = [p \in Procs |-> {}]
  /\ spent = [r \in Recs |-> 0]
  /\ told = {}
  /\ crashes = 0
----------------------------------------------------------------------------
(* The view: who may work on a recording.                                  *)
Working     == queued \cup Some(processing)
Pending(r)  == \E j \in Working : j.rec = r

Reservable(r)  == r \notin held /\ ~Pending(r)

Holdable(r) ==
  /\ r \notin held
  /\ ~\E j \in Working : j.rec = r /\ Transcribes(j)

DeletableM(r) == r # capturing  \* mutant: whoever has it
Deletable(r)  == r # capturing /\ r \notin held /\ ~Pending(r)

Unreserve(r) == queued' = {j \in queued : j.rec # r}

ClearCapturingM(r) == capturing' = None  \* mutant: whoever is shown
ClearCapturing(r)  == capturing' = IF capturing = r THEN None ELSE capturing

(* dispatch: to the worker, unless it is gone.                             *)
Gone == pc[Worker] = "dead"
Dispatch(j) ==
  IF Gone
    THEN Unreserve(j.rec) /\ UNCHANGED <<queue, waiting>>
    ELSE /\ queue' = Append(queue, j)
         /\ waiting' = waiting \ {j.rec}
         /\ UNCHANGED queued

\* enqueue: reserved and dispatched, or neither.
Enqueue(j) ==
  IF Reservable(j.rec) /\ ~Gone
    THEN /\ queued' = queued \cup {j}
         /\ queue' = Append(queue, j)
         /\ waiting' = waiting \ {j.rec}
    ELSE UNCHANGED <<queued, queue, waiting>>

\* A recording nobody is writing or finalizing, as far as Patient asks.
Untouched(r) == Patient => tracks[r] \notin {"live", "stuck"} /\ ending[r] = "no"

HasAudio(r) == tracks[r] \in {"live", "stuck", "ended"}
OnDisk(r)   == meta[r].status \notin {"none", "claimed", "gone"}

Goto(p, step)  == pc' = [pc EXCEPT ![p] = step]
Given(t, ask)  == t \in Tasks /\ pc[t] = "idle" /\ ask \in Asks
Keep           == UNCHANGED pastVars
Quiet          == UNCHANGED <<lock, session, ending, shutting>>

(* Where a task goes on when it is done with a recording.                  *)
Home(p) ==
  CASE p \in Tasks  -> "idle"
    [] p = Worker   -> "sweep"
    [] p = Timer    -> "scan"
    [] p = Startup  -> IF pc[p] = "giveUp" THEN "scan"
                       ELSE IF job[p] # None /\ ~Transcribes(job[p]) THEN "resume"
                       ELSE "recover"

Return(p) ==
  /\ Goto(p, Home(p))
  /\ job' = [job EXCEPT ![p] = None]
  /\ seen' = [seen EXCEPT ![p] = None]
  /\ UNCHANGED todo

Go(p, step, j) ==
  /\ Goto(p, step)
  /\ job' = [job EXCEPT ![p] = j]
  /\ UNCHANGED seen
----------------------------------------------------------------------------
(* Starting a recording: the session mutex is held until it is shown.      *)
StartLock(t) ==
  /\ Given(t, "start") /\ lock = None
  /\ ~shutting /\ session = None
  /\ lock' = t
  /\ Goto(t, "create")
  /\ UNCHANGED <<diskVars, session, viewVars, queue, shutting, ending, job,
                 seen, todo>> /\ Keep

\* Refused, or its device or folder failed: nothing is left of it.
GiveUpStart(t) ==
  /\ lock' = None
  /\ Goto(t, "idle")
  /\ job' = [job EXCEPT ![t] = None]
  /\ UNCHANGED <<session, viewVars, queue, shutting, ending, seen, todo>>

StartRefused(t) ==
  /\ pc[t] = "create"
  /\ GiveUpStart(t)
  /\ UNCHANGED diskVars /\ Keep

StartCreate(t, r) ==
  /\ pc[t] = "create"
  /\ meta[r].status = "none"
  /\ meta' = [meta EXCEPT ![r] = Fresh("claimed")]
  /\ Go(t, "write", Job(r, "transcribe"))
  /\ UNCHANGED <<tracks, lock, session, viewVars, queue, shutting, ending,
                 todo>> /\ Keep

StartFails(t) ==
  /\ \/ pc[t] = "write" /\ DiskFails
     \/ pc[t] = "open"
     \/ pc[t] = "show" /\ DiskFails
  /\ meta' = [meta EXCEPT ![job[t].rec] = Fresh("gone")]
  /\ tracks' = [tracks EXCEPT ![job[t].rec] = "none"]
  /\ GiveUpStart(t) /\ Keep

StartWrite(t) ==
  /\ pc[t] = "write"
  /\ meta' = [meta EXCEPT ![job[t].rec] = Fresh("recording")]
  /\ Goto(t, "open")
  /\ UNCHANGED <<tracks, viewVars, queue, job, seen, todo>> /\ Quiet /\ Keep

StartOpen(t) ==
  /\ pc[t] = "open"
  /\ tracks' = [tracks EXCEPT ![job[t].rec] = "live"]
  /\ Goto(t, "show")
  /\ UNCHANGED <<meta, viewVars, queue, job, seen, todo>> /\ Quiet /\ Keep

StartShow(t) ==
  /\ pc[t] = "show"
  /\ meta' = [meta EXCEPT ![job[t].rec] = Fresh("recording")]
  /\ session' = job[t].rec
  /\ capturing' = job[t].rec
  /\ lock' = None
  /\ Return(t)
  /\ UNCHANGED <<tracks, processing, queued, waiting, held, queue, shutting,
                 ending>> /\ Keep
----------------------------------------------------------------------------
(* Stop, by a command or the recording's watch, and cancel: the session is *)
(* taken under the mutex, its tracks are finished without it.              *)
TakeSession(how) ==
  /\ session # None /\ lock = None
  /\ session' = None
  /\ ending' = [ending EXCEPT ![session] = how]
  /\ UNCHANGED <<diskVars, lock, viewVars, queue, shutting, localVars>> /\ Keep

Stop   == TakeSession("stop")
Cancel == "cancel" \in Asks /\ TakeSession("cancel")

\* The session's own meta is written, whatever is on disk by now.
StopWrites(r, status) ==
  meta' = [meta EXCEPT ![r] = Fresh(status)]

StopFinish(r) ==
  /\ ending[r] = "stop"
  /\ tracks' = [tracks EXCEPT ![r] = "ended"]
  /\ ClearCapturing(r)
  /\ \/ /\ StopWrites(r, "processing")
        /\ ending' = [ending EXCEPT ![r] = "enqueue"]
     \/ /\ DiskFails
        /\ ending' = [ending EXCEPT ![r] = "no"]
        /\ UNCHANGED meta
  /\ UNCHANGED <<lock, session, processing, queued, waiting, held, queue,
                 shutting, localVars>> /\ Keep

\* A writer outlives its timeout: its file may still change.
StopStuck(r) ==
  /\ ending[r] = "stop"
  /\ tracks' = [tracks EXCEPT ![r] = "stuck"]
  /\ ClearCapturing(r)
  /\ StopWrites(r, "failed") \/ (DiskFails /\ UNCHANGED meta)
  /\ ending' = [ending EXCEPT ![r] = "no"]
  /\ UNCHANGED <<lock, session, processing, queued, waiting, held, queue,
                 shutting, localVars>> /\ Keep

StuckEnds(r) ==
  /\ tracks[r] = "stuck"
  /\ tracks' = [tracks EXCEPT ![r] = "ended"]
  /\ UNCHANGED <<meta, viewVars, queue, localVars>> /\ Quiet /\ Keep

StopEnqueue(r) ==
  /\ ending[r] = "enqueue"
  /\ ending' = [ending EXCEPT ![r] = "no"]
  /\ Enqueue(Job(r, "transcribe"))
  /\ UNCHANGED <<diskVars, lock, session, capturing, processing, held,
                 shutting, localVars>> /\ Keep

CancelFinish(r) ==
  /\ ending[r] = "cancel"
  /\ meta' = [meta EXCEPT ![r] = Fresh("gone")]
  /\ tracks' = [tracks EXCEPT ![r] = "none"]
  /\ ClearCapturing(r)
  /\ ending' = [ending EXCEPT ![r] = "no"]
  /\ UNCHANGED <<lock, session, processing, queued, waiting, held, queue,
                 shutting, localVars>> /\ Keep
----------------------------------------------------------------------------
(* A recording reserved for another transcription: by a retry, or by the   *)
(* recovery of what a crash interrupted.                                   *)
Retry(t, r) ==
  /\ Given(t, "retry") /\ OnDisk(r)
  /\ HasAudio(r)
  /\ Go(t, "claim", Job(r, "transcribe"))
  /\ UNCHANGED <<diskVars, viewVars, queue, todo>> /\ Quiet /\ Keep

\* It waited for the session mutex: its checks of the disk may be stale.
RetryClaim(t) ==
  LET r == job[t].rec IN
  /\ pc[t] = "claim" /\ lock = None
  /\ IF session # r /\ Reservable(r)
       THEN /\ Untouched(r)
            /\ queued' = queued \cup {job[t]}
            /\ Goto(t, "repair")
            /\ UNCHANGED <<job, seen, todo>>
       ELSE Return(t) /\ UNCHANGED queued
  /\ UNCHANGED <<diskVars, capturing, processing, waiting, held, queue>>
  /\ Quiet /\ Keep

\* recover_dir for a retry: a fresh start for the crash-loop guard.
RetryRepair(t) ==
  LET r == job[t].rec IN
  /\ t \in Tasks /\ pc[t] = "repair" /\ OnDisk(r)
  /\ meta' = [meta EXCEPT ![r] = [@ EXCEPT !.status = "processing", !.attempts = 0,
                                           !.tries = None]]
  /\ spent' = [spent EXCEPT ![r] = 0]
  /\ Goto(t, "send")
  /\ UNCHANGED <<tracks, viewVars, queue, job, seen, todo, told, crashes>>
  /\ Quiet

RepairFails(p) ==
  /\ pc[p] = "repair" /\ (DiskFails \/ ~OnDisk(job[p].rec))
  /\ Unreserve(job[p].rec)
  /\ Return(p)
  /\ UNCHANGED <<diskVars, capturing, processing, waiting, held, queue>>
  /\ Quiet /\ Keep

Send(p) ==
  /\ pc[p] = "send"
  /\ Dispatch(job[p])
  /\ Return(p)
  /\ UNCHANGED <<diskVars, capturing, processing, held>> /\ Quiet /\ Keep

\* recover_interrupted: what a retry finished meanwhile is left alone.
InterruptedM(r)  == OnDisk(r)  \* mutant: not looked at again
Interrupted2M(r) == meta[r].status = "recording"  \* mutant: what was stopped
Interrupted(r) == meta[r].status \in {"recording", "processing"}

\* recover_meta: too many interrupted attempts fail it.
RecoveredM(m) == [m EXCEPT !.status = "processing"]  \* mutant: no limit
Recovered(m) ==
  [m EXCEPT !.status = IF m.attempts >= MaxAttempts THEN "failed" ELSE "processing"]

RecoverList ==
  LET listed == {r \in Recs : Interrupted(r) /\ r # session} IN
  /\ pc[Startup] = "list" /\ lock = None
  /\ \A r \in listed : Untouched(r)
  /\ todo' = [todo EXCEPT ![Startup] = {Job(r, "transcribe") : r \in listed}]
  /\ Goto(Startup, "recover")
  /\ UNCHANGED <<diskVars, viewVars, queue, job, seen>> /\ Quiet /\ Keep

RecoverOne(r) ==
  LET j == Job(r, "transcribe") IN
  /\ pc[Startup] = "recover" /\ j \in todo[Startup]
  /\ todo' = [todo EXCEPT ![Startup] = @ \ {j}]
  /\ IF OnDisk(r) /\ Reservable(r)
       THEN queued' = queued \cup {j} /\ Go(Startup, "repair", j)
       ELSE UNCHANGED <<queued, pc, job, seen>>
  /\ UNCHANGED <<diskVars, capturing, processing, waiting, held, queue>>
  /\ Quiet /\ Keep

RecoverRepair ==
  LET r == job[Startup].rec IN
  /\ pc[Startup] = "repair"
  /\ meta' = [meta EXCEPT ![r] = IF Interrupted(r) THEN Recovered(@) ELSE @]
  /\ IF meta'[r].status = "processing"
       THEN Goto(Startup, "send") /\ UNCHANGED <<queued, job, seen, todo>>
       ELSE Unreserve(r) /\ Return(Startup)
  /\ UNCHANGED <<tracks, capturing, processing, waiting, held, queue>>
  /\ Quiet /\ Keep
----------------------------------------------------------------------------
(* Summaries: asked for, or queued again after a restart.  mark_pending    *)
(* reads recording.json, and writes it back with the mark.                 *)
Summarize(t, r) ==
  /\ Given(t, "summarize")
  /\ meta[r].status = "done"
  /\ Reservable(r)
  /\ queued' = queued \cup {Job(r, "asked")}
  /\ Go(t, "markRead", Job(r, "asked"))
  /\ UNCHANGED <<diskVars, capturing, processing, waiting, held, queue, todo>>
  /\ Quiet /\ Keep

MarkRead(p) ==
  /\ pc[p] = "markRead"
  /\ seen' = [seen EXCEPT ![p] = meta[job[p].rec]]
  /\ Goto(p, "markWrite")
  /\ UNCHANGED <<diskVars, viewVars, queue, job, todo>> /\ Quiet /\ Keep

MarkWrite(p) ==
  /\ pc[p] = "markWrite"
  /\ meta' = [meta EXCEPT ![job[p].rec] = [seen[p] EXCEPT !.summary = job[p].kind]]
  /\ Goto(p, "send")
  /\ UNCHANGED <<tracks, viewVars, queue, job, seen, todo>> /\ Quiet /\ Keep

MarkFails(p) ==
  /\ DiskFails /\ pc[p] = "markWrite"
  /\ Unreserve(job[p].rec)
  /\ Return(p)
  /\ UNCHANGED <<diskVars, capturing, processing, waiting, held, queue>>
  /\ Quiet /\ Keep

ResumeList ==
  /\ pc[Startup] = "recover" /\ todo[Startup] = {}
  /\ todo' = [todo EXCEPT ![Startup] =
       {Job(r, meta[r].summary) :
          r \in {x \in Recs : meta[x].status = "done" /\ meta[x].summary # "no"}}]
  /\ Goto(Startup, "resume")
  /\ UNCHANGED <<diskVars, viewVars, queue, job, seen>> /\ Quiet /\ Keep

ResumeOne(r, kind) ==
  LET j == Job(r, kind) IN
  /\ pc[Startup] = "resume" /\ j \in todo[Startup]
  /\ todo' = [todo EXCEPT ![Startup] = @ \ {j}]
  /\ IF Reservable(r)
       THEN queued' = queued \cup {j} /\ Go(Startup, "markRead", j)
       ELSE UNCHANGED <<queued, pc, job, seen>>
  /\ UNCHANGED <<diskVars, capturing, processing, waiting, held, queue>>
  /\ Quiet /\ Keep

\* Summaries were turned off: an automatic one is not made.
ResumeOff(r) ==
  LET j == Job(r, "auto") IN
  /\ pc[Startup] = "resume" /\ j \in todo[Startup]
  /\ todo' = [todo EXCEPT ![Startup] = @ \ {j}]
  /\ IF Holdable(r)
       THEN held' = held \cup {r} /\ Go(Startup, "clear", j)
       ELSE UNCHANGED <<held, pc, job, seen>>
  /\ UNCHANGED <<diskVars, capturing, processing, queued, waiting, queue>>
  /\ Quiet /\ Keep

ResumeClear ==
  /\ pc[Startup] = "clear"
  /\ meta' = [meta EXCEPT ![job[Startup].rec].summary = "no"]
  /\ held' = held \ {job[Startup].rec}
  /\ Return(Startup)
  /\ UNCHANGED <<tracks, capturing, processing, queued, waiting, queue>>
  /\ Quiet /\ Keep
----------------------------------------------------------------------------
(* The network retries: at startup of what is waiting on disk, later of    *)
(* what the view shows as waiting.                                         *)
TimerTick ==
  /\ pc[Timer] = "idle" /\ waiting # {}
  /\ todo' = [todo EXCEPT ![Timer] = {Job(r, "network") : r \in waiting}]
  /\ Goto(Timer, "scan")
  /\ UNCHANGED <<diskVars, viewVars, queue, job, seen>> /\ Quiet /\ Keep

StartupScan ==
  /\ pc[Startup] = "resume" /\ todo[Startup] = {}
  /\ todo' = [todo EXCEPT ![Startup] =
       {Job(r, "network") : r \in {x \in Recs : meta[x].status = "waiting"}}]
  /\ Goto(Startup, "scan")
  /\ UNCHANGED <<diskVars, viewVars, queue, job, seen>> /\ Quiet /\ Keep

\* network_retry_due; the deadline may have passed at any time.
OutOfTries(r)    == meta[r].tries # None /\ meta[r].tries >= NetworkMax
MayRetry(r)      == ~OutOfTries(r)
MayGiveUp(r)     == meta[r].tries # None
MayWait(p, r)    == p = Timer /\ meta[r].tries # None /\ ~OutOfTries(r)

Scanning(p, r) ==
  /\ pc[p] = "scan" /\ Job(r, "network") \in todo[p]
  /\ todo' = [todo EXCEPT ![p] = @ \ {Job(r, "network")}]
  /\ UNCHANGED <<diskVars, capturing, processing, held>> /\ Quiet /\ Keep

\* A retry has it by now, or it was deleted.
ScanGone(p, r) ==
  /\ Scanning(p, r) /\ meta[r].status # "waiting"
  /\ waiting' = waiting \ {r}
  /\ UNCHANGED <<queued, queue, pc, job, seen>>

ScanNotYet(p, r) ==
  /\ Scanning(p, r) /\ meta[r].status = "waiting" /\ MayWait(p, r)
  /\ waiting' = waiting \cup {r}
  /\ UNCHANGED <<queued, queue, pc, job, seen>>

ScanDue(p, r) ==
  /\ Scanning(p, r) /\ meta[r].status = "waiting" /\ MayRetry(r)
  /\ Enqueue(Job(r, "network"))
  /\ UNCHANGED <<pc, job, seen>>

ScanGiveUp(p, r) ==
  /\ Scanning(p, r) /\ meta[r].status = "waiting" /\ MayGiveUp(r)
  /\ IF Reservable(r)
       THEN /\ queued' = queued \cup {Job(r, "network")}
            /\ Go(p, "giveUp", Job(r, "network"))
       ELSE UNCHANGED <<queued, pc, job, seen>>
  /\ UNCHANGED <<waiting, queue>>

GiveUp(p) ==
  LET r == job[p].rec IN
  /\ pc[p] = "giveUp"
  /\ meta' = [meta EXCEPT ![r].status = "failed"]
  /\ waiting' = waiting \ {r}
  /\ Unreserve(r)
  /\ Return(p)
  /\ UNCHANGED <<tracks, capturing, processing, held, queue>> /\ Quiet /\ Keep

TimerDone ==
  /\ pc[Timer] = "scan" /\ todo[Timer] = {}
  /\ Goto(Timer, "idle")
  /\ UNCHANGED <<diskVars, viewVars, queue, job, seen, todo>> /\ Quiet /\ Keep

StartupScanned ==
  /\ pc[Startup] = "scan" /\ todo[Startup] = {}
  /\ Goto(Startup, "sweep")
  /\ UNCHANGED <<diskVars, viewVars, queue, job, seen, todo>> /\ Quiet /\ Keep
----------------------------------------------------------------------------
(* Renaming a speaker, and deleting a recording.                           *)
Name(t, r) ==
  /\ Given(t, "name")
  /\ meta[r].status = "done"
  /\ Holdable(r)
  /\ held' = held \cup {r}
  /\ Go(t, "nameRead", Job(r, "asked"))
  /\ UNCHANGED <<diskVars, capturing, processing, queued, waiting, queue, todo>>
  /\ Quiet /\ Keep

NameRead(t) ==
  /\ pc[t] = "nameRead"
  /\ seen' = [seen EXCEPT ![t] = meta[job[t].rec]]
  /\ Goto(t, "nameWrite")
  /\ UNCHANGED <<diskVars, viewVars, queue, job, todo>> /\ Quiet /\ Keep

NameWrite(t) ==
  LET r == job[t].rec IN
  /\ pc[t] = "nameWrite"
  /\ meta' = [meta EXCEPT ![r] = [seen[t] EXCEPT !.named = TRUE]]
  /\ told' = told \cup {r}
  /\ held' = held \ {r}
  /\ Return(t)
  /\ UNCHANGED <<tracks, capturing, processing, queued, waiting, queue, spent,
                 crashes>> /\ Quiet

\* The status is read before it waits for the session mutex.
Delete(t, r) ==
  /\ Given(t, "delete")
  /\ meta[r].status \in {"done", "failed", "waiting"}
  /\ Go(t, "deleteHold", Job(r, "asked"))
  /\ UNCHANGED <<diskVars, viewVars, queue, todo>> /\ Quiet /\ Keep

DeleteHold(t) ==
  LET r == job[t].rec IN
  /\ pc[t] = "deleteHold" /\ lock = None
  /\ IF session # r /\ Deletable(r)
       THEN /\ held' = held \cup {r}
            /\ Goto(t, "delete")
            /\ UNCHANGED <<job, seen, todo>>
       ELSE Return(t) /\ UNCHANGED held
  /\ UNCHANGED <<diskVars, capturing, processing, queued, waiting, queue>>
  /\ Quiet /\ Keep

DeleteRemove(t) ==
  LET r == job[t].rec IN
  /\ pc[t] = "delete"
  /\ meta' = [meta EXCEPT ![r] = Fresh("gone")]
  /\ tracks' = [tracks EXCEPT ![r] = "none"]
  /\ held' = held \ {r}
  /\ waiting' = waiting \ {r}
  /\ told' = told \ {r}
  /\ Return(t)
  /\ UNCHANGED <<capturing, processing, queued, queue, spent, crashes>>
  /\ Quiet
----------------------------------------------------------------------------
(* The worker: one job at a time, transcriptions first.                    *)
IsNext(i) ==
  IF \E k \in DOMAIN queue : Transcribes(queue[k])
    THEN Transcribes(queue[i]) /\ \A k \in 1..(i - 1) : ~Transcribes(queue[k])
    ELSE i = 1

\* count_attempt and count_network_attempt, before the attempt.
Tries(m) == IF m.tries = None THEN 0 ELSE m.tries
Counted(m, kind) ==
  IF kind = "transcribe"
    THEN [m EXCEPT !.attempts = @ + 1]
    ELSE [m EXCEPT !.tries = IF @ = None THEN None ELSE @ + 1]

WorkerTake ==
  /\ pc[Worker] = "idle"
  /\ \E i \in DOMAIN queue :
       LET j == queue[i] IN
       /\ IsNext(i)
       /\ queue' = RemoveAt(queue, i)
       /\ Unreserve(j.rec)
       /\ processing' = j
       /\ IF Transcribes(j)
            THEN /\ meta' = [meta EXCEPT ![j.rec] = Counted(@, j.kind)]
                 /\ Go(Worker, "begin", j)
            ELSE Go(Worker, "make", j) /\ UNCHANGED meta
  /\ UNCHANGED <<tracks, capturing, waiting, held, todo>> /\ Quiet /\ Keep

\* process_recording reads recording.json here and writes it when it is done.
WorkerBegin ==
  LET r == job[Worker].rec
      m == [meta[r] EXCEPT !.status = "processing"] IN
  /\ pc[Worker] = "begin"
  /\ meta' = [meta EXCEPT ![r] = m]
  /\ seen' = [seen EXCEPT ![Worker] = m]
  /\ Goto(Worker, "run")
  /\ UNCHANGED <<tracks, viewVars, queue, job, todo>> /\ Quiet /\ Keep

Attempt(r) ==
  /\ pc[Worker] = "run" /\ r = job[Worker].rec
  /\ processing' = None
  /\ spent' = [spent EXCEPT ![r] = @ + 1]
  /\ UNCHANGED <<tracks, capturing, held, queue, told, crashes>> /\ Quiet

Transcribed(r) == [seen[Worker] EXCEPT !.status = "done", !.tries = None,
                                       !.summary = "no"]

WorkerDone(r) ==
  /\ Attempt(r) /\ HasAudio(r)
  /\ meta' = [meta EXCEPT ![r] = Transcribed(r)]
  /\ Return(Worker)
  /\ UNCHANGED <<queued, waiting>>

\* With [recording] summary: its summary is queued as a job of its own.
WorkerDoneSummary(r) ==
  /\ "summarize" \in Asks
  /\ Attempt(r) /\ HasAudio(r)
  /\ meta' = [meta EXCEPT ![r] = Transcribed(r)]
  /\ queued' = queued \cup {Job(r, "auto")}
  /\ Go(Worker, "markRead", Job(r, "auto"))
  /\ UNCHANGED <<waiting, todo>>

WorkerFail(r) ==
  /\ Attempt(r)
  /\ meta' = [meta EXCEPT ![r].status = "failed"]
  /\ Return(Worker)
  /\ UNCHANGED <<queued, waiting>>

WaitForNetwork(m) == [m EXCEPT !.status = "waiting", !.tries = Tries(m)]

WorkerNetworkM(r) ==  \* mutant: marked, and not shown as waiting
  /\ Attempt(r)
  /\ meta' = [meta EXCEPT ![r] = WaitForNetwork(@)]
  /\ Return(Worker)
  /\ UNCHANGED <<queued, waiting>>
WorkerNetwork(r) ==
  /\ Attempt(r)
  /\ meta' = [meta EXCEPT ![r] = WaitForNetwork(@)]
  /\ waiting' = waiting \cup {r}
  /\ Return(Worker)
  /\ UNCHANGED queued

\* summarize_one: the recording is held only to write the summary.
SummaryHold ==
  LET r == job[Worker].rec IN
  /\ pc[Worker] = "make" /\ meta[r].status = "done" /\ Holdable(r)
  /\ held' = held \cup {r}
  /\ Goto(Worker, "summary")
  /\ UNCHANGED <<diskVars, capturing, processing, queued, waiting, queue, job,
                 seen, todo>> /\ Quiet /\ Keep

SummaryWrite ==
  LET r == job[Worker].rec IN
  /\ pc[Worker] = "summary"
  /\ meta' = [meta EXCEPT ![r].summary = "no"]
  /\ held' = held \ {r}
  /\ processing' = None
  /\ Return(Worker)
  /\ UNCHANGED <<tracks, capturing, queued, waiting, queue>> /\ Quiet /\ Keep

\* Its snapshot has no transcript: it is not made.
SummaryRefused ==
  LET r == job[Worker].rec IN
  /\ pc[Worker] = "make" /\ meta[r].status # "done"
  /\ meta' = [meta EXCEPT ![r].summary = "no"]
  /\ processing' = None
  /\ Return(Worker)
  /\ UNCHANGED <<tracks, capturing, queued, waiting, held, queue>>
  /\ Quiet /\ Keep

\* Held for longer than SUMMARY_WRITE_WAIT: dropped, the mark stays.
SummaryTimeout ==
  /\ pc[Worker] = "make" /\ meta[job[Worker].rec].status = "done"
  /\ ~Holdable(job[Worker].rec)
  /\ processing' = None
  /\ Return(Worker)
  /\ UNCHANGED <<diskVars, capturing, queued, waiting, held, queue>>
  /\ Quiet /\ Keep
----------------------------------------------------------------------------
(* The retention sweep, after every job and at startup.                    *)
Expired(r) == meta[r].status = "done" /\ HasAudio(r)

SweepList(p) ==
  /\ pc[p] = "sweep"
  /\ \E due \in SUBSET {r \in Recs : Expired(r)} :
       todo' = [todo EXCEPT ![p] = {Job(r, "asked") : r \in due}]
  /\ Goto(p, "sweeping")
  /\ UNCHANGED <<diskVars, viewVars, queue, job, seen>> /\ Quiet /\ Keep

SweepHold(p, r) ==
  LET j == Job(r, "asked") IN
  /\ pc[p] = "sweeping" /\ j \in todo[p]
  /\ todo' = [todo EXCEPT ![p] = @ \ {j}]
  /\ IF Holdable(r)
       THEN held' = held \cup {r} /\ Go(p, "swept", j)
       ELSE UNCHANGED <<held, pc, job, seen>>
  /\ UNCHANGED <<diskVars, capturing, processing, queued, waiting, queue>>
  /\ Quiet /\ Keep

SweepWrite(p) ==
  LET r == job[p].rec IN
  /\ pc[p] = "swept"
  /\ tracks' = [tracks EXCEPT ![r] = IF Expired(r) THEN "deleted" ELSE @]
  /\ held' = held \ {r}
  /\ Goto(p, "sweeping")
  /\ job' = [job EXCEPT ![p] = None]
  /\ UNCHANGED <<meta, capturing, processing, queued, waiting, queue, seen, todo>>
  /\ Quiet /\ Keep

SweepDone(p) ==
  /\ pc[p] = "sweeping" /\ todo[p] = {}
  /\ Goto(p, IF p = Worker THEN "idle" ELSE "over")
  /\ UNCHANGED <<diskVars, viewVars, queue, job, seen, todo>> /\ Quiet /\ Keep
----------------------------------------------------------------------------
(* Shutdown: the worker is aborted where it awaits, and gives its attempt  *)
(* back; one that does not stop in time is left running.                   *)
Attempting(r) == pc[Worker] \in {"begin", "run"} /\ job[Worker].rec = r

\* uncount_attempt, rewait: only of a recording still processing.
GivenBackM(m, kind) ==  \* mutant: an aborted attempt stays counted
  IF kind = "network" THEN [m EXCEPT !.status = "waiting"] ELSE m
GivenBackTwiceM(m, kind) ==  \* mutant: by the worker and the shutdown
  IF kind = "network" THEN [m EXCEPT !.status = "waiting"]
                      ELSE [m EXCEPT !.attempts = @ - 2]
GivenBack(m, kind) ==
  IF m.status # "processing" THEN m
  ELSE IF kind = "network"
    THEN [m EXCEPT !.status = IF m.tries = None THEN @ ELSE "waiting"]
    ELSE [m EXCEPT !.attempts = IF @ = 0 THEN 0 ELSE @ - 1]

ShutdownBegin ==
  /\ ~shutting /\ crashes < MaxCrashes
  /\ shutting' = TRUE
  /\ UNCHANGED <<tracks, lock, session, viewVars, queue, ending, seen, todo,
                 told, crashes>>

ShutdownIdle ==
  /\ ShutdownBegin
  /\ pc[Worker] \in {"idle", "make"}
  /\ Goto(Worker, "dead")
  /\ job' = [job EXCEPT ![Worker] = None]
  /\ UNCHANGED <<meta, spent>>

ShutdownAttempt ==
  LET j == job[Worker] IN
  /\ ShutdownBegin
  /\ pc[Worker] = "run"
  /\ meta' = [meta EXCEPT ![j.rec] = GivenBack(@, j.kind)]
  /\ spent' = [spent EXCEPT ![j.rec] = IF j.kind = "network" THEN @ + 1 ELSE @]
  /\ Goto(Worker, "dead")
  /\ job' = [job EXCEPT ![Worker] = None]

ShutdownLate ==
  /\ ShutdownBegin
  /\ pc[Worker] \notin {"idle", "make"}
  /\ UNCHANGED <<meta, pc, job, spent>>

(* The daemon is gone: what is left is the disk, and its start follows.    *)
Restart ==
  /\ lock' = None /\ session' = None
  /\ capturing' = None /\ processing' = None
  /\ queued' = {} /\ waiting' = {} /\ held' = {} /\ queue' = <<>>
  /\ shutting' = FALSE
  /\ ending' = [r \in Recs |-> "no"]
  /\ pc' = Start0
  /\ job' = [p \in Procs |-> None]
  /\ seen' = [p \in Procs |-> None]
  /\ todo' = [p \in Procs |-> {}]
  /\ crashes' = crashes + 1
  /\ spent' = [r \in Recs |-> spent[r] + IF Attempting(r) THEN 1 ELSE 0]
  /\ UNCHANGED told

Closed(r) == IF tracks[r] \in {"live", "stuck"} THEN "ended" ELSE tracks[r]

Crash ==
  /\ crashes < MaxCrashes
  /\ Restart
  /\ tracks' = [r \in Recs |-> Closed(r)]
  /\ UNCHANGED meta

\* The recording in progress is finalized and left for the next start.
Exit ==
  /\ shutting /\ lock = None
  /\ Restart
  /\ tracks' = [r \in Recs |-> Closed(r)]
  /\ meta' = IF session = None THEN meta
             ELSE [meta EXCEPT ![session] = Fresh("processing")]

\* A start still opening its devices: nothing of it is kept without audio.
ExitAbandon ==
  LET r == job[lock].rec
      starting == job[lock] # None
      frames == starting /\ tracks[r] # "none" IN
  /\ shutting /\ lock # None
  /\ Restart
  /\ \E keep \in {FALSE, frames} :
       IF starting /\ ~keep
         THEN /\ meta' = [meta EXCEPT ![r] = Fresh("gone")]
              /\ tracks' = [x \in Recs |-> IF x = r THEN "none" ELSE Closed(x)]
         ELSE /\ tracks' = [x \in Recs |-> Closed(x)]
              /\ UNCHANGED meta
----------------------------------------------------------------------------
Command(t) ==
  \/ StartLock(t)
  \/ \E r \in Recs : Retry(t, r) \/ Summarize(t, r) \/ Name(t, r) \/ Delete(t, r)

TaskStep(t) ==
  \/ StartRefused(t) \/ (\E r \in Recs : StartCreate(t, r)) \/ StartFails(t)
  \/ StartWrite(t) \/ StartOpen(t) \/ StartShow(t)
  \/ RetryClaim(t) \/ RetryRepair(t) \/ RepairFails(t) \/ Send(t)
  \/ MarkRead(t) \/ MarkWrite(t) \/ MarkFails(t)
  \/ NameRead(t) \/ NameWrite(t)
  \/ DeleteHold(t) \/ DeleteRemove(t)

EndingStep(r) ==
  StopFinish(r) \/ StopStuck(r) \/ StopEnqueue(r) \/ CancelFinish(r)

WorkerStep ==
  \/ WorkerTake \/ WorkerBegin
  \/ \E r \in Recs :
       WorkerDone(r) \/ WorkerDoneSummary(r) \/ WorkerFail(r) \/ WorkerNetwork(r)
  \/ MarkRead(Worker) \/ MarkWrite(Worker) \/ MarkFails(Worker) \/ Send(Worker)
  \/ SummaryHold \/ SummaryWrite \/ SummaryRefused \/ SummaryTimeout
  \/ SweepList(Worker) \/ SweepWrite(Worker) \/ SweepDone(Worker)
  \/ \E r \in Recs : SweepHold(Worker, r)

ScanStep(p) ==
  \/ \E r \in Recs :
       ScanGone(p, r) \/ ScanNotYet(p, r) \/ ScanDue(p, r) \/ ScanGiveUp(p, r)
  \/ GiveUp(p)

StartupStep ==
  \/ RecoverRepair \/ RepairFails(Startup) \/ Send(Startup)
  \/ ResumeList \/ ResumeClear
  \/ MarkRead(Startup) \/ MarkWrite(Startup) \/ MarkFails(Startup)
  \/ \E r \in Recs :
       \/ RecoverOne(r) \/ ResumeOff(r) \/ SweepHold(Startup, r)
       \/ \E kind \in {"asked", "auto"} : ResumeOne(r, kind)
  \/ StartupScan \/ ScanStep(Startup) \/ StartupScanned
  \/ SweepList(Startup) \/ SweepWrite(Startup) \/ SweepDone(Startup)

TimerStep == TimerTick \/ ScanStep(Timer) \/ TimerDone

Next ==
  \/ \E t \in Tasks : Command(t) \/ TaskStep(t)
  \/ Stop \/ Cancel
  \/ \E r \in Recs : EndingStep(r) \/ StuckEnds(r)
  \/ WorkerStep
  \/ RecoverList \/ StartupStep
  \/ TimerStep
  \/ ShutdownIdle \/ ShutdownAttempt \/ ShutdownLate
  \/ Crash \/ Exit \/ ExitAbandon

Spec == Init /\ [][Next]_vars

\* Every task that was begun is run; the session mutex is fair.
Fairness ==
  /\ \A t \in Tasks : WF_vars(TaskStep(t)) /\ SF_vars(RetryClaim(t))
  /\ \A r \in Recs : WF_vars(EndingStep(r))
  /\ WF_vars(WorkerStep) /\ WF_vars(StartupStep) /\ SF_vars(RecoverList)
  /\ WF_vars(Exit \/ ExitAbandon)

FairSpec == Spec /\ Fairness
----------------------------------------------------------------------------
\* The status the user sees, and who asked for another transcription.
Shown(m) == IF m.status = "claimed" THEN "none" ELSE m.status
Wanted   ==
  {r \in Recs : OnDisk(r) /\ \E t \in Tasks : pc[t] = "repair" /\ job[t].rec = r}

Lifecycle == INSTANCE RecordingLifecycle WITH
  status <- [r \in Recs |-> Shown(meta[r])],
  wanted <- Wanted

\* Whatever overlaps, crashes and restarts: a recording's status changes as
\* RecordingLifecycle allows, a transcript is replaced only for a retry that
\* somebody asked for, and no recording is left processing for ever.
KeepsItsPromises == Lifecycle!Spec
\* At most one of the processes that rewrite a recording's files, or read
\* them to rewrite them later, has it at a time: a transcription, a recovery
\* or retry that repairs its tracks, a rename, the sweep, a delete.
Owns(p, r) ==
  /\ job[p] # None /\ job[p].rec = r
  /\ pc[p] \in {"repair", "giveUp", "clear", "nameRead", "nameWrite", "delete",
                "swept", "begin", "run", "summary"}
OneOwner ==
  \A r \in Recs, p, q \in Procs : Owns(p, r) /\ Owns(q, r) => p = q

\* What is shown as being recorded is the session, or a recording whose stop
\* is not finished: the end of one never hides the next.
CapturingIsLive ==
  /\ session # None => capturing = session
  /\ capturing # None => \/ capturing = session
                         \/ ending[capturing] \in {"stop", "cancel"}

\* A recording that is not finished is always somebody's: recorded, being
\* stopped, queued or processed, or on the list of the start's recovery.
Recovering(r) == \/ pc[Startup] = "list"
                 \/ Job(r, "transcribe") \in todo[Startup]
Recording(r)  == \/ session = r \/ ending[r] # "no"
                 \/ \E t \in Tasks : job[t] # None /\ job[t].rec = r
                                     /\ pc[t] \in {"open", "show"}
NothingForgotten ==
  \A r \in Recs :
    \/ meta[r].status \notin {"recording", "processing"}
    \/ Pending(r) \/ Recovering(r) \/ Recording(r) \/ shutting

\* A recording that waits for the network is on the list the retries go
\* through, already taken from it, or to be found by the start's scan.
WaitingIsWatched ==
  \A r \in Recs :
    \/ meta[r].status # "waiting"
    \/ r \in waiting \/ r \in held \/ Pending(r) \/ shutting
    \/ pc[Startup] \in {"list", "recover", "resume"}
    \/ pc[Startup] \in {"repair", "send", "markRead", "markWrite", "clear"}
    \/ pc[Startup] \in {"scan", "giveUp"} /\ Job(r, "network") \in todo[Startup]

\* Attempts are counted exactly: one that a shutdown aborts is free, unless it
\* was a retry for the network, and one that takes the daemon down is not.
FairCount ==
  \A r \in Recs :
    meta[r].status \in {"processing", "failed", "waiting"} =>
      meta[r].attempts + Tries(meta[r]) = spent[r] + IF Attempting(r) THEN 1 ELSE 0

\* However often the daemon dies, a recording is tried at most MAX_ATTEMPTS
\* and NETWORK_RETRY_MAX times before somebody is asked to retry it.
CrashLoopEnds == \A r \in Recs : spent[r] <= MaxAttempts + NetworkMax

\* Nobody repairs or transcribes tracks that are still being written.
LiveTrackUntouched ==
  \A r \in Recs, p \in Procs :
    tracks[r] \in {"live", "stuck"} /\ job[p] # None /\ job[p].rec = r
      => pc[p] \notin {"repair", "begin", "run"}

\* A rename that was reported done stays.
RenameKept == \A r \in told : meta[r].named
=============================================================================
