-------------------------- MODULE RecordingsProofs --------------------------
(***************************************************************************)
(* Theorems about Recordings, for any recordings, tasks, limits and        *)
(* commands.  First, every variable keeps its type: a step of a process    *)
(* moves it (Moves) and leaves the other processes where they are; what a  *)
(* process carries fits the step it is at (Fits).  Then, one owner at a    *)
(* time: a process that works on a recording has reserved it (it is in the *)
(* view's queued), holds it (held), or is the worker with it (processing), *)
(* and these three exclude each other as far as they rewrite the           *)
(* recording.  Each step has one of a dozen effects on them.  Last, who    *)
(* touches which recording: every step is of a kind, a kind says which     *)
(* recording it is about, and a step about another one changes nothing of  *)
(* this one.  On that rest the invariants about the life of one recording, *)
(* and that what the view shows as being captured is live.                 *)
(***************************************************************************)
EXTENDS Recordings, SequenceTheorems, TLAPS
\* The steps of a process that works on a recording.
JobSteps == {"write", "open", "show", "claim", "repair", "send", "markRead",
             "markWrite", "giveUp", "clear", "nameRead", "nameWrite",
             "deleteHold", "delete", "swept", "begin", "run", "make", "summary"}

Fits(step, j, m) ==
  /\ step \in JobSteps => j \in Jobs
  /\ step \in {"markWrite", "nameWrite", "run"} => m \in Meta
  /\ step \in {"claim", "repair", "giveUp", "begin", "run"} => Transcribes(j)
  /\ step \in {"markRead", "markWrite"} => ~Transcribes(j)

Moves(p, step, j, m) ==
  /\ pc' = [pc EXCEPT ![p] = step]
  /\ job' = [job EXCEPT ![p] = j]
  /\ seen' = [seen EXCEPT ![p] = m]

TypeProcs ==
  /\ pc \in [Procs -> Steps] /\ \A p \in Procs : pc[p] \in StepsOf(p)
  /\ job \in [Procs -> Opt(Jobs)]
  /\ seen \in [Procs -> Opt(Meta)]
  /\ \A p \in Procs : Fits(pc[p], job[p], seen[p])

TypeTodo == todo \in [Procs -> SUBSET Jobs]

TypeDisk ==
  /\ meta \in [Recs -> Meta]
  /\ tracks \in [Recs -> Tracks]
  /\ spent \in [Recs -> Nat]
  /\ told \subseteq Recs

TypeView ==
  /\ lock \in Opt(Tasks)
  /\ session \in Opt(Recs)
  /\ capturing \in Opt(Recs)
  /\ processing \in Opt(Jobs)
  /\ queued \subseteq Jobs
  /\ waiting \subseteq Recs
  /\ held \subseteq Recs
  /\ queue \in Seq(Jobs)
  /\ ending \in [Recs -> {"no", "stop", "cancel", "enqueue"}]

\* A shutdown that has begun ends in one of the counted restarts.
TypeCrashes ==
  /\ shutting \in BOOLEAN
  /\ crashes \in 0..MaxCrashes
  /\ shutting => crashes < MaxCrashes

TypeInv == TypeProcs /\ TypeTodo /\ TypeDisk /\ TypeView /\ TypeCrashes
----------------------------------------------------------------------------
(* The processes. *)

LEMMA ProcSteps ==
  ASSUME NEW p \in Procs
  PROVE  /\ p \in Tasks  => StepsOf(p) = TaskSteps
         /\ p = Worker   => StepsOf(p) = WorkerSteps
         /\ p = Startup  => StepsOf(p) = StartupSteps
         /\ p = Timer    => StepsOf(p) = TimerSteps
         /\ StepsOf(p) \subseteq Steps
BY ProcsAssumption DEF StepsOf, Procs, Steps

\* Where a process is allows where it goes.
LEMMA Routes ==
  ASSUME NEW p \in Procs
  PROVE  /\ Home(p) \in StepsOf(p)
         /\ "repair" \in StepsOf(p) => "send" \in StepsOf(p)
         /\ "markRead" \in StepsOf(p) => "markWrite" \in StepsOf(p)
         /\ "markWrite" \in StepsOf(p) => "send" \in StepsOf(p)
         /\ "scan" \in StepsOf(p) => "giveUp" \in StepsOf(p)
         /\ "sweep" \in StepsOf(p) => "sweeping" \in StepsOf(p)
         /\ "sweeping" \in StepsOf(p) => "swept" \in StepsOf(p)
         /\ "swept" \in StepsOf(p) => "sweeping" \in StepsOf(p)
<1>1. /\ p \in Tasks  => StepsOf(p) = TaskSteps /\ Home(p) = "idle"
      /\ p = Worker   => StepsOf(p) = WorkerSteps /\ Home(p) = "sweep"
      /\ p = Startup  => StepsOf(p) = StartupSteps
                         /\ Home(p) \in {"scan", "resume", "recover"}
      /\ p = Timer    => StepsOf(p) = TimerSteps /\ Home(p) = "scan"
  BY ProcsAssumption, ProcSteps DEF Home
<1>2. p \in Tasks \/ p = Worker \/ p = Startup \/ p = Timer
  BY DEF Procs
<1>3. QED
  BY <1>1, <1>2 DEF TaskSteps, WorkerSteps, StartupSteps, TimerSteps

\* A process at home carries nothing.
LEMMA HomeFits ==
  ASSUME NEW p \in Procs
  PROVE  Home(p) \notin JobSteps /\ Fits(Home(p), None, None)
<1>1. Home(p) \in {"idle", "sweep", "scan", "resume", "recover"}
  BY ProcsAssumption DEF Home, Procs
<1>2. QED BY <1>1 DEF JobSteps, Fits

LEMMA MovesType ==
  ASSUME TypeProcs, NEW p \in Procs, NEW step \in StepsOf(p), NEW j \in Opt(Jobs),
         NEW m \in Opt(Meta), Fits(step, j, m), Moves(p, step, j, m)
  PROVE  TypeProcs'
<1>1. /\ pc'[p] = step /\ job'[p] = j /\ seen'[p] = m
      /\ \A q \in Procs \ {p} : pc'[q] = pc[q] /\ job'[q] = job[q] /\ seen'[q] = seen[q]
  BY DEF Moves, TypeProcs
<1>2. /\ pc' \in [Procs -> Steps] /\ \A q \in Procs : pc'[q] \in StepsOf(q)
  <2>1. step \in Steps
    BY ProcSteps
  <2>2. pc' \in [Procs -> Steps]
    BY <2>1 DEF Moves, TypeProcs
  <2>3. QED BY <1>1, <2>2 DEF TypeProcs
<1>3. job' \in [Procs -> Opt(Jobs)] /\ seen' \in [Procs -> Opt(Meta)]
  BY DEF Moves, TypeProcs
<1>4. \A q \in Procs : Fits(pc'[q], job'[q], seen'[q])
  BY <1>1 DEF TypeProcs
<1>5. QED BY <1>2, <1>3, <1>4 DEF TypeProcs, StepsOf

LEMMA ReturnType ==
  ASSUME TypeProcs, NEW p \in Procs, Return(p)
  PROVE  TypeProcs' /\ Moves(p, Home(p), None, None)
<1>1. Moves(p, Home(p), None, None)
  BY DEF Return, Goto, Moves
<1>2. QED BY <1>1, Routes, HomeFits, MovesType DEF Opt

LEMMA GoType ==
  ASSUME TypeProcs, NEW p \in Procs, NEW step \in StepsOf(p), NEW j \in Jobs,
         Fits(step, j, seen[p]), Go(p, step, j)
  PROVE  TypeProcs' /\ Moves(p, step, j, seen[p])
<1>1. Moves(p, step, j, seen[p])
  BY DEF Go, Goto, Moves, TypeProcs
<1>2. QED BY <1>1, MovesType DEF TypeProcs, Opt

LEMMA GotoType ==
  ASSUME TypeProcs, NEW p \in Procs, NEW step \in StepsOf(p),
         Fits(step, job[p], seen[p]), Goto(p, step), UNCHANGED <<job, seen>>
  PROVE  TypeProcs' /\ Moves(p, step, job[p], seen[p])
<1>1. Moves(p, step, job[p], seen[p])
  BY DEF Goto, Moves, TypeProcs
<1>2. QED BY <1>1, MovesType DEF TypeProcs, Opt

LEMMA StayType ==
  ASSUME TypeProcs, UNCHANGED <<pc, job, seen>>
  PROVE  TypeProcs'
BY DEF TypeProcs, StepsOf

LEMMA RestartType ==
  ASSUME Restart
  PROVE  TypeProcs' /\ TypeTodo'
<1>1. \A p \in Procs : Start0[p] \in StepsOf(p) /\ Start0[p] \in {"list", "idle"}
  BY ProcSteps DEF Start0, TaskSteps, WorkerSteps, StartupSteps, TimerSteps, Procs
<1>2. pc' \in [Procs -> Steps] /\ \A p \in Procs : pc'[p] \in StepsOf(p)
  BY <1>1, ProcSteps DEF Restart, Start0
<1>3. \A p \in Procs : Fits(pc'[p], job'[p], seen'[p])
  BY <1>1 DEF Restart, Fits, JobSteps
<1>4. QED BY <1>2, <1>3 DEF Restart, TypeProcs, TypeTodo, Opt, StepsOf

LEMMA JobType ==
  ASSUME NEW r \in Recs, NEW kind \in Kinds
  PROVE  /\ Job(r, kind) \in Jobs /\ Job(r, kind).rec = r
         /\ Transcribes(Job(r, kind)) <=> kind \in {"transcribe", "network"}
BY DEF Job, Jobs, Transcribes

\* The steps several processes take.
LEMMA SharedProcs ==
  ASSUME TypeProcs, TypeDisk, NEW p \in Procs,
         \/ RepairFails(p) \/ Send(p) \/ MarkRead(p) \/ MarkWrite(p) \/ MarkFails(p)
         \/ GiveUp(p) \/ SweepList(p) \/ SweepWrite(p) \/ (\E r \in Recs : SweepHold(p, r))
         \/ \E r \in Recs : ScanGone(p, r) \/ ScanNotYet(p, r) \/ ScanDue(p, r)
                             \/ ScanGiveUp(p, r)
  PROVE  TypeProcs'
<1>1. CASE RepairFails(p) \/ Send(p) \/ MarkFails(p) \/ GiveUp(p)
  BY <1>1, ReturnType DEF RepairFails, Send, MarkFails, GiveUp
<1>2. CASE MarkRead(p)
  <2>1. pc[p] = "markRead" /\ "markWrite" \in StepsOf(p)
    BY <1>2, Routes DEF MarkRead, TypeProcs
  <2>2. Fits("markWrite", job[p], meta[job[p].rec]) /\ meta[job[p].rec] \in Meta
    BY <2>1 DEF TypeProcs, TypeDisk, Fits, JobSteps, Jobs
  <2>3. Moves(p, "markWrite", job[p], meta[job[p].rec])
    BY <1>2 DEF MarkRead, Goto, Moves, TypeProcs
  <2>4. QED BY <2>1, <2>2, <2>3, MovesType DEF TypeProcs, Opt
<1>3. CASE MarkWrite(p)
  <2>1. pc[p] = "markWrite" /\ "send" \in StepsOf(p)
    BY <1>3, Routes DEF MarkWrite, TypeProcs
  <2>2. Fits("send", job[p], seen[p])
    BY <2>1 DEF TypeProcs, Fits, JobSteps
  <2>3. QED BY <1>3, <2>1, <2>2, GotoType DEF MarkWrite
<1>4. CASE SweepList(p)
  <2>1. "sweeping" \in StepsOf(p) /\ Fits("sweeping", job[p], seen[p])
    BY <1>4, Routes DEF SweepList, TypeProcs, Fits, JobSteps
  <2>2. QED BY <1>4, <2>1, GotoType DEF SweepList
<1>5. CASE SweepWrite(p)
  <2>1. "sweeping" \in StepsOf(p) /\ Fits("sweeping", None, seen[p])
    BY <1>5, Routes DEF SweepWrite, TypeProcs, Fits, JobSteps
  <2>2. Moves(p, "sweeping", None, seen[p])
    BY <1>5 DEF SweepWrite, Goto, Moves, TypeProcs
  <2>3. QED BY <2>1, <2>2, MovesType DEF TypeProcs, Opt
<1>6. ASSUME NEW r \in Recs, SweepHold(p, r) PROVE TypeProcs'
  <2>1. "swept" \in StepsOf(p) /\ Job(r, "asked") \in Jobs
    BY <1>6, Routes, JobType DEF SweepHold, TypeProcs, Kinds
  <2>2. Fits("swept", Job(r, "asked"), seen[p])
    BY <2>1 DEF Fits
  <2>3. QED BY <1>6, <2>1, <2>2, GoType, StayType DEF SweepHold
<1>7. ASSUME NEW r \in Recs, ScanGone(p, r) \/ ScanNotYet(p, r) \/ ScanDue(p, r)
      PROVE  TypeProcs'
  BY <1>7, StayType DEF ScanGone, ScanNotYet, ScanDue, Scanning
<1>8. ASSUME NEW r \in Recs, ScanGiveUp(p, r) PROVE TypeProcs'
  <2>1. "giveUp" \in StepsOf(p) /\ Job(r, "network") \in Jobs
    BY <1>8, Routes, JobType DEF ScanGiveUp, Scanning, TypeProcs, Kinds
  <2>2. Fits("giveUp", Job(r, "network"), seen[p])
    BY <2>1, JobType DEF Fits, Kinds
  <2>3. QED BY <1>8, <2>1, <2>2, GoType, StayType DEF ScanGiveUp
<1>9. QED BY <1>1, <1>2, <1>3, <1>4, <1>5, <1>6, <1>7, <1>8

LEMMA TaskProcs ==
  ASSUME TypeProcs, TypeDisk, NEW t \in Tasks, Command(t) \/ TaskStep(t)
  PROVE  TypeProcs'
<1> t \in Procs /\ StepsOf(t) = TaskSteps
  BY ProcSteps DEF Procs
<1>1. CASE StartLock(t)
  <2>1. Fits("create", job[t], seen[t]) /\ "create" \in StepsOf(t)
    BY DEF Fits, JobSteps, TaskSteps
  <2>2. QED BY <1>1, <2>1, GotoType DEF StartLock
<1>2. CASE StartRefused(t) \/ StartFails(t)
  <2>1. Fits("idle", None, seen[t]) /\ "idle" \in StepsOf(t)
    BY DEF Fits, JobSteps, TaskSteps
  <2>2. Moves(t, "idle", None, seen[t])
    BY <1>2 DEF StartRefused, StartFails, GiveUpStart, Goto, Moves, TypeProcs
  <2>3. QED BY <2>1, <2>2, MovesType DEF TypeProcs, Opt
<1>3. ASSUME NEW r \in Recs, StartCreate(t, r) PROVE TypeProcs'
  <2>1. Job(r, "transcribe") \in Jobs /\ "write" \in StepsOf(t)
    BY JobType DEF TaskSteps, Kinds
  <2>2. Fits("write", Job(r, "transcribe"), seen[t])
    BY <2>1 DEF Fits
  <2>3. QED BY <1>3, <2>1, <2>2, GoType DEF StartCreate
<1>4. CASE StartWrite(t) \/ StartOpen(t)
  <2>1. /\ pc[t] \in {"write", "open"} /\ UNCHANGED <<job, seen>>
        /\ Goto(t, "open") \/ Goto(t, "show")
    BY <1>4 DEF StartWrite, StartOpen
  <2>2. Fits("open", job[t], seen[t]) /\ Fits("show", job[t], seen[t])
    BY <2>1 DEF Fits, JobSteps, TypeProcs
  <2>3. QED BY <2>1, <2>2, GotoType DEF TaskSteps
<1>5. CASE StartShow(t)
  BY <1>5, ReturnType DEF StartShow
<1>6. ASSUME NEW r \in Recs, Retry(t, r) \/ Summarize(t, r) \/ Name(t, r) \/ Delete(t, r)
      PROVE  TypeProcs'
  <2>1. PICK step \in {"claim", "markRead", "nameRead", "deleteHold"}, kind \in Kinds :
          Go(t, step, Job(r, kind)) /\ (step = "claim" <=> kind = "transcribe")
                                    /\ kind \in {"transcribe", "asked"}
    BY <1>6 DEF Retry, Summarize, Name, Delete, Kinds
  <2>2. Fits(step, Job(r, kind), seen[t]) /\ step \in StepsOf(t) /\ Job(r, kind) \in Jobs
    BY <2>1, JobType DEF Fits, TaskSteps
  <2>3. QED BY <2>1, <2>2, GoType
<1>7. CASE RetryClaim(t)
  <2>1. pc[t] = "claim" /\ Fits("repair", job[t], seen[t]) /\ "repair" \in StepsOf(t)
    BY <1>7 DEF RetryClaim, TypeProcs, Fits, JobSteps, TaskSteps
  <2>2. QED BY <1>7, <2>1, GotoType, ReturnType DEF RetryClaim
<1>8. CASE RetryRepair(t)
  <2>1. pc[t] = "repair" /\ Fits("send", job[t], seen[t]) /\ "send" \in StepsOf(t)
    BY <1>8 DEF RetryRepair, TypeProcs, Fits, JobSteps, TaskSteps
  <2>2. QED BY <1>8, <2>1, GotoType DEF RetryRepair
<1>9. CASE NameRead(t)
  <2>1. pc[t] = "nameRead" /\ "nameWrite" \in StepsOf(t)
    BY <1>9 DEF NameRead, TaskSteps
  <2>2. Fits("nameWrite", job[t], meta[job[t].rec]) /\ meta[job[t].rec] \in Meta
    BY <2>1 DEF TypeProcs, TypeDisk, Fits, JobSteps, Jobs
  <2>3. Moves(t, "nameWrite", job[t], meta[job[t].rec])
    BY <1>9 DEF NameRead, Goto, Moves, TypeProcs
  <2>4. job[t] \in Opt(Jobs) /\ meta[job[t].rec] \in Opt(Meta)
    BY <2>2 DEF TypeProcs, Opt
  <2>5. QED BY <2>1, <2>2, <2>3, <2>4, MovesType
<1>10. CASE NameWrite(t) \/ DeleteRemove(t)
  BY <1>10, ReturnType DEF NameWrite, DeleteRemove
<1>11. CASE DeleteHold(t)
  <2>1. pc[t] = "deleteHold" /\ Fits("delete", job[t], seen[t]) /\ "delete" \in StepsOf(t)
    BY <1>11 DEF DeleteHold, TypeProcs, Fits, JobSteps, TaskSteps
  <2>2. QED BY <1>11, <2>1, GotoType, ReturnType DEF DeleteHold
<1>12. QED
  BY <1>1, <1>2, <1>3, <1>4, <1>5, <1>6, <1>7, <1>8, <1>9, <1>10, <1>11, SharedProcs
     DEF Command, TaskStep

LEMMA WorkerProcs ==
  ASSUME TypeProcs, TypeDisk, TypeView, WorkerStep
  PROVE  TypeProcs'
<1> Worker \in Procs /\ StepsOf(Worker) = WorkerSteps
  BY ProcSteps DEF Procs
<1>1. CASE WorkerTake
  <2>1. PICK i \in DOMAIN queue :
          \/ Transcribes(queue[i]) /\ Go(Worker, "begin", queue[i])
          \/ Go(Worker, "make", queue[i])
    BY <1>1 DEF WorkerTake
  <2>2. queue[i] \in Jobs
    BY DEF TypeView
  <2>3. /\ Fits("make", queue[i], seen[Worker])
        /\ Transcribes(queue[i]) => Fits("begin", queue[i], seen[Worker])
        /\ "begin" \in StepsOf(Worker) /\ "make" \in StepsOf(Worker)
    BY <2>2 DEF Fits, WorkerSteps
  <2>4. QED BY <2>1, <2>2, <2>3, GoType
<1>2. CASE WorkerBegin
  <2> DEFINE m == [meta[job[Worker].rec] EXCEPT !.status = "processing"]
  <2>1. pc[Worker] = "begin" /\ job[Worker] \in Jobs /\ Transcribes(job[Worker])
    BY <1>2 DEF WorkerBegin, TypeProcs, Fits, JobSteps
  <2>2. m \in Meta
    BY <2>1 DEF TypeDisk, Jobs, Meta, Statuses
  <2>3. Fits("run", job[Worker], m) /\ "run" \in StepsOf(Worker)
    BY <2>1, <2>2 DEF Fits, WorkerSteps
  <2>4. Moves(Worker, "run", job[Worker], m)
    BY <1>2 DEF WorkerBegin, Goto, Moves, TypeProcs
  <2>5. job[Worker] \in Opt(Jobs) /\ m \in Opt(Meta)
    BY <2>1, <2>2 DEF Opt
  <2>6. QED BY <2>3, <2>4, <2>5, MovesType
<1>3. ASSUME NEW r \in Recs, WorkerDone(r) \/ WorkerFail(r) \/ WorkerNetwork(r)
      PROVE  TypeProcs'
  BY <1>3, ReturnType DEF WorkerDone, WorkerFail, WorkerNetwork
<1>4. ASSUME NEW r \in Recs, WorkerDoneSummary(r) PROVE TypeProcs'
  <2>1. Job(r, "auto") \in Jobs /\ "markRead" \in StepsOf(Worker)
    BY JobType DEF WorkerSteps, Kinds
  <2>2. Fits("markRead", Job(r, "auto"), seen[Worker])
    BY <2>1, JobType DEF Fits, Kinds
  <2>3. QED BY <1>4, <2>1, <2>2, GoType DEF WorkerDoneSummary
<1>5. CASE SummaryHold
  <2>1. /\ pc[Worker] = "make" /\ "summary" \in StepsOf(Worker)
        /\ Fits("summary", job[Worker], seen[Worker])
    BY <1>5 DEF SummaryHold, TypeProcs, Fits, JobSteps, WorkerSteps
  <2>2. QED BY <1>5, <2>1, GotoType DEF SummaryHold
<1>6. CASE SummaryWrite \/ SummaryRefused \/ SummaryTimeout
  BY <1>6, ReturnType DEF SummaryWrite, SummaryRefused, SummaryTimeout
<1>7. CASE SweepDone(Worker)
  <2>1. Fits("idle", job[Worker], seen[Worker]) /\ "idle" \in StepsOf(Worker)
    BY DEF Fits, JobSteps, WorkerSteps
  <2>2. QED BY <1>7, <2>1, GotoType DEF SweepDone
<1>8. QED
  BY <1>1, <1>2, <1>3, <1>4, <1>5, <1>6, <1>7, SharedProcs DEF WorkerStep

LEMMA StartupProcs ==
  ASSUME TypeProcs, TypeDisk, RecoverList \/ StartupStep
  PROVE  TypeProcs'
<1> Startup \in Procs /\ StepsOf(Startup) = StartupSteps
  BY ProcSteps DEF Procs
<1>1. CASE RecoverList \/ ResumeList \/ StartupScan \/ StartupScanned \/ SweepDone(Startup)
  <2>1. PICK step \in {"recover", "resume", "scan", "sweep", "over"} :
          Goto(Startup, step) /\ UNCHANGED <<job, seen>>
    BY <1>1, ProcsAssumption
       DEF RecoverList, ResumeList, StartupScan, StartupScanned, SweepDone
  <2>2. Fits(step, job[Startup], seen[Startup]) /\ step \in StepsOf(Startup)
    BY DEF Fits, JobSteps, StartupSteps
  <2>3. QED BY <2>1, <2>2, GotoType
<1>2. CASE RecoverRepair
  <2>1. /\ pc[Startup] = "repair" /\ "send" \in StepsOf(Startup)
        /\ Fits("send", job[Startup], seen[Startup])
    BY <1>2 DEF RecoverRepair, TypeProcs, Fits, JobSteps, StartupSteps
  <2>2. QED BY <1>2, <2>1, GotoType, ReturnType DEF RecoverRepair
<1>3. CASE ResumeClear
  BY <1>3, ReturnType DEF ResumeClear
<1>4. ASSUME NEW r \in Recs, RecoverOne(r) PROVE TypeProcs'
  <2>1. Job(r, "transcribe") \in Jobs /\ "repair" \in StepsOf(Startup)
    BY JobType DEF StartupSteps, Kinds
  <2>2. Fits("repair", Job(r, "transcribe"), seen[Startup])
    BY <2>1, JobType DEF Fits, Kinds
  <2>3. QED BY <1>4, <2>1, <2>2, GoType, StayType DEF RecoverOne
<1>5. ASSUME NEW r \in Recs, ResumeOff(r) PROVE TypeProcs'
  <2>1. Job(r, "auto") \in Jobs /\ "clear" \in StepsOf(Startup)
    BY JobType DEF StartupSteps, Kinds
  <2>2. Fits("clear", Job(r, "auto"), seen[Startup])
    BY <2>1 DEF Fits
  <2>3. QED BY <1>5, <2>1, <2>2, GoType, StayType DEF ResumeOff
<1>6. ASSUME NEW r \in Recs, NEW kind \in {"asked", "auto"}, ResumeOne(r, kind)
      PROVE  TypeProcs'
  <2>1. Job(r, kind) \in Jobs /\ "markRead" \in StepsOf(Startup)
    BY JobType DEF StartupSteps, Kinds
  <2>2. Fits("markRead", Job(r, kind), seen[Startup])
    BY <2>1, JobType DEF Fits, Kinds
  <2>3. QED BY <1>6, <2>1, <2>2, GoType, StayType DEF ResumeOne
<1>7. QED
  BY <1>1, <1>2, <1>3, <1>4, <1>5, <1>6, SharedProcs DEF StartupStep, ScanStep

LEMMA OtherProcs ==
  ASSUME TypeProcs, TypeDisk,
         \/ TimerStep
         \/ Stop \/ Cancel \/ \E r \in Recs : EndingStep(r) \/ StuckEnds(r)
         \/ ShutdownIdle \/ ShutdownAttempt \/ ShutdownLate
         \/ Crash \/ Exit \/ ExitAbandon
  PROVE  TypeProcs'
<1>1. CASE TimerTick \/ TimerDone
  <2>1. Timer \in Procs /\ StepsOf(Timer) = TimerSteps
    BY ProcSteps DEF Procs
  <2>2. PICK step \in {"idle", "scan"} : Goto(Timer, step) /\ UNCHANGED <<job, seen>>
    BY <1>1 DEF TimerTick, TimerDone
  <2>3. Fits(step, job[Timer], seen[Timer]) /\ step \in StepsOf(Timer)
    BY <2>1 DEF Fits, JobSteps, TimerSteps
  <2>4. QED BY <2>1, <2>2, <2>3, GotoType
<1>2. CASE ScanStep(Timer)
  BY <1>2, SharedProcs DEF ScanStep, Procs
<1>3. CASE Stop \/ Cancel \/ \E r \in Recs : EndingStep(r) \/ StuckEnds(r)
  BY <1>3, StayType DEF Stop, Cancel, TakeSession, EndingStep, StopFinish, StopStuck,
                        StopEnqueue, CancelFinish, StuckEnds, localVars
<1>4. CASE ShutdownIdle \/ ShutdownAttempt \/ ShutdownLate
  <2>1. CASE ShutdownLate
    BY <1>4, <2>1, StayType DEF ShutdownLate, ShutdownBegin
  <2>2. CASE ShutdownIdle \/ ShutdownAttempt
    <3>1. Worker \in Procs /\ "dead" \in StepsOf(Worker)
      BY ProcSteps DEF Procs, WorkerSteps
    <3>2. Fits("dead", None, seen[Worker])
      BY DEF Fits, JobSteps
    <3>3. Moves(Worker, "dead", None, seen[Worker])
      BY <2>2 DEF ShutdownIdle, ShutdownAttempt, ShutdownBegin, Goto, Moves, TypeProcs
    <3>4. QED BY <3>1, <3>2, <3>3, MovesType DEF TypeProcs, Opt
  <2>3. QED BY <1>4, <2>1, <2>2
<1>5. CASE Crash \/ Exit \/ ExitAbandon
  BY <1>5, RestartType DEF Crash, Exit, ExitAbandon
<1>6. QED BY <1>1, <1>2, <1>3, <1>4, <1>5 DEF TimerStep
----------------------------------------------------------------------------
(* What the processes go through.                                          *)

LEMMA TodoKept ==
  ASSUME TypeTodo, UNCHANGED todo
  PROVE  TypeTodo'
BY DEF TypeTodo

LEMMA TodoSet ==
  ASSUME TypeTodo, NEW p \in Procs, NEW S \in SUBSET Jobs,
         todo' = [todo EXCEPT ![p] = S]
  PROVE  TypeTodo'
BY DEF TypeTodo

LEMMA TodoTaken ==
  ASSUME TypeTodo, NEW p \in Procs, NEW j, todo' = [todo EXCEPT ![p] = @ \ {j}]
  PROVE  TypeTodo'
BY DEF TypeTodo

LEMMA SharedTodo ==
  ASSUME TypeTodo, NEW p \in Procs,
         \/ RepairFails(p) \/ Send(p) \/ MarkRead(p) \/ MarkWrite(p) \/ MarkFails(p)
         \/ GiveUp(p) \/ SweepList(p) \/ SweepWrite(p) \/ SweepDone(p)
         \/ (\E r \in Recs : SweepHold(p, r))
         \/ \E r \in Recs : ScanGone(p, r) \/ ScanNotYet(p, r) \/ ScanDue(p, r)
                             \/ ScanGiveUp(p, r)
  PROVE  TypeTodo'
<1>1. CASE \/ RepairFails(p) \/ Send(p) \/ MarkRead(p) \/ MarkWrite(p) \/ MarkFails(p)
           \/ GiveUp(p) \/ SweepWrite(p) \/ SweepDone(p)
  BY <1>1, TodoKept DEF RepairFails, Send, MarkRead, MarkWrite, MarkFails, GiveUp,
                        SweepWrite, SweepDone, Return
<1>2. CASE SweepList(p)
  <2>1. PICK due \in SUBSET Recs :
          todo' = [todo EXCEPT ![p] = {Job(r, "asked") : r \in due}]
    BY <1>2 DEF SweepList
  <2>2. {Job(r, "asked") : r \in due} \in SUBSET Jobs
    BY JobType DEF Kinds
  <2>3. QED BY <2>1, <2>2, TodoSet
<1>3. ASSUME NEW r \in Recs, SweepHold(p, r) PROVE TypeTodo'
  BY <1>3, TodoTaken DEF SweepHold
<1>4. ASSUME NEW r \in Recs,
             ScanGone(p, r) \/ ScanNotYet(p, r) \/ ScanDue(p, r) \/ ScanGiveUp(p, r)
      PROVE  TypeTodo'
  BY <1>4, TodoTaken DEF ScanGone, ScanNotYet, ScanDue, ScanGiveUp, Scanning
<1>5. QED BY <1>1, <1>2, <1>3, <1>4

LEMMA TodoStep == TypeTodo /\ TypeDisk /\ TypeView /\ [Next]_vars => TypeTodo'
<1> SUFFICES ASSUME TypeTodo, TypeDisk, TypeView, [Next]_vars PROVE TypeTodo'
  OBVIOUS
<1>1. CASE UNCHANGED vars
  BY <1>1, TodoKept DEF vars, localVars
<1>2. ASSUME NEW t \in Tasks, Command(t) PROVE TypeTodo'
  BY <1>2, TodoKept DEF Command, StartLock, Retry, Summarize, Name, Delete
<1>3. ASSUME NEW t \in Tasks, TaskStep(t) PROVE TypeTodo'
  <2>1. CASE \/ StartRefused(t) \/ (\E r \in Recs : StartCreate(t, r)) \/ StartFails(t)
             \/ StartWrite(t) \/ StartOpen(t) \/ StartShow(t)
    BY <2>1, TodoKept DEF StartRefused, StartCreate, StartFails, StartWrite, StartOpen,
                          StartShow, GiveUpStart, Return
  <2>2. CASE \/ RetryClaim(t) \/ RetryRepair(t) \/ NameRead(t) \/ NameWrite(t)
             \/ DeleteHold(t) \/ DeleteRemove(t)
    BY <2>2, TodoKept DEF RetryClaim, RetryRepair, NameRead, NameWrite, DeleteHold,
                          DeleteRemove, Return
  <2>3. QED BY <1>3, <2>1, <2>2, SharedTodo DEF TaskStep, Procs
<1>4. CASE Stop \/ Cancel \/ \E r \in Recs : EndingStep(r) \/ StuckEnds(r)
  BY <1>4, TodoKept DEF Stop, Cancel, TakeSession, EndingStep, StopFinish, StopStuck,
                        StopEnqueue, CancelFinish, StuckEnds, localVars
<1>5. CASE WorkerStep
  <2>1. CASE \/ WorkerTake \/ WorkerBegin
             \/ \E r \in Recs : WorkerDone(r) \/ WorkerDoneSummary(r) \/ WorkerFail(r)
                                 \/ WorkerNetwork(r)
    BY <2>1, TodoKept DEF WorkerTake, WorkerBegin, WorkerDone, WorkerDoneSummary,
                          WorkerFail, WorkerNetwork, Return
  <2>2. CASE SummaryHold \/ SummaryWrite \/ SummaryRefused \/ SummaryTimeout
    BY <2>2, TodoKept DEF SummaryHold, SummaryWrite, SummaryRefused, SummaryTimeout, Return
  <2>3. QED BY <1>5, <2>1, <2>2, SharedTodo DEF WorkerStep, Procs
<1>6. CASE RecoverList \/ StartupStep
  <2> Startup \in Procs
    BY DEF Procs
  <2>1. CASE RecoverList \/ ResumeList \/ StartupScan
    <3>1. PICK S \in SUBSET Jobs : todo' = [todo EXCEPT ![Startup] = S]
      <4>1. CASE RecoverList
        <5>1. \A S : S \subseteq Recs => {Job(r, "transcribe") : r \in S} \in SUBSET Jobs
          BY JobType DEF Kinds
        <5>2. QED BY <4>1, <5>1 DEF RecoverList
      <4>2. CASE ResumeList
        <5>1. \A r \in Recs : meta[r].summary # "no" => Job(r, meta[r].summary) \in Jobs
          BY JobType DEF TypeDisk, Meta, Kinds
        <5>2. QED BY <4>2, <5>1 DEF ResumeList
      <4>3. CASE StartupScan
        <5>1. \A S : S \subseteq Recs => {Job(r, "network") : r \in S} \in SUBSET Jobs
          BY JobType DEF Kinds
        <5>2. QED BY <4>3, <5>1 DEF StartupScan
      <4>4. QED BY <2>1, <4>1, <4>2, <4>3
    <3>2. QED BY <3>1, TodoSet
  <2>2. CASE RecoverRepair \/ ResumeClear \/ StartupScanned
    BY <2>2, TodoKept DEF RecoverRepair, ResumeClear, StartupScanned, Return
  <2>3. CASE \E r \in Recs : \/ RecoverOne(r) \/ ResumeOff(r)
                             \/ \E kind \in {"asked", "auto"} : ResumeOne(r, kind)
    BY <2>3, TodoTaken DEF RecoverOne, ResumeOff, ResumeOne
  <2>4. QED BY <1>6, <2>1, <2>2, <2>3, SharedTodo DEF StartupStep, ScanStep
<1>7. CASE TimerStep
  <2> Timer \in Procs
    BY DEF Procs
  <2>1. CASE TimerTick
    <3>1. {Job(r, "network") : r \in waiting} \in SUBSET Jobs
      BY JobType DEF TypeView, Kinds
    <3>2. QED BY <2>1, <3>1, TodoSet DEF TimerTick
  <2>2. CASE TimerDone
    BY <2>2, TodoKept DEF TimerDone
  <2>3. QED BY <1>7, <2>1, <2>2, SharedTodo DEF TimerStep, ScanStep
<1>8. CASE ShutdownIdle \/ ShutdownAttempt \/ ShutdownLate
  BY <1>8, TodoKept DEF ShutdownIdle, ShutdownAttempt, ShutdownLate, ShutdownBegin
<1>9. CASE Crash \/ Exit \/ ExitAbandon
  BY <1>9, RestartType DEF Crash, Exit, ExitAbandon
<1>10. QED BY <1>1, <1>2, <1>3, <1>4, <1>5, <1>6, <1>7, <1>8, <1>9 DEF Next
----------------------------------------------------------------------------
(* The disk. *)

LEMMA MetaType ==
  ASSUME NEW m \in Meta
  PROVE  /\ \A status \in Statuses : [m EXCEPT !.status = status] \in Meta
         /\ \A asked \in {"no", "asked", "auto"} : [m EXCEPT !.summary = asked] \in Meta
         /\ [m EXCEPT !.named = TRUE] \in Meta
         /\ [m EXCEPT !.status = "processing", !.attempts = 0, !.tries = None] \in Meta
         /\ [m EXCEPT !.status = "done", !.tries = None, !.summary = "no"] \in Meta
         /\ \A kind : Counted(m, kind) \in Meta /\ GivenBack(m, kind) \in Meta
         /\ Recovered(m) \in Meta /\ WaitForNetwork(m) \in Meta
<1>1. \A a \in Nat : [m EXCEPT !.attempts = a] \in Meta
  BY DEF Meta
<1>2. \A a \in Opt(Nat) : [m EXCEPT !.tries = a] \in Meta
  BY DEF Meta
<1>3. \A status \in Statuses : [m EXCEPT !.status = status] \in Meta
  BY DEF Meta
<1>4. \A kind : Counted(m, kind) \in Meta
  <2>1. m.attempts + 1 \in Nat
    BY DEF Meta
  <2>2. (IF m.tries = None THEN None ELSE m.tries + 1) \in Opt(Nat)
    BY DEF Meta, Opt
  <2>3. QED BY <1>1, <1>2, <2>1, <2>2 DEF Counted
<1>5. \A kind : GivenBack(m, kind) \in Meta
  <2>1. (IF m.attempts = 0 THEN 0 ELSE m.attempts - 1) \in Nat
    BY DEF Meta
  <2>2. (IF m.tries = None THEN m.status ELSE "waiting") \in Statuses
    BY DEF Meta, Statuses
  <2>3. QED BY <1>1, <1>3, <2>1, <2>2 DEF GivenBack
<1>6. Recovered(m) \in Meta
  BY <1>3 DEF Recovered, Statuses
<1>7. WaitForNetwork(m) \in Meta
  BY DEF WaitForNetwork, Tries, Meta, Opt, Statuses
<1>8. /\ \A asked \in {"no", "asked", "auto"} : [m EXCEPT !.summary = asked] \in Meta
      /\ [m EXCEPT !.named = TRUE] \in Meta
  BY DEF Meta
<1>9. [m EXCEPT !.status = "processing", !.attempts = 0, !.tries = None] \in Meta
  BY DEF Meta, Opt, Statuses
<1>10. [m EXCEPT !.status = "done", !.tries = None, !.summary = "no"] \in Meta
  BY DEF Meta, Opt, Statuses
<1>11. QED BY <1>3, <1>4, <1>5, <1>6, <1>7, <1>8, <1>9, <1>10

LEMMA FreshType ==
  ASSUME NEW status \in Statuses
  PROVE  Fresh(status) \in Meta
BY DEF Fresh, Meta, Opt

\* A rewrite of one recording.json.
LEMMA DiskWrite ==
  ASSUME TypeDisk, NEW r, NEW m \in Meta, meta' = [meta EXCEPT ![r] = m],
         tracks' \in [Recs -> Tracks], spent' \in [Recs -> Nat], told' \subseteq Recs
  PROVE  TypeDisk'
BY DEF TypeDisk

LEMMA DiskKept ==
  ASSUME TypeDisk, UNCHANGED <<diskVars, spent, told>>
  PROVE  TypeDisk'
BY DEF TypeDisk, diskVars

LEMMA TracksSet ==
  ASSUME TypeDisk, NEW r, NEW track \in Tracks, tracks' = [tracks EXCEPT ![r] = track]
  PROVE  tracks' \in [Recs -> Tracks]
BY DEF TypeDisk

LEMMA SharedDisk ==
  ASSUME TypeProcs, TypeDisk, NEW p \in Procs,
         \/ RepairFails(p) \/ Send(p) \/ MarkRead(p) \/ MarkWrite(p) \/ MarkFails(p)
         \/ GiveUp(p) \/ SweepList(p) \/ SweepWrite(p) \/ SweepDone(p)
         \/ (\E r \in Recs : SweepHold(p, r))
         \/ \E r \in Recs : ScanGone(p, r) \/ ScanNotYet(p, r) \/ ScanDue(p, r)
                             \/ ScanGiveUp(p, r)
  PROVE  TypeDisk'
<1>1. CASE RepairFails(p) \/ Send(p) \/ MarkRead(p) \/ MarkFails(p)
           \/ SweepList(p) \/ SweepDone(p)
  BY <1>1, DiskKept DEF RepairFails, Send, MarkRead, MarkFails, SweepList, SweepDone,
                        Keep, pastVars
<1>2. CASE MarkWrite(p)
  <2>1. seen[p] \in Meta /\ job[p] \in Jobs /\ ~Transcribes(job[p])
    BY <1>2 DEF MarkWrite, TypeProcs, Fits, JobSteps
  <2>2. [seen[p] EXCEPT !.summary = job[p].kind] \in Meta
    BY <2>1, MetaType DEF Jobs, Kinds, Transcribes
  <2>3. QED BY <1>2, <2>2, DiskWrite DEF MarkWrite, Keep, pastVars, TypeDisk
<1>3. CASE GiveUp(p)
  <2>1. job[p] \in Jobs
    BY <1>3 DEF GiveUp, TypeProcs, Fits, JobSteps
  <2>2. [meta[job[p].rec] EXCEPT !.status = "failed"] \in Meta
    BY <2>1, MetaType DEF Jobs, TypeDisk, Statuses
  <2>3. QED BY <1>3, <2>2, DiskWrite DEF GiveUp, Keep, pastVars, TypeDisk
<1>4. CASE SweepWrite(p)
  <2>1. tracks' \in [Recs -> Tracks]
    BY <1>4 DEF SweepWrite, TypeDisk, Tracks
  <2>2. QED BY <1>4, <2>1 DEF SweepWrite, Keep, pastVars, TypeDisk
<1>5. ASSUME NEW r \in Recs, SweepHold(p, r) PROVE TypeDisk'
  BY <1>5, DiskKept DEF SweepHold, Keep, pastVars
<1>6. ASSUME NEW r \in Recs,
             ScanGone(p, r) \/ ScanNotYet(p, r) \/ ScanDue(p, r) \/ ScanGiveUp(p, r)
      PROVE  TypeDisk'
  BY <1>6, DiskKept DEF ScanGone, ScanNotYet, ScanDue, ScanGiveUp, Scanning, Keep, pastVars
<1>7. QED BY <1>1, <1>2, <1>3, <1>4, <1>5, <1>6

LEMMA TaskDisk ==
  ASSUME TypeProcs, TypeDisk, NEW t \in Tasks, Command(t) \/ TaskStep(t)
  PROVE  TypeDisk'
<1> t \in Procs
  BY DEF Procs
<1>1. CASE Command(t)
  BY <1>1, DiskKept DEF Command, StartLock, Retry, Summarize, Name, Delete, Keep, pastVars
<1>2. CASE StartRefused(t) \/ RetryClaim(t) \/ NameRead(t) \/ DeleteHold(t)
  BY <1>2, DiskKept DEF StartRefused, RetryClaim, NameRead, DeleteHold, Keep, pastVars
<1>3. CASE (\E r \in Recs : StartCreate(t, r)) \/ StartWrite(t)
  <2>1. Fresh("claimed") \in Meta /\ Fresh("recording") \in Meta
    BY FreshType DEF Statuses
  <2>2. QED BY <1>3, <2>1, DiskWrite
            DEF StartCreate, StartWrite, Keep, pastVars, TypeDisk
<1>4. CASE StartFails(t)
  <2>1. Fresh("gone") \in Meta
    BY FreshType DEF Statuses
  <2>2. tracks' \in [Recs -> Tracks]
    BY <1>4, TracksSet DEF StartFails, Tracks
  <2>3. QED BY <1>4, <2>1, <2>2, DiskWrite DEF StartFails, Keep, pastVars, TypeDisk
<1>5. CASE StartOpen(t)
  <2>1. tracks' \in [Recs -> Tracks]
    BY <1>5, TracksSet DEF StartOpen, Tracks
  <2>2. QED BY <1>5, <2>1 DEF StartOpen, Keep, pastVars, TypeDisk
<1>6. CASE StartShow(t)
  <2>1. Fresh("recording") \in Meta
    BY FreshType DEF Statuses
  <2>2. QED BY <1>6, <2>1, DiskWrite DEF StartShow, Keep, pastVars, TypeDisk
<1>7. CASE RetryRepair(t)
  <2>1. job[t].rec \in Recs
    BY <1>7 DEF RetryRepair, TypeProcs, Fits, JobSteps, Jobs
  <2>2. [meta[job[t].rec] EXCEPT !.status = "processing", !.attempts = 0, !.tries = None]
          \in Meta
    BY <2>1, MetaType DEF TypeDisk
  <2>3. meta' = [meta EXCEPT ![job[t].rec] =
          [meta[job[t].rec] EXCEPT !.status = "processing", !.attempts = 0, !.tries = None]]
    BY <1>7, <2>1 DEF RetryRepair, TypeDisk, Meta
  <2>4. QED BY <1>7, <2>2, <2>3, DiskWrite DEF RetryRepair, TypeDisk
<1>8. CASE NameWrite(t)
  <2>1. seen[t] \in Meta /\ job[t].rec \in Recs
    BY <1>8 DEF NameWrite, TypeProcs, Fits, JobSteps, Jobs
  <2>2. [seen[t] EXCEPT !.named = TRUE] \in Meta
    BY <2>1, MetaType
  <2>3. QED BY <1>8, <2>1, <2>2, DiskWrite DEF NameWrite, TypeDisk
<1>9. CASE DeleteRemove(t)
  <2>1. Fresh("gone") \in Meta
    BY FreshType DEF Statuses
  <2>2. tracks' \in [Recs -> Tracks]
    BY <1>9, TracksSet DEF DeleteRemove, Tracks
  <2>3. QED BY <1>9, <2>1, <2>2, DiskWrite DEF DeleteRemove, TypeDisk
<1>10. QED
  BY <1>1, <1>2, <1>3, <1>4, <1>5, <1>6, <1>7, <1>8, <1>9, SharedDisk DEF TaskStep

LEMMA WorkerDisk ==
  ASSUME TypeProcs, TypeDisk, TypeView, WorkerStep
  PROVE  TypeDisk'
<1> Worker \in Procs
  BY DEF Procs
<1>1. CASE WorkerTake
  <2>1. PICK i \in DOMAIN queue :
          \/ meta' = [meta EXCEPT ![queue[i].rec] =
                        Counted(meta[queue[i].rec], queue[i].kind)]
          \/ UNCHANGED meta
    BY <1>1 DEF WorkerTake
  <2>2. queue[i] \in Jobs
    BY DEF TypeView
  <2>3. Counted(meta[queue[i].rec], queue[i].kind) \in Meta
    BY <2>2, MetaType DEF TypeDisk, Jobs
  <2>4. UNCHANGED <<tracks, spent, told>>
    BY <1>1 DEF WorkerTake, Keep, pastVars
  <2>5. QED BY <2>1, <2>3, <2>4, DiskWrite DEF TypeDisk
<1>2. CASE WorkerBegin
  <2>1. job[Worker].rec \in Recs
    BY <1>2 DEF WorkerBegin, TypeProcs, Fits, JobSteps, Jobs
  <2>2. [meta[job[Worker].rec] EXCEPT !.status = "processing"] \in Meta
    BY <2>1, MetaType DEF TypeDisk, Statuses
  <2>3. QED BY <1>2, <2>2, DiskWrite DEF WorkerBegin, Keep, pastVars, TypeDisk
<1>3. ASSUME NEW r \in Recs,
             WorkerDone(r) \/ WorkerDoneSummary(r) \/ WorkerFail(r) \/ WorkerNetwork(r)
      PROVE  TypeDisk'
  <2>1. Attempt(r)
    BY <1>3 DEF WorkerDone, WorkerDoneSummary, WorkerFail, WorkerNetwork
  <2>2. /\ spent' \in [Recs -> Nat] /\ told' \subseteq Recs
        /\ tracks' \in [Recs -> Tracks]
    BY <2>1 DEF Attempt, TypeDisk
  <2>3. seen[Worker] \in Meta
    BY <2>1 DEF Attempt, TypeProcs, Fits
  <2>4. Transcribed(r) \in Meta
    BY <2>3, MetaType DEF Transcribed
  <2>5. meta[r] \in Meta
    BY DEF TypeDisk
  <2>6. [meta[r] EXCEPT !.status = "failed"] \in Meta /\ WaitForNetwork(meta[r]) \in Meta
    BY <2>5, MetaType DEF Statuses
  <2>7. QED BY <1>3, <2>2, <2>4, <2>6, DiskWrite
            DEF WorkerDone, WorkerDoneSummary, WorkerFail, WorkerNetwork
<1>4. CASE SummaryHold \/ SummaryTimeout
  BY <1>4, DiskKept DEF SummaryHold, SummaryTimeout, Keep, pastVars
<1>5. CASE SummaryWrite \/ SummaryRefused
  <2>1. job[Worker].rec \in Recs
    BY <1>5 DEF SummaryWrite, SummaryRefused, TypeProcs, Fits, JobSteps, Jobs
  <2>2. [meta[job[Worker].rec] EXCEPT !.summary = "no"] \in Meta
    BY <2>1, MetaType DEF TypeDisk
  <2>3. QED BY <1>5, <2>2, DiskWrite
            DEF SummaryWrite, SummaryRefused, Keep, pastVars, TypeDisk
<1>6. QED BY <1>1, <1>2, <1>3, <1>4, <1>5, SharedDisk DEF WorkerStep

LEMMA StartupDisk ==
  ASSUME TypeProcs, TypeDisk, RecoverList \/ StartupStep
  PROVE  TypeDisk'
<1> Startup \in Procs
  BY DEF Procs
<1>1. CASE RecoverList \/ ResumeList \/ StartupScan \/ StartupScanned
  BY <1>1, DiskKept DEF RecoverList, ResumeList, StartupScan, StartupScanned, Keep, pastVars
<1>2. CASE \E r \in Recs : \/ RecoverOne(r) \/ ResumeOff(r)
                           \/ \E kind \in {"asked", "auto"} : ResumeOne(r, kind)
  BY <1>2, DiskKept DEF RecoverOne, ResumeOff, ResumeOne, Keep, pastVars
<1>3. CASE RecoverRepair
  <2>1. job[Startup].rec \in Recs
    BY <1>3 DEF RecoverRepair, TypeProcs, Fits, JobSteps, Jobs
  <2>2. meta[job[Startup].rec] \in Meta /\ Recovered(meta[job[Startup].rec]) \in Meta
    BY <2>1, MetaType DEF TypeDisk
  <2>3. QED BY <1>3, <2>2, DiskWrite DEF RecoverRepair, Keep, pastVars, TypeDisk
<1>4. CASE ResumeClear
  <2>1. job[Startup].rec \in Recs
    BY <1>4 DEF ResumeClear, TypeProcs, Fits, JobSteps, Jobs
  <2>2. [meta[job[Startup].rec] EXCEPT !.summary = "no"] \in Meta
    BY <2>1, MetaType DEF TypeDisk
  <2>3. QED BY <1>4, <2>2, DiskWrite DEF ResumeClear, Keep, pastVars, TypeDisk
<1>5. QED BY <1>1, <1>2, <1>3, <1>4, SharedDisk DEF StartupStep, ScanStep

LEMMA EndingDisk ==
  ASSUME TypeDisk, NEW r \in Recs, EndingStep(r) \/ StuckEnds(r)
  PROVE  TypeDisk'
<1>1. /\ Fresh("processing") \in Meta /\ Fresh("failed") \in Meta /\ Fresh("gone") \in Meta
  BY FreshType DEF Statuses
<1>2. tracks' \in [Recs -> Tracks]
  BY DEF EndingStep, StopFinish, StopStuck, StopEnqueue, CancelFinish, StuckEnds, TypeDisk,
         Tracks, diskVars
<1>3. UNCHANGED <<spent, told>>
  BY DEF EndingStep, StopFinish, StopStuck, StopEnqueue, CancelFinish, StuckEnds, Keep,
         pastVars
<1>4. \/ UNCHANGED meta
      \/ \E m \in Meta : meta' = [meta EXCEPT ![r] = m]
  BY <1>1 DEF EndingStep, StopFinish, StopStuck, StopWrites, StopEnqueue, CancelFinish,
              StuckEnds, diskVars
<1>5. QED BY <1>2, <1>3, <1>4, DiskWrite DEF TypeDisk

LEMMA ExitDisk ==
  ASSUME TypeProcs, TypeDisk,
         \/ ShutdownIdle \/ ShutdownAttempt \/ ShutdownLate
         \/ Crash \/ Exit \/ ExitAbandon
  PROVE  TypeDisk'
<1>1. CASE ShutdownIdle \/ ShutdownLate
  BY <1>1, DiskKept DEF ShutdownIdle, ShutdownLate, ShutdownBegin, diskVars
<1>2. CASE ShutdownAttempt
  <2> DEFINE j == job[Worker]
  <2>1. j.rec \in Recs
    BY <1>2 DEF ShutdownAttempt, TypeProcs, Fits, JobSteps, Jobs, Procs
  <2>2. GivenBack(meta[j.rec], j.kind) \in Meta
    BY <2>1, MetaType DEF TypeDisk
  <2>3. spent' \in [Recs -> Nat]
    BY <1>2, <2>1 DEF ShutdownAttempt, TypeDisk
  <2>4. QED BY <1>2, <2>2, <2>3, DiskWrite DEF ShutdownAttempt, ShutdownBegin, TypeDisk
<1>3. CASE Crash \/ Exit \/ ExitAbandon
  <2>1. told' \subseteq Recs /\ spent' \in [Recs -> Nat]
    BY <1>3 DEF Crash, Exit, ExitAbandon, Restart, TypeDisk
  <2>2. \A r \in Recs : Closed(r) \in Tracks
    BY DEF Closed, TypeDisk, Tracks
  <2>3. tracks' \in [Recs -> Tracks]
    BY <1>3, <2>2 DEF Crash, Exit, ExitAbandon, Tracks
  <2>4. Fresh("processing") \in Meta /\ Fresh("gone") \in Meta
    BY FreshType DEF Statuses
  <2>5. \/ UNCHANGED meta
        \/ \E r, m : m \in Meta /\ meta' = [meta EXCEPT ![r] = m]
    BY <1>3, <2>4 DEF Crash, Exit, ExitAbandon
  <2>6. QED BY <2>1, <2>3, <2>5, DiskWrite DEF TypeDisk
<1>4. QED BY <1>1, <1>2, <1>3

LEMMA DiskStep ==
  TypeProcs /\ TypeDisk /\ TypeView /\ [Next]_vars => TypeDisk'
<1> SUFFICES ASSUME TypeProcs, TypeDisk, TypeView, [Next]_vars PROVE TypeDisk'
  OBVIOUS
<1>1. CASE UNCHANGED vars
  BY <1>1, DiskKept DEF vars, pastVars
<1>2. CASE Stop \/ Cancel
  BY <1>2, DiskKept DEF Stop, Cancel, TakeSession, Keep, pastVars
<1>3. CASE TimerStep
  <2>1. CASE TimerTick \/ TimerDone
    BY <2>1, DiskKept DEF TimerTick, TimerDone, Keep, pastVars
  <2>2. CASE ScanStep(Timer)
    BY <2>2, SharedDisk DEF ScanStep, Procs
  <2>3. QED BY <1>3, <2>1, <2>2 DEF TimerStep
<1>4. QED
  BY <1>1, <1>2, <1>3, TaskDisk, WorkerDisk, StartupDisk, EndingDisk, ExitDisk DEF Next
----------------------------------------------------------------------------
(* The view and the queue. *)

\* What RemoveAt leaves of a sequence.
LEMMA Removed ==
  ASSUME NEW S, NEW s \in Seq(S), NEW i \in DOMAIN s
  PROVE  /\ RemoveAt(s, i) \in Seq(S)
         /\ Len(RemoveAt(s, i)) = Len(s) - 1
         /\ \A k \in 1..(Len(s) - 1) :
              RemoveAt(s, i)[k] = IF k < i THEN s[k] ELSE s[k + 1]
<1> DEFINE a == SubSeq(s, 1, i - 1)
           b == SubSeq(s, i + 1, Len(s))
<1>1. i \in 1..Len(s) /\ Len(s) \in Nat
  OBVIOUS
<1>2. \A k \in 1..Len(s) : s[k] \in S
  OBVIOUS
<1>3. /\ a \in Seq(S) /\ Len(a) = i - 1
      /\ \A k \in 1..(i - 1) : a[k] = s[k]
  <2>1. \A k \in 1..(i - 1) : s[k] \in S
    BY <1>1, <1>2
  <2>2. QED BY <1>1, <2>1, SubSeqProperties
<1>4. /\ b \in Seq(S) /\ Len(b) = Len(s) - i
      /\ \A k \in 1..(Len(s) - i) : b[k] = s[k + i]
  <2>1. \A k \in (i + 1)..Len(s) : s[k] \in S
    BY <1>1, <1>2
  <2>2. /\ b \in Seq(S) /\ Len(b) = (IF i + 1 <= Len(s) THEN Len(s) - (i + 1) + 1 ELSE 0)
        /\ \A k \in 1..(Len(s) - (i + 1) + 1) : b[k] = s[(i + 1) + k - 1]
    BY <1>1, <2>1, SubSeqProperties
  <2>3. QED BY <1>1, <2>2
<1>5. /\ a \o b \in Seq(S) /\ Len(a \o b) = Len(s) - 1
      /\ \A k \in 1..(Len(s) - 1) :
           (a \o b)[k] = IF k <= i - 1 THEN a[k] ELSE b[k - (i - 1)]
  <2>1. /\ a \o b \in Seq(S) /\ Len(a \o b) = Len(a) + Len(b)
        /\ \A k \in 1..(Len(a) + Len(b)) :
             (a \o b)[k] = IF k <= Len(a) THEN a[k] ELSE b[k - Len(a)]
    BY <1>3, <1>4, ConcatProperties
  <2>2. Len(a) = i - 1 /\ Len(b) = Len(s) - i /\ Len(a) + Len(b) = Len(s) - 1
    <3> HIDE DEF a, b
    <3>1. QED BY <1>1, <1>3, <1>4
  <2> HIDE DEF a, b
  <2>3. QED BY <2>1, <2>2
<1>6. ASSUME NEW k \in 1..(Len(s) - 1)
      PROVE  (a \o b)[k] = IF k < i THEN s[k] ELSE s[k + 1]
  <2> HIDE DEF a, b
  <2>1. CASE k < i
    <3>1. k \in 1..(i - 1) /\ k <= i - 1
      BY <1>1, <2>1
    <3>2. QED BY <1>3, <1>5, <2>1, <3>1
  <2>2. CASE ~(k < i)
    <3>1. /\ ~(k <= i - 1) /\ k - (i - 1) \in 1..(Len(s) - i)
          /\ k - (i - 1) + i = k + 1
      BY <1>1, <2>2
    <3>2. (a \o b)[k] = b[k - (i - 1)] /\ b[k - (i - 1)] = s[k - (i - 1) + i]
      BY <1>4, <1>5, <3>1
    <3>3. QED BY <2>2, <3>1, <3>2
  <2>3. QED BY <2>1, <2>2
<1>7. QED BY <1>5, <1>6 DEF RemoveAt

LEMMA ViewKept ==
  ASSUME TypeView, UNCHANGED <<lock, session, viewVars, queue, ending>>
  PROVE  TypeView'
BY DEF TypeView, viewVars

\* The view's parts that most steps touch.
LEMMA ViewSet ==
  ASSUME TypeView, UNCHANGED <<lock, session, capturing, ending>>,
         processing' \in Opt(Jobs), queued' \subseteq Jobs, waiting' \subseteq Recs,
         held' \subseteq Recs, queue' \in Seq(Jobs)
  PROVE  TypeView'
BY DEF TypeView

LEMMA QueueType ==
  ASSUME TypeView, NEW j \in Jobs, Enqueue(j) \/ Dispatch(j)
  PROVE  queued' \subseteq Jobs /\ queue' \in Seq(Jobs) /\ waiting' \subseteq Recs
<1>1. Append(queue, j) \in Seq(Jobs)
  BY AppendProperties DEF TypeView
<1>2. QED BY <1>1 DEF Enqueue, Dispatch, Unreserve, TypeView

LEMMA SharedView ==
  ASSUME TypeProcs, TypeView, NEW p \in Procs,
         \/ RepairFails(p) \/ Send(p) \/ MarkRead(p) \/ MarkWrite(p) \/ MarkFails(p)
         \/ GiveUp(p) \/ SweepList(p) \/ SweepWrite(p) \/ SweepDone(p)
         \/ (\E r \in Recs : SweepHold(p, r))
         \/ \E r \in Recs : ScanGone(p, r) \/ ScanNotYet(p, r) \/ ScanDue(p, r)
                             \/ ScanGiveUp(p, r)
  PROVE  TypeView'
<1>1. CASE RepairFails(p) \/ MarkFails(p) \/ GiveUp(p)
  BY <1>1, ViewSet DEF RepairFails, MarkFails, GiveUp, Unreserve, Quiet, TypeView
<1>2. CASE Send(p)
  <2>1. job[p] \in Jobs
    BY <1>2 DEF Send, TypeProcs, Fits, JobSteps
  <2>2. queued' \subseteq Jobs /\ queue' \in Seq(Jobs) /\ waiting' \subseteq Recs
    BY <1>2, <2>1, QueueType DEF Send
  <2>3. QED BY <1>2, <2>2, ViewSet DEF Send, Quiet, TypeView
<1>3. CASE MarkRead(p) \/ MarkWrite(p) \/ SweepList(p) \/ SweepDone(p)
  BY <1>3, ViewKept DEF MarkRead, MarkWrite, SweepList, SweepDone, Quiet
<1>4. CASE SweepWrite(p)
  BY <1>4, ViewSet DEF SweepWrite, Quiet, TypeView
<1>5. ASSUME NEW r \in Recs, SweepHold(p, r) PROVE TypeView'
  BY <1>5, ViewSet DEF SweepHold, Quiet, TypeView
<1>6. ASSUME NEW r \in Recs, ScanGone(p, r) \/ ScanNotYet(p, r) PROVE TypeView'
  BY <1>6, ViewSet DEF ScanGone, ScanNotYet, Scanning, Quiet, TypeView
<1>7. ASSUME NEW r \in Recs, ScanDue(p, r) PROVE TypeView'
  <2>1. Job(r, "network") \in Jobs
    BY JobType DEF Kinds
  <2>2. queued' \subseteq Jobs /\ queue' \in Seq(Jobs) /\ waiting' \subseteq Recs
    BY <1>7, <2>1, QueueType DEF ScanDue
  <2>3. QED BY <1>7, <2>2, ViewSet DEF ScanDue, Scanning, Quiet, TypeView
<1>8. ASSUME NEW r \in Recs, ScanGiveUp(p, r) PROVE TypeView'
  <2>1. Job(r, "network") \in Jobs
    BY JobType DEF Kinds
  <2>2. QED BY <1>8, <2>1, ViewSet DEF ScanGiveUp, Scanning, Quiet, TypeView
<1>9. QED BY <1>1, <1>2, <1>3, <1>4, <1>5, <1>6, <1>7, <1>8

LEMMA TaskView ==
  ASSUME TypeProcs, TypeView, NEW t \in Tasks, Command(t) \/ TaskStep(t)
  PROVE  TypeView'
<1> t \in Procs
  BY DEF Procs
<1>1. CASE StartLock(t) \/ StartRefused(t) \/ StartFails(t)
  BY <1>1 DEF StartLock, StartRefused, StartFails, GiveUpStart, TypeView, Opt, viewVars
<1>2. CASE (\E r \in Recs : StartCreate(t, r)) \/ StartWrite(t) \/ StartOpen(t)
  BY <1>2, ViewKept DEF StartCreate, StartWrite, StartOpen, Quiet
<1>3. CASE StartShow(t)
  <2>1. job[t].rec \in Recs
    BY <1>3 DEF StartShow, TypeProcs, Fits, JobSteps, Jobs
  <2>2. QED BY <1>3, <2>1 DEF StartShow, TypeView, Opt
<1>4. ASSUME NEW r \in Recs, Retry(t, r) \/ Summarize(t, r) \/ Name(t, r) \/ Delete(t, r)
      PROVE  TypeView'
  <2>1. Job(r, "asked") \in Jobs
    BY JobType DEF Kinds
  <2>2. CASE Retry(t, r) \/ Delete(t, r)
    BY <2>2, ViewKept DEF Retry, Delete, Quiet
  <2>3. CASE Summarize(t, r) \/ Name(t, r)
    BY <2>1, <2>3, ViewSet DEF Summarize, Name, Quiet, TypeView
  <2>4. QED BY <1>4, <2>2, <2>3
<1>5. CASE RetryClaim(t)
  <2>1. job[t] \in Jobs
    BY <1>5 DEF RetryClaim, TypeProcs, Fits, JobSteps
  <2>2. QED BY <1>5, <2>1, ViewSet DEF RetryClaim, Quiet, TypeView
<1>6. CASE RetryRepair(t) \/ NameRead(t)
  BY <1>6, ViewKept DEF RetryRepair, NameRead, Quiet
<1>7. CASE NameWrite(t) \/ DeleteRemove(t)
  BY <1>7, ViewSet DEF NameWrite, DeleteRemove, Quiet, TypeView
<1>8. CASE DeleteHold(t)
  <2>1. job[t].rec \in Recs
    BY <1>8 DEF DeleteHold, TypeProcs, Fits, JobSteps, Jobs
  <2>2. QED BY <1>8, <2>1, ViewSet DEF DeleteHold, Quiet, TypeView
<1>9. QED
  BY <1>1, <1>2, <1>3, <1>4, <1>5, <1>6, <1>7, <1>8, SharedView DEF Command, TaskStep

LEMMA WorkerView ==
  ASSUME TypeProcs, TypeView, WorkerStep
  PROVE  TypeView'
<1> Worker \in Procs
  BY DEF Procs
<1>1. CASE WorkerTake
  <2>1. PICK i \in DOMAIN queue :
          /\ queue' = RemoveAt(queue, i)
          /\ Unreserve(queue[i].rec)
          /\ processing' = queue[i]
    BY <1>1 DEF WorkerTake
  <2>2. queue[i] \in Jobs /\ RemoveAt(queue, i) \in Seq(Jobs)
    BY Removed DEF TypeView
  <2>3. queued' \subseteq Jobs /\ processing' \in Opt(Jobs) /\ queue' \in Seq(Jobs)
    BY <2>1, <2>2 DEF Unreserve, Opt, TypeView
  <2>4. QED BY <1>1, <2>3, ViewSet DEF WorkerTake, Quiet, TypeView
<1>2. CASE WorkerBegin
  BY <1>2, ViewKept DEF WorkerBegin, Quiet
<1>3. ASSUME NEW r \in Recs,
             WorkerDone(r) \/ WorkerDoneSummary(r) \/ WorkerFail(r) \/ WorkerNetwork(r)
      PROVE  TypeView'
  <2>1. Job(r, "auto") \in Jobs
    BY JobType DEF Kinds
  <2>2. /\ processing' = None
        /\ UNCHANGED <<lock, session, capturing, ending, held, queue>>
    BY <1>3 DEF WorkerDone, WorkerDoneSummary, WorkerFail, WorkerNetwork, Attempt, Quiet
  <2>3. queued' \subseteq Jobs /\ waiting' \subseteq Recs
    BY <1>3, <2>1 DEF WorkerDone, WorkerDoneSummary, WorkerFail, WorkerNetwork, TypeView
  <2>4. QED BY <2>2, <2>3, ViewSet DEF TypeView, Opt
<1>4. CASE SummaryHold
  <2>1. job[Worker].rec \in Recs
    BY <1>4 DEF SummaryHold, TypeProcs, Fits, JobSteps, Jobs
  <2>2. QED BY <1>4, <2>1, ViewSet DEF SummaryHold, Quiet, TypeView
<1>5. CASE SummaryWrite \/ SummaryRefused \/ SummaryTimeout
  BY <1>5, ViewSet DEF SummaryWrite, SummaryRefused, SummaryTimeout, Quiet, TypeView, Opt
<1>6. QED BY <1>1, <1>2, <1>3, <1>4, <1>5, SharedView DEF WorkerStep

LEMMA StartupView ==
  ASSUME TypeProcs, TypeView, RecoverList \/ StartupStep
  PROVE  TypeView'
<1> Startup \in Procs
  BY DEF Procs
<1>1. CASE RecoverList \/ ResumeList \/ StartupScan \/ StartupScanned
  BY <1>1, ViewKept DEF RecoverList, ResumeList, StartupScan, StartupScanned, Quiet
<1>2. ASSUME NEW r \in Recs, RecoverOne(r) \/ ResumeOff(r) PROVE TypeView'
  <2>1. Job(r, "transcribe") \in Jobs
    BY JobType DEF Kinds
  <2>2. QED BY <1>2, <2>1, ViewSet DEF RecoverOne, ResumeOff, Quiet, TypeView
<1>3. ASSUME NEW r \in Recs, NEW kind \in {"asked", "auto"}, ResumeOne(r, kind)
      PROVE  TypeView'
  <2>1. Job(r, kind) \in Jobs
    BY JobType DEF Kinds
  <2>2. QED BY <1>3, <2>1, ViewSet DEF ResumeOne, Quiet, TypeView
<1>4. CASE RecoverRepair
  BY <1>4, ViewSet DEF RecoverRepair, Unreserve, Quiet, TypeView
<1>5. CASE ResumeClear
  BY <1>5, ViewSet DEF ResumeClear, Quiet, TypeView
<1>6. QED BY <1>1, <1>2, <1>3, <1>4, <1>5, SharedView DEF StartupStep, ScanStep

LEMMA EndingView ==
  ASSUME TypeView, Stop \/ Cancel \/ \E r \in Recs : EndingStep(r) \/ StuckEnds(r)
  PROVE  TypeView'
<1>1. CASE Stop \/ Cancel
  BY <1>1 DEF Stop, Cancel, TakeSession, TypeView, Opt, viewVars
<1>2. ASSUME NEW r \in Recs, StopFinish(r) \/ StopStuck(r) \/ CancelFinish(r)
      PROVE  TypeView'
  BY <1>2 DEF StopFinish, StopStuck, CancelFinish, ClearCapturing, TypeView, Opt
<1>3. ASSUME NEW r \in Recs, StopEnqueue(r) PROVE TypeView'
  <2>1. Job(r, "transcribe") \in Jobs
    BY JobType DEF Kinds
  <2>2. queued' \subseteq Jobs /\ queue' \in Seq(Jobs) /\ waiting' \subseteq Recs
    BY <1>3, <2>1, QueueType DEF StopEnqueue
  <2>3. QED BY <1>3, <2>2 DEF StopEnqueue, TypeView
<1>4. ASSUME NEW r \in Recs, StuckEnds(r) PROVE TypeView'
  BY <1>4, ViewKept DEF StuckEnds, Quiet
<1>5. QED BY <1>1, <1>2, <1>3, <1>4 DEF EndingStep

LEMMA ViewStep ==
  TypeProcs /\ TypeView /\ [Next]_vars => TypeView'
<1> SUFFICES ASSUME TypeProcs, TypeView, [Next]_vars PROVE TypeView'
  OBVIOUS
<1>1. CASE UNCHANGED vars
  BY <1>1, ViewKept DEF vars
<1>2. CASE TimerStep
  <2>1. CASE TimerTick \/ TimerDone
    BY <2>1, ViewKept DEF TimerTick, TimerDone, Quiet
  <2>2. CASE ScanStep(Timer)
    BY <2>2, SharedView DEF ScanStep, Procs
  <2>3. QED BY <1>2, <2>1, <2>2 DEF TimerStep
<1>3. CASE ShutdownIdle \/ ShutdownAttempt \/ ShutdownLate
  BY <1>3, ViewKept DEF ShutdownIdle, ShutdownAttempt, ShutdownLate, ShutdownBegin
<1>4. CASE Crash \/ Exit \/ ExitAbandon
  <2>1. Restart
    BY <1>4 DEF Crash, Exit, ExitAbandon
  <2>2. ending' \in [Recs -> {"no", "stop", "cancel", "enqueue"}]
    BY <2>1 DEF Restart
  <2>3. queue' \in Seq(Jobs)
    BY <2>1 DEF Restart
  <2>4. QED BY <2>1, <2>2, <2>3 DEF Restart, TypeView, Opt
<1>5. QED
  BY <1>1, <1>2, <1>3, <1>4, TaskView, WorkerView, StartupView, EndingView DEF Next
----------------------------------------------------------------------------
(* The crashes. *)

LEMMA CrashesStep == TypeCrashes /\ [Next]_vars => TypeCrashes'
<1> SUFFICES ASSUME TypeCrashes, [Next]_vars PROVE TypeCrashes'
  OBVIOUS
<1>1. CASE ShutdownIdle \/ ShutdownAttempt \/ ShutdownLate
  BY <1>1 DEF ShutdownIdle, ShutdownAttempt, ShutdownLate, ShutdownBegin, TypeCrashes
<1>2. CASE Crash \/ Exit \/ ExitAbandon
  <2>1. crashes < MaxCrashes /\ crashes' = crashes + 1 /\ shutting' = FALSE
    BY <1>2 DEF Crash, Exit, ExitAbandon, Restart, TypeCrashes
  <2>2. crashes' \in 0..MaxCrashes
    BY <2>1, LimitsAssumption DEF TypeCrashes
  <2>3. QED BY <2>1, <2>2 DEF TypeCrashes
<1>3. CASE UNCHANGED <<shutting, crashes>>
  BY <1>3 DEF TypeCrashes
<1>4. ASSUME NEW t \in Tasks, Command(t) \/ TaskStep(t) PROVE UNCHANGED <<shutting, crashes>>
  BY <1>4 DEF Command, StartLock, Retry, Summarize, Name, Delete, TaskStep, StartRefused,
              StartCreate, StartFails, StartWrite, StartOpen, StartShow, GiveUpStart,
              RetryClaim, RetryRepair, RepairFails, Send, MarkRead, MarkWrite, MarkFails,
              NameRead, NameWrite, DeleteHold, DeleteRemove, Quiet, Keep, pastVars
<1>5. ASSUME Stop \/ Cancel \/ \E r \in Recs : EndingStep(r) \/ StuckEnds(r)
      PROVE  UNCHANGED <<shutting, crashes>>
  BY <1>5 DEF Stop, Cancel, TakeSession, EndingStep, StopFinish, StopStuck, StopEnqueue,
              CancelFinish, StuckEnds, Quiet, Keep, pastVars
<1>6. ASSUME WorkerStep
      PROVE  UNCHANGED <<shutting, crashes>>
  BY <1>6 DEF WorkerStep, WorkerTake, WorkerBegin, WorkerDone, WorkerDoneSummary,
              WorkerFail, WorkerNetwork, Attempt, SummaryHold, SummaryWrite,
              SummaryRefused, SummaryTimeout, Send, MarkRead, MarkWrite, MarkFails,
              SweepList, SweepHold, SweepWrite, SweepDone, Quiet, Keep, pastVars
<1>7. ASSUME RecoverList \/ StartupStep \/ TimerStep
      PROVE  UNCHANGED <<shutting, crashes>>
  BY <1>7 DEF RecoverList, StartupStep, RecoverRepair, RepairFails, Send, ResumeList,
              ResumeClear, MarkRead, MarkWrite, MarkFails, RecoverOne, ResumeOff,
              ResumeOne, StartupScan, StartupScanned, SweepList, SweepHold, SweepWrite,
              SweepDone, TimerStep, TimerTick, TimerDone, ScanStep, Scanning, ScanGone,
              ScanNotYet, ScanDue, ScanGiveUp, GiveUp, Quiet, Keep, pastVars
<1>8. CASE UNCHANGED vars
  BY <1>3, <1>8 DEF vars, pastVars
<1>9. QED BY <1>1, <1>2, <1>3, <1>4, <1>5, <1>6, <1>7, <1>8 DEF Next
----------------------------------------------------------------------------
LEMMA ProcsStep == TypeInv /\ [Next]_vars => TypeProcs'
<1> SUFFICES ASSUME TypeInv, [Next]_vars PROVE TypeProcs'
  OBVIOUS
<1> TypeProcs /\ TypeDisk /\ TypeView
  BY DEF TypeInv
<1>1. CASE UNCHANGED vars
  BY <1>1, StayType DEF vars, localVars
<1>2. QED
  BY <1>1, TaskProcs, WorkerProcs, StartupProcs, OtherProcs DEF Next

LEMMA TypeInit == Init => TypeInv
<1> SUFFICES ASSUME Init PROVE TypeInv
  OBVIOUS
<1>1. TypeProcs
  <2>1. \A p \in Procs : Start0[p] \in StepsOf(p) /\ Start0[p] \in {"list", "idle"}
    BY ProcSteps DEF Start0, TaskSteps, WorkerSteps, StartupSteps, TimerSteps, Procs
  <2>2. pc \in [Procs -> Steps] /\ \A p \in Procs : pc[p] \in StepsOf(p)
    BY <2>1, ProcSteps DEF Init, Start0
  <2>3. \A p \in Procs : Fits(pc[p], job[p], seen[p])
    BY <2>1 DEF Init, Fits, JobSteps
  <2>4. QED BY <2>2, <2>3 DEF Init, TypeProcs, Opt
<1>2. TypeTodo
  BY DEF Init, TypeTodo
<1>3. TypeDisk
  BY FreshType DEF Init, TypeDisk, Statuses, Tracks
<1>4. TypeView
  <2>1. queue \in Seq(Jobs)
    BY DEF Init
  <2>2. QED BY <2>1 DEF Init, TypeView, Opt
<1>5. TypeCrashes
  <2>1. crashes \in 0..MaxCrashes
    BY LimitsAssumption DEF Init
  <2>2. QED BY <2>1 DEF Init, TypeCrashes
<1>6. QED BY <1>1, <1>2, <1>3, <1>4, <1>5 DEF TypeInv

\* The inductive form, which says what each process carries too.
THEOREM Carried == Spec => []TypeInv
<1>1. TypeInv /\ [Next]_vars => TypeInv'
  <2> SUFFICES ASSUME TypeInv, [Next]_vars PROVE TypeInv'
    OBVIOUS
  <2> TypeProcs /\ TypeTodo /\ TypeDisk /\ TypeView /\ TypeCrashes
    BY DEF TypeInv
  <2>1. QED BY ProcsStep, TodoStep, DiskStep, ViewStep, CrashesStep DEF TypeInv
<1>2. QED BY <1>1, TypeInit, PTL DEF Spec

\* Whatever the commands, the crashes and the failures: every variable of the
\* recording daemon keeps its type, no process is at a step it does not have,
\* and no count goes below zero (an attempt given back by a shutdown).
THEOREM RecordingsTyped == Spec => []TypeOK
<1>1. TypeInv => TypeOK
  BY DEF TypeInv, TypeProcs, TypeTodo, TypeDisk, TypeView, TypeCrashes, TypeOK
<1>2. QED BY <1>1, Carried, PTL
----------------------------------------------------------------------------
(* One owner at a time. *)

Reserving == {"repair", "send", "markRead", "markWrite", "giveUp"}
Holding   == {"clear", "nameRead", "nameWrite", "delete", "swept", "summary"}
AtWork    == {"begin", "run", "make", "summary"}
Busy      == Reserving \cup Holding \cup AtWork

\* What is reserved is queued, by one process, and what is with the worker's
\* queue is there once and with nobody else.
ReservedOnce ==
  /\ \A p \in Procs : pc[p] \in Reserving => job[p] \in queued
  /\ \A p, q \in Procs :
       pc[p] \in Reserving /\ pc[q] \in Reserving /\ job[p].rec = job[q].rec => p = q
  /\ \A i \in DOMAIN queue : queue[i] \in queued
  /\ \A i, k \in DOMAIN queue : queue[i].rec = queue[k].rec => i = k
  /\ \A p \in Procs, i \in DOMAIN queue :
       pc[p] \in Reserving => job[p].rec # queue[i].rec

\* What the worker has is not queued again.
WorkedOnce ==
  /\ pc[Worker] \in AtWork => processing = job[Worker]
  /\ processing # None => \A j \in queued : j.rec # processing.rec

\* What is held has one holder, and nobody transcribes it.
HeldOnce ==
  /\ \A p \in Procs : pc[p] \in Holding => job[p].rec \in held
  /\ \A p, q \in Procs :
       pc[p] \in Holding /\ pc[q] \in Holding /\ job[p].rec = job[q].rec => p = q
  /\ \A j \in Working : Transcribes(j) => j.rec \notin held

OwnInv == ReservedOnce /\ WorkedOnce /\ HeldOnce
----------------------------------------------------------------------------
(* The effects. *)

Others(p) == \A q \in Procs \ {p} : pc'[q] = pc[q] /\ job'[q] = job[q]

\* At most gives up what it has.
Stays(q) ==
  /\ pc'[q] \in Busy => job'[q] = job[q]
  /\ pc'[q] \in Reserving => pc[q] \in Reserving
  /\ pc'[q] \in Holding => pc[q] \in Holding
  /\ pc'[q] \in AtWork => pc[q] \in AtWork

Calm ==
  /\ \A q \in Procs : Stays(q)
  /\ UNCHANGED <<queued, queue, processing, held>>

Reserves(p, j) ==
  /\ pc'[p] \in Reserving /\ job'[p] = j /\ Others(p)
  /\ ~Pending(j.rec) /\ j.rec \notin held
  /\ queued' = queued \cup {j}
  /\ UNCHANGED <<queue, processing, held>>

Lines(j) ==
  /\ \A q \in Procs : Stays(q)
  /\ ~Pending(j.rec) /\ j.rec \notin held
  /\ queued' = queued \cup {j}
  /\ queue' = Append(queue, j)
  /\ UNCHANGED <<processing, held>>

Drops(p) ==
  /\ pc[p] \in Reserving /\ pc'[p] \notin Busy /\ Others(p)
  /\ Unreserve(job[p].rec)
  /\ UNCHANGED <<queue, processing, held>>

Passes(p) ==
  /\ pc[p] \in Reserving /\ pc'[p] \notin Busy /\ Others(p)
  /\ queue' = Append(queue, job[p])
  /\ UNCHANGED <<queued, processing, held>>

Holds(p, r) ==
  /\ pc'[p] \in Holding /\ job'[p].rec = r /\ Others(p)
  /\ pc'[p] \in AtWork => pc[p] \in AtWork /\ job'[p] = job[p]
  /\ Holdable(r)
  /\ held' = held \cup {r}
  /\ UNCHANGED <<queued, queue, processing>>

Releases(p) ==
  /\ pc[p] \in Holding /\ pc'[p] \notin Busy /\ Others(p)
  /\ held' = held \ {job[p].rec}
  /\ processing' = processing \/ (p = Worker /\ processing' = None)
  /\ UNCHANGED <<queued, queue>>

Takes(i) ==
  /\ i \in DOMAIN queue
  /\ pc'[Worker] \in {"begin", "make"} /\ job'[Worker] = queue[i] /\ Others(Worker)
  /\ queue' = RemoveAt(queue, i)
  /\ Unreserve(queue[i].rec)
  /\ processing' = queue[i]
  /\ UNCHANGED held

Ends ==
  /\ pc'[Worker] \notin Busy /\ Others(Worker)
  /\ processing' = None
  /\ UNCHANGED <<queued, queue, held>>

EndsInSummary(r) ==
  /\ pc[Worker] = "run" /\ job[Worker].rec = r
  /\ pc'[Worker] = "markRead" /\ job'[Worker] = Job(r, "auto") /\ Others(Worker)
  /\ processing' = None
  /\ queued' = queued \cup {Job(r, "auto")}
  /\ UNCHANGED <<queue, held>>

Resets ==
  /\ \A q \in Procs : pc'[q] \notin Busy
  /\ processing' = None
  /\ queued' = {} /\ queue' = <<>> /\ held' = {}

Effect ==
  \/ Calm \/ Ends \/ Resets
  \/ \E p \in Procs : Drops(p) \/ Passes(p) \/ Releases(p)
  \/ \E p \in Procs, j \in Jobs : Reserves(p, j)
  \/ \E j \in Jobs : Lines(j)
  \/ \E p \in Procs, r \in Recs : Holds(p, r)
  \/ \E i \in DOMAIN queue : Takes(i)
  \/ \E r \in Recs : EndsInSummary(r)
----------------------------------------------------------------------------
(* Every effect keeps the discipline. *)

LEMMA CalmOwn ==
  ASSUME OwnInv, Calm
  PROVE  OwnInv'
<1> USE DEF Calm, Stays, Busy
<1>1. ReservedOnce'
  BY DEF OwnInv, ReservedOnce
<1>2. WorkedOnce'
  BY DEF OwnInv, WorkedOnce, Procs
<1>3. HeldOnce'
  BY DEF OwnInv, HeldOnce, Working, Some, Transcribes
<1>4. QED BY <1>1, <1>2, <1>3 DEF OwnInv

LEMMA ResetsOwn ==
  ASSUME Resets
  PROVE  OwnInv'
BY DEF Resets, OwnInv, ReservedOnce, WorkedOnce, HeldOnce, Busy, Working, Some, Procs

LEMMA ReservesOwn ==
  ASSUME TypeInv, OwnInv, NEW p \in Procs, NEW j \in Jobs, Reserves(p, j)
  PROVE  OwnInv'
<1>1. \A i \in queued : i.rec # j.rec
  BY DEF Reserves, Pending, Working
<1>2. processing # None => processing.rec # j.rec
  BY DEF Reserves, Pending, Working, Some
<1>3. pc'[p] \notin Holding /\ pc'[p] \notin AtWork
  BY DEF Reserves, Reserving, Holding, AtWork
<1>4. ReservedOnce'
  BY <1>1 DEF Reserves, Others, OwnInv, ReservedOnce
<1>5. WorkedOnce'
  BY <1>2, <1>3 DEF Reserves, Others, OwnInv, WorkedOnce, Procs
<1>6. HeldOnce'
  BY <1>3 DEF Reserves, Others, OwnInv, HeldOnce, Working, Some, Transcribes
<1>7. QED BY <1>4, <1>5, <1>6 DEF OwnInv

LEMMA Appended ==
  ASSUME TypeInv, NEW j \in Jobs, queue' = Append(queue, j)
  PROVE  \A i \in DOMAIN queue' :
           \/ i \in DOMAIN queue /\ queue'[i] = queue[i]
           \/ i = Len(queue) + 1 /\ queue'[i] = j
<1>1. queue \in Seq(Jobs)
  BY DEF TypeInv, TypeView
<1>2. QED BY <1>1, AppendProperties

LEMMA LinesOwn ==
  ASSUME TypeInv, OwnInv, NEW j \in Jobs, Lines(j)
  PROVE  OwnInv'
<1>1. \A i \in queued : i.rec # j.rec
  BY DEF Lines, Pending, Working
<1>2. processing # None => processing.rec # j.rec
  BY DEF Lines, Pending, Working, Some
<1>3. \A i \in DOMAIN queue' : \/ i \in DOMAIN queue /\ queue'[i] = queue[i]
                               \/ i = Len(queue) + 1 /\ queue'[i] = j
  BY Appended DEF Lines
<1>4. ReservedOnce'
  <2>1. \A i \in DOMAIN queue : queue[i].rec # j.rec
    BY <1>1 DEF OwnInv, ReservedOnce
  <2>2. \A q \in Procs : pc'[q] \in Reserving => job'[q] \in queued /\ job'[q].rec # j.rec
    BY <1>1 DEF Lines, Stays, Busy, OwnInv, ReservedOnce
  <2>3. QED BY <1>3, <2>1, <2>2 DEF Lines, Stays, Busy, OwnInv, ReservedOnce
<1>5. WorkedOnce'
  BY <1>2 DEF Lines, Stays, Busy, OwnInv, WorkedOnce, Procs
<1>6. HeldOnce'
  BY DEF Lines, Stays, Busy, OwnInv, HeldOnce, Working, Some, Transcribes
<1>7. QED BY <1>4, <1>5, <1>6 DEF OwnInv

LEMMA DropsOwn ==
  ASSUME TypeInv, OwnInv, NEW p \in Procs, Drops(p)
  PROVE  OwnInv'
<1>1. ReservedOnce'
  BY DEF Drops, Others, Unreserve, Busy, OwnInv, ReservedOnce
<1>2. WorkedOnce'
  BY DEF Drops, Others, Unreserve, Busy, OwnInv, WorkedOnce, Procs
<1>3. HeldOnce'
  BY DEF Drops, Others, Unreserve, Busy, OwnInv, HeldOnce, Working, Some, Transcribes
<1>4. QED BY <1>1, <1>2, <1>3 DEF OwnInv

LEMMA PassesOwn ==
  ASSUME TypeInv, OwnInv, NEW p \in Procs, Passes(p)
  PROVE  OwnInv'
<1>1. job[p] \in queued /\ job[p] \in Jobs
  BY DEF Passes, OwnInv, ReservedOnce, TypeInv, TypeView
<1>2. \A i \in DOMAIN queue' : \/ i \in DOMAIN queue /\ queue'[i] = queue[i]
                               \/ i = Len(queue) + 1 /\ queue'[i] = job[p]
  BY <1>1, Appended DEF Passes
<1>3. ReservedOnce'
  BY <1>1, <1>2 DEF Passes, Others, Busy, OwnInv, ReservedOnce
<1>4. WorkedOnce'
  BY DEF Passes, Others, Busy, OwnInv, WorkedOnce, Procs
<1>5. HeldOnce'
  BY DEF Passes, Others, Busy, OwnInv, HeldOnce, Working, Some, Transcribes
<1>6. QED BY <1>3, <1>4, <1>5 DEF OwnInv

LEMMA HoldsOwn ==
  ASSUME TypeInv, OwnInv, NEW p \in Procs, NEW r \in Recs, Holds(p, r)
  PROVE  OwnInv'
<1>1. pc'[p] \notin Reserving
  BY DEF Holds, Reserving, Holding
<1>2. ReservedOnce'
  BY <1>1 DEF Holds, Others, OwnInv, ReservedOnce
<1>3. WorkedOnce'
  BY DEF Holds, Others, OwnInv, WorkedOnce, Procs
<1>4. HeldOnce'
  BY DEF Holds, Holdable, Others, OwnInv, HeldOnce, Working, Some, Transcribes
<1>5. QED BY <1>2, <1>3, <1>4 DEF OwnInv

LEMMA ReleasesOwn ==
  ASSUME TypeInv, OwnInv, NEW p \in Procs, Releases(p)
  PROVE  OwnInv'
<1>1. ReservedOnce'
  BY DEF Releases, Others, Busy, OwnInv, ReservedOnce
<1>2. WorkedOnce'
  BY DEF Releases, Others, Busy, OwnInv, WorkedOnce, Procs
<1>3. HeldOnce'
  BY DEF Releases, Others, Busy, OwnInv, HeldOnce, Working, Some, Transcribes
<1>4. QED BY <1>1, <1>2, <1>3 DEF OwnInv

LEMMA TakesOwn ==
  ASSUME TypeInv, OwnInv, NEW i \in DOMAIN queue, Takes(i)
  PROVE  OwnInv'
<1> DEFINE j == queue[i]
<1>1. queue \in Seq(Jobs) /\ j \in Jobs /\ j \in queued /\ None \notin Jobs
  <2>1. queue \in Seq(Jobs)
    BY DEF TypeInv, TypeView
  <2>2. j \in queued
    BY DEF OwnInv, ReservedOnce
  <2>3. QED BY <2>1, <2>2, JobsAssumption
<1>2. /\ Len(queue') = Len(queue) - 1 /\ Len(queue) \in Nat /\ queue' \in Seq(Jobs)
      /\ \A k \in 1..(Len(queue) - 1) :
           queue'[k] = IF k < i THEN queue[k] ELSE queue[k + 1]
  BY <1>1, Removed DEF Takes
<1>3. \A k \in DOMAIN queue' :
        \E n \in DOMAIN queue : n # i /\ queue'[k] = queue[n] /\ n = IF k < i THEN k ELSE k + 1
  <2> TAKE k \in DOMAIN queue'
  <2>1. k \in 1..(Len(queue) - 1) /\ i \in 1..Len(queue)
    BY <1>1, <1>2
  <2>2. (IF k < i THEN k ELSE k + 1) \in DOMAIN queue /\ (IF k < i THEN k ELSE k + 1) # i
    BY <1>1, <1>2, <2>1
  <2>3. queue'[k] = queue[IF k < i THEN k ELSE k + 1]
    BY <1>2, <2>1
  <2>4. QED BY <2>2, <2>3
<1>4. \A k \in DOMAIN queue' : queue'[k] \in queued /\ queue'[k].rec # j.rec
  BY <1>3 DEF OwnInv, ReservedOnce
<1>5. pc'[Worker] \notin Reserving /\ pc'[Worker] \notin Holding
  BY DEF Takes, Reserving, Holding
<1>6. ReservedOnce'
  <2>1. \A p \in Procs : pc'[p] \in Reserving =>
          p # Worker /\ pc[p] \in Reserving /\ job'[p] = job[p] /\ job[p].rec # j.rec
    BY <1>5 DEF Takes, Others, OwnInv, ReservedOnce
  <2>2. \A p \in Procs : pc'[p] \in Reserving => job'[p] \in queued'
    BY <2>1 DEF Takes, Unreserve, OwnInv, ReservedOnce
  <2>3. \A p, q \in Procs :
          pc'[p] \in Reserving /\ pc'[q] \in Reserving /\ job'[p].rec = job'[q].rec => p = q
    BY <2>1 DEF OwnInv, ReservedOnce
  <2>4. \A k \in DOMAIN queue' : queue'[k] \in queued'
    BY <1>4 DEF Takes, Unreserve
  <2>5. \A k, m \in DOMAIN queue' : queue'[k].rec = queue'[m].rec => k = m
    <3>1. TAKE k, m \in DOMAIN queue'
    <3>2. PICK a \in DOMAIN queue : queue'[k] = queue[a] /\ a = IF k < i THEN k ELSE k + 1
      BY <1>3
    <3>3. PICK b \in DOMAIN queue : queue'[m] = queue[b] /\ b = IF m < i THEN m ELSE m + 1
      BY <1>3
    <3>4. HAVE queue'[k].rec = queue'[m].rec
    <3>5. a = b
      BY <3>2, <3>3, <3>4 DEF OwnInv, ReservedOnce
    <3>6. k \in Int /\ m \in Int /\ i \in Int
      BY <1>1, <1>2
    <3>7. QED BY <3>2, <3>3, <3>5, <3>6
  <2>6. \A p \in Procs, k \in DOMAIN queue' :
          pc'[p] \in Reserving => job'[p].rec # queue'[k].rec
    BY <1>3, <2>1 DEF OwnInv, ReservedOnce
  <2>7. QED BY <2>2, <2>3, <2>4, <2>5, <2>6 DEF ReservedOnce
<1>7. WorkedOnce'
  BY DEF Takes, Unreserve, WorkedOnce
<1>8. HeldOnce'
  <2>1. \A p \in Procs : pc'[p] \in Holding =>
          p # Worker /\ pc[p] \in Holding /\ job'[p] = job[p]
    BY <1>5 DEF Takes, Others
  <2>2. \A k \in Working' : Transcribes(k) => k.rec \notin held'
    BY <1>1 DEF Takes, Unreserve, Working, Some, OwnInv, HeldOnce
  <2>3. QED BY <2>1, <2>2 DEF Takes, OwnInv, HeldOnce, Transcribes
<1>9. QED BY <1>6, <1>7, <1>8 DEF OwnInv

LEMMA EndsOwn ==
  ASSUME TypeInv, OwnInv, Ends
  PROVE  OwnInv'
<1>1. ReservedOnce'
  BY DEF Ends, Others, Busy, OwnInv, ReservedOnce
<1>2. WorkedOnce'
  BY DEF Ends, Others, Busy, OwnInv, WorkedOnce
<1>3. HeldOnce'
  BY DEF Ends, Others, Busy, OwnInv, HeldOnce, Working, Some, Transcribes
<1>4. QED BY <1>1, <1>2, <1>3 DEF OwnInv

LEMMA EndsInSummaryOwn ==
  ASSUME TypeInv, OwnInv, NEW r \in Recs, EndsInSummary(r)
  PROVE  OwnInv'
<1> DEFINE j == Job(r, "auto")
<1>1. j \in Jobs /\ j.rec = r /\ ~Transcribes(j)
  BY JobType DEF Kinds
<1>2. processing = job[Worker] /\ processing # None
  <2>1. job[Worker] \in Jobs
    BY DEF EndsInSummary, TypeInv, TypeProcs, Fits, JobSteps, Procs
  <2>2. QED BY <2>1, JobsAssumption DEF EndsInSummary, AtWork, OwnInv, WorkedOnce
<1>3. \A i \in queued : i.rec # r
  BY <1>2 DEF EndsInSummary, OwnInv, WorkedOnce
<1>4. /\ pc'[Worker] \in Reserving /\ pc'[Worker] \notin Holding
      /\ pc'[Worker] \notin AtWork
  BY DEF EndsInSummary, Reserving, Holding, AtWork
<1>5. ReservedOnce'
  BY <1>1, <1>3, <1>4 DEF EndsInSummary, Others, OwnInv, ReservedOnce
<1>6. WorkedOnce'
  BY <1>4 DEF EndsInSummary, WorkedOnce
<1>7. HeldOnce'
  BY <1>1, <1>4 DEF EndsInSummary, Others, OwnInv, HeldOnce, Working, Some, Transcribes
<1>8. QED BY <1>5, <1>6, <1>7 DEF OwnInv

LEMMA EffectOwn == TypeInv /\ OwnInv /\ Effect => OwnInv'
BY CalmOwn, EndsOwn, ResetsOwn, DropsOwn, PassesOwn, ReleasesOwn, ReservesOwn, LinesOwn,
   HoldsOwn, TakesOwn, EndsInSummaryOwn DEF Effect
----------------------------------------------------------------------------
(* Every step has one of the effects. *)

LEMMA MovesOthers ==
  ASSUME TypeProcs, NEW p \in Procs, NEW step, NEW j, NEW m, Moves(p, step, j, m)
  PROVE  pc'[p] = step /\ job'[p] = j /\ Others(p)
BY DEF TypeProcs, Moves, Others

LEMMA GotoOthers ==
  ASSUME TypeProcs, NEW p \in Procs, NEW step, Goto(p, step), UNCHANGED job
  PROVE  pc'[p] = step /\ job'[p] = job[p] /\ Others(p)
BY DEF TypeProcs, Goto, Others

LEMMA GoOthers ==
  ASSUME TypeProcs, NEW p \in Procs, NEW step, NEW j, Go(p, step, j)
  PROVE  pc'[p] = step /\ job'[p] = j /\ Others(p)
BY DEF TypeProcs, Go, Goto, Others

LEMMA ReturnOthers ==
  ASSUME TypeProcs, NEW p \in Procs, Return(p)
  PROVE  pc'[p] \notin Busy /\ Others(p)
<1>1. pc'[p] = Home(p) /\ Others(p)
  BY DEF TypeProcs, Return, Goto, Others
<1>2. QED BY <1>1, HomeFits DEF Busy, Reserving, Holding, AtWork, JobSteps

\* A process that goes where it is not busy, or stays where it is, in a step
\* that leaves the view's sets alone.
LEMMA CalmStep ==
  ASSUME UNCHANGED <<queued, queue, processing, held>>,
         \/ UNCHANGED <<pc, job>>
         \/ \E p \in Procs : Others(p) /\ Stays(p)
  PROVE  Calm
BY DEF Calm, Others, Stays

LEMMA SharedEffect ==
  ASSUME TypeInv, NEW p \in Procs,
         \/ RepairFails(p) \/ Send(p) \/ MarkRead(p) \/ MarkWrite(p) \/ MarkFails(p)
         \/ GiveUp(p) \/ SweepList(p) \/ SweepWrite(p) \/ SweepDone(p)
         \/ (\E r \in Recs : SweepHold(p, r))
         \/ \E r \in Recs : ScanGone(p, r) \/ ScanNotYet(p, r) \/ ScanDue(p, r)
                             \/ ScanGiveUp(p, r)
  PROVE  Effect
<1> TypeProcs
  BY DEF TypeInv
<1>1. CASE RepairFails(p) \/ MarkFails(p) \/ GiveUp(p)
  <2>1. Drops(p)
    BY <1>1, ReturnOthers DEF RepairFails, MarkFails, GiveUp, Drops, Reserving
  <2>2. QED BY <2>1 DEF Effect
<1>2. CASE Send(p)
  <2>1. pc'[p] \notin Busy /\ Others(p)
    BY <1>2, ReturnOthers DEF Send
  <2>2. Drops(p) \/ Passes(p)
    BY <1>2, <2>1 DEF Send, Dispatch, Drops, Passes, Reserving
  <2>3. QED BY <2>2 DEF Effect
<1>3. CASE MarkRead(p) \/ MarkWrite(p)
  <2>1. PICK step \in {"markWrite", "send"} : Goto(p, step) /\ UNCHANGED job
    BY <1>3 DEF MarkRead, MarkWrite
  <2>2. Others(p) /\ Stays(p)
    BY <1>3, <2>1, GotoOthers DEF Stays, Reserving, Holding, AtWork, MarkRead, MarkWrite
  <2>3. Calm
    BY <1>3, <2>2, CalmStep DEF MarkRead, MarkWrite, viewVars
  <2>4. QED BY <2>3 DEF Effect
<1>4. CASE SweepList(p) \/ SweepDone(p)
  <2>1. PICK step \in {"sweeping", "idle", "over"} : Goto(p, step) /\ UNCHANGED job
    BY <1>4 DEF SweepList, SweepDone
  <2>2. Others(p) /\ Stays(p)
    BY <2>1, GotoOthers DEF Stays, Busy, Reserving, Holding, AtWork
  <2>3. Calm
    BY <1>4, <2>2, CalmStep DEF SweepList, SweepDone, viewVars
  <2>4. QED BY <2>3 DEF Effect
<1>5. CASE SweepWrite(p)
  <2>1. pc'[p] = "sweeping" /\ Others(p)
    BY <1>5 DEF SweepWrite, Goto, TypeProcs, Others
  <2>2. Releases(p)
    BY <1>5, <2>1 DEF SweepWrite, Releases, Busy, Reserving, Holding, AtWork
  <2>3. QED BY <2>2 DEF Effect
<1>6. ASSUME NEW r \in Recs, SweepHold(p, r) PROVE Effect
  <2>1. CASE Holdable(r)
    <3>1. pc'[p] = "swept" /\ job'[p] = Job(r, "asked") /\ Others(p)
      BY <1>6, <2>1, GoOthers DEF SweepHold
    <3>2. Holds(p, r)
      BY <1>6, <2>1, <3>1, JobType DEF SweepHold, Holds, Holding, AtWork, Kinds
    <3>3. QED BY <3>2 DEF Effect
  <2>2. CASE ~Holdable(r)
    BY <1>6, <2>2, CalmStep DEF SweepHold, Effect
  <2>3. QED BY <2>1, <2>2
<1>7. ASSUME NEW r \in Recs, ScanGone(p, r) \/ ScanNotYet(p, r) PROVE Effect
  BY <1>7, CalmStep DEF ScanGone, ScanNotYet, Scanning, Effect
<1>8. ASSUME NEW r \in Recs, ScanDue(p, r) PROVE Effect
  <2>1. CASE Reservable(r) /\ ~Gone
    <3>1. Job(r, "network") \in Jobs /\ Job(r, "network").rec = r
      BY JobType DEF Kinds
    <3>2. Lines(Job(r, "network"))
      BY <1>8, <2>1, <3>1
         DEF ScanDue, Scanning, Enqueue, Lines, Reservable, Stays
    <3>3. QED BY <3>1, <3>2 DEF Effect
  <2>2. CASE ~(Reservable(r) /\ ~Gone)
    <3>1. Job(r, "network").rec = r
      BY JobType DEF Kinds
    <3>2. QED BY <1>8, <2>2, <3>1, CalmStep DEF ScanDue, Scanning, Enqueue, Effect
  <2>3. QED BY <2>1, <2>2
<1>9. ASSUME NEW r \in Recs, ScanGiveUp(p, r) PROVE Effect
  <2>1. CASE Reservable(r)
    <3>1. Job(r, "network") \in Jobs /\ Job(r, "network").rec = r
      BY JobType DEF Kinds
    <3>2. pc'[p] = "giveUp" /\ job'[p] = Job(r, "network") /\ Others(p)
      BY <1>9, <2>1, GoOthers DEF ScanGiveUp
    <3>3. Reserves(p, Job(r, "network"))
      BY <1>9, <2>1, <3>1, <3>2
         DEF ScanGiveUp, Scanning, Reserves, Reservable, Reserving
    <3>4. QED BY <3>1, <3>3 DEF Effect
  <2>2. CASE ~Reservable(r)
    BY <1>9, <2>2, CalmStep DEF ScanGiveUp, Scanning, Effect
  <2>3. QED BY <2>1, <2>2
<1>10. QED BY <1>1, <1>2, <1>3, <1>4, <1>5, <1>6, <1>7, <1>8, <1>9

LEMMA TaskEffect ==
  ASSUME TypeInv, NEW t \in Tasks, Command(t) \/ TaskStep(t)
  PROVE  Effect
<1> t \in Procs /\ TypeProcs
  BY DEF TypeInv, Procs
<1> USE DEF Busy, Reserving, Holding, AtWork
<1>1. CASE StartLock(t) \/ StartWrite(t) \/ StartOpen(t)
  <2>1. PICK step \in {"create", "open", "show"} : Goto(t, step) /\ UNCHANGED job
    BY <1>1 DEF StartLock, StartWrite, StartOpen
  <2>2. Others(t) /\ Stays(t)
    BY <2>1, GotoOthers DEF Stays
  <2>3. QED BY <1>1, <2>2, CalmStep
            DEF StartLock, StartWrite, StartOpen, viewVars, Effect
<1>2. CASE StartRefused(t) \/ StartFails(t)
  <2>1. Others(t) /\ Stays(t)
    BY <1>2 DEF StartRefused, StartFails, GiveUpStart, Goto, Others, Stays, TypeProcs
  <2>2. QED BY <1>2, <2>1, CalmStep
            DEF StartRefused, StartFails, GiveUpStart, viewVars, Effect
<1>3. CASE \E r \in Recs : StartCreate(t, r) \/ Retry(t, r) \/ Delete(t, r)
  <2>1. \E step, j : Go(t, step, j) /\ step \in {"write", "claim", "deleteHold"}
    BY <1>3 DEF StartCreate, Retry, Delete
  <2>2. Others(t) /\ Stays(t)
    BY <2>1, GoOthers DEF Stays
  <2>3. QED BY <1>3, <2>2, CalmStep DEF StartCreate, Retry, Delete, viewVars, Effect
<1>4. CASE StartShow(t)
  <2>1. Others(t) /\ Stays(t)
    BY <1>4, ReturnOthers DEF StartShow, Stays
  <2>2. QED BY <1>4, <2>1, CalmStep DEF StartShow, Effect
<1>5. ASSUME NEW r \in Recs, Summarize(t, r) PROVE Effect
  <2>1. Job(r, "asked") \in Jobs /\ Job(r, "asked").rec = r
    BY JobType DEF Kinds
  <2>2. pc'[t] = "markRead" /\ job'[t] = Job(r, "asked") /\ Others(t)
    BY <1>5, GoOthers DEF Summarize
  <2>3. Reserves(t, Job(r, "asked"))
    BY <1>5, <2>1, <2>2 DEF Summarize, Reserves, Reservable
  <2>4. QED BY <2>1, <2>3 DEF Effect
<1>6. ASSUME NEW r \in Recs, Name(t, r) PROVE Effect
  <2>1. Job(r, "asked").rec = r
    BY JobType DEF Kinds
  <2>2. pc'[t] = "nameRead" /\ job'[t] = Job(r, "asked") /\ Others(t)
    BY <1>6, GoOthers DEF Name
  <2>3. Holds(t, r)
    BY <1>6, <2>1, <2>2 DEF Name, Holds
  <2>4. QED BY <2>3 DEF Effect
<1>7. CASE RetryClaim(t)
  <2>1. pc[t] = "claim" /\ job[t] \in Jobs
    BY <1>7 DEF RetryClaim, TypeProcs, Fits, JobSteps
  <2>2. CASE session # job[t].rec /\ Reservable(job[t].rec)
    <3>1. pc'[t] = "repair" /\ job'[t] = job[t] /\ Others(t)
      BY <1>7, <2>2, GotoOthers DEF RetryClaim
    <3>2. Reserves(t, job[t])
      BY <1>7, <2>2, <3>1 DEF RetryClaim, Reserves, Reservable
    <3>3. QED BY <2>1, <3>2 DEF Effect
  <2>3. CASE ~(session # job[t].rec /\ Reservable(job[t].rec))
    <3>1. Others(t) /\ Stays(t)
      BY <1>7, <2>3, ReturnOthers DEF RetryClaim, Stays
    <3>2. QED BY <1>7, <2>3, <3>1, CalmStep DEF RetryClaim, Effect
  <2>4. QED BY <2>2, <2>3
<1>8. CASE RetryRepair(t) \/ NameRead(t)
  <2>1. Others(t) /\ Stays(t)
    BY <1>8, GotoOthers DEF RetryRepair, NameRead, Stays
  <2>2. QED BY <1>8, <2>1, CalmStep DEF RetryRepair, NameRead, viewVars, Effect
<1>9. CASE NameWrite(t) \/ DeleteRemove(t)
  <2>1. Releases(t)
    BY <1>9, ReturnOthers DEF NameWrite, DeleteRemove, Releases
  <2>2. QED BY <2>1 DEF Effect
<1>10. CASE DeleteHold(t)
  <2>1. pc[t] = "deleteHold" /\ job[t] \in Jobs /\ job[t].rec \in Recs
    BY <1>10 DEF DeleteHold, TypeProcs, Fits, JobSteps, Jobs
  <2>2. CASE session # job[t].rec /\ Deletable(job[t].rec)
    <3>1. pc'[t] = "delete" /\ job'[t] = job[t] /\ Others(t)
      BY <1>10, <2>2, GotoOthers DEF DeleteHold
    <3>2. Holds(t, job[t].rec)
      BY <1>10, <2>2, <3>1 DEF DeleteHold, Holds, Holdable, Deletable, Pending
    <3>3. QED BY <2>1, <3>2 DEF Effect
  <2>3. CASE ~(session # job[t].rec /\ Deletable(job[t].rec))
    <3>1. Others(t) /\ Stays(t)
      BY <1>10, <2>3, ReturnOthers DEF DeleteHold, Stays
    <3>2. QED BY <1>10, <2>3, <3>1, CalmStep DEF DeleteHold, Effect
  <2>4. QED BY <2>2, <2>3
<1>11. QED
  BY <1>1, <1>2, <1>3, <1>4, <1>5, <1>6, <1>7, <1>8, <1>9, <1>10, SharedEffect
     DEF Command, TaskStep

LEMMA WorkerEffect ==
  ASSUME TypeInv, WorkerStep
  PROVE  Effect
<1> Worker \in Procs /\ TypeProcs
  BY DEF TypeInv, Procs
<1> USE DEF Busy, Reserving, Holding, AtWork
<1>1. CASE WorkerTake
  <2>1. PICK i \in DOMAIN queue :
          /\ queue' = RemoveAt(queue, i)
          /\ Unreserve(queue[i].rec)
          /\ processing' = queue[i]
          /\ \E step : Go(Worker, step, queue[i]) /\ step \in {"begin", "make"}
    BY <1>1 DEF WorkerTake
  <2>2. pc'[Worker] \in {"begin", "make"} /\ job'[Worker] = queue[i] /\ Others(Worker)
    BY <2>1, GoOthers
  <2>3. Takes(i)
    BY <1>1, <2>1, <2>2 DEF WorkerTake, Takes
  <2>4. QED BY <2>3 DEF Effect
<1>2. CASE WorkerBegin
  <2>1. Others(Worker) /\ Stays(Worker)
    BY <1>2, GotoOthers DEF WorkerBegin, Stays
  <2>2. QED BY <1>2, <2>1, CalmStep DEF WorkerBegin, viewVars, Effect
<1>3. ASSUME NEW r \in Recs, WorkerDone(r) \/ WorkerFail(r) \/ WorkerNetwork(r)
      PROVE  Effect
  <2>1. Ends
    BY <1>3, ReturnOthers DEF WorkerDone, WorkerFail, WorkerNetwork, Attempt, Ends
  <2>2. QED BY <2>1 DEF Effect
<1>4. ASSUME NEW r \in Recs, WorkerDoneSummary(r) PROVE Effect
  <2>1. pc'[Worker] = "markRead" /\ job'[Worker] = Job(r, "auto") /\ Others(Worker)
    BY <1>4, GoOthers DEF WorkerDoneSummary
  <2>2. EndsInSummary(r)
    BY <1>4, <2>1 DEF WorkerDoneSummary, Attempt, EndsInSummary
  <2>3. QED BY <2>2 DEF Effect
<1>5. CASE SummaryHold
  <2>1. pc[Worker] = "make" /\ job[Worker].rec \in Recs
    BY <1>5 DEF SummaryHold, TypeProcs, Fits, JobSteps, Jobs
  <2>2. pc'[Worker] = "summary" /\ job'[Worker] = job[Worker] /\ Others(Worker)
    BY <1>5, GotoOthers DEF SummaryHold
  <2>3. Holds(Worker, job[Worker].rec)
    BY <1>5, <2>1, <2>2 DEF SummaryHold, Holds
  <2>4. QED BY <2>1, <2>3 DEF Effect
<1>6. CASE SummaryWrite
  <2>1. Releases(Worker)
    BY <1>6, ReturnOthers DEF SummaryWrite, Releases
  <2>2. QED BY <2>1 DEF Effect
<1>7. CASE SummaryRefused \/ SummaryTimeout
  <2>1. Ends
    BY <1>7, ReturnOthers DEF SummaryRefused, SummaryTimeout, Ends
  <2>2. QED BY <2>1 DEF Effect
<1>8. QED
  BY <1>1, <1>2, <1>3, <1>4, <1>5, <1>6, <1>7, SharedEffect DEF WorkerStep

LEMMA StartupEffect ==
  ASSUME TypeInv, RecoverList \/ StartupStep
  PROVE  Effect
<1> Startup \in Procs /\ TypeProcs
  BY DEF TypeInv, Procs
<1> USE DEF Busy, Reserving, Holding, AtWork
<1>1. CASE RecoverList \/ ResumeList \/ StartupScan \/ StartupScanned
  <2>1. \E step : /\ Goto(Startup, step) /\ UNCHANGED job
                  /\ step \in {"recover", "resume", "scan", "sweep"}
    BY <1>1 DEF RecoverList, ResumeList, StartupScan, StartupScanned
  <2>2. Others(Startup) /\ Stays(Startup)
    BY <2>1, GotoOthers DEF Stays
  <2>3. QED BY <1>1, <2>2, CalmStep
            DEF RecoverList, ResumeList, StartupScan, StartupScanned, viewVars, Effect
<1>2. ASSUME NEW r \in Recs, RecoverOne(r) PROVE Effect
  <2>1. Job(r, "transcribe") \in Jobs /\ Job(r, "transcribe").rec = r
    BY JobType DEF Kinds
  <2>2. CASE OnDisk(r) /\ Reservable(r)
    <3>1. /\ pc'[Startup] = "repair" /\ job'[Startup] = Job(r, "transcribe")
          /\ Others(Startup)
      BY <1>2, <2>2, GoOthers DEF RecoverOne
    <3>2. Reserves(Startup, Job(r, "transcribe"))
      BY <1>2, <2>1, <2>2, <3>1 DEF RecoverOne, Reserves, Reservable
    <3>3. QED BY <2>1, <3>2 DEF Effect
  <2>3. CASE ~(OnDisk(r) /\ Reservable(r))
    BY <1>2, <2>3, CalmStep DEF RecoverOne, Effect
  <2>4. QED BY <2>2, <2>3
<1>3. ASSUME NEW r \in Recs, NEW kind \in {"asked", "auto"}, ResumeOne(r, kind)
      PROVE  Effect
  <2>1. Job(r, kind) \in Jobs /\ Job(r, kind).rec = r
    BY JobType DEF Kinds
  <2>2. CASE Reservable(r)
    <3>1. pc'[Startup] = "markRead" /\ job'[Startup] = Job(r, kind) /\ Others(Startup)
      BY <1>3, <2>2, GoOthers DEF ResumeOne
    <3>2. Reserves(Startup, Job(r, kind))
      BY <1>3, <2>1, <2>2, <3>1 DEF ResumeOne, Reserves, Reservable
    <3>3. QED BY <2>1, <3>2 DEF Effect
  <2>3. CASE ~Reservable(r)
    BY <1>3, <2>3, CalmStep DEF ResumeOne, Effect
  <2>4. QED BY <2>2, <2>3
<1>4. ASSUME NEW r \in Recs, ResumeOff(r) PROVE Effect
  <2>1. Job(r, "auto").rec = r
    BY JobType DEF Kinds
  <2>2. CASE Holdable(r)
    <3>1. pc'[Startup] = "clear" /\ job'[Startup] = Job(r, "auto") /\ Others(Startup)
      BY <1>4, <2>2, GoOthers DEF ResumeOff
    <3>2. Holds(Startup, r)
      BY <1>4, <2>1, <2>2, <3>1 DEF ResumeOff, Holds
    <3>3. QED BY <3>2 DEF Effect
  <2>3. CASE ~Holdable(r)
    BY <1>4, <2>3, CalmStep DEF ResumeOff, Effect
  <2>4. QED BY <2>2, <2>3
<1>5. CASE RecoverRepair
  <2>1. CASE Goto(Startup, "send") /\ UNCHANGED <<queued, job>>
    <3>1. Others(Startup) /\ Stays(Startup)
      BY <1>5, <2>1, GotoOthers DEF RecoverRepair, Stays
    <3>2. QED BY <1>5, <2>1, <3>1, CalmStep DEF RecoverRepair, Effect
  <2>2. CASE Unreserve(job[Startup].rec) /\ Return(Startup)
    <3>1. Drops(Startup)
      BY <1>5, <2>2, ReturnOthers DEF RecoverRepair, Drops
    <3>2. QED BY <3>1 DEF Effect
  <2>3. QED BY <1>5, <2>1, <2>2 DEF RecoverRepair
<1>6. CASE ResumeClear
  <2>1. Releases(Startup)
    BY <1>6, ReturnOthers DEF ResumeClear, Releases
  <2>2. QED BY <2>1 DEF Effect
<1>7. QED
  BY <1>1, <1>2, <1>3, <1>4, <1>5, <1>6, SharedEffect DEF StartupStep, ScanStep

LEMMA OtherEffect ==
  ASSUME TypeInv,
         \/ TimerStep
         \/ Stop \/ Cancel \/ \E r \in Recs : EndingStep(r) \/ StuckEnds(r)
         \/ ShutdownIdle \/ ShutdownAttempt \/ ShutdownLate
         \/ Crash \/ Exit \/ ExitAbandon
  PROVE  Effect
<1> Timer \in Procs /\ Worker \in Procs /\ TypeProcs
  BY DEF TypeInv, Procs
<1> USE DEF Busy, Reserving, Holding, AtWork
<1>1. CASE TimerTick \/ TimerDone
  <2>1. \E step : /\ Goto(Timer, step) /\ UNCHANGED job
                  /\ step \in {"idle", "scan"}
    BY <1>1 DEF TimerTick, TimerDone
  <2>2. Others(Timer) /\ Stays(Timer)
    BY <2>1, GotoOthers DEF Stays
  <2>3. QED BY <1>1, <2>2, CalmStep DEF TimerTick, TimerDone, viewVars, Effect
<1>2. CASE ScanStep(Timer)
  BY <1>2, SharedEffect DEF ScanStep
<1>3. CASE \/ Stop \/ Cancel
           \/ \E r \in Recs : StopFinish(r) \/ StopStuck(r) \/ CancelFinish(r) \/ StuckEnds(r)
  BY <1>3, CalmStep DEF Stop, Cancel, TakeSession, StopFinish, StopStuck, CancelFinish,
                        StuckEnds, viewVars, localVars, Effect
<1>4. ASSUME NEW r \in Recs, StopEnqueue(r) PROVE Effect
  <2>1. Job(r, "transcribe") \in Jobs /\ Job(r, "transcribe").rec = r
    BY JobType DEF Kinds
  <2>2. CASE Reservable(r) /\ ~Gone
    <3>1. Lines(Job(r, "transcribe"))
      BY <1>4, <2>1, <2>2
         DEF StopEnqueue, Enqueue, Lines, Reservable, Stays, localVars
    <3>2. QED BY <2>1, <3>1 DEF Effect
  <2>3. CASE ~(Reservable(r) /\ ~Gone)
    BY <1>4, <2>1, <2>3, CalmStep DEF StopEnqueue, Enqueue, localVars, Effect
  <2>4. QED BY <2>2, <2>3
<1>5. CASE ShutdownIdle \/ ShutdownAttempt
  <2>1. Others(Worker) /\ Stays(Worker)
    BY <1>5 DEF ShutdownIdle, ShutdownAttempt, Goto, Others, Stays, TypeProcs
  <2>2. QED BY <1>5, <2>1, CalmStep
            DEF ShutdownIdle, ShutdownAttempt, ShutdownBegin, viewVars, Effect
<1>6. CASE ShutdownLate
  BY <1>6, CalmStep DEF ShutdownLate, ShutdownBegin, viewVars, Effect
<1>7. CASE Crash \/ Exit \/ ExitAbandon
  <2>1. Restart
    BY <1>7 DEF Crash, Exit, ExitAbandon
  <2>2. \A q \in Procs : pc'[q] \in {"list", "idle"}
    BY <2>1 DEF Restart, Start0
  <2>3. Resets
    BY <2>1, <2>2 DEF Restart, Resets
  <2>4. QED BY <2>3 DEF Effect
<1>8. QED
  BY <1>1, <1>2, <1>3, <1>4, <1>5, <1>6, <1>7 DEF TimerStep, EndingStep
----------------------------------------------------------------------------
LEMMA OwnStep == TypeInv /\ OwnInv /\ [Next]_vars => OwnInv'
<1> SUFFICES ASSUME TypeInv, OwnInv, [Next]_vars PROVE OwnInv'
  OBVIOUS
<1>1. CASE UNCHANGED vars
  BY <1>1, CalmStep, CalmOwn DEF vars, viewVars, localVars
<1>2. CASE Next
  <2>1. Effect
    BY <1>2, TaskEffect, WorkerEffect, StartupEffect, OtherEffect DEF Next
  <2>2. QED BY <2>1, EffectOwn
<1>3. QED BY <1>1, <1>2

\* A transcription or a repair is the worker's, or reserved; everything else
\* that rewrites a recording holds it.
LEMMA OwnersExclude == TypeInv /\ OwnInv => OneOwner
<1> SUFFICES ASSUME TypeInv, OwnInv, NEW r \in Recs, NEW p \in Procs, NEW q \in Procs,
                    Owns(p, r), Owns(q, r)
             PROVE  p = q
  BY DEF OneOwner
<1> DEFINE Repairs(x) == pc[x] \in {"repair", "giveUp"}
           Tries2(x)  == pc[x] \in {"begin", "run"}
<1>1. ASSUME NEW x \in Procs, Owns(x, r)
      PROVE  /\ job[x] \in Jobs /\ job[x].rec = r
             /\ Repairs(x) \/ Tries2(x) \/ pc[x] \in Holding
             /\ Repairs(x) => job[x] \in queued /\ Transcribes(job[x])
             /\ Tries2(x) => x = Worker /\ processing = job[x] /\ Transcribes(job[x])
             /\ pc[x] \in Holding => r \in held
  <2>1. job[x] \in Jobs /\ job[x].rec = r
    BY <1>1 DEF Owns, TypeInv, TypeProcs, Fits, JobSteps
  <2>2. Repairs(x) \/ Tries2(x) \/ pc[x] \in Holding
    BY <1>1 DEF Owns, Holding
  <2>3. Repairs(x) => job[x] \in queued /\ Transcribes(job[x])
    BY DEF Reserving, OwnInv, ReservedOnce, TypeInv, TypeProcs, Fits
  <2>4. Tries2(x) => x = Worker
    <3>1. pc[x] \in StepsOf(x)
      BY DEF TypeInv, TypeProcs
    <3>2. x \in Tasks \/ x = Worker \/ x = Startup \/ x = Timer
      BY DEF Procs
    <3>3. QED BY <3>1, <3>2, ProcSteps DEF TaskSteps, StartupSteps, TimerSteps
  <2>5. Tries2(x) => processing = job[x] /\ Transcribes(job[x])
    BY <2>4 DEF AtWork, OwnInv, WorkedOnce, TypeInv, TypeProcs, Fits
  <2>6. pc[x] \in Holding => r \in held
    BY <2>1 DEF OwnInv, HeldOnce
  <2>7. QED BY <2>1, <2>2, <2>3, <2>4, <2>5, <2>6
<1>2. ASSUME NEW x \in Procs, NEW y \in Procs, Owns(x, r), Owns(y, r), pc[x] \in Holding
      PROVE  pc[y] \in Holding
  BY <1>1, <1>2, JobsAssumption DEF OwnInv, HeldOnce, Working, Some
<1>3. ASSUME NEW x \in Procs, NEW y \in Procs, Owns(x, r), Owns(y, r), Repairs(x)
      PROVE  Repairs(y)
  BY <1>1, <1>2, <1>3, JobsAssumption DEF OwnInv, WorkedOnce, Holding
<1>4. CASE pc[p] \in Holding
  BY <1>1, <1>2, <1>4 DEF OwnInv, HeldOnce
<1>5. CASE Repairs(p)
  BY <1>1, <1>3, <1>5 DEF OwnInv, ReservedOnce, Reserving
<1>6. CASE Tries2(p)
  BY <1>1, <1>2, <1>3, <1>6 DEF Holding
<1>7. QED BY <1>1, <1>4, <1>5, <1>6

\* For any recordings and any number of commands at once, through every crash,
\* failure and shutdown: one process at a time repairs, transcribes, renames,
\* sweeps, summarizes or deletes a recording.
THEOREM OneOwnerAtATime == Spec => []OneOwner
<1>1. Init => OwnInv
  BY DEF Init, Start0, OwnInv, ReservedOnce, WorkedOnce, HeldOnce, Working, Some,
         Reserving, Holding, AtWork, Procs
<1>2. TypeInv /\ TypeInv' /\ OwnInv /\ [Next]_vars => OwnInv'
  BY OwnStep
<1>3. QED BY <1>1, <1>2, Carried, OwnersExclude, PTL DEF Spec
----------------------------------------------------------------------------
(* Who touches which recording.                                             *)


\* p works on r.
On(p, r) == pc[p] \in JobSteps /\ job[p].rec = r

InQueue(j) == \E i \in DOMAIN queue : queue[i] = j

SameDisk(x) ==
  /\ meta'[x] = meta[x] /\ tracks'[x] = tracks[x]
  /\ ending'[x] = ending[x] /\ spent'[x] = spent[x]

SameProcs(x) ==
  \A p \in Procs :
    /\ On(p, x)' <=> On(p, x)
    /\ On(p, x) => pc'[p] = pc[p] /\ job'[p] = job[p] /\ seen'[p] = seen[p]

SameView(x) ==
  /\ session' = x <=> session = x
  /\ x \in waiting' <=> x \in waiting
  /\ x \in held' <=> x \in held
  /\ \A j \in Jobs : j.rec = x =>
       /\ j \in queued' <=> j \in queued
       /\ processing' = j <=> processing = j
       /\ InQueue(j)' <=> InQueue(j)

SameTodo(x) ==
  \A p \in Procs, j \in Jobs : j.rec = x => (j \in todo'[p] <=> j \in todo[p])

Same(x) == SameDisk(x) /\ SameProcs(x) /\ SameView(x) /\ SameTodo(x)

Touches(r) == \A x \in Recs \ {r} : Same(x)
----------------------------------------------------------------------------
(* What a step does to the processes. *)

Still(p) ==
  \A q \in Procs \ {p} : pc'[q] = pc[q] /\ job'[q] = job[q] /\ seen'[q] = seen[q]

\* The process moves, with nobody else.
LEMMA MovesStill ==
  ASSUME TypeProcs, NEW p \in Procs, NEW step, NEW j, NEW m, Moves(p, step, j, m)
  PROVE  pc'[p] = step /\ job'[p] = j /\ seen'[p] = m /\ Still(p)
BY DEF TypeProcs, Moves, Still

\* The process goes to a step with the job it has.
LEMMA GotoStill ==
  ASSUME TypeProcs, NEW p \in Procs, NEW step, Goto(p, step), UNCHANGED <<job, seen>>
  PROVE  pc'[p] = step /\ job'[p] = job[p] /\ seen'[p] = seen[p] /\ Still(p)
BY DEF TypeProcs, Goto, Still

\* It goes to a step with what it has read of the header.
LEMMA SeeStill ==
  ASSUME TypeProcs, NEW p \in Procs, NEW step, NEW m, Goto(p, step), UNCHANGED job,
         seen' = [seen EXCEPT ![p] = m]
  PROVE  pc'[p] = step /\ job'[p] = job[p] /\ seen'[p] = m /\ Still(p)
BY DEF TypeProcs, Goto, Still

\* It goes to a step with a job, or with none.
LEMMA DropStill ==
  ASSUME TypeProcs, NEW p \in Procs, NEW step, NEW j, Goto(p, step), UNCHANGED seen,
         job' = [job EXCEPT ![p] = j]
  PROVE  pc'[p] = step /\ job'[p] = j /\ seen'[p] = seen[p] /\ Still(p)
BY DEF TypeProcs, Goto, Still

\* It goes to a step with a job it has just been given.
LEMMA GoStill ==
  ASSUME TypeProcs, NEW p \in Procs, NEW step, NEW j, Go(p, step, j)
  PROVE  pc'[p] = step /\ job'[p] = j /\ seen'[p] = seen[p] /\ Still(p)
BY DropStill DEF Go

\* It is done with its job.
LEMMA ReturnStill ==
  ASSUME TypeProcs, NEW p \in Procs, Return(p)
  PROVE  /\ pc'[p] = Home(p) /\ pc'[p] \notin JobSteps /\ job'[p] = None
         /\ seen'[p] = None /\ Still(p) /\ UNCHANGED todo
BY ReturnType, MovesStill, HomeFits DEF Return

\* A process that has only r, before and after, leaves who has x alone.
LEMMA StillFrame ==
  ASSUME NEW p \in Procs, NEW r, Still(p),
         pc[p] \notin JobSteps \/ job[p].rec = r,
         pc'[p] \notin JobSteps \/ job'[p].rec = r
  PROVE  \A x \in Recs \ {r} : SameProcs(x)
BY DEF Still, SameProcs, On

\* With no process moving, who has x stays.
LEMMA KeptFrame ==
  ASSUME UNCHANGED <<pc, job, seen>>, NEW x
  PROVE  SameProcs(x)
BY DEF SameProcs, On
----------------------------------------------------------------------------
(* What a step does to the view. *)

SameSets(x) ==
  /\ session' = x <=> session = x
  /\ x \in waiting' <=> x \in waiting
  /\ x \in held' <=> x \in held
  /\ \A j \in Jobs : j.rec = x =>
       /\ j \in queued' <=> j \in queued
       /\ processing' = j <=> processing = j

\* A send adds its job to the queue and nothing else.
LEMMA AppendQueue ==
  ASSUME TypeInv, NEW k \in Jobs, queue' = Append(queue, k), NEW j \in Jobs
  PROVE  InQueue(j)' <=> InQueue(j) \/ j = k
<1>1. queue \in Seq(Jobs)
  BY DEF TypeInv, TypeView
<1>2. /\ Len(Append(queue, k)) = Len(queue) + 1 /\ Len(queue) \in Nat
      /\ DOMAIN Append(queue, k) = 1..(Len(queue) + 1) /\ DOMAIN queue = 1..Len(queue)
      /\ \A i \in 1..Len(queue) : Append(queue, k)[i] = queue[i]
      /\ Append(queue, k)[Len(queue) + 1] = k
  BY <1>1, AppendProperties
<1>3. \A i \in 1..Len(queue) : i \in 1..(Len(queue) + 1)
  BY <1>2
<1>4. Len(queue) + 1 \in 1..(Len(queue) + 1)
  BY <1>2
<1>5. \A i \in 1..(Len(queue) + 1) : i \in 1..Len(queue) \/ i = Len(queue) + 1
  BY <1>2
<1>6. QED BY <1>2, <1>3, <1>4, <1>5 DEF InQueue

\* A receive takes one place out of the queue: another job stays in it.
LEMMA RemoveQueue ==
  ASSUME TypeInv, NEW i \in DOMAIN queue, queue' = RemoveAt(queue, i), NEW j \in Jobs
  PROVE  /\ InQueue(j)' => InQueue(j)
         /\ j # queue[i] => (InQueue(j)' <=> InQueue(j))
<1>1. queue \in Seq(Jobs) /\ i \in 1..Len(queue) /\ Len(queue) \in Nat
  BY DEF TypeInv, TypeView
<1>2. /\ Len(queue') = Len(queue) - 1 /\ queue' \in Seq(Jobs)
      /\ \A k \in 1..(Len(queue) - 1) :
           queue'[k] = IF k < i THEN queue[k] ELSE queue[k + 1]
  BY <1>1, Removed
<1>3. DOMAIN queue' = 1..(Len(queue) - 1) /\ DOMAIN queue = 1..Len(queue)
  BY <1>1, <1>2
<1>4. InQueue(j)' => InQueue(j)
  <2>1. ASSUME NEW k \in DOMAIN queue', queue'[k] = j PROVE InQueue(j)
    <3>1. CASE k < i
      BY <1>1, <1>2, <1>3, <2>1, <3>1 DEF InQueue
    <3>2. CASE ~(k < i)
      <4>1. k + 1 \in DOMAIN queue /\ queue[k + 1] = j
        BY <1>1, <1>2, <1>3, <2>1, <3>2
      <4>2. QED BY <4>1 DEF InQueue
    <3>3. QED BY <3>1, <3>2
  <2>2. QED BY <2>1 DEF InQueue
<1>5. ASSUME NEW k \in DOMAIN queue, queue[k] = j, j # queue[i] PROVE InQueue(j)'
  <2>1. CASE k < i
    <3>1. k \in DOMAIN queue' /\ queue'[k] = j
      BY <1>1, <1>2, <1>3, <1>5, <2>1
    <3>2. QED BY <3>1 DEF InQueue
  <2>2. CASE k > i
    <3>1. k - 1 \in DOMAIN queue' /\ ~(k - 1 < i) /\ (k - 1) + 1 = k
      BY <1>1, <1>3, <2>2
    <3>2. queue'[k - 1] = j
      BY <1>2, <1>3, <1>5, <3>1
    <3>3. QED BY <3>1, <3>2 DEF InQueue
  <2>3. QED BY <1>1, <1>3, <1>5, <2>1, <2>2
<1>6. QED BY <1>4, <1>5 DEF InQueue

\* A step of the queue that is of r leaves x alone.
LEMMA ViewFrame ==
  ASSUME TypeInv, NEW r, NEW x \in Recs, x # r, SameSets(x),
         \/ UNCHANGED queue
         \/ \E j \in Jobs : j.rec = r /\ queue' = Append(queue, j)
         \/ \E i \in DOMAIN queue : queue[i].rec = r /\ queue' = RemoveAt(queue, i)
  PROVE  SameView(x)
<1>1. \A j \in Jobs : j.rec = x => (InQueue(j)' <=> InQueue(j))
  <2>1. CASE UNCHANGED queue
    BY <2>1 DEF InQueue
  <2>2. CASE \E j \in Jobs : j.rec = r /\ queue' = Append(queue, j)
    BY <2>2, AppendQueue
  <2>3. CASE \E i \in DOMAIN queue : queue[i].rec = r /\ queue' = RemoveAt(queue, i)
    BY <2>3, RemoveQueue
  <2>4. QED BY <2>1, <2>2, <2>3
<1>2. QED BY <1>1 DEF SameSets, SameView

\* So does the reservation, and the send, of a job of r.
LEMMA EnqueueFrame ==
  ASSUME TypeInv, NEW r, NEW k \in Jobs, k.rec = r, Enqueue(k) \/ Dispatch(k),
         UNCHANGED <<session, held, processing>>, NEW x \in Recs, x # r
  PROVE  SameView(x)
<1>1. SameSets(x)
  BY DEF Enqueue, Dispatch, Unreserve, SameSets
<1>2. UNCHANGED queue \/ queue' = Append(queue, k)
  BY DEF Enqueue, Dispatch
<1>3. QED BY <1>1, <1>2, ViewFrame
----------------------------------------------------------------------------
(* A step is about one recording. *)

\* So does taking r off a list.
LEMMA TodoFrame ==
  ASSUME TypeTodo, NEW r, NEW x \in Recs, x # r,
         \/ UNCHANGED todo
         \/ \E p \in Procs, j \in Jobs : j.rec = r /\ todo' = [todo EXCEPT ![p] = @ \ {j}]
  PROVE  SameTodo(x)
BY DEF TypeTodo, SameTodo

\* The steps of a process with the recording it has.
Carries(p) ==
  \/ StartFails(p) \/ StartWrite(p) \/ StartOpen(p) \/ StartShow(p)
  \/ RetryClaim(p) \/ RetryRepair(p) \/ RepairFails(p) \/ Send(p)
  \/ MarkRead(p) \/ MarkWrite(p) \/ MarkFails(p) \/ GiveUp(p) \/ SweepWrite(p)
  \/ NameRead(p) \/ NameWrite(p) \/ DeleteHold(p) \/ DeleteRemove(p)
  \/ p = Startup /\ (RecoverRepair \/ ResumeClear)
  \/ /\ p = Worker
     /\ \/ WorkerBegin \/ SummaryHold \/ SummaryWrite \/ SummaryRefused \/ SummaryTimeout
        \/ ShutdownAttempt
        \/ \E r \in Recs : \/ WorkerDone(r) \/ WorkerDoneSummary(r)
                           \/ WorkerFail(r) \/ WorkerNetwork(r)

\* A process takes up a recording.
TakesUp(p, r) ==
  \/ StartCreate(p, r) \/ Retry(p, r) \/ Summarize(p, r) \/ Name(p, r) \/ Delete(p, r)
  \/ SweepHold(p, r)
  \/ ScanGone(p, r) \/ ScanNotYet(p, r) \/ ScanDue(p, r) \/ ScanGiveUp(p, r)
  \/ /\ p = Startup
     /\ \/ RecoverOne(r) \/ ResumeOff(r)
        \/ \E kind \in {"asked", "auto"} : ResumeOne(r, kind)

\* A process that goes on with its recording has one.
LEMMA CarriesOn ==
  ASSUME TypeInv, NEW p \in Procs, Carries(p)
  PROVE  pc[p] \in JobSteps /\ job[p] \in Jobs /\ job[p].rec \in Recs
<1>1. pc[p] \in JobSteps
  BY DEF Carries, JobSteps, StartFails, StartWrite, StartOpen, StartShow, RetryClaim,
         RetryRepair, RepairFails, Send, MarkRead, MarkWrite, MarkFails, GiveUp, SweepWrite,
         NameRead, NameWrite, DeleteHold, DeleteRemove, RecoverRepair, ResumeClear,
         WorkerBegin, SummaryHold, SummaryWrite, SummaryRefused, SummaryTimeout,
         ShutdownAttempt, WorkerDone, WorkerDoneSummary, WorkerFail, WorkerNetwork, Attempt
<1>2. job[p] \in Jobs
  BY <1>1 DEF TypeInv, TypeProcs, Fits
<1>3. QED BY <1>1, <1>2 DEF Jobs

\* It moves alone, and keeps its recording or lets go of it.
LEMMA CarriesProcs ==
  ASSUME TypeInv, NEW p \in Procs, Carries(p)
  PROVE  /\ Still(p)
         /\ pc'[p] \notin JobSteps \/ job'[p].rec = job[p].rec
<1> TypeProcs
  BY DEF TypeInv
<1>1. CASE \/ StartFails(p)
           \/ p = Worker /\ ShutdownAttempt
  BY <1>1, DropStill DEF StartFails, GiveUpStart, ShutdownAttempt, ShutdownBegin, JobSteps
<1>2. CASE \/ StartShow(p) \/ RepairFails(p) \/ Send(p) \/ MarkFails(p) \/ GiveUp(p)
           \/ NameWrite(p) \/ DeleteRemove(p)
           \/ p = Startup /\ ResumeClear
           \/ p = Worker /\ (SummaryWrite \/ SummaryRefused \/ SummaryTimeout)
           \/ p = Worker /\ \E r \in Recs : WorkerDone(r) \/ WorkerFail(r) \/ WorkerNetwork(r)
  BY <1>2, ReturnStill DEF StartShow, RepairFails, Send, MarkFails, GiveUp, NameWrite,
       DeleteRemove, ResumeClear, SummaryWrite, SummaryRefused, SummaryTimeout, WorkerDone,
       WorkerFail, WorkerNetwork
<1>3. CASE \/ StartWrite(p) \/ StartOpen(p) \/ RetryRepair(p) \/ MarkWrite(p)
           \/ p = Worker /\ SummaryHold
  BY <1>3, GotoStill DEF StartWrite, StartOpen, RetryRepair, MarkWrite, SummaryHold
<1>4. CASE RetryClaim(p) \/ DeleteHold(p) \/ (p = Startup /\ RecoverRepair)
  BY <1>4, GotoStill, ReturnStill DEF RetryClaim, DeleteHold, RecoverRepair
<1>5. CASE MarkRead(p) \/ NameRead(p) \/ (p = Worker /\ WorkerBegin)
  BY <1>5, SeeStill DEF MarkRead, NameRead, WorkerBegin
<1>6. CASE SweepWrite(p)
  BY <1>6, DropStill DEF SweepWrite, JobSteps
<1>7. ASSUME NEW r \in Recs, p = Worker, WorkerDoneSummary(r)
      PROVE  Still(p) /\ job'[p].rec = job[p].rec
  <2>1. r = job[p].rec /\ Go(Worker, "markRead", Job(r, "auto"))
    BY <1>7 DEF WorkerDoneSummary, Attempt
  <2>2. QED BY <1>7, <2>1, GoStill, JobType DEF Kinds
<1>8. QED BY <1>1, <1>2, <1>3, <1>4, <1>5, <1>6, <1>7 DEF Carries

\* A process that takes up a recording had none, and moves alone.
LEMMA TakesUpProcs ==
  ASSUME TypeInv, NEW p \in Procs, NEW r \in Recs, TakesUp(p, r)
  PROVE  /\ pc[p] \notin JobSteps /\ Still(p)
         /\ \/ UNCHANGED <<pc, job, seen>>
            \/ pc'[p] \in JobSteps /\ job'[p].rec = r /\ job'[p] \in Jobs
<1> TypeProcs
  BY DEF TypeInv
<1>0. \A kind \in Kinds : Job(r, kind) \in Jobs /\ Job(r, kind).rec = r
  BY JobType
<1> USE DEF JobSteps, Kinds
<1>1. CASE StartCreate(p, r) \/ Retry(p, r) \/ Summarize(p, r) \/ Name(p, r) \/ Delete(p, r)
  BY <1>0, <1>1, GoStill DEF StartCreate, Retry, Summarize, Name, Delete, Given
<1>2. CASE SweepHold(p, r) \/ ScanGiveUp(p, r)
  BY <1>0, <1>2, GoStill DEF SweepHold, ScanGiveUp, Scanning, Still
<1>3. CASE ScanGone(p, r) \/ ScanNotYet(p, r) \/ ScanDue(p, r)
  BY <1>3 DEF ScanGone, ScanNotYet, ScanDue, Scanning, Still
<1>4. CASE p = Startup /\ (RecoverOne(r) \/ ResumeOff(r))
  BY <1>0, <1>4, GoStill DEF RecoverOne, ResumeOff, Still
<1>5. ASSUME NEW kind \in {"asked", "auto"}, p = Startup, ResumeOne(r, kind)
      PROVE  /\ pc[p] \notin JobSteps /\ Still(p)
             /\ \/ UNCHANGED <<pc, job, seen>>
                \/ pc'[p] \in JobSteps /\ job'[p].rec = r /\ job'[p] \in Jobs
  BY <1>0, <1>5, GoStill DEF ResumeOne, Still
<1>6. QED BY <1>1, <1>2, <1>3, <1>4, <1>5 DEF TakesUp

----------------------------------------------------------------------------
(* The start that holds the session mutex.                                  *)

Opening  == {"write", "open", "show"}
Starting == {"create"} \cup Opening

LockInv ==
  /\ \A t \in Tasks : pc[t] \in Starting <=> lock = t
  /\ lock # None => session = None
  /\ \A p \in Procs : pc[p] \notin JobSteps => job[p] = None

\* A process that does not start a recording moves, and the mutex is left alone.
LEMMA LockKept ==
  ASSUME LockInv, NEW p \in Procs, Still(p), UNCHANGED lock,
         session' = session \/ lock = None,
         p \in Tasks => (pc[p] \in Starting <=> pc'[p] \in Starting),
         pc'[p] \notin JobSteps => job'[p] = None
  PROVE  LockInv'
BY DEF LockInv, Still, Procs

\* No process moves, and the mutex is left alone.
LEMMA LockFrame ==
  ASSUME LockInv, UNCHANGED <<lock, pc, job>>, session' = session \/ lock = None
  PROVE  LockInv'
BY DEF LockInv

\* The start keeps the mutex from its name to its session, and lets go at once when it fails.
LEMMA LockCarries ==
  ASSUME TypeInv, LockInv, NEW p \in Procs, Carries(p)
  PROVE  LockInv'
<1> TypeProcs
  BY DEF TypeInv
<1> USE DEF Starting, Opening, JobSteps
<1>1. CASE StartFails(p) \/ StartShow(p) \/ StartWrite(p) \/ StartOpen(p)
  <2>1. p \in Tasks /\ lock = p
    <3>1. pc[p] \in Opening /\ pc[p] \in StepsOf(p)
      BY <1>1 DEF StartFails, StartShow, StartWrite, StartOpen, TypeProcs
    <3>2. p \in Tasks
      BY <3>1, ProcSteps DEF Procs, WorkerSteps, StartupSteps, TimerSteps
    <3>3. QED BY <3>1, <3>2 DEF LockInv
  <2>0. Still(p)
    BY CarriesProcs
  <2>2. CASE StartFails(p)
    <3>1. pc'[p] = "idle" /\ job'[p] = None
      BY <2>2, DropStill DEF StartFails, GiveUpStart
    <3>2. lock' = None /\ session' = session
      BY <2>2 DEF StartFails, GiveUpStart
    <3>3. QED BY <2>0, <2>1, <3>1, <3>2, NoneAssumption DEF LockInv, Still, Procs
  <2>3. CASE StartShow(p)
    <3>1. pc'[p] = "idle" /\ job'[p] = None
      BY <2>1, <2>3, ReturnStill, ProcsAssumption DEF StartShow, Home
    <3>2. lock' = None
      BY <2>3 DEF StartShow
    <3>3. QED BY <2>0, <2>1, <3>1, <3>2, NoneAssumption DEF LockInv, Still, Procs
  <2>4. CASE StartWrite(p) \/ StartOpen(p)
    <3>1. pc[p] \in Opening /\ pc'[p] \in Opening
      BY <2>4, GotoStill DEF StartWrite, StartOpen
    <3>2. UNCHANGED <<lock, session>>
      BY <2>4 DEF StartWrite, StartOpen, Quiet
    <3>3. QED BY <2>0, <3>1, <3>2, LockKept
  <2>5. QED BY <1>1, <2>2, <2>3, <2>4
<1>2. ASSUME ~(StartFails(p) \/ StartShow(p) \/ StartWrite(p) \/ StartOpen(p))
      PROVE  /\ UNCHANGED <<lock, session>> /\ pc[p] \notin Starting /\ pc'[p] \notin Starting
             /\ pc'[p] \notin JobSteps => job'[p] = None
  <2>1. CASE RepairFails(p) \/ Send(p) \/ MarkFails(p) \/ GiveUp(p)
             \/ NameWrite(p) \/ DeleteRemove(p)
             \/ (p = Startup /\ ResumeClear)
             \/ (p = Worker /\ (SummaryWrite \/ SummaryRefused \/ SummaryTimeout))
             \/ (p = Worker /\ \E r \in Recs : WorkerDone(r) \/ WorkerFail(r) \/ WorkerNetwork(r))
    <3>1. Return(p) /\ UNCHANGED <<lock, session>> /\ pc[p] \notin Starting
      BY <2>1 DEF RepairFails, Send, MarkFails, GiveUp, NameWrite,
       DeleteRemove, ResumeClear, SummaryWrite, SummaryRefused, SummaryTimeout, WorkerDone,
       WorkerFail, WorkerNetwork, Attempt, Quiet
    <3>2. Home(p) \notin Starting
      BY ProcsAssumption DEF Home, Procs
    <3>3. QED BY <3>1, <3>2, ReturnStill
  <2>2. CASE RetryRepair(p) \/ MarkWrite(p) \/ (p = Worker /\ SummaryHold)
    BY <2>2, GotoStill DEF RetryRepair, MarkWrite, SummaryHold, Quiet
  <2>3. CASE RetryClaim(p) \/ DeleteHold(p) \/ (p = Startup /\ RecoverRepair)
    <3>1. Home(p) \notin Starting
      BY ProcsAssumption DEF Home, Procs
    <3>2. QED BY <2>3, <3>1, GotoStill, ReturnStill
              DEF RetryClaim, DeleteHold, RecoverRepair, Quiet
  <2>4. CASE MarkRead(p) \/ NameRead(p) \/ (p = Worker /\ WorkerBegin)
    <3>1. pc[p] \in {"markRead", "nameRead", "begin"} /\ UNCHANGED <<lock, session>>
      BY <2>4 DEF MarkRead, NameRead, WorkerBegin, Quiet
    <3>2. pc'[p] \in {"markWrite", "nameWrite", "run"}
      BY <2>4, SeeStill DEF MarkRead, NameRead, WorkerBegin
    <3>3. QED BY <3>1, <3>2
  <2>5. CASE SweepWrite(p) \/ (p = Worker /\ ShutdownAttempt)
    <3>1. pc[p] \in {"swept", "run"} /\ UNCHANGED <<lock, session>>
      BY <2>5 DEF SweepWrite, ShutdownAttempt, ShutdownBegin, Quiet
    <3>2. pc'[p] \in {"sweeping", "dead"} /\ job'[p] = None
      BY <2>5, DropStill DEF SweepWrite, ShutdownAttempt, ShutdownBegin
    <3>3. QED BY <3>1, <3>2
  <2>6. CASE p = Worker /\ \E r \in Recs : WorkerDoneSummary(r)
    BY <2>6, GoStill DEF WorkerDoneSummary, Attempt, Quiet
  <2>7. QED BY <1>2, <2>1, <2>2, <2>3, <2>4, <2>5, <2>6 DEF Carries
<1>3. QED BY <1>1, <1>2, CarriesProcs, LockKept

\* Going on with a recording writes no other's header or tracks.
LEMMA CarriesDisk ==
  ASSUME TypeInv, NEW p \in Procs, Carries(p), NEW x \in Recs, x # job[p].rec
  PROVE  SameDisk(x)
<1> TypeDisk /\ TypeView
  BY DEF TypeInv
<1> USE DEF SameDisk, Keep, pastVars, Quiet, diskVars, TypeDisk
<1>1. CASE StartFails(p) \/ StartWrite(p) \/ StartOpen(p) \/ StartShow(p)
  BY <1>1 DEF StartFails, StartWrite, StartOpen, StartShow, GiveUpStart
<1>2. CASE \/ RetryClaim(p) \/ RetryRepair(p) \/ RepairFails(p) \/ Send(p)
           \/ p = Startup /\ (RecoverRepair \/ ResumeClear)
  BY <1>2 DEF RetryClaim, RetryRepair, RepairFails, Send, RecoverRepair, ResumeClear
<1>3. CASE MarkRead(p) \/ MarkWrite(p) \/ MarkFails(p) \/ GiveUp(p) \/ SweepWrite(p)
  BY <1>3 DEF MarkRead, MarkWrite, MarkFails, GiveUp, SweepWrite
<1>4. CASE NameRead(p) \/ NameWrite(p) \/ DeleteHold(p) \/ DeleteRemove(p)
  BY <1>4 DEF NameRead, NameWrite, DeleteHold, DeleteRemove
<1>5. CASE /\ p = Worker
           /\ \/ WorkerBegin \/ SummaryHold \/ SummaryWrite \/ SummaryRefused \/ SummaryTimeout
              \/ ShutdownAttempt
  BY <1>5 DEF WorkerBegin, SummaryHold, SummaryWrite, SummaryRefused, SummaryTimeout,
              ShutdownAttempt, ShutdownBegin
<1>6. CASE /\ p = Worker
           /\ \E r \in Recs : \/ WorkerDone(r) \/ WorkerDoneSummary(r)
                              \/ WorkerFail(r) \/ WorkerNetwork(r)
  BY <1>6 DEF WorkerDone, WorkerDoneSummary, WorkerFail, WorkerNetwork, Attempt
<1>7. QED BY <1>1, <1>2, <1>3, <1>4, <1>5, <1>6 DEF Carries

\* It shows nothing else of any other recording in the view.
LEMMA CarriesView ==
  ASSUME TypeInv, OwnInv, LockInv, NEW p \in Procs, Carries(p), NEW x \in Recs,
         x # job[p].rec
  PROVE  SameView(x)
<1> TypeView
  BY DEF TypeInv
<1>0. pc[p] \in JobSteps /\ job[p] \in Jobs /\ job[p].rec \in Recs
  BY CarriesOn
<1>a. None # x /\ None \notin Jobs
  BY NoneAssumption, JobsAssumption
<1>1. CASE StartFails(p) \/ StartWrite(p) \/ StartOpen(p) \/ MarkRead(p) \/ MarkWrite(p)
           \/ NameRead(p) \/ (p = Worker /\ (WorkerBegin \/ ShutdownAttempt))
  <2>1. SameSets(x) /\ UNCHANGED queue
    BY <1>1 DEF SameSets, StartFails, GiveUpStart, StartWrite, StartOpen, MarkRead, MarkWrite,
         NameRead, WorkerBegin, ShutdownAttempt, ShutdownBegin, Quiet, viewVars
  <2>2. QED BY <2>1, ViewFrame
<1>2. CASE StartShow(p)
  <2>1. pc[p] \in Starting /\ pc[p] \in StepsOf(p)
    BY <1>2 DEF StartShow, Starting, Opening, TypeInv, TypeProcs
  <2>2. session # x
    <3>1. p \in Tasks
      BY <2>1, ProcSteps DEF Procs, WorkerSteps, StartupSteps, TimerSteps, Starting, Opening
    <3>2. QED BY <1>a, <2>1, <3>1, NoneAssumption DEF LockInv
  <2>3. SameSets(x) /\ UNCHANGED queue
    BY <1>2, <2>2 DEF StartShow, SameSets
  <2>4. QED BY <2>3, ViewFrame
<1>3. CASE RetryClaim(p) \/ RetryRepair(p) \/ RepairFails(p) \/ GiveUp(p) \/ MarkFails(p)
           \/ (p = Startup /\ (RecoverRepair \/ ResumeClear))
  <2>1. SameSets(x) /\ UNCHANGED queue
    BY <1>3 DEF SameSets, RetryClaim, RetryRepair, RepairFails, GiveUp, MarkFails,
         RecoverRepair, ResumeClear, Unreserve, Quiet, viewVars
  <2>2. QED BY <2>1, ViewFrame
<1>4. CASE Send(p)
  BY <1>0, <1>4, EnqueueFrame DEF Send, Quiet
<1>5. CASE SweepWrite(p) \/ NameWrite(p) \/ DeleteHold(p) \/ DeleteRemove(p)
  <2>1. SameSets(x) /\ UNCHANGED queue
    BY <1>5 DEF SameSets, SweepWrite, NameWrite, DeleteHold, DeleteRemove, Quiet
  <2>2. QED BY <2>1, ViewFrame
<1>6. CASE p = Worker /\ SummaryHold
  <2>1. SameSets(x) /\ UNCHANGED queue
    BY <1>6 DEF SameSets, SummaryHold, Quiet
  <2>2. QED BY <2>1, ViewFrame
<1>7. CASE /\ p = Worker
           /\ \/ SummaryWrite \/ SummaryRefused \/ SummaryTimeout
              \/ \E r \in Recs : \/ WorkerDone(r) \/ WorkerDoneSummary(r)
                                 \/ WorkerFail(r) \/ WorkerNetwork(r)
  <2>1. pc[Worker] \in AtWork
    BY <1>7 DEF AtWork, SummaryWrite, SummaryRefused, SummaryTimeout, WorkerDone,
         WorkerDoneSummary, WorkerFail, WorkerNetwork, Attempt
  <2>2. processing = job[p]
    BY <1>7, <2>1 DEF OwnInv, WorkedOnce
  <2>3. \A r \in Recs : Job(r, "auto").rec = r
    BY JobType DEF Kinds
  <2>4. SameSets(x) /\ UNCHANGED queue
    BY <1>7, <1>0, <1>a, <2>2, <2>3 DEF SameSets, SummaryWrite, SummaryRefused, SummaryTimeout, WorkerDone,
         WorkerDoneSummary, WorkerFail, WorkerNetwork, Attempt, Quiet
  <2>5. QED BY <2>4, ViewFrame
<1>8. QED BY <1>1, <1>2, <1>3, <1>4, <1>5, <1>6, <1>7 DEF Carries

\* It leaves the lists alone.
LEMMA CarriesTodo ==
  ASSUME TypeInv, NEW p \in Procs, Carries(p)
  PROVE  UNCHANGED todo
BY DEF Carries, StartFails, GiveUpStart, StartWrite, StartOpen, StartShow, RetryClaim,
       RetryRepair, RepairFails, Send, MarkRead, MarkWrite, MarkFails, GiveUp, SweepWrite,
       NameRead, NameWrite, DeleteHold, DeleteRemove, RecoverRepair, ResumeClear, Return,
       WorkerBegin, SummaryHold, SummaryWrite, SummaryRefused, SummaryTimeout,
       ShutdownAttempt, ShutdownBegin, WorkerDone, WorkerDoneSummary, WorkerFail,
       WorkerNetwork

\* Taking up a recording writes no other's header or tracks.
LEMMA TakesUpDisk ==
  ASSUME TypeInv, NEW p \in Procs, NEW r \in Recs, TakesUp(p, r), NEW x \in Recs, x # r
  PROVE  SameDisk(x)
<1> TypeDisk /\ TypeView
  BY DEF TypeInv
<1> USE DEF SameDisk, Keep, pastVars, Quiet, diskVars, TypeDisk
<1>1. CASE StartCreate(p, r) \/ Retry(p, r) \/ Summarize(p, r) \/ Name(p, r) \/ Delete(p, r)
  BY <1>1 DEF StartCreate, Retry, Summarize, Name, Delete
<1>2. CASE \/ SweepHold(p, r) \/ ScanGiveUp(p, r)
           \/ ScanGone(p, r) \/ ScanNotYet(p, r) \/ ScanDue(p, r)
  BY <1>2 DEF SweepHold, ScanGiveUp, ScanGone, ScanNotYet, ScanDue, Scanning
<1>3. CASE RecoverOne(r) \/ ResumeOff(r) \/ \E kind \in {"asked", "auto"} : ResumeOne(r, kind)
  BY <1>3 DEF RecoverOne, ResumeOff, ResumeOne
<1>4. QED BY <1>1, <1>2, <1>3 DEF TakesUp

\* It shows nothing else of any other recording in the view.
LEMMA TakesUpView ==
  ASSUME TypeInv, NEW p \in Procs, NEW r \in Recs, TakesUp(p, r), NEW x \in Recs, x # r
  PROVE  SameView(x)
<1>0. \A kind \in Kinds : Job(r, kind) \in Jobs /\ Job(r, kind).rec = r
  BY JobType
<1>1. CASE StartCreate(p, r) \/ Retry(p, r) \/ Summarize(p, r) \/ Name(p, r) \/ Delete(p, r)
  <2>1. SameSets(x) /\ UNCHANGED queue
    BY <1>0, <1>1 DEF StartCreate, Retry, Summarize, Name, Delete, SameSets, Quiet, viewVars, Kinds
  <2>2. QED BY <2>1, ViewFrame
<1>2. CASE SweepHold(p, r) \/ ScanGiveUp(p, r) \/ ScanGone(p, r) \/ ScanNotYet(p, r)
  <2>1. SameSets(x) /\ UNCHANGED queue
    BY <1>0, <1>2 DEF SweepHold, ScanGiveUp, ScanGone, ScanNotYet, Scanning, SameSets, Quiet, Kinds
  <2>2. QED BY <2>1, ViewFrame
<1>3. CASE ScanDue(p, r)
  BY <1>0, <1>3, EnqueueFrame DEF ScanDue, Scanning, Quiet, Kinds
<1>4. CASE RecoverOne(r) \/ ResumeOff(r)
  <2>1. SameSets(x) /\ UNCHANGED queue
    BY <1>0, <1>4 DEF RecoverOne, ResumeOff, SameSets, Quiet, Kinds
  <2>2. QED BY <2>1, ViewFrame
<1>5. ASSUME NEW kind \in {"asked", "auto"}, ResumeOne(r, kind) PROVE SameView(x)
  <2>1. SameSets(x) /\ UNCHANGED queue
    BY <1>0, <1>5 DEF ResumeOne, SameSets, Quiet, Kinds
  <2>2. QED BY <2>1, ViewFrame
<1>6. QED BY <1>1, <1>2, <1>3, <1>4, <1>5 DEF TakesUp

\* It takes at most that recording off its list.
LEMMA TakesUpTodo ==
  ASSUME TypeInv, NEW p \in Procs, NEW r \in Recs, TakesUp(p, r)
  PROVE  \/ UNCHANGED todo
         \/ \E j \in Jobs : j.rec = r /\ j \in todo[p] /\ todo' = [todo EXCEPT ![p] = @ \ {j}]
<1>0. \A kind \in Kinds : Job(r, kind) \in Jobs /\ Job(r, kind).rec = r
  BY JobType
<1>1. CASE StartCreate(p, r) \/ Retry(p, r) \/ Summarize(p, r) \/ Name(p, r) \/ Delete(p, r)
  BY <1>1 DEF StartCreate, Retry, Summarize, Name, Delete
<1>2. CASE \/ SweepHold(p, r) \/ ScanGiveUp(p, r)
           \/ ScanGone(p, r) \/ ScanNotYet(p, r) \/ ScanDue(p, r)
  BY <1>0, <1>2 DEF SweepHold, ScanGiveUp, ScanGone, ScanNotYet, ScanDue, Scanning, Kinds
<1>3. CASE p = Startup /\ (RecoverOne(r) \/ ResumeOff(r))
  BY <1>0, <1>3 DEF RecoverOne, ResumeOff, Kinds
<1>4. ASSUME NEW kind \in {"asked", "auto"}, p = Startup, ResumeOne(r, kind)
      PROVE  \E j \in Jobs : j.rec = r /\ j \in todo[p] /\ todo' = [todo EXCEPT ![p] = @ \ {j}]
  BY <1>0, <1>4 DEF ResumeOne, Kinds
<1>5. QED BY <1>1, <1>2, <1>3, <1>4 DEF TakesUp

\* The session is taken, or the stop of a recording goes on.
Closes(r) == (session = r /\ (Stop \/ Cancel)) \/ EndingStep(r) \/ StuckEnds(r)

\* The stop and cancel of a recording move no process and touch no other recording.
LEMMA ClosesFrame ==
  ASSUME TypeInv, NEW r \in Recs, Closes(r)
  PROVE  UNCHANGED <<pc, job, seen, todo>> /\ Touches(r)
<1> SUFFICES ASSUME NEW x \in Recs
             PROVE  UNCHANGED <<pc, job, seen, todo>> /\ (x # r => SameDisk(x) /\ SameView(x))
  BY KeptFrame DEF Touches, Same, SameTodo
<1>0. Job(r, "transcribe") \in Jobs /\ Job(r, "transcribe").rec = r /\ None # x
  BY JobType, NoneAssumption DEF Kinds
<1>1. CASE session = r /\ (Stop \/ Cancel)
  <2>1. UNCHANGED <<pc, job, seen, todo>> /\ (x # r => SameDisk(x))
    BY <1>1 DEF Stop, Cancel, TakeSession, localVars, diskVars, Keep, pastVars, SameDisk, TypeInv, TypeView
  <2>2. (x # r => SameSets(x)) /\ UNCHANGED queue
    BY <1>0, <1>1 DEF Stop, Cancel, TakeSession, SameSets, viewVars
  <2>3. QED BY <2>1, <2>2, ViewFrame
<1>2. CASE StopFinish(r) \/ StopStuck(r) \/ CancelFinish(r) \/ StuckEnds(r)
  <2>1. UNCHANGED <<pc, job, seen, todo>> /\ (x # r => SameDisk(x))
    BY <1>2 DEF StopFinish, StopStuck, StopWrites, CancelFinish, StuckEnds, Quiet, localVars, diskVars, Keep,
                pastVars, SameDisk, TypeInv, TypeView, TypeDisk
  <2>2. (x # r => SameSets(x)) /\ UNCHANGED queue
    BY <1>2 DEF StopFinish, StopStuck, CancelFinish, StuckEnds, Quiet, SameSets, viewVars
  <2>3. QED BY <2>1, <2>2, ViewFrame
<1>3. CASE StopEnqueue(r)
  <2>1. UNCHANGED <<pc, job, seen, todo>> /\ (x # r => SameDisk(x))
    BY <1>3 DEF StopEnqueue, localVars, diskVars, Keep, pastVars, SameDisk, TypeInv, TypeView
  <2>2. x # r => SameView(x)
    BY <1>0, <1>3, EnqueueFrame DEF StopEnqueue
  <2>3. QED BY <2>1, <2>2
<1>4. QED BY <1>1, <1>2, <1>3 DEF Closes, EndingStep

\* The worker takes the i-th job of its queue.
TakesJob(i) ==
  LET j == queue[i] IN
  /\ pc[Worker] = "idle" /\ i \in DOMAIN queue
  /\ queue' = RemoveAt(queue, i)
  /\ Unreserve(j.rec)
  /\ processing' = j
  /\ IF Transcribes(j)
       THEN /\ meta' = [meta EXCEPT ![j.rec] = Counted(@, j.kind)]
            /\ Go(Worker, "begin", j)
       ELSE Go(Worker, "make", j) /\ UNCHANGED meta
  /\ UNCHANGED <<tracks, capturing, waiting, held, todo, lock, session, ending, shutting,
                 spent, told, crashes>>

\* What the worker takes is one job of its queue.
LEMMA WorkerTakes ==
  ASSUME WorkerTake
  PROVE  \E i \in DOMAIN queue : TakesJob(i)
BY DEF WorkerTake, TakesJob, Quiet, Keep, pastVars

\* It is a job, of a recording.
LEMMA TakenJob ==
  ASSUME TypeInv, NEW i \in DOMAIN queue
  PROVE  queue[i] \in Jobs /\ queue[i].rec \in Recs
<1>1. queue[i] \in Jobs
  BY DEF TypeInv, TypeView
<1>2. QED BY <1>1 DEF Jobs

\* A process sees to a list of recordings.
Lists(p) ==
  \/ SweepList(p)
  \/ p = Startup /\ (RecoverList \/ ResumeList \/ StartupScan)
  \/ p = Timer /\ TimerTick

\* A process moves, and carries no recording before or after.
Rests(p) ==
  \/ StartLock(p) \/ StartRefused(p) \/ SweepDone(p)
  \/ p = Startup /\ StartupScanned
  \/ p = Timer /\ TimerDone

Ended == Crash \/ Exit \/ ExitAbandon

\* Every step of the daemon is of one of these kinds.
LEMMA StepKinds ==
  ASSUME TypeInv, Next
  PROVE  \/ \E p \in Procs : Carries(p) \/ Lists(p) \/ Rests(p)
         \/ \E p \in Procs, r \in Recs : TakesUp(p, r)
         \/ \E r \in Recs : Closes(r)
         \/ \E i \in DOMAIN queue : TakesJob(i)
         \/ ShutdownIdle \/ ShutdownLate \/ Ended
<1> /\ Worker \in Procs /\ Startup \in Procs /\ Timer \in Procs
    /\ \A t \in Tasks : t \in Procs
  BY DEF Procs
<1>1. ASSUME NEW t \in Tasks, Command(t) \/ TaskStep(t)
      PROVE  \/ Carries(t) \/ Rests(t)
             \/ \E r \in Recs : TakesUp(t, r)
  BY <1>1 DEF Command, TaskStep, Carries, Rests, TakesUp
<1>2. CASE Stop \/ Cancel
  <2>1. session \in Recs
    BY <1>2 DEF Stop, Cancel, TakeSession, TypeInv, TypeView, Opt
  <2>2. QED BY <1>2, <2>1 DEF Closes
<1>3. CASE \E r \in Recs : EndingStep(r) \/ StuckEnds(r)
  BY <1>3 DEF Closes
<1>4. CASE WorkerStep
  BY <1>4, WorkerTakes DEF WorkerStep, Carries, TakesUp, Lists, Rests
<1>5. CASE RecoverList \/ StartupStep
  BY <1>5 DEF StartupStep, ScanStep, Carries, TakesUp, Lists, Rests
<1>6. CASE TimerStep
  BY <1>6 DEF TimerStep, ScanStep, Carries, TakesUp, Lists, Rests
<1>7. CASE ShutdownAttempt
  BY <1>7 DEF Carries
<1>8. QED BY <1>1, <1>2, <1>3, <1>4, <1>5, <1>6, <1>7 DEF Next, Ended
----------------------------------------------------------------------------
(* Lists and rests leave the recordings alone.                             *)

SameAll == \A x \in Recs : SameDisk(x) /\ SameProcs(x) /\ SameView(x)

\* Making a list changes the list and the step of its process, and nothing else.
LEMMA ListsFrame ==
  ASSUME TypeInv, NEW p \in Procs, Lists(p)
  PROVE  /\ UNCHANGED <<meta, tracks, session, capturing, processing, queued, waiting, held, queue,
                        lock, ending, shutting, spent, told, crashes, job, seen>>
         /\ \E S : todo' = [todo EXCEPT ![p] = S]
         /\ \E step : pc' = [pc EXCEPT ![p] = step] /\ step \in {"sweeping", "recover", "resume", "scan"}
         /\ pc[p] \in {"sweep", "list", "recover", "resume", "idle"}
BY DEF Lists, SweepList, RecoverList, ResumeList, StartupScan, TimerTick, Goto,
       Quiet, Keep, pastVars, viewVars, diskVars

\* A process without a recording changes its step and the session mutex, and nothing else.
LEMMA RestsFrame ==
  ASSUME TypeInv, NEW p \in Procs, Rests(p)
  PROVE  /\ UNCHANGED <<meta, tracks, session, capturing, processing, queued, waiting, held, queue,
                        ending, shutting, spent, told, crashes, seen, todo>>
         /\ \E step : pc' = [pc EXCEPT ![p] = step]
                      /\ step \in {"create", "idle", "over", "sweep"}
         /\ pc[p] \in {"idle", "create", "sweeping", "scan"}
         /\ job' = job \/ job' = [job EXCEPT ![p] = None]
BY DEF Rests, StartLock, StartRefused, GiveUpStart, SweepDone, StartupScanned, TimerDone, Goto,
       Given, Quiet, Keep, pastVars, viewVars, diskVars

\* A move between steps that carry no recording leaves who has each of them.
LEMMA MovedFrame ==
  ASSUME TypeProcs, NEW p \in Procs, NEW step, pc' = [pc EXCEPT ![p] = step], UNCHANGED seen,
         step \notin JobSteps, pc[p] \notin JobSteps, 
         job' = job \/ job' = [job EXCEPT ![p] = None]
  PROVE  Still(p) /\ pc'[p] = step /\ \A x \in Recs : SameProcs(x)
BY DEF TypeProcs, Still, SameProcs, On

\* Neither touches a recording.
LEMMA IdleSame ==
  ASSUME TypeInv, NEW p \in Procs, Lists(p) \/ Rests(p)
  PROVE  Still(p) /\ SameAll
<1> TypeProcs
  BY DEF TypeInv
<1>1. Still(p) /\ \A x \in Recs : SameProcs(x)
  <2>1. CASE Lists(p)
    <3>1. PICK step : pc' = [pc EXCEPT ![p] = step] /\ step \in {"sweeping", "recover", "resume", "scan"}
      BY <2>1, ListsFrame
    <3>2. pc[p] \notin JobSteps /\ step \notin JobSteps /\ UNCHANGED <<job, seen>>
      BY <2>1, <3>1, ListsFrame DEF JobSteps
    <3>3. QED BY <3>1, <3>2, MovedFrame
  <2>2. CASE Rests(p)
    <3>1. PICK step : pc' = [pc EXCEPT ![p] = step]
                      /\ step \in {"create", "idle", "over", "sweep"}
      BY <2>2, RestsFrame
    <3>2. pc[p] \notin JobSteps /\ step \notin JobSteps
      BY <2>2, <3>1, RestsFrame DEF JobSteps
    <3>3. QED BY <2>2, <3>1, <3>2, RestsFrame, MovedFrame
  <2>3. QED BY <2>1, <2>2
<1>2. ASSUME NEW x \in Recs PROVE SameDisk(x) /\ SameView(x)
  <2>1. UNCHANGED <<meta, tracks, ending, spent, session, waiting, held, queued, processing, queue>>
    BY ListsFrame, RestsFrame
  <2>2. QED BY <2>1 DEF SameDisk, SameView, InQueue
<1>3. QED BY <1>1, <1>2 DEF SameAll

\* A shutdown aborts an idle worker, or one that makes a summary.
LEMMA ShutdownSame ==
  ASSUME TypeInv, ShutdownIdle \/ ShutdownLate
  PROVE  /\ Still(Worker)
         /\ UNCHANGED <<meta, tracks, session, capturing, processing, queued, waiting, held, queue,
                        lock, ending, spent, told, crashes, todo, seen>>
         /\ shutting' = TRUE
         /\ \/ UNCHANGED <<pc, job>>
            \/ /\ pc[Worker] \in {"idle", "make"} /\ pc'[Worker] = "dead"
               /\ job'[Worker] = None
BY DropStill DEF ShutdownIdle, ShutdownLate, ShutdownBegin, viewVars, TypeInv, Procs, Still
----------------------------------------------------------------------------
(* A worker that is between two jobs has none.                             *)

FreeInv == pc[Worker] \notin AtWork \cup {"dead"} => processing = None

\* What the worker shows as being processed it clears before it looks at its queue again.
LEMMA FreeCarries ==
  ASSUME TypeInv, FreeInv, NEW p \in Procs, Carries(p)
  PROVE  FreeInv'
<1> Still(p) /\ Worker \in Procs
  BY CarriesProcs DEF Procs
<1> USE DEF AtWork
<1>1. CASE UNCHANGED processing /\ (p # Worker \/ pc[Worker] \notin AtWork)
  BY <1>1, CarriesOn DEF FreeInv, Still, JobSteps
<1>2. CASE processing' = None
  BY <1>2 DEF FreeInv
<1>3. CASE pc'[Worker] \in AtWork \cup {"dead"}
  BY <1>3 DEF FreeInv
<1>4. CASE \/ StartFails(p) \/ StartWrite(p) \/ StartOpen(p) \/ StartShow(p)
           \/ RetryClaim(p) \/ RetryRepair(p) \/ RepairFails(p) \/ Send(p)
           \/ MarkRead(p) \/ MarkWrite(p) \/ MarkFails(p) \/ GiveUp(p) \/ SweepWrite(p)
           \/ NameRead(p) \/ NameWrite(p) \/ DeleteHold(p) \/ DeleteRemove(p)
           \/ p = Startup /\ (RecoverRepair \/ ResumeClear)
  <2>1. UNCHANGED processing
    BY <1>4 DEF StartFails, GiveUpStart, StartWrite, StartOpen, StartShow, RetryClaim,
         RetryRepair, RepairFails, Send, MarkRead, MarkWrite, MarkFails, GiveUp, SweepWrite,
         NameRead, NameWrite, DeleteHold, DeleteRemove, RecoverRepair, ResumeClear, viewVars
  <2>2. p # Worker \/ pc[p] \notin AtWork
    BY <1>4, ProcsAssumption DEF StartFails, StartWrite, StartOpen, StartShow, RetryClaim,
         RetryRepair, RepairFails, Send, MarkRead, MarkWrite, MarkFails, GiveUp, SweepWrite,
         NameRead, NameWrite, DeleteHold, DeleteRemove
  <2>3. QED BY <1>1, <2>1, <2>2
<1>5. CASE p = Worker /\ (WorkerBegin \/ SummaryHold \/ ShutdownAttempt)
  <2>1. pc'[Worker] \in {"run", "summary", "dead"}
    BY <1>5, GotoStill, SeeStill, DropStill
       DEF WorkerBegin, SummaryHold, ShutdownAttempt, ShutdownBegin, TypeInv
  <2>2. QED BY <1>3, <2>1
<1>6. CASE /\ p = Worker
           /\ \/ SummaryWrite \/ SummaryRefused \/ SummaryTimeout
              \/ \E r \in Recs : \/ WorkerDone(r) \/ WorkerDoneSummary(r)
                                 \/ WorkerFail(r) \/ WorkerNetwork(r)
  BY <1>2, <1>6 DEF SummaryWrite, SummaryRefused, SummaryTimeout, WorkerDone,
       WorkerDoneSummary, WorkerFail, WorkerNetwork, Attempt
<1>7. QED BY <1>4, <1>5, <1>6 DEF Carries

\* The daemon keeps it so.
LEMMA FreeStep == TypeInv /\ FreeInv /\ [Next]_vars => FreeInv'
<1> SUFFICES ASSUME TypeInv, FreeInv, [Next]_vars PROVE FreeInv'
  OBVIOUS
<1> Worker \in Procs /\ TypeProcs
  BY DEF Procs, TypeInv
<1>1. CASE UNCHANGED vars
  BY <1>1 DEF vars, viewVars, localVars, FreeInv
<1>2. ASSUME NEW p \in Procs, Lists(p) \/ Rests(p) PROVE FreeInv'
  <2>1. Still(p) /\ UNCHANGED processing
    BY <1>2, IdleSame, ListsFrame, RestsFrame
  <2>2. pc[p] \notin AtWork \cup {"dead"}
    BY <1>2, ListsFrame, RestsFrame DEF AtWork
  <2>3. QED BY <2>1, <2>2 DEF FreeInv, Still
<1>3. ASSUME NEW p \in Procs, NEW r \in Recs, TakesUp(p, r) PROVE FreeInv'
  <2>1. Still(p) /\ pc[p] \notin JobSteps
    BY <1>3, TakesUpProcs
  <2>2. pc[p] # "dead"
    BY <1>3 DEF TakesUp, StartCreate, Retry, Summarize, Name, Delete, Given, SweepHold, ScanGone,
                ScanNotYet, ScanDue, ScanGiveUp, Scanning, RecoverOne, ResumeOff, ResumeOne
  <2>3. UNCHANGED processing
    BY <1>3 DEF TakesUp, StartCreate, Retry, Summarize, Name, Delete, SweepHold, ScanGone, viewVars,
                ScanNotYet, ScanDue, ScanGiveUp, Scanning, RecoverOne, ResumeOff, ResumeOne
  <2>4. QED BY <2>1, <2>2, <2>3 DEF FreeInv, Still, AtWork, JobSteps
<1>4. ASSUME NEW r \in Recs, Closes(r) PROVE FreeInv'
  BY <1>4, ClosesFrame DEF Closes, Stop, Cancel, TakeSession, EndingStep, StopFinish, StopStuck, StopEnqueue,
                CancelFinish, StuckEnds, viewVars, FreeInv
<1>5. ASSUME NEW i \in DOMAIN queue, TakesJob(i) PROVE FreeInv'
  BY <1>5, GoStill DEF TakesJob, FreeInv, AtWork
<1>6. CASE ShutdownIdle \/ ShutdownLate
  BY <1>6, ShutdownSame DEF FreeInv
<1>7. CASE Ended
  BY <1>7 DEF Ended, Crash, Exit, ExitAbandon, Restart, FreeInv
<1>8. QED BY <1>1, <1>2, <1>3, <1>4, <1>5, <1>6, <1>7, FreeCarries, StepKinds

\* A worker that takes a job had none, and touches that job's recording alone.
LEMMA TakesFrame ==
  ASSUME TypeInv, FreeInv, NEW i \in DOMAIN queue, TakesJob(i)
  PROVE  /\ pc[Worker] = "idle" /\ pc'[Worker] \in {"begin", "make"}
         /\ job'[Worker] = queue[i] /\ seen'[Worker] = seen[Worker] /\ Still(Worker)
         /\ Touches(queue[i].rec)
<1> TypeProcs /\ Worker \in Procs /\ TypeDisk
  BY DEF TypeInv, Procs
<1>1. /\ pc[Worker] = "idle" /\ pc'[Worker] \in {"begin", "make"}
      /\ job'[Worker] = queue[i] /\ seen'[Worker] = seen[Worker] /\ Still(Worker)
  BY GoStill DEF TakesJob
<1>2. ASSUME NEW x \in Recs, x # queue[i].rec PROVE Same(x)
  <2>1. SameProcs(x)
    BY <1>1, <1>2, StillFrame DEF JobSteps
  <2>2. SameDisk(x)
    BY <1>2 DEF TakesJob, SameDisk, TypeDisk
  <2>3. SameSets(x)
    <3>1. processing = None
      BY <1>1 DEF FreeInv, AtWork
    <3>2. QED BY <1>2, <3>1, JobsAssumption DEF TakesJob, SameSets, Unreserve
  <2>4. QED BY <1>2, <2>1, <2>2, <2>3, ViewFrame, TakenJob DEF Same, SameTodo, TakesJob
<1>3. QED BY <1>1, <1>2 DEF Touches

\* A process that goes on with its recording touches that one alone.
LEMMA CarriesFrame ==
  ASSUME TypeInv, OwnInv, LockInv, NEW p \in Procs, Carries(p)
  PROVE  Touches(job[p].rec)
<1> SUFFICES ASSUME NEW x \in Recs, x # job[p].rec PROVE Same(x)
  BY DEF Touches
<1>1. SameProcs(x)
  BY CarriesProcs, CarriesOn, StillFrame
<1>2. SameTodo(x)
  BY CarriesTodo DEF SameTodo
<1>3. QED BY <1>1, <1>2, CarriesDisk, CarriesView DEF Same

\* A process that takes up a recording touches that one alone.
LEMMA TakesUpFrame ==
  ASSUME TypeInv, NEW p \in Procs, NEW r \in Recs, TakesUp(p, r)
  PROVE  Touches(r)
<1> SUFFICES ASSUME NEW x \in Recs, x # r PROVE Same(x)
  BY DEF Touches
<1>1. SameProcs(x)
  BY TakesUpProcs, StillFrame, KeptFrame
<1>2. SameTodo(x)
  <2>1. \/ UNCHANGED todo
        \/ \E q \in Procs, j \in Jobs : j.rec = r /\ todo' = [todo EXCEPT ![q] = @ \ {j}]
    BY TakesUpTodo
  <2>2. QED BY <2>1, TodoFrame DEF TypeInv
<1>3. QED BY <1>1, <1>2, TakesUpDisk, TakesUpView DEF Same

\* The session mutex is its holder's, step by step.
LEMMA LockStep == TypeInv /\ LockInv /\ [Next]_vars => LockInv'
<1> SUFFICES ASSUME TypeInv, LockInv, [Next]_vars PROVE LockInv'
  OBVIOUS
<1> TypeProcs /\ Worker \in Procs
  BY DEF TypeInv, Procs
<1> USE DEF Starting, Opening
<1>1. CASE UNCHANGED vars
  BY <1>1, LockFrame DEF vars, localVars
<1>2. ASSUME NEW p \in Procs, Lists(p) PROVE LockInv'
  <2>1. PICK step : pc' = [pc EXCEPT ![p] = step] /\ step \in {"sweeping", "recover", "resume", "scan"}
    BY <1>2, ListsFrame
  <2>2. pc[p] \notin JobSteps \cup Starting /\ pc'[p] = step /\ step \notin Starting
    BY <1>2, <2>1, ListsFrame DEF JobSteps, TypeProcs
  <2>3. job'[p] = None /\ UNCHANGED <<lock, session>>
    BY <1>2, <2>2, ListsFrame DEF LockInv
  <2>4. QED BY <1>2, <2>2, <2>3, IdleSame, LockKept
<1>3. ASSUME NEW p \in Procs, Rests(p) PROVE LockInv'
  <2>1. PICK step : pc' = [pc EXCEPT ![p] = step] /\ step \in {"create", "idle", "over", "sweep"}
    BY <1>3, RestsFrame
  <2>2. pc[p] \notin JobSteps /\ pc'[p] = step
    BY <1>3, <2>1, RestsFrame DEF JobSteps, TypeProcs
  <2>3. job'[p] = None /\ session' = session /\ Still(p)
    BY <1>3, <2>2, RestsFrame, IdleSame DEF LockInv, TypeProcs
  <2>4. CASE StartLock(p)
    <3>1. p \in Tasks /\ lock = None /\ session = None /\ lock' = p /\ pc'[p] = "create"
      BY <2>4, <2>1, <2>2 DEF StartLock, Given, Goto, TypeProcs
    <3>2. \A t \in Tasks : pc[t] \notin Starting
      BY <3>1, NoneAssumption DEF LockInv
    <3>3. QED BY <2>3, <3>1, <3>2 DEF LockInv, Still, Procs
  <2>5. CASE StartRefused(p)
    <3>1. lock' = None /\ pc[p] = "create" /\ pc'[p] = "idle" /\ pc[p] \in StepsOf(p)
      BY <2>5 DEF StartRefused, GiveUpStart, Goto, TypeProcs
    <3>2. p \in Tasks
      BY <3>1, ProcSteps DEF Procs, WorkerSteps, StartupSteps, TimerSteps
    <3>3. lock = p
      BY <3>1, <3>2 DEF LockInv
    <3>4. QED BY <2>3, <3>1, <3>2, <3>3, NoneAssumption DEF LockInv, Still, Procs
  <2>6. CASE SweepDone(p) \/ (p = Startup /\ StartupScanned) \/ (p = Timer /\ TimerDone)
    <3>1. UNCHANGED lock /\ pc[p] \in {"sweeping", "scan"} /\ pc'[p] \in {"idle", "over", "sweep"}
      BY <2>6 DEF SweepDone, StartupScanned, TimerDone, Goto, Quiet, TypeProcs
    <3>2. QED BY <2>3, <3>1, LockKept
  <2>7. QED BY <1>3, <2>4, <2>5, <2>6 DEF Rests
<1>4. ASSUME NEW p \in Procs, NEW r \in Recs, TakesUp(p, r) PROVE LockInv'
  <2>1. UNCHANGED <<lock, session>>
    BY <1>4 DEF TakesUp, StartCreate, Retry, Summarize, Name, Delete, SweepHold, ScanGone, Quiet,
                ScanNotYet, ScanDue, ScanGiveUp, Scanning, RecoverOne, ResumeOff, ResumeOne
  <2>2. CASE UNCHANGED <<pc, job>>
    BY <2>1, <2>2, LockFrame
  <2>3. CASE pc'[p] \in JobSteps
    <3>1. p \in Tasks => (pc[p] \in Starting <=> pc'[p] \in Starting)
      <4>1. CASE StartCreate(p, r)
        BY <4>1, GoStill DEF StartCreate
      <4>2. CASE Retry(p, r) \/ Summarize(p, r) \/ Name(p, r) \/ Delete(p, r)
        BY <4>2, GoStill DEF Retry, Summarize, Name, Delete, Given
      <4>3. CASE ~(StartCreate(p, r) \/ Retry(p, r) \/ Summarize(p, r) \/ Name(p, r) \/ Delete(p, r))
        <5>1. pc[p] \in StepsOf(p) \ TaskSteps
          BY <1>4, <4>3 DEF TakesUp, SweepHold, ScanGone, ScanNotYet, ScanDue, ScanGiveUp,
             Scanning, RecoverOne, ResumeOff, ResumeOne, TaskSteps, TypeProcs
        <5>2. QED BY <5>1, ProcSteps
      <4>4. QED BY <4>1, <4>2, <4>3
    <3>2. QED BY <1>4, <2>1, <2>3, <3>1, TakesUpProcs, LockKept
  <2>4. QED BY <1>4, <2>2, <2>3, TakesUpProcs
<1>5. ASSUME NEW r \in Recs, Closes(r) PROVE LockInv'
  <2>1. UNCHANGED <<lock, pc, job>> /\ (session' = session \/ lock = None)
    BY <1>5, ClosesFrame DEF Closes, Stop, Cancel, TakeSession, EndingStep, StopFinish, StopStuck, StopEnqueue,
                CancelFinish, StuckEnds, Quiet
  <2>2. QED BY <2>1, LockFrame
<1>6. ASSUME NEW i \in DOMAIN queue, TakesJob(i) PROVE LockInv'
  <2>1. pc[Worker] = "idle" /\ pc'[Worker] \in {"begin", "make"} /\ Still(Worker) /\ UNCHANGED <<lock, session>>
    BY <1>6, GoStill DEF TakesJob
  <2>2. QED BY <2>1, LockKept DEF JobSteps
<1>7. CASE ShutdownIdle \/ ShutdownLate
  BY <1>7, ShutdownSame, LockKept, LockFrame, ProcsAssumption
<1>8. CASE Ended
  <2>1. Restart
    BY <1>8 DEF Ended, Crash, Exit, ExitAbandon
  <2>2. \A t \in Tasks : pc'[t] = "idle" /\ t # None
    BY <2>1, ProcsAssumption, NoneAssumption DEF Restart, Start0, Procs
  <2>3. QED BY <2>1, <2>2 DEF Restart, LockInv
<1>9. QED BY <1>1, <1>2, <1>3, <1>4, <1>5, <1>6, <1>7, <1>8, LockCarries, StepKinds
----------------------------------------------------------------------------
(* A recording that anything knows of has a folder: its id is not used again. *)

Listed(r) == \E p \in Procs : \E j \in todo[p] : j.rec = r

Touched(r) ==
  \/ session = r \/ ending[r] # "no"
  \/ tracks[r] # "none" \/ spent[r] # 0
  \/ r \in held \/ r \in waiting \/ Pending(r) \/ Listed(r)
  \/ \E p \in Procs : On(p, r)

Real(r) == meta[r].status # "none"

KnownInv ==
  /\ \A r \in Recs : Touched(r) => Real(r)
  /\ \A p \in Procs : pc[p] \in {"markWrite", "nameWrite", "run"} => seen[p].status # "none"

\* A recording whose view stays is pending as before.
LEMMA SamePending ==
  ASSUME TypeInv, TypeInv', NEW x, SameView(x)
  PROVE  Pending(x)' <=> Pending(x)
<1>1. /\ queued \subseteq Jobs /\ queued' \subseteq Jobs
      /\ processing \in Opt(Jobs) /\ processing' \in Opt(Jobs)
  BY DEF TypeInv, TypeView
<1>2. QED BY <1>1 DEF SameView, Pending, Working, Some, Opt

\* A recording whose lists stay is listed as before.
LEMMA SameListed ==
  ASSUME TypeInv, TypeInv', NEW x, SameTodo(x)
  PROVE  Listed(x)' <=> Listed(x)
<1>1. \A p \in Procs : todo[p] \subseteq Jobs /\ todo'[p] \subseteq Jobs
  BY DEF TypeInv, TypeTodo
<1>2. QED BY <1>1 DEF SameTodo, Listed

\* A recording that a step leaves alone is known as before.
LEMMA SameTouched ==
  ASSUME TypeInv, TypeInv', NEW x \in Recs, Same(x)
  PROVE  (Touched(x)' <=> Touched(x)) /\ (Real(x)' <=> Real(x))
<1>1. (\E p \in Procs : On(p, x))' <=> (\E p \in Procs : On(p, x))
  BY DEF Same, SameProcs
<1>2. QED BY <1>1, SamePending, SameListed DEF Same, SameDisk, SameView, Touched, Real

\* Once a recording has a folder, no write undoes it.
LEMMA CarriesReal ==
  ASSUME TypeInv, KnownInv, NEW p \in Procs, Carries(p), NEW r, r = job[p].rec
  PROVE  Real(r)'
<1>1. Real(r) /\ pc[p] \in JobSteps /\ r \in Recs
  BY CarriesOn DEF KnownInv, Touched, On
<1>2. meta \in [Recs -> Meta] /\ session \in Opt(Recs)
  BY DEF TypeInv, TypeDisk, TypeView
<1> USE <1>1, <1>2 DEF Real
<1>3. CASE StartFails(p) \/ StartWrite(p) \/ StartOpen(p) \/ StartShow(p)
  BY <1>3 DEF StartFails, StartWrite, StartOpen, StartShow, Fresh
<1>4. CASE RetryClaim(p) \/ RepairFails(p) \/ Send(p) \/ MarkRead(p) \/ MarkFails(p)
           \/ SweepWrite(p) \/ NameRead(p) \/ DeleteHold(p)
           \/ (p = Worker /\ (SummaryHold \/ SummaryTimeout))
  BY <1>4 DEF RetryClaim, RepairFails, Send, MarkRead, MarkFails, SweepWrite, NameRead,
              DeleteHold, SummaryHold, SummaryTimeout, diskVars
<1>5. CASE RetryRepair(p) \/ GiveUp(p) \/ DeleteRemove(p)
           \/ (p = Startup /\ (RecoverRepair \/ ResumeClear))
  <2>1. CASE RetryRepair(p)
    BY <2>1 DEF RetryRepair, Meta
  <2>2. CASE GiveUp(p)
    BY <2>2 DEF GiveUp, Meta
  <2>3. CASE DeleteRemove(p)
    BY <2>3 DEF DeleteRemove, Fresh
  <2>4. CASE p = Startup /\ RecoverRepair
    <3>1. meta' = [meta EXCEPT ![r] = IF Interrupted(r) THEN Recovered(@) ELSE @]
      BY <2>4 DEF RecoverRepair
    <3>2. Recovered(meta[r]).status \in {"failed", "processing"}
      BY DEF Recovered, Meta
    <3>3. meta'[r] = meta[r] \/ meta'[r] = Recovered(meta[r])
      BY <3>1
    <3>4. QED BY <3>2, <3>3
  <2>5. CASE p = Startup /\ ResumeClear
    BY <2>5 DEF ResumeClear, Meta
  <2>6. QED BY <1>5, <2>1, <2>2, <2>3, <2>4, <2>5
<1>6. CASE MarkWrite(p) \/ NameWrite(p)
  <2>1. seen[p].status # "none" /\ seen[p] \in Meta
    BY <1>6 DEF MarkWrite, NameWrite, KnownInv, TypeInv, TypeProcs, Fits
  <2>2. QED BY <1>6, <2>1 DEF MarkWrite, NameWrite, Meta
<1>7. CASE p = Worker /\ (WorkerBegin \/ SummaryWrite \/ SummaryRefused)
  BY <1>7 DEF WorkerBegin, SummaryWrite, SummaryRefused, Meta
<1>8. CASE p = Worker /\ ShutdownAttempt
  <2>1. meta' = [meta EXCEPT ![r] = GivenBack(@, job[Worker].kind)]
    BY <1>8 DEF ShutdownAttempt
  <2>2. GivenBack(meta[r], job[Worker].kind).status \in {meta[r].status, "waiting"}
    BY DEF GivenBack, Meta
  <2>3. meta'[r] = GivenBack(meta[r], job[Worker].kind)
    BY <2>1
  <2>4. QED BY <2>2, <2>3
<1>9. ASSUME NEW x \in Recs, p = Worker, \/ WorkerDone(x) \/ WorkerDoneSummary(x)
                                         \/ WorkerFail(x) \/ WorkerNetwork(x)
      PROVE  Real(r)'
  <2>1. seen[Worker] \in Meta /\ x = r
    BY <1>9 DEF WorkerDone, WorkerDoneSummary, WorkerFail, WorkerNetwork, Attempt,
                TypeInv, TypeProcs, Fits
  <2>2. CASE WorkerDone(x) \/ WorkerDoneSummary(x)
    <3>1. meta' = [meta EXCEPT ![r] = Transcribed(r)]
      BY <2>1, <2>2 DEF WorkerDone, WorkerDoneSummary
    <3>2. Transcribed(r).status = "done"
      BY <2>1 DEF Transcribed, Meta
    <3>3. QED BY <3>1, <3>2
  <2>3. CASE WorkerFail(x) \/ WorkerNetwork(x)
    <3>1. \/ meta' = [meta EXCEPT ![r].status = "failed"]
          \/ meta' = [meta EXCEPT ![r] = WaitForNetwork(@)]
      BY <2>1, <2>3 DEF WorkerFail, WorkerNetwork
    <3>2. WaitForNetwork(meta[r]).status = "waiting"
      BY DEF WaitForNetwork, Meta
    <3>3. QED BY <3>1, <3>2 DEF Meta
  <2>4. QED BY <1>9, <2>2, <2>3
<1>10. QED BY <1>3, <1>4, <1>5, <1>6, <1>7, <1>8, <1>9 DEF Carries

\* A recording that is taken up has a folder.
LEMMA TakesUpReal ==
  ASSUME TypeInv, KnownInv, NEW p \in Procs, NEW r \in Recs, TakesUp(p, r)
  PROVE  Real(r)'
<1>0. meta \in [Recs -> Meta] /\ \A kind \in Kinds : Job(r, kind) \in Jobs /\ Job(r, kind).rec = r
  BY JobType DEF TypeInv, TypeDisk
<1>1. CASE StartCreate(p, r)
  BY <1>0, <1>1 DEF StartCreate, Fresh, Real
<1>2. CASE Retry(p, r) \/ Summarize(p, r) \/ Name(p, r) \/ Delete(p, r)
  BY <1>2 DEF Retry, Summarize, Name, Delete, OnDisk, Real, diskVars
<1>3. CASE ~(StartCreate(p, r) \/ Retry(p, r) \/ Summarize(p, r) \/ Name(p, r) \/ Delete(p, r))
  <2>1. UNCHANGED meta /\ Listed(r)
    BY <1>0, <1>3 DEF TakesUp, SweepHold, ScanGone, ScanNotYet, ScanDue, ScanGiveUp, Scanning,
       RecoverOne, ResumeOff, ResumeOne, diskVars, Listed, Kinds
  <2>2. QED BY <2>1 DEF KnownInv, Touched, Real
<1>4. QED BY <1>1, <1>2, <1>3

\* So has one that is stopped.
LEMMA ClosesReal ==
  ASSUME TypeInv, KnownInv, NEW r \in Recs, Closes(r)
  PROVE  Real(r)'
<1>1. Touched(r)
  BY DEF Closes, EndingStep, StopFinish, StopStuck, StopEnqueue, CancelFinish, StuckEnds, Touched
<1>2. Real(r) /\ meta \in [Recs -> Meta]
  BY <1>1 DEF KnownInv, TypeInv, TypeDisk
<1>3. QED BY <1>2 DEF Real, Closes, Stop, Cancel, TakeSession, EndingStep, StopFinish, StopStuck, StopEnqueue,
       CancelFinish, StuckEnds, StopWrites, Fresh, diskVars

\* So has one whose job is taken.
LEMMA NextReal ==
  ASSUME TypeInv, OwnInv, KnownInv, NEW i \in DOMAIN queue, TakesJob(i), NEW r, r = queue[i].rec
  PROVE  Real(r)'
<1>1. queue[i] \in Jobs /\ r \in Recs /\ queue[i] \in queued
  BY TakenJob DEF OwnInv, ReservedOnce
<1>2. Real(r) /\ meta \in [Recs -> Meta]
  BY <1>1 DEF KnownInv, TypeInv, TypeDisk, Touched, Pending, Working
<1>3. QED BY <1>1, <1>2 DEF Real, TakesJob, Counted, Meta

\* A list holds only recordings that have a folder.
LEMMA ListsKnown ==
  ASSUME TypeInv, TypeInv', KnownInv, NEW p \in Procs, Lists(p)
  PROVE  \A r \in Recs : Touched(r)' => Real(r)
<1> SUFFICES ASSUME NEW r \in Recs, Touched(r)' PROVE Real(r)
  OBVIOUS
<1>1. CASE Touched(r)
  BY <1>1 DEF KnownInv
<1>2. CASE Listed(r)' /\ ~Listed(r)
  <2>0. \A x \in Recs : \A kind \in Kinds : Job(x, kind) \in Jobs /\ Job(x, kind).rec = x
    BY JobType
  <2>1. \E j \in todo'[p] : j.rec = r
    <3>1. PICK q \in Procs : \E j \in todo'[q] : j.rec = r
      BY <1>2 DEF Listed
    <3>2. CASE q = p
      BY <3>1, <3>2
    <3>3. CASE q # p
      BY <1>2, <3>1, <3>3, ListsFrame DEF Listed, TypeInv, TypeTodo
    <3>4. QED BY <3>2, <3>3
  <2>2. CASE SweepList(p)
    BY <2>0, <2>1, <2>2 DEF SweepList, Expired, Real, TypeInv, TypeTodo, Kinds
  <2>3. CASE p = Startup /\ (RecoverList \/ StartupScan)
    BY <2>0, <2>1, <2>3 DEF RecoverList, Interrupted, StartupScan, Real, TypeInv, TypeTodo, Kinds
  <2>4. CASE p = Startup /\ ResumeList
    BY <2>1, <2>4 DEF ResumeList, Job, Real, TypeInv, TypeTodo
  <2>5. CASE p = Timer /\ TimerTick
    <3>1. r \in waiting
      <4>1. \A x \in waiting : Job(x, "network").rec = x
        BY DEF Job
      <4>2. QED BY <2>1, <2>5, <4>1 DEF TimerTick, TypeInv, TypeTodo
    <3>2. QED BY <3>1 DEF KnownInv, Touched
  <2>6. QED BY <2>2, <2>3, <2>4, <2>5 DEF Lists
<1>3. CASE ~Touched(r) /\ ~(Listed(r)' /\ ~Listed(r))
  <2>1. SameDisk(r) /\ SameProcs(r) /\ SameView(r)
    BY IdleSame DEF SameAll
  <2>2. (\E q \in Procs : On(q, r))' <=> (\E q \in Procs : On(q, r))
    BY <2>1 DEF SameProcs
  <2>3. QED BY <1>3, <2>1, <2>2, SamePending DEF SameDisk, SameView, Touched
<1>4. QED BY <1>1, <1>2, <1>3

\* What is on disk when the daemon ends is there when it starts again.
LEMMA EndsKnown ==
  ASSUME TypeInv, KnownInv, Ended
  PROVE  KnownInv'
<1>0. Restart /\ meta \in [Recs -> Meta] /\ Worker \in Procs /\ session \in Opt(Recs) /\ spent \in [Recs -> Nat]
  BY DEF Ended, Crash, Exit, ExitAbandon, TypeInv, TypeDisk, TypeView, Procs
<1>1. \A p \in Procs : pc'[p] \in {"list", "idle"} /\ todo'[p] = {}
  BY <1>0 DEF Restart, Start0
<1>2. ASSUME NEW r \in Recs, Touched(r)' PROVE Touched(r)
  <2>1. tracks'[r] # "none" \/ spent'[r] # 0
    BY <1>0, <1>1, <1>2, NoneAssumption DEF Restart, Touched, Pending, Working, Some, Listed, On, JobSteps
  <2>2. tracks'[r] # "none" => tracks[r] # "none"
    BY DEF Ended, Crash, Exit, ExitAbandon, Closed
  <2>3. spent'[r] # 0 => spent[r] # 0 \/ On(Worker, r)
    BY <1>0 DEF Restart, Attempting, On, JobSteps
  <2>4. QED BY <1>0, <2>1, <2>2, <2>3 DEF Touched
<1>3. ASSUME NEW r \in Recs, Real(r) PROVE Real(r)'
  BY <1>0, <1>3 DEF Ended, Crash, Exit, ExitAbandon, Real, Fresh
<1>4. QED BY <1>1, <1>2, <1>3 DEF KnownInv

\* What is read to be written back: a process gets there by reading it.
Reads(p) == MarkRead(p) \/ NameRead(p) \/ (p = Worker /\ WorkerBegin)

Rewriting == {"markWrite", "nameWrite", "run"}

\* A process comes to rewrite a header by reading it, and stands there with what it read.
LEMMA StepsToRewrite ==
  ASSUME TypeInv, FreeInv, [Next]_vars, NEW p \in Procs, pc'[p] \in Rewriting
  PROVE  \/ Reads(p)
         \/ /\ pc[p] \in Rewriting /\ pc'[p] = pc[p] /\ job'[p] = job[p] /\ seen'[p] = seen[p]
<1> TypeProcs /\ Worker \in Procs
  BY DEF TypeInv, Procs
<1> DEFINE Goal == \/ Reads(p)
                   \/ /\ pc[p] \in Rewriting /\ pc'[p] = pc[p] /\ job'[p] = job[p] /\ seen'[p] = seen[p]
<1> USE DEF Rewriting
<1>1. ASSUME NEW q \in Procs, Still(q), q # p \/ pc'[q] \notin Rewriting PROVE Goal
  BY <1>1 DEF Still
<1>2. ASSUME NEW q \in Procs, Carries(q), ~Reads(q) PROVE pc'[q] \notin Rewriting
  <2>1. CASE \/ StartFails(q) \/ SweepWrite(q)
             \/ q = Worker /\ ShutdownAttempt
    <3>1. \E step \in {"idle", "sweeping", "dead"} :
            Goto(q, step) /\ UNCHANGED seen /\ job' = [job EXCEPT ![q] = None]
      BY <2>1 DEF StartFails, GiveUpStart, SweepWrite, ShutdownAttempt, ShutdownBegin
    <3>2. QED BY <3>1, DropStill
  <2>2. CASE \/ StartShow(q) \/ RepairFails(q) \/ Send(q) \/ MarkFails(q) \/ GiveUp(q)
             \/ NameWrite(q) \/ DeleteRemove(q)
             \/ q = Startup /\ ResumeClear
             \/ q = Worker /\ (SummaryWrite \/ SummaryRefused \/ SummaryTimeout)
             \/ q = Worker /\ \E r \in Recs : WorkerDone(r) \/ WorkerFail(r) \/ WorkerNetwork(r)
    <3>1. Return(q)
      BY <2>2 DEF StartShow, RepairFails, Send, MarkFails, GiveUp, NameWrite,
         DeleteRemove, ResumeClear, SummaryWrite, SummaryRefused, SummaryTimeout, WorkerDone,
         WorkerFail, WorkerNetwork
    <3>2. QED BY <3>1, ReturnStill DEF JobSteps
  <2>3. CASE \/ StartWrite(q) \/ StartOpen(q) \/ RetryRepair(q) \/ MarkWrite(q)
             \/ q = Worker /\ SummaryHold
    BY <2>3, GotoStill DEF StartWrite, StartOpen, RetryRepair, MarkWrite, SummaryHold
  <2>4. CASE RetryClaim(q) \/ DeleteHold(q) \/ (q = Startup /\ RecoverRepair)
    <3>1. Return(q) \/ \E step \in {"repair", "delete", "send"} : Goto(q, step) /\ UNCHANGED <<job, seen>>
      BY <2>4 DEF RetryClaim, DeleteHold, RecoverRepair
    <3>2. QED BY <3>1, GotoStill, ReturnStill DEF JobSteps
  <2>5. CASE q = Worker /\ \E r \in Recs : WorkerDoneSummary(r)
    BY <2>5, GoStill DEF WorkerDoneSummary
  <2>6. QED BY <1>2, <2>1, <2>2, <2>3, <2>4, <2>5 DEF Carries, Reads
<1>3. ASSUME NEW q \in Procs, Carries(q) PROVE Goal
  BY <1>1, <1>2, <1>3, CarriesProcs
<1>4. ASSUME NEW q \in Procs, NEW r \in Recs, TakesUp(q, r) PROVE Goal
  <2>1. CASE UNCHANGED <<pc, job, seen>>
    BY <2>1
  <2>2. CASE pc'[q] \notin Rewriting
    BY <1>1, <1>4, <2>2, TakesUpProcs
  <2>3. UNCHANGED <<pc, job, seen>> \/ pc'[q] \notin Rewriting
    <3>1. UNCHANGED <<pc, job, seen>> \/
            \E j, step : Go(q, step, j) /\ step \in {"write", "claim", "markRead", "nameRead",
                           "deleteHold", "swept", "giveUp", "repair", "clear"}
      BY <1>4 DEF TakesUp, StartCreate, Retry, Summarize, Name, Delete, SweepHold, ScanGone,
                ScanNotYet, ScanDue, ScanGiveUp, Scanning, RecoverOne, ResumeOff, ResumeOne
    <3>2. QED BY <3>1, GoStill
  <2>4. QED BY <2>1, <2>2, <2>3
<1>5. ASSUME NEW q \in Procs, Lists(q) \/ Rests(q) PROVE Goal
  <2>1. \E step : pc' = [pc EXCEPT ![q] = step] /\ step \notin Rewriting
    BY <1>5, ListsFrame, RestsFrame
  <2>2. QED BY <1>1, <1>5, <2>1, IdleSame DEF TypeProcs
<1>6. ASSUME NEW r \in Recs, Closes(r) PROVE Goal
  BY <1>6, ClosesFrame
<1>7. ASSUME NEW i \in DOMAIN queue, TakesJob(i) PROVE Goal
  BY <1>1, <1>7, TakesFrame
<1>8. CASE ShutdownIdle \/ ShutdownLate
  BY <1>1, <1>8, ShutdownSame
<1>9. CASE Ended
  BY <1>9 DEF Ended, Crash, Exit, ExitAbandon, Restart, Start0
<1>10. CASE UNCHANGED vars
  BY <1>10 DEF vars, localVars
<1>11. QED BY <1>3, <1>4, <1>5, <1>6, <1>7, <1>8, <1>9, <1>10, StepKinds

\* What it reads is the header as it stands after the step.
LEMMA ReadsSeen ==
  ASSUME TypeInv, NEW p \in Procs, Reads(p)
  PROVE  /\ pc[p] \in JobSteps /\ job[p] \in Jobs /\ job[p].rec \in Recs
         /\ job'[p] = job[p]
         /\ \A r \in Recs : r = job[p].rec => seen'[p] = meta'[r]
<1> TypeProcs /\ meta \in [Recs -> Meta]
  BY DEF TypeInv, TypeDisk
<1>1. pc[p] \in JobSteps /\ job[p] \in Jobs /\ job[p].rec \in Recs
  BY CarriesOn DEF Reads, Carries
<1>2. CASE MarkRead(p) \/ NameRead(p)
  <2>1. /\ \E step : Goto(p, step) /\ UNCHANGED job
        /\ seen' = [seen EXCEPT ![p] = meta[job[p].rec]] /\ UNCHANGED meta
    BY <1>2 DEF MarkRead, NameRead, diskVars
  <2>2. job'[p] = job[p] /\ seen'[p] = meta[job[p].rec]
    BY <2>1, SeeStill
  <2>3. QED BY <1>1, <2>1, <2>2
<1>3. CASE p = Worker /\ WorkerBegin
  <2>1. PICK r \in Recs : r = job[p].rec
    BY <1>1
  <2>2. PICK m : m = [meta[r] EXCEPT !.status = "processing"]
    OBVIOUS
  <2>3. /\ Goto(p, "run") /\ UNCHANGED job /\ seen' = [seen EXCEPT ![p] = m]
        /\ meta' = [meta EXCEPT ![r] = m]
    BY <1>3, <2>1, <2>2 DEF WorkerBegin
  <2>4. job'[p] = job[p] /\ seen'[p] = m
    BY <2>3, SeeStill
  <2>5. QED BY <1>1, <2>1, <2>3, <2>4
<1>4. QED BY <1>1, <1>2, <1>3 DEF Reads

\* So what is written back is the header of a recording that has a folder.
LEMMA KnownSeen ==
  ASSUME TypeInv, FreeInv, KnownInv, [Next]_vars, NEW p \in Procs,
         pc'[p] \in Rewriting
  PROVE  seen'[p].status # "none"
<1>1. CASE Reads(p)
  <2>1. Carries(p)
    BY <1>1 DEF Reads, Carries
  <2>2. PICK r \in Recs : r = job[p].rec
    BY <1>1, ReadsSeen
  <2>3. QED BY <1>1, <2>1, <2>2, ReadsSeen, CarriesReal DEF Real
<1>2. CASE pc[p] \in Rewriting /\ seen'[p] = seen[p]
  BY <1>2 DEF Rewriting, KnownInv
<1>3. QED BY <1>1, <1>2, StepsToRewrite

\* No id is used again while anything knows of it, step by step.
LEMMA KnownStep == TypeInv /\ TypeInv' /\ OwnInv /\ LockInv /\ FreeInv /\ KnownInv /\ [Next]_vars => KnownInv'
<1> SUFFICES ASSUME TypeInv, TypeInv', OwnInv, LockInv, FreeInv, KnownInv, [Next]_vars PROVE KnownInv'
  OBVIOUS
<1>0. \A p \in Procs : pc'[p] \in {"markWrite", "nameWrite", "run"} => seen'[p].status # "none"
  BY KnownSeen DEF Rewriting
<1>1. ASSUME NEW r \in Recs, Touches(r), Real(r)' PROVE \A x \in Recs : Touched(x)' => Real(x)'
  BY <1>1, SameTouched DEF Touches, KnownInv
<1>2. ASSUME NEW p \in Procs, Carries(p) PROVE \A x \in Recs : Touched(x)' => Real(x)'
  <2>1. PICK r \in Recs : r = job[p].rec
    BY <1>2, CarriesOn
  <2>2. QED BY <1>1, <1>2, <2>1, CarriesReal, CarriesFrame
<1>3. ASSUME NEW p \in Procs, NEW r \in Recs, TakesUp(p, r) PROVE \A x \in Recs : Touched(x)' => Real(x)'
  BY <1>1, <1>3, TakesUpReal, TakesUpFrame
<1>4. ASSUME NEW r \in Recs, Closes(r) PROVE \A x \in Recs : Touched(x)' => Real(x)'
  BY <1>1, <1>4, ClosesReal, ClosesFrame
<1>5. ASSUME NEW i \in DOMAIN queue, TakesJob(i) PROVE \A x \in Recs : Touched(x)' => Real(x)'
  <2>1. PICK r \in Recs : r = queue[i].rec
    BY TakenJob
  <2>2. QED BY <1>1, <1>5, <2>1, NextReal, TakesFrame
<1>6. ASSUME NEW p \in Procs, Lists(p) PROVE \A x \in Recs : Touched(x)' => Real(x)'
  BY <1>6, ListsKnown, IdleSame DEF SameAll, SameDisk, Real
<1>7. ASSUME NEW p \in Procs, Rests(p) PROVE \A x \in Recs : Touched(x)' => Real(x)'
  <2>1. \A x \in Recs : Same(x)
    BY <1>7, IdleSame, RestsFrame DEF SameAll, Same, SameTodo
  <2>2. QED BY <2>1, SameTouched DEF KnownInv
<1>8. CASE ShutdownIdle \/ ShutdownLate
  <2>1. \A p \in Procs, x \in Recs : On(p, x)' => On(p, x)
    <3>1. \A p \in Procs : pc'[p] \in JobSteps => pc[p] = pc'[p] /\ job'[p] = job[p]
      <4>1. ASSUME NEW p \in Procs, pc'[p] \in JobSteps PROVE pc[p] = pc'[p] /\ job'[p] = job[p]
        <5>1. CASE UNCHANGED <<pc, job>>
          BY <5>1
        <5>2. CASE Still(Worker) /\ pc'[Worker] = "dead"
          BY <4>1, <5>2 DEF Still, JobSteps
        <5>3. QED BY <1>8, <5>1, <5>2, ShutdownSame
      <4>2. QED BY <4>1
    <3>2. QED BY <3>1 DEF On
  <2>2. \A x \in Recs : Touched(x)' => Touched(x)
    BY <1>8, <2>1, ShutdownSame DEF Touched, Pending, Working, Listed
  <2>3. QED BY <1>0, <1>8, <2>2, ShutdownSame DEF KnownInv, Real
<1>9. CASE UNCHANGED vars
  BY <1>9 DEF vars, diskVars, viewVars, localVars, pastVars, KnownInv, Touched, Real, Pending, Working, Listed, On
<1>10. QED BY <1>0, <1>2, <1>3, <1>4, <1>5, <1>6, <1>7, <1>8, <1>9, EndsKnown, StepKinds DEF KnownInv
----------------------------------------------------------------------------
(* What is shown as being recorded.                                        *)

CaptureInv ==
  /\ session # None => capturing = session /\ ending[session] = "no"
  /\ \A t \in Tasks : pc[t] \in Opening => ending[job[t].rec] = "no"
  /\ capturing # None => \/ capturing = session
                         \/ ending[capturing] \in {"stop", "cancel"}

\* A start opens its recording on from where it stood, or has just created it.
LEMMA OpeningGoesOn ==
  ASSUME TypeInv, LockInv, LockInv', NEW p \in Procs, Still(p), lock' \in {lock, None},
         NEW t \in Tasks, pc'[t] \in Opening,
         \/ pc[p] \in JobSteps /\ job'[p].rec = job[p].rec
         \/ pc[p] \notin JobSteps /\ (pc[p] # "create" \/ pc'[p] \notin Opening)
         \/ UNCHANGED <<pc, job>>
  PROVE  pc[t] \in Opening /\ job'[t].rec = job[t].rec
<1>1. lock' = t /\ t # None
  BY NoneAssumption DEF LockInv, Starting
<1>2. pc[t] \in Starting
  BY <1>1, NoneAssumption DEF LockInv
<1>3. CASE t # p
  BY <1>2, <1>3 DEF Still, Procs, Starting, Opening
<1>4. CASE t = p
  BY <1>2, <1>4 DEF Starting, Opening, JobSteps
<1>5. QED BY <1>3, <1>4

\* With the session and the stops left alone, so is what is shown.
LEMMA CaptureFrame ==
  ASSUME CaptureInv, UNCHANGED <<session, capturing, ending>>,
         \A t \in Tasks : pc'[t] \in Opening =>
           pc[t] \in Opening /\ job'[t].rec = job[t].rec
  PROVE  CaptureInv'
BY DEF CaptureInv

\* A start shows its recording when it opens it, and takes it back when it fails.
LEMMA CaptureCarries ==
  ASSUME TypeInv, LockInv, LockInv', CaptureInv, NEW p \in Procs, Carries(p)
  PROVE  CaptureInv'
<1>1. Still(p) /\ pc[p] \in JobSteps /\ (pc'[p] \notin JobSteps \/ job'[p].rec = job[p].rec)
  BY CarriesProcs, CarriesOn
<1>2. CASE StartShow(p)
  <2>1. /\ lock' = None /\ UNCHANGED ending
        /\ \E r \in Recs : r = job[p].rec /\ session' = r /\ capturing' = r
    BY <1>2, CarriesOn DEF StartShow
  <2>2. p \in Tasks
    <3>1. pc[p] \in Opening /\ pc[p] \in StepsOf(p)
      BY <1>2 DEF StartShow, Opening, TypeInv, TypeProcs
    <3>2. QED BY <3>1, ProcSteps DEF Procs, WorkerSteps, StartupSteps, TimerSteps, Opening
  <2>3. ending[job[p].rec] = "no"
    BY <1>2, <2>2 DEF StartShow, CaptureInv, Opening
  <2>4. \A t \in Tasks : pc'[t] \notin Opening
    BY <2>1, NoneAssumption DEF LockInv, Starting
  <2>5. QED BY <2>1, <2>3, <2>4 DEF CaptureInv
<1>3. CASE ~StartShow(p)
  <2>1. UNCHANGED <<session, capturing, ending>> /\ lock' \in {lock, None}
    <3>1. CASE StartFails(p) \/ StartWrite(p) \/ StartOpen(p)
      BY <3>1 DEF StartFails, GiveUpStart, StartWrite, StartOpen, Quiet, viewVars
    <3>2. CASE \/ RetryClaim(p) \/ RetryRepair(p) \/ RepairFails(p) \/ Send(p)
               \/ MarkRead(p) \/ MarkWrite(p) \/ MarkFails(p) \/ GiveUp(p) \/ SweepWrite(p)
               \/ NameRead(p) \/ NameWrite(p) \/ DeleteHold(p) \/ DeleteRemove(p)
               \/ p = Startup /\ (RecoverRepair \/ ResumeClear)
      BY <3>2 DEF RetryClaim, RetryRepair, RepairFails, Send, MarkRead, MarkWrite, MarkFails,
         GiveUp, SweepWrite, NameRead, NameWrite, DeleteHold, DeleteRemove, RecoverRepair,
         ResumeClear, Quiet, viewVars
    <3>3. CASE /\ p = Worker
               /\ \/ WorkerBegin \/ SummaryHold \/ SummaryWrite \/ SummaryRefused
                  \/ SummaryTimeout \/ ShutdownAttempt
                  \/ \E r \in Recs : \/ WorkerDone(r) \/ WorkerDoneSummary(r)
                                     \/ WorkerFail(r) \/ WorkerNetwork(r)
      BY <3>3 DEF WorkerBegin, SummaryHold, SummaryWrite, SummaryRefused, SummaryTimeout,
         ShutdownAttempt, ShutdownBegin, WorkerDone, WorkerDoneSummary, WorkerFail,
         WorkerNetwork, Attempt, Quiet, viewVars
    <3>4. QED BY <1>3, <3>1, <3>2, <3>3 DEF Carries
  <2>2. ASSUME NEW t \in Tasks, pc'[t] \in Opening
        PROVE  pc[t] \in Opening /\ job'[t].rec = job[t].rec
    <3>1. CASE pc'[p] \in JobSteps
      BY <1>1, <2>1, <2>2, <3>1, OpeningGoesOn
    <3>2. CASE pc'[p] \notin JobSteps
      <4>1. t # p
        BY <2>2, <3>2 DEF Opening, JobSteps
      <4>2. QED BY <1>1, <2>2, <4>1 DEF Still, Procs
    <3>3. QED BY <3>1, <3>2
  <2>3. QED BY <2>1, <2>2, CaptureFrame
<1>4. QED BY <1>2, <1>3

\* A new recording has no stop.
LEMMA CaptureTakesUp ==
  ASSUME TypeInv, LockInv, LockInv', KnownInv, CaptureInv,
         NEW p \in Procs, NEW r \in Recs, TakesUp(p, r)
  PROVE  CaptureInv'
<1>1. UNCHANGED <<session, capturing, ending, lock>>
  BY DEF TakesUp, StartCreate, Retry, Summarize, Name, Delete, SweepHold, ScanGone, Quiet, viewVars,
         ScanNotYet, ScanDue, ScanGiveUp, Scanning, RecoverOne, ResumeOff, ResumeOne
<1>2. Still(p) /\ pc[p] \notin JobSteps
  BY TakesUpProcs
<1>3. CASE StartCreate(p, r)
  <2>1. ending[r] = "no"
    BY <1>3 DEF StartCreate, KnownInv, Touched, Real
  <2>2. job'[p].rec = r
    BY <1>3, GoStill, JobType DEF StartCreate, TypeInv, Kinds
  <2>3. ASSUME NEW t \in Tasks, pc'[t] \in Opening PROVE ending[job'[t].rec] = "no"
    <3>1. CASE t = p
      BY <2>1, <2>2, <3>1
    <3>2. CASE t # p
      BY <1>2, <2>3, <3>2 DEF Still, CaptureInv, Procs
    <3>3. QED BY <3>1, <3>2
  <2>4. QED BY <1>1, <2>3 DEF CaptureInv
<1>4. CASE ~StartCreate(p, r)
  <2>1. pc[p] # "create"
    BY <1>4 DEF TakesUp, Retry, Summarize, Name, Delete, Given, SweepHold, ScanGone,
         ScanNotYet, ScanDue, ScanGiveUp, Scanning, RecoverOne, ResumeOff, ResumeOne
  <2>2. QED BY <1>1, <1>2, <2>1, OpeningGoesOn, CaptureFrame
<1>5. QED BY <1>3, <1>4

\* A stop clears what is shown only if it is still the recording that stops.
LEMMA CaptureCloses ==
  ASSUME TypeInv, LockInv, LockInv', CaptureInv, NEW r \in Recs, Closes(r)
  PROVE  CaptureInv'
<1> /\ ending \in [Recs -> {"no", "stop", "cancel", "enqueue"}] /\ r # None
    /\ session \in Opt(Recs) /\ capturing \in Opt(Recs)
  BY NoneAssumption DEF TypeInv, TypeView, TypeDisk
<1>0. UNCHANGED <<pc, job>>
  BY ClosesFrame
<1>1. CASE session = r /\ (Stop \/ Cancel)
  <2>1. /\ lock = None /\ UNCHANGED <<lock, capturing>> /\ session' = None
        /\ \E how \in {"stop", "cancel"} : ending' = [ending EXCEPT ![r] = how]
    BY <1>1 DEF Stop, Cancel, TakeSession, viewVars
  <2>2. \A t \in Tasks : pc'[t] \notin Opening
    BY <2>1, NoneAssumption DEF LockInv, Starting
  <2>3. capturing = r /\ ending'[r] \in {"stop", "cancel"}
    BY <1>1, <2>1 DEF CaptureInv
  <2>4. QED BY <2>1, <2>2, <2>3 DEF CaptureInv
<1>2. CASE EndingStep(r)
  <2>1. UNCHANGED session /\ ending[r] # "no"
    BY <1>2 DEF EndingStep, StopFinish, StopStuck, StopEnqueue, CancelFinish
  <2>2. \E end : ending' = [ending EXCEPT ![r] = end]
    BY <1>2 DEF EndingStep, StopFinish, StopStuck, StopEnqueue, CancelFinish
  <2>3. capturing' = IF capturing = r THEN None ELSE capturing
    <3>1. CASE StopEnqueue(r)
      <4>1. ending[r] = "enqueue" /\ UNCHANGED capturing
        BY <3>1 DEF StopEnqueue
      <4>2. QED BY <2>1, <4>1 DEF CaptureInv
    <3>2. CASE ~StopEnqueue(r)
      BY <1>2, <3>2 DEF EndingStep, StopFinish, StopStuck, CancelFinish, ClearCapturing
    <3>3. QED BY <3>1, <3>2
  <2>4. session # r
    BY <2>1 DEF CaptureInv
  <2>5. \A x \in Recs \ {r} : ending'[x] = ending[x]
    BY <2>2
  <2>6. session' # None => capturing' = session' /\ ending'[session'] = "no"
    BY <2>1, <2>3, <2>4, <2>5 DEF CaptureInv, Opt
  <2>7. ASSUME NEW t \in Tasks, pc'[t] \in Opening PROVE ending'[job'[t].rec] = "no"
    <3>1. ending[job[t].rec] = "no" /\ job[t].rec \in Recs
      BY <1>0, <2>7 DEF CaptureInv, TypeInv, TypeProcs, Fits, Jobs, Procs, Opening, JobSteps
    <3>2. QED BY <1>0, <2>1, <2>5, <3>1
  <2>8. capturing' # None => \/ capturing' = session'
                             \/ ending'[capturing'] \in {"stop", "cancel"}
    BY <2>1, <2>3, <2>5 DEF CaptureInv, Opt
  <2>9. QED BY <2>6, <2>7, <2>8 DEF CaptureInv
<1>3. CASE StuckEnds(r)
  BY <1>0, <1>3, CaptureFrame DEF StuckEnds, Quiet, viewVars
<1>4. QED BY <1>1, <1>2, <1>3 DEF Closes

\* What is shown stays live, step by step.
LEMMA CaptureStep ==
  ASSUME TypeInv, LockInv, LockInv', FreeInv, KnownInv, CaptureInv, [Next]_vars
  PROVE  CaptureInv'
<1> TypeProcs /\ Worker \in Procs
  BY DEF TypeInv, Procs
<1>1. CASE UNCHANGED vars
  BY <1>1, CaptureFrame DEF vars, viewVars, localVars
<1>2. ASSUME NEW p \in Procs, Lists(p) \/ Rests(p) PROVE CaptureInv'
  <2>1. Still(p) /\ UNCHANGED <<session, capturing, ending>>
    BY <1>2, IdleSame, ListsFrame, RestsFrame
  <2>2. pc'[p] \notin Opening
    <3>1. \E step : pc' = [pc EXCEPT ![p] = step] /\ step \notin Opening
      BY <1>2, ListsFrame, RestsFrame DEF Opening
    <3>2. QED BY <3>1 DEF TypeProcs
  <2>3. QED BY <2>1, <2>2, CaptureFrame DEF Still, Procs
<1>3. ASSUME NEW i \in DOMAIN queue, TakesJob(i) PROVE CaptureInv'
  <2>1. Still(Worker) /\ pc'[Worker] \notin Opening
    BY <1>3, TakesFrame DEF Opening
  <2>2. UNCHANGED <<session, capturing, ending>>
    BY <1>3 DEF TakesJob
  <2>3. QED BY <2>1, <2>2, CaptureFrame DEF Still, Procs
<1>4. CASE ShutdownIdle \/ ShutdownLate
  <2>1. UNCHANGED <<session, capturing, ending>> /\ Still(Worker)
        /\ (UNCHANGED <<pc, job>> \/ pc'[Worker] \notin Opening)
    BY <1>4, ShutdownSame DEF Opening
  <2>2. QED BY <2>1, CaptureFrame DEF Still, Procs
<1>5. CASE Ended
  <2>1. session' = None /\ capturing' = None
    BY <1>5 DEF Ended, Crash, Exit, ExitAbandon, Restart
  <2>2. \A t \in Tasks : pc'[t] \notin Opening
    BY <1>5 DEF Ended, Crash, Exit, ExitAbandon, Restart, Start0, Opening, Procs
  <2>3. QED BY <2>1, <2>2 DEF CaptureInv
<1>6. QED BY <1>1, <1>2, <1>3, <1>4, <1>5, CaptureCarries, CaptureTakesUp, CaptureCloses, StepKinds

LifeInv == OwnInv /\ LockInv /\ FreeInv /\ KnownInv /\ CaptureInv

\* Nothing is known when the daemon first starts.
LEMMA LifeInit == Init => LifeInv
<1> SUFFICES ASSUME Init PROVE LifeInv
  OBVIOUS
<1>1. OwnInv
  BY DEF Init, Start0, OwnInv, ReservedOnce, WorkedOnce, HeldOnce, Working, Some,
         Reserving, Holding, AtWork, Procs
<1>2. \A p \in Procs : pc[p] \in {"list", "idle"} /\ todo[p] = {} /\ job[p] = None
  BY DEF Init, Start0
<1>3. \A t \in Tasks : pc[t] = "idle" /\ t # None
  BY ProcsAssumption, NoneAssumption DEF Init, Start0, Procs
<1>4. LockInv
  BY <1>2, <1>3 DEF Init, LockInv, Starting, Opening
<1>5. FreeInv
  BY DEF Init, FreeInv
<1>6. KnownInv
  BY <1>2, NoneAssumption DEF Init, KnownInv, Touched, Pending, Working, Some, Listed, On, JobSteps
<1>7. CaptureInv
  BY <1>3 DEF Init, CaptureInv, Opening
<1>8. QED BY <1>1, <1>4, <1>5, <1>6, <1>7 DEF LifeInv

\* Every step keeps the invariant.
LEMMA LifeStep == TypeInv /\ TypeInv' /\ LifeInv /\ [Next]_vars => LifeInv'
BY OwnStep, LockStep, FreeStep, KnownStep, CaptureStep DEF LifeInv

\* What is shown as being recorded is the session, or a recording whose stop is not
\* finished (view.capturing against the session mutex, daemon/recording.rs): a stop that
\* is late, of a recording that a start has followed, never hides the new one.
THEOREM ShownIsLive == Spec => []CapturingIsLive
<1>1. LifeInv => CapturingIsLive
  BY DEF LifeInv, CaptureInv, CapturingIsLive
<1>2. Spec => []LifeInv
  BY Carried, LifeInit, LifeStep, PTL DEF Spec
<1>3. QED BY <1>1, <1>2, PTL
=============================================================================
