--------------------------- MODULE RecordingsFate ---------------------------
(* What becomes of a recording. First its stages (recording/mod.rs Status,
   daemon/recording.rs): what its header says, who may be working on it, and how many
   attempts have been counted against it (count_attempt, uncount_attempt, rewait). The
   count is the number of tries that were really spent, and it never passes the limits: no
   recording is transcribed over and over, crash after crash. And every step of the daemon
   is, for the status that the user sees, a step of RecordingLifecycle.
   Then, no recording is left behind (run_worker, recover_on_startup,
   run_network_retries). One that is not finished is with somebody who will finish it:
   its recorder, a reservation, the queue, the worker, or the start's list of what to
   recover. One that waits for the network is on the list of the retries, with somebody
   who will put it in the queue again, or before a scan of the start that finds it. *)
EXTENDS RecordingsProofs

\* A recording whose files are still its recorder's.
Young(r) == \/ session = r \/ ending[r] # "no"
            \/ \E t \in Tasks : On(t, r) /\ pc[t] \in Opening
Growing(r) == Young(r) \/ tracks[r] \in {"live", "stuck"}

SameCount(m, n) == m.status = n.status /\ m.attempts = n.attempts /\ m.tries = n.tries

Apart(r) ==
  /\ Growing(r) => ~Pending(r) /\ ~Listed(r) /\ r \notin waiting
  /\ Young(r) => r \notin held

Shape(r) ==
  /\ session = r \/ ending[r] \in {"stop", "cancel"} =>
       meta[r].status = "recording" /\ tracks[r] = "live"
  /\ ending[r] = "enqueue" =>
       meta[r].status = "processing" /\ tracks[r] = "ended" /\ meta[r].attempts = 0
  /\ tracks[r] = "live" => Young(r)
  /\ tracks[r] = "stuck" => ~Young(r) /\ meta[r].status \in {"failed", "recording"}
  /\ meta[r].status = "waiting" => meta[r].tries # None
  /\ meta[r].status \in {"none", "claimed", "recording"} =>
       spent[r] = 0 /\ meta[r].attempts = 0 /\ meta[r].tries = None

CountFits(r) ==
  /\ meta[r].status \notin {"done", "gone"} =>
       meta[r].attempts + Tries(meta[r]) = spent[r] + IF Attempting(r) THEN 1 ELSE 0
  /\ meta[r].attempts <= MaxAttempts /\ Tries(meta[r]) <= NetworkMax
  /\ spent[r] <= MaxAttempts + NetworkMax

Lined(r) ==
  /\ InQueue(Job(r, "transcribe")) =>
       meta[r].status = "processing" /\ meta[r].attempts < MaxAttempts
  /\ InQueue(Job(r, "network")) =>
       meta[r].status = "waiting" /\ Tries(meta[r]) < NetworkMax

Sound(p, r) ==
  /\ pc[p] \in {"claim", "repair"} => job[p].kind = "transcribe"
  /\ pc[p] = "send" /\ Transcribes(job[p]) =>
       /\ job[p].kind = "transcribe"
       /\ meta[r].status = "processing" /\ meta[r].attempts < MaxAttempts
  /\ pc[p] = "begin" =>
       IF job[p].kind = "network" THEN meta[r].status = "waiting" 
       ELSE meta[r].status = "processing" /\ meta[r].attempts > 0
  /\ pc[p] = "run" =>
       meta[r].status = "processing"
       /\ IF job[p].kind = "network" THEN meta[r].tries # None ELSE meta[r].attempts > 0
  /\ pc[p] \in {"run", "markWrite", "nameWrite"} => SameCount(meta[r], seen[p])
  /\ pc[p] = "giveUp" => meta[r].status = "waiting"
  /\ pc[p] \in {"deleteHold", "delete"} => meta[r].status \notin {"none", "claimed", "recording"}
  /\ pc[p] = "delete" => ~Pending(r)
  /\ Growing(r) => \/ pc[p] \in {"claim"} \cup Opening
                   \/ tracks[r] = "stuck" /\ pc[p] \in {"deleteHold", "delete"}
  /\ pc[p] = "write" => meta[r].status = "claimed" /\ tracks[r] = "none"
  /\ pc[p] = "open" => meta[r].status = "recording" /\ tracks[r] = "none"
  /\ pc[p] = "show" => meta[r].status = "recording" /\ tracks[r] = "live"

Stage(r) ==
  /\ Apart(r) /\ Shape(r) /\ CountFits(r) /\ Lined(r)
  /\ \A p \in Procs : On(p, r) => Sound(p, r)

StageInv == \A r \in Recs : Stage(r)
----------------------------------------------------------------------------
(* A recording a step leaves alone stays as it is.                          *)

\* It is as young as it was.
LEMMA SameYoung ==
  ASSUME NEW x \in Recs, SameDisk(x), SameProcs(x), SameView(x)
  PROVE  /\ Young(x)' <=> Young(x)
         /\ Growing(x)' <=> Growing(x)
         /\ Attempting(x)' <=> Attempting(x)
<1>1. \A t \in Tasks : (On(t, x) /\ pc[t] \in Opening)' <=> (On(t, x) /\ pc[t] \in Opening)
  BY DEF SameProcs, Procs
<1>2. Young(x)' <=> Young(x)
  BY <1>1 DEF Young, SameDisk, SameView
<1>3. \A y \in Recs : Attempting(y) <=> On(Worker, y) /\ pc[Worker] \in {"begin", "run"}
  BY DEF Attempting, On, JobSteps
<1>4. \A y \in Recs : Attempting(y)' <=> On(Worker, y)' /\ pc'[Worker] \in {"begin", "run"}
  BY DEF Attempting, On, JobSteps
<1>5. QED BY <1>2, <1>3, <1>4 DEF Growing, SameDisk, SameProcs, Procs

\* It may be put on a list, unless it is still its recorder's.
LEMMA StageListed ==
  ASSUME TypeInv, TypeInv', NEW x \in Recs, SameDisk(x), SameProcs(x), SameView(x), Stage(x),
         Listed(x)' => Listed(x) \/ ~Growing(x)
  PROVE  Stage(x)'
<1> /\ meta'[x] = meta[x] /\ tracks'[x] = tracks[x]
    /\ ending'[x] = ending[x] /\ spent'[x] = spent[x]
    /\ (session' = x <=> session = x)
    /\ (x \in waiting' <=> x \in waiting) /\ (x \in held' <=> x \in held)
  BY DEF SameDisk, SameView
<1> /\ Young(x)' <=> Young(x)
    /\ Growing(x)' <=> Growing(x)
    /\ Attempting(x)' <=> Attempting(x)
    /\ Pending(x)' <=> Pending(x)
  BY SameYoung, SamePending
<1>1. Apart(x)'
  BY DEF Stage, Apart
<1>2. Shape(x)'
  BY DEF Stage, Shape
<1>3. CountFits(x)'
  BY DEF Stage, CountFits, Tries
<1>4. Lined(x)'
  <2>1. \A kind \in Kinds : InQueue(Job(x, kind))' <=> InQueue(Job(x, kind))
    BY JobType DEF SameView
  <2>2. QED BY <2>1 DEF Stage, Lined, Tries, Kinds
<1>5. ASSUME NEW p \in Procs, On(p, x)' PROVE Sound(p, x)'
  <2>1. On(p, x) /\ pc'[p] = pc[p] /\ job'[p] = job[p] /\ seen'[p] = seen[p]
    BY <1>5 DEF SameProcs
  <2>2. Sound(p, x)
    BY <2>1 DEF Stage
  <2>3. QED BY <2>1, <2>2 DEF Sound, SameCount, Transcribes
<1>6. QED BY <1>1, <1>2, <1>3, <1>4, <1>5 DEF Stage

\* A recording that a step leaves alone keeps its stage.
LEMMA StageSame ==
  ASSUME TypeInv, TypeInv', NEW x \in Recs, Same(x), Stage(x)
  PROVE  Stage(x)'
BY StageListed, SameListed DEF Same
----------------------------------------------------------------------------
(* Who else may work on a recording.                                        *)

Loose == {"claim", "deleteHold"} \cup Opening

\* What is reserved, or with the worker or its queue, is pending.
LEMMA PendingBy ==
  ASSUME TypeInv, OwnInv, NEW r
  PROVE  /\ \A p \in Procs : On(p, r) /\ pc[p] \in Reserving \cup AtWork => Pending(r)
         /\ \A i \in DOMAIN queue : queue[i].rec = r => Pending(r)
<1>1. ASSUME NEW p \in Procs, On(p, r), pc[p] \in Reserving PROVE Pending(r)
  BY <1>1 DEF OwnInv, ReservedOnce, On, Pending, Working
<1>2. ASSUME NEW p \in Procs, On(p, r), pc[p] \in AtWork PROVE Pending(r)
  <2>1. pc[p] \in StepsOf(p) /\ job[p] \in Jobs
    BY <1>2 DEF TypeInv, TypeProcs, Fits, On
  <2>2. p = Worker
    BY <1>2, <2>1, ProcSteps DEF AtWork, Procs, TaskSteps, StartupSteps, TimerSteps
  <2>3. processing = job[p] /\ processing # None
    BY <1>2, <2>1, <2>2, JobsAssumption DEF OwnInv, WorkedOnce
  <2>4. QED BY <1>2, <2>3 DEF On, Pending, Working, Some
<1>3. ASSUME NEW i \in DOMAIN queue, queue[i].rec = r PROVE Pending(r)
  BY <1>3 DEF OwnInv, ReservedOnce, Pending, Working
<1>4. QED BY <1>1, <1>2, <1>3

\* Only the worker is at work, on the job that is shown as being processed.
LEMMA AtWorkIsWorker ==
  ASSUME TypeInv, OwnInv, NEW p \in Procs, pc[p] \in AtWork
  PROVE  p = Worker /\ processing = job[p] /\ job[p] \in Jobs /\ processing # None
<1>1. pc[p] \in StepsOf(p) /\ job[p] \in Jobs
  BY DEF TypeInv, TypeProcs, Fits, AtWork, JobSteps
<1>2. p = Worker
  BY <1>1, ProcSteps DEF AtWork, Procs, TaskSteps, StartupSteps, TimerSteps
<1>3. QED BY <1>1, <1>2, JobsAssumption DEF OwnInv, WorkedOnce

\* A reserved recording is nobody else's, and not in the worker's queue.
LEMMA ReservedAlone ==
  ASSUME TypeInv, OwnInv, NEW p \in Procs, NEW r, On(p, r), pc[p] \in Reserving,
         Transcribes(job[p])
  PROVE  /\ \A q \in Procs \ {p} : On(q, r) => pc[q] \in Loose
         /\ \A i \in DOMAIN queue : queue[i].rec # r
         /\ ~Attempting(r) /\ r \notin held
<1>1. job[p] \in queued /\ job[p].rec = r
  BY DEF OwnInv, ReservedOnce, On
<1>2. r \notin held
  BY <1>1 DEF OwnInv, HeldOnce, Working
<1>3. ASSUME NEW q \in Procs, q # p, On(q, r) PROVE pc[q] \notin Reserving \cup Holding \cup AtWork
  <2>1. pc[q] \notin Reserving
    BY <1>1, <1>3 DEF OwnInv, ReservedOnce, On
  <2>2. pc[q] \notin Holding
    BY <1>2, <1>3 DEF OwnInv, HeldOnce, On
  <2>3. pc[q] \notin AtWork
    BY <1>1, <1>3, AtWorkIsWorker DEF OwnInv, WorkedOnce, On
  <2>4. QED BY <2>1, <2>2, <2>3
<1>4. \A q \in Procs \ {p} : On(q, r) => pc[q] \in Loose
  BY <1>3 DEF On, JobSteps, Reserving, Holding, AtWork, Loose, Opening
<1>5. \A i \in DOMAIN queue : queue[i].rec # r
  BY <1>1 DEF OwnInv, ReservedOnce
<1>6. ~Attempting(r)
  <2>1. SUFFICES ASSUME Attempting(r) PROVE FALSE
    OBVIOUS
  <2>2. On(Worker, r) /\ Worker \in Procs /\ pc[Worker] \in AtWork
    BY <2>1 DEF Attempting, On, JobSteps, Procs, AtWork
  <2>3. p # Worker
    BY <2>2 DEF AtWork, Reserving
  <2>4. QED BY <1>3, <2>2, <2>3
<1>7. QED BY <1>2, <1>4, <1>5, <1>6

\* An attempt has the recording alone, but for retries, deletes and starts that wait.
LEMMA AttemptAlone ==
  ASSUME TypeInv, OwnInv, NEW r, On(Worker, r), pc[Worker] \in {"begin", "run"}
  PROVE  /\ \A q \in Procs \ {Worker} : On(q, r) => pc[q] \in Loose
         /\ \A i \in DOMAIN queue : queue[i].rec # r
         /\ Attempting(r) /\ r \notin held /\ Pending(r)
<1>0. Worker \in Procs /\ pc[Worker] \in AtWork
  BY DEF Procs, AtWork
<1>1. processing = job[Worker] /\ processing # None /\ processing.rec = r /\ Transcribes(processing)
  BY <1>0, AtWorkIsWorker DEF On, TypeInv, TypeProcs, Fits
<1>2. r \notin held
  BY <1>1 DEF OwnInv, HeldOnce, Working, Some
<1>3. \A j \in queued : j.rec # r
  BY <1>1 DEF OwnInv, WorkedOnce
<1>4. ASSUME NEW q \in Procs, q # Worker, On(q, r) PROVE pc[q] \notin Reserving \cup Holding \cup AtWork
  <2>1. pc[q] \notin Reserving
    BY <1>3, <1>4 DEF OwnInv, ReservedOnce, On
  <2>2. pc[q] \notin Holding
    BY <1>2, <1>4 DEF OwnInv, HeldOnce, On
  <2>3. QED BY <1>4, <2>1, <2>2, AtWorkIsWorker
<1>5. \A q \in Procs \ {Worker} : On(q, r) => pc[q] \in Loose
  BY <1>4 DEF On, JobSteps, Reserving, Holding, AtWork, Loose, Opening
<1>6. \A i \in DOMAIN queue : queue[i].rec # r
  BY <1>3 DEF OwnInv, ReservedOnce
<1>7. QED BY <1>0, <1>2, <1>5, <1>6, PendingBy DEF Attempting, On

\* So has a delete that holds it.
LEMMA DeleteAlone ==
  ASSUME TypeInv, OwnInv, NEW p \in Procs, NEW r, On(p, r), pc[p] = "delete", ~Pending(r)
  PROVE  /\ \A q \in Procs \ {p} : On(q, r) => pc[q] \in Loose
         /\ \A i \in DOMAIN queue : queue[i].rec # r
         /\ ~Attempting(r)
<1>1. \A q \in Procs \ {p} : On(q, r) => pc[q] \notin Holding
  BY DEF OwnInv, HeldOnce, On, Holding
<1>2. \A q \in Procs : On(q, r) => pc[q] \notin Reserving \cup AtWork
  BY PendingBy
<1>3. \A q \in Procs \ {p} : On(q, r) => pc[q] \in Loose
  BY <1>1, <1>2 DEF On, JobSteps, Reserving, Holding, AtWork, Loose, Opening
<1>4. ~Attempting(r)
  BY <1>2 DEF Attempting, On, JobSteps, Procs, AtWork
<1>5. QED BY <1>3, <1>4, PendingBy

\* The job the worker takes is its recording's only one.
LEMMA TakenAlone ==
  ASSUME TypeInv, OwnInv, NEW i \in DOMAIN queue, Transcribes(queue[i]),
         pc[Worker] = "idle", NEW r, r = queue[i].rec
  PROVE  /\ \A q \in Procs : On(q, r) => pc[q] \in Loose
         /\ ~Attempting(r) /\ r \notin held /\ Pending(r)
<1>1. queue[i] \in queued /\ Pending(r)
  BY PendingBy DEF OwnInv, ReservedOnce
<1>2. r \notin held
  BY <1>1 DEF OwnInv, HeldOnce, Working
<1>3. ASSUME NEW q \in Procs, On(q, r) PROVE pc[q] \notin Reserving \cup Holding \cup AtWork
  <2>1. pc[q] \notin Reserving
    BY <1>3 DEF OwnInv, ReservedOnce, On
  <2>2. pc[q] \notin Holding
    BY <1>2, <1>3 DEF OwnInv, HeldOnce, On
  <2>3. QED BY <1>3, <2>1, <2>2, AtWorkIsWorker DEF AtWork
<1>4. \A q \in Procs : On(q, r) => pc[q] \in Loose
  BY <1>3 DEF On, JobSteps, Reserving, Holding, AtWork, Loose, Opening
<1>5. QED BY <1>1, <1>2, <1>4 DEF Attempting
----------------------------------------------------------------------------
(* Steps that leave a recording's count and tracks alone.                   *)

\* A recording that is listed, pending or waiting is not its recorder's, nor is
\* one that is finished.
LEMMA NotGrowing ==
  ASSUME TypeInv, NEW r \in Recs, Stage(r)
  PROVE  /\ Listed(r) \/ Pending(r) \/ r \in waiting => ~Growing(r)
         /\ meta[r].status \notin {"claimed", "recording", "processing"} => ~Young(r)
         /\ meta[r].status \notin {"claimed", "recording", "processing", "failed"} => ~Growing(r)
         /\ \A p \in Procs : On(p, r) /\ pc[p] \notin Loose \cup {"delete"} => ~Growing(r)
<1>1. Listed(r) \/ Pending(r) \/ r \in waiting => ~Growing(r)
  BY DEF Stage, Apart
<1>2. ASSUME Young(r) PROVE meta[r].status \in {"claimed", "recording", "processing"}
  <2>1. CASE session = r \/ ending[r] # "no"
    BY <2>1 DEF Stage, Shape, TypeInv, TypeView
  <2>2. CASE \E t \in Tasks : On(t, r) /\ pc[t] \in Opening
    BY <2>2 DEF Stage, Sound, Opening, Procs
  <2>3. QED BY <1>2, <2>1, <2>2 DEF Young
<1>3. ASSUME Growing(r) PROVE meta[r].status \in {"claimed", "recording", "processing", "failed"}
  BY <1>2, <1>3 DEF Growing, Stage, Shape
<1>4. \A p \in Procs : On(p, r) /\ pc[p] \notin Loose \cup {"delete"} => ~Growing(r)
  BY DEF Stage, Sound, Loose
<1>5. QED BY <1>1, <1>2, <1>3, <1>4

\* A recording that is being opened is its recorder's.
LEMMA OpeningIsYoung ==
  ASSUME TypeInv, NEW r, NEW p \in Procs, On(p, r), pc[p] \in Opening
  PROVE  Young(r)
<1>1. p \in Tasks
  BY ProcSteps DEF TypeInv, TypeProcs, Procs, WorkerSteps, StartupSteps, TimerSteps, Opening
<1>2. QED BY <1>1 DEF Young

\* A step that counts nothing keeps the stage, if it reserves, lists and holds only
\* recordings that nobody records.
LEMMA QuietStage ==
  ASSUME TypeInv, TypeInv', NEW r \in Recs, Stage(r), NEW p \in Procs, Still(p),
         SameCount(meta'[r], meta[r]), ending'[r] = ending[r],
         tracks'[r] = tracks[r] \/ (~Growing(r) /\ tracks'[r] \notin {"live", "stuck"}),
         spent'[r] = spent[r], session' = r <=> session = r,
         pc[p] \notin Opening \cup {"begin", "run"},
         pc'[p] \notin Opening \cup {"begin", "run"},
         On(p, r)' /\ (Growing(r)' <=> Growing(r)) => Sound(p, r)',
         \/ Pending(r)' => Pending(r)
         \/ ~Growing(r) /\ \A q \in Procs : On(q, r) => pc[q] # "delete",
         Listed(r)' => Listed(r) \/ ~Growing(r),
         r \in waiting' => r \in waiting \/ ~Growing(r),
         r \in held' => r \in held \/ ~Young(r),
         Lined(r)'
  PROVE  Stage(r)'
<1>1. \A q \in Procs \ {p} : /\ On(q, r)' <=> On(q, r)
                             /\ pc'[q] = pc[q] /\ job'[q] = job[q] /\ seen'[q] = seen[q]
  BY DEF Still, On
<1>2. Young(r)' <=> Young(r)
  <2>1. \A t \in Tasks : (On(t, r) /\ pc[t] \in Opening)' <=> (On(t, r) /\ pc[t] \in Opening)
    BY <1>1 DEF Procs
  <2>2. QED BY <2>1 DEF Young
<1>3. Growing(r)' <=> Growing(r)
  BY <1>2 DEF Growing
<1>4. Attempting(r)' <=> Attempting(r)
  <2>1. Worker \in Procs
    BY DEF Procs
  <2>2. QED BY <1>1, <2>1 DEF Attempting
<1>5. Apart(r)'
  BY <1>2, <1>3 DEF Stage, Apart
<1>6. Shape(r)'
  BY <1>2 DEF Stage, Shape, SameCount, Growing, Young
<1>7. CountFits(r)'
  BY <1>4 DEF Stage, CountFits, SameCount, Tries
<1>8. ASSUME NEW q \in Procs, q # p, On(q, r)' PROVE Sound(q, r)'
  <2>1. On(q, r) /\ Sound(q, r)
    BY <1>1, <1>8 DEF Stage
  <2>2. pc'[q] = pc[q] /\ job'[q] = job[q] /\ seen'[q] = seen[q]
    BY <1>1, <1>8
  <2>3. pc[q] = "delete" => ~Pending(r)'
    BY <2>1 DEF Sound
  <2>4. pc[q] \in Opening => tracks'[r] = tracks[r]
    BY <2>1, OpeningIsYoung DEF Growing
  <2>5. QED BY <1>3, <2>1, <2>2, <2>3, <2>4 DEF Sound, SameCount, Transcribes, Opening, Growing
<1>9. QED BY <1>3, <1>5, <1>6, <1>7, <1>8 DEF Stage

\* No recording that may be reserved is being deleted.
LEMMA NotDeleting ==
  ASSUME OwnInv, NEW r, r \notin held
  PROVE  \A q \in Procs : On(q, r) => pc[q] # "delete"
BY DEF OwnInv, HeldOnce, Holding, On

\* The queue does not grow.
LEMMA LinedKept ==
  ASSUME NEW r \in Recs, Lined(r), SameCount(meta'[r], meta[r]),
         \A j \in Jobs : j.rec = r => (InQueue(j)' => InQueue(j))
  PROVE  Lined(r)'
<1>1. \A kind \in Kinds : InQueue(Job(r, kind))' => InQueue(Job(r, kind))
  BY JobType
<1>2. QED BY <1>1 DEF Lined, SameCount, Tries, Kinds

\* With the queue left alone, nothing comes into it.
LEMMA SameQueue ==
  ASSUME UNCHANGED queue
  PROVE  \A j \in Jobs : InQueue(j)' => InQueue(j)
BY DEF InQueue

\* The steps with a recording that count nothing.
QuietCarry(p) ==
  \/ RetryClaim(p) \/ RepairFails(p) \/ Send(p) \/ MarkRead(p) \/ MarkWrite(p) \/ MarkFails(p)
  \/ NameRead(p) \/ NameWrite(p) \/ DeleteHold(p)
  \/ p = Startup /\ ResumeClear
  \/ p = Worker /\ (SummaryHold \/ SummaryWrite \/ SummaryRefused \/ SummaryTimeout)

\* They leave the count, the tracks and the stop alone.
LEMMA QuietDisk ==
  ASSUME TypeInv, NEW p \in Procs, QuietCarry(p), NEW r \in Recs, r = job[p].rec, Stage(r)
  PROVE  /\ SameCount(meta'[r], meta[r]) /\ tracks'[r] = tracks[r] /\ ending'[r] = ending[r]
         /\ spent'[r] = spent[r] /\ session' = session
<1> TypeDisk
  BY DEF TypeInv
<1> USE DEF SameCount, TypeDisk, Keep, pastVars, Quiet, diskVars
<1>1. CASE RetryClaim(p) \/ RepairFails(p) \/ Send(p) \/ MarkRead(p) \/ MarkFails(p)
           \/ NameRead(p) \/ DeleteHold(p) \/ (p = Worker /\ (SummaryHold \/ SummaryTimeout))
  BY <1>1 DEF RetryClaim, RepairFails, Send, MarkRead, MarkFails, NameRead, DeleteHold,
              SummaryHold, SummaryTimeout
<1>2. CASE MarkWrite(p) \/ NameWrite(p)
  <2>1. seen[p] \in Meta /\ pc[p] \in {"markWrite", "nameWrite"}
    BY <1>2 DEF MarkWrite, NameWrite, TypeInv, TypeProcs, Fits
  <2>2. SameCount(meta[r], seen[p])
    BY <2>1 DEF Stage, Sound, On, JobSteps
  <2>3. CASE MarkWrite(p)
    <3>1. meta' = [meta EXCEPT ![r] = [seen[p] EXCEPT !.summary = job[p].kind]]
      BY <2>3 DEF MarkWrite
    <3>2. meta'[r] = [seen[p] EXCEPT !.summary = job[p].kind]
      BY <3>1
    <3>3. SameCount(meta'[r], seen[p])
      BY <2>1, <3>2 DEF Meta
    <3>4. QED BY <2>2, <2>3, <3>3 DEF MarkWrite
  <2>4. CASE NameWrite(p)
    <3>1. meta' = [meta EXCEPT ![r] = [seen[p] EXCEPT !.named = TRUE]]
      BY <2>4 DEF NameWrite
    <3>2. meta'[r] = [seen[p] EXCEPT !.named = TRUE]
      BY <3>1
    <3>3. SameCount(meta'[r], seen[p])
      BY <2>1, <3>2 DEF Meta
    <3>4. QED BY <2>2, <2>4, <3>3 DEF NameWrite
  <2>5. QED BY <1>2, <2>3, <2>4
<1>3. CASE \/ p = Startup /\ ResumeClear
           \/ p = Worker /\ (SummaryWrite \/ SummaryRefused)
  <2>1. meta' = [meta EXCEPT ![r].summary = "no"]
    BY <1>3 DEF ResumeClear, SummaryWrite, SummaryRefused
  <2>2. SameCount(meta'[r], meta[r])
    BY <2>1 DEF Meta
  <2>3. QED BY <1>3, <2>2 DEF ResumeClear, SummaryWrite, SummaryRefused
<1>4. QED BY <1>1, <1>2, <1>3 DEF QuietCarry

\* Where they go: to the next step of their operation, or home.
LEMMA QuietMoves ==
  ASSUME TypeInv, NEW p \in Procs, QuietCarry(p)
  PROVE  /\ pc[p] \notin Opening \cup {"begin", "run"}
         /\ \/ pc'[p] \notin JobSteps
            \/ pc[p] = "claim" /\ pc'[p] = "repair" /\ RetryClaim(p)
            \/ pc[p] = "markRead" /\ pc'[p] = "markWrite" /\ MarkRead(p)
            \/ pc[p] = "markWrite" /\ pc'[p] = "send" /\ job'[p] = job[p]
            \/ pc[p] = "nameRead" /\ pc'[p] = "nameWrite" /\ NameRead(p)
            \/ pc[p] = "deleteHold" /\ pc'[p] = "delete" /\ DeleteHold(p)
            \/ pc[p] = "make" /\ pc'[p] = "summary"
<1> TypeProcs
  BY DEF TypeInv
<1>1. pc[p] \notin Opening \cup {"begin", "run"}
  BY DEF Opening, QuietCarry, RetryClaim, RepairFails, Send, MarkRead, MarkWrite, MarkFails, NameRead, NameWrite,
     DeleteHold, ResumeClear, SummaryHold, SummaryWrite, SummaryRefused, SummaryTimeout
<1>2. CASE \/ RepairFails(p) \/ Send(p) \/ MarkFails(p) \/ NameWrite(p)
           \/ p = Startup /\ ResumeClear
           \/ p = Worker /\ (SummaryWrite \/ SummaryRefused \/ SummaryTimeout)
  <2>1. Return(p)
    BY <1>2 DEF RepairFails, Send, MarkFails, NameWrite, ResumeClear, SummaryWrite,
                SummaryRefused, SummaryTimeout
  <2>2. QED BY <1>1, <2>1, ReturnStill
<1>3. CASE RetryClaim(p)
  BY <1>1, <1>3, GotoStill, ReturnStill DEF RetryClaim
<1>4. CASE DeleteHold(p)
  BY <1>1, <1>4, GotoStill, ReturnStill DEF DeleteHold
<1>5. CASE MarkWrite(p) \/ (p = Worker /\ SummaryHold)
  BY <1>1, <1>5, GotoStill DEF MarkWrite, SummaryHold
<1>6. CASE MarkRead(p) \/ NameRead(p)
  <2>1. PICK m : m = meta[job[p].rec]
    OBVIOUS
  <2>2. CASE MarkRead(p)
    BY <1>1, <2>1, <2>2, SeeStill DEF MarkRead
  <2>3. CASE NameRead(p)
    <3>1. /\ pc[p] = "nameRead" /\ Goto(p, "nameWrite") /\ UNCHANGED job
          /\ seen' = [seen EXCEPT ![p] = m]
      BY <2>1, <2>3 DEF NameRead
    <3>2. pc'[p] = "nameWrite"
      BY <3>1, SeeStill
    <3>3. QED BY <1>1, <2>3, <3>1, <3>2
  <2>4. QED BY <1>6, <2>2, <2>3
<1>7. QED BY <1>2, <1>3, <1>4, <1>5, <1>6 DEF QuietCarry

\* What a claimed or reserved recording needs: nobody is writing its tracks.
LEMMA ClaimedIsSettled ==
  ASSUME Patient, TypeInv, LockInv, NEW p \in Procs, RetryClaim(p), NEW r \in Recs, r = job[p].rec,
         pc'[p] = "repair"
  PROVE  ~Growing(r) /\ r \notin held
<1> TypeProcs
  BY DEF TypeInv
<1>1. session # r /\ Reservable(r)
  <2>1. CASE ~(session # job[p].rec /\ Reservable(job[p].rec))
    <3>1. Return(p)
      BY <2>1 DEF RetryClaim
    <3>2. QED BY <3>1, ReturnStill DEF JobSteps
  <2>2. QED BY <2>1
<1>2. Untouched(r) /\ lock = None
  BY <1>1 DEF RetryClaim
<1>3. \A t \in Tasks : pc[t] \notin Opening
  BY <1>2, NoneAssumption DEF LockInv, Starting
<1>4. QED BY <1>1, <1>2, <1>3 DEF Untouched, Growing, Young, Reservable

\* A delete holds a recording only while it is not pending.
LEMMA DeletableIsFree ==
  ASSUME TypeInv, NEW p \in Procs, DeleteHold(p), NEW r \in Recs, r = job[p].rec,
         pc'[p] = "delete"
  PROVE  ~Pending(r)' /\ ~Pending(r) /\ held' = held \cup {r}
<1> TypeProcs
  BY DEF TypeInv
<1>1. CASE ~(session # job[p].rec /\ Deletable(job[p].rec))
  <2>1. Return(p)
    BY <1>1 DEF DeleteHold
  <2>2. QED BY <2>1, ReturnStill DEF JobSteps
<1>2. CASE session # job[p].rec /\ Deletable(job[p].rec)
  BY <1>2 DEF DeleteHold, Deletable, Pending, Working
<1>3. QED BY <1>1, <1>2

\* What each of them finds is still so at its next step.
LEMMA QuietSound ==
  ASSUME Patient, TypeInv, LockInv, NEW p \in Procs, QuietCarry(p), NEW r \in Recs, r = job[p].rec,
         Stage(r), On(p, r)', Growing(r)' <=> Growing(r)
  PROVE  Sound(p, r)'
<1>1. On(p, r) /\ Sound(p, r)
  BY CarriesOn DEF On, Stage, Carries, QuietCarry
<1>2. pc'[p] \in JobSteps
  BY DEF On
<1> SameCount(meta'[r], meta[r]) /\ tracks'[r] = tracks[r]
  BY QuietDisk
<1> USE DEF Loose, Opening
<1>3. CASE pc'[p] = "repair" /\ RetryClaim(p)
  <2>1. pc[p] = "claim" /\ job'[p] = job[p]
    <3>1. Goto(p, "repair") /\ UNCHANGED <<job, seen>>
      <4>1. ~Return(p)
        BY <1>3, ReturnStill DEF TypeInv, JobSteps
      <4>2. QED BY <1>3, <4>1 DEF RetryClaim
    <3>2. QED BY <1>3, <3>1 DEF RetryClaim
  <2>2. QED BY <1>1, <1>3, <2>1, ClaimedIsSettled DEF Sound
<1>4. CASE pc'[p] \in {"markWrite", "nameWrite"} /\ Reads(p)
  <2>1. seen'[p] = meta'[r]
    BY <1>4, ReadsSeen
  <2>2. ~Growing(r)
    BY <1>1, <1>4, NotGrowing DEF Reads, MarkRead, NameRead, WorkerBegin
  <2>3. QED BY <1>4, <2>1, <2>2 DEF Sound, SameCount
<1>5. CASE pc[p] = "markWrite" /\ pc'[p] = "send" /\ job'[p] = job[p]
  <2>1. ~Transcribes(job[p])
    BY <1>5 DEF TypeInv, TypeProcs, Fits
  <2>2. ~Growing(r)
    BY <1>1, <1>5, NotGrowing
  <2>3. QED BY <1>5, <2>1, <2>2 DEF Sound, Transcribes
<1>6. CASE pc[p] = "deleteHold" /\ pc'[p] = "delete" /\ DeleteHold(p)
  <2>1. ~Pending(r)'
    BY <1>6, DeletableIsFree
  <2>2. QED BY <1>1, <1>6, <2>1 DEF Sound, SameCount
<1>7. CASE pc[p] = "make" /\ pc'[p] = "summary"
  <2>1. ~Growing(r)
    BY <1>1, <1>7, NotGrowing
  <2>2. QED BY <1>7, <2>1 DEF Sound
<1>8. QED BY <1>2, <1>3, <1>4, <1>5, <1>6, <1>7, QuietMoves DEF Reads

\* None of them reserves, lists or holds a recording of its recorder's.
LEMMA QuietView ==
  ASSUME Patient, TypeInv, OwnInv, LockInv, NEW p \in Procs, QuietCarry(p),
         NEW r \in Recs, r = job[p].rec, Stage(r)
  PROVE  /\ \/ Pending(r)' => Pending(r)
            \/ ~Growing(r) /\ r \notin held
         /\ Listed(r)' => Listed(r)
         /\ r \in waiting' => r \in waiting
         /\ r \in held' => r \in held \/ ~Young(r)
<1>0. On(p, r) /\ TypeProcs /\ job[p] \in Jobs
  BY CarriesOn DEF On, QuietCarry, Carries, TypeInv
<1>1. Listed(r)' => Listed(r)
  BY CarriesTodo DEF Listed, QuietCarry, Carries
<1>2. r \in waiting' => r \in waiting
  BY DEF QuietCarry, RetryClaim, RepairFails, Send, Dispatch, MarkRead, MarkWrite, MarkFails, NameRead, NameWrite,
     DeleteHold, ResumeClear, SummaryHold, SummaryWrite, SummaryRefused, SummaryTimeout, viewVars
<1>3. \/ Pending(r)' => Pending(r)
      \/ ~Growing(r) /\ r \notin held
  <2>1. CASE RetryClaim(p)
    <3>1. CASE pc'[p] = "repair"
      BY <2>1, <3>1, ClaimedIsSettled
    <3>2. CASE pc'[p] # "repair"
      <4>1. UNCHANGED <<queued, processing>>
        BY <1>0, <2>1, <3>2, GotoStill DEF RetryClaim
      <4>2. QED BY <4>1 DEF Pending, Working
    <3>3. QED BY <3>1, <3>2
  <2>2. CASE ~RetryClaim(p)
    <3>1. queued' \subseteq queued /\ (processing' = processing \/ processing' = None)
      BY <2>2 DEF QuietCarry, RepairFails, Send, Dispatch, Unreserve, MarkRead, MarkWrite, MarkFails, NameRead,
         NameWrite, DeleteHold, ResumeClear, SummaryHold, SummaryWrite, SummaryRefused,
         SummaryTimeout, viewVars
    <3>2. QED BY <3>1 DEF Pending, Working, Some
  <2>3. QED BY <2>1, <2>2
<1>4. r \in held' => r \in held \/ ~Young(r)
  <2>1. CASE DeleteHold(p)
    <3>1. pc[p] = "deleteHold" /\ Sound(p, r)
      BY <1>0, <2>1 DEF DeleteHold, Stage
    <3>2. ~Young(r)
      BY <3>1 DEF Sound, Growing, Stage, Shape, Opening
    <3>3. QED BY <3>2
  <2>2. CASE p = Worker /\ SummaryHold
    BY <1>0, <2>2, NotGrowing DEF SummaryHold, Growing, Loose, Opening
  <2>3. CASE ~(DeleteHold(p) \/ (p = Worker /\ SummaryHold))
    BY <2>3 DEF QuietCarry, RetryClaim, RepairFails, Send, MarkRead, MarkWrite, MarkFails, NameRead, NameWrite,
       ResumeClear, SummaryWrite, SummaryRefused, SummaryTimeout, viewVars
  <2>4. QED BY <2>1, <2>2, <2>3
<1>5. QED BY <1>1, <1>2, <1>3, <1>4

\* A job is sent with a header that its attempt will find due.
LEMMA QuietLined ==
  ASSUME TypeInv, NEW p \in Procs, QuietCarry(p), NEW r \in Recs, r = job[p].rec, Stage(r)
  PROVE  Lined(r)'
<1>0. On(p, r) /\ job[p] \in Jobs /\ SameCount(meta'[r], meta[r]) /\ Lined(r)
  BY CarriesOn, QuietDisk DEF On, QuietCarry, Carries, Stage
<1>1. CASE Send(p)
  <2>1. UNCHANGED queue \/ queue' = Append(queue, job[p])
    BY <1>1 DEF Send, Dispatch
  <2>2. ASSUME queue' = Append(queue, job[p]) PROVE Lined(r)'
    <3>1. \A j \in Jobs : InQueue(j)' <=> InQueue(j) \/ j = job[p]
      BY <1>0, <2>2, AppendQueue
    <3>2. pc[p] = "send" /\ Sound(p, r)
      BY <1>0, <1>1 DEF Send, Stage
    <3>3. /\ Job(r, "transcribe") \in Jobs /\ Job(r, "network") \in Jobs
          /\ Job(r, "transcribe").kind = "transcribe" /\ Job(r, "network").kind = "network"
      BY DEF Job, Jobs, Kinds
    <3>4. QED BY <1>0, <3>1, <3>2, <3>3 DEF Sound, Lined, SameCount, Tries, Transcribes
  <2>3. QED BY <1>0, <2>1, <2>2, SameQueue, LinedKept
<1>2. CASE ~Send(p)
  <2>1. UNCHANGED queue
    BY <1>2 DEF QuietCarry, RetryClaim, RepairFails, MarkRead, MarkWrite, MarkFails, NameRead, NameWrite,
       DeleteHold, ResumeClear, SummaryHold, SummaryWrite, SummaryRefused, SummaryTimeout
  <2>2. QED BY <1>0, <2>1, SameQueue, LinedKept
<1>3. QED BY <1>1, <1>2

\* So they keep the stage.
LEMMA QuietCarries ==
  ASSUME Patient, TypeInv, TypeInv', OwnInv, LockInv, NEW p \in Procs, QuietCarry(p),
         NEW r \in Recs, r = job[p].rec, Stage(r)
  PROVE  Stage(r)'
<1>1. Still(p)
  BY CarriesProcs DEF QuietCarry, Carries
<1>2. pc[p] \notin Opening \cup {"begin", "run"} /\ pc'[p] \notin Opening \cup {"begin", "run"}
  BY QuietMoves DEF Opening, JobSteps
<1>3. \/ Pending(r)' => Pending(r)
      \/ ~Growing(r) /\ \A q \in Procs : On(q, r) => pc[q] # "delete"
  BY QuietView, NotDeleting
<1>4. On(p, r)' /\ (Growing(r)' <=> Growing(r)) => Sound(p, r)'
  BY QuietSound
<1>5. /\ SameCount(meta'[r], meta[r]) /\ ending'[r] = ending[r]
      /\ tracks'[r] = tracks[r] \/ (~Growing(r) /\ tracks'[r] \notin {"live", "stuck"})
      /\ spent'[r] = spent[r] /\ (session' = r <=> session = r)
  BY QuietDisk
<1>6. Lined(r)'
  BY QuietLined
<1>7. /\ Listed(r)' => Listed(r) \/ ~Growing(r)
      /\ r \in waiting' => r \in waiting \/ ~Growing(r)
      /\ r \in held' => r \in held \/ ~Young(r)
  BY QuietView
<1>8. QED BY <1>1, <1>2, <1>3, <1>4, <1>5, <1>6, <1>7, QuietStage

\* What a process that takes up a recording found.
LEMMA TakesUpFinds ==
  ASSUME TypeInv, NEW p \in Procs, NEW r \in Recs, TakesUp(p, r), ~StartCreate(p, r), Stage(r)
  PROVE  /\ UNCHANGED <<meta, tracks, ending, spent, session>>
         /\ \/ Retry(p, r)
            \/ Delete(p, r) /\ ~Young(r) /\ meta[r].status \notin {"none", "claimed", "recording"}
            \/ ~Growing(r)
<1>1. UNCHANGED <<meta, tracks, ending, spent, session>>
  BY DEF TakesUp, Retry, Summarize, Name, Delete, SweepHold, ScanGone, Quiet, diskVars, Keep, pastVars,
         ScanNotYet, ScanDue, ScanGiveUp, Scanning, RecoverOne, ResumeOff, ResumeOne
<1>2. CASE Delete(p, r)
  BY <1>1, <1>2, NotGrowing DEF Delete
<1>3. CASE Summarize(p, r) \/ Name(p, r)
  BY <1>1, <1>3, NotGrowing DEF Summarize, Name
<1>4. CASE ~(Retry(p, r) \/ Delete(p, r) \/ Summarize(p, r) \/ Name(p, r))
  <2>1. \A kind \in Kinds : Job(r, kind) \in Jobs /\ Job(r, kind).rec = r
    BY JobType
  <2>2. Listed(r)
    BY <1>4, <2>1 DEF TakesUp, SweepHold, ScanGone, ScanNotYet, ScanDue, ScanGiveUp, Scanning,
       RecoverOne, ResumeOff, ResumeOne, Listed, Kinds
  <2>3. QED BY <1>1, <2>2, NotGrowing
<1>5. QED BY <1>1, <1>2, <1>3, <1>4

\* Where taking up a recording goes.
LEMMA TakesUpMoves ==
  ASSUME TypeInv, NEW p \in Procs, NEW r \in Recs, TakesUp(p, r), ~StartCreate(p, r)
  PROVE  /\ pc[p] \notin JobSteps
         /\ \/ pc'[p] \notin JobSteps
            \/ pc'[p] = "claim" /\ Retry(p, r) /\ job'[p].kind = "transcribe"
            \/ pc'[p] = "deleteHold" /\ Delete(p, r)
            \/ pc'[p] = "giveUp" /\ ScanGiveUp(p, r)
            \/ /\ pc'[p] \in {"markRead", "nameRead", "swept", "repair", "clear"}
               /\ ~Retry(p, r) /\ ~Delete(p, r)
               /\ pc'[p] = "repair" => job'[p].kind = "transcribe"
<1> TypeProcs
  BY DEF TypeInv
<1>0. pc[p] \notin JobSteps
  BY TakesUpProcs
<1>1. CASE Retry(p, r)
  <2>1. Job(r, "transcribe").kind = "transcribe"
    BY DEF Job
  <2>2. QED BY <1>0, <1>1, <2>1, GoStill DEF Retry
<1>2. CASE Delete(p, r)
  BY <1>0, <1>2, GoStill DEF Delete
<1>3. CASE ScanGiveUp(p, r)
  BY <1>0, <1>3, GoStill DEF ScanGiveUp
<1>4. ASSUME ~Retry(p, r), ~Delete(p, r), ~ScanGiveUp(p, r)
      PROVE  \/ pc'[p] = pc[p]
             \/ /\ pc'[p] \in {"markRead", "nameRead", "swept", "repair", "clear"}
                /\ pc'[p] = "repair" => job'[p].kind = "transcribe"
  <2>0. Job(r, "transcribe").kind = "transcribe"
    BY DEF Job
  <2>1. \/ UNCHANGED pc
        \/ \E j, step : /\ Go(p, step, j)
                        /\ step \in {"markRead", "nameRead", "swept", "repair", "clear"}
                        /\ step = "repair" => j.kind = "transcribe"
    BY <1>4, <2>0 DEF TakesUp, Summarize, Name, SweepHold, ScanGone, ScanNotYet, ScanDue,
          RecoverOne, ResumeOff, ResumeOne
  <2>2. QED BY <2>1, GoStill
<1>5. QED BY <1>0, <1>1, <1>2, <1>3, <1>4

\* What it shows in the view is of a recording that nobody records.
LEMMA TakesUpShows ==
  ASSUME TypeInv, OwnInv, NEW p \in Procs, NEW r \in Recs, TakesUp(p, r), ~StartCreate(p, r), Stage(r)
  PROVE  /\ \/ Pending(r)' => Pending(r)
            \/ ~Growing(r) /\ r \notin held
         /\ Listed(r)' => Listed(r)
         /\ r \in waiting' => r \in waiting \/ ~Growing(r)
         /\ r \in held' => r \in held \/ ~Young(r)
         /\ Lined(r)'
<1>1. Listed(r)' => Listed(r)
  <2>1. \A q \in Procs : todo'[q] \subseteq todo[q]
    BY TakesUpTodo DEF TypeInv, TypeTodo
  <2>2. QED BY <2>1 DEF Listed
<1>2. CASE Retry(p, r) \/ Delete(p, r)
  <2>1. UNCHANGED <<queued, processing, waiting, held, queue, meta>>
    BY <1>2 DEF Retry, Delete, viewVars, diskVars
  <2>2. QED BY <1>1, <2>1 DEF Pending, Working, Lined, Stage, InQueue
<1>3. ASSUME ~Retry(p, r), ~Delete(p, r)
      PROVE  /\ \/ Pending(r)' => Pending(r)
                \/ r \notin held
             /\ Lined(r)'
  <2>1. CASE ScanDue(p, r)
    <3>1. CASE Reservable(r)
      <4>1. /\ Job(r, "transcribe") \in Jobs /\ Job(r, "network") \in Jobs
            /\ Job(r, "transcribe").kind = "transcribe" /\ Job(r, "network").kind = "network"
        BY DEF Job, Jobs, Kinds
      <4>2. UNCHANGED queue \/ queue' = Append(queue, Job(r, "network"))
        BY <2>1 DEF ScanDue, Enqueue
      <4>3. InQueue(Job(r, "transcribe"))' => InQueue(Job(r, "transcribe"))
        BY <4>1, <4>2, AppendQueue DEF InQueue
      <4>4. Lined(r) /\ UNCHANGED meta /\ meta[r].status = "waiting" /\ MayRetry(r) /\ meta[r].tries # None
            /\ meta[r] \in Meta
        BY <2>1, TakesUpFinds DEF ScanDue, Stage, Shape, TypeInv, TypeDisk
      <4>5. Tries(meta[r]) < NetworkMax
        BY <4>4, LimitsAssumption DEF MayRetry, OutOfTries, Tries, Meta, Opt
      <4>6. QED BY <3>1, <4>3, <4>4, <4>5 DEF Lined, Tries, Reservable
    <3>2. CASE ~Reservable(r)
      <4>1. UNCHANGED <<queued, queue, processing, meta>> 
        BY <2>1, <3>2, JobType DEF ScanDue, Enqueue, Scanning, diskVars, Kinds
      <4>2. QED BY <4>1 DEF Pending, Working, Lined, Stage, InQueue
    <3>3. QED BY <3>1, <3>2
  <2>2. CASE ~ScanDue(p, r)
    <3>1. UNCHANGED <<queue, meta, processing>>
      BY <1>3, <2>2 DEF TakesUp, Summarize, Name, SweepHold, ScanGone, ScanNotYet,
         ScanGiveUp, Scanning, RecoverOne, ResumeOff, ResumeOne, diskVars
    <3>2. UNCHANGED queued \/ r \notin held
      BY <1>3, <2>2 DEF TakesUp, Summarize, Name, SweepHold, ScanGone, ScanNotYet,
         ScanGiveUp, Scanning, RecoverOne, ResumeOff, ResumeOne, diskVars, Reservable
    <3>3. QED BY <3>1, <3>2 DEF Pending, Working, Lined, Stage, InQueue
  <2>3. QED BY <2>1, <2>2
<1>4. QED BY <1>1, <1>2, <1>3, TakesUpFinds DEF Growing

\* So it keeps the stage.
LEMMA QuietTakes ==
  ASSUME TypeInv, TypeInv', OwnInv, NEW p \in Procs, NEW r \in Recs, TakesUp(p, r),
         ~StartCreate(p, r), Stage(r)
  PROVE  Stage(r)'
<1>1. Still(p)
  BY TakesUpProcs
<1>2. pc[p] \notin Opening \cup {"begin", "run"} /\ pc'[p] \notin Opening \cup {"begin", "run"}
  BY TakesUpMoves DEF Opening, JobSteps
<1>3. \/ Pending(r)' => Pending(r)
      \/ ~Growing(r) /\ \A q \in Procs : On(q, r) => pc[q] # "delete"
  BY TakesUpShows, NotDeleting
<1>4. SameCount(meta'[r], meta[r]) /\ UNCHANGED <<meta, tracks, ending, spent, session>>
  BY TakesUpFinds DEF SameCount
<1>5. ASSUME On(p, r)', Growing(r)' <=> Growing(r) PROVE Sound(p, r)'
  <2>0. pc'[p] \in JobSteps
    BY <1>5 DEF On
  <2>1. CASE pc'[p] = "claim" /\ Retry(p, r) /\ job'[p].kind = "transcribe"
    BY <2>1 DEF Sound, Opening
  <2>2. CASE pc'[p] = "deleteHold" /\ Delete(p, r)
    <3>1. ~Young(r) /\ meta[r].status \notin {"none", "claimed", "recording"}
      BY <2>2, NotGrowing DEF Delete
    <3>2. Growing(r) => tracks[r] = "stuck"
      BY <3>1 DEF Growing, Stage, Shape
    <3>3. QED BY <1>4, <1>5, <2>2, <3>1, <3>2 DEF Sound
  <2>3. CASE pc'[p] = "giveUp" /\ ScanGiveUp(p, r)
    <3>1. meta[r].status = "waiting"
      BY <2>3 DEF ScanGiveUp
    <3>2. ~Growing(r)
      BY <3>1, NotGrowing
    <3>3. QED BY <1>4, <1>5, <2>3, <3>1, <3>2 DEF Sound
  <2>4. CASE /\ pc'[p] \in {"markRead", "nameRead", "swept", "repair", "clear"}
             /\ ~Retry(p, r) /\ ~Delete(p, r)
             /\ pc'[p] = "repair" => job'[p].kind = "transcribe"
    <3>1. ~Growing(r)
      BY <2>4, TakesUpFinds
    <3>2. QED BY <1>5, <2>4, <3>1 DEF Sound
  <2>5. QED BY <2>0, <2>1, <2>2, <2>3, <2>4, TakesUpMoves
<1>6. /\ SameCount(meta'[r], meta[r]) /\ ending'[r] = ending[r]
      /\ tracks'[r] = tracks[r] \/ (~Growing(r) /\ tracks'[r] \notin {"live", "stuck"})
      /\ spent'[r] = spent[r] /\ (session' = r <=> session = r)
  BY <1>4
<1>7. /\ Listed(r)' => Listed(r) \/ ~Growing(r)
      /\ r \in waiting' => r \in waiting \/ ~Growing(r)
      /\ r \in held' => r \in held \/ ~Young(r)
      /\ Lined(r)'
  BY TakesUpShows
<1>8. QED BY <1>1, <1>2, <1>3, <1>5, <1>6, <1>7, QuietStage
----------------------------------------------------------------------------
(* Steps that change a recording's status or count: nobody else has it.     *)

\* A step of the one process that rewrites a recording keeps its stage.
LEMMA AloneStage ==
  ASSUME TypeInv, TypeInv', NEW r \in Recs, Stage(r), NEW p \in Procs, Still(p),
         ~Young(r), tracks'[r] \notin {"live", "stuck"}, ending'[r] = ending[r],
         session' = r <=> session = r,
         \A q \in Procs \ {p} : On(q, r) => pc[q] \in Loose,
         pc'[p] \notin Opening,
         On(p, r)' /\ ~Growing(r)' => Sound(p, r)',
         meta'[r].status \notin {"none", "claimed", "recording"},
         meta'[r].status = "waiting" => meta'[r].tries # None,
         CountFits(r)', Lined(r)'
  PROVE  Stage(r)'
<1>1. \A q \in Procs \ {p} : /\ On(q, r)' <=> On(q, r)
                             /\ pc'[q] = pc[q] /\ job'[q] = job[q] /\ seen'[q] = seen[q]
  BY DEF Still, On
<1>2. \A q \in Procs : ~(On(q, r)' /\ pc'[q] \in Opening)
  BY <1>1, OpeningIsYoung
<1>3. ~Young(r)' /\ ~Growing(r)'
  BY <1>2 DEF Young, Growing, Procs
<1>4. Apart(r)'
  BY <1>3 DEF Apart
<1>5. Shape(r)'
  BY <1>3 DEF Shape, Growing, Young
<1>6. ASSUME NEW q \in Procs, q # p, On(q, r)' PROVE Sound(q, r)'
  <2>1. pc'[q] \in {"claim", "deleteHold"}
    BY <1>1, <1>2, <1>6 DEF Loose
  <2>2. pc'[q] = "claim" => job'[q].kind = "transcribe"
    BY <1>1, <1>6 DEF Stage, Sound
  <2>3. QED BY <1>3, <2>1, <2>2 DEF Sound, Opening
<1>7. QED BY <1>3, <1>4, <1>5, <1>6 DEF Stage

\* A sweep fails a recording that is being recorded by nobody.
LEMMA SweepStage ==
  ASSUME TypeInv, TypeInv', OwnInv, NEW p \in Procs, SweepWrite(p), NEW r \in Recs, r = job[p].rec,
         Stage(r)
  PROVE  Stage(r)'
<1>1. On(p, r) /\ Still(p) /\ TypeProcs /\ TypeDisk
  BY CarriesOn, CarriesProcs DEF Carries, On, TypeInv
<1>2. pc[p] = "swept" /\ pc'[p] = "sweeping"
  BY <1>1, DropStill DEF SweepWrite
<1>3. ~Growing(r)
  BY <1>1, <1>2, NotGrowing DEF Loose, Opening
<1>4. tracks'[r] \notin {"live", "stuck"}
  BY <1>1, <1>3 DEF SweepWrite, Growing, TypeDisk
<1>5. /\ UNCHANGED <<meta, ending, spent, session, processing, queued, waiting, queue, todo>>
      /\ held' \subseteq held
  BY DEF SweepWrite, Quiet, Keep, pastVars
<1>6. Lined(r)'
  BY <1>5 DEF Stage, Lined, InQueue
<1>7. Pending(r)' => Pending(r)
  BY <1>5 DEF Pending, Working
<1>8. ~On(p, r)'
  BY <1>2 DEF On, JobSteps
<1>9. Listed(r)' => Listed(r)
  BY <1>5 DEF Listed
<1>10. SameCount(meta'[r], meta[r])
  BY <1>5 DEF SameCount
<1>11. pc[p] \notin Opening \cup {"begin", "run"} /\ pc'[p] \notin Opening \cup {"begin", "run"}
  BY <1>2 DEF Opening
<1>12. tracks'[r] = tracks[r] \/ (~Growing(r) /\ tracks'[r] \notin {"live", "stuck"})
  BY <1>3, <1>4
<1>13. /\ Listed(r)' => Listed(r) \/ ~Growing(r)
       /\ r \in waiting' => r \in waiting \/ ~Growing(r)
       /\ r \in held' => r \in held \/ ~Young(r)
       /\ ending'[r] = ending[r] /\ spent'[r] = spent[r] /\ (session' = r <=> session = r)
  BY <1>5, <1>9
<1>14. QED BY <1>1, <1>6, <1>7, <1>8, <1>10, <1>11, <1>12, <1>13, QuietStage

\* A recording with nothing in the queue has nothing to say about it.
LEMMA Unlined ==
  ASSUME NEW r \in Recs, UNCHANGED queue, \A i \in DOMAIN queue : queue[i].rec # r
  PROVE  Lined(r)'
<1>1. Job(r, "transcribe").rec = r /\ Job(r, "network").rec = r
  BY DEF Job
<1>2. QED BY <1>1 DEF Lined, InQueue

\* The counts are natural numbers.
LEMMA Arithmetic ==
  ASSUME TypeInv, NEW r \in Recs
  PROVE  /\ meta[r] \in Meta /\ meta[r].attempts \in Nat /\ Tries(meta[r]) \in Nat
         /\ meta[r].tries # None => meta[r].tries \in Nat /\ Tries(meta[r]) = meta[r].tries
         /\ spent[r] \in Nat /\ MaxAttempts \in Nat /\ NetworkMax \in Nat /\ MaxAttempts > 0
BY LimitsAssumption DEF TypeInv, TypeDisk, Meta, Tries, Opt

\* A repair reserves the recording: nobody else has it, and it is not being recorded.
LEMMA ReservedStage ==
  ASSUME TypeInv, TypeInv', OwnInv, NEW p \in Procs, NEW r \in Recs, On(p, r), Stage(r), Still(p),
         pc[p] \in Reserving, Transcribes(job[p]), pc'[p] \notin Opening \cup {"begin", "run"},
         UNCHANGED <<tracks, ending, session, queue>>,
         On(p, r)' /\ ~Growing(r)' => Sound(p, r)',
         meta'[r].status \notin {"none", "claimed", "recording"},
         meta'[r].status = "waiting" => meta'[r].tries # None,
         /\ meta'[r].status \notin {"done", "gone"} =>
              meta'[r].attempts + Tries(meta'[r]) = spent'[r]
         /\ meta'[r].attempts <= MaxAttempts /\ Tries(meta'[r]) <= NetworkMax
         /\ spent'[r] <= MaxAttempts + NetworkMax
  PROVE  Stage(r)'
<1>1. /\ \A q \in Procs \ {p} : On(q, r) => pc[q] \in Loose
      /\ \A i \in DOMAIN queue : queue[i].rec # r
      /\ ~Attempting(r)
  BY ReservedAlone
<1>2. ~Growing(r)
  BY NotGrowing DEF Loose, Opening, Reserving
<1>3. ~Attempting(r)'
  <2>1. CASE p = Worker
    BY <2>1 DEF Attempting
  <2>2. CASE p # Worker
    BY <1>1, <2>2 DEF Attempting, Still, Procs
  <2>3. QED BY <2>1, <2>2
<1>4. spent'[r] + 0 = spent'[r]
  BY Arithmetic DEF TypeInv, TypeDisk
<1>5. CountFits(r)'
  BY <1>3, <1>4 DEF CountFits
<1>6. Lined(r)'
  BY <1>1, Unlined
<1>7. ~Young(r) /\ tracks'[r] \notin {"live", "stuck"} /\ pc'[p] \notin Opening
  BY <1>2 DEF Growing
<1>8. ending'[r] = ending[r] /\ (session' = r <=> session = r)
  OBVIOUS
<1>9. QED BY <1>1, <1>5, <1>6, <1>7, <1>8, AloneStage

\* A retry starts the count again.
LEMMA RetryStage ==
  ASSUME TypeInv, TypeInv', OwnInv, NEW p \in Procs, RetryRepair(p), NEW r \in Recs, r = job[p].rec,
         Stage(r)
  PROVE  Stage(r)'
<1>1. On(p, r) /\ Still(p) /\ TypeProcs /\ TypeDisk /\ job[p] \in Jobs
  BY CarriesOn, CarriesProcs DEF Carries, On, TypeInv
<1>2. pc[p] = "repair" /\ pc'[p] = "send" /\ job'[p] = job[p] /\ Transcribes(job[p])
  BY <1>1, GotoStill DEF RetryRepair, TypeProcs, Fits
<1>3. /\ meta'[r].status = "processing" /\ meta'[r].attempts = 0 /\ meta'[r].tries = None
      /\ spent'[r] = 0
  BY <1>1 DEF RetryRepair, Meta, TypeDisk
<1>4. ASSUME ~Growing(r)' PROVE Sound(p, r)'
  <2>1. 0 < MaxAttempts
    BY LimitsAssumption
  <2>2. job[p].kind = "transcribe"
    BY <1>1, <1>2 DEF Stage, Sound
  <2>3. QED BY <1>2, <1>3, <1>4, <2>1, <2>2 DEF Sound, Opening
<1>5. Tries(meta'[r]) = 0 /\ 0 <= MaxAttempts /\ 0 <= NetworkMax /\ 0 <= MaxAttempts + NetworkMax /\ 0 + 0 = 0
  BY <1>3, LimitsAssumption DEF Tries
<1>6. UNCHANGED <<tracks, ending, session, queue>>
  BY DEF RetryRepair, Quiet
<1>7. QED BY <1>1, <1>2, <1>3, <1>4, <1>5, <1>6, ReservedStage DEF Reserving, Opening

\* A recovery carries the count over, and fails what has reached its limit.
LEMMA RecoverStage ==
  ASSUME TypeInv, TypeInv', OwnInv, RecoverRepair, NEW r \in Recs, r = job[Startup].rec, Stage(r)
  PROVE  Stage(r)'
<1>0. Startup \in Procs /\ pc[Startup] = "repair"
  BY DEF Procs, RecoverRepair
<1>1. On(Startup, r) /\ Still(Startup) /\ TypeProcs /\ TypeDisk /\ job[Startup] \in Jobs /\ Transcribes(job[Startup])
  BY <1>0, CarriesOn, CarriesProcs DEF Carries, On, TypeInv, TypeProcs, Fits
<1>2. Sound(Startup, r) /\ job[Startup].kind = "transcribe"
  BY <1>0, <1>1 DEF Stage, Sound
<1>3. meta' = [meta EXCEPT ![r] = IF Interrupted(r) THEN Recovered(@) ELSE @]
  BY DEF RecoverRepair
<1>4. UNCHANGED <<tracks, ending, session, queue, spent>>
  BY DEF RecoverRepair, Quiet, Keep, pastVars
<1>5. \/ /\ pc'[Startup] = "send" /\ job'[Startup] = job[Startup] /\ meta'[r].status = "processing"
         /\ UNCHANGED <<queued, job, seen, todo>>
      \/ /\ pc'[Startup] \notin JobSteps /\ Unreserve(r) /\ UNCHANGED todo
         /\ meta'[r].status # "processing"
  <2>1. CASE meta'[r].status = "processing"
    <3>1. Goto(Startup, "send") /\ UNCHANGED <<queued, job, seen, todo>>
      <4>1. \A x \in Recs : x = job[Startup].rec => x = r
        OBVIOUS
      <4>2. QED BY <2>1 DEF RecoverRepair
    <3>2. QED BY <1>0, <1>1, <2>1, <3>1, GotoStill
  <2>2. CASE meta'[r].status # "processing"
    <3>1. Unreserve(r) /\ Return(Startup)
      BY <2>2 DEF RecoverRepair
    <3>2. QED BY <1>0, <1>1, <2>2, <3>1, ReturnStill
  <2>3. QED BY <2>1, <2>2
<1>6. CASE Interrupted(r)
  <2>1. meta'[r] = Recovered(meta[r]) /\ meta[r].status \in {"recording", "processing"}
    BY <1>1, <1>3, <1>6 DEF Interrupted, TypeDisk
  <2>2. meta[r].attempts + Tries(meta[r]) = spent[r]
    <3>1. ~Attempting(r)
      BY <1>0, <1>1, ReservedAlone DEF Reserving
    <3>2. meta[r].attempts + Tries(meta[r]) = spent[r] + 0
      BY <2>1, <3>1 DEF Stage, CountFits
    <3>3. QED BY <3>2, Arithmetic
  <2>3. /\ meta'[r].attempts = meta[r].attempts /\ meta'[r].tries = meta[r].tries
        /\ meta'[r].status = IF meta[r].attempts >= MaxAttempts THEN "failed" ELSE "processing"
    BY <1>1, <2>1 DEF Recovered, Meta, TypeDisk
  <2>4. ASSUME On(Startup, r)' PROVE Sound(Startup, r)' \/ Growing(r)'
    <3>1. pc'[Startup] = "send" /\ job'[Startup] = job[Startup] /\ meta'[r].status = "processing"
      BY <1>5, <2>4 DEF On
    <3>2. meta'[r].attempts < MaxAttempts
      BY <2>3, <3>1, Arithmetic
    <3>3. QED BY <1>2, <3>1, <3>2 DEF Sound
  <2>5. /\ meta'[r].attempts <= MaxAttempts /\ Tries(meta'[r]) <= NetworkMax
        /\ spent'[r] <= MaxAttempts + NetworkMax
        /\ meta'[r].attempts + Tries(meta'[r]) = spent'[r]
    BY <1>4, <2>2, <2>3 DEF Tries, Stage, CountFits
  <2>6. pc'[Startup] \notin Opening \cup {"begin", "run"}
    BY <1>5 DEF Opening, JobSteps
  <2>7. meta'[r].status \in {"failed", "processing"}
    BY <2>3
  <2>8. QED BY <1>0, <1>1, <1>4, <2>4, <2>5, <2>6, <2>7, ReservedStage DEF Reserving
<1>7. CASE ~Interrupted(r)
  <2>1. meta'[r] = meta[r] /\ meta[r].status # "processing"
    BY <1>1, <1>3, <1>7 DEF Interrupted, TypeDisk
  <2>2. pc'[Startup] \notin JobSteps /\ Unreserve(r) /\ UNCHANGED todo
    BY <1>5, <2>1
  <2>3. UNCHANGED <<processing, waiting, held>>
    BY DEF RecoverRepair
  <2>4. Pending(r)' => Pending(r)
    BY <2>2, <2>3 DEF Pending, Working, Unreserve
  <2>5. Lined(r)'
    BY <1>4, <2>1 DEF Stage, Lined, InQueue
  <2>6. Listed(r)' => Listed(r)
    BY <2>2 DEF Listed
  <2>7. pc[Startup] \notin Opening \cup {"begin", "run"} /\ pc'[Startup] \notin Opening \cup {"begin", "run"}
    BY <1>0, <2>2 DEF Opening, JobSteps
  <2>8. ~On(Startup, r)'
    BY <2>2 DEF On
  <2>9. /\ SameCount(meta'[r], meta[r]) /\ ending'[r] = ending[r]
        /\ tracks'[r] = tracks[r] \/ (~Growing(r) /\ tracks'[r] \notin {"live", "stuck"})
        /\ spent'[r] = spent[r] /\ (session' = r <=> session = r)
    BY <1>4, <2>1 DEF SameCount
  <2>10. /\ Listed(r)' => Listed(r) \/ ~Growing(r)
         /\ r \in waiting' => r \in waiting \/ ~Growing(r)
         /\ r \in held' => r \in held \/ ~Young(r)
    BY <2>3, <2>6
  <2>11. QED BY <1>0, <1>1, <2>4, <2>5, <2>7, <2>8, <2>9, <2>10, QuietStage
<1>8. QED BY <1>6, <1>7

\* The scan gives up on a recording that has used up its network tries.
LEMMA GiveUpStage ==
  ASSUME TypeInv, TypeInv', OwnInv, NEW p \in Procs, GiveUp(p), NEW r \in Recs, r = job[p].rec,
         Stage(r)
  PROVE  Stage(r)'
<1>1. On(p, r) /\ Still(p) /\ TypeProcs /\ TypeDisk /\ job[p] \in Jobs
  BY CarriesOn, CarriesProcs DEF Carries, On, TypeInv
<1>2. pc[p] = "giveUp" /\ pc'[p] \notin JobSteps /\ Transcribes(job[p])
  BY <1>1, ReturnStill DEF GiveUp, TypeProcs, Fits
<1>3. UNCHANGED <<tracks, ending, session, queue, spent>>
  BY DEF GiveUp, Quiet, Keep, pastVars
<1>4. /\ meta'[r].attempts = meta[r].attempts /\ meta'[r].tries = meta[r].tries
      /\ meta'[r].status = "failed" /\ meta[r].status = "waiting"
  BY <1>1, <1>2 DEF GiveUp, Meta, TypeDisk, Stage, Sound
<1>5. meta[r].attempts + Tries(meta[r]) = spent[r]
  <2>1. ~Attempting(r)
    BY <1>1, <1>2, ReservedAlone DEF Reserving
  <2>2. meta[r].attempts + Tries(meta[r]) = spent[r] + 0
    BY <1>4, <2>1 DEF Stage, CountFits
  <2>3. QED BY <2>2, Arithmetic
<1>6. /\ meta'[r].attempts <= MaxAttempts /\ Tries(meta'[r]) <= NetworkMax
      /\ spent'[r] <= MaxAttempts + NetworkMax
      /\ meta'[r].attempts + Tries(meta'[r]) = spent'[r]
  BY <1>3, <1>4, <1>5 DEF Tries, Stage, CountFits
<1>7. pc'[p] \notin Opening \cup {"begin", "run"} /\ ~On(p, r)'
  BY <1>2 DEF Opening, JobSteps, On
<1>8. QED BY <1>1, <1>2, <1>3, <1>4, <1>6, <1>7, ReservedStage DEF Reserving

\* A delete removes the folder, its count with it.
LEMMA DeleteStage ==
  ASSUME TypeInv, TypeInv', OwnInv, NEW p \in Procs, DeleteRemove(p), NEW r \in Recs, r = job[p].rec,
         Stage(r)
  PROVE  Stage(r)'
<1>1. On(p, r) /\ Still(p) /\ TypeProcs /\ TypeDisk /\ job[p] \in Jobs
  BY CarriesOn, CarriesProcs DEF Carries, On, TypeInv
<1>2. pc[p] = "delete" /\ pc'[p] \notin JobSteps
  BY <1>1, ReturnStill DEF DeleteRemove
<1>3. UNCHANGED <<ending, session, queue, spent>>
  BY DEF DeleteRemove, Quiet
<1>4. /\ meta'[r].attempts = 0 /\ meta'[r].tries = None /\ meta'[r].status = "gone"
      /\ tracks'[r] = "none"
  BY <1>1 DEF DeleteRemove, Fresh, TypeDisk
<1>5. ~Pending(r) /\ ~Young(r)
  <2>1. Sound(p, r)
    BY <1>1 DEF Stage
  <2>2. QED BY <1>2, <2>1 DEF Sound, Stage, Shape, Opening, Growing
<1>6. /\ \A q \in Procs \ {p} : On(q, r) => pc[q] \in Loose
      /\ \A i \in DOMAIN queue : queue[i].rec # r
  BY <1>1, <1>2, <1>5, DeleteAlone
<1>7. CountFits(r)'
  <2>1. Tries(meta'[r]) = 0 /\ 0 <= MaxAttempts /\ 0 <= NetworkMax /\ spent[r] <= MaxAttempts + NetworkMax
    BY <1>4, LimitsAssumption DEF Tries, Stage, CountFits
  <2>2. QED BY <1>3, <1>4, <2>1 DEF CountFits
<1>8. Lined(r)'
  BY <1>3, <1>6, Unlined
<1>9. ~On(p, r)' /\ pc'[p] \notin Opening
  BY <1>2 DEF On, Opening, JobSteps
<1>10. ending'[r] = ending[r] /\ (session' = r <=> session = r) /\ tracks'[r] \notin {"live", "stuck"}
  BY <1>3, <1>4
<1>11. QED BY <1>1, <1>4, <1>5, <1>6, <1>7, <1>8, <1>9, <1>10, AloneStage
----------------------------------------------------------------------------
(* The worker's attempt.                                                   *)

\* An attempt has the recording alone, and its count is one ahead.
LEMMA AttemptStage ==
  ASSUME TypeInv, TypeInv', OwnInv, NEW r \in Recs, On(Worker, r), pc[Worker] \in {"begin", "run"},
         Stage(r), Still(Worker), pc'[Worker] \notin Opening,
         UNCHANGED <<tracks, ending, session, queue>>,
         On(Worker, r)' /\ ~Growing(r)' => Sound(Worker, r)',
         meta'[r].status \notin {"none", "claimed", "recording"},
         meta'[r].status = "waiting" => meta'[r].tries # None,
         meta[r].attempts + Tries(meta[r]) = spent[r] + 1 => CountFits(r)'
  PROVE  Stage(r)'
<1>1. /\ \A q \in Procs \ {Worker} : On(q, r) => pc[q] \in Loose
      /\ \A i \in DOMAIN queue : queue[i].rec # r
      /\ Attempting(r) /\ Worker \in Procs
  BY AttemptAlone DEF Procs
<1>2. ~Growing(r) /\ Sound(Worker, r)
  BY <1>1, NotGrowing DEF Loose, Opening, Stage
<1>3. meta[r].status \in {"waiting", "processing"}
  BY <1>2 DEF Sound
<1>4. meta[r].attempts + Tries(meta[r]) = spent[r] + 1
  BY <1>1, <1>3 DEF Stage, CountFits
<1>5. Lined(r)'
  BY <1>1, Unlined
<1>6. ~Young(r) /\ tracks'[r] \notin {"live", "stuck"} /\ ending'[r] = ending[r] /\ (session' = r <=> session = r)
  BY <1>2 DEF Growing
<1>7. QED BY <1>1, <1>4, <1>5, <1>6, AloneStage

\* The attempt writes the status it runs under, and keeps its count.
LEMMA BeginStage ==
  ASSUME TypeInv, TypeInv', OwnInv, WorkerBegin, NEW r \in Recs, r = job[Worker].rec, Stage(r)
  PROVE  Stage(r)'
<1>0. Worker \in Procs /\ pc[Worker] = "begin"
  BY DEF Procs, WorkerBegin
<1>1. On(Worker, r) /\ Still(Worker) /\ TypeProcs /\ TypeDisk /\ job[Worker] \in Jobs
  BY <1>0, CarriesOn, CarriesProcs DEF Carries, On, TypeInv
<1>2. PICK m : m = [meta[r] EXCEPT !.status = "processing"]
  OBVIOUS
<1>3. /\ meta' = [meta EXCEPT ![r] = m] /\ seen' = [seen EXCEPT ![Worker] = m]
      /\ Goto(Worker, "run") /\ UNCHANGED <<job, tracks, ending, session, queue, spent>>
  BY <1>2 DEF WorkerBegin, Quiet, Keep, pastVars
<1>4. pc'[Worker] = "run" /\ job'[Worker] = job[Worker] /\ seen'[Worker] = m /\ meta'[r] = m
  BY <1>0, <1>1, <1>3, SeeStill DEF TypeDisk
<1>5. m.status = "processing" /\ m.attempts = meta[r].attempts /\ m.tries = meta[r].tries
  BY <1>1, <1>2 DEF TypeDisk, Meta
<1>6. Sound(Worker, r)
  BY <1>0, <1>1 DEF Stage
<1>7. ASSUME ~Growing(r)' PROVE Sound(Worker, r)'
  BY <1>0, <1>4, <1>5, <1>6, <1>7 DEF Sound, SameCount, Stage, Shape
<1>8. Attempting(r)' /\ meta[r].attempts <= MaxAttempts /\ Tries(meta[r]) <= NetworkMax
      /\ spent[r] <= MaxAttempts + NetworkMax
  BY <1>4 DEF Attempting, Stage, CountFits
<1>9. ASSUME meta[r].attempts + Tries(meta[r]) = spent[r] + 1 PROVE CountFits(r)'
  BY <1>3, <1>4, <1>5, <1>8, <1>9 DEF CountFits, Tries
<1>10. QED BY <1>0, <1>1, <1>3, <1>4, <1>5, <1>7, <1>9, AttemptStage DEF Opening

\* An attempt that ends: its count stays if it took one of the tries.
LEMMA EndAttemptStage ==
  ASSUME TypeInv, TypeInv', OwnInv, NEW r \in Recs, r = job[Worker].rec, Stage(r),
         \/ WorkerDone(r) \/ WorkerDoneSummary(r) \/ WorkerFail(r) \/ WorkerNetwork(r)
  PROVE  Stage(r)'
<1>0. Worker \in Procs /\ pc[Worker] = "run"
  BY DEF Procs, WorkerDone, WorkerDoneSummary, WorkerFail, WorkerNetwork, Attempt
<1>1. On(Worker, r) /\ Still(Worker) /\ TypeProcs /\ TypeDisk /\ job[Worker] \in Jobs
  BY <1>0, CarriesOn, CarriesProcs DEF Carries, On, TypeInv
<1>2. /\ spent' = [spent EXCEPT ![r] = @ + 1]
      /\ UNCHANGED <<tracks, ending, session, queue>>
  BY DEF WorkerDone, WorkerDoneSummary, WorkerFail, WorkerNetwork, Attempt, Quiet
<1>3. pc'[Worker] \notin JobSteps \/ pc'[Worker] = "markRead"
  <2>1. Return(Worker) \/ Go(Worker, "markRead", Job(r, "auto"))
    BY DEF WorkerDone, WorkerDoneSummary, WorkerFail, WorkerNetwork
  <2>2. QED BY <1>0, <1>1, <2>1, ReturnStill, GoStill
<1>4. SameCount(meta[r], seen[Worker]) /\ seen[Worker] \in Meta
  BY <1>0, <1>1 DEF Stage, Sound, TypeProcs, Fits
<1>5. PICK m : /\ meta' = [meta EXCEPT ![r] = m]
               /\ \/ m = Transcribed(r)
                  \/ m = [meta[r] EXCEPT !.status = "failed"]
                  \/ m = WaitForNetwork(meta[r])
  BY DEF WorkerDone, WorkerDoneSummary, WorkerFail, WorkerNetwork
<1>6. meta'[r] = m /\ spent'[r] = spent[r] + 1 /\ ~Attempting(r)'
  BY <1>1, <1>2, <1>3, <1>5 DEF TypeDisk, Attempting, JobSteps
<1>7. /\ m.attempts = meta[r].attempts
      /\ \/ m.status = "done" /\ m.tries = None
         \/ m.status = "failed" /\ m.tries = meta[r].tries
         \/ m.status = "waiting" /\ m.tries = Tries(meta[r])
  <2>1. CASE m = Transcribed(r)
    BY <1>4, <2>1 DEF Transcribed, Meta, SameCount
  <2>2. CASE m = [meta[r] EXCEPT !.status = "failed"]
    BY <1>1, <2>2 DEF TypeDisk, Meta
  <2>3. CASE m = WaitForNetwork(meta[r])
    BY <1>1, <2>3 DEF TypeDisk, Meta, WaitForNetwork
  <2>4. QED BY <1>5, <2>1, <2>2, <2>3
<1>8. ASSUME ~Growing(r)', On(Worker, r)' PROVE Sound(Worker, r)'
  BY <1>3, <1>8 DEF Sound, On
<1>9. ASSUME meta[r].attempts + Tries(meta[r]) = spent[r] + 1 PROVE CountFits(r)'
  <2>1. /\ meta[r].attempts <= MaxAttempts /\ Tries(meta[r]) <= NetworkMax
        /\ meta[r].attempts \in Nat /\ Tries(meta[r]) \in Nat /\ spent[r] \in Nat
        /\ MaxAttempts \in Nat /\ NetworkMax \in Nat /\ Tries(meta[r]) # None
    BY Arithmetic, NoneAssumption DEF Stage, CountFits
  <2>2. spent'[r] <= MaxAttempts + NetworkMax
    BY <1>6, <1>9, <2>1
  <2>3. Tries(m) = Tries(meta[r]) \/ (m.status = "done" /\ Tries(m) = 0)
    BY <1>7, <2>1 DEF Tries
  <2>4. spent'[r] = spent'[r] + 0
    BY <1>6, <2>1
  <2>5. QED BY <1>6, <1>7, <1>9, <2>1, <2>2, <2>3, <2>4 DEF CountFits
<1>10. meta'[r].status \in {"done", "failed", "waiting"} /\ (meta'[r].status = "waiting" => meta'[r].tries # None)
  BY <1>6, <1>7, Arithmetic, NoneAssumption
<1>11. QED BY <1>0, <1>1, <1>2, <1>3, <1>8, <1>9, <1>10, AttemptStage DEF Opening, JobSteps

\* An attempt that a shutdown aborts is given back, or it was one of the tries.
LEMMA AbortStage ==
  ASSUME TypeInv, TypeInv', OwnInv, ShutdownAttempt, NEW r \in Recs, r = job[Worker].rec, Stage(r)
  PROVE  Stage(r)'
<1>0. Worker \in Procs /\ pc[Worker] = "run"
  BY DEF Procs, ShutdownAttempt
<1>1. On(Worker, r) /\ Still(Worker) /\ TypeProcs /\ TypeDisk /\ job[Worker] \in Jobs
  BY <1>0, CarriesOn, CarriesProcs DEF Carries, On, TypeInv
<1>2. PICK kind : kind = job[Worker].kind
  OBVIOUS
<1>3. /\ meta' = [meta EXCEPT ![r] = GivenBack(@, kind)]
      /\ spent' = [spent EXCEPT ![r] = IF kind = "network" THEN @ + 1 ELSE @]
      /\ Goto(Worker, "dead") /\ job' = [job EXCEPT ![Worker] = None]
      /\ UNCHANGED <<tracks, ending, session, queue, seen>>
  BY <1>2 DEF ShutdownAttempt, ShutdownBegin, viewVars
<1>4. pc'[Worker] = "dead" /\ ~Attempting(r)'
  <2>1. pc'[Worker] = "dead"
    BY <1>0, <1>1, <1>3, DropStill
  <2>2. QED BY <2>1 DEF Attempting
<1>5. /\ meta'[r] = GivenBack(meta[r], kind)
      /\ spent'[r] = IF kind = "network" THEN spent[r] + 1 ELSE spent[r]
  BY <1>1, <1>3 DEF TypeDisk
<1>6. Sound(Worker, r)
  BY <1>0, <1>1 DEF Stage
<1>7. /\ meta[r].status = "processing"
      /\ IF kind = "network" THEN meta[r].tries # None ELSE meta[r].attempts > 0
  BY <1>0, <1>2, <1>6 DEF Sound
<1>8. /\ meta'[r].tries = meta[r].tries
      /\ meta'[r].status \in {"waiting", "processing"}
      /\ meta'[r].status = "waiting" => meta'[r].tries # None
      /\ meta'[r].attempts = IF kind = "network" THEN meta[r].attempts ELSE meta[r].attempts - 1
  BY <1>1, <1>5, <1>7, Arithmetic DEF GivenBack, TypeDisk, Meta
<1>9. ASSUME meta[r].attempts + Tries(meta[r]) = spent[r] + 1 PROVE CountFits(r)'
  <2>1. /\ meta[r].attempts <= MaxAttempts /\ Tries(meta[r]) <= NetworkMax
        /\ meta[r].attempts \in Nat /\ Tries(meta[r]) \in Nat /\ spent[r] \in Nat
        /\ MaxAttempts \in Nat /\ NetworkMax \in Nat
    BY Arithmetic DEF Stage, CountFits
  <2>2. Tries(meta'[r]) = Tries(meta[r])
    BY <1>8 DEF Tries
  <2>3. QED BY <1>4, <1>5, <1>8, <1>9, <2>1, <2>2 DEF CountFits
<1>10. ~On(Worker, r)'
  BY <1>4 DEF On, JobSteps
<1>11. QED BY <1>0, <1>1, <1>3, <1>4, <1>8, <1>9, <1>10, AttemptStage DEF Opening
----------------------------------------------------------------------------
(* The worker takes a job.                                                 *)

\* A job that is taken was its recording's only one.
LEMMA TakenGone ==
  ASSUME TypeInv, OwnInv, NEW i \in DOMAIN queue, queue' = RemoveAt(queue, i), NEW r,
         r = queue[i].rec
  PROVE  \A k \in DOMAIN queue' : queue'[k].rec # r
<1>1. queue \in Seq(Jobs) /\ i \in 1..Len(queue) /\ Len(queue) \in Nat /\ DOMAIN queue = 1..Len(queue)
  BY DEF TypeInv, TypeView
<1>2. /\ Len(queue') = Len(queue) - 1 /\ queue' \in Seq(Jobs)
      /\ \A k \in 1..(Len(queue) - 1) :
           queue'[k] = IF k < i THEN queue[k] ELSE queue[k + 1]
  BY <1>1, Removed
<1>3. \A m \in DOMAIN queue : queue[m].rec = r => m = i
  BY DEF OwnInv, ReservedOnce
<1>4. ASSUME NEW k \in DOMAIN queue', queue'[k].rec = r PROVE FALSE
  <2>1. k \in 1..(Len(queue) - 1)
    BY <1>1, <1>2
  <2>2. CASE k < i
    <3>1. k \in DOMAIN queue /\ queue[k].rec = r
      BY <1>1, <1>2, <1>4, <2>1, <2>2
    <3>2. QED BY <1>3, <2>1, <2>2, <3>1
  <2>3. CASE ~(k < i)
    <3>1. k + 1 \in DOMAIN queue /\ queue[k + 1].rec = r
      BY <1>1, <1>2, <1>4, <2>1, <2>3
    <3>2. QED BY <1>1, <1>3, <2>1, <2>3, <3>1
  <2>4. QED BY <2>2, <2>3
<1>5. QED BY <1>4

\* Taking a job counts its attempt before it runs.
LEMMA TakeStage ==
  ASSUME TypeInv, TypeInv', OwnInv, FreeInv, NEW i \in DOMAIN queue, TakesJob(i),
         NEW r \in Recs, r = queue[i].rec, Stage(r)
  PROVE  Stage(r)'
<1>0. Worker \in Procs /\ TypeDisk /\ TypeProcs /\ queue[i] \in Jobs
  BY TakenJob DEF Procs, TypeInv
<1>1. /\ pc[Worker] = "idle" /\ job'[Worker] = queue[i] /\ Still(Worker)
      /\ UNCHANGED <<tracks, ending, session, spent, waiting, held, todo>>
  BY TakesFrame DEF TakesJob
<1>2. Pending(r) /\ ~Growing(r) /\ InQueue(queue[i])
  BY PendingBy, NotGrowing DEF InQueue
<1>3. Lined(r)'
  <2>1. \A k \in DOMAIN queue' : queue'[k].rec # r
    BY TakenGone DEF TakesJob
  <2>2. Job(r, "transcribe").rec = r /\ Job(r, "network").rec = r
    BY DEF Job
  <2>3. QED BY <2>1, <2>2 DEF Lined, InQueue
<1>4. CASE Transcribes(queue[i])
  <2>1. PICK kind : kind = queue[i].kind
    OBVIOUS
  <2>2. kind \in {"transcribe", "network"} /\ queue[i] = Job(r, kind)
    BY <1>0, <1>4, <2>1 DEF Transcribes, Jobs, Job
  <2>3. meta' = [meta EXCEPT ![r] = Counted(@, kind)] /\ pc'[Worker] = "begin"
    <3>1. meta' = [meta EXCEPT ![r] = Counted(@, kind)] /\ Go(Worker, "begin", queue[i])
      BY <1>4, <2>1 DEF TakesJob
    <3>2. QED BY <1>0, <3>1, GoStill
  <2>4. meta'[r] = Counted(meta[r], kind) /\ spent'[r] = spent[r]
    BY <1>0, <1>1, <2>3 DEF TypeDisk
  <2>5. ~Attempting(r) /\ \A q \in Procs : On(q, r) => pc[q] \in Loose
    BY <1>1, <1>4, TakenAlone
  <2>6. /\ kind = "transcribe" => meta[r].status = "processing" /\ meta[r].attempts < MaxAttempts
        /\ kind = "network" => /\ meta[r].status = "waiting" /\ Tries(meta[r]) < NetworkMax
                               /\ meta[r].tries # None
    BY <1>2, <2>2 DEF Stage, Lined, Shape
  <2>7. /\ meta'[r].status = meta[r].status
        /\ meta'[r].attempts = IF kind = "network" THEN meta[r].attempts ELSE meta[r].attempts + 1
        /\ meta'[r].tries = IF kind = "network" THEN meta[r].tries + 1 ELSE meta[r].tries
    BY <1>0, <2>2, <2>4, <2>6 DEF Counted, TypeDisk, Meta
  <2>8. /\ meta[r].attempts <= MaxAttempts /\ Tries(meta[r]) <= NetworkMax
        /\ spent[r] <= MaxAttempts + NetworkMax
        /\ meta[r].attempts + Tries(meta[r]) = spent[r] + 0
    BY <2>2, <2>5, <2>6 DEF Stage, CountFits
  <2>9. /\ meta[r].attempts \in Nat /\ Tries(meta[r]) \in Nat /\ spent[r] \in Nat
        /\ MaxAttempts \in Nat /\ NetworkMax \in Nat
        /\ meta[r].tries # None => meta[r].tries \in Nat /\ Tries(meta[r]) = meta[r].tries
    BY Arithmetic
  <2>10. Tries(meta'[r]) = IF kind = "network" THEN Tries(meta[r]) + 1 ELSE Tries(meta[r])
    <3>1. CASE kind = "network"
      <4>1. meta'[r].tries = meta[r].tries + 1 /\ meta[r].tries \in Nat
        BY <2>6, <2>7, <2>9, <3>1
      <4>2. meta'[r].tries # None
        BY <4>1, NoneAssumption
      <4>3. QED BY <2>6, <2>9, <3>1, <4>1, <4>2 DEF Tries
    <3>2. CASE kind # "network"
      BY <2>7, <3>2 DEF Tries
    <3>3. QED BY <3>1, <3>2
  <2>11. Attempting(r)'
    BY <1>1, <2>3 DEF Attempting
  <2>12. CountFits(r)'
    <3>1. meta'[r].attempts + Tries(meta'[r]) = spent[r] + 1
      BY <2>2, <2>7, <2>8, <2>9, <2>10
    <3>2. meta'[r].attempts <= MaxAttempts /\ Tries(meta'[r]) <= NetworkMax
      BY <2>2, <2>6, <2>7, <2>8, <2>9, <2>10
    <3>3. QED BY <2>4, <2>8, <2>11, <3>1, <3>2 DEF CountFits
  <2>13. Sound(Worker, r)' \/ Growing(r)'
    <3>1. kind = "network" \/ meta'[r].attempts > 0
      BY <1>1, <2>1, <2>7, <2>9
    <3>2. job'[Worker].kind = kind
      BY <1>1, <2>1
    <3>3. QED BY <2>2, <2>3, <2>6, <2>7, <3>1, <3>2 DEF Sound
  <2>14. meta'[r].status \in {"waiting", "processing"} /\ (meta'[r].status = "waiting" => meta'[r].tries # None)
    BY <2>2, <2>6, <2>7, <2>9, NoneAssumption
  <2>15. pc'[Worker] \notin Opening /\ ~Young(r) /\ tracks'[r] \notin {"live", "stuck"}
         /\ ending'[r] = ending[r] /\ (session' = r <=> session = r)
    BY <1>1, <1>2, <2>3 DEF Opening, Growing
  <2>16. QED BY <1>0, <1>1, <1>3, <2>5, <2>12, <2>13, <2>14, <2>15, AloneStage
<1>5. CASE ~Transcribes(queue[i])
  <2>1. UNCHANGED meta /\ pc'[Worker] = "make"
    <3>1. UNCHANGED meta /\ Go(Worker, "make", queue[i])
      BY <1>5 DEF TakesJob
    <3>2. QED BY <1>0, <3>1, GoStill
  <2>2. Pending(r)' => Pending(r)
    BY <1>2
  <2>3. Listed(r)' => Listed(r)
    BY <1>1 DEF Listed
  <2>4. ASSUME On(Worker, r)', Growing(r)' <=> Growing(r) PROVE Sound(Worker, r)'
    BY <1>2, <2>1, <2>4 DEF Sound
  <2>5. pc[Worker] \notin Opening \cup {"begin", "run"} /\ pc'[Worker] \notin Opening \cup {"begin", "run"}
    BY <1>1, <2>1 DEF Opening
  <2>6. SameCount(meta'[r], meta[r])
    BY <2>1 DEF SameCount
  <2>7. /\ tracks'[r] = tracks[r] \/ (~Growing(r) /\ tracks'[r] \notin {"live", "stuck"})
        /\ Listed(r)' => Listed(r) \/ ~Growing(r)
        /\ r \in waiting' => r \in waiting \/ ~Growing(r)
        /\ r \in held' => r \in held \/ ~Young(r)
        /\ ending'[r] = ending[r] /\ spent'[r] = spent[r] /\ (session' = r <=> session = r)
    BY <1>1, <2>3
  <2>8. QED BY <1>0, <1>1, <1>3, <2>2, <2>4, <2>5, <2>6, <2>7, QuietStage
<1>6. QED BY <1>4, <1>5
----------------------------------------------------------------------------
(* Starts: the recording is its recorder's.                                *)

\* A recording nobody has asked anything of yet, but to be transcribed again.
LEMMA FreshStage ==
  ASSUME NEW r \in Recs, ~Pending(r)', ~Listed(r)', r \notin waiting', r \notin held',
         \A i \in DOMAIN queue' : queue'[i].rec # r, ~Attempting(r)',
         meta'[r].attempts = 0, meta'[r].tries = None, spent'[r] = 0,
         Shape(r)', \A q \in Procs : On(q, r)' => Sound(q, r)'
  PROVE  Stage(r)'
<1>1. Apart(r)'
  BY DEF Apart
<1>2. CountFits(r)'
  <2>1. Tries(meta'[r]) = 0 /\ 0 <= MaxAttempts /\ 0 <= NetworkMax /\ 0 <= MaxAttempts + NetworkMax
        /\ 0 + 0 = 0
    BY LimitsAssumption DEF Tries
  <2>2. QED BY <2>1 DEF CountFits
<1>3. Lined(r)'
  <2>1. Job(r, "transcribe").rec = r /\ Job(r, "network").rec = r
    BY DEF Job
  <2>2. QED BY <2>1 DEF Lined, InQueue
<1>4. QED BY <1>1, <1>2, <1>3 DEF Stage

\* A retry that waits for the session expects nothing of the header.
LEMMA ClaimSound ==
  ASSUME NEW q, NEW r, pc'[q] = "claim", job'[q].kind = "transcribe"
  PROVE  Sound(q, r)'
BY DEF Sound

\* The start that opens a recording has it alone, but for retries that wait.
LEMMA OpeningAlone ==
  ASSUME TypeInv, OwnInv, LockInv, CaptureInv, NEW r \in Recs, NEW p \in Procs, On(p, r),
         pc[p] \in Opening, Stage(r)
  PROVE  /\ p \in Tasks /\ lock = p /\ session = None /\ ending[r] = "no"
         /\ \A q \in Procs \ {p} : On(q, r) => pc[q] = "claim" /\ job[q].kind = "transcribe"
         /\ ~Pending(r) /\ ~Listed(r) /\ r \notin waiting /\ r \notin held
         /\ \A i \in DOMAIN queue : queue[i].rec # r
         /\ spent[r] = 0 /\ p # Worker /\ p # None /\ r # None
         /\ \A t \in Tasks \ {p} : pc[t] \notin Opening
<1>1. p \in Tasks
  BY ProcSteps DEF TypeInv, TypeProcs, Procs, WorkerSteps, StartupSteps, TimerSteps, Opening
<1>2. lock = p /\ p # None /\ session = None /\ ending[r] = "no" /\ p # Worker /\ r # None
      /\ \A t \in Tasks \ {p} : pc[t] \notin Opening
  BY <1>1, NoneAssumption, ProcsAssumption DEF LockInv, Starting, CaptureInv, On
<1>3. Growing(r) /\ Young(r)
  BY OpeningIsYoung DEF Growing
<1>4. ~Pending(r) /\ ~Listed(r) /\ r \notin waiting /\ r \notin held
  BY <1>3 DEF Stage, Apart
<1>5. tracks[r] # "stuck" /\ meta[r].status \in {"claimed", "recording"}
  BY DEF Stage, Sound, Opening
<1>6. spent[r] = 0
  BY <1>5 DEF Stage, Shape
<1>7. ASSUME NEW q \in Procs \ {p}, On(q, r) PROVE pc[q] = "claim" /\ job[q].kind = "transcribe"
  <2>1. pc[q] \in {"claim"} \cup Opening /\ Sound(q, r)
    BY <1>3, <1>5, <1>7 DEF Stage, Sound
  <2>2. pc[q] \notin Opening
    <3>1. q \in Tasks \/ pc[q] \notin Opening
      BY ProcSteps DEF TypeInv, TypeProcs, Procs, WorkerSteps, StartupSteps, TimerSteps, Opening
    <3>2. QED BY <1>2, <3>1
  <2>3. QED BY <2>1, <2>2 DEF Sound
<1>8. QED BY <1>1, <1>2, <1>4, <1>6, <1>7, PendingBy

\* A new recording starts with nothing counted.
LEMMA CreateStage ==
  ASSUME TypeInv, TypeInv', OwnInv, LockInv, KnownInv, NEW r \in Recs, NEW p \in Procs, StartCreate(p, r)
  PROVE  Stage(r)'
<1>0. TypeProcs /\ TypeDisk /\ r # None
  BY NoneAssumption DEF TypeInv
<1>1. ~Touched(r)
  BY DEF StartCreate, KnownInv, Real
<1>2. /\ session # r /\ ending[r] = "no" /\ tracks[r] = "none" /\ spent[r] = 0
      /\ r \notin held /\ r \notin waiting /\ ~Pending(r) /\ ~Listed(r)
      /\ \A q \in Procs : ~On(q, r)
  BY <1>1 DEF Touched
<1>3. /\ UNCHANGED <<tracks, session, ending, spent, queued, processing, held, waiting, queue, todo>>
      /\ meta'[r] = Fresh("claimed")
  BY <1>0 DEF StartCreate, viewVars, Keep, pastVars, TypeDisk
<1>4. pc'[p] = "write" /\ Still(p)
  BY <1>0, GoStill DEF StartCreate
<1>5. ~Pending(r)' /\ ~Listed(r)' /\ r \notin waiting' /\ r \notin held' /\ spent'[r] = 0
      /\ \A i \in DOMAIN queue' : queue'[i].rec # r
  BY <1>2, <1>3, PendingBy DEF Pending, Working, Listed
<1>6. meta'[r].status = "claimed" /\ meta'[r].attempts = 0 /\ meta'[r].tries = None
  BY <1>3 DEF Fresh
<1>7. \A q \in Procs \ {p} : ~On(q, r)'
  BY <1>2, <1>4 DEF Still, On
<1>8. p \in Tasks
  <2>1. pc[p] = "create" /\ pc[p] \in StepsOf(p)
    BY <1>0 DEF StartCreate, TypeProcs
  <2>2. QED BY <2>1, ProcSteps DEF Procs, WorkerSteps, StartupSteps, TimerSteps
<1>9. ~Attempting(r)'
  <2>1. Worker \in Procs /\ p # Worker
    BY <1>8, ProcsAssumption DEF Procs
  <2>2. QED BY <1>7, <2>1 DEF Attempting, On, JobSteps
<1>10. Sound(p, r)'
  BY <1>2, <1>3, <1>4, <1>6 DEF Sound, Opening
<1>11. Shape(r)'
  BY <1>2, <1>3, <1>5, <1>6 DEF Shape
<1>12. QED BY <1>5, <1>6, <1>7, <1>9, <1>10, <1>11, FreshStage

\* It goes on, and the others with it stay where they are.
LEMMA OpensStage ==
  ASSUME TypeInv, TypeInv', OwnInv, LockInv, CaptureInv, NEW r \in Recs, NEW p \in Procs, r = job[p].rec,
         StartWrite(p) \/ StartOpen(p) \/ StartShow(p) \/ StartFails(p), Stage(r)
  PROVE  Stage(r)'
<1>0. TypeProcs /\ TypeDisk /\ pc[p] \in Opening /\ On(p, r) /\ Still(p)
  BY CarriesOn, CarriesProcs DEF Carries, On, TypeInv, Opening, StartWrite, StartOpen, StartShow, StartFails
<1>1. /\ p \in Tasks /\ session = None /\ ending[r] = "no" /\ r # None
      /\ \A q \in Procs \ {p} : On(q, r) => pc[q] = "claim" /\ job[q].kind = "transcribe"
      /\ ~Pending(r) /\ ~Listed(r) /\ r \notin waiting /\ r \notin held
      /\ \A i \in DOMAIN queue : queue[i].rec # r
      /\ spent[r] = 0 /\ p # Worker
      /\ \A t \in Tasks \ {p} : pc[t] \notin Opening
  BY <1>0, OpeningAlone
<1>2. UNCHANGED <<queued, processing, waiting, held, queue, ending, spent, todo>>
  BY DEF StartWrite, StartOpen, StartShow, StartFails, GiveUpStart, Return, viewVars, Quiet, Keep, pastVars
<1>3. \A q \in Procs \ {p} : On(q, r)' => pc'[q] = "claim" /\ job'[q].kind = "transcribe"
  BY <1>0, <1>1 DEF Still, On
<1>4. ~Attempting(r)'
  <2>1. Worker \in Procs
    BY DEF Procs
  <2>2. QED BY <1>1, <1>3, <2>1 DEF Attempting, On, JobSteps
<1>5. ~Pending(r)' /\ ~Listed(r)' /\ r \notin waiting' /\ r \notin held' /\ spent'[r] = 0
      /\ \A i \in DOMAIN queue' : queue'[i].rec # r
  BY <1>1, <1>2 DEF Pending, Working, Listed
<1>6. Sound(p, r)
  BY <1>0 DEF Stage
<1>7. ASSUME Sound(p, r)' \/ ~On(p, r)' PROVE \A q \in Procs : On(q, r)' => Sound(q, r)'
  BY <1>3, <1>7, ClaimSound
<1>8. CASE StartWrite(p)
  <2>1. meta'[r] = Fresh("recording") /\ UNCHANGED <<tracks, session>> /\ tracks[r] = "none"
    BY <1>0, <1>6, <1>8 DEF StartWrite, Sound, TypeDisk, Quiet
  <2>2. pc[p] = "write" /\ pc'[p] = "open"
    BY <1>0, <1>8, GotoStill DEF StartWrite
  <2>3. meta'[r].status = "recording" /\ meta'[r].attempts = 0 /\ meta'[r].tries = None
    BY <2>1 DEF Fresh
  <2>4. Shape(r)'
    BY <1>1, <1>2, <1>5, <2>1, <2>3 DEF Shape
  <2>5. Sound(p, r)'
    BY <2>1, <2>2, <2>3 DEF Sound, Opening
  <2>6. QED BY <1>4, <1>5, <1>7, <2>3, <2>4, <2>5, FreshStage
<1>9. CASE StartOpen(p)
  <2>1. UNCHANGED <<meta, session>> /\ tracks'[r] = "live" /\ meta[r].status = "recording"
    BY <1>0, <1>6, <1>9 DEF StartOpen, Sound, TypeDisk, Quiet
  <2>2. pc[p] = "open" /\ pc'[p] = "show" /\ job'[p] = job[p]
    BY <1>0, <1>9, GotoStill DEF StartOpen
  <2>3. meta'[r].status = "recording" /\ meta'[r].attempts = 0 /\ meta'[r].tries = None
    BY <2>1 DEF Stage, Shape
  <2>4. Young(r)'
    BY <1>0, <1>1, <2>2 DEF Young, On, Opening, JobSteps
  <2>5. Shape(r)'
    BY <1>1, <1>2, <1>5, <2>1, <2>3, <2>4 DEF Shape
  <2>6. Sound(p, r)'
    BY <2>1, <2>2, <2>3 DEF Sound, Opening
  <2>7. QED BY <1>4, <1>5, <1>7, <2>3, <2>5, <2>6, FreshStage
<1>10. CASE StartShow(p)
  <2>1. meta'[r] = Fresh("recording") /\ UNCHANGED tracks /\ tracks[r] = "live" /\ session' = r
    BY <1>0, <1>6, <1>10 DEF StartShow, Sound, TypeDisk
  <2>2. ~On(p, r)'
    BY <1>0, <1>10, ReturnStill DEF StartShow, On
  <2>3. meta'[r].status = "recording" /\ meta'[r].attempts = 0 /\ meta'[r].tries = None
    BY <2>1 DEF Fresh
  <2>4. Young(r)'
    BY <2>1 DEF Young
  <2>5. Shape(r)'
    BY <1>1, <1>2, <1>5, <2>1, <2>3, <2>4 DEF Shape
  <2>6. QED BY <1>4, <1>5, <1>7, <2>2, <2>3, <2>5, FreshStage
<1>11. CASE StartFails(p)
  <2>1. meta'[r] = Fresh("gone") /\ tracks'[r] = "none" /\ UNCHANGED session
    BY <1>0, <1>11 DEF StartFails, GiveUpStart, TypeDisk
  <2>2. ~On(p, r)'
    <3>1. Goto(p, "idle") /\ UNCHANGED seen /\ job' = [job EXCEPT ![p] = None]
      BY <1>11 DEF StartFails, GiveUpStart
    <3>2. pc'[p] = "idle"
      BY <1>0, <3>1, DropStill DEF Procs
    <3>3. QED BY <3>2 DEF On, JobSteps
  <2>3. meta'[r].status = "gone" /\ meta'[r].attempts = 0 /\ meta'[r].tries = None
    BY <2>1 DEF Fresh
  <2>4. Shape(r)'
    BY <1>1, <1>2, <1>5, <2>1, <2>3 DEF Shape
  <2>5. QED BY <1>4, <1>5, <1>7, <2>2, <2>3, <2>4, FreshStage
<1>12. QED BY <1>8, <1>9, <1>10, <1>11
----------------------------------------------------------------------------
(* Stops.                                                                  *)

\* A recording whose stop goes on has nobody but retries that wait.
LEMMA EndingAlone ==
  ASSUME TypeInv, OwnInv, LockInv, CaptureInv, NEW r \in Recs, Stage(r),
         ending[r] # "no" \/ (session = r /\ lock = None)
  PROVE  /\ \A q \in Procs : On(q, r) => pc[q] = "claim" /\ job[q].kind = "transcribe"
         /\ ~Pending(r) /\ ~Listed(r) /\ r \notin waiting /\ r \notin held
         /\ \A i \in DOMAIN queue : queue[i].rec # r
         /\ ~Attempting(r) /\ Young(r)
         /\ \A t \in Tasks : ~(On(t, r) /\ pc[t] \in Opening)
<1>1. Young(r) /\ Growing(r) /\ tracks[r] # "stuck"
  BY DEF Young, Growing, Stage, Shape
<1>2. ~Pending(r) /\ ~Listed(r) /\ r \notin waiting /\ r \notin held
  BY <1>1 DEF Stage, Apart
<1>3. \A t \in Tasks : ~(On(t, r) /\ pc[t] \in Opening)
  BY NoneAssumption DEF CaptureInv, LockInv, Starting, On
<1>4. ASSUME NEW q \in Procs, On(q, r) PROVE pc[q] = "claim" /\ job[q].kind = "transcribe"
  <2>1. pc[q] \in {"claim"} \cup Opening /\ Sound(q, r)
    BY <1>1, <1>4 DEF Stage, Sound
  <2>2. q \in Tasks \/ pc[q] \notin Opening
    BY ProcSteps DEF TypeInv, TypeProcs, Procs, WorkerSteps, StartupSteps, TimerSteps, Opening
  <2>3. QED BY <1>3, <1>4, <2>1, <2>2 DEF Sound
<1>5. ~Attempting(r)
  BY <1>4 DEF Attempting, On, JobSteps, Procs
<1>6. QED BY <1>1, <1>2, <1>3, <1>4, <1>5, PendingBy

\* A recording that stops goes to its first transcription with nothing counted.
LEMMA ClosesStage ==
  ASSUME TypeInv, TypeInv', OwnInv, LockInv, CaptureInv, NEW r \in Recs, Closes(r), Stage(r)
  PROVE  Stage(r)'
<1>0. TypeDisk /\ ending \in [Recs -> {"no", "stop", "cancel", "enqueue"}] /\ r # None
  BY NoneAssumption DEF TypeInv, TypeView
<1>1. /\ UNCHANGED <<pc, job, seen, todo, spent, held, processing>> /\ waiting' \subseteq waiting
      /\ \A q \in Procs : On(q, r)' <=> On(q, r)
  <2>1. UNCHANGED <<pc, job, seen, todo>>
    BY ClosesFrame
  <2>2. UNCHANGED <<spent, held, processing>>
    BY DEF Closes, Stop, Cancel, TakeSession, EndingStep, StopFinish, StopStuck, StopEnqueue,
       CancelFinish, StuckEnds, viewVars, Keep, pastVars
  <2>3. waiting' \subseteq waiting
    BY DEF Closes, Stop, Cancel, TakeSession, EndingStep, StopFinish, StopStuck, StopEnqueue,
       CancelFinish, StuckEnds, viewVars, Enqueue
  <2>4. QED BY <2>1, <2>2, <2>3 DEF On
<1>2. Listed(r)' <=> Listed(r)
  BY <1>1 DEF Listed
<1>3. Attempting(r)' <=> Attempting(r)
  BY <1>1 DEF Attempting
<1>4. CASE StuckEnds(r)
  <2>1. /\ tracks[r] = "stuck" /\ tracks'[r] = "ended"
        /\ UNCHANGED <<meta, session, ending, queued, queue>>
    BY <1>0, <1>4 DEF StuckEnds, viewVars, Quiet, TypeDisk
  <2>2. ~Young(r)
    BY <2>1 DEF Stage, Shape
  <2>3. ~Young(r)' /\ ~Growing(r)'
    BY <1>1, <2>1, <2>2 DEF Young, Growing, Procs
  <2>4. Pending(r)' <=> Pending(r)
    BY <1>1, <2>1 DEF Pending, Working
  <2>5. Apart(r)'
    BY <2>3 DEF Apart
  <2>6. Shape(r)'
    BY <1>1, <2>1, <2>3 DEF Shape, Stage, Young, Growing
  <2>7. CountFits(r)'
    BY <1>1, <1>3, <2>1 DEF CountFits, Stage, Tries
  <2>8. Lined(r)'
    BY <2>1 DEF Lined, Stage, InQueue, Tries
  <2>9. ASSUME NEW q \in Procs, On(q, r)' PROVE Sound(q, r)'
    <3>1. Sound(q, r) /\ pc[q] \notin Opening
      BY <1>1, <2>2, <2>9, OpeningIsYoung DEF Stage
    <3>2. QED BY <1>1, <2>1, <2>3, <2>4, <3>1 DEF Sound, SameCount, Opening, Transcribes
  <2>10. QED BY <2>5, <2>6, <2>7, <2>8, <2>9 DEF Stage
<1>5. CASE ~StuckEnds(r)
  <2>0. ending[r] # "no" \/ (session = r /\ lock = None)
    BY <1>5 DEF Closes, Stop, Cancel, TakeSession, EndingStep, StopFinish, StopStuck, StopEnqueue,
       CancelFinish
  <2>1. /\ \A q \in Procs : On(q, r) => pc[q] = "claim" /\ job[q].kind = "transcribe"
        /\ ~Pending(r) /\ ~Listed(r) /\ r \notin waiting /\ r \notin held
        /\ \A i \in DOMAIN queue : queue[i].rec # r
        /\ ~Attempting(r)
        /\ \A t \in Tasks : ~(On(t, r) /\ pc[t] \in Opening)
    BY <2>0, EndingAlone
  <2>2. \A q \in Procs : On(q, r)' => Sound(q, r)'
    BY <1>1, <2>1, ClaimSound
  <2>3. Young(r)' <=> session' = r \/ ending'[r] # "no"
    BY <1>1, <2>1 DEF Young, Procs
  <2>4. CASE StopEnqueue(r)
    <3>1. /\ ending[r] = "enqueue" /\ ending' = [ending EXCEPT ![r] = "no"]
          /\ UNCHANGED <<meta, tracks, session>>
          /\ UNCHANGED queue \/ queue' = Append(queue, Job(r, "transcribe"))
      BY <2>4 DEF StopEnqueue, diskVars, Enqueue
    <3>2. session # r
      BY <1>0, <3>1 DEF CaptureInv
    <3>3. meta[r].status = "processing" /\ tracks[r] = "ended" /\ meta[r].attempts = 0
      BY <3>1 DEF Stage, Shape
    <3>4. ~Young(r)' /\ ~Growing(r)'
      BY <1>0, <2>3, <3>1, <3>2, <3>3 DEF Growing
    <3>5. Apart(r)'
      BY <3>4 DEF Apart
    <3>6. Shape(r)'
      BY <3>1, <3>3, <3>4 DEF Shape, Young, Growing
    <3>7. CountFits(r)'
      BY <1>1, <1>3, <3>1 DEF CountFits, Stage, Tries
    <3>8. Lined(r)'
      <4>1. /\ Job(r, "transcribe") \in Jobs /\ Job(r, "network") \in Jobs
            /\ Job(r, "transcribe").kind = "transcribe" /\ Job(r, "network").kind = "network"
            /\ Job(r, "network").rec = r
        BY DEF Job, Jobs, Kinds
      <4>2. ~InQueue(Job(r, "network"))
        BY <2>1, <4>1 DEF InQueue
      <4>3. ~InQueue(Job(r, "network"))'
        <5>1. CASE UNCHANGED queue
          BY <4>2, <5>1 DEF InQueue
        <5>2. CASE queue' = Append(queue, Job(r, "transcribe"))
          BY <4>1, <4>2, <5>2, AppendQueue
        <5>3. QED BY <3>1, <5>1, <5>2
      <4>4. meta'[r].status = "processing" /\ meta'[r].attempts < MaxAttempts
        BY <3>1, <3>3, LimitsAssumption
      <4>5. QED BY <4>3, <4>4 DEF Lined
    <3>9. QED BY <2>2, <3>5, <3>6, <3>7, <3>8 DEF Stage
  <2>5. CASE ~StopEnqueue(r)
    <3>1. UNCHANGED <<queue, queued>>
      BY <1>5, <2>5 DEF Closes, Stop, Cancel, TakeSession, EndingStep, StopFinish, StopStuck,
         CancelFinish, viewVars
    <3>2. session = r \/ ending[r] \in {"stop", "cancel"}
      BY <1>5, <2>5 DEF Closes, EndingStep, StopFinish, StopStuck, CancelFinish
    <3>3. meta[r].status = "recording" /\ tracks[r] = "live" /\ meta[r].attempts = 0
          /\ meta[r].tries = None /\ spent[r] = 0
      BY <3>2 DEF Stage, Shape
    <3>4. ~Pending(r)' /\ ~Listed(r)' /\ r \notin waiting' /\ r \notin held' /\ spent'[r] = 0
          /\ (\A i \in DOMAIN queue' : queue'[i].rec # r) /\ ~Attempting(r)'
      BY <1>1, <1>2, <1>3, <2>1, <3>1, <3>3 DEF Pending, Working
    <3>5. CASE session = r /\ (Stop \/ Cancel)
      <4>1. UNCHANGED <<meta, tracks>> /\ session' = None /\ ending'[r] \in {"stop", "cancel"}
        BY <1>0, <3>5 DEF Stop, Cancel, TakeSession, diskVars
      <4>2. Shape(r)'
        BY <1>0, <2>3, <3>3, <3>4, <4>1 DEF Shape
      <4>3. QED BY <2>2, <3>3, <3>4, <4>1, <4>2, FreshStage
    <3>6. CASE EndingStep(r)
      <4>1. UNCHANGED session /\ session # r
        BY <1>0, <3>6 DEF EndingStep, StopFinish, StopStuck, StopEnqueue, CancelFinish, CaptureInv
      <4>2. PICK m, end, tr :
              /\ meta'[r] = m /\ ending'[r] = end /\ tracks'[r] = tr
              /\ \/ m = Fresh("processing") /\ end = "enqueue" /\ tr = "ended"
                 \/ m = meta[r] /\ end = "no" /\ tr \in {"ended", "stuck"}
                 \/ m = Fresh("failed") /\ end = "no" /\ tr = "stuck"
                 \/ m = Fresh("gone") /\ end = "no" /\ tr = "none"
        <5>1. CASE StopFinish(r)
          BY <1>0, <5>1 DEF StopFinish, StopWrites, TypeDisk
        <5>2. CASE StopStuck(r)
          BY <1>0, <5>2 DEF StopStuck, StopWrites, TypeDisk
        <5>3. CASE CancelFinish(r)
          BY <1>0, <5>3 DEF CancelFinish, TypeDisk
        <5>4. QED BY <2>5, <3>6, <5>1, <5>2, <5>3 DEF EndingStep
      <4>3. m.attempts = 0 /\ m.tries = None
            /\ \/ m.status = "processing" /\ end = "enqueue" /\ tr = "ended"
               \/ m.status \in {"recording", "failed", "gone"} /\ end = "no" /\ tr # "live"
        <5>1. \A status : /\ Fresh(status).status = status /\ Fresh(status).attempts = 0
                          /\ Fresh(status).tries = None
          BY DEF Fresh
        <5>2. QED BY <3>3, <4>2, <5>1
      <4>4. tr = "stuck" => m.status \in {"recording", "failed"}
        BY <3>3, <4>2 DEF Fresh
      <4>5. Shape(r)'
        BY <2>3, <3>4, <4>1, <4>2, <4>3, <4>4 DEF Shape
      <4>6. QED BY <2>2, <3>4, <4>2, <4>3, <4>5, FreshStage
    <3>7. QED BY <1>5, <3>5, <3>6 DEF Closes
  <2>6. QED BY <2>4, <2>5
<1>6. QED BY <1>4, <1>5
----------------------------------------------------------------------------
(* Lists, rests, shutdowns and restarts.                                   *)

\* A list holds only recordings that nobody records any more.
LEMMA ListsSettled ==
  ASSUME Patient, TypeInv, TypeInv', LockInv, NEW p \in Procs, Lists(p), NEW r \in Recs, Stage(r),
         Listed(r)', ~Listed(r)
  PROVE  ~Growing(r)
<1>0. \A x \in Recs : \A kind \in Kinds : Job(x, kind) \in Jobs /\ Job(x, kind).rec = x
  BY JobType
<1>1. \E j \in todo'[p] : j.rec = r
  <2>1. PICK q \in Procs : \E j \in todo'[q] : j.rec = r
    BY DEF Listed
  <2>2. CASE q = p
    BY <2>1, <2>2
  <2>3. CASE q # p
    BY <2>1, <2>3, ListsFrame DEF Listed, TypeInv, TypeTodo
  <2>4. QED BY <2>2, <2>3
<1>2. CASE SweepList(p)
  <2>1. meta[r].status = "done"
    BY <1>0, <1>1, <1>2 DEF SweepList, Expired, TypeInv, TypeTodo, Kinds
  <2>2. QED BY <2>1, NotGrowing
<1>3. CASE p = Startup /\ RecoverList
  <2>1. r # session /\ Untouched(r) /\ lock = None
    BY <1>0, <1>1, <1>3 DEF RecoverList, TypeInv, TypeTodo, Kinds
  <2>2. \A t \in Tasks : pc[t] \notin Opening
    BY <2>1, NoneAssumption DEF LockInv, Starting
  <2>3. QED BY <2>1, <2>2 DEF Untouched, Growing, Young
<1>4. CASE p = Startup /\ StartupScan
  <2>1. meta[r].status = "waiting"
    BY <1>0, <1>1, <1>4 DEF StartupScan, TypeInv, TypeTodo, Kinds
  <2>2. QED BY <2>1, NotGrowing
<1>5. CASE p = Startup /\ ResumeList
  <2>1. meta[r].status = "done"
    BY <1>1, <1>5 DEF ResumeList, Job, TypeInv, TypeTodo
  <2>2. QED BY <2>1, NotGrowing
<1>6. CASE p = Timer /\ TimerTick
  <2>1. r \in waiting
    <3>1. \A x \in waiting : Job(x, "network").rec = x
      BY DEF Job
    <3>2. QED BY <1>1, <1>6, <3>1 DEF TimerTick, TypeInv, TypeTodo
  <2>2. QED BY <2>1, NotGrowing
<1>7. QED BY <1>2, <1>3, <1>4, <1>5, <1>6 DEF Lists

\* Neither lists nor rests change the stage.
LEMMA IdleStage ==
  ASSUME Patient, TypeInv, TypeInv', LockInv, NEW p \in Procs, Lists(p) \/ Rests(p),
         NEW r \in Recs, Stage(r)
  PROVE  Stage(r)'
<1>1. SameDisk(r) /\ SameProcs(r) /\ SameView(r)
  BY IdleSame DEF SameAll
<1>2. Listed(r)' => Listed(r) \/ ~Growing(r)
  <2>1. CASE Lists(p)
    BY <2>1, ListsSettled
  <2>2. CASE Rests(p)
    BY <2>2, RestsFrame DEF Listed
  <2>3. QED BY <2>1, <2>2
<1>3. QED BY <1>1, <1>2, StageListed

\* Nor does a shutdown that finds no attempt.
LEMMA ShutdownStage ==
  ASSUME TypeInv, TypeInv', ShutdownIdle \/ ShutdownLate, NEW r \in Recs, Stage(r)
  PROVE  Stage(r)'
<1>0. Worker \in Procs
  BY DEF Procs
<1>1. /\ Still(Worker)
      /\ UNCHANGED <<meta, tracks, session, processing, queued, waiting, held, queue, ending, spent, todo, seen>>
  BY ShutdownSame
<1>2. CASE UNCHANGED <<pc, job>>
  <2>1. SameDisk(r) /\ SameProcs(r) /\ SameView(r)
    BY <1>1, <1>2, KeptFrame DEF SameDisk, SameView, InQueue
  <2>2. Listed(r)' => Listed(r)
    BY <1>1 DEF Listed
  <2>3. QED BY <2>1, <2>2, StageListed
<1>3. CASE pc[Worker] \in {"idle", "make"} /\ pc'[Worker] = "dead"
  <2>1. ~On(Worker, r)'
    BY <1>3 DEF On, JobSteps
  <2>2. pc[Worker] \notin Opening \cup {"begin", "run"} /\ pc'[Worker] \notin Opening \cup {"begin", "run"}
    BY <1>3 DEF Opening
  <2>3. (Pending(r)' => Pending(r)) /\ (Listed(r)' => Listed(r))
    BY <1>1 DEF Pending, Working, Listed
  <2>4. SameCount(meta'[r], meta[r])
    BY <1>1 DEF SameCount
  <2>5. Lined(r)'
    BY <1>1 DEF Stage, Lined, InQueue, Tries
  <2>6. /\ tracks'[r] = tracks[r] \/ (~Growing(r) /\ tracks'[r] \notin {"live", "stuck"})
        /\ Listed(r)' => Listed(r) \/ ~Growing(r)
        /\ r \in waiting' => r \in waiting \/ ~Growing(r)
        /\ r \in held' => r \in held \/ ~Young(r)
        /\ ending'[r] = ending[r] /\ spent'[r] = spent[r] /\ (session' = r <=> session = r)
    BY <1>1, <2>3
  <2>7. QED BY <1>0, <1>1, <2>1, <2>2, <2>3, <2>4, <2>5, <2>6, QuietStage
<1>4. QED BY <1>2, <1>3, ShutdownSame

\* An attempt that takes the daemon down is counted.
LEMMA EndsStage ==
  ASSUME TypeInv, TypeInv', OwnInv, LockInv, CaptureInv, Ended, NEW r \in Recs, Stage(r)
  PROVE  Stage(r)'
<1>0. Restart /\ TypeDisk /\ r # None /\ session \in Opt(Recs) /\ Worker \in Procs
  BY NoneAssumption DEF Ended, Crash, Exit, ExitAbandon, TypeInv, TypeView, Procs
<1>1. \A q \in Procs : pc'[q] \in {"list", "idle"} /\ todo'[q] = {}
  BY <1>0 DEF Restart, Start0
<1>2. \A q \in Procs : ~On(q, r)'
  BY <1>1 DEF On, JobSteps
<1>3. /\ session' = None /\ ending'[r] = "no" /\ processing' = None /\ queued' = {} /\ waiting' = {}
      /\ held' = {} /\ queue' = <<>>
      /\ spent'[r] = spent[r] + IF Attempting(r) THEN 1 ELSE 0
  BY <1>0 DEF Restart
<1>4. tracks'[r] \notin {"live", "stuck"}
  BY DEF Ended, Crash, Exit, ExitAbandon, Closed
<1>5. ~Young(r)' /\ ~Growing(r)' /\ ~Attempting(r)'
  BY <1>0, <1>1, <1>2, <1>3, <1>4 DEF Young, Growing, Attempting, Procs
<1>6. Apart(r)' /\ Lined(r)'
  BY <1>3, <1>5 DEF Apart, Lined, InQueue
<1>7. \/ meta'[r] = meta[r]
      \/ session = r /\ meta'[r] = Fresh("processing")
      \/ /\ \E t \in Tasks : On(t, r) /\ pc[t] \in Opening
         /\ meta'[r] = Fresh("gone")
  <2>1. CASE Crash
    BY <2>1 DEF Crash
  <2>2. CASE Exit
    BY <1>0, <2>2 DEF Exit, TypeDisk
  <2>3. CASE ExitAbandon
    <3>1. UNCHANGED meta \/ (job[lock] # None /\ meta' = [meta EXCEPT ![job[lock].rec] = Fresh("gone")])
      BY <2>3 DEF ExitAbandon
    <3>2. CASE job[lock] # None /\ meta' = [meta EXCEPT ![job[lock].rec] = Fresh("gone")]
      <4>1. lock \in Tasks /\ lock \in Procs
        BY <2>3 DEF ExitAbandon, TypeInv, TypeView, Opt, Procs
      <4>2. pc[lock] \in Opening
        BY <3>2, <4>1 DEF LockInv, Starting, JobSteps, Opening
      <4>3. CASE job[lock].rec = r
        <5>1. On(lock, r)
          BY <4>2, <4>3 DEF On, Opening, JobSteps
        <5>2. QED BY <1>0, <3>2, <4>1, <4>2, <4>3, <5>1 DEF TypeDisk
      <4>4. CASE job[lock].rec # r
        BY <3>2, <4>4
      <4>5. QED BY <4>3, <4>4
    <3>3. QED BY <3>1, <3>2
  <2>4. QED BY <2>1, <2>2, <2>3 DEF Ended
<1>8. CASE meta'[r] = meta[r]
  <2>1. /\ Attempting(r) => meta[r].status \in {"waiting", "processing"}
    BY <1>0 DEF Attempting, Stage, Sound, On, JobSteps
  <2>2. /\ meta[r].attempts \in Nat /\ Tries(meta[r]) \in Nat /\ spent[r] \in Nat
        /\ MaxAttempts \in Nat /\ NetworkMax \in Nat
    BY Arithmetic
  <2>3. spent'[r] = spent[r] \/ (Attempting(r) /\ meta[r].attempts + Tries(meta[r]) = spent'[r])
    <3>1. CASE Attempting(r)
      BY <1>3, <2>1, <3>1 DEF Stage, CountFits
    <3>2. CASE ~Attempting(r)
      BY <1>3, <2>2, <3>2
    <3>3. QED BY <3>1, <3>2
  <2>4. Shape(r)'
    <3>1. meta[r].status \in {"none", "claimed", "recording"} => spent'[r] = 0
      BY <2>1, <2>3 DEF Stage, Shape
    <3>2. QED BY <1>0, <1>3, <1>4, <1>8, <3>1 DEF Stage, Shape
  <2>5. CountFits(r)'
    <3>1. meta[r].status \notin {"done", "gone"} => meta[r].attempts + Tries(meta[r]) = spent'[r] + 0
      BY <1>3, <2>2 DEF Stage, CountFits
    <3>2. meta[r].attempts <= MaxAttempts /\ Tries(meta[r]) <= NetworkMax
      BY DEF Stage, CountFits
    <3>3. spent'[r] <= MaxAttempts + NetworkMax
      <4>1. CASE spent'[r] = spent[r]
        BY <4>1 DEF Stage, CountFits
      <4>2. CASE meta[r].attempts + Tries(meta[r]) = spent'[r]
        BY <2>2, <3>2, <4>2
      <4>3. QED BY <2>3, <4>1, <4>2
    <3>4. QED BY <1>5, <1>8, <3>1, <3>2, <3>3 DEF CountFits, Tries
  <2>6. QED BY <1>2, <1>6, <2>4, <2>5 DEF Stage
<1>9. ASSUME NEW status \in {"processing", "gone"}, meta'[r] = Fresh(status), spent[r] = 0, ~Attempting(r)
      PROVE  Stage(r)'
  <2>1. meta'[r].status = status /\ meta'[r].attempts = 0 /\ meta'[r].tries = None /\ spent'[r] = 0
    BY <1>3, <1>9 DEF Fresh
  <2>2. Shape(r)'
    BY <1>0, <1>3, <1>4, <2>1 DEF Shape
  <2>3. ~Pending(r)' /\ ~Listed(r)' /\ r \notin waiting' /\ r \notin held'
        /\ \A i \in DOMAIN queue' : queue'[i].rec # r
    BY <1>1, <1>3 DEF Pending, Working, Some, Listed
  <2>4. QED BY <1>2, <1>5, <2>1, <2>2, <2>3, FreshStage
<1>10. CASE session = r /\ meta'[r] = Fresh("processing")
  <2>1. meta[r].status = "recording" /\ Young(r) /\ Growing(r)
    BY <1>10 DEF Stage, Shape, Young, Growing
  <2>2. spent[r] = 0 /\ ~Pending(r)
    BY <2>1 DEF Stage, Shape, Apart
  <2>3. ~Attempting(r)
    BY <1>0, <2>2, PendingBy DEF Attempting, On, JobSteps, AtWork
  <2>4. QED BY <1>9, <1>10, <2>2, <2>3
<1>11. ASSUME NEW t \in Tasks, On(t, r), pc[t] \in Opening, meta'[r] = Fresh("gone")
       PROVE  Stage(r)'
  <2>1. spent[r] = 0 /\ ~Pending(r)
    BY <1>11, OpeningAlone DEF Procs
  <2>2. ~Attempting(r)
    BY <1>0, <2>1, PendingBy DEF Attempting, On, JobSteps, AtWork
  <2>3. QED BY <1>9, <1>11, <2>1, <2>2
<1>12. QED BY <1>7, <1>8, <1>10, <1>11
----------------------------------------------------------------------------
(* Every step. *)

\* There is no recording when the daemon first starts.
LEMMA StageInit == Init => StageInv
<1> SUFFICES ASSUME Init, NEW r \in Recs PROVE Stage(r)
  BY DEF StageInv
<1>0. r # None
  BY NoneAssumption
<1>1. \A q \in Procs : pc[q] \in {"list", "idle"} /\ todo[q] = {}
  BY DEF Init, Start0
<1>2. meta[r] = Fresh("none") /\ tracks[r] = "none" /\ spent[r] = 0 /\ ending[r] = "no"
      /\ session = None /\ waiting = {} /\ held = {} /\ queued = {} /\ processing = None /\ queue = <<>>
  BY DEF Init
<1>3. \A q \in Procs : ~On(q, r)
  BY <1>1 DEF On, JobSteps
<1>4. ~Young(r) /\ ~Growing(r) /\ ~Attempting(r)
  BY <1>0, <1>1, <1>2, <1>3 DEF Young, Growing, Attempting, Procs
<1>5. meta[r].status = "none" /\ meta[r].attempts = 0 /\ meta[r].tries = None
  BY <1>2 DEF Fresh
<1>6. Apart(r) /\ Lined(r)
  BY <1>2, <1>4 DEF Apart, Lined, InQueue
<1>7. Shape(r)
  BY <1>0, <1>2, <1>5 DEF Shape
<1>8. CountFits(r)
  <2>1. Tries(meta[r]) = 0 /\ 0 <= MaxAttempts /\ 0 <= NetworkMax /\ 0 <= MaxAttempts + NetworkMax
        /\ 0 + 0 = 0
    BY <1>5, LimitsAssumption DEF Tries
  <2>2. QED BY <1>2, <1>4, <1>5, <2>1 DEF CountFits
<1>9. QED BY <1>3, <1>6, <1>7, <1>8 DEF Stage

\* A process that goes on with its recording keeps the stage.
LEMMA CarriesStage ==
  ASSUME Patient, TypeInv, TypeInv', LifeInv, NEW p \in Procs, Carries(p), NEW r \in Recs,
         r = job[p].rec, Stage(r)
  PROVE  Stage(r)'
<1> OwnInv /\ LockInv /\ CaptureInv
  BY DEF LifeInv
<1>1. CASE StartWrite(p) \/ StartOpen(p) \/ StartShow(p) \/ StartFails(p)
  BY <1>1, OpensStage
<1>2. CASE QuietCarry(p)
  BY <1>2, QuietCarries
<1>3. CASE RetryRepair(p)
  BY <1>3, RetryStage
<1>4. CASE GiveUp(p)
  BY <1>4, GiveUpStage
<1>5. CASE SweepWrite(p)
  BY <1>5, SweepStage
<1>6. CASE DeleteRemove(p)
  BY <1>6, DeleteStage
<1>7. CASE p = Startup /\ RecoverRepair
  BY <1>7, RecoverStage
<1>8. CASE p = Worker /\ WorkerBegin
  BY <1>8, BeginStage
<1>9. CASE p = Worker /\ ShutdownAttempt
  BY <1>9, AbortStage
<1>10. CASE p = Worker /\ \E x \in Recs : \/ WorkerDone(x) \/ WorkerDoneSummary(x)
                                          \/ WorkerFail(x) \/ WorkerNetwork(x)
  <2>1. PICK x \in Recs : \/ WorkerDone(x) \/ WorkerDoneSummary(x)
                          \/ WorkerFail(x) \/ WorkerNetwork(x)
    BY <1>10
  <2>2. x = r
    BY <1>10, <2>1 DEF WorkerDone, WorkerDoneSummary, WorkerFail, WorkerNetwork, Attempt
  <2>3. QED BY <1>10, <2>1, <2>2, EndAttemptStage
<1>11. QED BY <1>1, <1>2, <1>3, <1>4, <1>5, <1>6, <1>7, <1>8, <1>9, <1>10 DEF Carries, QuietCarry

\* Every step keeps the stage of every recording.
LEMMA StageStep ==
  ASSUME Patient, TypeInv, TypeInv', LifeInv, StageInv, [Next]_vars
  PROVE  StageInv'
<1> SUFFICES ASSUME NEW x \in Recs PROVE Stage(x)'
  BY DEF StageInv
<1>0. Stage(x) /\ OwnInv /\ LockInv /\ FreeInv /\ KnownInv /\ CaptureInv
  BY DEF LifeInv, StageInv
<1>1. ASSUME NEW r \in Recs, Touches(r), Stage(r)' PROVE Stage(x)'
  BY <1>0, <1>1, StageSame DEF Touches
<1>2. ASSUME NEW p \in Procs, Carries(p) PROVE Stage(x)'
  <2>1. PICK r \in Recs : r = job[p].rec
    BY <1>2, CarriesOn
  <2>2. Stage(r)'
    BY <1>2, <2>1, CarriesStage DEF StageInv
  <2>3. QED BY <1>0, <1>1, <1>2, <2>1, <2>2, CarriesFrame
<1>3. ASSUME NEW p \in Procs, NEW r \in Recs, TakesUp(p, r) PROVE Stage(x)'
  <2>1. Stage(r)'
    BY <1>0, <1>3, CreateStage, QuietTakes DEF StageInv
  <2>2. QED BY <1>0, <1>1, <1>3, <2>1, TakesUpFrame
<1>4. ASSUME NEW r \in Recs, Closes(r) PROVE Stage(x)'
  BY <1>0, <1>1, <1>4, ClosesStage, ClosesFrame DEF StageInv
<1>5. ASSUME NEW i \in DOMAIN queue, TakesJob(i) PROVE Stage(x)'
  <2>1. PICK r \in Recs : r = queue[i].rec
    BY TakenJob
  <2>2. QED BY <1>0, <1>1, <1>5, <2>1, TakeStage, TakesFrame DEF StageInv
<1>6. ASSUME NEW p \in Procs, Lists(p) \/ Rests(p) PROVE Stage(x)'
  BY <1>0, <1>6, IdleStage
<1>7. CASE ShutdownIdle \/ ShutdownLate
  BY <1>0, <1>7, ShutdownStage
<1>8. CASE Ended
  BY <1>0, <1>8, EndsStage
<1>9. CASE UNCHANGED vars
  <2>1. SameDisk(x) /\ SameProcs(x) /\ SameView(x) /\ (Listed(x)' <=> Listed(x))
    BY <1>9, KeptFrame DEF vars, diskVars, viewVars, localVars, pastVars, SameDisk, SameView, InQueue, Listed
  <2>2. QED BY <1>0, <2>1, StageListed
<1>10. QED BY <1>2, <1>3, <1>4, <1>5, <1>6, <1>7, <1>8, <1>9, StepKinds

\* So it holds throughout.
LEMMA StageHolds == ASSUME Patient PROVE Spec => [](TypeInv /\ LifeInv /\ StageInv)
<1>1. TypeInv /\ LifeInv /\ StageInv /\ TypeInv' /\ [Next]_vars => LifeInv' /\ StageInv'
  BY LifeStep, StageStep
<1>2. QED BY <1>1, Carried, LifeInit, StageInit, PTL DEF Spec

\* The count in a header is the number of attempts that were spent on the recording, with
\* one more while an attempt runs (count_attempt writes before the attempt, uncount_attempt
\* and rewait give back one that a shutdown or the network took): a crash in the middle
\* counts, and nothing is counted twice. Whatever the disk does and whatever is asked.
THEOREM AttemptsAreFair == ASSUME Patient PROVE Spec => []FairCount
<1>1. StageInv => FairCount
  BY DEF StageInv, Stage, CountFits, FairCount
<1>2. QED BY <1>1, StageHolds, PTL

\* A recording is tried at most MAX_ATTEMPTS times, and NETWORK_RETRY_MAX more for want of
\* a network, however often the daemon crashes in between: the count survives a restart
\* and is taken before the attempt (daemon/recording.rs recover, worker).
THEOREM NoEndlessTries == ASSUME Patient PROVE Spec => []CrashLoopEnds
<1>1. StageInv => CrashLoopEnds
  BY DEF StageInv, Stage, CountFits, CrashLoopEnds
<1>2. QED BY <1>1, StageHolds, PTL
----------------------------------------------------------------------------
(* The lifecycle: what the status may do, and who asked for it.             *)

\* Some task of a command is to repair r for another transcription.
Asked(r) == \E t \in Tasks : On(t, r) /\ pc[t] = "repair"

\* What a recording's status and whether it was asked for again may do in a step.
Follows(from, to, asked, asks) ==
  \/ /\ asks <=> asked
     /\ \/ to = from
        \/ from = "none" /\ to = "recording"
        \/ from \in {"none", "recording"} /\ to = "gone"
        \/ from = "recording" /\ to \in {"processing", "failed"}
        \/ from = "processing" /\ to \in {"done", "failed", "waiting"}
        \/ from = "waiting" /\ to \in {"processing", "failed"}
        \/ ~asked /\ from \in {"done", "failed", "waiting", "processing"} /\ to = "gone"
  \/ to = from /\ from \notin {"none", "gone"} /\ ~asked /\ asks
  \/ to = from /\ asked /\ ~asks
  \/ from \notin {"none", "gone"} /\ to = "processing" /\ asked /\ ~asks

Abides(r) == Follows(Shown(meta[r]), Shown(meta'[r]), r \in Wanted, r \in Wanted')

AbstractStep == [Lifecycle!Next]_(Lifecycle!lifeVars)

\* Who is wanted is who some task repairs.
LEMMA WantedIs ==
  /\ Wanted = {r \in Recs : OnDisk(r) /\ Asked(r)}
  /\ Wanted' = {r \in Recs : OnDisk(r)' /\ Asked(r)'}
BY DEF Wanted, Asked, On, JobSteps

\* A recording that a step leaves alone is as much wanted as before.
LEMMA WantedKept ==
  ASSUME NEW x \in Recs, Same(x)
  PROVE  meta'[x] = meta[x] /\ (x \in Wanted' <=> x \in Wanted)
<1>1. meta'[x] = meta[x]
  BY DEF Same, SameDisk
<1>2. \A t \in Tasks : (On(t, x)' /\ pc'[t] = "repair") <=> (On(t, x) /\ pc[t] = "repair")
  BY DEF Same, SameProcs, Procs, On
<1>3. OnDisk(x)' <=> OnDisk(x)
  BY <1>1 DEF OnDisk
<1>4. Asked(x)' <=> Asked(x)
  BY <1>2 DEF Asked
<1>5. QED BY <1>1, <1>3, <1>4, WantedIs

\* What one recording does maps to a step of the lifecycle, or to none.
LEMMA AbidesMaps ==
  ASSUME TypeInv, TypeInv', NEW r \in Recs, Touches(r), Abides(r)
  PROVE  AbstractStep
<1> DEFINE st == [x \in Recs |-> Shown(meta[x])]
           from == Shown(meta[r])
           to == Shown(meta'[r])
<1>1. st' = [st EXCEPT ![r] = to]
  <2>1. \A x \in Recs \ {r} : meta'[x] = meta[x]
    BY DEF Touches, Same, SameDisk
  <2>2. QED BY <2>1
<1>2. /\ Wanted \subseteq Recs /\ Wanted' \subseteq Recs
      /\ \A x \in Recs \ {r} : x \in Wanted' <=> x \in Wanted
  BY WantedKept, WantedIs DEF Touches
<1>3. /\ (r \in Wanted' <=> r \in Wanted) => Wanted' = Wanted
      /\ r \in Wanted' => Wanted' = Wanted \cup {r}
      /\ r \notin Wanted' => Wanted' = Wanted \ {r}
  BY <1>2
<1>4. st[r] = from /\ (to = from => st' = st)
  BY <1>1
<1>5. from \in Statuses \ {"claimed"} /\ Follows(from, to, r \in Wanted, r \in Wanted')
  BY DEF TypeInv, TypeDisk, Meta, Shown, Statuses, Abides
<1> HIDE DEF st, from, to
<1>7. CASE to = from /\ (r \in Wanted' <=> r \in Wanted)
  BY <1>3, <1>4, <1>7 DEF AbstractStep, Lifecycle!lifeVars, st
<1>8. CASE Wanted' = Wanted /\ from = "none" /\ to = "recording"
  <2>1. Lifecycle!Begin(r)
    BY <1>1, <1>4, <1>8 DEF Lifecycle!Begin, Lifecycle!Becomes, st
  <2>2. QED BY <2>1 DEF AbstractStep, Lifecycle!Next
<1>9. CASE Wanted' = Wanted /\ from \in {"none", "recording"} /\ to = "gone"
  <2>1. Lifecycle!Discard(r)
    BY <1>1, <1>4, <1>9 DEF Lifecycle!Discard, Lifecycle!Drop, Lifecycle!Becomes, st
  <2>2. QED BY <2>1 DEF AbstractStep, Lifecycle!Next
<1>10. CASE Wanted' = Wanted /\ from = "recording" /\ to \in {"processing", "failed"}
  <2>1. Lifecycle!Stop(r)
    BY <1>1, <1>4, <1>10 DEF Lifecycle!Stop, Lifecycle!Becomes, st
  <2>2. QED BY <2>1 DEF AbstractStep, Lifecycle!Next
<1>11. CASE Wanted' = Wanted /\ from = "processing" /\ to \in {"done", "failed", "waiting"}
  <2>1. Lifecycle!Settle(r)
    BY <1>1, <1>4, <1>11 DEF Lifecycle!Settle, Lifecycle!Becomes, Lifecycle!Kept, st
  <2>2. QED BY <2>1 DEF AbstractStep, Lifecycle!Next
<1>12. CASE Wanted' = Wanted /\ from = "waiting" /\ to = "processing"
  <2>1. Lifecycle!Again(r)
    BY <1>1, <1>4, <1>12 DEF Lifecycle!Again, Lifecycle!Becomes, st
  <2>2. QED BY <2>1 DEF AbstractStep, Lifecycle!Next
<1>13. CASE Wanted' = Wanted /\ from = "waiting" /\ to = "failed"
  <2>1. Lifecycle!GiveUp(r)
    BY <1>1, <1>4, <1>13 DEF Lifecycle!GiveUp, Lifecycle!Becomes, st
  <2>2. QED BY <2>1 DEF AbstractStep, Lifecycle!Next
<1>14. CASE /\ Wanted' = Wanted /\ r \notin Wanted
            /\ from \in {"done", "failed", "waiting", "processing"} /\ to = "gone"
  <2>1. Lifecycle!Delete(r)
    BY <1>1, <1>4, <1>14 DEF Lifecycle!Delete, Lifecycle!Becomes, Lifecycle!Kept, st
  <2>2. QED BY <2>1 DEF AbstractStep, Lifecycle!Next
<1>15. CASE to = from /\ from \notin {"none", "gone"} /\ r \notin Wanted /\ r \in Wanted'
  <2>1. Lifecycle!Want(r)
    BY <1>3, <1>4, <1>15 DEF Lifecycle!Want, st
  <2>2. QED BY <2>1 DEF AbstractStep, Lifecycle!Next
<1>16. CASE to = from /\ r \in Wanted /\ r \notin Wanted'
  <2>1. Lifecycle!Unwant(r)
    BY <1>3, <1>4, <1>16 DEF Lifecycle!Unwant, st
  <2>2. QED BY <2>1 DEF AbstractStep, Lifecycle!Next
<1>17. CASE from \notin {"none", "gone"} /\ to = "processing" /\ r \in Wanted /\ r \notin Wanted'
  <2>1. Lifecycle!Redo(r)
    BY <1>1, <1>3, <1>4, <1>5, <1>17
       DEF Lifecycle!Redo, Lifecycle!Becomes, Lifecycle!Kept, Statuses, st
  <2>2. QED BY <2>1 DEF AbstractStep, Lifecycle!Next
<1>18. QED
  BY <1>3, <1>5, <1>7, <1>8, <1>9, <1>10, <1>11, <1>12, <1>13, <1>14, <1>15, <1>16, <1>17 DEF Follows
----------------------------------------------------------------------------
(* A process that goes on with its recording.                               *)

\* Only a task that comes to repair, or is done with it, changes who asked.
LEMMA AskedStill ==
  ASSUME NEW p \in Procs, Still(p), NEW r \in Recs,
         \/ p \notin Tasks
         \/ pc[p] # "repair" /\ pc'[p] # "repair"
  PROVE  Asked(r)' <=> Asked(r)
BY DEF Asked, On, Still, Procs

\* Whoever keeps the status and the rest of the tasks as they were abides.
LEMMA SameAbides ==
  ASSUME NEW r \in Recs, meta'[r].status = meta[r].status, Asked(r)' <=> Asked(r)
  PROVE  Abides(r)
BY WantedIs DEF Abides, Follows, Shown, OnDisk

\* A recording whose files are its recorder's is not asked for.
LEMMA GrowingUnasked ==
  ASSUME NEW r \in Recs, Stage(r), Growing(r)
  PROVE  ~Asked(r)
BY DEF Asked, Stage, Sound, Procs, Opening

\* Nor is one that somebody else rewrites.
LEMMA OwnedUnasked ==
  ASSUME TypeInv, OwnInv, NEW p \in Procs, NEW r \in Recs, On(p, r),
         pc[p] \in {"repair", "giveUp", "clear", "nameRead", "nameWrite", "delete", "swept",
                    "begin", "run", "summary"}
  PROVE  \A t \in Tasks : On(t, r) /\ pc[t] = "repair" => t = p
<1> SUFFICES ASSUME NEW t \in Tasks, On(t, r), pc[t] = "repair" PROVE t = p
  OBVIOUS
<1>1. t \in Procs /\ job[t] \in Jobs /\ job[p] \in Jobs
  BY DEF Procs, On, TypeInv, TypeProcs, Fits
<1>2. Owns(p, r) /\ Owns(t, r)
  BY <1>1, JobsAssumption DEF Owns, On
<1>3. QED BY <1>1, <1>2, OwnersExclude DEF OneOwner

\* The steps that leave the status alone.
LEMMA QuietAbides ==
  ASSUME TypeInv, TypeInv', NEW p \in Procs, Carries(p), QuietCarry(p),
         ~RetryClaim(p), ~RepairFails(p), NEW r \in Recs, r = job[p].rec, Stage(r)
  PROVE  Abides(r)
<1>1. meta'[r].status = meta[r].status
  BY QuietDisk DEF SameCount
<1>2. pc'[p] # "repair" /\ Still(p)
  BY QuietMoves, CarriesProcs DEF JobSteps
<1>3. pc[p] # "repair"
  <2>1. CASE Send(p) \/ MarkRead(p) \/ MarkWrite(p) \/ MarkFails(p)
    BY <2>1 DEF Send, MarkRead, MarkWrite, MarkFails
  <2>2. CASE NameRead(p) \/ NameWrite(p) \/ DeleteHold(p) \/ (p = Startup /\ ResumeClear)
    BY <2>2 DEF NameRead, NameWrite, DeleteHold, ResumeClear
  <2>3. CASE p = Worker /\ (SummaryHold \/ SummaryWrite \/ SummaryRefused \/ SummaryTimeout)
    BY <2>3 DEF SummaryHold, SummaryWrite, SummaryRefused, SummaryTimeout
  <2>4. QED BY <2>1, <2>2, <2>3 DEF QuietCarry
<1>4. QED BY <1>1, <1>2, <1>3, AskedStill, SameAbides

\* A retry that reserves its recording asks for it, one that fails asks no more.
LEMMA AsksAbide ==
  ASSUME TypeInv, TypeInv', OwnInv, NEW p \in Procs, RetryClaim(p) \/ RepairFails(p),
         NEW r \in Recs, r = job[p].rec, Stage(r)
  PROVE  Abides(r)
<1>1. meta'[r].status = meta[r].status /\ Still(p) /\ Carries(p)
  BY QuietDisk, CarriesProcs DEF QuietCarry, Carries, SameCount
<1>2. OnDisk(r)' <=> OnDisk(r)
  BY <1>1 DEF OnDisk
<1>3. CASE RetryClaim(p)
  <2>1. Asked(r) => Asked(r)'
    <3>1. pc[p] # "repair"
      BY <1>3 DEF RetryClaim
    <3>2. QED BY <1>1, <3>1 DEF Asked, Still, On, Procs
  <2>2. QED BY <1>1, <1>2, <2>1, WantedIs DEF Abides, Follows, Shown, OnDisk
<1>4. CASE RepairFails(p)
  <2>1. Asked(r)' => Asked(r)
    <3>1. pc'[p] # "repair"
      BY <1>4, ReturnStill DEF RepairFails, TypeInv, JobSteps
    <3>2. QED BY <1>1, <3>1 DEF Asked, Still, On, Procs
  <2>2. QED BY <1>1, <1>2, <2>1, WantedIs DEF Abides, Follows, Shown, OnDisk
<1>5. QED BY <1>3, <1>4

\* A recording that opens is new, until it is recorded or nothing is left of it.
LEMMA OpensAbide ==
  ASSUME TypeInv, TypeInv', NEW p \in Procs, NEW r \in Recs, r = job[p].rec, Stage(r),
         StartWrite(p) \/ StartOpen(p) \/ StartShow(p) \/ StartFails(p)
  PROVE  Abides(r)
<1>1. Carries(p) /\ TypeDisk /\ TypeProcs
  BY DEF Carries, TypeInv
<1>2. On(p, r) /\ Still(p)
  BY <1>1, CarriesOn, CarriesProcs DEF On
<1>3. pc[p] \in Opening
  BY DEF StartWrite, StartOpen, StartShow, StartFails, Opening
<1>4. pc'[p] # "repair"
  <2>1. CASE StartWrite(p) \/ StartOpen(p)
    BY <1>1, <2>1, GotoStill DEF StartWrite, StartOpen
  <2>2. CASE StartShow(p)
    BY <1>1, <2>2, ReturnStill DEF StartShow, JobSteps
  <2>3. CASE StartFails(p)
    BY <1>1, <2>3 DEF StartFails, GiveUpStart, Goto, TypeProcs
  <2>4. QED BY <2>1, <2>2, <2>3
<1>5. Growing(r)
  BY <1>2, <1>3, OpeningIsYoung DEF Growing
<1>6. ~Asked(r)
  BY <1>5, GrowingUnasked
<1>7. ~Asked(r)'
  BY <1>2, <1>3, <1>4, <1>6, AskedStill DEF Opening
<1>8. r \notin Wanted /\ r \notin Wanted'
  BY <1>6, <1>7, WantedIs
<1>9. /\ pc[p] = "write" => meta[r].status = "claimed"
      /\ pc[p] \in {"open", "show"} => meta[r].status = "recording"
  BY <1>2 DEF Stage, Sound
<1>10. CASE StartWrite(p)
  <2>1. meta'[r].status = "recording" /\ meta[r].status = "claimed"
    BY <1>1, <1>9, <1>10 DEF StartWrite, TypeDisk, Fresh
  <2>2. QED BY <1>8, <2>1 DEF Abides, Follows, Shown
<1>11. CASE StartOpen(p) \/ StartShow(p)
  <2>1. meta'[r].status = "recording" /\ meta[r].status = "recording"
    BY <1>1, <1>9, <1>11 DEF StartOpen, StartShow, TypeDisk, Fresh
  <2>2. QED BY <1>8, <2>1 DEF Abides, Follows, Shown
<1>12. CASE StartFails(p)
  <2>1. meta'[r].status = "gone" /\ meta[r].status \in {"claimed", "recording"}
    BY <1>1, <1>9, <1>12 DEF StartFails, TypeDisk, Fresh
  <2>2. QED BY <1>8, <2>1 DEF Abides, Follows, Shown
<1>13. QED BY <1>10, <1>11, <1>12

\* A retry that repairs its recording was the one who asked for it.
LEMMA RetryAbides ==
  ASSUME TypeInv, TypeInv', OwnInv, NEW p \in Procs, RetryRepair(p), NEW r \in Recs, r = job[p].rec
  PROVE  Abides(r)
<1>1. On(p, r) /\ Still(p) /\ TypeProcs /\ TypeDisk
  BY CarriesOn, CarriesProcs DEF Carries, On, TypeInv
<1>2. p \in Tasks /\ pc[p] = "repair" /\ OnDisk(r)
  BY DEF RetryRepair
<1>3. pc'[p] = "send"
  BY <1>1, GotoStill DEF RetryRepair
<1>4. Asked(r) /\ ~Asked(r)'
  <2>1. \A t \in Tasks : On(t, r) /\ pc[t] = "repair" => t = p
    BY <1>1, <1>2, OwnedUnasked
  <2>2. \A t \in Tasks : (On(t, r)' /\ pc'[t] = "repair") => FALSE
    BY <1>1, <1>3, <2>1 DEF Still, On, Procs
  <2>3. QED BY <1>1, <1>2, <2>2 DEF Asked
<1>5. meta'[r].status = "processing"
  <2>1. PICK m : m = [meta[r] EXCEPT !.status = "processing", !.attempts = 0, !.tries = None]
    OBVIOUS
  <2>2. meta'[r] = m
    BY <1>1, <2>1 DEF RetryRepair, TypeDisk
  <2>3. QED BY <1>1, <2>1, <2>2 DEF TypeDisk, Meta
<1>6. r \in Wanted /\ r \notin Wanted' /\ Shown(meta[r]) \notin {"none", "gone"}
  BY <1>2, <1>4, WantedIs DEF OnDisk, Shown
<1>7. QED BY <1>5, <1>6 DEF Abides, Follows, Shown

\* What ends a recording, or one attempt at it, does not ask for another.
LEMMA EndsAbide ==
  ASSUME TypeInv, TypeInv', OwnInv, NEW p \in Procs, Carries(p), NEW r \in Recs, r = job[p].rec, Stage(r),
         \/ GiveUp(p) \/ SweepWrite(p) \/ DeleteRemove(p)
         \/ p = Startup /\ RecoverRepair
         \/ p = Worker /\ (WorkerBegin \/ ShutdownAttempt)
         \/ p = Worker /\ (WorkerDone(r) \/ WorkerDoneSummary(r) \/ WorkerFail(r) \/ WorkerNetwork(r))
  PROVE  Abides(r)
<1>1. On(p, r) /\ Still(p) /\ TypeProcs /\ TypeDisk /\ meta[r] \in Meta
  BY CarriesOn, CarriesProcs DEF On, TypeInv, TypeDisk
<1>2. Sound(p, r) /\ Stage(r)
  BY <1>1 DEF Stage
<1>3. p \notin Tasks \/ (pc[p] # "repair" /\ pc'[p] # "repair")
  <2>1. CASE GiveUp(p) \/ SweepWrite(p) \/ DeleteRemove(p)
    <3>1. pc[p] # "repair"
      BY <2>1 DEF GiveUp, SweepWrite, DeleteRemove
    <3>2. CASE GiveUp(p) \/ DeleteRemove(p)
      BY <1>1, <3>1, <3>2, ReturnStill DEF GiveUp, DeleteRemove, JobSteps
    <3>3. CASE SweepWrite(p)
      BY <1>1, <3>1, <3>3 DEF SweepWrite, Goto, TypeProcs
    <3>4. QED BY <2>1, <3>2, <3>3
  <2>2. QED BY <2>1, ProcsAssumption
<1>4. Asked(r)' <=> Asked(r)
  BY <1>1, <1>3, AskedStill
<1>5. ASSUME meta'[r].status = meta[r].status PROVE Abides(r)
  BY <1>4, <1>5, SameAbides
<1>6. ASSUME meta[r].status = "processing", meta'[r].status \in {"done", "failed", "waiting"}
      PROVE  Abides(r)
  BY <1>4, <1>6, WantedIs DEF Abides, Follows, Shown, OnDisk
<1>7. ASSUME meta[r].status = "waiting", meta'[r].status \in {"processing", "failed"}
      PROVE  Abides(r)
  BY <1>4, <1>7, WantedIs DEF Abides, Follows, Shown, OnDisk
<1>8. ASSUME meta[r].status = "recording", meta'[r].status \in {"processing", "failed"}
      PROVE  Abides(r)
  BY <1>4, <1>8, WantedIs DEF Abides, Follows, Shown, OnDisk
<1>9. CASE GiveUp(p)
  <2>1. PICK m : m = [meta[r] EXCEPT !.status = "failed"]
    OBVIOUS
  <2>2. meta'[r] = m /\ pc[p] = "giveUp"
    BY <1>1, <1>9, <2>1 DEF GiveUp, TypeDisk
  <2>3. m.status = "failed"
    BY <1>1, <2>1 DEF Meta
  <2>4. QED BY <1>2, <1>7, <2>2, <2>3 DEF Sound
<1>10. CASE SweepWrite(p)
  BY <1>5, <1>10 DEF SweepWrite
<1>11. CASE DeleteRemove(p)
  <2>1. meta'[r].status = "gone" /\ pc[p] = "delete"
    BY <1>1, <1>11 DEF DeleteRemove, TypeDisk, Fresh
  <2>2. meta[r].status \notin {"none", "claimed", "recording"}
    BY <1>2, <2>1 DEF Sound
  <2>3. ~Asked(r)
    BY <1>1, <2>1, OwnedUnasked DEF Asked
  <2>4. r \notin Wanted /\ r \notin Wanted'
    BY <1>4, <2>3, WantedIs
  <2>5. meta[r].status \in {"gone", "done", "failed", "waiting", "processing"}
    BY <1>1, <2>2 DEF Meta, Statuses
  <2>6. QED BY <2>1, <2>4, <2>5 DEF Abides, Follows, Shown
<1>12. CASE p = Startup /\ RecoverRepair
  <2>1. CASE ~Interrupted(r)
    <3>1. meta'[r] = meta[r]
      BY <1>1, <1>12, <2>1 DEF RecoverRepair, TypeDisk
    <3>2. QED BY <1>5, <3>1
  <2>2. CASE Interrupted(r)
    <3>1. PICK m : m = Recovered(meta[r])
      OBVIOUS
    <3>2. meta'[r] = m
      BY <1>1, <1>12, <2>2, <3>1 DEF RecoverRepair, TypeDisk
    <3>3. m.status \in {"failed", "processing"}
      BY <1>1, <3>1 DEF Recovered, Meta
    <3>4. QED BY <1>5, <1>6, <1>8, <2>2, <3>2, <3>3 DEF Interrupted
  <2>3. QED BY <2>1, <2>2
<1>13. CASE p = Worker /\ WorkerBegin
  <2>1. PICK m : m = [meta[r] EXCEPT !.status = "processing"]
    OBVIOUS
  <2>2. meta'[r] = m /\ pc[p] = "begin"
    BY <1>1, <1>13, <2>1 DEF WorkerBegin, TypeDisk
  <2>3. m.status = "processing"
    BY <1>1, <2>1 DEF Meta
  <2>4. meta[r].status \in {"waiting", "processing"}
    BY <1>2, <2>2 DEF Sound
  <2>5. QED BY <1>5, <1>7, <2>2, <2>3, <2>4
<1>14. CASE p = Worker /\ ShutdownAttempt
  <2>1. PICK m : m = GivenBack(meta[r], job[Worker].kind)
    OBVIOUS
  <2>2. meta'[r] = m /\ pc[p] = "run"
    BY <1>1, <1>14, <2>1 DEF ShutdownAttempt, TypeDisk
  <2>3. m.status \in {"waiting", meta[r].status}
    BY <1>1, <2>1 DEF GivenBack, Meta
  <2>4. meta[r].status = "processing"
    BY <1>2, <2>2 DEF Sound
  <2>5. QED BY <1>5, <1>6, <2>2, <2>3, <2>4
<1>15. CASE p = Worker /\ (WorkerDone(r) \/ WorkerDoneSummary(r) \/ WorkerFail(r) \/ WorkerNetwork(r))
  <2>1. pc[p] = "run"
    BY <1>15 DEF WorkerDone, WorkerDoneSummary, WorkerFail, WorkerNetwork, Attempt
  <2>2. meta[r].status = "processing"
    BY <1>2, <2>1 DEF Sound
  <2>3. seen[p] \in Meta
    BY <1>1, <2>1 DEF TypeProcs, Fits
  <2>4. PICK m : /\ meta' = [meta EXCEPT ![r] = m]
                 /\ \/ m = Transcribed(r)
                    \/ m = [meta[r] EXCEPT !.status = "failed"]
                    \/ m = WaitForNetwork(meta[r])
    BY <1>15 DEF WorkerDone, WorkerDoneSummary, WorkerFail, WorkerNetwork
  <2>5. m.status \in {"done", "failed", "waiting"}
    BY <1>1, <1>15, <2>3, <2>4 DEF Transcribed, WaitForNetwork, Meta
  <2>6. meta'[r] = m
    BY <1>1, <2>4 DEF TypeDisk
  <2>7. QED BY <1>6, <2>2, <2>5, <2>6
<1>16. QED BY <1>9, <1>10, <1>11, <1>12, <1>13, <1>14, <1>15

\* A process that goes on with its recording abides by the lifecycle.
LEMMA CarriesAbides ==
  ASSUME TypeInv, TypeInv', OwnInv, NEW p \in Procs, Carries(p), NEW r \in Recs, r = job[p].rec, Stage(r)
  PROVE  Abides(r)
<1>1. CASE StartWrite(p) \/ StartOpen(p) \/ StartShow(p) \/ StartFails(p)
  BY <1>1, OpensAbide
<1>2. CASE RetryClaim(p) \/ RepairFails(p)
  BY <1>2, AsksAbide
<1>3. CASE QuietCarry(p) /\ ~RetryClaim(p) /\ ~RepairFails(p)
  BY <1>3, QuietAbides
<1>4. CASE RetryRepair(p)
  BY <1>4, RetryAbides
<1>5. CASE \/ GiveUp(p) \/ SweepWrite(p) \/ DeleteRemove(p)
           \/ p = Startup /\ RecoverRepair
           \/ p = Worker /\ (WorkerBegin \/ ShutdownAttempt)
  BY <1>5, EndsAbide
<1>6. CASE p = Worker /\ \E x \in Recs : \/ WorkerDone(x) \/ WorkerDoneSummary(x)
                                         \/ WorkerFail(x) \/ WorkerNetwork(x)
  <2>1. PICK x \in Recs : \/ WorkerDone(x) \/ WorkerDoneSummary(x)
                          \/ WorkerFail(x) \/ WorkerNetwork(x)
    BY <1>6
  <2>2. x = r
    BY <1>6, <2>1 DEF WorkerDone, WorkerDoneSummary, WorkerFail, WorkerNetwork, Attempt
  <2>3. QED BY <1>6, <2>1, <2>2, EndsAbide
<1>7. QED BY <1>1, <1>2, <1>3, <1>4, <1>5, <1>6 DEF Carries, QuietCarry
----------------------------------------------------------------------------
(* The other steps.                                                         *)

\* A process that takes up a recording leaves its status as it is shown.
LEMMA TakesUpAbides ==
  ASSUME TypeInv, TypeInv', NEW p \in Procs, NEW r \in Recs, TakesUp(p, r)
  PROVE  Abides(r)
<1>1. Still(p) /\ pc[p] # "repair" /\ TypeProcs /\ TypeDisk
  BY TakesUpProcs DEF JobSteps, TypeInv
<1>2. p \notin Tasks \/ pc'[p] # "repair"
  <2>1. CASE StartCreate(p, r)
    BY <1>1, <2>1, GoStill DEF StartCreate
  <2>2. CASE Retry(p, r) \/ Summarize(p, r) \/ Name(p, r) \/ Delete(p, r)
    BY <1>1, <2>2, GoStill DEF Retry, Summarize, Name, Delete
  <2>3. CASE SweepHold(p, r)
    <3>1. pc' = pc \/ Go(p, "swept", Job(r, "asked"))
      BY <2>3 DEF SweepHold
    <3>2. QED BY <1>1, <3>1, GoStill
  <2>4. CASE ScanGone(p, r) \/ ScanNotYet(p, r) \/ ScanDue(p, r)
    BY <1>1, <2>4 DEF ScanGone, ScanNotYet, ScanDue
  <2>5. CASE ScanGiveUp(p, r)
    <3>1. pc' = pc \/ Go(p, "giveUp", Job(r, "network"))
      BY <2>5 DEF ScanGiveUp
    <3>2. QED BY <1>1, <3>1, GoStill
  <2>6. CASE p = Startup
    BY <2>6, ProcsAssumption
  <2>7. QED BY <2>1, <2>2, <2>3, <2>4, <2>5, <2>6 DEF TakesUp
<1>3. Asked(r)' <=> Asked(r)
  BY <1>1, <1>2, AskedStill
<1>4. CASE StartCreate(p, r)
  <2>1. meta[r].status = "none" /\ meta'[r].status = "claimed"
    BY <1>1, <1>4 DEF StartCreate, TypeDisk, Fresh
  <2>2. QED BY <1>3, <2>1, WantedIs DEF Abides, Follows, Shown, OnDisk
<1>5. CASE ~StartCreate(p, r)
  <2>1. meta' = meta
    BY <1>5 DEF TakesUp, Retry, Summarize, Name, Delete, SweepHold, ScanGiveUp, ScanGone, ScanNotYet,
                ScanDue, Scanning, RecoverOne, ResumeOff, ResumeOne, diskVars
  <2>2. QED BY <1>3, <2>1, SameAbides
<1>6. QED BY <1>4, <1>5

\* The end of a recording makes it stopped, failed or gone.
LEMMA ClosesAbides ==
  ASSUME TypeInv, TypeInv', NEW r \in Recs, Closes(r), Stage(r)
  PROVE  Abides(r)
<1>1. UNCHANGED <<pc, job>> /\ TypeDisk
  BY ClosesFrame DEF TypeInv
<1>2. Asked(r)' <=> Asked(r)
  BY <1>1 DEF Asked, On
<1>3. CASE meta'[r].status = meta[r].status
  BY <1>2, <1>3, SameAbides
<1>4. CASE StopFinish(r) \/ StopStuck(r)
  <2>1. meta[r].status = "recording"
    BY <1>4 DEF StopFinish, StopStuck, Stage, Shape
  <2>2. meta' = meta \/ meta'[r].status \in {"processing", "failed"}
    BY <1>1, <1>4 DEF StopFinish, StopStuck, StopWrites, TypeDisk, Fresh
  <2>3. QED BY <1>2, <1>3, <2>1, <2>2, WantedIs DEF Abides, Follows, Shown, OnDisk
<1>5. CASE CancelFinish(r)
  <2>1. meta[r].status = "recording" /\ Growing(r)
    BY <1>5 DEF CancelFinish, Stage, Shape, Growing, Young
  <2>2. ~Asked(r)
    BY <2>1, GrowingUnasked
  <2>3. meta'[r].status = "gone"
    BY <1>1, <1>5 DEF CancelFinish, TypeDisk, Fresh
  <2>4. QED BY <1>2, <2>1, <2>2, <2>3, WantedIs DEF Abides, Follows, Shown
<1>6. CASE Stop \/ Cancel \/ StopEnqueue(r) \/ StuckEnds(r)
  BY <1>3, <1>6 DEF Stop, Cancel, TakeSession, StopEnqueue, StuckEnds, diskVars
<1>7. QED BY <1>4, <1>5, <1>6 DEF Closes, EndingStep

\* Taking a job counts the attempt, and that is all.
LEMMA TakesJobAbides ==
  ASSUME TypeInv, TypeInv', FreeInv, NEW i \in DOMAIN queue, TakesJob(i), NEW r \in Recs,
         r = queue[i].rec
  PROVE  Abides(r)
<1>1. Still(Worker) /\ Worker \in Procs /\ Worker \notin Tasks /\ meta[r] \in Meta /\ TypeDisk
  BY TakesFrame, ProcsAssumption DEF Procs, TypeInv, TypeDisk
<1>2. Asked(r)' <=> Asked(r)
  BY <1>1, AskedStill
<1>3. PICK m : m = Counted(meta[r], queue[i].kind)
  OBVIOUS
<1>4. m.status = meta[r].status
  BY <1>1, <1>3 DEF Counted, Meta
<1>5. meta'[r] \in {m, meta[r]}
  BY <1>1, <1>3 DEF TakesJob, TypeDisk
<1>6. QED BY <1>2, <1>4, <1>5, SameAbides

\* What leaves the recordings and the commands' tasks alone is no step of the lifecycle.
LEMMA StillMaps ==
  ASSUME UNCHANGED meta, \A t \in Tasks : pc'[t] = pc[t] /\ job'[t] = job[t]
  PROVE  AbstractStep
<1>1. \A x \in Recs : (OnDisk(x)' <=> OnDisk(x)) /\ (Asked(x)' <=> Asked(x))
  BY DEF OnDisk, Asked, On
<1>2. Wanted' = Wanted
  BY <1>1, WantedIs
<1>3. QED BY <1>2 DEF AbstractStep, Lifecycle!lifeVars

\* An end of the daemon forgets who asked, and finalizes the recording in progress.
LEMMA EndedMaps ==
  ASSUME TypeInv, TypeInv', LockInv, StageInv, Ended
  PROVE  AbstractStep
<1> DEFINE st == [x \in Recs |-> Shown(meta[x])]
<1>0. Restart /\ TypeDisk /\ TypeProcs /\ session \in Opt(Recs) /\ lock \in Opt(Tasks)
  BY DEF Ended, Crash, Exit, ExitAbandon, TypeInv, TypeView
<1>1. Wanted' = {}
  <2>1. \A t \in Tasks : pc'[t] = "idle"
    BY <1>0, ProcsAssumption DEF Restart, Start0, Procs
  <2>2. QED BY <2>1, WantedIs DEF Asked
<1>2. CASE UNCHANGED meta
  <2>1. Lifecycle!Halt
    BY <1>1, <1>2 DEF Lifecycle!Halt
  <2>2. QED BY <2>1 DEF AbstractStep, Lifecycle!Next
<1>3. ASSUME NEW r \in Recs, NEW to \in {"processing", "gone"},
             meta' = [meta EXCEPT ![r] = Fresh(to)],
             Shown(meta[r]) = "recording" \/ (Shown(meta[r]) = "none" /\ to = "gone")
      PROVE  AbstractStep
  <2>1. st' = [st EXCEPT ![r] = to] /\ st[r] = Shown(meta[r])
    BY <1>0, <1>3 DEF TypeDisk, Fresh, Shown
  <2>2. Lifecycle!Interrupt(r)
    BY <1>1, <1>3, <2>1 DEF Lifecycle!Interrupt, Lifecycle!Drop, Lifecycle!Becomes
  <2>3. QED BY <2>2 DEF AbstractStep, Lifecycle!Next
<1>4. CASE Crash
  BY <1>2, <1>4 DEF Crash
<1>5. CASE Exit
  <2>1. CASE session = None
    BY <1>2, <1>5, <2>1 DEF Exit
  <2>2. CASE session # None
    <3>1. session \in Recs /\ meta' = [meta EXCEPT ![session] = Fresh("processing")]
      BY <1>0, <1>5, <2>2 DEF Exit, Opt
    <3>2. meta[session].status = "recording"
      BY <3>1 DEF StageInv, Stage, Shape
    <3>3. QED BY <1>3, <3>1, <3>2 DEF Shown
  <2>3. QED BY <2>1, <2>2
<1>6. CASE ExitAbandon
  <2>1. lock \in Tasks /\ lock \in Procs
    BY <1>0, <1>6 DEF ExitAbandon, Opt, Procs
  <2>2. CASE UNCHANGED meta
    BY <1>2, <2>2
  <2>3. CASE job[lock] # None /\ meta' = [meta EXCEPT ![job[lock].rec] = Fresh("gone")]
    <3>1. pc[lock] \in Opening
      BY <2>1, <2>3 DEF LockInv, Starting, JobSteps, Opening
    <3>2. PICK r \in Recs : r = job[lock].rec
      BY <1>0, <2>1, <3>1 DEF TypeProcs, Fits, JobSteps, Opening, Jobs
    <3>3. On(lock, r)
      BY <3>1, <3>2 DEF On, Opening, JobSteps
    <3>4. meta[r].status \in {"claimed", "recording"}
      BY <2>1, <3>1, <3>3 DEF StageInv, Stage, Sound, Opening
    <3>5. meta' = [meta EXCEPT ![r] = Fresh("gone")]
      BY <2>3, <3>2
    <3>6. QED BY <1>3, <3>4, <3>5 DEF Shown
  <2>4. QED BY <1>6, <2>2, <2>3 DEF ExitAbandon
<1>7. QED BY <1>4, <1>5, <1>6 DEF Ended
----------------------------------------------------------------------------
(* Every step.                                                              *)

\* Every step of the daemon is a step of the lifecycle of one recording, or none.
LEMMA NextMaps ==
  ASSUME TypeInv, TypeInv', LifeInv, StageInv, [Next]_vars
  PROVE  AbstractStep
<1>0. OwnInv /\ LockInv /\ FreeInv /\ \A r \in Recs : Stage(r)
  BY DEF LifeInv, StageInv
<1>1. ASSUME NEW p \in Procs, Carries(p) PROVE AbstractStep
  <2>1. PICK r \in Recs : r = job[p].rec
    BY <1>1, CarriesOn
  <2>2. Touches(r)
    BY <1>0, <1>1, <2>1, CarriesFrame
  <2>3. Abides(r)
    BY <1>0, <1>1, <2>1, CarriesAbides
  <2>4. QED BY <2>2, <2>3, AbidesMaps
<1>2. ASSUME NEW p \in Procs, NEW r \in Recs, TakesUp(p, r) PROVE AbstractStep
  BY <1>2, TakesUpFrame, TakesUpAbides, AbidesMaps
<1>3. ASSUME NEW r \in Recs, Closes(r) PROVE AbstractStep
  BY <1>0, <1>3, ClosesFrame, ClosesAbides, AbidesMaps
<1>4. ASSUME NEW i \in DOMAIN queue, TakesJob(i) PROVE AbstractStep
  <2>1. PICK r \in Recs : r = queue[i].rec
    BY TakenJob
  <2>2. Touches(r)
    BY <1>0, <1>4, <2>1, TakesFrame
  <2>3. Abides(r)
    BY <1>0, <1>4, <2>1, TakesJobAbides
  <2>4. QED BY <2>2, <2>3, AbidesMaps
<1>5. ASSUME NEW p \in Procs, Lists(p) \/ Rests(p) PROVE AbstractStep
  <2>1. meta' = meta /\ Still(p) /\ pc[p] # "repair" /\ TypeProcs
    BY <1>5, ListsFrame, RestsFrame, IdleSame DEF TypeInv
  <2>2. \E step : pc' = [pc EXCEPT ![p] = step] /\ step # "repair"
    BY <1>5, ListsFrame, RestsFrame
  <2>3. pc'[p] # "repair"
    BY <2>1, <2>2 DEF TypeProcs
  <2>4. \A x \in Recs : (OnDisk(x)' <=> OnDisk(x)) /\ (Asked(x)' <=> Asked(x))
    BY <2>1, <2>3, AskedStill DEF OnDisk
  <2>5. Wanted' = Wanted
    BY <2>4, WantedIs
  <2>6. QED BY <2>1, <2>5 DEF AbstractStep, Lifecycle!lifeVars
<1>6. CASE ShutdownIdle \/ ShutdownLate
  BY <1>6, ShutdownSame, StillMaps, ProcsAssumption DEF Still, Procs
<1>7. CASE Ended
  BY <1>0, <1>7, EndedMaps
<1>8. CASE UNCHANGED vars
  BY <1>8, StillMaps DEF vars, diskVars, localVars
<1>9. QED BY <1>1, <1>2, <1>3, <1>4, <1>5, <1>6, <1>7, <1>8, StepKinds

\* The daemon does with each recording what RecordingLifecycle allows, whatever crashes,
\* restarts or overlaps, and however often a write fails: a status changes only along the
\* lifecycle, and a transcript that is there is replaced or deleted only as somebody asked.
\* The safety part of KeepsItsPromises, step by step (daemon/recording.rs).
THEOREM StatusFollowsTheLifecycle ==
  ASSUME Patient
  PROVE  Spec => Lifecycle!Init /\ [][Lifecycle!Next]_(Lifecycle!lifeVars)
<1>1. Init => Lifecycle!Init
  <2> SUFFICES ASSUME Init PROVE Lifecycle!Init
    OBVIOUS
  <2>1. \A r \in Recs : Shown(meta[r]) = "none" /\ ~OnDisk(r)
    BY DEF Init, Fresh, Shown, OnDisk
  <2>2. Wanted = {}
    BY <2>1 DEF Wanted
  <2>3. QED BY <2>1, <2>2 DEF Lifecycle!Init
<1>2. TypeInv /\ LifeInv /\ StageInv /\ TypeInv' /\ [Next]_vars => [Lifecycle!Next]_(Lifecycle!lifeVars)
  BY NextMaps DEF AbstractStep
<1>3. QED BY <1>1, <1>2, StageHolds, PTL DEF Spec

-----------------------------------------------------------------------------
(* Nothing is left behind.                                                  *)
Unfinished(r) == meta[r].status \in {"recording", "processing"}

\* A transcription of it is reserved, queued, or with the worker.
Trans(r) == \E j \in Working : j.rec = r /\ Transcribes(j)

\* It is with somebody who does not transcribe it.
Elsewhere(r) ==
  \/ r \in held \/ r \in waiting
  \/ \E j \in Working : j.rec = r /\ ~Transcribes(j)
  \/ \E p \in Procs : \E j \in todo[p] : j.rec = r /\ j.kind # "transcribe"
  \/ \E p \in Procs : On(p, r) /\ pc[p] = "deleteHold"

Remembered(r) ==
  Unfinished(r) =>
    /\ Trans(r) \/ Recovering(r) \/ Young(r) \/ shutting
    /\ Elsewhere(r) => Trans(r) \/ shutting

OneEach == \A j, k \in queued : j.rec = k.rec => j = k

MakeInv == pc[Worker] \in {"make", "summary"} => ~Transcribes(job[Worker])

ToRecover == \E r \in Recs : Job(r, "transcribe") \in todo[Startup]

ListInv == ToRecover => \/ pc[Startup] \in {"recover", "repair"}
                        \/ pc[Startup] = "send" /\ Transcribes(job[Startup])

GoneInv == Gone => shutting

FateInv == OneEach /\ MakeInv /\ ListInv /\ GoneInv /\ \A r \in Recs : Remembered(r)
----------------------------------------------------------------------------
(* The queue, the worker and the start's list.                              *)

\* A recording is queued once, for a transcription or for a summary.
LEMMA OneEachStep == TypeInv /\ OwnInv /\ OneEach /\ [Next]_vars => OneEach'
<1> SUFFICES ASSUME TypeInv, OwnInv, OneEach, [Next]_vars PROVE OneEach'
  OBVIOUS
<1>1. CASE UNCHANGED vars
  BY <1>1 DEF vars, viewVars, OneEach
<1>2. CASE Next
  <2>1. Effect
    BY <1>2, TaskEffect, WorkerEffect, StartupEffect, OtherEffect DEF Next
  <2>2. CASE queued' \subseteq queued
    BY <2>2 DEF OneEach
  <2>3. ASSUME NEW j \in Jobs, ~Pending(j.rec), queued' = queued \cup {j} PROVE OneEach'
    BY <2>3 DEF OneEach, Pending, Working
  <2>4. ASSUME NEW r \in Recs, EndsInSummary(r) PROVE OneEach'
    <3>1. processing = job[Worker] /\ processing # None /\ processing.rec = r
      <4>1. Worker \in Procs /\ pc[Worker] \in AtWork
        BY <2>4 DEF EndsInSummary, AtWork, Procs
      <4>2. QED BY <2>4, <4>1, AtWorkIsWorker DEF EndsInSummary
    <3>2. \A j \in queued : j.rec # r
      BY <3>1 DEF OwnInv, WorkedOnce
    <3>3. Job(r, "auto").rec = r
      BY DEF Job
    <3>4. queued' = queued \cup {Job(r, "auto")}
      BY <2>4 DEF EndsInSummary
    <3>5. QED BY <3>2, <3>3, <3>4 DEF OneEach
  <2>5. QED
    BY <2>1, <2>2, <2>3, <2>4
       DEF Effect, Calm, Ends, Resets, Drops, Passes, Releases, Reserves, Lines, Holds, Takes, Unreserve
<1>3. QED BY <1>1, <1>2

\* Where the worker goes with the job it has.
LEMMA WorkerCarries ==
  ASSUME TypeInv, Carries(Worker)
  PROVE  \/ pc'[Worker] \notin {"make", "summary", "dead"}
         \/ pc[Worker] = "make" /\ pc'[Worker] = "summary" /\ job'[Worker] = job[Worker]
         \/ pc'[Worker] = "dead" /\ shutting'
<1> Worker \in Procs /\ TypeProcs
  BY DEF Procs, TypeInv
<1>0. ASSUME Return(Worker) PROVE pc'[Worker] = "sweep"
  BY <1>0, ReturnStill, ProcsAssumption DEF Home
<1>1. ASSUME NEW step, Goto(Worker, step) PROVE pc'[Worker] = step
  BY <1>1 DEF Goto, TypeProcs
<1>2. CASE SummaryHold
  BY <1>1, <1>2 DEF SummaryHold
<1>3. CASE ShutdownAttempt
  BY <1>1, <1>3 DEF ShutdownAttempt, ShutdownBegin
<1>4. CASE ~SummaryHold /\ ~ShutdownAttempt
  <2>1. \/ Return(Worker)
        \/ \E step : Goto(Worker, step) /\ step \notin {"make", "summary", "dead"}
    BY <1>4 DEF Carries, StartFails, GiveUpStart, StartWrite, StartOpen, StartShow, RetryClaim, RetryRepair,
       RepairFails, Send, MarkRead, MarkWrite, MarkFails, GiveUp, SweepWrite, NameRead, NameWrite,
       DeleteHold, DeleteRemove, RecoverRepair, ResumeClear, WorkerBegin, SummaryWrite, SummaryRefused,
       SummaryTimeout, WorkerDone, WorkerDoneSummary, WorkerFail, WorkerNetwork, Go
  <2>2. QED BY <1>0, <1>1, <2>1
<1>5. QED BY <1>2, <1>3, <1>4

\* The worker is dead only in a shutdown, and a job it makes a summary of is one.
LEMMA WorkerSafe ==
  TypeInv /\ FreeInv /\ MakeInv /\ GoneInv /\ [Next]_vars => MakeInv' /\ GoneInv'
<1> SUFFICES ASSUME TypeInv, FreeInv, MakeInv, GoneInv, [Next]_vars PROVE MakeInv' /\ GoneInv'
  OBVIOUS
<1> Worker \in Procs
  BY DEF Procs
<1>1. ASSUME NEW p \in Procs, Carries(p) PROVE MakeInv' /\ GoneInv'
  <2>0. shutting => shutting'
    BY <1>1 DEF Carries, StartFails, GiveUpStart, StartWrite, StartOpen, StartShow, RetryClaim, RetryRepair,
       RepairFails, Send, MarkRead, MarkWrite, MarkFails, GiveUp, SweepWrite, NameRead, NameWrite,
       DeleteHold, DeleteRemove, RecoverRepair, ResumeClear, WorkerBegin, SummaryWrite, SummaryRefused,
       SummaryTimeout, SummaryHold, WorkerDone, WorkerDoneSummary, WorkerFail, WorkerNetwork, Attempt, Quiet,
       ShutdownAttempt, ShutdownBegin
  <2>1. CASE p = Worker
    BY <1>1, <2>1, WorkerCarries DEF MakeInv, GoneInv, Gone
  <2>2. CASE p # Worker
    <3>1. Still(p)
      BY <1>1, CarriesProcs
    <3>2. QED BY <2>0, <2>2, <3>1 DEF MakeInv, GoneInv, Gone, Still
  <2>3. QED BY <2>1, <2>2
<1>2. ASSUME NEW p \in Procs, NEW r \in Recs, TakesUp(p, r) PROVE MakeInv' /\ GoneInv'
  <2>0. shutting' = shutting
    BY <1>2 DEF TakesUp, StartCreate, Retry, Summarize, Name, Delete, SweepHold, ScanGone, Quiet,
         ScanNotYet, ScanDue, ScanGiveUp, Scanning, RecoverOne, ResumeOff, ResumeOne
  <2>1. Still(p) /\ pc[p] \notin JobSteps
    BY <1>2, TakesUpProcs
  <2>2. \/ UNCHANGED <<pc, job>>
        \/ pc'[p] \notin {"make", "summary", "dead"}
    <3>1. \/ UNCHANGED <<pc, job>>
          \/ \E step, j : Go(p, step, j) /\ step \notin {"make", "summary", "dead"}
      BY <1>2 DEF TakesUp, StartCreate, Retry, Summarize, Name, Delete, SweepHold, ScanGone,
         ScanNotYet, ScanDue, ScanGiveUp, Scanning, RecoverOne, ResumeOff, ResumeOne
    <3>2. QED BY <3>1, GoStill DEF TypeInv
  <2>3. QED BY <2>0, <2>1, <2>2 DEF MakeInv, GoneInv, Gone, Still
<1>3. ASSUME NEW r \in Recs, Closes(r) PROVE MakeInv' /\ GoneInv'
  <2>1. UNCHANGED <<pc, job>>
    BY <1>3, ClosesFrame
  <2>2. shutting' = shutting
    BY <1>3 DEF Closes, Stop, Cancel, TakeSession, EndingStep, StopFinish, StopStuck, StopEnqueue,
                CancelFinish, StuckEnds, Quiet
  <2>3. QED BY <2>1, <2>2 DEF MakeInv, GoneInv, Gone
<1>4. ASSUME NEW i \in DOMAIN queue, TakesJob(i) PROVE MakeInv' /\ GoneInv'
  <2>1. pc'[Worker] \in {"begin", "make"} /\ job'[Worker] = queue[i]
    BY <1>4, TakesFrame
  <2>2. pc'[Worker] = "make" => ~Transcribes(queue[i])
    <3>1. Transcribes(queue[i]) => Go(Worker, "begin", queue[i])
      BY <1>4 DEF TakesJob
    <3>2. QED BY <3>1, GoStill DEF TypeInv
  <2>3. QED BY <2>1, <2>2 DEF MakeInv, GoneInv, Gone
<1>5. ASSUME NEW p \in Procs, Lists(p) \/ Rests(p) PROVE MakeInv' /\ GoneInv'
  <2>1. Still(p) /\ shutting' = shutting
    BY <1>5, IdleSame, ListsFrame, RestsFrame
  <2>2. pc'[p] \notin {"make", "summary", "dead"}
    <3>1. \E step : pc' = [pc EXCEPT ![p] = step] /\ step \notin {"make", "summary", "dead"}
      BY <1>5, ListsFrame, RestsFrame
    <3>2. QED BY <3>1 DEF TypeInv, TypeProcs
  <2>3. QED BY <2>1, <2>2 DEF MakeInv, GoneInv, Gone, Still
<1>6. CASE ShutdownIdle \/ ShutdownLate
  <2>1. \/ UNCHANGED <<pc, job>>
        \/ pc'[Worker] = "dead"
    BY <1>6, ShutdownSame
  <2>2. shutting' = TRUE
    BY <1>6, ShutdownSame
  <2>3. QED BY <2>1, <2>2 DEF MakeInv, GoneInv
<1>7. CASE Ended
  <2>1. pc'[Worker] \in {"list", "idle"}
    BY <1>7 DEF Ended, Crash, Exit, ExitAbandon, Restart, Start0
  <2>2. QED BY <2>1 DEF MakeInv, GoneInv, Gone
<1>8. CASE UNCHANGED vars
  BY <1>8 DEF vars, localVars, MakeInv, GoneInv, Gone
<1>9. QED BY <1>1, <1>2, <1>3, <1>4, <1>5, <1>6, <1>7, <1>8, StepKinds

\* The start is at its first list until it makes it.
LEMMA ListStays ==
  ASSUME TypeInv, Next, ~RecoverList, ~Ended, pc[Startup] = "list"
  PROVE  pc'[Startup] = "list"
<1> Startup \in Procs /\ Worker \in Procs /\ Startup # Worker /\ Startup # Timer /\ Startup \notin Tasks
  BY ProcsAssumption DEF Procs
<1>1. ASSUME NEW p \in Procs, Carries(p) PROVE pc'[Startup] = "list"
  BY <1>1, CarriesOn, CarriesProcs DEF Still, JobSteps
<1>2. ASSUME NEW p \in Procs, NEW r \in Recs, TakesUp(p, r) PROVE pc'[Startup] = "list"
  <2>1. CASE p = Startup
    BY <1>2, <2>1 DEF TakesUp, StartCreate, Retry, Summarize, Name, Delete, Given, SweepHold, ScanGone,
         ScanNotYet, ScanDue, ScanGiveUp, Scanning, RecoverOne, ResumeOff, ResumeOne
  <2>2. CASE p # Startup
    BY <1>2, <2>2, TakesUpProcs DEF Still
  <2>3. QED BY <2>1, <2>2
<1>3. ASSUME NEW r \in Recs, Closes(r) PROVE pc'[Startup] = "list"
  BY <1>3, ClosesFrame
<1>4. ASSUME NEW i \in DOMAIN queue, TakesJob(i) PROVE pc'[Startup] = "list"
  <2>1. PICK step, j : Go(Worker, step, j)
    BY <1>4 DEF TakesJob
  <2>2. QED BY <2>1, GoStill DEF TypeInv, Still
<1>5. ASSUME NEW p \in Procs, Lists(p) \/ Rests(p) PROVE pc'[Startup] = "list"
  <2>1. Still(p)
    BY <1>5, IdleSame
  <2>2. p # Startup
    BY <1>5 DEF Lists, Rests, SweepList, ResumeList, StartupScan, StartLock, Given, StartRefused, SweepDone,
                StartupScanned
  <2>3. QED BY <2>1, <2>2 DEF Still
<1>6. CASE ShutdownIdle \/ ShutdownLate
  BY <1>6, ShutdownSame DEF Still
<1>7. QED BY <1>1, <1>2, <1>3, <1>4, <1>5, <1>6, StepKinds

\* Only the list of what a crash interrupted holds transcriptions.
LEMMA ListsSafe ==
  TypeInv /\ FreeInv /\ ListInv /\ [Next]_vars => ListInv'
<1> SUFFICES ASSUME TypeInv, FreeInv, ListInv, [Next]_vars, ToRecover' PROVE ListInv'
  BY DEF ListInv
<1> Startup \in Procs /\ Worker \in Procs /\ Startup # Worker /\ Startup # Timer /\ Startup \notin Tasks
  BY ProcsAssumption DEF Procs
<1> TypeProcs
  BY DEF TypeInv
<1>0. ASSUME todo'[Startup] \subseteq todo[Startup]
      PROVE  \/ pc[Startup] \in {"recover", "repair"}
             \/ pc[Startup] = "send" /\ Transcribes(job[Startup])
  BY <1>0 DEF ListInv, ToRecover
<1>1. ASSUME todo'[Startup] \subseteq todo[Startup], pc'[Startup] = pc[Startup], job'[Startup] = job[Startup]
      PROVE  ListInv'
  BY <1>0, <1>1 DEF ListInv, Transcribes
<1>2. ASSUME NEW p \in Procs, Carries(p) PROVE ListInv'
  <2>0. UNCHANGED todo
    BY <1>2, CarriesTodo
  <2>1. CASE p = Startup
    <3>1. \/ pc[Startup] = "repair"
          \/ pc[Startup] = "send" /\ Transcribes(job[Startup])
      BY <1>0, <1>2, <2>0, <2>1, CarriesOn DEF JobSteps
    <3>2. job[Startup] # None /\ Transcribes(job[Startup])
      <4>1. job[Startup] \in Jobs
        BY <1>2, <2>1, CarriesOn
      <4>2. QED BY <3>1, <4>1, JobsAssumption DEF TypeProcs, Fits
    <3>3. Return(Startup) => pc'[Startup] = "recover"
      BY <3>1, <3>2, ReturnStill, ProcsAssumption DEF Home
    <3>4. Return(Startup) \/ (Goto(Startup, "send") /\ UNCHANGED job)
      BY <1>2, <2>1, <3>1 DEF Carries, StartFails, StartWrite, StartOpen, StartShow, RetryClaim, RetryRepair,
       RepairFails, Send, MarkRead, MarkWrite, MarkFails, GiveUp, SweepWrite, NameRead, NameWrite,
       DeleteHold, DeleteRemove, RecoverRepair, ResumeClear
    <3>5. Goto(Startup, "send") => pc'[Startup] = "send"
      BY DEF Goto, TypeProcs
    <3>6. QED BY <3>2, <3>3, <3>4, <3>5 DEF ListInv, Transcribes
  <2>2. CASE p # Startup
    BY <1>1, <1>2, <2>0, <2>2, CarriesProcs DEF Still
  <2>3. QED BY <2>1, <2>2
<1>3. ASSUME NEW p \in Procs, NEW r \in Recs, TakesUp(p, r) PROVE ListInv'
  <2>0. todo'[Startup] \subseteq todo[Startup]
    BY <1>3, TakesUpTodo DEF TypeInv, TypeTodo
  <2>1. CASE p = Startup
    <3>1. pc[Startup] = "recover"
      BY <1>0, <1>3, <2>0, <2>1, TakesUpProcs DEF JobSteps
    <3>2. UNCHANGED pc \/ Go(Startup, "repair", Job(r, "transcribe"))
      BY <1>3, <2>1, <3>1 DEF TakesUp, StartCreate, Retry, Summarize, Name, Delete, Given, SweepHold, ScanGone,
         ScanNotYet, ScanDue, ScanGiveUp, Scanning, RecoverOne, ResumeOff, ResumeOne
    <3>3. QED BY <3>1, <3>2, GoStill DEF ListInv
  <2>2. CASE p # Startup
    BY <1>1, <1>3, <2>0, <2>2, TakesUpProcs DEF Still
  <2>3. QED BY <2>1, <2>2
<1>4. ASSUME NEW r \in Recs, Closes(r) PROVE ListInv'
  BY <1>1, <1>4, ClosesFrame
<1>5. ASSUME NEW i \in DOMAIN queue, TakesJob(i) PROVE ListInv'
  <2>1. Still(Worker)
    BY <1>5, TakesFrame
  <2>2. UNCHANGED todo
    BY <1>5 DEF TakesJob
  <2>3. QED BY <1>1, <2>1, <2>2 DEF Still
<1>6. ASSUME NEW p \in Procs, Lists(p) \/ Rests(p) PROVE ListInv'
  <2>1. Still(p)
    BY <1>6, IdleSame
  <2>2. CASE p # Startup
    <3>1. todo'[Startup] = todo[Startup]
      BY <1>6, <2>2, ListsFrame, RestsFrame DEF TypeInv, TypeTodo
    <3>2. QED BY <1>1, <2>1, <2>2, <3>1 DEF Still
  <2>3. CASE RecoverList
    BY <2>3 DEF RecoverList, Goto, TypeProcs, ListInv
  <2>4. CASE p = Startup /\ (SweepList(p) \/ ResumeList \/ StartupScan)
    <3>1. \E S : todo' = [todo EXCEPT ![Startup] = S] /\ \A r \in Recs : Job(r, "transcribe") \notin S
      <4>1. \A r, x : \A kind \in {"no", "asked", "auto", "network"} :
               Job(r, "transcribe") # Job(x, kind)
        BY DEF Job
      <4>2. \A x \in Recs : meta[x].summary \in {"no", "asked", "auto"}
        BY DEF TypeInv, TypeDisk, Meta
      <4>3. CASE SweepList(Startup)
        <5>1. PICK due : todo' = [todo EXCEPT ![Startup] = {Job(r, "asked") : r \in due}]
          BY <4>3 DEF SweepList
        <5>2. \A r \in Recs : Job(r, "transcribe") \notin {Job(x, "asked") : x \in due}
          BY <4>1
        <5>3. QED BY <5>1, <5>2
      <4>4. CASE StartupScan
        <5>1. PICK due : todo' = [todo EXCEPT ![Startup] = {Job(r, "network") : r \in due}]
          BY <4>4 DEF StartupScan
        <5>2. \A r \in Recs : Job(r, "transcribe") \notin {Job(x, "network") : x \in due}
          BY <4>1
        <5>3. QED BY <5>1, <5>2
      <4>5. CASE ResumeList
        <5>1. PICK due \in SUBSET Recs : todo' = [todo EXCEPT ![Startup] = {Job(r, meta[r].summary) : r \in due}]
          BY <4>5 DEF ResumeList
        <5>2. \A r \in Recs : Job(r, "transcribe") \notin {Job(x, meta[x].summary) : x \in due}
          BY <4>1, <4>2
        <5>3. QED BY <5>1, <5>2
      <4>6. QED BY <2>4, <4>3, <4>4, <4>5
    <3>2. QED BY <3>1 DEF ToRecover, TypeInv, TypeTodo
  <2>5. CASE p = Startup /\ Rests(p)
    <3>1. todo'[Startup] \subseteq todo[Startup] /\ pc[p] \in {"idle", "create", "sweeping", "scan"}
      BY <2>5, RestsFrame
    <3>2. QED BY <1>0, <2>5, <3>1
  <2>6. CASE p = Startup /\ Lists(p) /\ ~RecoverList
    BY <2>4, <2>6 DEF Lists
  <2>7. QED BY <1>6, <2>2, <2>3, <2>5, <2>6
<1>7. CASE ShutdownIdle \/ ShutdownLate
  BY <1>1, <1>7, ShutdownSame DEF Still
<1>8. CASE Ended
  BY <1>8 DEF Ended, Crash, Exit, ExitAbandon, Restart, ToRecover
<1>9. CASE UNCHANGED vars
  BY <1>1, <1>9 DEF vars, localVars
<1>10. QED BY <1>2, <1>3, <1>4, <1>5, <1>6, <1>7, <1>8, <1>9, StepKinds
----------------------------------------------------------------------------
(* What a step does for one recording.                                      *)

\* Whoever had it has it still.
LEMMA RememberedKept ==
  ASSUME NEW r \in Recs, Remembered(r), Unfinished(r)' => Unfinished(r), shutting => shutting',
         Trans(r) => Trans(r)', Recovering(r) => Recovering(r)', Young(r) => Young(r)',
         Elsewhere(r)' => Elsewhere(r)
  PROVE  Remembered(r)'
BY DEF Remembered

\* It is to be transcribed.
LEMMA TransIsEnough ==
  ASSUME NEW r, Trans(r)'
  PROVE  Remembered(r)'
BY DEF Remembered

\* It is its recorder's, and nobody else's.
LEMMA YoungIsEnough ==
  ASSUME TypeInv', NEW r \in Recs, Stage(r)', Young(r)'
  PROVE  Remembered(r)'
<1>1. ~Pending(r)' /\ ~Listed(r)' /\ r \notin waiting' /\ r \notin held' /\ tracks'[r] # "stuck"
  BY DEF Stage, Apart, Shape, Growing
<1>2. \A p \in Procs : ~(On(p, r)' /\ pc'[p] = "deleteHold")
  BY <1>1 DEF Stage, Sound, Growing, Opening
<1>3. ~Elsewhere(r)'
  BY <1>1, <1>2 DEF Elsewhere, Pending, Listed
<1>4. QED BY <1>3 DEF Remembered

\* It is finished, or it failed, or waits.
LEMMA FinishedIsEnough ==
  ASSUME NEW r, ~Unfinished(r)'
  PROVE  Remembered(r)'
BY DEF Remembered

\* The daemon is ending.
LEMMA ShuttingIsEnough ==
  ASSUME NEW r, shutting'
  PROVE  Remembered(r)'
BY DEF Remembered

\* The recovery's list loses nothing but what it takes up.
LEMMA RecoveringStays ==
  ASSUME TypeInv, Next, ~RecoverList, ~Ended, NEW r,
         Job(r, "transcribe") \in todo[Startup] => Job(r, "transcribe") \in todo'[Startup]
  PROVE  Recovering(r) => Recovering(r)'
BY ListStays DEF Recovering

\* A step that is about another recording.
LEMMA RememberedSame ==
  ASSUME TypeInv, TypeInv', Next, ~RecoverList, ~Ended, shutting => shutting',
         NEW x \in Recs, Same(x), Remembered(x)
  PROVE  Remembered(x)'
<1>1. queued \subseteq Jobs /\ queued' \subseteq Jobs /\ processing \in Opt(Jobs) /\ processing' \in Opt(Jobs)
  BY DEF TypeInv, TypeView
<1>2. \A j \in Jobs : j.rec = x => (j \in Working' <=> j \in Working)
  BY JobsAssumption DEF Same, SameView, Working, Some
<1>3. Working \subseteq Jobs /\ Working' \subseteq Jobs
  BY <1>1 DEF Working, Some, Opt
<1>4. Trans(x) => Trans(x)'
  BY <1>2, <1>3 DEF Trans, Transcribes
<1>5. Elsewhere(x)' => Elsewhere(x)
  <2>1. \A p \in Procs : todo'[p] \subseteq Jobs
    BY DEF TypeInv, TypeTodo
  <2>2. (\E p \in Procs : \E j \in todo[p] : j.rec = x /\ j.kind # "transcribe")'
          => \E p \in Procs : \E j \in todo[p] : j.rec = x /\ j.kind # "transcribe"
    BY <2>1 DEF Same, SameTodo
  <2>3. (\E p \in Procs : On(p, x) /\ pc[p] = "deleteHold")'
          => \E p \in Procs : On(p, x) /\ pc[p] = "deleteHold"
    BY DEF Same, SameProcs
  <2>4. (\E j \in Working : j.rec = x /\ ~Transcribes(j))' => \E j \in Working : j.rec = x /\ ~Transcribes(j)
    BY <1>2, <1>3 DEF Transcribes
  <2>5. QED BY <2>2, <2>3, <2>4 DEF Elsewhere, Same, SameView
<1>6. Young(x)' <=> Young(x)
  BY SameYoung DEF Same
<1>7. Unfinished(x)' => Unfinished(x)
  BY DEF Unfinished, Same, SameDisk
<1>8. Recovering(x) => Recovering(x)'
  <2>1. Job(x, "transcribe") \in Jobs /\ Job(x, "transcribe").rec = x /\ Startup \in Procs
    BY JobType DEF Kinds, Procs
  <2>2. QED BY <2>1, RecoveringStays DEF Same, SameTodo
<1>9. QED BY <1>4, <1>5, <1>6, <1>7, <1>8, RememberedKept

\* A step of one process that leaves the recording's status, reservation and lists.
LEMMA RememberedMoved ==
  ASSUME TypeInv, Next, ~RecoverList, ~Ended, shutting' = shutting,
         NEW p \in Procs, NEW r \in Recs, Still(p), UNCHANGED todo, Remembered(r),
         meta'[r].status = meta[r].status,
         session' = session, ending'[r] = ending[r],
         pc[p] \notin Opening, pc'[p] # "deleteHold",
         held' \subseteq held, waiting' \subseteq waiting, Working' \subseteq Working,
         \A j \in Working : j.rec = r /\ Transcribes(j) => j \in Working'
  PROVE  Remembered(r)'
<1>1. Trans(r) => Trans(r)'
  BY DEF Trans, Transcribes
<1>2. Elsewhere(r)' => Elsewhere(r)
  <2>1. (\E q \in Procs : On(q, r) /\ pc[q] = "deleteHold")'
          => \E q \in Procs : On(q, r) /\ pc[q] = "deleteHold"
    BY DEF Still, On
  <2>2. QED BY <2>1 DEF Elsewhere, Transcribes
<1>3. Young(r) => Young(r)'
  <2>1. \A t \in Tasks : On(t, r) /\ pc[t] \in Opening => (On(t, r) /\ pc[t] \in Opening)'
    BY DEF Still, On, Procs
  <2>2. QED BY <2>1 DEF Young
<1>4. Unfinished(r)' => Unfinished(r)
  BY DEF Unfinished
<1>5. Recovering(r) => Recovering(r)'
  BY RecoveringStays
<1>6. QED BY <1>1, <1>2, <1>3, <1>4, <1>5, RememberedKept

\* The steps with a recording that leave it where it is.
LEMMA QuietFate ==
  ASSUME ~DiskFails, Patient, TypeInv, TypeInv', LifeInv, FateInv, Next, ~RecoverList, ~Ended, ~shutting,
         NEW p \in Procs, QuietCarry(p), NEW r \in Recs, r = job[p].rec, Stage(r)
  PROVE  Remembered(r)'
<1>0. /\ On(p, r) /\ job[p] \in Jobs /\ OwnInv /\ LockInv /\ FreeInv /\ TypeProcs /\ Remembered(r)
  BY CarriesOn DEF On, QuietCarry, Carries, LifeInv, TypeInv, FateInv
<1>1. /\ meta'[r].status = meta[r].status /\ session' = session /\ ending'[r] = ending[r]
  BY QuietDisk DEF SameCount
<1>2. Still(p) /\ UNCHANGED todo
  BY CarriesProcs, CarriesTodo DEF QuietCarry, Carries
<1>3. pc[p] \notin Opening /\ pc'[p] # "deleteHold"
  BY QuietMoves DEF JobSteps
<1>4. shutting' = shutting
  BY DEF QuietCarry, RetryClaim, RepairFails, Send, MarkRead, MarkWrite, MarkFails, NameRead, NameWrite,
     DeleteHold, ResumeClear, SummaryHold, SummaryWrite, SummaryRefused, SummaryTimeout, Quiet
<1>5. ASSUME held' \subseteq held, waiting' \subseteq waiting, Working' \subseteq Working,
             \A j \in Working : j.rec = r /\ Transcribes(j) => j \in Working'
      PROVE  Remembered(r)'
  BY <1>0, <1>1, <1>2, <1>3, <1>4, <1>5, RememberedMoved
<1>6. CASE RetryClaim(p)
  <2>1. CASE pc'[p] = "repair"
    <3>1. queued' = queued \cup {job[p]}
      <4>1. ~Return(p)
        BY <1>0, <2>1, ReturnStill DEF JobSteps
      <4>2. QED BY <1>6, <4>1 DEF RetryClaim
    <3>2. Transcribes(job[p])
      BY <1>0, <1>6 DEF RetryClaim, TypeProcs, Fits
    <3>3. Trans(r)'
      <4>1. PICK j : j = job[p]
        OBVIOUS
      <4>2. j \in Working' /\ j.rec = r /\ Transcribes(j)
        BY <3>1, <3>2, <4>1 DEF Working
      <4>3. QED BY <4>2 DEF Trans, Transcribes
    <3>4. QED BY <3>3, TransIsEnough
  <2>2. CASE pc'[p] # "repair"
    <3>1. UNCHANGED <<queued, processing, held, waiting>>
      BY <1>0, <1>6, <2>2, GotoStill DEF RetryClaim
    <3>2. QED BY <1>5, <3>1 DEF Working
  <2>3. QED BY <2>1, <2>2
<1>7. CASE RepairFails(p)
  <2>1. meta'[r] = meta[r] /\ ~OnDisk(r)
    BY <1>7 DEF RepairFails, diskVars
  <2>2. QED BY <2>1, FinishedIsEnough DEF OnDisk, Unfinished
<1>8. CASE DeleteHold(p)
  <2>1. CASE pc'[p] = "delete"
    <3>1. ~Pending(r)
      BY <2>1, <1>8, DeletableIsFree
    <3>2. Elsewhere(r) /\ ~Trans(r)
      BY <1>0, <1>8, <3>1 DEF DeleteHold, Elsewhere, Trans, Pending
    <3>3. ~Unfinished(r)
      BY <1>0, <3>2 DEF Remembered
    <3>4. QED BY <1>1, <3>3, FinishedIsEnough DEF Unfinished
  <2>2. CASE pc'[p] # "delete"
    <3>1. UNCHANGED <<queued, processing, held, waiting>>
      BY <1>0, <1>8, <2>2, GotoStill DEF DeleteHold
    <3>2. QED BY <1>5, <3>1 DEF Working
  <2>3. QED BY <2>1, <2>2
<1>9. CASE p = Worker /\ SummaryHold
  BY <1>1, <1>9, FinishedIsEnough DEF SummaryHold, Unfinished
<1>10. CASE p = Worker /\ (SummaryWrite \/ SummaryRefused \/ SummaryTimeout)
  <2>1. processing = job[Worker] /\ ~Transcribes(job[Worker])
    BY <1>0, <1>10, AtWorkIsWorker DEF SummaryWrite, SummaryRefused, SummaryTimeout, AtWork, FateInv, MakeInv
  <2>2. processing' = None /\ UNCHANGED <<queued, waiting>> /\ held' \subseteq held
    BY <1>10 DEF SummaryWrite, SummaryRefused, SummaryTimeout
  <2>3. QED BY <1>5, <2>1, <2>2 DEF Working, Some
<1>11. CASE Send(p)
  <2>1. ~Gone
    BY DEF FateInv, GoneInv
  <2>2. UNCHANGED <<queued, processing, held>> /\ waiting' \subseteq waiting
    BY <1>11, <2>1 DEF Send, Dispatch
  <2>3. QED BY <1>5, <2>2 DEF Working
<1>12. CASE \/ MarkRead(p) \/ MarkWrite(p) \/ NameRead(p) \/ NameWrite(p)
            \/ p = Startup /\ ResumeClear
  <2>1. UNCHANGED <<queued, processing, waiting>> /\ held' \subseteq held
    BY <1>12 DEF MarkRead, MarkWrite, NameRead, NameWrite, ResumeClear, viewVars
  <2>2. QED BY <1>5, <2>1 DEF Working
<1>13. CASE MarkFails(p)
  BY <1>13 DEF MarkFails
<1>14. QED BY <1>6, <1>7, <1>8, <1>9, <1>10, <1>11, <1>12, <1>13 DEF QuietCarry

\* The steps with a recording that change what it is.
LEMMA CarriesFate ==
  ASSUME ~DiskFails, Patient, TypeInv, TypeInv', LifeInv, FateInv, Next, ~RecoverList, ~Ended, ~shutting,
         NEW p \in Procs, Carries(p), NEW r \in Recs, r = job[p].rec, Stage(r), Stage(r)'
  PROVE  Remembered(r)'
<1>0. /\ On(p, r) /\ job[p] \in Jobs /\ OwnInv /\ LockInv /\ FreeInv /\ TypeProcs /\ TypeDisk /\ Remembered(r)
  BY CarriesOn DEF On, LifeInv, TypeInv, FateInv
<1>1. CASE QuietCarry(p)
  BY <1>1, QuietFate
<1>2. CASE StartFails(p) \/ DeleteRemove(p)
  <2>1. meta'[r] = Fresh("gone")
    BY <1>0, <1>2 DEF StartFails, DeleteRemove, TypeDisk
  <2>2. QED BY <2>1, FinishedIsEnough DEF Unfinished, Fresh
<1>3. CASE StartWrite(p) \/ StartOpen(p)
  <2>1. \/ pc[p] = "write" /\ Goto(p, "open") /\ UNCHANGED job
        \/ pc[p] = "open" /\ Goto(p, "show") /\ UNCHANGED job
    BY <1>3 DEF StartWrite, StartOpen
  <2>2. p \in Tasks
    BY <1>0, <2>1, ProcSteps DEF TypeProcs, Procs, WorkerSteps, StartupSteps, TimerSteps
  <2>3. pc'[p] \in {"open", "show"} /\ job'[p] = job[p]
    BY <1>0, <2>1, GotoStill DEF Goto, TypeProcs
  <2>4. Young(r)'
    BY <2>2, <2>3 DEF Young, On, Opening, JobSteps
  <2>5. QED BY <2>4, YoungIsEnough
<1>4. CASE StartShow(p)
  <2>1. Young(r)'
    BY <1>4 DEF StartShow, Young
  <2>2. QED BY <2>1, YoungIsEnough
<1>5. CASE RetryRepair(p) \/ (p = Startup /\ RecoverRepair)
  <2>1. pc[p] = "repair"
    BY <1>5 DEF RetryRepair, RecoverRepair
  <2>2. job[p] \in queued /\ Transcribes(job[p])
    BY <1>0, <2>1 DEF OwnInv, ReservedOnce, Reserving, TypeProcs, Fits
  <2>3. ASSUME UNCHANGED queued PROVE Remembered(r)'
    <3>1. PICK j : j = job[p]
      OBVIOUS
    <3>2. j \in Working' /\ j.rec = r /\ Transcribes(j)
      BY <2>2, <2>3, <3>1 DEF Working
    <3>3. Trans(r)'
      BY <3>2 DEF Trans, Transcribes
    <3>4. QED BY <3>3, TransIsEnough
  <2>4. CASE RetryRepair(p)
    BY <2>3, <2>4 DEF RetryRepair, viewVars
  <2>5. CASE p = Startup /\ RecoverRepair /\ ~UNCHANGED queued
    <3>1. meta'[r].status # "processing"
      BY <2>5 DEF RecoverRepair
    <3>2. PICK m : m = IF Interrupted(r) THEN Recovered(meta[r]) ELSE meta[r]
      OBVIOUS
    <3>3. meta'[r] = m
      BY <1>0, <2>5, <3>2 DEF RecoverRepair, TypeDisk
    <3>4. m.status # "recording"
      BY <1>0, <3>2 DEF Interrupted, Recovered, TypeDisk, Meta
    <3>5. QED BY <3>1, <3>3, <3>4, FinishedIsEnough DEF Unfinished
  <2>6. QED BY <1>5, <2>3, <2>4, <2>5
<1>6. CASE GiveUp(p) \/ (p = Worker /\ \E x \in Recs : WorkerFail(x))
  <2>1. meta' = [meta EXCEPT ![r].status = "failed"]
    BY <1>6 DEF GiveUp, WorkerFail, Attempt
  <2>2. meta'[r].status = "failed"
    BY <1>0, <2>1 DEF TypeDisk, Meta
  <2>3. QED BY <2>2, FinishedIsEnough DEF Unfinished
<1>7. CASE SweepWrite(p)
  <2>1. /\ meta'[r].status = meta[r].status /\ UNCHANGED <<session, ending, todo, shutting, queued, processing, waiting>>
        /\ held' \subseteq held
    BY <1>7 DEF SweepWrite, Quiet
  <2>2. pc[p] = "swept" /\ Still(p) /\ pc'[p] = "sweeping"
    BY <1>0, <1>7, DropStill DEF SweepWrite
  <2>3. QED BY <1>0, <2>1, <2>2, RememberedMoved DEF Opening, Working
<1>8. CASE p = Worker /\ WorkerBegin
  <2>1. processing = job[p] /\ Transcribes(job[p]) /\ processing # None
    BY <1>0, <1>8, AtWorkIsWorker DEF WorkerBegin, AtWork, TypeProcs, Fits
  <2>2. processing' = processing
    BY <1>8 DEF WorkerBegin, viewVars
  <2>3. PICK j : j = job[p]
    OBVIOUS
  <2>4. j \in Working' /\ j.rec = r /\ Transcribes(j)
    BY <2>1, <2>2, <2>3 DEF Working, Some
  <2>5. Trans(r)'
    BY <2>4 DEF Trans, Transcribes
  <2>6. QED BY <2>5, TransIsEnough
<1>9. CASE p = Worker /\ \E x \in Recs : WorkerDone(x) \/ WorkerDoneSummary(x)
  <2>1. meta' = [meta EXCEPT ![r] = Transcribed(r)] /\ pc[Worker] = "run"
    BY <1>9 DEF WorkerDone, WorkerDoneSummary, Attempt
  <2>2. seen[Worker] \in Meta
    BY <1>0, <1>9, <2>1 DEF TypeProcs, Fits
  <2>3. meta'[r] = Transcribed(r)
    BY <1>0, <2>1 DEF TypeDisk
  <2>4. meta'[r].status = "done"
    BY <2>2, <2>3 DEF Transcribed, Meta
  <2>5. QED BY <2>4, FinishedIsEnough DEF Unfinished
<1>10. CASE p = Worker /\ \E x \in Recs : WorkerNetwork(x)
  <2>1. PICK m : m = WaitForNetwork(meta[r])
    OBVIOUS
  <2>2. meta'[r] = m
    BY <1>0, <1>10, <2>1 DEF WorkerNetwork, Attempt, TypeDisk
  <2>3. m.status = "waiting"
    BY <1>0, <2>1 DEF WaitForNetwork, TypeDisk, Meta
  <2>4. QED BY <2>2, <2>3, FinishedIsEnough DEF Unfinished
<1>11. CASE p = Worker /\ ShutdownAttempt
  BY <1>11, ShuttingIsEnough DEF ShutdownAttempt, ShutdownBegin
<1>12. QED BY <1>1, <1>2, <1>3, <1>4, <1>5, <1>6, <1>7, <1>8, <1>9, <1>10, <1>11 DEF Carries, QuietCarry
\* What somebody else has is to be transcribed too, or it is finished.
LEMMA RememberedHanded ==
  ASSUME ~shutting, NEW r \in Recs, Remembered(r), Elsewhere(r), meta'[r] = meta[r],
         Trans(r) => UNCHANGED <<queued, processing>>
  PROVE  Remembered(r)'
<1>1. CASE Unfinished(r)
  <2>1. Trans(r)
    BY <1>1 DEF Remembered
  <2>2. UNCHANGED <<queued, processing>>
    BY <2>1
  <2>3. Trans(r)'
    BY <2>1, <2>2 DEF Trans, Working, Transcribes
  <2>4. QED BY <2>3, TransIsEnough
<1>2. CASE ~Unfinished(r)
  BY <1>2, FinishedIsEnough DEF Unfinished
<1>3. QED BY <1>1, <1>2

\* Somebody who lists a recording to look at it, and to do no transcription.
LEMMA RememberedLooked ==
  ASSUME ~shutting, NEW p \in Procs, NEW r \in Recs, Remembered(r), meta'[r] = meta[r],
         NEW j, j \in todo[p], j.rec = r, j.kind # "transcribe", UNCHANGED processing,
         ~Holdable(r) => UNCHANGED queued, ~Reservable(r) => UNCHANGED queued,
         Holdable(r) /\ Reservable(r) => queued \subseteq queued'
  PROVE  Remembered(r)'
<1>1. Elsewhere(r)
  BY DEF Elsewhere
<1>2. Trans(r) => ~Holdable(r)
  BY DEF Trans, Holdable, Transcribes
<1>3. QED BY <1>1, <1>2, RememberedHanded

\* The steps that take a recording up.
LEMMA TakesUpFate ==
  ASSUME TypeInv, TypeInv', FateInv, Next, ~RecoverList, ~Ended, ~shutting,
         NEW p \in Procs, NEW r \in Recs, TakesUp(p, r), Stage(r)
  PROVE  Remembered(r)'
<1>0. TypeProcs /\ TypeDisk /\ Remembered(r)
  BY DEF FateInv, TypeInv
<1>1. CASE StartCreate(p, r)
  <2>1. meta'[r] = Fresh("claimed")
    BY <1>0, <1>1 DEF StartCreate, TypeDisk
  <2>2. QED BY <2>1, FinishedIsEnough DEF Unfinished, Fresh
<1> SUFFICES ASSUME ~StartCreate(p, r) PROVE Remembered(r)'
  BY <1>1
<1>2. UNCHANGED <<meta, ending, session>> /\ meta'[r] = meta[r] /\ Still(p) /\ pc[p] \notin JobSteps
  BY TakesUpFinds, TakesUpProcs
<1>3. CASE Retry(p, r)
  <2>1. pc'[p] = "claim"
    BY <1>0, <1>3, GoStill DEF Retry
  <2>2. UNCHANGED <<todo, shutting, held, waiting, queued, processing>>
    BY <1>3 DEF Retry, viewVars, Quiet
  <2>3. QED BY <1>0, <1>2, <2>1, <2>2, RememberedMoved DEF Opening, JobSteps, Working
<1>4. CASE Summarize(p, r) \/ Name(p, r) \/ Delete(p, r) \/ ScanNotYet(p, r) \/ ScanDue(p, r) \/ ScanGiveUp(p, r)
  <2>1. meta[r].status \in {"done", "failed", "waiting"}
    BY <1>4 DEF Summarize, Name, Delete, ScanNotYet, ScanDue, ScanGiveUp
  <2>2. QED BY <1>2, <2>1, FinishedIsEnough DEF Unfinished
<1>5. CASE SweepHold(p, r) \/ (p = Startup /\ ResumeOff(r))
  <2>1. PICK j : j \in todo[p] /\ j.rec = r /\ j.kind # "transcribe"
    BY <1>5 DEF SweepHold, ResumeOff, Job
  <2>2. UNCHANGED <<queued, processing>>
    BY <1>5 DEF SweepHold, ResumeOff
  <2>3. QED BY <1>0, <1>2, <2>1, <2>2, RememberedLooked
<1>6. CASE p = Startup /\ \E kind \in {"asked", "auto"} : ResumeOne(r, kind)
  <2>1. PICK kind \in {"asked", "auto"} : ResumeOne(r, kind)
    BY <1>6
  <2>2. PICK j : j = Job(r, kind)
    OBVIOUS
  <2>3. j \in todo[p] /\ j.rec = r /\ j.kind # "transcribe"
    BY <1>6, <2>1, <2>2 DEF ResumeOne, Job
  <2>4. UNCHANGED processing /\ (IF Reservable(r) THEN queued' = queued \cup {j} ELSE UNCHANGED queued)
    BY <2>1, <2>2 DEF ResumeOne
  <2>5. Trans(r) => ~Reservable(r)
    BY DEF Trans, Reservable, Pending
  <2>6. Elsewhere(r)
    BY <2>3 DEF Elsewhere
  <2>7. QED BY <1>0, <1>2, <2>4, <2>5, <2>6, RememberedHanded
<1>7. CASE ScanGone(p, r)
  <2>1. PICK j : j \in todo[p] /\ j.rec = r /\ j.kind # "transcribe"
    BY <1>7 DEF ScanGone, Scanning, Job
  <2>2. UNCHANGED <<queued, processing>>
    BY <1>7 DEF ScanGone, Scanning
  <2>3. QED BY <1>0, <1>2, <2>1, <2>2, RememberedLooked
<1>8. CASE p = Startup /\ RecoverOne(r)
  <2>1. PICK j : j = Job(r, "transcribe")
    OBVIOUS
  <2>2. j.rec = r /\ Transcribes(j)
    BY <2>1 DEF Job, Transcribes
  <2>3. CASE OnDisk(r) /\ Reservable(r)
    <3>1. queued' = queued \cup {j}
      BY <1>8, <2>1, <2>3 DEF RecoverOne
    <3>2. j \in Working'
      BY <3>1 DEF Working
    <3>3. Trans(r)'
      BY <2>2, <3>2 DEF Trans, Transcribes
    <3>4. QED BY <3>3, TransIsEnough
  <2>4. CASE ~OnDisk(r)
    BY <1>2, <2>4, FinishedIsEnough DEF OnDisk, Unfinished
  <2>5. CASE OnDisk(r) /\ ~Reservable(r)
    <3>1. UNCHANGED <<queued, processing>>
      BY <1>8, <2>5 DEF RecoverOne
    <3>2. Elsewhere(r) \/ Trans(r)
      BY <2>5 DEF Reservable, Pending, Elsewhere, Trans
    <3>3. CASE Elsewhere(r)
      BY <1>0, <1>2, <3>1, <3>3, RememberedHanded
    <3>4. CASE Trans(r)
      <4>1. Trans(r)'
        BY <3>1, <3>4 DEF Trans, Working, Transcribes
      <4>2. QED BY <4>1, TransIsEnough
    <3>5. QED BY <3>2, <3>3, <3>4
  <2>6. QED BY <2>3, <2>4, <2>5
<1>9. QED BY <1>3, <1>4, <1>5, <1>6, <1>7, <1>8 DEF TakesUp

\* The end of a recording's session.
LEMMA ClosesFate ==
  ASSUME ~DiskFails, TypeInv, TypeInv', LifeInv, FateInv, Next, ~RecoverList, ~Ended, ~shutting,
         NEW r \in Recs, Closes(r), Stage(r), Stage(r)'
  PROVE  Remembered(r)'
<1>0. OwnInv /\ LockInv /\ CaptureInv /\ TypeDisk /\ TypeView /\ Remembered(r) /\ ~Gone
  BY DEF LifeInv, TypeInv, FateInv, GoneInv
<1>1. UNCHANGED <<pc, job, seen, todo>>
  BY ClosesFrame
<1>2. CASE session = r /\ (Stop \/ Cancel)
  <2>1. \E how \in {"stop", "cancel"} : ending' = [ending EXCEPT ![r] = how]
    BY <1>2 DEF Stop, Cancel, TakeSession
  <2>2. ending'[r] # "no"
    BY <1>0, <2>1 DEF TypeView
  <2>3. Young(r)'
    BY <2>2 DEF Young
  <2>4. QED BY <2>3, YoungIsEnough
<1>3. CASE StopFinish(r)
  <2>1. ending' = [ending EXCEPT ![r] = "enqueue"]
    BY <1>3 DEF StopFinish
  <2>2. ending'[r] # "no"
    BY <1>0, <2>1 DEF TypeView
  <2>3. Young(r)'
    BY <2>2 DEF Young
  <2>4. QED BY <2>3, YoungIsEnough
<1>4. CASE StopStuck(r) \/ CancelFinish(r)
  <2>1. \E status \in {"failed", "gone"} : meta' = [meta EXCEPT ![r] = Fresh(status)]
    BY <1>4 DEF StopStuck, CancelFinish, StopWrites
  <2>2. \E status \in {"failed", "gone"} : meta'[r] = Fresh(status)
    BY <1>0, <2>1 DEF TypeDisk
  <2>3. QED BY <2>2, FinishedIsEnough DEF Unfinished, Fresh
<1>5. CASE StopEnqueue(r)
  <2>1. PICK j : j = Job(r, "transcribe")
    OBVIOUS
  <2>2. j.rec = r /\ Transcribes(j)
    BY <2>1 DEF Job, Transcribes
  <2>3. Reservable(r)
    BY <1>0, <1>5, EndingAlone DEF StopEnqueue, Reservable
  <2>4. queued' = queued \cup {j}
    BY <1>0, <1>5, <2>1, <2>2, <2>3 DEF StopEnqueue, Enqueue
  <2>5. j \in Working'
    BY <2>4 DEF Working
  <2>6. Trans(r)'
    BY <2>2, <2>5 DEF Trans, Transcribes
  <2>7. QED BY <2>6, TransIsEnough
<1>6. CASE StuckEnds(r)
  <2>1. UNCHANGED <<meta, queued, processing, waiting, held, session, ending, shutting, queue>>
    BY <1>6 DEF StuckEnds, viewVars, Quiet
  <2>2. (Trans(r) => Trans(r)') /\ (Elsewhere(r)' => Elsewhere(r))
    BY <1>1, <2>1 DEF Trans, Elsewhere, Working, Transcribes, On
  <2>3. (Young(r) => Young(r)') /\ (Recovering(r) => Recovering(r)') /\ (Unfinished(r)' => Unfinished(r))
    BY <1>1, <2>1 DEF Young, On, Recovering, Unfinished
  <2>4. QED BY <1>0, <2>1, <2>2, <2>3, RememberedKept
<1>7. QED BY <1>2, <1>3, <1>4, <1>5, <1>6 DEF Closes, EndingStep

\* The worker takes a job.
LEMMA TakesJobFate ==
  ASSUME TypeInv, TypeInv', LifeInv, FateInv, ~shutting,
         NEW i \in DOMAIN queue, TakesJob(i), NEW r \in Recs, r = queue[i].rec
  PROVE  Remembered(r)'
<1>0. OwnInv /\ FreeInv /\ OneEach /\ Remembered(r) /\ queue[i] \in Jobs /\ queue[i] \in queued
  BY TakenJob DEF LifeInv, FateInv, OwnInv, ReservedOnce
<1>1. processing' = queue[i]
  BY DEF TakesJob
<1>2. CASE Transcribes(queue[i])
  <2>1. PICK j : j = queue[i]
    OBVIOUS
  <2>2. j \in Working' /\ j.rec = r /\ Transcribes(j)
    BY <1>0, <1>1, <1>2, <2>1, JobsAssumption DEF Working, Some
  <2>3. Trans(r)'
    BY <2>2 DEF Trans, Transcribes
  <2>4. QED BY <2>3, TransIsEnough
<1>3. CASE ~Transcribes(queue[i])
  <2>1. processing = None
    BY <1>0 DEF TakesJob, FreeInv, AtWork
  <2>2. ~Trans(r)
    BY <1>0, <1>3, <2>1 DEF Trans, Working, Some, OneEach
  <2>3. Elsewhere(r)
    BY <1>0, <1>3 DEF Elsewhere, Working
  <2>4. ~Unfinished(r)
    BY <1>0, <2>2, <2>3 DEF Remembered
  <2>5. UNCHANGED meta
    BY <1>3 DEF TakesJob
  <2>6. QED BY <2>4, <2>5, FinishedIsEnough DEF Unfinished
<1>4. QED BY <1>2, <1>3
\* A shutdown is not taken back while the daemon runs.
LEMMA ShuttingStays ==
  ASSUME TypeInv, Next, ~Ended, shutting
  PROVE  shutting'
<1>1. ASSUME NEW p \in Procs, Carries(p) PROVE shutting'
  BY <1>1 DEF Carries, StartFails, GiveUpStart, StartWrite, StartOpen, StartShow, RetryClaim, RetryRepair,
     RepairFails, Send, MarkRead, MarkWrite, MarkFails, GiveUp, SweepWrite, NameRead, NameWrite,
     DeleteHold, DeleteRemove, RecoverRepair, ResumeClear, WorkerBegin, SummaryWrite, SummaryRefused,
     SummaryTimeout, SummaryHold, WorkerDone, WorkerDoneSummary, WorkerFail, WorkerNetwork, Attempt, Quiet,
     ShutdownAttempt, ShutdownBegin
<1>2. ASSUME NEW p \in Procs, NEW r \in Recs, TakesUp(p, r) PROVE shutting'
  BY <1>2 DEF TakesUp, StartCreate, Retry, Summarize, Name, Delete, SweepHold, ScanGone, Quiet,
     ScanNotYet, ScanDue, ScanGiveUp, Scanning, RecoverOne, ResumeOff, ResumeOne
<1>3. ASSUME NEW r \in Recs, Closes(r) PROVE shutting'
  BY <1>3 DEF Closes, Stop, Cancel, TakeSession, EndingStep, StopFinish, StopStuck, StopEnqueue,
              CancelFinish, StuckEnds, Quiet
<1>4. ASSUME NEW i \in DOMAIN queue, TakesJob(i) PROVE shutting'
  BY <1>4 DEF TakesJob
<1>5. ASSUME NEW p \in Procs, Lists(p) \/ Rests(p) PROVE shutting'
  BY <1>5, ListsFrame, RestsFrame
<1>6. CASE ShutdownIdle \/ ShutdownLate
  BY <1>6, ShutdownSame
<1>7. QED BY <1>1, <1>2, <1>3, <1>4, <1>5, <1>6, StepKinds

\* A process that goes to rest has nothing, and leaves everything.
LEMMA RestsFate ==
  ASSUME TypeInv, TypeInv', FateInv, Next, ~RecoverList, ~Ended, ~shutting,
         NEW p \in Procs, Rests(p), NEW r \in Recs
  PROVE  Remembered(r)'
<1>1. UNCHANGED <<meta, session, processing, queued, waiting, held, ending, shutting, todo>>
  BY RestsFrame
<1>2. Still(p) /\ SameDisk(r) /\ SameProcs(r) /\ SameView(r)
  BY IdleSame DEF SameAll
<1>3. SameTodo(r)
  BY <1>1 DEF SameTodo
<1>4. QED BY <1>1, <1>2, <1>3, RememberedSame DEF Same, FateInv

\* What is listed for a summary or for the network is finished or is shown as
\* waiting, and the start has its list of transcriptions behind it.
LEMMA ListsFate ==
  ASSUME TypeInv, TypeInv', FateInv, Next, ~RecoverList, ~Ended, ~shutting,
         NEW p \in Procs, Lists(p), NEW r \in Recs
  PROVE  Remembered(r)'
<1>0. TypeProcs /\ TypeTodo /\ TypeDisk /\ Remembered(r) /\ ListInv
  BY DEF TypeInv, FateInv
<1> Startup \in Procs /\ Worker \in Procs /\ Timer \in Procs /\ Startup # Timer /\ Startup # Worker
  BY ProcsAssumption DEF Procs
<1>1. UNCHANGED <<meta, session, processing, queued, waiting, held, ending, shutting, job>>
  BY ListsFrame
<1>2. Still(p) /\ SameDisk(r) /\ SameProcs(r) /\ SameView(r)
  BY IdleSame DEF SameAll
<1>3. PICK S : todo' = [todo EXCEPT ![p] = S]
  BY ListsFrame
<1>4. todo'[p] = S /\ \A q \in Procs \ {p} : todo'[q] = todo[q]
  BY <1>0, <1>3 DEF TypeTodo
<1>5. Trans(r) => Trans(r)'
  BY <1>1 DEF Trans, Working, Transcribes
<1>6. Young(r) => Young(r)'
  BY <1>2, SameYoung
<1>7. Recovering(r) => Recovering(r)'
  <2>1. CASE p = Startup
    <3>1. ~RecoverList /\ (SweepList(p) \/ ResumeList \/ StartupScan)
      BY <2>1 DEF Lists
    <3>2. pc[Startup] \in {"sweep", "resume"} \/ (pc[Startup] = "recover" /\ todo[Startup] = {})
      BY <2>1, <3>1 DEF SweepList, ResumeList, StartupScan
    <3>3. Job(r, "transcribe") \notin todo[Startup]
      BY <1>0, <3>2 DEF ListInv, ToRecover
    <3>4. QED BY <3>2, <3>3 DEF Recovering
  <2>2. CASE p # Startup
    BY <1>2, <1>4, <2>2 DEF Recovering, Still
  <2>3. QED BY <2>1, <2>2
<1>8. CASE Elsewhere(r)' => Elsewhere(r)
  BY <1>0, <1>1, <1>5, <1>6, <1>7, <1>8, RememberedKept DEF Unfinished
<1>9. CASE Elsewhere(r)' /\ ~Elsewhere(r)
  <2>1. PICK j : j \in S /\ j.rec = r /\ j.kind # "transcribe"
    <3>1. \E q \in Procs : \E j \in todo'[q] : j.rec = r /\ j.kind # "transcribe"
      <4>1. (\E q \in Procs : On(q, r) /\ pc[q] = "deleteHold")'
              => \E q \in Procs : On(q, r) /\ pc[q] = "deleteHold"
        BY <1>2 DEF SameProcs
      <4>2. QED BY <1>1, <1>9, <4>1 DEF Elsewhere, Working, Transcribes
    <3>2. QED BY <1>4, <1>9, <3>1 DEF Elsewhere
  <2>2. ~Unfinished(r)
    <3>1. CASE SweepList(p)
      <4>1. PICK due \in SUBSET {x \in Recs : Expired(x)} : todo' = [todo EXCEPT ![p] = {Job(x, "asked") : x \in due}]
        BY <3>1 DEF SweepList
      <4>2. S = {Job(x, "asked") : x \in due}
        BY <1>0, <1>4, <4>1 DEF TypeTodo
      <4>3. r \in due
        BY <2>1, <4>2 DEF Job
      <4>4. Expired(r)
        BY <4>3
      <4>5. QED BY <4>4 DEF Expired, Unfinished
    <3>2. CASE p = Startup /\ ResumeList
      <4>1. PICK due : /\ due = {x \in Recs : meta[x].status = "done" /\ meta[x].summary # "no"}
                       /\ todo' = [todo EXCEPT ![Startup] = {Job(x, meta[x].summary) : x \in due}]
        BY <3>2 DEF ResumeList
      <4>2. S = {Job(x, meta[x].summary) : x \in due}
        BY <1>0, <1>4, <3>2, <4>1 DEF TypeTodo
      <4>3. r \in due
        BY <2>1, <4>2 DEF Job
      <4>4. QED BY <4>1, <4>3 DEF Unfinished
    <3>3. CASE p = Startup /\ StartupScan
      <4>1. PICK due : /\ due = {x \in Recs : meta[x].status = "waiting"}
                       /\ todo' = [todo EXCEPT ![Startup] = {Job(x, "network") : x \in due}]
        BY <3>3 DEF StartupScan
      <4>2. S = {Job(x, "network") : x \in due}
        BY <1>0, <1>4, <3>3, <4>1 DEF TypeTodo
      <4>3. r \in due
        BY <2>1, <4>2 DEF Job
      <4>4. QED BY <4>1, <4>3 DEF Unfinished
    <3>4. CASE p = Timer /\ TimerTick
      <4>1. todo' = [todo EXCEPT ![p] = {Job(x, "network") : x \in waiting}]
        BY <3>4 DEF TimerTick
      <4>2. S = {Job(x, "network") : x \in waiting}
        BY <1>0, <1>4, <4>1 DEF TypeTodo
      <4>3. r \in waiting
        BY <2>1, <4>2 DEF Job
      <4>4. QED BY <1>9, <4>3 DEF Elsewhere
    <3>5. QED BY <3>1, <3>2, <3>3, <3>4 DEF Lists
  <2>3. QED BY <1>1, <2>2, FinishedIsEnough DEF Unfinished
<1>10. QED BY <1>8, <1>9

\* The start lists what a crash interrupted: all of it but what is recorded.
LEMMA RecoverListFate ==
  ASSUME TypeInv, TypeInv', LifeInv, FateInv, RecoverList, ~shutting, NEW r \in Recs, Stage(r)'
  PROVE  Remembered(r)'
<1>0. TypeProcs /\ TypeTodo /\ Remembered(r) /\ ListInv
  BY DEF TypeInv, FateInv
<1> Startup \in Procs /\ Worker \in Procs /\ Startup # Worker
  BY ProcsAssumption DEF Procs
<1>1. PICK listed : /\ listed = {x \in Recs : Interrupted(x) /\ x # session}
                    /\ todo' = [todo EXCEPT ![Startup] = {Job(x, "transcribe") : x \in listed}]
  BY DEF RecoverList
<1>2. UNCHANGED <<meta, session, processing, queued, waiting, held, ending, shutting, job>>
  BY DEF RecoverList, Quiet, viewVars, diskVars
<1>3. pc[Startup] = "list" /\ pc'[Startup] = "recover" /\ \A q \in Procs \ {Startup} : pc'[q] = pc[q]
  BY <1>0 DEF RecoverList, Goto, TypeProcs
<1>4. /\ todo'[Startup] = {Job(x, "transcribe") : x \in listed}
      /\ \A q \in Procs \ {Startup} : todo'[q] = todo[q]
  BY <1>0, <1>1 DEF TypeTodo
<1>5. CASE ~Unfinished(r)
  BY <1>2, <1>5, FinishedIsEnough DEF Unfinished
<1>6. CASE session = r
  <2>1. Young(r)'
    BY <1>2, <1>6 DEF Young
  <2>2. QED BY <2>1, YoungIsEnough
<1>7. CASE Unfinished(r) /\ session # r
  <2>1. r \in listed
    BY <1>1, <1>7 DEF Interrupted, Unfinished
  <2>2. Recovering(r)'
    BY <1>4, <2>1 DEF Recovering
  <2>3. Trans(r) => Trans(r)'
    BY <1>2 DEF Trans, Working, Transcribes
  <2>4. Elsewhere(r)' => Elsewhere(r)
    <3>1. \A j \in todo'[Startup] : j.kind = "transcribe"
      BY <1>4 DEF Job
    <3>2. \A q \in Procs : On(q, r)' /\ pc'[q] = "deleteHold" => On(q, r) /\ pc[q] = "deleteHold"
      BY <1>2, <1>3 DEF On
    <3>3. QED BY <1>2, <1>4, <3>1, <3>2 DEF Elsewhere, Working, Transcribes
  <2>5. QED BY <1>0, <1>2, <1>7, <2>2, <2>3, <2>4 DEF Remembered
<1>8. QED BY <1>5, <1>6, <1>7

\* Nothing is left of the daemon, and its start has everything to list.
LEMMA EndedFate ==
  ASSUME Ended, NEW r \in Recs
  PROVE  Remembered(r)'
<1>0. Restart
  BY DEF Ended, Crash, Exit, ExitAbandon
<1> Startup \in Procs
  BY DEF Procs
<1>1. pc' = Start0 /\ pc'[Startup] = "list"
  BY <1>0 DEF Restart, Start0
<1>2. /\ held' = {} /\ waiting' = {} /\ queued' = {} /\ processing' = None
      /\ \A p \in Procs : todo'[p] = {} /\ pc'[p] # "deleteHold"
  BY <1>0, <1>1 DEF Restart, Start0
<1>3. Working' = {}
  BY <1>2 DEF Working, Some
<1>4. Recovering(r)' /\ ~Elsewhere(r)'
  BY <1>1, <1>2, <1>3 DEF Recovering, Elsewhere
<1>5. QED BY <1>4 DEF Remembered

\* What the invariant says of one recording, whatever the step is.
LEMMA RememberedStep ==
  ASSUME ~DiskFails, Patient, TypeInv, TypeInv', LifeInv, StageInv, StageInv', FateInv, Next,
         NEW r \in Recs
  PROVE  Remembered(r)'
<1>0. OwnInv /\ LockInv /\ FreeInv /\ Stage(r) /\ Stage(r)' /\ Remembered(r)
  BY DEF LifeInv, StageInv, FateInv
<1>1. CASE Ended
  BY <1>1, EndedFate
<1>2. CASE ShutdownIdle \/ ShutdownLate
  BY <1>2, ShutdownSame, ShuttingIsEnough
<1>3. CASE shutting /\ ~Ended
  <2>1. shutting'
    BY <1>3, ShuttingStays
  <2>2. QED BY <2>1, ShuttingIsEnough
<1>4. CASE RecoverList /\ ~shutting
  BY <1>0, <1>4, RecoverListFate
<1> SUFFICES ASSUME ~Ended, ~shutting, ~RecoverList, ~ShutdownIdle, ~ShutdownLate PROVE Remembered(r)'
  BY <1>1, <1>2, <1>3, <1>4
<1>5. ASSUME NEW x \in Recs, Touches(x), x # r PROVE Remembered(r)'
  BY <1>0, <1>5, RememberedSame DEF Touches
<1>6. ASSUME NEW p \in Procs, Carries(p) PROVE Remembered(r)'
  <2>1. CASE r = job[p].rec
    BY <1>0, <1>6, <2>1, CarriesFate
  <2>2. CASE r # job[p].rec
    BY <1>0, <1>5, <1>6, <2>2, CarriesFrame, CarriesOn
  <2>3. QED BY <2>1, <2>2
<1>7. ASSUME NEW p \in Procs, NEW x \in Recs, TakesUp(p, x) PROVE Remembered(r)'
  BY <1>0, <1>5, <1>7, TakesUpFate, TakesUpFrame
<1>8. ASSUME NEW x \in Recs, Closes(x) PROVE Remembered(r)'
  BY <1>0, <1>5, <1>8, ClosesFate, ClosesFrame
<1>9. ASSUME NEW i \in DOMAIN queue, TakesJob(i) PROVE Remembered(r)'
  <2>1. CASE r = queue[i].rec
    BY <1>0, <1>9, <2>1, TakesJobFate
  <2>2. CASE r # queue[i].rec
    BY <1>0, <1>5, <1>9, <2>2, TakesFrame, TakenJob
  <2>3. QED BY <2>1, <2>2
<1>10. ASSUME NEW p \in Procs, Lists(p) \/ Rests(p) PROVE Remembered(r)'
  BY <1>10, ListsFate, RestsFate
<1>11. QED BY <1>6, <1>7, <1>8, <1>9, <1>10, StepKinds

\* Nothing is known of any recording yet, and the worker is at rest.
LEMMA FateInit == Init => FateInv
<1> SUFFICES ASSUME Init PROVE FateInv
  OBVIOUS
<1>1. Worker \in Procs /\ pc[Worker] # "dead" /\ pc[Worker] \notin {"make", "summary"}
  BY DEF Init, Start0, Procs
<1>2. OneEach /\ MakeInv /\ GoneInv
  BY <1>1 DEF Init, OneEach, MakeInv, GoneInv, Gone
<1>3. ListInv
  BY DEF Init, ListInv, ToRecover, Procs
<1>4. \A r \in Recs : Remembered(r)
  BY DEF Init, Remembered, Unfinished, Fresh
<1>5. QED BY <1>2, <1>3, <1>4 DEF FateInv

\* Every step keeps every part of the invariant.
LEMMA FateStep ==
  ASSUME ~DiskFails, Patient, TypeInv, TypeInv', LifeInv, StageInv, StageInv', FateInv, [Next]_vars
  PROVE  FateInv'
<1>0. OwnInv /\ FreeInv /\ OneEach /\ MakeInv /\ ListInv /\ GoneInv
  BY DEF LifeInv, FateInv
<1>1. OneEach'
  BY <1>0, OneEachStep
<1>2. MakeInv' /\ GoneInv'
  BY <1>0, WorkerSafe
<1>3. ListInv'
  BY <1>0, ListsSafe
<1>4. ASSUME NEW r \in Recs PROVE Remembered(r)'
  <2>1. CASE Next
    BY <2>1, RememberedStep
  <2>2. CASE UNCHANGED vars
    BY <2>2 DEF FateInv, Remembered, vars, diskVars, viewVars, localVars, Unfinished, Trans, Elsewhere,
                Recovering, Young, On, Working, Transcribes
  <2>3. QED BY <2>1, <2>2
<1>5. QED BY <1>1, <1>2, <1>3, <1>4 DEF FateInv

\* The invariants are enough for what the property says of one recording.
LEMMA FateIsNotForgotten == TypeInv /\ StageInv /\ FateInv => NothingForgotten
<1> SUFFICES ASSUME TypeInv, StageInv, FateInv, NEW r \in Recs, Unfinished(r)
             PROVE  Pending(r) \/ Recovering(r) \/ Recording(r) \/ shutting
  BY DEF NothingForgotten, Unfinished
<1>1. Trans(r) \/ Recovering(r) \/ Young(r) \/ shutting
  BY DEF FateInv, Remembered
<1>2. CASE Trans(r)
  BY <1>2 DEF Trans, Pending
<1>3. CASE Young(r)
  <2>1. CASE session = r \/ ending[r] # "no"
    BY <2>1 DEF Recording
  <2>2. ASSUME NEW t \in Tasks, On(t, r), pc[t] \in Opening PROVE Recording(r)
    <3>1. t \in Procs /\ job[t] \in Jobs
      BY <2>2 DEF Procs, On, TypeInv, TypeProcs, Fits
    <3>2. pc[t] # "write"
      BY <2>2, <3>1 DEF StageInv, Stage, Sound, Unfinished
    <3>3. QED BY <2>2, <3>1, <3>2, JobsAssumption DEF Recording, On, Opening
  <2>3. QED BY <1>3, <2>1, <2>2 DEF Young
<1>4. QED BY <1>1, <1>2, <1>3

\* An unfinished recording is never forgotten: the worker has it or will have
\* it, its session or its stop has it, or the start's recovery will find it.
\* Of a disk that does not fail, and a user who retries and recovers only what
\* nobody writes to.
THEOREM NothingIsForgotten == ASSUME Patient, ~DiskFails PROVE Spec => []NothingForgotten
<1>1. Spec => [](TypeInv /\ LifeInv /\ StageInv)
  BY StageHolds
<1>2. Init => FateInv
  BY FateInit
<1>3. TypeInv /\ LifeInv /\ StageInv /\ (TypeInv /\ LifeInv /\ StageInv)' /\ FateInv /\ [Next]_vars => FateInv'
  BY FateStep
<1>4. TypeInv /\ LifeInv /\ StageInv /\ FateInv => NothingForgotten
  BY FateIsNotForgotten
<1>5. QED BY <1>1, <1>2, <1>3, <1>4, PTL DEF Spec
----------------------------------------------------------------------------
(* Waiting for the network.                                                 *)


SummarySteps == {"clear", "markRead", "markWrite", "make", "summary"}

\* Where no summary is asked for, none is marked, queued, resumed or made.
PlainStep(p) ==
  /\ pc[p] \notin SummarySteps
  /\ pc[p] = "send" => Transcribes(job[p])
  /\ pc[p] \in {"nameWrite", "run"} => seen[p].summary = "no"
PlainInv ==
  /\ \A r \in Recs : meta[r].summary = "no"
  /\ \A p \in Procs : PlainStep(p)
  /\ \A j \in Working : Transcribes(j)
  /\ pc[Startup] = "resume" => todo[Startup] = {}

\* What is held is held by somebody.
HeldBy(r) == r \in held => \E q \in Procs : On(q, r) /\ pc[q] \in Holding

\* Neither a rename nor the worker's sweep has a recording that waits.
Shelved(r) ==
  meta[r].status = "waiting" =>
    /\ \A p \in Procs \ {Startup} : On(p, r) => pc[p] \notin {"nameRead", "nameWrite", "swept"}
    /\ pc[Worker] \in {"sweeping", "swept"} => Job(r, "asked") \notin todo[Worker]

\* A recording that waits is with somebody who will put it in the queue again.
Watched(r) ==
  meta[r].status = "waiting" =>
    \/ r \in waiting \/ Pending(r) \/ shutting
    \/ \E p \in Procs : On(p, r) /\ pc[p] = "delete"
    \/ pc[Startup] \in {"list", "recover", "repair", "send", "resume"}
    \/ pc[Startup] \in {"scan", "giveUp"} /\ Job(r, "network") \in todo[Startup]

WatchInv == PlainInv /\ \A r \in Recs : HeldBy(r) /\ Shelved(r) /\ Watched(r)
----------------------------------------------------------------------------
(* What a step writes to recording.json.                                    *)

\* Only an attempt that the worker ends puts a recording back to wait; only a
\* summary's own steps mark one.
LEMMA CarriesWrites ==
  ASSUME TypeInv, OwnInv, NEW p \in Procs, Carries(p), NEW r \in Recs, r = job[p].rec, Stage(r)
  PROVE  /\ \/ meta'[r].summary \in {"no", meta[r].summary}
            \/ pc[p] = "nameWrite" /\ meta'[r].summary = seen[p].summary
            \/ pc[p] \in SummarySteps
         /\ meta'[r].status = "waiting" =>
              \/ meta[r].status = "waiting"
              \/ /\ p = Worker /\ pc[p] = "run" /\ pc'[p] \in {"sweep", "dead"}
                 /\ held' = held /\ (r \in waiting' \/ shutting')
<1>0. /\ TypeProcs /\ TypeDisk /\ meta[r] \in Meta /\ On(p, r) /\ job[p] \in Jobs
      /\ \A m \in Meta : meta' = [meta EXCEPT ![r] = m] => meta'[r] = m
  BY CarriesOn DEF TypeInv, TypeDisk, On
<1>1. CASE StartFails(p) \/ DeleteRemove(p) \/ StartWrite(p) \/ StartShow(p)
  <2>1. \E status \in {"gone", "recording"} : meta'[r] = Fresh(status)
    BY <1>0, <1>1 DEF StartFails, DeleteRemove, StartWrite, StartShow, TypeDisk
  <2>2. QED BY <2>1 DEF Fresh
<1>2. CASE \/ StartOpen(p) \/ RetryClaim(p) \/ RepairFails(p) \/ Send(p) \/ MarkRead(p) \/ MarkFails(p)
           \/ SweepWrite(p) \/ NameRead(p) \/ DeleteHold(p)
           \/ p = Worker /\ (SummaryHold \/ SummaryTimeout)
  <2>1. UNCHANGED meta
    BY <1>2 DEF StartOpen, RetryClaim, RepairFails, Send, MarkRead, MarkFails, SweepWrite, NameRead,
                DeleteHold, SummaryHold, SummaryTimeout, diskVars
  <2>2. QED BY <2>1
<1>3. CASE RetryRepair(p)
  <2>1. PICK m : m = [meta[r] EXCEPT !.status = "processing", !.attempts = 0, !.tries = None]
    OBVIOUS
  <2>2. meta'[r] = m
    BY <1>0, <1>3, <2>1 DEF RetryRepair, TypeDisk
  <2>3. m.status = "processing" /\ m.summary = meta[r].summary
    BY <1>0, <2>1 DEF Meta
  <2>4. QED BY <2>2, <2>3
<1>4. CASE p = Startup /\ RecoverRepair
  <2>1. PICK m : m = IF Interrupted(r) THEN Recovered(meta[r]) ELSE meta[r]
    OBVIOUS
  <2>2. meta'[r] = m
    BY <1>0, <1>4, <2>1 DEF RecoverRepair, TypeDisk
  <2>3. m.summary = meta[r].summary /\ (m.status = "waiting" => meta[r].status = "waiting")
    BY <1>0, <2>1 DEF Recovered, Meta
  <2>4. QED BY <2>2, <2>3
<1>5. CASE GiveUp(p) \/ (p = Worker /\ \E x \in Recs : WorkerFail(x))
  <2>1. meta' = [meta EXCEPT ![r].status = "failed"]
    BY <1>5 DEF GiveUp, WorkerFail, Attempt
  <2>2. meta'[r].status = "failed" /\ meta'[r].summary = meta[r].summary
    BY <1>0, <2>1 DEF TypeDisk, Meta
  <2>3. QED BY <2>2
<1>6. CASE p = Worker /\ WorkerBegin
  <2>1. PICK m : m = [meta[r] EXCEPT !.status = "processing"]
    OBVIOUS
  <2>2. meta'[r] = m
    BY <1>0, <1>6, <2>1 DEF WorkerBegin, TypeDisk
  <2>3. m.status = "processing" /\ m.summary = meta[r].summary
    BY <1>0, <2>1 DEF Meta
  <2>4. QED BY <2>2, <2>3
<1>7. CASE p = Worker /\ \E x \in Recs : WorkerDone(x) \/ WorkerDoneSummary(x)
  <2>1. meta' = [meta EXCEPT ![r] = Transcribed(r)] /\ pc[Worker] = "run"
    BY <1>7 DEF WorkerDone, WorkerDoneSummary, Attempt
  <2>2. seen[Worker] \in Meta
    BY <1>0, <1>7, <2>1 DEF TypeProcs, Fits
  <2>3. meta'[r] = Transcribed(r)
    BY <1>0, <2>1 DEF TypeDisk
  <2>4. Transcribed(r).status = "done" /\ Transcribed(r).summary = "no"
    BY <2>2 DEF Transcribed, Meta
  <2>5. QED BY <2>3, <2>4
<1>8. CASE p = Worker /\ \E x \in Recs : WorkerNetwork(x)
  <2>1. PICK m : m = WaitForNetwork(meta[r])
    OBVIOUS
  <2>2. meta'[r] = m
    BY <1>0, <1>8, <2>1 DEF WorkerNetwork, Attempt, TypeDisk
  <2>3. m.summary = meta[r].summary
    BY <1>0, <2>1 DEF WaitForNetwork, Meta
  <2>4. pc[p] = "run" /\ held' = held /\ r \in waiting' /\ Return(Worker)
    BY <1>8 DEF WorkerNetwork, Attempt
  <2>5. pc'[p] = "sweep"
    BY <1>0, <1>8, <2>4, ReturnStill, ProcsAssumption DEF Home
  <2>6. QED BY <1>8, <2>2, <2>3, <2>4, <2>5
<1>9. CASE p = Worker /\ ShutdownAttempt
  <2>1. PICK m : m = GivenBack(meta[r], job[p].kind)
    OBVIOUS
  <2>2. meta'[r] = m
    BY <1>0, <1>9, <2>1 DEF ShutdownAttempt, TypeDisk
  <2>3. m.summary = meta[r].summary
    BY <1>0, <2>1 DEF GivenBack, Meta
  <2>4. pc[p] = "run" /\ pc'[p] = "dead" /\ held' = held /\ shutting'
    BY <1>0, <1>9 DEF ShutdownAttempt, ShutdownBegin, viewVars, Goto, TypeProcs
  <2>5. QED BY <1>9, <2>2, <2>3, <2>4
<1>10. CASE NameWrite(p)
  <2>1. PICK m : m = [seen[p] EXCEPT !.named = TRUE]
    OBVIOUS
  <2>2. seen[p] \in Meta /\ pc[p] = "nameWrite"
    BY <1>0, <1>10 DEF NameWrite, TypeProcs, Fits
  <2>3. meta'[r] = m
    BY <1>0, <1>10, <2>1 DEF NameWrite, TypeDisk
  <2>4. m.summary = seen[p].summary /\ m.status = seen[p].status
    BY <2>1, <2>2 DEF Meta
  <2>5. seen[p].status = meta[r].status
    BY <1>0, <2>2 DEF Stage, Sound, SameCount
  <2>6. QED BY <2>2, <2>3, <2>4, <2>5
<1>11. CASE MarkWrite(p)
  <2>1. QuietCarry(p)
    BY <1>11 DEF QuietCarry
  <2>2. QED BY <1>11, <2>1, QuietDisk DEF SameCount, MarkWrite, SummarySteps
<1>12. CASE p = Startup /\ ResumeClear
  <2>1. QuietCarry(p)
    BY <1>12 DEF QuietCarry
  <2>2. QED BY <1>12, <2>1, QuietDisk DEF SameCount, ResumeClear, SummarySteps
<1>13. CASE p = Worker /\ (SummaryWrite \/ SummaryRefused)
  <2>1. QuietCarry(p)
    BY <1>13 DEF QuietCarry
  <2>2. QED BY <1>13, <2>1, QuietDisk DEF SameCount, SummaryWrite, SummaryRefused, SummarySteps
<1>14. QED BY <1>1, <1>2, <1>3, <1>4, <1>5, <1>6, <1>7, <1>8, <1>9, <1>10, <1>11, <1>12, <1>13 DEF Carries

\* What every step writes: no mark, where there was none, and nothing to wait
\* for but by the worker.
LEMMA NextWrites ==
  ASSUME TypeInv, OwnInv, StageInv, PlainInv, Next, NEW r \in Recs
  PROVE  /\ meta'[r].summary = "no"
         /\ meta'[r].status = "waiting" =>
              \/ meta[r].status = "waiting"
              \/ Ended
              \/ /\ On(Worker, r) /\ pc[Worker] = "run" /\ pc'[Worker] \in {"sweep", "dead"}
                 /\ Still(Worker) /\ held' = held /\ (r \in waiting' \/ shutting')
<1>0. TypeDisk /\ meta[r] \in Meta /\ meta[r].summary = "no" /\ Stage(r)
  BY DEF TypeInv, TypeDisk, PlainInv, StageInv
<1>1. ASSUME SameDisk(r) \/ UNCHANGED meta PROVE meta'[r] = meta[r]
  BY <1>1 DEF SameDisk
<1>2. ASSUME NEW p \in Procs, Carries(p)
      PROVE  /\ meta'[r].summary = "no"
             /\ meta'[r].status = "waiting" =>
                  \/ meta[r].status = "waiting"
                  \/ /\ On(Worker, r) /\ pc[Worker] = "run" /\ pc'[Worker] \in {"sweep", "dead"}
                     /\ Still(Worker) /\ held' = held /\ (r \in waiting' \/ shutting')
  <2>1. CASE r = job[p].rec
    <3>1. On(p, r) /\ Still(p) /\ PlainStep(p)
      BY <1>2, <2>1, CarriesOn, CarriesProcs DEF On, PlainInv
    <3>2. QED BY <1>0, <1>2, <2>1, <3>1, CarriesWrites DEF PlainStep
  <2>2. CASE r # job[p].rec
    BY <1>0, <1>1, <1>2, <2>2, CarriesDisk
  <2>3. QED BY <2>1, <2>2
<1>3. ASSUME NEW p \in Procs, NEW x \in Recs, TakesUp(p, x)
      PROVE  meta'[r].summary = "no" /\ (meta'[r].status = "waiting" => meta[r].status = "waiting")
  <2>1. CASE x # r
    BY <1>0, <1>1, <1>3, <2>1, TakesUpDisk
  <2>2. CASE StartCreate(p, r)
    <3>1. meta'[r] = Fresh("claimed")
      BY <1>0, <2>2 DEF StartCreate, TypeDisk
    <3>2. QED BY <3>1 DEF Fresh
  <2>3. CASE x = r /\ ~StartCreate(p, r)
    BY <1>0, <1>3, <2>3, TakesUpFinds
  <2>4. QED BY <2>1, <2>2, <2>3
<1>4. ASSUME NEW x \in Recs, Closes(x)
      PROVE  meta'[r].summary = "no" /\ (meta'[r].status = "waiting" => meta[r].status = "waiting")
  <2>1. \/ UNCHANGED meta
        \/ \E status \in {"processing", "failed", "gone"} : meta' = [meta EXCEPT ![x] = Fresh(status)]
    BY <1>4 DEF Closes, Stop, Cancel, TakeSession, EndingStep, StopFinish, StopStuck, StopEnqueue,
                CancelFinish, StuckEnds, StopWrites, diskVars
  <2>2. \/ meta'[r] = meta[r]
        \/ \E status \in {"processing", "failed", "gone"} : meta'[r] = Fresh(status)
    BY <1>0, <2>1 DEF TypeDisk
  <2>3. QED BY <1>0, <2>2 DEF Fresh
<1>5. ASSUME NEW i \in DOMAIN queue, TakesJob(i)
      PROVE  meta'[r].summary = "no" /\ (meta'[r].status = "waiting" => meta[r].status = "waiting")
  <2>1. PICK m : m = Counted(meta[r], queue[i].kind)
    OBVIOUS
  <2>2. meta'[r] \in {m, meta[r]}
    BY <1>0, <1>5, <2>1 DEF TakesJob, TypeDisk
  <2>3. m.summary = meta[r].summary /\ m.status = meta[r].status
    BY <1>0, <2>1 DEF Counted, Meta
  <2>4. QED BY <1>0, <2>2, <2>3
<1>6. ASSUME NEW p \in Procs, Lists(p) \/ Rests(p) PROVE meta'[r] = meta[r]
  BY <1>1, <1>6, IdleSame DEF SameAll
<1>7. CASE ShutdownIdle \/ ShutdownLate
  BY <1>0, <1>7, ShutdownSame
<1>8. CASE Ended
  <2>1. \/ UNCHANGED meta
        \/ \E x : \E status \in {"processing", "gone"} : meta' = [meta EXCEPT ![x] = Fresh(status)]
    BY <1>8 DEF Ended, Crash, Exit, ExitAbandon
  <2>2. \/ meta'[r] = meta[r]
        \/ \E status \in {"processing", "gone"} : meta'[r] = Fresh(status)
    BY <1>0, <2>1 DEF TypeDisk
  <2>3. QED BY <1>0, <1>8, <2>2 DEF Fresh
<1>9. QED BY <1>0, <1>2, <1>3, <1>4, <1>5, <1>6, <1>7, <1>8, StepKinds
----------------------------------------------------------------------------
(* Without summaries.                                                       *)

\* Where somebody who has a recording goes.
LEMMA PlainCarries ==
  ASSUME "summarize" \notin Asks, TypeInv, OwnInv, PlainInv, NEW p \in Procs, Carries(p)
  PROVE  /\ PlainStep(p)' /\ (p = Startup => pc'[p] # "resume")
         /\ \A j \in Working' : Transcribes(j)
<1>0. TypeProcs /\ PlainStep(p) /\ pc[p] \in JobSteps /\ job[p] \in Jobs /\ \A j \in Working : Transcribes(j)
  BY CarriesOn DEF TypeInv, PlainInv
<1>1. ASSUME Return(p) PROVE PlainStep(p)' /\ (p = Startup => pc'[p] # "resume")
  <2>1. pc'[p] = Home(p) /\ pc'[p] \notin JobSteps
    BY <1>0, <1>1, ReturnStill
  <2>2. PlainStep(p)'
    BY <2>1 DEF PlainStep, SummarySteps, JobSteps
  <2>3. CASE p = Startup
    <3>1. pc[p] \in {"repair", "send", "giveUp", "swept"}
      BY <1>0, <2>3, ProcSteps DEF TypeProcs, StartupSteps, JobSteps, PlainStep, SummarySteps
    <3>2. pc[p] # "swept"
      BY <1>0, <1>1, <2>3, <3>1, ProcsAssumption DEF Carries, StartFails, GiveUpStart, StartWrite, StartOpen, StartShow,
         RetryClaim, RetryRepair, RepairFails, Send, MarkRead, MarkWrite, MarkFails, GiveUp, SweepWrite, NameRead, NameWrite,
         DeleteHold, DeleteRemove, RecoverRepair, ResumeClear, Return, Goto, TypeProcs, Home
    <3>3. Home(p) # "resume"
      BY <1>0, <2>3, <3>1, <3>2, ProcsAssumption DEF Home, TypeProcs, Fits, PlainStep
    <3>4. QED BY <2>1, <2>2, <3>3
  <2>4. QED BY <2>2, <2>3
<1>2. ASSUME NEW step, Goto(p, step), UNCHANGED <<job, seen>>,
             step \in {"open", "show", "repair", "delete"}
      PROVE  PlainStep(p)' /\ pc'[p] # "resume"
  BY <1>0, <1>2 DEF Goto, TypeProcs, PlainStep, SummarySteps
<1>3. ASSUME Goto(p, "send"), UNCHANGED job, Transcribes(job[p])
      PROVE  PlainStep(p)' /\ pc'[p] # "resume"
  BY <1>0, <1>3 DEF Goto, TypeProcs, PlainStep, SummarySteps, Transcribes
<1>4. ASSUME queued' \subseteq queued, processing' \in {processing, None} PROVE \A j \in Working' : Transcribes(j)
  BY <1>0, <1>4 DEF Working, Some
<1>5. CASE StartFails(p) \/ SweepWrite(p) \/ (p = Worker /\ ShutdownAttempt)
  <2>1. \E step \in {"idle", "sweeping", "dead"} : Goto(p, step)
    BY <1>5 DEF StartFails, GiveUpStart, SweepWrite, ShutdownAttempt
  <2>2. pc'[p] \in {"idle", "sweeping", "dead"}
    BY <1>0, <2>1 DEF Goto, TypeProcs
  <2>3. UNCHANGED <<queued, processing>>
    BY <1>5 DEF StartFails, GiveUpStart, SweepWrite, ShutdownAttempt, ShutdownBegin, viewVars
  <2>4. QED BY <1>4, <2>2, <2>3 DEF PlainStep, SummarySteps
<1>6. CASE \/ StartWrite(p) \/ StartOpen(p) \/ StartShow(p) \/ RepairFails(p) \/ GiveUp(p)
           \/ DeleteHold(p) \/ DeleteRemove(p) \/ NameWrite(p)
  <2>1. queued' \subseteq queued /\ UNCHANGED processing
    BY <1>6 DEF StartWrite, StartOpen, StartShow, RepairFails, GiveUp, DeleteHold, DeleteRemove,
                NameWrite, viewVars, Unreserve
  <2>2. Return(p) \/ \E step \in {"open", "show", "delete"} : Goto(p, step) /\ UNCHANGED <<job, seen>>
    BY <1>6 DEF StartWrite, StartOpen, StartShow, RepairFails, GiveUp, DeleteHold, DeleteRemove, NameWrite
  <2>3. QED BY <1>1, <1>2, <1>4, <2>1, <2>2
<1>7. CASE RetryClaim(p)
  <2>1. Return(p) \/ (Goto(p, "repair") /\ UNCHANGED <<job, seen>>)
    BY <1>7 DEF RetryClaim
  <2>2. Transcribes(job[p])
    BY <1>0, <1>7 DEF RetryClaim, TypeProcs, Fits
  <2>3. queued' \subseteq queued \cup {job[p]} /\ UNCHANGED processing
    BY <1>7 DEF RetryClaim
  <2>4. \A j \in Working' : Transcribes(j)
    BY <1>0, <2>2, <2>3 DEF Working
  <2>5. QED BY <1>1, <1>2, <2>1, <2>4
<1>8. CASE RetryRepair(p) \/ (p = Startup /\ RecoverRepair)
  <2>1. Transcribes(job[p])
    BY <1>0, <1>8 DEF RetryRepair, RecoverRepair, TypeProcs, Fits
  <2>2. Return(p) \/ (Goto(p, "send") /\ UNCHANGED job)
    BY <1>8 DEF RetryRepair, RecoverRepair
  <2>3. queued' \subseteq queued /\ UNCHANGED processing
    BY <1>8 DEF RetryRepair, RecoverRepair, viewVars, Unreserve
  <2>4. QED BY <1>1, <1>3, <1>4, <2>1, <2>2, <2>3
<1>9. CASE Send(p)
  <2>1. Return(p) /\ queued' \subseteq queued /\ UNCHANGED processing
    BY <1>9 DEF Send, Dispatch, Unreserve
  <2>2. QED BY <1>1, <1>4, <2>1
<1>10. CASE NameRead(p) \/ (p = Worker /\ WorkerBegin)
  <2>1. PICK r \in Recs : r = job[p].rec
    BY <1>10, CarriesOn
  <2>2. meta[r] \in Meta /\ meta[r].summary = "no"
    BY <2>1 DEF TypeInv, TypeDisk, PlainInv
  <2>3. seen'[p] \in {meta[r], [meta[r] EXCEPT !.status = "processing"]}
    BY <1>0, <1>10, <2>1 DEF NameRead, WorkerBegin, TypeProcs
  <2>4. seen'[p].summary = "no"
    BY <2>2, <2>3 DEF Meta
  <2>5. pc'[p] \in {"nameWrite", "run"}
    BY <1>0, <1>10 DEF NameRead, WorkerBegin, Goto, TypeProcs
  <2>6. UNCHANGED <<queued, processing>>
    BY <1>10 DEF NameRead, WorkerBegin, viewVars
  <2>7. QED BY <1>4, <2>4, <2>5, <2>6 DEF PlainStep, SummarySteps
<1>11. CASE p = Worker /\ \E x \in Recs : WorkerDone(x) \/ WorkerFail(x) \/ WorkerNetwork(x)
  <2>1. Return(p) /\ UNCHANGED queued /\ processing' = None
    BY <1>11 DEF WorkerDone, WorkerFail, WorkerNetwork, Attempt
  <2>2. QED BY <1>1, <1>4, <2>1
<1>12. CASE p = Worker /\ \E x \in Recs : WorkerDoneSummary(x)
  BY <1>12 DEF WorkerDoneSummary
<1>13. CASE \/ MarkRead(p) \/ MarkWrite(p) \/ MarkFails(p)
            \/ p = Startup /\ ResumeClear
            \/ p = Worker /\ (SummaryHold \/ SummaryWrite \/ SummaryRefused \/ SummaryTimeout)
  BY <1>0, <1>13 DEF MarkRead, MarkWrite, MarkFails, ResumeClear, SummaryHold, SummaryWrite,
                     SummaryRefused, SummaryTimeout, PlainStep, SummarySteps
<1>14. QED BY <1>5, <1>6, <1>7, <1>8, <1>9, <1>10, <1>11, <1>12, <1>13 DEF Carries

\* Where somebody goes who takes one up.
LEMMA PlainTakesUp ==
  ASSUME "summarize" \notin Asks, TypeInv, PlainInv, NEW p \in Procs, NEW r \in Recs, TakesUp(p, r)
  PROVE  /\ PlainStep(p)' /\ (p = Startup => pc'[p] # "resume")
         /\ \A j \in Working' : Transcribes(j)
<1>0. TypeProcs /\ PlainStep(p) /\ \A j \in Working : Transcribes(j)
  BY DEF TypeInv, PlainInv
<1>1. \A kind \in {"transcribe", "network"} : Transcribes(Job(r, kind))
  BY DEF Transcribes, Job
<1>2. ~Summarize(p, r)
  BY DEF Summarize, Given
<1>3. pc[Startup] = "resume" => todo[Startup] = {}
  BY DEF PlainInv
<1>4. ~(p = Startup /\ ResumeOff(r)) /\ ~\E kind \in {"asked", "auto"} : ResumeOne(r, kind)
  BY <1>3 DEF ResumeOff, ResumeOne
<1>5. UNCHANGED processing /\ \E kind \in {"transcribe", "network"} : queued' \subseteq queued \cup {Job(r, kind)}
  BY <1>2, <1>4 DEF TakesUp, StartCreate, Retry, Name, Delete, SweepHold, ScanGone, viewVars,
     ScanNotYet, ScanDue, Enqueue, ScanGiveUp, Scanning, RecoverOne
<1>6. \A j \in Working' : Transcribes(j)
  BY <1>0, <1>1, <1>5 DEF Working
<1>7. \/ UNCHANGED <<pc, job, seen>> /\ pc[p] \in {"recover", "scan", "sweeping"}
      \/ \E step, j : Go(p, step, j) /\ step \in {"write", "claim", "nameRead", "deleteHold", "swept", "giveUp", "repair"}
  BY <1>2, <1>4 DEF TakesUp, StartCreate, Retry, Name, Delete, SweepHold, ScanGone,
     ScanNotYet, ScanDue, ScanGiveUp, Scanning, RecoverOne
<1>8. CASE UNCHANGED <<pc, job, seen>> /\ pc[p] \in {"recover", "scan", "sweeping"}
  BY <1>6, <1>8 DEF PlainStep, SummarySteps
<1>9. CASE \E step, j : Go(p, step, j) /\ step \in {"write", "claim", "nameRead", "deleteHold", "swept", "giveUp", "repair"}
  <2>1. pc'[p] \in {"write", "claim", "nameRead", "deleteHold", "swept", "giveUp", "repair"}
    BY <1>0, <1>9, GoStill
  <2>2. QED BY <1>6, <2>1 DEF PlainStep, SummarySteps
<1>10. QED BY <1>7, <1>8, <1>9

\* Where nobody asks for a summary, none is ever marked or made.
LEMMA PlainKept ==
  ASSUME "summarize" \notin Asks, TypeInv, OwnInv, StageInv, PlainInv, [Next]_vars
  PROVE  PlainInv'
<1> Startup \in Procs /\ Worker \in Procs /\ Startup # Worker
  BY ProcsAssumption DEF Procs
<1>0. /\ TypeProcs /\ TypeTodo /\ \A q \in Procs : PlainStep(q)
      /\ \A j \in Working : Transcribes(j)
      /\ pc[Startup] = "resume" => todo[Startup] = {}
  BY DEF TypeInv, PlainInv
<1>1. CASE UNCHANGED vars
  BY <1>1 DEF PlainInv, PlainStep, vars, diskVars, viewVars, localVars, Working, Transcribes
<1>2. CASE Next
  <2>1. \A r \in Recs : meta'[r].summary = "no"
    BY <1>2, NextWrites
  <2>2. ASSUME NEW p \in Procs, Still(p), PlainStep(p)', \A j \in Working' : Transcribes(j),
               pc'[Startup] = "resume" => todo'[Startup] = {}
        PROVE  PlainInv'
    <3>1. \A q \in Procs \ {p} : PlainStep(q)'
      BY <1>0, <2>2 DEF Still, PlainStep, Transcribes
    <3>2. (\A j \in Working : Transcribes(j))'
      BY <2>2 DEF Transcribes
    <3>3. QED BY <2>1, <2>2, <3>1, <3>2 DEF PlainInv
  <2>3. ASSUME NEW p \in Procs, Still(p), p = Startup => pc'[p] # "resume",
               todo'[Startup] \subseteq todo[Startup]
        PROVE  pc'[Startup] = "resume" => todo'[Startup] = {}
    BY <1>0, <2>3 DEF Still
  <2>4. ASSUME NEW p \in Procs, Carries(p) PROVE PlainInv'
    <3>1. PlainStep(p)' /\ (p = Startup => pc'[p] # "resume") /\ \A j \in Working' : Transcribes(j)
      BY <2>4, PlainCarries
    <3>2. Still(p) /\ UNCHANGED todo
      BY <2>4, CarriesProcs, CarriesTodo
    <3>3. QED BY <2>2, <2>3, <3>1, <3>2
  <2>5. ASSUME NEW p \in Procs, NEW r \in Recs, TakesUp(p, r) PROVE PlainInv'
    <3>1. PlainStep(p)' /\ (p = Startup => pc'[p] # "resume") /\ \A j \in Working' : Transcribes(j)
      BY <2>5, PlainTakesUp
    <3>2. Still(p) /\ todo'[Startup] \subseteq todo[Startup]
      BY <1>0, <2>5, TakesUpProcs, TakesUpTodo DEF TypeTodo
    <3>3. QED BY <2>2, <2>3, <3>1, <3>2
  <2>6. ASSUME NEW r \in Recs, Closes(r) PROVE PlainInv'
    <3>1. UNCHANGED <<pc, job, seen, todo>>
      BY <2>6, ClosesFrame
    <3>2. UNCHANGED processing /\ queued' \subseteq queued \cup {Job(r, "transcribe")}
      BY <2>6 DEF Closes, Stop, Cancel, TakeSession, EndingStep, StopFinish, StopStuck, StopEnqueue, Enqueue,
                  CancelFinish, StuckEnds, viewVars
    <3>3. \A j \in Working' : Transcribes(j)
      BY <1>0, <3>2 DEF Working, Transcribes, Job
    <3>4. Still(Worker) /\ PlainStep(Worker)'
      BY <1>0, <3>1 DEF Still, PlainStep, Transcribes
    <3>5. QED BY <1>0, <2>2, <3>1, <3>3, <3>4
  <2>7. ASSUME NEW i \in DOMAIN queue, TakesJob(i) PROVE PlainInv'
    <3>1. Transcribes(queue[i])
      BY <1>0, <2>7 DEF OwnInv, ReservedOnce, Working
    <3>2. Go(Worker, "begin", queue[i]) /\ processing' = queue[i] /\ queued' \subseteq queued /\ UNCHANGED todo
      BY <2>7, <3>1 DEF TakesJob, Unreserve
    <3>3. pc'[Worker] = "begin" /\ Still(Worker)
      BY <1>0, <3>2, GoStill
    <3>4. \A j \in Working' : Transcribes(j)
      BY <1>0, <3>1, <3>2 DEF Working, Some
    <3>5. PlainStep(Worker)'
      BY <3>3 DEF PlainStep, SummarySteps
    <3>6. QED BY <2>2, <2>3, <3>2, <3>3, <3>4, <3>5
  <2>8. ASSUME NEW p \in Procs, Lists(p) \/ Rests(p) PROVE PlainInv'
    <3>1. Still(p) /\ UNCHANGED <<queued, processing, meta>>
      BY <2>8, IdleSame, ListsFrame, RestsFrame
    <3>2. \E step \in {"sweeping", "recover", "resume", "scan", "create", "idle", "over", "sweep"} :
            pc' = [pc EXCEPT ![p] = step]
      BY <2>8, ListsFrame, RestsFrame
    <3>3. pc'[p] \in {"sweeping", "recover", "resume", "scan", "create", "idle", "over", "sweep"}
      BY <1>0, <3>2 DEF TypeProcs
    <3>4. PlainStep(p)'
      BY <3>3 DEF PlainStep, SummarySteps
    <3>5. \A j \in Working' : Transcribes(j)
      BY <1>0, <3>1 DEF Working
    <3>6. CASE p # Startup
      <4>1. todo'[Startup] = todo[Startup]
        BY <1>0, <2>8, <3>6, ListsFrame, RestsFrame DEF TypeTodo
      <4>2. QED BY <2>2, <2>3, <3>1, <3>4, <3>5, <3>6, <4>1
    <3>7. CASE p = Startup /\ ResumeList
      <4>1. todo' = [todo EXCEPT ![Startup] = {}]
        <5>1. PICK due : due = {x \in Recs : meta[x].status = "done" /\ meta[x].summary # "no"}
                         /\ todo' = [todo EXCEPT ![Startup] = {Job(x, meta[x].summary) : x \in due}]
          BY <3>7 DEF ResumeList
        <5>2. due = {}
          BY <5>1 DEF PlainInv
        <5>3. QED BY <5>1, <5>2
      <4>2. todo'[Startup] = {}
        BY <1>0, <4>1 DEF TypeTodo
      <4>3. QED BY <2>2, <3>1, <3>4, <3>5, <4>2
    <3>8. CASE p = Startup /\ ~ResumeList
      <4>1. pc'[Startup] # "resume"
        BY <1>0, <2>8, <3>8, ProcsAssumption DEF Lists, Rests, SweepList, RecoverList, StartupScan, StartLock, Given,
           StartRefused, GiveUpStart, SweepDone, StartupScanned, Goto, TypeProcs
      <4>2. QED BY <2>2, <3>1, <3>4, <3>5, <4>1
    <3>9. QED BY <3>6, <3>7, <3>8
  <2>9. CASE ShutdownIdle \/ ShutdownLate
    <3>1. Still(Worker) /\ UNCHANGED <<queued, processing, todo, seen>>
      BY <2>9, ShutdownSame
    <3>2. UNCHANGED <<pc, job>> \/ pc'[Worker] = "dead"
      BY <2>9, ShutdownSame
    <3>3. PlainStep(Worker)'
      BY <1>0, <3>1, <3>2 DEF PlainStep, SummarySteps, Transcribes
    <3>4. \A j \in Working' : Transcribes(j)
      BY <1>0, <3>1 DEF Working
    <3>5. QED BY <1>0, <2>2, <3>1, <3>3, <3>4 DEF Still
  <2>10. CASE Ended
    <3>1. pc' = Start0 /\ queued' = {} /\ processing' = None
      BY <2>10 DEF Ended, Crash, Exit, ExitAbandon, Restart
    <3>2. \A q \in Procs : pc'[q] \in {"list", "idle"}
      BY <3>1 DEF Start0
    <3>3. Working' = {}
      BY <3>1 DEF Working, Some
    <3>4. QED BY <2>1, <3>2, <3>3 DEF PlainInv, PlainStep, SummarySteps
  <2>11. QED BY <1>2, <2>4, <2>5, <2>6, <2>7, <2>8, <2>9, <2>10, StepKinds
<1>3. QED BY <1>1, <1>2
----------------------------------------------------------------------------
(* Who holds a recording.                                                   *)

\* A step about another recording leaves its holder.
LEMMA HeldSame ==
  ASSUME NEW x \in Recs, SameProcs(x), x \in held' <=> x \in held, HeldBy(x)
  PROVE  HeldBy(x)'
BY DEF HeldBy, SameProcs

\* A recording is held as long as somebody is between its hold and its release.
LEMMA HeldStep ==
  ASSUME TypeInv, OwnInv, LockInv, FreeInv, [Next]_vars, NEW r \in Recs, HeldBy(r)
  PROVE  HeldBy(r)'
<1>0. TypeProcs
  BY DEF TypeInv
<1>1. ASSUME NEW p \in Procs, Still(p), ~On(p, r) \/ pc[p] \notin Holding, r \in held' => r \in held PROVE HeldBy(r)'
  BY <1>1 DEF HeldBy, Still, On
<1>2. ASSUME NEW p \in Procs, pc'[p] \in Holding, job'[p].rec = r PROVE HeldBy(r)'
  <2>1. pc'[p] \in JobSteps
    BY <1>2 DEF Holding, JobSteps
  <2>2. On(p, r)'
    BY <1>2, <2>1 DEF On
  <2>3. QED BY <1>2, <2>2 DEF HeldBy
<1>3. ASSUME NEW x \in Recs, Touches(x), x # r PROVE HeldBy(r)'
  BY <1>3, HeldSame DEF Touches, Same, SameView
<1>4. ASSUME NEW p \in Procs, Carries(p) PROVE HeldBy(r)'
  <2>0. Still(p)
    BY <1>4, CarriesProcs
  <2>1. CASE r # job[p].rec
    BY <1>3, <1>4, <2>1, CarriesFrame, CarriesOn
  <2>2. CASE r = job[p].rec /\ NameRead(p)
    <3>1. pc'[p] = "nameWrite" /\ job'[p] = job[p]
      BY <1>0, <2>2 DEF NameRead, Goto, TypeProcs
    <3>2. QED BY <1>2, <2>2, <3>1 DEF Holding
  <2>3. CASE /\ r = job[p].rec
             /\ \/ p = Startup /\ ResumeClear
                \/ NameWrite(p) \/ DeleteRemove(p) \/ SweepWrite(p)
                \/ p = Worker /\ SummaryWrite
    <3>1. r \notin held'
      BY <2>3 DEF ResumeClear, NameWrite, DeleteRemove, SweepWrite, SummaryWrite
    <3>2. QED BY <3>1 DEF HeldBy
  <2>4. CASE r = job[p].rec /\ (DeleteHold(p) \/ (p = Worker /\ SummaryHold))
    <3>1. \/ pc'[p] \in {"delete", "summary"} /\ job'[p] = job[p]
          \/ held' = held
      BY <1>0, <2>4, GotoStill DEF DeleteHold, SummaryHold
    <3>2. pc[p] \notin Holding
      BY <2>4 DEF DeleteHold, SummaryHold, Holding
    <3>3. QED BY <1>1, <1>2, <2>0, <2>4, <3>1, <3>2 DEF Holding
  <2>5. CASE \/ StartFails(p) \/ StartWrite(p) \/ StartOpen(p) \/ StartShow(p)
             \/ RetryClaim(p) \/ RetryRepair(p) \/ RepairFails(p) \/ Send(p)
             \/ MarkRead(p) \/ MarkWrite(p) \/ MarkFails(p) \/ GiveUp(p)
             \/ p = Startup /\ RecoverRepair
    <3>1. held' = held
      BY <2>5 DEF StartFails, GiveUpStart, StartWrite, StartOpen, StartShow, RetryClaim, RetryRepair,
         RepairFails, Send, MarkRead, MarkWrite, MarkFails, GiveUp, RecoverRepair, viewVars
    <3>2. pc[p] \notin Holding
      BY <2>5 DEF StartFails, StartWrite, StartOpen, StartShow, RetryClaim, RetryRepair,
         RepairFails, Send, MarkRead, MarkWrite, MarkFails, GiveUp, RecoverRepair, Holding
    <3>3. QED BY <1>1, <2>0, <3>1, <3>2
  <2>6. CASE /\ p = Worker
             /\ \/ WorkerBegin \/ SummaryRefused \/ SummaryTimeout \/ ShutdownAttempt
                \/ \E x \in Recs : \/ WorkerDone(x) \/ WorkerDoneSummary(x)
                                   \/ WorkerFail(x) \/ WorkerNetwork(x)
    <3>1. held' = held
      BY <2>6 DEF WorkerBegin, SummaryRefused, SummaryTimeout, ShutdownAttempt, ShutdownBegin, WorkerDone,
         WorkerDoneSummary, WorkerFail, WorkerNetwork, Attempt, viewVars
    <3>2. pc[p] \notin Holding
      BY <2>6 DEF WorkerBegin, SummaryRefused, SummaryTimeout, ShutdownAttempt, WorkerDone,
         WorkerDoneSummary, WorkerFail, WorkerNetwork, Attempt, Holding
    <3>3. QED BY <1>1, <2>0, <3>1, <3>2
  <2>7. QED BY <1>4, <2>1, <2>2, <2>3, <2>4, <2>5, <2>6 DEF Carries
<1>5. ASSUME NEW p \in Procs, NEW x \in Recs, TakesUp(p, x) PROVE HeldBy(r)'
  <2>0. Still(p) /\ pc[p] \notin Holding
    BY <1>5, TakesUpProcs DEF JobSteps, Holding
  <2>1. CASE x # r
    BY <1>3, <1>5, <2>1, TakesUpFrame
  <2>2. CASE x = r /\ (Name(p, r) \/ SweepHold(p, r) \/ (p = Startup /\ ResumeOff(r)))
    <3>1. \/ \E step \in {"nameRead", "swept", "clear"} : \E j : Go(p, step, j) /\ j.rec = r
          \/ held' = held
      <4>1. \A kind : Job(r, kind).rec = r
        BY DEF Job
      <4>2. QED BY <2>2, <4>1 DEF Name, SweepHold, ResumeOff
    <3>2. \/ pc'[p] \in {"nameRead", "swept", "clear"} /\ job'[p].rec = r
          \/ held' = held
      <4>1. ASSUME NEW step \in {"nameRead", "swept", "clear"}, NEW j, Go(p, step, j), j.rec = r
            PROVE  pc'[p] \in {"nameRead", "swept", "clear"} /\ job'[p].rec = r
        <5>1. pc'[p] = step /\ job'[p] = j
          BY <1>0, <4>1, GoStill
        <5>2. QED BY <4>1, <5>1
      <4>2. QED BY <3>1, <4>1
    <3>3. QED BY <1>1, <1>2, <2>0, <3>2 DEF Holding
  <2>3. CASE x = r /\ ~Name(p, r) /\ ~SweepHold(p, r) /\ ~(p = Startup /\ ResumeOff(r))
    <3>1. held' = held
      BY <1>5, <2>3 DEF TakesUp, StartCreate, Retry, Summarize, Delete, ScanGone, viewVars,
         ScanNotYet, ScanDue, ScanGiveUp, Scanning, RecoverOne, ResumeOne
    <3>2. QED BY <1>1, <2>0, <3>1
  <2>4. QED BY <2>1, <2>2, <2>3
<1>6. ASSUME NEW x \in Recs, Closes(x) PROVE HeldBy(r)'
  <2>1. UNCHANGED <<pc, job>>
    BY <1>6, ClosesFrame
  <2>2. held' = held
    BY <1>6 DEF Closes, Stop, Cancel, TakeSession, EndingStep, StopFinish, StopStuck, StopEnqueue,
                CancelFinish, StuckEnds, viewVars
  <2>3. QED BY <2>1, <2>2 DEF HeldBy, On
<1>7. ASSUME NEW i \in DOMAIN queue, TakesJob(i) PROVE HeldBy(r)'
  <2>1. Worker \in Procs /\ Still(Worker) /\ pc[Worker] \notin Holding
    BY <1>7, TakesFrame DEF Procs, Holding
  <2>2. held' = held
    BY <1>7 DEF TakesJob
  <2>3. QED BY <1>1, <2>1, <2>2
<1>8. ASSUME NEW p \in Procs, Lists(p) \/ Rests(p) PROVE HeldBy(r)'
  BY <1>8, IdleSame, HeldSame DEF SameAll, SameView
<1>9. CASE ShutdownIdle \/ ShutdownLate
  <2>1. Worker \in Procs /\ Still(Worker) /\ held' = held
    BY <1>9, ShutdownSame DEF Procs
  <2>2. CASE UNCHANGED <<pc, job>>
    BY <2>1, <2>2 DEF HeldBy, On
  <2>3. CASE pc[Worker] \in {"idle", "make"}
    BY <1>1, <2>1, <2>3 DEF Holding
  <2>4. QED BY <1>9, <2>2, <2>3, ShutdownSame
<1>10. CASE Ended
  <2>1. held' = {}
    BY <1>10 DEF Ended, Crash, Exit, ExitAbandon, Restart
  <2>2. QED BY <2>1 DEF HeldBy
<1>11. CASE UNCHANGED vars
  BY <1>11 DEF vars, viewVars, localVars, HeldBy, On
<1>12. QED BY <1>4, <1>5, <1>6, <1>7, <1>8, <1>9, <1>10, <1>11, StepKinds

\* How a rename and a sweep get their recording, and the worker its list.
LEMMA ShelfSteps ==
  ASSUME TypeInv, FreeInv, Next, ~Ended
  PROVE  /\ \A p \in Procs, r \in Recs :
              On(p, r)' /\ pc'[p] \in {"nameRead", "nameWrite", "swept"} =>
                \/ On(p, r) /\ pc[p] \in {"nameRead", "nameWrite", "swept"}
                \/ Name(p, r) \/ SweepHold(p, r)
         /\ pc'[Worker] \in {"sweeping", "swept"} =>
              \/ SweepList(Worker)
              \/ pc[Worker] \in {"sweeping", "swept"} /\ todo'[Worker] \subseteq todo[Worker]
<1> DEFINE Shelf == {"nameRead", "nameWrite", "swept"}
           Goes(p) == \A r \in Recs : On(p, r)' /\ pc'[p] \in Shelf =>
                        (On(p, r) /\ pc[p] \in Shelf) \/ Name(p, r) \/ SweepHold(p, r)
           Sweeps == pc'[Worker] \in {"sweeping", "swept"} =>
              \/ SweepList(Worker)
              \/ pc[Worker] \in {"sweeping", "swept"} /\ todo'[Worker] \subseteq todo[Worker]
<1> Worker \in Procs /\ TypeProcs /\ TypeTodo
  BY DEF Procs, TypeInv
<1>0. ASSUME NEW p \in Procs, Still(p), NEW q \in Procs \ {p} PROVE Goes(q)
  BY <1>0 DEF Still, On
<1>1. ASSUME NEW p \in Procs, Carries(p) PROVE (\A q \in Procs : Goes(q)) /\ Sweeps
  <2>0. Still(p) /\ UNCHANGED todo
    BY <1>1, CarriesProcs, CarriesTodo
  <2>1. \/ pc'[p] \notin Shelf
        \/ pc[p] \in Shelf /\ job'[p] = job[p]
    <3>1. Return(p) => pc'[p] \notin Shelf
      BY ReturnStill DEF JobSteps
    <3>2. \A step : Goto(p, step) => pc'[p] = step
      BY DEF Goto, TypeProcs
    <3>3. CASE NameRead(p)
      BY <3>3 DEF NameRead
    <3>4. CASE ~NameRead(p)
      BY <1>1, <3>1, <3>2, <3>4 DEF Carries, StartFails, GiveUpStart, StartWrite, StartOpen, StartShow, RetryClaim, RetryRepair,
       RepairFails, Send, MarkRead, MarkWrite, MarkFails, GiveUp, SweepWrite, NameWrite,
       DeleteHold, DeleteRemove, RecoverRepair, ResumeClear, WorkerBegin, SummaryWrite, SummaryRefused,
       SummaryTimeout, SummaryHold, WorkerDone, WorkerDoneSummary, WorkerFail, WorkerNetwork, Go, ShutdownAttempt
    <3>5. QED BY <3>3, <3>4
  <2>2. Goes(p)
    BY <2>1 DEF On, JobSteps
  <2>3. p = Worker /\ pc'[p] \in {"sweeping", "swept"} => pc[p] = "swept"
    <3>1. p = Worker /\ Return(p) => pc'[p] = "sweep"
      BY ReturnStill, ProcsAssumption DEF Home
    <3>2. \A step : Goto(p, step) => pc'[p] = step
      BY DEF Goto, TypeProcs
    <3>3. QED
      BY <1>1, <3>1, <3>2 DEF Carries, StartFails, GiveUpStart, StartWrite, StartOpen, StartShow, RetryClaim, RetryRepair,
       RepairFails, Send, MarkRead, MarkWrite, MarkFails, GiveUp, SweepWrite, NameRead, NameWrite,
       DeleteHold, DeleteRemove, RecoverRepair, ResumeClear, WorkerBegin, SummaryWrite, SummaryRefused,
       SummaryTimeout, SummaryHold, WorkerDone, WorkerDoneSummary, WorkerFail, WorkerNetwork, Go, ShutdownAttempt
  <2>4. Sweeps
    BY <2>0, <2>3 DEF Still
  <2>5. QED BY <1>0, <2>0, <2>2, <2>4
<1>2. ASSUME NEW p \in Procs, NEW x \in Recs, TakesUp(p, x) PROVE (\A q \in Procs : Goes(q)) /\ Sweeps
  <2>0. Still(p) /\ pc[p] \notin JobSteps
    BY <1>2, TakesUpProcs
  <2>1. \/ UNCHANGED <<pc, job>>
        \/ pc'[p] \notin Shelf
        \/ job'[p].rec = x /\ (Name(p, x) \/ SweepHold(p, x))
    <3>1. \/ UNCHANGED <<pc, job>>
          \/ \E step, j : Go(p, step, j) /\ step \notin Shelf
          \/ \E step, j : Go(p, step, j) /\ j.rec = x /\ (Name(p, x) \/ SweepHold(p, x))
      BY <1>2 DEF TakesUp, StartCreate, Retry, Summarize, Name, Delete, SweepHold, ScanGone,
         ScanNotYet, ScanDue, ScanGiveUp, Scanning, RecoverOne, ResumeOff, ResumeOne, Job
    <3>2. QED BY <3>1, GoStill
  <2>2. Goes(p)
    BY <2>0, <2>1 DEF On, JobSteps
  <2>3. todo'[Worker] \subseteq todo[Worker]
    BY <1>2, TakesUpTodo DEF TypeTodo
  <2>4. p = Worker /\ pc'[p] \in {"sweeping", "swept"} => pc[p] \in {"sweeping", "swept"}
    <3>1. p = Worker => SweepHold(p, x)
      <4>1. p = Worker => pc[p] \in WorkerSteps
        BY ProcSteps DEF TypeProcs
      <4>2. QED BY <1>2, <4>1, ProcsAssumption DEF TakesUp, StartCreate, Retry, Summarize, Name, Delete, Given, ScanGone,
         ScanNotYet, ScanDue, ScanGiveUp, Scanning, WorkerSteps
    <3>2. QED BY <3>1 DEF SweepHold
  <2>5. Sweeps
    BY <2>0, <2>3, <2>4 DEF Still
  <2>6. QED BY <1>0, <2>0, <2>2, <2>5
<1>3. ASSUME NEW x \in Recs, Closes(x) PROVE (\A q \in Procs : Goes(q)) /\ Sweeps
  BY <1>3, ClosesFrame DEF On
<1>4. ASSUME NEW i \in DOMAIN queue, TakesJob(i) PROVE (\A q \in Procs : Goes(q)) /\ Sweeps
  <2>1. pc'[Worker] \in {"begin", "make"} /\ Still(Worker)
    BY <1>4, TakesFrame
  <2>2. QED BY <1>0, <2>1
<1>5. ASSUME NEW p \in Procs, Lists(p) \/ Rests(p) PROVE (\A q \in Procs : Goes(q)) /\ Sweeps
  <2>1. Still(p)
    BY <1>5, IdleSame
  <2>2. \E step \in {"sweeping", "recover", "resume", "scan", "create", "idle", "over", "sweep"} :
          pc' = [pc EXCEPT ![p] = step]
    BY <1>5, ListsFrame, RestsFrame
  <2>3. pc'[p] \in {"sweeping", "recover", "resume", "scan", "create", "idle", "over", "sweep"}
    BY <2>2 DEF TypeProcs
  <2>4. p = Worker /\ pc'[p] = "sweeping" => SweepList(p)
    BY <1>5, ProcsAssumption DEF Lists, Rests, StartLock, Given, StartRefused, GiveUpStart, SweepDone, Goto, TypeProcs
  <2>5. p # Worker => todo'[Worker] = todo[Worker]
    BY <1>5, ListsFrame, RestsFrame DEF TypeTodo
  <2>6. Sweeps
    BY <2>1, <2>3, <2>4, <2>5 DEF Still
  <2>7. QED BY <1>0, <2>1, <2>3, <2>6
<1>6. CASE ShutdownIdle \/ ShutdownLate
  <2>1. Still(Worker) /\ UNCHANGED todo
    BY <1>6, ShutdownSame
  <2>2. UNCHANGED <<pc, job>> \/ pc'[Worker] = "dead"
    BY <1>6, ShutdownSame
  <2>3. Goes(Worker) /\ Sweeps
    BY <2>1, <2>2 DEF On
  <2>4. QED BY <1>0, <2>1, <2>3
<1>7. (\A q \in Procs : Goes(q)) /\ Sweeps
  BY <1>1, <1>2, <1>3, <1>4, <1>5, <1>6, StepKinds
<1>8. QED BY <1>7

\* Neither a rename nor the worker's sweep takes up one that waits, or has one
\* that comes to wait.
LEMMA ShelvedStep ==
  ASSUME TypeInv, OwnInv, FreeInv, StageInv, PlainInv, [Next]_vars, NEW r \in Recs, Shelved(r)
  PROVE  Shelved(r)'
<1> SUFFICES ASSUME meta'[r].status = "waiting" PROVE Shelved(r)'
  BY DEF Shelved
<1> Worker \in Procs /\ Startup # Worker
  BY ProcsAssumption DEF Procs
<1>1. CASE UNCHANGED vars
  BY <1>1 DEF Shelved, vars, diskVars, localVars, On
<1>2. CASE Ended
  <2>1. pc' = Start0
    BY <1>2 DEF Ended, Crash, Exit, ExitAbandon, Restart
  <2>2. \A q \in Procs : pc'[q] \in {"list", "idle"}
    BY <2>1 DEF Start0
  <2>3. QED BY <2>2 DEF Shelved
<1>3. CASE Next /\ ~Ended /\ meta[r].status = "waiting"
  <2>1. ASSUME NEW p \in Procs \ {Startup}, On(p, r)', pc'[p] \in {"nameRead", "nameWrite", "swept"} PROVE FALSE
    <3>1. Name(p, r) \/ SweepHold(p, r)
      BY <1>3, <2>1, ShelfSteps DEF Shelved
    <3>2. p = Worker
      <4>1. p \in Tasks => pc[p] \in TaskSteps
        BY ProcSteps DEF TypeInv, TypeProcs
      <4>2. p = Timer => pc[p] \in TimerSteps
        BY ProcSteps DEF TypeInv, TypeProcs
      <4>3. QED BY <1>3, <2>1, <3>1, <4>1, <4>2 DEF Name, SweepHold, Procs, TaskSteps, TimerSteps
    <3>3. SweepHold(p, r)
      BY <1>3, <3>1 DEF Name
    <3>4. QED BY <1>3, <3>2, <3>3 DEF SweepHold, Shelved
  <2>2. pc'[Worker] \in {"sweeping", "swept"} => Job(r, "asked") \notin todo'[Worker]
    <3>1. CASE SweepList(Worker)
      <4>1. PICK due \in SUBSET {x \in Recs : Expired(x)} : todo' = [todo EXCEPT ![Worker] = {Job(x, "asked") : x \in due}]
        BY <3>1 DEF SweepList
      <4>2. todo'[Worker] = {Job(x, "asked") : x \in due}
        BY <4>1 DEF TypeInv, TypeTodo
      <4>3. r \notin due
        BY <1>3, <4>1 DEF Expired
      <4>4. QED BY <4>2, <4>3 DEF Job
    <3>2. CASE ~SweepList(Worker)
      BY <1>3, <3>2, ShelfSteps DEF Shelved
    <3>3. QED BY <3>1, <3>2
  <2>3. QED BY <2>1, <2>2 DEF Shelved
<1>4. CASE Next /\ ~Ended /\ meta[r].status # "waiting"
  <2>1. /\ On(Worker, r) /\ pc[Worker] = "run" /\ pc'[Worker] \in {"sweep", "dead"}
        /\ Still(Worker) /\ held' = held
    BY <1>4, NextWrites
  <2>2. r \notin held
    BY <2>1, AttemptAlone
  <2>3. ASSUME NEW p \in Procs \ {Worker}, On(p, r)', pc'[p] \in {"nameRead", "nameWrite", "swept"} PROVE FALSE
    <3>1. On(p, r) /\ pc[p] \in Holding
      BY <2>1, <2>3 DEF Still, On, Holding
    <3>2. QED BY <2>2, <3>1 DEF OwnInv, HeldOnce, On
  <2>4. QED BY <2>1, <2>3 DEF Shelved
<1>5. QED BY <1>1, <1>2, <1>3, <1>4
----------------------------------------------------------------------------
(* Who watches a recording that waits.                                      *)

\* The start still goes through what waits.
StartWatches(r) ==
  \/ pc[Startup] \in {"list", "recover", "repair", "send", "resume"}
  \/ pc[Startup] \in {"scan", "giveUp"} /\ Job(r, "network") \in todo[Startup]

\* What watched it watches it still, or somebody else does.
LEMMA WatchedKept ==
  ASSUME NEW r \in Recs, Watched(r), meta[r].status = "waiting", shutting => shutting',
         r \in waiting => r \in waiting' \/ Pending(r)',
         Pending(r) => Pending(r)' \/ r \in waiting' \/ StartWatches(r)' \/ shutting',
         \A p \in Procs : On(p, r) /\ pc[p] = "delete" => (On(p, r) /\ pc[p] = "delete")',
         StartWatches(r) =>
           \/ StartWatches(r)' \/ Pending(r)' \/ r \in waiting' \/ shutting'
           \/ \E p \in Procs : (On(p, r) /\ pc[p] = "delete")'
  PROVE  Watched(r)'
BY DEF Watched, StartWatches

\* A step that is about another recording, and leaves the start where it watches.
LEMMA WatchedSame ==
  ASSUME TypeInv, TypeInv', NEW r \in Recs, SameProcs(r), SameView(r), Watched(r), meta[r].status = "waiting",
         shutting => shutting', StartWatches(r) => StartWatches(r)'
  PROVE  Watched(r)'
<1>1. Pending(r)' <=> Pending(r)
  BY SamePending
<1>2. r \in waiting' <=> r \in waiting
  BY DEF SameView
<1>3. \A p \in Procs : On(p, r) /\ pc[p] = "delete" => (On(p, r) /\ pc[p] = "delete")'
  BY DEF SameProcs
<1>4. QED BY <1>1, <1>2, <1>3, WatchedKept

\* The start with a recording goes on to where it still watches.
LEMMA StartCarries ==
  ASSUME TypeInv, PlainInv, NEW p \in Procs, Carries(p), NEW r, StartWatches(r)
  PROVE  StartWatches(r)'
<1> Startup \in Procs /\ TypeProcs
  BY DEF Procs, TypeInv
<1>0. Still(p) /\ UNCHANGED todo
  BY CarriesProcs, CarriesTodo
<1>1. CASE p # Startup
  BY <1>0, <1>1 DEF Still, StartWatches
<1>2. CASE p = Startup
  <2>1. pc[p] \in {"repair", "send", "giveUp"} /\ job[p] \in Jobs
    BY <1>2, CarriesOn DEF StartWatches, JobSteps
  <2>2. Transcribes(job[p]) /\ job[p] # None
    BY <2>1, JobsAssumption DEF PlainInv, PlainStep, TypeProcs, Fits
  <2>3. Return(p) \/ (pc[p] = "repair" /\ Goto(p, "send"))
    BY <1>2, <2>1, ProcsAssumption DEF Carries, StartFails, StartWrite, StartOpen, StartShow, RetryClaim, RetryRepair,
       RepairFails, Send, MarkRead, MarkWrite, MarkFails, GiveUp, SweepWrite, NameRead, NameWrite,
       DeleteHold, DeleteRemove, RecoverRepair, ResumeClear
  <2>4. Return(p) => pc'[p] = IF pc[p] = "giveUp" THEN "scan" ELSE "recover"
    BY <1>2, <2>2, ReturnStill, ProcsAssumption DEF Home
  <2>5. Goto(p, "send") => pc'[p] = "send"
    BY DEF Goto, TypeProcs
  <2>6. QED BY <1>0, <1>2, <2>1, <2>3, <2>4, <2>5 DEF StartWatches
<1>3. QED BY <1>1, <1>2

\* A step with the recording that waits.
LEMMA CarriesWatched ==
  ASSUME ~DiskFails, TypeInv, OwnInv, PlainInv, GoneInv, NEW p \in Procs, Carries(p), shutting => shutting',
         NEW r \in Recs, r = job[p].rec, Stage(r), Watched(r),
         meta[r].status = "waiting", meta'[r].status = "waiting"
  PROVE  Watched(r)'
<1>0. /\ On(p, r) /\ job[p] \in Jobs /\ TypeProcs /\ TypeDisk /\ Still(p) /\ PlainStep(p)
      /\ StartWatches(r) => StartWatches(r)'
  BY CarriesOn, CarriesProcs, StartCarries DEF On, TypeInv, PlainInv
<1>1. pc[p] \notin Opening \cup {"run"}
  BY <1>0 DEF Stage, Sound, Opening
<1>2. ASSUME pc[p] # "delete",
             r \in waiting => r \in waiting' \/ Pending(r)',
             Pending(r) => Pending(r)' \/ StartWatches(r)' \/ shutting'
      PROVE  Watched(r)'
  <2>1. \A q \in Procs : On(q, r) /\ pc[q] = "delete" => (On(q, r) /\ pc[q] = "delete")'
    BY <1>0, <1>2 DEF Still, On
  <2>2. QED BY <1>0, <1>2, <2>1, WatchedKept
<1>3. CASE StartFails(p) \/ StartWrite(p) \/ StartOpen(p) \/ StartShow(p)
  BY <1>1, <1>3 DEF StartFails, StartWrite, StartOpen, StartShow, Opening
<1>4. CASE p = Worker /\ \E x \in Recs : WorkerDone(x) \/ WorkerDoneSummary(x) \/ WorkerFail(x) \/ WorkerNetwork(x)
  BY <1>1, <1>4 DEF WorkerDone, WorkerDoneSummary, WorkerFail, WorkerNetwork, Attempt
<1>5. CASE p = Worker /\ ShutdownAttempt
  BY <1>1, <1>5 DEF ShutdownAttempt
<1>6. CASE \/ MarkRead(p) \/ MarkWrite(p) \/ MarkFails(p) \/ (p = Startup /\ ResumeClear)
           \/ p = Worker /\ (SummaryHold \/ SummaryWrite \/ SummaryRefused \/ SummaryTimeout)
  BY <1>0, <1>6 DEF MarkRead, MarkWrite, MarkFails, ResumeClear, SummaryHold, SummaryWrite,
                    SummaryRefused, SummaryTimeout, PlainStep, SummarySteps
<1>7. CASE DeleteRemove(p)
  <2>1. meta'[r] = Fresh("gone")
    BY <1>0, <1>7 DEF DeleteRemove, TypeDisk
  <2>2. QED BY <2>1 DEF Fresh
<1>8. CASE GiveUp(p)
  <2>1. meta' = [meta EXCEPT ![r].status = "failed"]
    BY <1>8 DEF GiveUp
  <2>2. meta'[r].status = "failed"
    BY <1>0, <2>1 DEF TypeDisk, Meta
  <2>3. QED BY <2>2
<1>9. CASE RetryRepair(p) \/ (p = Worker /\ WorkerBegin)
  <2>1. PICK m : m \in {[meta[r] EXCEPT !.status = "processing", !.attempts = 0, !.tries = None],
                        [meta[r] EXCEPT !.status = "processing"]}
                 /\ meta' = [meta EXCEPT ![r] = m]
    BY <1>9 DEF RetryRepair, WorkerBegin
  <2>2. m.status = "processing"
    BY <1>0, <2>1 DEF TypeDisk, Meta
  <2>3. QED BY <1>0, <2>1, <2>2 DEF TypeDisk
<1>10. CASE RepairFails(p)
  BY <1>10 DEF RepairFails, OnDisk
<1>11. CASE RetryClaim(p) \/ NameRead(p) \/ NameWrite(p) \/ DeleteHold(p) \/ SweepWrite(p)
  <2>1. UNCHANGED <<processing, waiting>> /\ queued \subseteq queued'
    BY <1>11 DEF RetryClaim, NameRead, NameWrite, DeleteHold, SweepWrite, viewVars
  <2>2. Pending(r) => Pending(r)'
    BY <2>1 DEF Pending, Working
  <2>3. pc[p] # "delete"
    BY <1>11 DEF RetryClaim, NameRead, NameWrite, DeleteHold, SweepWrite
  <2>4. QED BY <1>2, <2>1, <2>2, <2>3
<1>12. CASE p = Startup /\ RecoverRepair
  <2>1. StartWatches(r)'
    BY <1>0, <1>12 DEF RecoverRepair, StartWatches
  <2>2. QED BY <2>1 DEF Watched, StartWatches
<1>13. CASE Send(p)
  <2>1. CASE Gone
    <3>1. shutting'
      BY <2>1 DEF GoneInv
    <3>2. QED BY <3>1 DEF Watched
  <2>2. CASE ~Gone
    <3>1. UNCHANGED <<queued, processing>>
      BY <1>13, <2>2 DEF Send, Dispatch
    <3>2. job[p] \in queued
      BY <1>13 DEF Send, OwnInv, ReservedOnce, Reserving
    <3>3. Pending(r)'
      BY <3>1, <3>2 DEF Pending, Working
    <3>4. QED BY <3>3 DEF Watched
  <2>3. QED BY <2>1, <2>2
<1>14. QED
  BY <1>3, <1>4, <1>5, <1>6, <1>7, <1>8, <1>9, <1>10, <1>11, <1>12, <1>13 DEF Carries

\* Who holds one that waits is about to delete it.
LEMMA HeldToDelete ==
  ASSUME TypeInv, PlainInv, NEW r \in Recs, HeldBy(r), Shelved(r), meta[r].status = "waiting",
         r \in held, pc[Startup] = "scan"
  PROVE  \E q \in Procs \ {Startup} : On(q, r) /\ pc[q] = "delete"
<1>1. PICK q \in Procs : On(q, r) /\ pc[q] \in Holding
  BY DEF HeldBy
<1>2. q # Startup /\ pc[q] \notin {"nameRead", "nameWrite", "swept"}
  BY <1>1 DEF Shelved, Holding
<1>3. pc[q] \notin SummarySteps
  BY DEF PlainInv, PlainStep
<1>4. QED BY <1>1, <1>2, <1>3 DEF Holding, SummarySteps

\* Somebody takes it up: the scan puts it in the queue, or finds who has it.
LEMMA TakesUpWatched ==
  ASSUME TypeInv, TypeInv', PlainInv, GoneInv, NEW p \in Procs, NEW r \in Recs, TakesUp(p, r),
         shutting => shutting', Stage(r), HeldBy(r), Shelved(r), Watched(r),
         meta[r].status = "waiting"
  PROVE  Watched(r)'
<1> Startup \in Procs /\ TypeProcs /\ TypeTodo
  BY DEF Procs, TypeInv
<1>0. Still(p) /\ pc[p] \notin JobSteps
  BY TakesUpProcs
<1>1. \A q \in Procs : On(q, r) /\ pc[q] = "delete" => (On(q, r) /\ pc[q] = "delete")'
  BY <1>0 DEF Still, On, JobSteps
<1>2. ASSUME UNCHANGED <<processing, waiting>>, queued \subseteq queued',
             StartWatches(r) => StartWatches(r)' \/ \E q \in Procs : (On(q, r) /\ pc[q] = "delete")' 
      PROVE  Watched(r)'
  <2>1. Pending(r) => Pending(r)'
    BY <1>2 DEF Pending, Working
  <2>2. QED BY <1>1, <1>2, <2>1, WatchedKept
<1>3. ASSUME p # Startup PROVE StartWatches(r) => StartWatches(r)'
  <2>1. todo'[Startup] = todo[Startup]
    BY <1>3, TakesUpTodo DEF TypeTodo
  <2>2. QED BY <1>0, <1>3, <2>1 DEF Still, StartWatches
<1>4. CASE StartCreate(p, r) \/ Summarize(p, r) \/ Name(p, r) \/ ScanGone(p, r)
  BY <1>4 DEF StartCreate, Summarize, Name, ScanGone
<1>5. CASE Retry(p, r) \/ Delete(p, r)
  <2>1. UNCHANGED <<processing, waiting, queued>> /\ p \in Tasks
    BY <1>5 DEF Retry, Delete, Given, viewVars
  <2>2. QED BY <1>2, <1>3, <2>1, ProcsAssumption
<1>6. CASE SweepHold(p, r)
  <2>1. UNCHANGED <<processing, waiting, queued>> /\ pc[p] = "sweeping"
    BY <1>6 DEF SweepHold
  <2>2. p = Startup => ~StartWatches(r)
    BY <2>1 DEF StartWatches
  <2>3. QED BY <1>2, <1>3, <2>1, <2>2
<1>7. CASE p = Startup /\ RecoverOne(r)
  <2>1. UNCHANGED <<processing, waiting>> /\ queued \subseteq queued'
    BY <1>7 DEF RecoverOne
  <2>2. UNCHANGED pc \/ pc'[p] = "repair"
    BY <1>7, GoStill DEF RecoverOne
  <2>3. StartWatches(r)'
    BY <1>7, <2>2 DEF RecoverOne, StartWatches
  <2>4. QED BY <1>2, <2>1, <2>3
<1>8. CASE p = Startup /\ (ResumeOff(r) \/ \E kind \in {"asked", "auto"} : ResumeOne(r, kind))
  BY <1>8 DEF ResumeOff, ResumeOne, PlainInv
<1>9. CASE ScanNotYet(p, r)
  BY <1>9 DEF ScanNotYet, Watched
<1>10. CASE ScanDue(p, r) \/ ScanGiveUp(p, r)
  <2>1. PICK j : j = Job(r, "network")
    OBVIOUS
  <2>2. j.rec = r /\ pc[p] = "scan" /\ UNCHANGED <<processing, held>>
    BY <1>10, <2>1 DEF ScanDue, ScanGiveUp, Scanning, Job
  <2>3. CASE j \in queued'
    <3>1. Pending(r)'
      BY <2>2, <2>3 DEF Pending, Working
    <3>2. QED BY <3>1 DEF Watched
  <2>4. CASE j \notin queued'
    <3>1. UNCHANGED <<queued, waiting>> /\ (~Reservable(r) \/ Gone)
      BY <1>10, <2>1, <2>2, <2>4 DEF ScanDue, ScanGiveUp, Enqueue
    <3>2. CASE Gone
      <4>1. shutting'
        BY <3>2 DEF GoneInv
      <4>2. QED BY <4>1 DEF Watched
    <3>3. CASE Pending(r)
      <4>1. Pending(r)'
        BY <2>2, <3>1, <3>3 DEF Pending, Working
      <4>2. QED BY <4>1 DEF Watched
    <3>4. CASE r \in held /\ p = Startup
      <4>1. PICK q \in Procs : On(q, r) /\ pc[q] = "delete"
        BY <2>2, <3>4, HeldToDelete
      <4>2. QED BY <1>1, <4>1 DEF Watched
    <3>5. CASE p # Startup
      BY <1>2, <1>3, <2>2, <3>1, <3>5
    <3>6. QED BY <3>1, <3>2, <3>3, <3>4, <3>5 DEF Reservable
  <2>5. QED BY <2>3, <2>4
<1>11. QED BY <1>4, <1>5, <1>6, <1>7, <1>8, <1>9, <1>10 DEF TakesUp

\* The start takes up another.
LEMMA StartTakesUp ==
  ASSUME TypeInv, PlainInv, NEW p \in Procs, NEW x \in Recs, TakesUp(p, x), NEW r \in Recs, r # x, StartWatches(r)
  PROVE  StartWatches(r)'
<1> Startup \in Procs /\ TypeProcs /\ TypeTodo
  BY DEF Procs, TypeInv
<1>1. Still(p)
  BY TakesUpProcs
<1>2. CASE p # Startup
  <2>1. todo'[Startup] = todo[Startup]
    BY <1>2, TakesUpTodo DEF TypeTodo
  <2>2. QED BY <1>1, <1>2, <2>1 DEF Still, StartWatches
<1>3. CASE p = Startup
  <2>1. Job(r, "network") \in todo[p] => Job(r, "network") \in todo'[p]
    <3>1. Job(r, "network").rec = r
      BY DEF Job
    <3>2. QED BY <3>1, TakesUpTodo DEF TypeTodo
  <2>2. \/ UNCHANGED pc
        \/ RecoverOne(x) /\ pc'[p] = "repair"
        \/ ScanGiveUp(p, x) /\ pc'[p] = "giveUp"
    BY <1>3, GoStill, ProcsAssumption DEF TakesUp, StartCreate, Retry, Summarize, Name, Delete, Given, SweepHold, ScanGone,
       ScanNotYet, ScanDue, ScanGiveUp, Scanning, RecoverOne, ResumeOff, ResumeOne, StartWatches, PlainInv
  <2>3. ScanGiveUp(p, x) => pc[p] = "scan"
    BY DEF ScanGiveUp, Scanning
  <2>4. QED BY <1>3, <2>1, <2>2, <2>3 DEF StartWatches
<1>4. QED BY <1>2, <1>3

\* The start goes from one list to the next, and lists all that waits.
LEMMA StartLists ==
  ASSUME TypeInv, NEW p \in Procs, Lists(p) \/ Rests(p), NEW r \in Recs, meta[r].status = "waiting",
         StartWatches(r)
  PROVE  StartWatches(r)'
<1> Startup \in Procs /\ TypeProcs /\ TypeTodo
  BY DEF Procs, TypeInv
<1>1. Still(p)
  BY IdleSame
<1>2. CASE p # Startup
  <2>1. todo'[Startup] = todo[Startup]
    BY <1>2, ListsFrame, RestsFrame DEF TypeTodo
  <2>2. QED BY <1>1, <1>2, <2>1 DEF Still, StartWatches
<1>3. CASE p = Startup /\ (RecoverList \/ ResumeList)
  <2>1. pc'[Startup] \in {"recover", "resume"}
    BY <1>3 DEF RecoverList, ResumeList, Goto, TypeProcs
  <2>2. QED BY <2>1 DEF StartWatches
<1>4. CASE p = Startup /\ StartupScan
  <2>1. PICK due : due = {x \in Recs : meta[x].status = "waiting"}
                   /\ todo' = [todo EXCEPT ![Startup] = {Job(x, "network") : x \in due}]
    BY <1>4 DEF StartupScan
  <2>2. todo'[Startup] = {Job(x, "network") : x \in due}
    BY <2>1 DEF TypeTodo
  <2>3. Job(r, "network") \in todo'[Startup]
    BY <2>1, <2>2
  <2>4. pc'[Startup] = "scan"
    BY <1>4 DEF StartupScan, Goto, TypeProcs
  <2>5. QED BY <2>3, <2>4 DEF StartWatches
<1>5. CASE p = Startup /\ (SweepList(p) \/ Rests(p))
  BY <1>5, ProcsAssumption DEF SweepList, Rests, StartLock, Given, StartRefused, SweepDone, StartupScanned, StartWatches,
                               TypeProcs, StepsOf, StartupSteps
<1>6. QED BY <1>2, <1>3, <1>4, <1>5, ProcsAssumption DEF Lists

\* The end of a session has none that waits.
LEMMA ClosesNone ==
  ASSUME TypeInv, NEW r \in Recs, Closes(r), Stage(r)
  PROVE  meta[r].status # "waiting"
BY DEF Closes, Stop, Cancel, TakeSession, EndingStep, StopFinish, StopStuck, StopEnqueue,
       CancelFinish, StuckEnds, Stage, Shape

\* Whoever watches a recording that waits puts it in the queue or leaves it to
\* somebody else who does.
LEMMA WatchedStep ==
  ASSUME ~DiskFails, TypeInv, TypeInv', OwnInv, LockInv, FreeInv, StageInv, GoneInv, PlainInv, [Next]_vars,
         NEW r \in Recs, HeldBy(r), Shelved(r), Watched(r)
  PROVE  Watched(r)'
<1> SUFFICES ASSUME meta'[r].status = "waiting" PROVE Watched(r)'
  BY DEF Watched
<1>0. Stage(r)
  BY DEF StageInv
<1>1. CASE UNCHANGED vars
  BY <1>1 DEF Watched, vars, diskVars, viewVars, localVars, On, Pending, Working
<1>2. CASE Ended
  <2>1. pc'[Startup] = "list"
    BY <1>2 DEF Ended, Crash, Exit, ExitAbandon, Restart, Start0, Procs
  <2>2. QED BY <2>1 DEF Watched
<1>3. CASE Next /\ ~Ended /\ meta[r].status # "waiting"
  BY <1>3, NextWrites DEF Watched
<1>4. CASE Next /\ ~Ended /\ meta[r].status = "waiting"
  <2>0. shutting => shutting'
    BY <1>4, ShuttingStays
  <2>1. ASSUME NEW p \in Procs, Carries(p) PROVE Watched(r)'
    <3>1. CASE r = job[p].rec
      BY <1>0, <1>4, <2>0, <2>1, <3>1, CarriesWatched
    <3>2. CASE r # job[p].rec
      <4>1. SameProcs(r) /\ SameView(r)
        BY <2>1, <3>2, CarriesFrame, CarriesOn DEF Touches, Same
      <4>2. StartWatches(r) => StartWatches(r)'
        BY <2>1, StartCarries
      <4>3. QED BY <1>4, <2>0, <4>1, <4>2, WatchedSame
    <3>3. QED BY <3>1, <3>2
  <2>2. ASSUME NEW p \in Procs, NEW x \in Recs, TakesUp(p, x) PROVE Watched(r)'
    <3>1. CASE x = r
      BY <1>0, <1>4, <2>0, <2>2, <3>1, TakesUpWatched
    <3>2. CASE x # r
      <4>1. SameProcs(r) /\ SameView(r)
        BY <2>2, <3>2, TakesUpFrame DEF Touches, Same
      <4>2. StartWatches(r) => StartWatches(r)'
        BY <2>2, <3>2, StartTakesUp
      <4>3. QED BY <1>4, <2>0, <4>1, <4>2, WatchedSame
    <3>3. QED BY <3>1, <3>2
  <2>3. ASSUME NEW x \in Recs, Closes(x) PROVE Watched(r)'
    <3>1. x # r
      BY <1>0, <1>4, <2>3, ClosesNone
    <3>2. UNCHANGED <<pc, job, seen, todo>> /\ SameProcs(r) /\ SameView(r)
      BY <2>3, <3>1, ClosesFrame DEF Touches, Same
    <3>3. StartWatches(r) => StartWatches(r)'
      BY <3>2 DEF StartWatches
    <3>4. QED BY <1>4, <2>0, <3>2, <3>3, WatchedSame
  <2>4. ASSUME NEW i \in DOMAIN queue, TakesJob(i) PROVE Watched(r)'
    <3>1. CASE queue[i].rec = r
      <4>1. processing' = queue[i] /\ queue[i] # None
        BY <2>4, TakenJob, JobsAssumption DEF TakesJob
      <4>2. Pending(r)'
        BY <3>1, <4>1 DEF Pending, Working, Some
      <4>3. QED BY <4>2 DEF Watched
    <3>2. CASE queue[i].rec # r
      <4>1. SameProcs(r) /\ SameView(r) /\ Still(Worker)
        BY <2>4, <3>2, TakesFrame DEF Touches, Same
      <4>2. UNCHANGED todo
        BY <2>4 DEF TakesJob
      <4>3. StartWatches(r) => StartWatches(r)'
        BY <4>1, <4>2, ProcsAssumption DEF StartWatches, Still, Procs
      <4>4. QED BY <1>4, <2>0, <4>1, <4>3, WatchedSame
    <3>3. QED BY <3>1, <3>2
  <2>5. ASSUME NEW p \in Procs, Lists(p) \/ Rests(p) PROVE Watched(r)'
    <3>1. SameProcs(r) /\ SameView(r)
      BY <2>5, IdleSame DEF SameAll
    <3>2. StartWatches(r) => StartWatches(r)'
      BY <1>4, <2>5, StartLists
    <3>3. QED BY <1>4, <2>0, <3>1, <3>2, WatchedSame
  <2>6. CASE ShutdownIdle \/ ShutdownLate
    BY <2>6, ShutdownSame DEF Watched
  <2>7. QED BY <1>4, <2>1, <2>2, <2>3, <2>4, <2>5, <2>6, StepKinds
<1>5. QED BY <1>1, <1>2, <1>3, <1>4

\* Nothing waits, and nothing is held, before the first start.
LEMMA WatchInit == Init => WatchInv
<1> SUFFICES ASSUME Init PROVE WatchInv
  OBVIOUS
<1>1. \A p \in Procs : pc[p] \in {"list", "idle"}
  BY DEF Init, Start0
<1>2. Working = {}
  BY DEF Init, Working, Some
<1>3. \A r \in Recs : meta[r].summary = "no" /\ meta[r].status # "waiting" /\ r \notin held
  BY DEF Init, Fresh
<1>4. PlainInv
  BY <1>1, <1>2, <1>3 DEF PlainInv, PlainStep, SummarySteps, Procs
<1>5. QED BY <1>3, <1>4 DEF WatchInv, HeldBy, Shelved, Watched

\* Every step keeps every part of the invariant.
LEMMA WatchStep ==
  ASSUME "summarize" \notin Asks, ~DiskFails, TypeInv, TypeInv', LifeInv, StageInv, GoneInv, WatchInv, [Next]_vars
  PROVE  WatchInv'
<1>0. OwnInv /\ LockInv /\ FreeInv /\ PlainInv
  BY DEF LifeInv, WatchInv
<1>1. PlainInv'
  BY <1>0, PlainKept
<1>2. ASSUME NEW r \in Recs PROVE HeldBy(r)' /\ Shelved(r)' /\ Watched(r)'
  BY <1>0, <1>2, HeldStep, ShelvedStep, WatchedStep DEF WatchInv
<1>3. QED BY <1>1, <1>2 DEF WatchInv

\* A recording that waits for the network is never left to nobody: it is shown
\* as waiting for the timer's rounds, it is queued, somebody is about to delete
\* it, or the start has still to go through what waits.  Of a daemon that makes
\* no summaries, a disk that does not fail, and a user who retries and recovers
\* only what nobody writes to.
THEOREM WaitsAreWatched ==
  ASSUME Patient, ~DiskFails, "summarize" \notin Asks PROVE Spec => []WaitingIsWatched
<1>1. Spec => [](TypeInv /\ LifeInv /\ StageInv)
  BY StageHolds
<1>2. Init => FateInv /\ WatchInv
  BY FateInit, WatchInit
<1>3. TypeInv /\ LifeInv /\ StageInv /\ (TypeInv /\ LifeInv /\ StageInv)' /\ FateInv /\ WatchInv /\ [Next]_vars
        => FateInv' /\ WatchInv'
  BY FateStep, WatchStep DEF FateInv
<1>4. LifeInv /\ WatchInv => WaitingIsWatched
  <2> SUFFICES ASSUME LifeInv, WatchInv, NEW r \in Recs, meta[r].status = "waiting"
               PROVE  \/ r \in waiting \/ r \in held \/ Pending(r) \/ shutting
                      \/ pc[Startup] \in {"list", "recover", "resume", "repair", "send"}
                      \/ pc[Startup] \in {"scan", "giveUp"} /\ Job(r, "network") \in todo[Startup]
    BY DEF WaitingIsWatched
  <2>1. \A p \in Procs : On(p, r) /\ pc[p] = "delete" => r \in held
    BY DEF On, LifeInv, OwnInv, HeldOnce, Holding
  <2>2. QED BY <2>1 DEF WatchInv, Watched
<1>5. QED BY <1>1, <1>2, <1>3, <1>4, PTL DEF Spec
=============================================================================
