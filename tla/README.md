# whisrs in TLA+

whisrs is a dictation daemon for Linux: a hotkey or an IPC client starts a
recording, the audio is transcribed by a backend and typed at the cursor. The
same daemon reads text aloud, talks to coding agents by voice, and records and
transcribes meetings. This directory holds a model of its concurrent core, the
TLC configurations that check it on small instances, and TLAPS proofs of what
matters most for any number of handlers, sessions, read-alouds, recordings,
turns and utterances.

Run from this directory:

    tlc -workers 2 -config MCSerial.cfg MCDaemonSession   # and the other .cfg files
    tlapm DaemonSessionProofs.tla                         # and the other modules with theorems, section 2

## 1. The system

### 1.1 Parts that keep state

| part | state | operations | interacts through |
|---|---|---|---|
| daemon session state machine (`state.rs`, `daemon/context.rs`) | the state Idle / Recording / Transcribing / Synthesizing / Speaking, and the session slots of `DaemonState`: microphone, the three context slots (command, LLM command, agent), session language, streaming task and its cancel flag, the read-aloud's stop flag and origin | `transition`, and taking or filling a slot, each under the one `Mutex` | every handler and task locks it |
| dictation (`daemon/dictation.rs`) | none of its own | `handle_toggle` (start, takeover of a command recording, batch stop, streaming stop), `handle_cancel`, `discard_recording_session` | the lock, the pipeline's `JoinHandle` |
| pipelines (`daemon/pipeline.rs`) | the streaming task's buffer and decision | silence auto-stop, backend end, save, tail; batch collect and transcribe | the audio channel, the cancel flag, the lock |
| voice sessions (`daemon/command_mode.rs`) | the context slot of each flow | first press, second press, auto-stop, `claim_session`, done | the audio channel, the lock |
| read aloud (`daemon/speak.rs`) | the stop flag (an `Arc` whose identity is the ownership) | speak, synthesis end, first audio, playback end, stop, barge-in | the lock, the playback thread |
| retry of the last dictation (`daemon/retry.rs`) | the kept audio | retry | the lock |
| reply queue (`daemon/agent.rs`) | the queue of utterances, the one playing, the notify's permit | enqueue, notice, take, speak, requeue, hold, drop | watches state, recording status and a notify; the dictation lock |
| agent turns (`daemon/agent.rs`, `agent/store.rs`) | the agent's slot and generation, its task's updates, unclaimed hook events, `agents.json` and its numbered snapshots, the overlay's row | start, update, finish, stop, reset a turn; hook events; listings of an idle session; save; restart | the harness driver, hook commands, blocking writers |
| Claude Code driver (`agent/claude.rs`) | the agent's session, the pids remembered (`Exits`), the launches under way | check, stop, wait, settle, resume, discard a copy, launch, stop | `claude` commands and its listing |
| process-per-turn driver (`agent/process.rs`) | the registry of processes, one thread for each, the stop marks, the scopes swept | run a turn, wait for the previous one, spawn, register, read, stop, sweep, watch again | the operating system, the harness's output |
| realtime stream (`transcription/openai_realtime_protocol/engine.rs`) | what was committed, which items and texts were typed, whether the stream can end | send audio, commit, read an event, time out | a websocket server, the audio and typing channels |
| recording daemon (`daemon/recording.rs`) | the session mutex and slot, the view (capturing, processing, queued, waiting, held), the worker's queue, the retry timer | start, stop, cancel, retry, rename, summarize, delete, process, recover, sweep, shut down | the view's lock, the channel to the worker, recording.json |
| recordings store (`recording/`) | `recording.json`, tracks and transcript of each recording | read, rewrite, list, sweep, repair | the disk |

### 1.2 Parts that keep none, or that are outside

Audio capture and playback threads, HTTP transcription and TTS clients, the
parsing of each harness's output, text filters, the silence gate, the keyboard, selection, configuration,
overlay, tray, history, MCP, service and the CLI. `PROJECT.json` lists each with
the reason it is not modelled: pure I/O, formats, floating point, or a pure
algorithm that is planned below. Where the modelled core depends on one of
them, its outcomes are nondeterministic: a synthesis succeeds, is stopped or
fails; a transcription succeeds, fails, or loses the network.

### 1.3 What is hard in it

* **One lock, released across every await.** Nearly every handler reads the
  state, releases the lock to talk to a device, the desktop or a backend, and
  acts on what it read. What it read may be stale; most of the comments of
  `command_mode.rs`, `dictation.rs` and `speak.rs` argue about exactly that.
* **Ownership by identity.** A session, a read-aloud, a reservation belongs to
  whoever holds a token (a context, an `Arc`, an entry of the view). A late task
  must not end what its successor owns.
* **Crashes with a durable queue of one file per recording.** What a restart
  finds is `recording.json`; the attempts counted there are what stops a crash
  loop, and a shutdown gives one back.
* **Check-then-await-then-write on a file several tasks rewrite.** Rename,
  summary, sweep, retry, recovery and the worker share `recording.json` and the
  tracks through two conventions: a *reservation* (it is queued, nobody else
  may queue it) and a *hold* (nobody else may rewrite it).
* **Processes nobody controls.** A harness's session outlives the daemon, its
  process is stopped some time before it is gone, a resume may start a copy. A stop
  aborts the task that was to report a process which has just started.
* **Events from outside, late, twice or never.** A hook event and the poll of a
  transcript tell of the same reply; a task that was aborted still has a section
  to run; a transcription server sends completed events again, in any order,
  or not at all.
* **Liveness.** Transcribing must end, a stopped recording must be claimed, a
  queued recording must not stay "processing" forever; a turn must not outlive its
  work; a reply must not wait for a wake-up that never comes; a stream must end.

`PROJECT.json` lists each hazard at its line, with the properties that cover it.

### 1.4 What makes each part correct

* sessions: Transcribing always has somebody who will end it, and ends; no
  slot outlives its session; a stopped recording is claimed or discarded; a
  cancelled dictation is never saved and a finished one is saved once;
* read aloud: one owner of the read-aloud states, everyone else was told to
  stop, and the state is given back; no reply starts in the gap of a press that
  silenced the agents;
* recordings: one process at a time has a recording's files; none is
  forgotten, through any crash; attempts are counted exactly and bounded;
  statuses change only as the user is told they do;
* reply queue: a reply is spoken once, in order, not into a meeting, and is
  eventually spoken or dropped;
* agent turns: one turn at a time; an ended turn changes nothing; a session the user
  let go stays gone; a reply is delivered once; `agents.json` never goes back to an
  older snapshot; the overlay shows what the slot says;
* Claude launches: no resume while an old process runs, only copies are removed,
  nothing started is left behind;
* process-per-turn: one process in a session at a time; a stop reaches it wherever
  it is in its start; a new daemon sweeps before it starts one;
* realtime stream: nothing typed twice, nothing typed lost, an end in every case.

## 2. Modules

    DaemonSession            handlers, sessions and read-alouds over the one lock
      DaemonSessionProofs    type correctness, ownership of the read-aloud, held presses,
                             cancellation; with one press at a time: who owes the end of
                             Transcribing, whose the slots are, what Idle leaves behind
      MCDaemonSession        instances for TLC
    Recordings               the recording daemon, its queue, crashes and restarts
      RecordingLifecycle     what a recording's user is promised (abstract)
      RecordingsProofs       type correctness, one owner of a recording's files, what a
                             step touches, what is shown as being recorded
      RecordingsFate         the stages of a recording, its attempts, the refinement;
                             nothing forgotten, nothing left waiting
      MCRecordings           instances for TLC
    ReplyQueue               the agents' utterances and the loop that says them
      SpeechOutbox           what the queue promises (abstract)
    AgentTurns               the turns of one agent, its store and its hook events
      AgentRuntimeProofs     of both: silence in a meeting, the refinement of the
                             outbox, the order of writes, the sessions let go, the
                             events kept, the overlay's row, one turn at a time
      AgentRepliesProofs     of the turns: a reply is said once
    Selections               what is left of a queue from which some elements go, as the
                             three above filter theirs
    ClaudeLaunches           how the Claude Code driver continues a session
    ProcessTurns             the driver that runs one process for each turn
      AgentHarnessProofs     of both: what runs, what is waited for, what is kept; one
                             process in a session, the sweep, what is confirmed
    RealtimeStream           the engine of the realtime transcription
      RealtimeStreamProofs   typed once, and kept
    Parts                    these five side by side, and their types
      PartsProofs            the types, from a theorem of each
      MCParts                instances of the five for TLC

### 2.1 DaemonSession

An action is one critical section of the `DaemonState` lock: the code from an
acquire to the release or to the next `.await` after it. A handler that takes
the lock three times has three actions, and `pc` says which comes next.

| variables | code |
|---|---|
| `state` | `state_machine.state()`; `Transition` is the table of `state.rs` |
| `capture`, `slot`, `language`, `streamTask`, `streamCancel`, `ttsStop`, `ttsOrigin` | the fields of `DaemonState` of the same names (`slot` is the three context fields, one for each flow) |
| `kind`, `task`, `closed`, `flagged` | a session: the flow that started it, the step of its background task or streaming pipeline, whether its audio channel is closed, whether its cancel flag is set |
| `live`, `playing`, `hushed` | a read-aloud: whether it has not ended, whether its playback runs, whether its stop flag is set |
| `pc`, `what`, `job`, `utter` | the handlers: step, flow or origin, what a stop took out of the lock, the read-aloud waited for |
| `heard`, `saved`, `cancelled` | history: what the pipeline returned, history entries, sessions a cancel threw away |

`Handlers` are commands handled at once. The hotkey loop handles one at a time;
every IPC connection is a task of its own, so the CLI and a hotkey overlap:
one handler is the single-user case, two are the general one. `ReplyLoop` is the
agents' utterance loop, which asks to speak on its own.

Abstracted or left out: the audio itself (whether the session's samples can still
be collected is kept), the captured window, timestamps and profile, text and
typing, notifications. A handler aborted with its connection is not modelled:
the IPC task runs its command to its end. A session's capture is stopped in the
section that takes it (the code stops it right after the release, before any
await). Ids are reused once nothing refers to them.

### 2.2 Recordings

The disk (`meta`, `tracks`) survives a crash; the view (`capturing`,
`processing`, `queued`, `waiting`, `held`), the worker's channel and backlog
(`queue`), the session and every task do not. `RecordingRuntime`'s two locks
are there: the view's lock is never held across an await, so a section that uses it
is a step; the session mutex is (`lock` names the start that holds it).

| process | code |
|---|---|
| `Tasks` | commands from IPC clients, hotkey and tray: `start`, `retry`, `rename`, `queue_summary`, `delete` |
| `ending[r]` | the part of `stop` and `cancel` after the session was taken out of its slot |
| `Worker` | `run_worker`: take, `process_one`, `summarize_one`, the sweep after each job |
| `Startup` | `recover_on_startup`: interrupted recordings, pending summaries, waiting recordings, the sweep |
| `Timer` | `run_network_retries` |

A step is a section of code without an await. A rewrite of `recording.json`
that shares the recording with other writers by design (a rename, the summary's
pending mark) is two steps, its read and its write; the others, which hold or
reserve the recording, rewrite in one. `seen[p]` is the copy of `recording.json` a
process holds between its read and its write: `process_recording` reads it
at the start of an attempt and writes it back at the end, which may be minutes
later.

`Crash` may happen at any step. `ShutdownIdle`, `ShutdownAttempt` and `ShutdownLate` are
what `shutdown` finds the worker doing; `Exit` and `ExitAbandon` are the rest
of it and the exit of the process. After each of them `Restart` runs
`recover_on_startup` from the disk.

Bounds of the model, all named constants: `MaxCrashes` crashes and shutdowns;
`Asks`, the commands the tasks are given; `DiskFails`, whether a write of
`recording.json` by a start, a stop, a repair or the mark of a summary may fail (those of
the worker, the sweep, a rename and a delete are taken to succeed); `Patient`, whether nobody touches a recording whose
tracks are still written. An id is used once in a behaviour (ids are
timestamps).

Abstracted or left out: what a job computes, the segments, the summary's text,
file formats and the WAV repair, copy (reads only), the free-space and silence
watch (its stop is `Stop`), the headers cache. Several small rewrites (the sweep,
clearing a pending mark) that could lose an update against
`mark_pending` in the same way as a rename are one step: `RenameKept` shows the
kind once. On a multi-threaded runtime a section without an await can be
preempted by another thread between two locks; that is outside the model.

### 2.3 RecordingLifecycle

The abstract specification: each recording has a status as the user sees it,
and `wanted` is the set of recordings somebody asked to transcribe again. It says
which status changes are legal (a transcript is replaced only for a retry that
was asked for; a failed recording comes back only the same way; none that is
processing is deleted, but one that a retry left so when a shutdown had taken the worker) and, with `WF` of
`Settle`, that no recording is left in `processing`. `Recordings` implements it
(`KeepsItsPromises`) under the refinement mapping that shows a claimed folder as
no recording and reads `wanted` off the retries past their claim.

### 2.4 ReplyQueue and SpeechOutbox

The queue, its loop and all that silences it. `loopAt` is where `utterance_loop`
is: it looks, waits for one of its three sources (`stateNews`, `statusNews`,
`ready`), asks for the voice, speaks, drains. Around it are a press with a
`ReplyHold` (`press`), a recording's start (`recorder`) with the stop it makes or,
the lock being busy, spawns (`late`), the utterance a stop copied to put back
(`copied`), and a selection read aloud, which takes the same voice. Where
`DaemonSession` has every step of a press, this module has only what the queue
can see of one: the hold, the stop, and where it leaves the dictation state.

A step is the code between two awaits; `requeue_if_stopped`, beside which
the loop runs, is two. An utterance stands for its text. There is one agent and
one notice key, since those of two never replace or drop one another.

`SpeechOutbox` is what an agent may count on: what it asks to be said waits
in line, is said in order, one at a time and once, may be sent back to the
front, and is lost only when a user cuts it off or cancels, when it is an interim
that aged, or a notice that repeats one. `ReplyQueue` implements it
(`KeepsTheOutbox`): what a stop has copied and not put back is at the
front of the line, what the loop is about to speak is being said.

### 2.5 AgentTurns

| variables | code |
|---|---|
| `slot`, `generations` | the agent's `Slot` (turn, phase, own work, polled reply), `next_generation` |
| `turnTask`, `ghost`, `strays` | the turn's task, driver and updates; the section an aborted task may still run; launches of stopped turns |
| `record`, `disk`, `writes`, `writeLost` | `AgentRecord`; `agents.json`; the numbered snapshots not written yet, taken by blocking tasks in any order |
| `kept`, `flying`, `reading` | unclaimed hook events; those on their way; those handled with no turn running, between their two sections |
| `sending`, `stopping`, `listed` | the steps of `start_turn`, `--stop`, the listing of an idle session |
| `harness` | external: the sessions, what each works for, which of them wait for a permission |
| `board` | the row of the overlay, as events sent from several sections |

A step is a section under the runtime's lock or what happens between two. A stop or
reset aborts the turn's task, which may run one more section (`ghost`). The
harness is modelled as the Claude Code driver uses it: a session that outlives
the daemon, works for a turn or on its own, and sends a hook event for each thing
it does. A crash loses all but `disk` and `harness`; the restart watches a turn
again whose record says `turn_running`. Left out: a stop that fails, the waits of
`idle_loop`, a record whose agent the configuration changed.

### 2.6 ClaudeLaunches

Below one turn of `AgentTurns`: `next_turn` of the Claude Code driver. A process
is starting, listed, exiting or gone, and the driver sees only the listing and
the pids it remembers (`seen`, the code's `Exits`). A resume continues the
session, starts a copy, or prints the session's own id with a copy's note, which
leaves open what it did. The launch runs on a task of its own that a stop cannot
abort: it reports, stops what nobody waits for any more, and removes a copy.
`CheckGone` forgets the pids of a session that is gone (`Exits.forget`), and with them
what listings showed of it: an id may be listed again later, by a process
nobody waits for. Left out: `claude` commands that fail.

### 2.7 ProcessTurns

The driver for harnesses with a process for each turn: the turn's task, the thread that
starts and waits for each process, the registry in which `--stop` looks for it,
the guards that an aborted task still drops, the detached tasks that stop a process
nobody reads, and the scopes a killed daemon leaves behind and the next one
sweeps. `overtaken` is history: a stopped turn's process was registered after the
next turn had looked for it, which needs a start slower than a whole stop.

### 2.8 RealtimeStream

The engine's two profiles against a server that detects turns itself or waits for
the commit, transcribes items in any order, repeats completed events with and
without their id, answers an empty commit with an error, "cleared" or nothing, sends pings, fails,
closes or breaks off. A chunk is a word or a hum, an item a range of chunks, a
text its words. `gone` is how the connection ended: `"error"` (the server reported one, or the
connection broke), or cleanly, by a close frame (`"close"`) or the end of the stream (`"end"`).

`TimesOut` is the timer of one wait for the next message, so it runs out only while none is there.
`Ping` stands for a websocket ping and for an event the engine only logs, both of which
end such a wait and begin another. There is no bound on how many come; one is sent
only when the engine waits after the commit with nothing else to read, as elsewhere it
changes nothing. Left out: the handshake, a typing channel nobody reads.

## 3. What TLC checks

| run | question | size |
|---|---|---|
| `serial` (MCSerial) | one press at a time, batch or streaming, two sessions, one read-aloud, command and agent flows: every safety property of the session and the three liveness properties | 69 708 states |
| `concurrent` (MCConcurrent) | two presses at once, streaming, two read-alouds: ownership of the read-aloud, finality of a cancel | 888 245 states |
| `recordings_recovery` (MCRecovery) | one recording, one command task, two attempts, one network retry, three crashes or shutdowns: nothing forgotten, exact and bounded counts, the lifecycle | 308 295 states |
| `recordings_overlap` (MCOverlap) | two recordings, summaries, edits, failing writes: one owner of the files, the right recording shown | 2 676 029 states |
| `parts` (MCParts) | the reply queue, one agent's turns, Claude's launches, the processes of turns, the realtime stream, each by itself: the properties below | 421 800 states |
| `wedge`, `stale_claim`, `takeover`, `history`, `live_track`, `lost_rename`, `early_end` | a sentence of the code's own comments that the code does not keep (section 5) | |

Safety properties:

* `TranscribingIsOwned`: in Transcribing, a stop press, a retry or a task owes the
  `TranscriptionDone`. `SlotIsOfTheRecording`: a filled context slot belongs to the
  session that records. `IdleIsClean`: in Idle no microphone, slot, language or
  cancel flag is left behind by a session. `HeldPressFirst`: no agent's reply takes
  the Idle a press that holds the replies counts on. `ReadAloudOwned`: the
  read-aloud states have exactly one owner, and every other live read-aloud
  has its stop flag set. `CancelIsFinal`: no history entry of a cancelled
  streaming session.
* `OneOwner`: at most one of a transcription, a repair, a rename, the sweep, a
  summary's write and a delete has a recording. `NothingForgotten`: an
  unfinished recording is recorded, being stopped, queued, processed or on
  the recovery's list. `WaitingIsWatched`: one that waits for the network is
  on the list of the retries. `FairCount`: the attempts on disk are the attempts
  made, less those a shutdown aborted (a retry for the network counts all the same).
  `CrashLoopEnds`: there are never more than
  `MaxAttempts + NetworkMax` of them without a manual retry.
  `CapturingIsLive`: what is shown as recording is the session, or one whose
  stop is not finished.
* Reply queue: `KeepsTheOutbox`, the refinement. `QuietInMeeting`: while a meeting is
  captured no agent speaks, but for one that a spawned stop waits to silence.
* Agent turns: `DiskIsNewest`: with nothing left to write the file holds the
  newest state, unless just that write failed. `ForgottenStays`: no late update brings
  back a session let go. `BoardAgrees`: the overlay's row is what the slot
  says. `ReplyOnce`: a reply reported by hook and by poll is delivered once, except
  after a later turn or a restart. `KeptIsForeign`: a running turn has got the
  events that came before its session's id. `WorkIsNotCutOff`: of two requests that
  saw the agent free, the second does not replace the first one's working turn.
* Claude launches: `ResumeWaits`: whatever any listing showed of the session is gone
  before it is resumed. `NotSentDoesNotRun`: a turn reported as not sent does not run.
  `OriginalKept`: only copies are removed.
* Processes of turns: `OneProcess`: two processes never work in one session, unless
  `overtaken`. `SweptFirst`: what an earlier daemon left in its scope is gone
  before a process is started. `WorkedIsKnown`: the session the agent was seen working
  in is its own once the turn is over, also when a stop dropped the update.
* Realtime stream: `TypedOnce`: no item is typed twice. `KeepsTyped`: once
  the tail was committed a stream that typed fails only for a real error, never for a timeout, an empty
  commit or a clean close.

Liveness: `TranscribingEnds`, `StopIsHeeded` (a stopped command recording leaves
Recording), `ReadAloudEnds`, and the `WF` of `RecordingLifecycle`; of the parts
`NeverStuck` (the loop never sleeps for good beside something it could say),
`TurnsEnd` (a turn whose session works no longer ends, also with its hook event
lost), `StraysStop` (a copy, and a stopped turn's process, end), `StoppedDies` (a stop
reaches the process wherever it is in its start), `StreamEnds` (once the microphone closed the
stream ends, if the server's pings stop at some time; without that assumption TLC finds
the stream kept open by a ping in every wait).

**Why these bounds.** Two sessions are what every stale-task hazard needs: an old
task and its successor; reuse of ids makes a third session the first again.
Two handlers are two lock holders between whose sections the interesting
interleavings happen; what needs more of them is proved instead. Two attempts and one
network retry tell "counted", "counted again" and "given up" apart; three crashes
interrupt each of the two attempts and the recovery after them. Two recordings are a
finished one and its successor; the queue's order and the view's per-recording checks
have no case for a third. The two-recording run takes no crash: everything the view keeps
is per recording except `capturing` and `processing`, and a crash resets both.
`WaitingIsWatched` is checked without summaries: a stale list of
`resume_summaries` breaks it (hazard at `recording.rs:2631`).

`MCParts` puts five instances that share nothing side by side; it is not a composition. The
queue has a reply with an acknowledgement, or two notices of one key: what replaces,
drops or overtakes what needs two. A turn and its successor tell an ended turn's
updates from the running one's; six `TurnBudgets` name what a behaviour may have besides
(a stop and a reset; own replies; two senders at once; failing writes and launches; a crash and a
vanished session; questions). Two launches and two attempts of a resume are the
first and the last; two processes are a stopped turn's and its successor's, and
the daemon dies only while the second is not started. Two chunks are a tail and a
turn before it, with one repeated event. Server-side detection of turns and the profile
vary only in the stream's own part.

Deadlock is not checked for the parts, whose budgets run out, nor for the recording daemon, which may really have nothing to do;
it is checked for the session, where a press is always possible.

**Fairness.** Tokio runs every task that is ready, so the next step of a handler that
has begun, of a background task, of the streaming pipeline, of a read-aloud's playback, of
the worker and of the recovery is weakly fair; a backend, a synthesis and a playback
end because they have timeouts or end with their process. Tokio's mutex is first come,
first served: the two steps that wait for the session mutex (`RetryClaim`,
`RecoverList`) are strongly fair. A shutdown that has begun exits. There is no
fairness of presses, commands, silence, the timer, the network or crashes: nothing
has to happen from outside. In the parts the same holds for the utterance loop and a spawned
stop, for a turn's task and the writes, for the launch and the stop tasks, for the threads,
guards and detached stops of a turn's processes, and for reading or timing out of a message;
`Dies` is fair because the last signal is SIGKILL. Users, the harness and the server owe nothing;
the one assumption on a server, that it does not ping for ever, is part of `StreamEnds`.
Without the fairness of the tasks none of the liveness
properties holds, and nothing else is needed.

## 4. What is proved

| theorem | for every | from |
|---|---|---|
| `Typed`: `Spec => []TypeOK` | set of handlers, sessions, read-alouds, flows | it is inductive; it includes that no handler is at a step its command cannot be at |
| `ReadAloudOwnership`: `Spec => []ReadAloudOwned` | the same | inductive as it stands, once every step is classified as one that leaves the read-aloud's variables alone (`RecordingFrame`), one that stops it (`Hush`, `BargeIn`), one that starts another (`SpeakStart`) or one that ends its own (`End`) |
| `HeldPressesGoFirst`: `Spec => []HeldPressFirst` | the same | `TypeOK`: a press takes its hold in the section that silences the agent, and a reply checks the holds in the section that starts it |
| `CancelsAreFinal`: `Spec => []CancelIsFinal` | the same | `CancelInv`: not only a flagged session, but any session whose flag is still in `streamCancel` has no text and no entry. Alone the property is not inductive: a cancel could flag a session that was saved before |
| `TranscribingHasAnOwner`: `Spec => []TranscribingIsOwned` | sessions, read-alouds, flows, one handler | `OwnInv`: while a command press waits for the selection, nobody records. `OneAtATime` is needed: the `wedge` run is the counterexample with two handlers |
| `SlotsAreOfTheRecording`: `Spec => []SlotIsOfTheRecording` | the same | `SerialInv`, section 4.6 |
| `IdleDaemonIsClean`: `Spec => []IdleIsClean` | the same | `SerialInv`, section 4.6 |
| `RecordingsTyped`: `Spec => []TypeOK` of Recordings | recordings, tasks, limits, commands | `TypeInv`, section 4.1 |
| `OneOwnerAtATime`: `Spec => []OneOwner` | the same | the reservation and hold discipline, section 4.1 |
| `ShownIsLive`: `Spec => []CapturingIsLive` | the same | `LifeInv`, section 4.1 |
| `AttemptsAreFair`: `Spec => []FairCount` | the same, with `Patient` | `StageInv`, section 4.1 |
| `NoEndlessTries`: `Spec => []CrashLoopEnds` | the same, with `Patient` | `StageInv`, section 4.1 |
| `StatusFollowsTheLifecycle`: `Spec => Lifecycle!Init /\ [][Lifecycle!Next]_(Lifecycle!lifeVars)` | the same, with `Patient` | `StageInv` and `OneOwner`, section 4.1 |
| `NothingIsForgotten`: `Spec => []NothingForgotten` | the same, with `Patient` and `~DiskFails` | `FateInv`, section 4.1 |
| `WaitsAreWatched`: `Spec => []WaitingIsWatched` | the same, and no summaries | `WatchInv`, section 4.1 |
| `PartsKeepTypes`: `RepliesSpec /\ TurnsSpec /\ LaunchesSpec /\ ProcessSpec /\ StreamSpec => []PartsTyped` | all constants of the five parts | `RepliesKeepTypes` (from `OutInv`), `TurnsKeepTypes` (`TypesInv`, section 4.3), `LaunchesKeepTypes` (`LaunchesInv`), `ProcessKeepsTypes` (`IInv`) and `StreamKeepsTypes` (`StreamInv`, with what the engine looks up as typed among what was typed) |
| `NobodySpeaksIntoAMeeting`: `RepliesSpec => []QuietInMeeting` | utterances | `QuietInv`, section 4.2 |
| `QueueKeepsTheOutbox`: `RepliesSpec => KeepsTheOutbox`, that is `Outbox!Spec` | the same | `OutInv`, section 4.2 |
| `FileHoldsTheNewest`: `TurnsSpec => []DiskIsNewest` | turns, budgets, hook events kept | `NewestIsLast`, section 4.3 |
| `KeptEventsAreForeign`: `TurnsSpec => []KeptIsForeign` | the same | `LetGoInv` and `ForeignInv`, section 4.3 |
| `RepliesAreSaidOnce`: `TurnsSpec => []ReplyOnce` | the same | `OnceInv`, section 4.3 |
| `LetGoStaysGone`: `TurnsSpec => []ForgottenStays` | the same | `LetGoInv`, section 4.3 |
| `RowShowsTheSlot`: `TurnsSpec => []BoardAgrees` | the same | `RowInv`, section 4.3 |
| `WorkingTurnsLast`: `TurnsSpec => WorkIsNotCutOff` | the same | an action property: the running turn changes only when one starts, ends, is stopped or is lost (`TurnChanges`), and a start looks again in the section that starts |
| `UnsentTurnsDoNotRun`: `LaunchesSpec => []NotSentDoesNotRun` | prompts, launches, attempts of a resume | `LaunchesInv`, section 4.7 |
| `ResumesWait`: `LaunchesSpec => ResumeWaits` | the same | `LaunchesInv`, section 4.7 |
| `SessionsAreKept`: `LaunchesSpec => OriginalKept` | the same | `LaunchesInv`, section 4.7 |
| `NothingTypedTwice`: `StreamSpec => []TypedOnce` | words, chunks, repeated events | `StreamInv`, section 4.4 |
| `TypedTextIsKept`: `StreamSpec => []KeepsTyped` | the same | `StreamInv`, section 4.4 |
| `ProcessesKeepApart`: `ProcessSpec => []OneProcess` | turns, processes, deaths of the daemon | `IInv`, section 4.5 |
| `OldProcessesGoFirst`: `ProcessSpec => []SweptFirst` | the same | `IInv`, section 4.5 |
| `SessionIsConfirmed`: `ProcessSpec => []WorkedIsKnown` | the same | `IInv`, section 4.5 |

Two fields of one process or turn are updated by a nested `EXCEPT` (`![s] = [@ EXCEPT
!.at = .., !.left = ..]`). TLA+ has a shorter form with two updates below the same
index, but tlapm 1.4.5 encodes it wrongly and proves FALSE from it.

The assumptions are the ones the modules state (`HandlersAssumption`,
`IdsAssumption`, `KindsAssumption`, `JobsAssumption`, `LimitsAssumption`, ...): ids and
jobs are not the sentinel, the process names are distinct, the bounds are natural numbers. TLC evaluates them in every run.

Three groups of theorems have a condition beside these:

* `OneAtATime` (`DaemonSession`): one handler. It is how a single user meets the hotkey
  loop; with two, `wedge`, `stale_claim` and `takeover` are counterexamples.
* `Patient` (`RecordingsFate`): nobody retries or recovers a recording whose tracks are
  still written. The code does not see to it (`live_track`), and without it a retry
  and a late stop both write the recording's status and count.
* `~DiskFails` (`NothingIsForgotten`, `WaitsAreWatched`): no write of `recording.json` fails. A stop whose
  write fails leaves the recording at `recording` with nobody until the next start, and
  a mark that fails leaves a job undone. `WaitsAreWatched` also needs a daemon without summaries,
  for the hazard at `recording.rs:2631`. All three are true of a run of section 3.

Only model-checked: liveness (fairness and ENABLED are beyond the prover), and so the
temporal part of `KeepsItsPromises`. Every other invariant and action property of a passing
run is stated by a theorem, some of the sessions and the recordings under the conditions above.

### 4.1 One owner of a recording

`OneOwner` compares processes in pairs and says nothing of why a second one stays
out. What keeps it out is the view, and `OwnInv` says how, in three parts:

* `ReservedOnce`: a process between its check of the view and the job's send (`repair`,
  the pending mark, ...) has its job in `queued`; no two of them have the same
  recording, nor does the worker's queue hold it, which itself holds a
  recording once;
* `WorkedOnce`: what the worker is at is `processing`, and is not queued again;
* `HeldOnce`: who rewrites a recording has it in `held`, alone, and no
  transcription of a held recording is queued or processed. (A summary
  may be: it waits for the hold.)

Each step then has one of a dozen effects on the view (`Effect`: it reserves,
sends, gives up, holds, releases, takes, ends, ends in an automatic summary, resets,
or changes nothing of it), and one lemma for each effect says that `OwnInv` survives it.
The classification needs what a process carries at each step (`Fits`, a
part of `TypeInv`): a job of the right kind, the recording that it holds, the copy
of `recording.json`. `TypeInv` is also what `RecordingsTyped` rests on: `TypeOK`
alone is not inductive, since a step may write what it carries to the disk or the view.

The theorems that follow in `RecordingsProofs` and `RecordingsFate` are
about one recording at a time. Every step is of a kind (`StepKinds`: a process goes on with
the recording it carries, takes one up, ends one; the worker takes a job; ...), and a
kind says which recording it `Touches`: of any other one it leaves the disk, the view, the
processes and the lists as they were. An invariant of the form "for each
recording" is then kept by showing it for the one a step is about. The invariants are

* `LifeInv`: the session mutex is the start's that holds it (`LockInv`), what
  anybody carries, queues or lists has a folder (`KnownInv`), and what is shown as captured is live (`CaptureInv`, which
  `ShownIsLive` reads off);
* `StageInv`: for each recording what its header says (`Shape`), that its count is
  what was spent (`CountFits`), that what is queued has tries left (`Lined`), and that each process that
  carries it found the status its step needs, still there (`Sound`). `FairCount` and `CrashLoopEnds`
  alone are not inductive: a status written from a stale copy would break
  the count only later;
* `FateInv`: an unfinished recording has a transcription reserved, queued or at the worker, is
  recovered, or is its recorder's (`Remembered`). The hard part is the shutdown and the
  start: the list the start goes through is not looked at again (`ListInv`), and a job is dropped only
  by a worker that is gone (`GoneInv`);
* `WatchInv`: one that waits is on the list, queued, being deleted, or before the start's scan
  (`Watched`), which needs that a hold is somebody's (`HeldBy`) and that neither a rename nor the
  sweep has a recording that waits (`Shelved`).

`StatusFollowsTheLifecycle` is the safety part of the refinement. `Abides(r)` says what the status of
the recording a step is about, and whether it is wanted, may do; one lemma for each kind of
step shows it from `StageInv` and `OneOwner` (a delete finds nobody repairing, a retry
is the one that asked), and `AbidesMaps` turns it into the action of `RecordingLifecycle`. The
first attempt failed for a good reason, which TLC then showed with two tasks: a retry that a shutdown
overtakes leaves its recording processing with nobody, and a delete that was already under
way removes it. `RecordingLifecycle.Delete` allows that now; the next start would have recovered it.

### 4.2 Silence in a meeting

That a meeting is quiet depends on what came before it: `QuietInv` says it from
the moment the start takes its hold (`recorder # "none"`), not from the capture on. It
also needs `PlaybackIsPlaying`, that a read-aloud by an agent is the utterance the loop is
at: only then does the stop find the one to stop. The loop starts one only while nothing is
held, in the section that looked.

`QueueKeepsTheOutbox` is the refinement of `SpeechOutbox`. Its mapping puts what a stop has
copied in front of the queue (`Waits`) and calls what the loop has in hand being
said until it is done with it (`Saying`). `OutInv` adds to `QuietInv` what makes every step
a step of the outbox: nothing waits twice, and at most one notice (`QueueInLine`); what is
in hand was asked for and does not wait as well (`OneInHand`); what is
copied neither waits nor is being said, and the lock is its stop's until it is back (`CopyInHand`).
Without the last a loop beside the stop could take up a queue the copy is missing from. Each group of actions
(agents, loop, users, a recording's start, its spawned stop) has a lemma that it keeps the invariant and which
action of the outbox it is, if any; most take several steps of the loop for one of the outbox, and the stop's
copy and put back, two steps of the code, are one.

The lemmas this needs say how filtering a queue (`Keeping`, in `Selections`) meets appending, putting in front,
removing and replacing. `Keeping` recurses along the queue, so they need induction, and the library states
induction with an operator for the predicate, which the provers cannot instantiate. `SequencesBySets` states it with a set
instead: one that has the empty sequence and with each sequence those one longer has all of them. It follows from
a least element (`LeastNat`), that is from the well-foundedness of `<`. `Keeping` takes the set of what stays in place of
`SelectSeq`'s test for the same reason.

### 4.3 The record of an agent

`TurnsTyped` is not inductive alone: what a step writes to the record or keeps comes from a task's
updates, a hook event or the harness. `TypesInv` types those as well (`TaskTyped`, `EventsTyped`,
`HarnessTyped`, `CommandsTyped`). The cap of the kept events needs an argument of its own: `Keeping` returns no
more than it was given (`KeepingShortens`), so one event more, the first dropped, is within it
(`KeepingOneMoreTyped`).

`NewestIsLast`: the last snapshot waiting is the record, or its write was lost. `DiskIsNewest`
follows because `save` skips a snapshot older than the newest written one, so whichever
task writes last, the queue's end is what stays.

`LetGoInv` says whose word can still reach the record. `StoreIsKnown`: what is on disk or
waits to be written was launched (its generation is past), so a restart cannot bring in
a session of the future. `TurnIsLive`: what the running turn's task and its
updates name was not let go, since a reset ends the turn. `GhostIsOld`: an
aborted task's section is of an older generation than the slot's turn, so that
`apply_update` refuses it.

`KeptIsForeign` is of a turn whose session has an id. An event is kept only when it is of no turn's session, and when a turn
starts in a session, or its session gets its id, the kept events of that session are taken out, in order. `ForeignInv` says so of
the set of the kept events; that taking out leaves none, and that a full board drops only the oldest, are lemmas on `Keeping` and `Keep`.

`BoardAgrees` speaks of the row between turns. `RowInv` says of every state what the events sent so
far have left of the row and what the slot is, and each step is one of six moves of the two
together: nothing, a row that is gone, a turn, a session's own work, a wait for the user, work
again.

`ReplyOnce` excepts a late Stop after a later turn, and a restart; what keeps the other
replies from being said twice is spread over the harness, the hooks, the turn's task and the slot. `SpokenInv`
collects it:

* `WhereRepliesCome`: a turn's number is new when it starts, a session works for one reply
  that is not out yet, one event at a time is on its way, and what an event or an
  update tells of is a reply that is out;
* `InOnePlace`: over the event on its way, the driver's hooks, its updates, the events kept for
  its session and the outcome a poll or a Stop has set, a reply counts once at most;
* `HeardRight`: a reply already said is in one of these only as the late Stop of the turn that ended on a
  poll (`slot.polled`, which `own_reply` compares with) or of a turn before the last
  that ended, and never among those kept events;
* `PolledIsFirst`: the late Stop of the polled turn comes before any other reply of the session, in the
  hooks and in the updates. Without it the next reply of the session's own would take `polled` away
  before the late Stop is compared with it.

A restart forgets `polled`, and the invariant with it (`OnceInv`: until the daemon first
dies). Each step is of one of some twenty kinds, named for what it does with the event, the task, the kept
events and what was heard; how many of a queue's elements tell of a reply, and which comes first, are
lemmas on `Keeping`.

### 4.4 The realtime stream

The two profiles keep from typing twice by different means, and `StreamInv` has both. With
deltas, `DeltaOnce`: an item has one delta, which is on the wire or typed, and completed
events add nothing to it. With completed events only, `TextOnce`: what was typed is in
`textsTyped`, where a repeated event finds it. `Before` says that items are
of chunks already sent, so a later word does not change their text; `Noted`
that only a failed server or connection is read as an error, that nothing is committed before the microphone
closes, and that typed text is noted in `anyText`, on which the decision between an end and a failure rests.

### 4.5 The processes of turns

`OneProcess` excepts an overtaken process: one that its thread registered after the next turn
had looked into the registry. Short of that, the registry names the one process a thread has
registered and not seen end (`Registered`), and two that work would both be that one.
It holds because the processes come in order: `Filled` (each try takes the next number) and `InTurn`
(a turn starts a process only when no other of its own is about to start, so a
thread that has not registered has only later turns' processes after it). When such a
thread registers, either a later turn has looked, and the process is overtaken, or
nothing after it is registered, and what it replaces is over.

`SweptFirst` rests on `SweptInv` and on the last part of `Stages`: before the sweep nothing of this
daemon has a process. `WorkedIsKnown` rests on `Confirmed`: the last report a turn sent,
or else the record, is the session's newest state. A pending session is reported by a
process which has not been read yet, in a turn that began without a session, so never
after the harness was seen working.

### 4.6 One press at a time

`SlotIsOfTheRecording` and `IdleIsClean` speak of the slots of `DaemonState`, and what may still clear or
fill them is spread over tasks. `SerialInv` says for each state of the daemon who is
left: outside Recording nothing captures and no slot is filled (`StateInv`, `SlotInv`); a live pipeline is the
streaming task's or the stop's that waits for it, alone, and the flag in `streamCancel` is its own
(`PipeInv`); a command's task at work excludes every other end (`WorkInv`); a press that
finishes a recording holds what is left of it (`FinishInv`). Idle is clean since each
of these ends with the transition to Idle, and there is one of them at a time.

### 4.7 The launches of Claude Code

`LaunchesInv` has four parts: a process belongs to a launch (`LaunchInv`); a launch under way
is the one the driver awaits or of a stopped turn, and what earlier attempts of the turn started is at rest
(`SentInv`); whatever
a listing showed and still runs is remembered (`ShownIsSeen`), from which `ResumeWaits` follows, the driver
waiting for all that is remembered; and a session's id is that of a launch that began one, never a copy's
(`IdsAreRoots`), from which `OriginalKept` follows, only copies being removed. `ShownIsSeen` was not kept by the
first model: with four prompts TLC found a resume beside a process listed before its session
was forgotten. The code forgets too (`claude.rs:1486`), and the property is about
what was listed since.

## 5. Where the code and its comments disagree

Each is a run whose one property is the quoted sentence, and a counterexample of it.

* `wedge`: a command press reads Idle, releases the lock to copy the selection and
  toggles later without looking again. If another press recorded meanwhile, the
  daemon ends in Transcribing with nobody to leave it (`command_mode.rs:312` against
  the comment at 81). With a batch backend, which the run has, it stays there: `TranscribingEnds` fails with every task fair.
  With a streaming one the first recording's pipeline finds its channel closed and ends it.
* `stale_claim`: a command is cancelled and pressed again before its task wakes; the old
  task claims the new session's context and transcribes what was thrown away
  (`command_mode.rs:84` against `dictation.rs:460`).
* `takeover`: a toggle that takes over a command recording promises its audio, whose
  receiver is with the command's task (`dictation.rs:213` against 187).
* `history`: a streaming backend that ends while the microphone is open saves the
  text, and the stop press saves it again (`dictation.rs:299` against 333).
* `live_track`: a retry while a stop waits for its writers repairs a file that is
  still written (`recording.rs:1652` against 1536).
* `lost_rename`: a rename between the read and the write of `mark_pending` is
  reported done and lost (`summary.rs:763` against `recording.rs:267`).
* `early_end`: the completed event of an earlier turn, read after the commit, is taken for
  the tail's, and the last words are lost (`engine.rs:211` against 51-52 and 353-355).

Five more are in the notes of the hazards in `PROJECT.json` and have no run: a resume that printed
the session's own id with a copy's note is not stopped with its turn (`claude.rs:1359`
against 1321-1328); the Lemonade profile drops a phrase said a second time under an id of its
own (`engine.rs:175` against 60-61); a stopped turn's process registered late may work beside
its successor (`process.rs:1526`); a commit that cannot be sent
fails a stream that typed, also if the server had closed cleanly (`engine.rs:432` against 101-108); and a server
that pings within every wait after the commit keeps the stream open, typed text or not
(`engine.rs:370` against 358-361 and 21-23).

## 6. Plan

1. **AgentTurns**: its composition with
   `ReplyQueue` through `deliver_reply`, and with the launches as its driver.
2. **ClaudeLaunches**: commands of Claude Code that fail.
3. **DaemonSession**: a property on whose Transcribing a late stop press ends
   (hazard at `dictation.rs:284`), and on whose microphone a command's auto-stop
   takes (`command_mode.rs:121`).
4. **Algorithms**, each against a reference definition over bounded inputs: the overlap
   search of `asr-dedup`, the retry backoff of the HTTP backends, the
   auto-stop state machine of the silence gate over loud and quiet frames, the
   capture's recovery backoff.

Not planned: the parsing of the harnesses' output, keyboard, selection, configuration, displays, CLI (I/O
and formats), the numerics of audio and diarization (floating point).
