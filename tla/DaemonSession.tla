--------------------------- MODULE DaemonSession ---------------------------
(***************************************************************************)
(* The dictation daemon's session core: the state machine of state.rs and  *)
(* the handlers and tasks that drive it through the one DaemonState lock.  *)
(*                                                                         *)
(* Every action is one critical section of that lock (the code between an  *)
(* acquire and the release or the next .await), so an interleaving of      *)
(* actions is an interleaving of lock holders.  A handler that releases    *)
(* the lock and takes it again has one action for each section, and pc     *)
(* says which comes next.                                                  *)
(*                                                                         *)
(* A session is the audio capture it records with: the id stands for the   *)
(* AudioCaptureHandle, the JoinHandle and the cancel flag made with it.    *)
(* Ids are reused once nothing refers to them.                             *)
(***************************************************************************)
EXTENDS Naturals

CONSTANTS
  Handlers,     \* commands handled at once: the hotkey loop, one per IPC client
  ReplyLoop,    \* the agents' reply queue, which asks to speak on its own
  Sessions,     \* ids of recordings
  Speeches,     \* ids of read-alouds (the Arc behind tts_stop)
  CommandKinds, \* the flows that keep a context slot: "command", "llm", "agent"
  None

ASSUME HandlersAssumption == ReplyLoop \notin Handlers
ASSUME IdsAssumption      == None \notin Sessions \cup Speeches
ASSUME KindsAssumption    == CommandKinds \subseteq {"command", "llm", "agent"}

VARIABLES
  streaming,    \* configuration: whether the transcription backend streams
  \* DaemonState
  state,        \* state_machine.state()
  capture,      \* audio_capture
  slot,         \* command_mode, llm_command, agent_recording
  language,     \* session_language: the session it was set for
  streamTask,   \* streaming_task
  streamCancel, \* streaming_cancel
  ttsStop,      \* tts_stop
  ttsOrigin,    \* tts_origin
  \* the sessions
  kind,         \* the flow that started it
  task,         \* its background task, or its streaming pipeline
  closed,       \* those whose capture was stopped: the audio channel closes
  flagged,      \* those whose cancel flag is set
  heard,        \* streaming: those whose pipeline returned a text
  saved,        \* how often its text went to the history
  cancelled,    \* those with a task to stop that a cancel threw away
  \* the read-alouds
  live,         \* those whose synthesis or playback has not ended
  playing,      \* those whose playback a task waits out
  hushed,       \* those alive whose stop flag is set
  \* the handlers
  pc,
  what,         \* the kind, or the origin, the command is for
  job,          \* what a stop press took out of DaemonState
  utter         \* the read-aloud a speaking handler waits for

daemonVars  == <<state, capture, slot, language, streamTask, streamCancel>>
ttsVars     == <<ttsStop, ttsOrigin, live, playing, hushed, utter>>
recordVars  == <<kind, task, closed, flagged>>
fateVars    == <<heard, saved, cancelled>>
handlerVars == <<pc, what, job>>
vars == <<streaming, daemonVars, ttsVars, recordVars, fateVars, handlerVars>>

States    == {"Idle", "Recording", "Transcribing", "Synthesizing", "Speaking"}
ReadAloud == {"Synthesizing", "Speaking"}
Origins   == {"selection", "text", "agent"}
Procs     == Handlers \cup {ReplyLoop}
Opt(S)    == S \cup {None}
Some(x)   == {x} \ {None}

\* claim: done collecting, before it claims; work: transcribing for the
\* claim; drain: after the pipeline's auto-stop; final: past its decision.
TaskSteps == {"none", "record", "claim", "work", "drain", "final", "ended"}

PcSteps == {"idle", "select", "gate", "take", "voice", "await", "batch",
            "retry", "speak", "synth", "first"}

Job   == [audio : Opt(Sessions), task : Opt(Sessions), flag : Opt(Sessions)]
NoJob == [audio |-> None, task |-> None, flag |-> None]

\* What a command is for: its flow or origin, or a press that silenced a reply.
Purposes == CommandKinds \cup Origins \cup {"barge", "plain"}

\* History entries of one session are counted up to this many.
MaxSaved == 2
----------------------------------------------------------------------------
(* The state machine: the state after an action, "refused" when it is an   *)
(* invalid transition.                                                     *)
After(from, action) ==
  CASE action = "Toggle" /\ from = "Idle"                         -> "Recording"
    [] action = "Toggle" /\ from = "Recording"                    -> "Transcribing"
    [] action = "Cancel" /\ from \in {"Recording"} \cup ReadAloud -> "Idle"
    [] action = "TranscriptionDone" /\ from = "Transcribing"      -> "Idle"
    [] action = "SpeakStart" /\ from = "Idle"                     -> "Synthesizing"
    [] action = "SpeakPlaying" /\ from = "Synthesizing"           -> "Speaking"
    [] action = "SpeakDone" /\ from \in ReadAloud                 -> "Idle"
    [] action = "RetryStart" /\ from = "Idle"                     -> "Transcribing"
    [] OTHER                                                      -> "refused"

Valid(from, action) == After(from, action) # "refused"

(* transition(action).ok(): a refused transition changes nothing. *)
TransitionM(action) == state' = After(state, action)  \* mutant: not refused
Transition(action) ==
  state' = IF Valid(state, action) THEN After(state, action) ELSE state

TypeDaemon ==
  /\ streaming \in BOOLEAN
  /\ state \in States
  /\ capture \in Opt(Sessions)
  /\ slot \in [CommandKinds -> Opt(Sessions)]
  /\ language \in Opt(Sessions)
  /\ streamTask \in Opt(Sessions)
  /\ streamCancel \in Opt(Sessions)

TypeSessions ==
  /\ kind \in [Sessions -> CommandKinds \cup {"dictation"}]
  /\ task \in [Sessions -> TaskSteps]
  /\ closed \subseteq Sessions
  /\ flagged \subseteq Sessions
  /\ heard \subseteq Sessions
  /\ saved \in [Sessions -> 0..MaxSaved]
  /\ cancelled \subseteq Sessions

TypeSpeeches ==
  /\ ttsStop \in Opt(Speeches)
  /\ ttsOrigin \in Opt(Origins)
  /\ live \subseteq Speeches
  /\ playing \subseteq Speeches
  /\ hushed \subseteq Speeches
  /\ utter \in [Procs -> Opt(Speeches)]

\* What a command at this step can be for.
Fits(step, for) ==
  /\ step \in {"select", "gate", "take"} => for \in CommandKinds \ {"agent"}
  /\ step = "voice" => "agent" \in CommandKinds
  /\ step = "speak" => for \in {"selection", "text"}

TypeHandlers ==
  /\ pc \in [Procs -> PcSteps]
  /\ what \in [Procs -> Purposes]
  /\ \A p \in Procs : Fits(pc[p], what[p])
  /\ job \in [Handlers -> Job]

TypeOK == TypeDaemon /\ TypeSessions /\ TypeSpeeches /\ TypeHandlers

Init ==
  /\ streaming \in BOOLEAN
  /\ state = "Idle"
  /\ capture = None /\ language = None /\ streamTask = None /\ streamCancel = None
  /\ slot = [k \in CommandKinds |-> None]
  /\ ttsStop = None /\ ttsOrigin = None
  /\ kind = [s \in Sessions |-> "dictation"]
  /\ task = [s \in Sessions |-> "none"]
  /\ closed = {} /\ flagged = {} /\ heard = {} /\ cancelled = {}
  /\ saved = [s \in Sessions |-> 0]
  /\ live = {} /\ playing = {} /\ hushed = {}
  /\ pc = [p \in Procs |-> "idle"]
  /\ what = [p \in Procs |-> "plain"]
  /\ job = [h \in Handlers |-> NoJob]
  /\ utter = [p \in Procs |-> None]
----------------------------------------------------------------------------
\* What p does next, and what for.
Goto(p, step, for) == /\ pc' = [pc EXCEPT ![p] = step]
                      /\ what' = [what EXCEPT ![p] = for]

Finish(p) == Goto(p, "idle", "plain")

NoSlots == [k \in CommandKinds |-> None]

\* Taken and stopped, or dropped: the channel of the capture closes.
StopCapture == /\ closed' = closed \cup Some(capture)
               /\ capture' = None

\* discard_command_sessions
DiscardCommandSessionsM == UNCHANGED slot      \* mutant: left to the claim
DiscardCommandSessions == slot' = NoSlots

\* release_streaming_cancel(flag)
ReleaseM(flag) == UNCHANGED streamCancel       \* mutant: left to the next start
Release(flag) == streamCancel' = IF streamCancel = flag THEN None ELSE streamCancel

\* An id nothing refers to any more.
Free(s) ==
  /\ task[s] \in {"none", "ended"}
  /\ s \notin {capture, language, streamTask, streamCancel}
  /\ \A k \in CommandKinds : slot[k] # s
  /\ \A h \in Handlers : s \notin {job[h].audio, job[h].task, job[h].flag}

\* A new capture s of a flow: its handle replaces the one DaemonState holds.
StartSession(s, flow, step) ==
  /\ Free(s)
  /\ capture' = s
  /\ closed' = (closed \ {s}) \cup Some(capture)
  /\ kind' = [kind EXCEPT ![s] = flow]
  /\ task' = [task EXCEPT ![s] = step]
  /\ flagged' = flagged \ {s}
  /\ heard' = heard \ {s}
  /\ saved' = [saved EXCEPT ![s] = 0]
  /\ cancelled' = cancelled \ {s}

\* One more history entry for s.
Save(s) == saved' = [saved EXCEPT ![s] = IF @ < MaxSaved THEN @ + 1 ELSE @]

\* agent_playback
AgentPlayback == state \in ReadAloud /\ ttsStop # None /\ ttsOrigin = "agent"

\* tts_stop.take(), its flag set
HushM == UNCHANGED hushed /\ ttsStop' = None   \* mutant: the flag not set
Hush == /\ hushed' = hushed \cup Some(ttsStop)
        /\ ttsStop' = None

\* stop_agent_playback: the state a press finds, and what became of tts_stop.
Barged == IF AgentPlayback THEN After(state, "Cancel") ELSE state
BargeIn == IF AgentPlayback THEN Hush ELSE UNCHANGED <<ttsStop, hushed>>

\* A command press that released the lock holds agent replies until it has
\* started recording or gave up; a selection read-aloud until it answers.
Holding(p) ==
  \/ pc[p] = "select"
  \/ pc[p] = "voice" /\ what[p] = "barge"
  \/ pc[p] \in {"speak", "synth", "first"} /\ what[p] = "selection"
Held == \E h \in Handlers : Holding(h)
----------------------------------------------------------------------------
(* handle_toggle *)

\* Refused for a recording in progress, a bad language or no microphone when
\* idle, or because of the state; an agent's playback is stopped first.
ToggleRefused(h) ==
  /\ pc[h] = "idle"
  /\ Barged # "Recording"
  /\ state' = Barged
  /\ BargeIn
  /\ UNCHANGED <<streaming, capture, slot, language, streamTask, streamCancel,
                 ttsOrigin, live, playing, utter, recordVars, fateVars,
                 handlerVars>>

ToggleStart(h) ==
  /\ pc[h] = "idle"
  /\ Barged = "Idle"
  /\ BargeIn
  /\ \E s \in Sessions :
       /\ StartSession(s, "dictation", IF streaming THEN "record" ELSE "none")
       /\ language' = s
       /\ IF streaming THEN streamTask' = s /\ streamCancel' = s
                       ELSE UNCHANGED <<streamTask, streamCancel>>
  /\ state' = After(Barged, "Toggle")
  /\ UNCHANGED <<streaming, slot, ttsOrigin, live, playing, utter,
                 handlerVars>>

\* The recording of any flow is taken over; the cancel flag stays for Cancel.
ToggleStop(h) ==
  /\ pc[h] = "idle"
  /\ state = "Recording"
  /\ Transition("Toggle")
  /\ DiscardCommandSessions
  /\ job' = [job EXCEPT ![h] = [audio |-> capture, task |-> streamTask,
                                flag |-> streamCancel]]
  /\ StopCapture
  /\ streamTask' = None
  /\ language' = None
  /\ Goto(h, IF streamTask # None THEN "await" ELSE "batch", "plain")
  /\ UNCHANGED <<streaming, streamCancel, kind, task, flagged, ttsVars,
                 fateVars>>

\* task.await returned: the text is saved here unless the pipeline's tail
\* made the transition first.
AwaitDone(h) ==
  /\ pc[h] = "await"
  /\ task[job[h].task] = "ended"
  /\ Release(job[h].flag)
  /\ Transition("TranscriptionDone")
  /\ IF Valid(state, "TranscriptionDone") /\ job[h].task \in heard
       THEN Save(job[h].task) ELSE UNCHANGED saved
  /\ job' = [job EXCEPT ![h] = NoJob]
  /\ Finish(h)
  /\ UNCHANGED <<streaming, capture, slot, language, streamTask, ttsVars,
                 recordVars, heard, cancelled>>

\* The stop press can collect the audio: no task took the receiver.
Collects(j) == j.audio # None /\ kind[j.audio] = "dictation" /\ ~streaming

\* process_recording_batch and what follows: a failure or a silent recording
\* saves nothing.
BatchDone(h) ==
  /\ pc[h] = "batch"
  /\ Release(job[h].flag)
  /\ Transition("TranscriptionDone")
  /\ \/ /\ Collects(job[h]) /\ Valid(state, "TranscriptionDone")
        /\ Save(job[h].audio)
     \/ UNCHANGED saved
  /\ job' = [job EXCEPT ![h] = NoJob]
  /\ Finish(h)
  /\ UNCHANGED <<streaming, capture, slot, language, streamTask, ttsVars,
                 recordVars, heard, cancelled>>
----------------------------------------------------------------------------
(* handle_cancel, with discard_recording_session.  An abort takes effect at *)
(* the task's next await: here at once, as nothing it does before it shows. *)
Discard ==
  /\ StopCapture
  /\ flagged' = flagged \cup Some(streamCancel)
  /\ streamCancel' = None
  /\ task' = [s \in Sessions |-> IF s = streamTask THEN "ended" ELSE task[s]]
  /\ streamTask' = None
  /\ DiscardCommandSessions
  /\ language' = None
  /\ cancelled' = cancelled \cup ({slot[k] : k \in CommandKinds} \ {None})

Cancel(h) ==
  /\ pc[h] = "idle"
  /\ Hush
  /\ Transition("Cancel")
  /\ \/ Valid(state, "Cancel") /\ Discard
     \/ /\ ~Valid(state, "Cancel")
        /\ IF state = "Transcribing"       \* streaming_session_draining
             THEN /\ flagged' = flagged \cup Some(streamCancel)
                  /\ streamCancel' = None
             ELSE UNCHANGED <<flagged, streamCancel>>
        /\ UNCHANGED <<capture, slot, language, streamTask, task, closed,
                       cancelled>>
  /\ UNCHANGED <<streaming, ttsOrigin, live, playing, utter, kind, heard,
                 saved, handlerVars>>
----------------------------------------------------------------------------
(* handle_command_mode, handle_llm_command: k is "command" or "llm". *)

\* The press reads the state and releases the lock: what it saw may be stale
\* when it takes the lock again.
CommandPress(h, k) ==
  /\ pc[h] = "idle"
  /\ state' = Barged
  /\ BargeIn
  /\ \/ /\ Barged = "Idle"
        /\ Goto(h, "select", k)
     \/ /\ Barged = "Recording"
        /\ Goto(h, "gate", k)
     \/ /\ Barged # "Recording"            \* refused
        /\ Finish(h)
  /\ UNCHANGED <<streaming, capture, slot, language, streamTask, streamCancel,
                 ttsOrigin, live, playing, utter, job, recordVars, fateVars>>

\* Second press: is a session of this flow recording?
CommandGate(h) ==
  /\ pc[h] = "gate"
  /\ IF slot[what[h]] # None THEN Goto(h, "take", what[h]) ELSE Finish(h)
  /\ UNCHANGED <<streaming, daemonVars, ttsVars, recordVars, fateVars, job>>

\* Then stop whatever records now.
CommandTake(h) ==
  /\ pc[h] = "take"
  /\ StopCapture
  /\ Finish(h)
  /\ UNCHANGED <<streaming, state, slot, language, streamTask, streamCancel,
                 ttsVars, kind, task, flagged, fateVars, job>>

\* No selection, no microphone.
CommandGivesUp(h) ==
  /\ pc[h] = "select"
  /\ Finish(h)
  /\ UNCHANGED <<streaming, daemonVars, ttsVars, recordVars, fateVars, job>>

\* command_mode_start, llm_command_start once the microphone is open: the
\* transition is whatever Toggle does in the state found now.
CommandStart(h) ==
  /\ pc[h] = "select"
  /\ Finish(h)
  /\ Transition("Toggle")
  /\ IF Valid(state, "Toggle")
       THEN \E s \in Sessions :
              /\ StartSession(s, what[h], "record")
              /\ slot' = [slot EXCEPT ![what[h]] = s]
       ELSE UNCHANGED <<capture, slot, kind, task, closed, flagged, fateVars>>
  /\ UNCHANGED <<streaming, language, streamTask, streamCancel, ttsVars, job>>
----------------------------------------------------------------------------
(* voice_toggle, start_recording *)

\* Whether a press is refused for the agent's turn, and whose playback it may
\* silence, is the agents' business: any answer is possible here.
VoicePress(h) ==
  /\ pc[h] = "idle"
  /\ "agent" \in CommandKinds
  /\ \/ /\ state = "Recording" /\ slot["agent"] # None
        /\ StopCapture
        /\ UNCHANGED <<state, ttsStop, hushed, pc, what>>
     \/ /\ state \in ReadAloud \cup {"Idle"}
        /\ \E silences \in BOOLEAN :
             IF silences /\ AgentPlayback
               THEN BargeIn /\ state' = Barged /\ Goto(h, "voice", "barge")
               ELSE UNCHANGED <<state, ttsStop, hushed>> /\ Goto(h, "voice", "plain")
        /\ UNCHANGED <<capture, closed>>
  /\ UNCHANGED <<streaming, slot, language, streamTask, streamCancel,
                 ttsOrigin, live, playing, utter, kind, task, flagged,
                 fateVars, job>>

\* Refused for the agent's turn, or for a recording in progress.
VoiceGivesUp(h) ==
  /\ pc[h] = "voice"
  /\ Finish(h)
  /\ UNCHANGED <<streaming, daemonVars, ttsVars, recordVars, fateVars, job>>

\* A read-aloud of any origin is stopped; the microphone may still fail.
VoiceStart(h) ==
  /\ pc[h] = "voice"
  /\ Finish(h)
  /\ state \in ReadAloud \cup {"Idle"}
  /\ IF state \in ReadAloud THEN Hush ELSE UNCHANGED <<ttsStop, hushed>>
  /\ \/ /\ state' = "Recording"
        /\ \E s \in Sessions :
             /\ StartSession(s, "agent", "record")
             /\ slot' = [slot EXCEPT !["agent"] = s]
     \/ /\ state' = "Idle"
        /\ UNCHANGED <<capture, slot, kind, task, closed, flagged, fateVars>>
  /\ UNCHANGED <<streaming, language, streamTask, streamCancel, ttsOrigin,
                 live, playing, utter, job>>
----------------------------------------------------------------------------
(* The background task of a command or voice session. *)

\* collect_instruction_audio: silence.  The capture it stops is whichever
\* DaemonState holds by now.
BgAutoStop(s) ==
  /\ kind[s] \in CommandKinds /\ task[s] = "record"
  /\ StopCapture
  /\ task' = [task EXCEPT ![s] = "claim"]
  /\ UNCHANGED <<streaming, state, slot, language, streamTask, streamCancel,
                 ttsVars, kind, flagged, fateVars, handlerVars>>

\* Or its channel closed.
BgClosed(s) ==
  /\ kind[s] \in CommandKinds /\ task[s] = "record"
  /\ s \in closed
  /\ task' = [task EXCEPT ![s] = "claim"]
  /\ UNCHANGED <<streaming, daemonVars, ttsVars, kind, closed, flagged,
                 fateVars, handlerVars>>

\* claim_session: whether a session of its flow records, whichever it is.
\* (Mutant: it also wants the capture, which a stop press took.)
ClaimableM(k) == slot[k] # None /\ state = "Recording" /\ capture # None
Claimable(k) == slot[k] # None /\ state = "Recording"

BgClaim(s) ==
  /\ kind[s] \in CommandKinds /\ task[s] = "claim"
  /\ IF Claimable(kind[s])
       THEN /\ Transition("Toggle")
            /\ slot' = [slot EXCEPT ![kind[s]] = None]
            /\ StopCapture
            /\ task' = [task EXCEPT ![s] = "work"]
            /\ UNCHANGED cancelled
       ELSE /\ task' = [task EXCEPT ![s] = "ended"]
            /\ cancelled' = cancelled \ {s}
            /\ UNCHANGED <<state, slot, capture, closed>>
  /\ UNCHANGED <<streaming, language, streamTask, streamCancel, ttsVars, kind,
                 flagged, heard, saved, handlerVars>>

\* The finalizer, whatever became of the transcript.
BgDone(s) ==
  /\ kind[s] \in CommandKinds /\ task[s] = "work"
  /\ Transition("TranscriptionDone")
  /\ task' = [task EXCEPT ![s] = "ended"]
  /\ cancelled' = cancelled \ {s}
  /\ UNCHANGED <<streaming, capture, slot, language, streamTask, streamCancel,
                 ttsVars, kind, closed, flagged, heard, saved, handlerVars>>
----------------------------------------------------------------------------
(* run_streaming_pipeline *)

\* Silence: the state decides, not whose session it is.  (Mutant: the
\* microphone is left open, so the channel the drain waits for never closes.)
PipeAutoStopM(s) ==
  /\ kind[s] = "dictation" /\ task[s] = "record"
  /\ IF state = "Recording" THEN Transition("Toggle") ELSE UNCHANGED state
  /\ task' = [task EXCEPT ![s] = "drain"]
  /\ UNCHANGED <<streaming, capture, closed, slot, language, streamTask,
                 streamCancel, ttsVars, kind, flagged, fateVars, handlerVars>>

PipeAutoStop(s) ==
  /\ kind[s] = "dictation" /\ task[s] = "record"
  /\ IF state = "Recording" THEN StopCapture /\ Transition("Toggle")
                            ELSE UNCHANGED <<state, capture, closed>>
  /\ task' = [task EXCEPT ![s] = "drain"]
  /\ UNCHANGED <<streaming, slot, language, streamTask, streamCancel, ttsVars,
                 kind, flagged, fateVars, handlerVars>>

DiscardedM(s) == FALSE                         \* mutant: the flag not read
Discarded(s)  == s \in flagged

\* Decided under one lock: the slot of the flag is cleared, and the text goes
\* to the history unless the flag is set or nothing was heard.
Decide(s) ==
  /\ Release(s)
  /\ \/ /\ ~Discarded(s)
        /\ heard' = heard \cup {s}
        /\ Save(s)
     \/ UNCHANGED <<heard, saved>>
  /\ task' = [task EXCEPT ![s] = "final"]
  /\ UNCHANGED <<streaming, state, capture, slot, language, streamTask,
                 ttsVars, kind, closed, flagged, cancelled, handlerVars>>

\* The channel closed and the backend and the typing task finished.
PipeDecide(s) ==
  /\ kind[s] = "dictation" /\ task[s] \in {"record", "drain"}
  /\ s \in closed
  /\ Decide(s)

\* The backend ended first: the pipeline goes on with the microphone open.
PipeBackendGone(s) ==
  /\ kind[s] = "dictation" /\ task[s] = "record"
  /\ s \notin closed
  /\ Decide(s)

\* (Mutant: a cancelled pipeline returns early.)
PipeTailM(s) ==
  /\ kind[s] = "dictation" /\ task[s] = "final"
  /\ IF Discarded(s) THEN UNCHANGED state ELSE Transition("TranscriptionDone")
  /\ task' = [task EXCEPT ![s] = "ended"]
  /\ UNCHANGED <<streaming, capture, slot, language, streamTask, streamCancel,
                 ttsVars, kind, closed, flagged, fateVars, handlerVars>>

PipeTail(s) ==
  /\ kind[s] = "dictation" /\ task[s] = "final"
  /\ Transition("TranscriptionDone")
  /\ language' = IF state = "Transcribing" THEN None ELSE language
  /\ task' = [task EXCEPT ![s] = "ended"]
  /\ UNCHANGED <<streaming, capture, slot, streamTask, streamCancel, ttsVars,
                 kind, closed, flagged, fateVars, handlerVars>>

\* A filler word or a replacement that does not compile: before anything else.
PipeRejected(s) ==
  /\ kind[s] = "dictation" /\ task[s] = "record"
  /\ task' = [task EXCEPT ![s] = "ended"]
  /\ UNCHANGED <<streaming, daemonVars, ttsVars, kind, closed, flagged,
                 fateVars, handlerVars>>
----------------------------------------------------------------------------
(* retry: the audio of a recovery file *)
RetryStart(h) ==
  /\ pc[h] = "idle"
  /\ state = "Idle"
  /\ Transition("RetryStart")
  /\ Goto(h, "retry", "plain")
  /\ UNCHANGED <<streaming, capture, slot, language, streamTask, streamCancel,
                 ttsVars, recordVars, fateVars, job>>

RetryDone(h) ==
  /\ pc[h] = "retry"
  /\ Transition("TranscriptionDone")
  /\ Finish(h)
  /\ UNCHANGED <<streaming, capture, slot, language, streamTask, streamCancel,
                 ttsVars, recordVars, fateVars, job>>
----------------------------------------------------------------------------
(* handle_speak, handle_speak_text, speak_text, play *)

\* whisrs speak: stops a read-aloud, or holds the replies to get a selection.
SpeakPress(h) ==
  /\ pc[h] = "idle"
  /\ \/ /\ state \in ReadAloud
        /\ Hush
        /\ Transition("Cancel")
        /\ UNCHANGED <<pc, what>>
     \/ /\ state = "Idle"
        /\ Goto(h, "speak", "selection")
        /\ UNCHANGED <<state, ttsStop, hushed>>
  /\ UNCHANGED <<streaming, capture, slot, language, streamTask, streamCancel,
                 ttsOrigin, live, playing, utter, job, recordVars, fateVars>>

\* whisrs speak --text: the new text replaces what is read aloud.
SpeakTextPress(h) ==
  /\ pc[h] = "idle"
  /\ \/ state \in ReadAloud /\ Hush /\ Transition("Cancel")
     \/ state = "Idle" /\ UNCHANGED <<state, ttsStop, hushed>>
  /\ Goto(h, "speak", "text")
  /\ UNCHANGED <<streaming, capture, slot, language, streamTask, streamCancel,
                 ttsOrigin, live, playing, utter, job, recordVars, fateVars>>

\* No text-to-speech configured, no selection.
SpeakGivesUp(h) ==
  /\ pc[h] = "speak"
  /\ Finish(h)
  /\ UNCHANGED <<streaming, daemonVars, ttsVars, recordVars, fateVars, job>>

\* speak_text: only from Idle, and an agent's utterance only while no press
\* holds the replies.
MaySpeakM(origin) == state = "Idle"            \* mutant: held replies not asked
MaySpeak(origin)  == state = "Idle" /\ (origin = "agent" => ~Held)

SpeakStart(p, origin) ==
  /\ IF MaySpeak(origin)
       THEN \E u \in Speeches \ live :
              /\ Transition("SpeakStart")
              /\ ttsStop' = u
              /\ ttsOrigin' = origin
              /\ live' = live \cup {u}
              /\ utter' = [utter EXCEPT ![p] = u]
              /\ Goto(p, "synth", origin)
       ELSE /\ Finish(p)
            /\ UNCHANGED <<state, ttsStop, ttsOrigin, live, utter>>
  /\ UNCHANGED <<streaming, capture, slot, language, streamTask, streamCancel,
                 playing, hushed, job, recordVars, fateVars>>

Speak(h) ==
  /\ pc[h] = "speak"
  /\ SpeakStart(h, what[h])

\* The reply queue speaks the next utterance when it likes.
Reply ==
  /\ pc[ReplyLoop] = "idle"
  /\ SpeakStart(ReplyLoop, "agent")

\* The read-aloud u ends: finish_session when it still owns the state.
\* (Mutant: only once it is Speaking.)
EndM(u, owned) ==
  /\ live' = live \ {u} /\ hushed' = hushed \ {u} /\ playing' = playing \ {u}
  /\ IF owned /\ ttsStop = u /\ state = "Speaking"
       THEN Transition("SpeakDone") /\ ttsStop' = None
       ELSE UNCHANGED <<state, ttsStop>>
End(u, owned) ==
  /\ live' = live \ {u}
  /\ hushed' = hushed \ {u}
  /\ playing' = playing \ {u}
  /\ IF owned /\ ttsStop = u
       THEN Transition("SpeakDone") /\ ttsStop' = None
       ELSE UNCHANGED <<state, ttsStop>>

\* The response headers, a failure, or the stop flag.
SynthEnds(p) ==
  /\ pc[p] = "synth"
  /\ LET mine == state = "Synthesizing" /\ ttsStop = utter[p] IN
     \/ /\ mine
        /\ Goto(p, "first", what[p])
        /\ UNCHANGED <<state, ttsStop, live, hushed, playing, utter>>
     \/ /\ End(utter[p], mine)             \* superseded, or it failed
        /\ utter' = [utter EXCEPT ![p] = None]
        /\ Finish(p)
  /\ UNCHANGED <<streaming, capture, slot, language, streamTask, streamCancel,
                 ttsOrigin, job, recordVars, fateVars>>

\* Playback ended before any audio.
FirstAudioFails(p) ==
  /\ pc[p] = "first"
  /\ End(utter[p], state = "Synthesizing")
  /\ utter' = [utter EXCEPT ![p] = None]
  /\ Finish(p)
  /\ UNCHANGED <<streaming, capture, slot, language, streamTask, streamCancel,
                 ttsOrigin, job, recordVars, fateVars>>

FirstAudio(p) ==
  /\ pc[p] = "first"
  /\ IF state = "Synthesizing" /\ ttsStop = utter[p]
       THEN Transition("SpeakPlaying") ELSE UNCHANGED state
  /\ playing' = playing \cup Some(utter[p])
  /\ utter' = [utter EXCEPT ![p] = None]
  /\ Finish(p)
  /\ UNCHANGED <<streaming, capture, slot, language, streamTask, streamCancel,
                 ttsStop, ttsOrigin, live, hushed, job, recordVars, fateVars>>

\* stop_for_recording: a recording that starts stops the agent's playback.
StopForRecording ==
  /\ AgentPlayback
  /\ state' = Barged
  /\ BargeIn
  /\ UNCHANGED <<streaming, capture, slot, language, streamTask, streamCancel,
                 ttsOrigin, live, playing, utter, recordVars, fateVars,
                 handlerVars>>

PlaybackEnds(u) ==
  /\ u \in playing
  /\ End(u, state \in ReadAloud)
  /\ UNCHANGED <<streaming, capture, slot, language, streamTask, streamCancel,
                 ttsOrigin, utter, recordVars, fateVars, handlerVars>>
----------------------------------------------------------------------------
(* Presses come when the user likes; everything else is a task that goes on *)
(* by itself.                                                               *)
Press(h) ==
  \/ ToggleRefused(h) \/ ToggleStart(h) \/ ToggleStop(h) \/ Cancel(h)
  \/ \E k \in CommandKinds \ {"agent"} : CommandPress(h, k)
  \/ VoicePress(h) \/ RetryStart(h) \/ SpeakPress(h) \/ SpeakTextPress(h)

Selected(h) == CommandGivesUp(h) \/ CommandStart(h)

VoiceGoesOn(h) == VoiceGivesUp(h) \/ VoiceStart(h)

Continue(h) ==
  \/ AwaitDone(h) \/ BatchDone(h) \/ CommandGate(h) \/ CommandTake(h)
  \/ Selected(h) \/ VoiceGoesOn(h) \/ RetryDone(h)
  \/ SpeakGivesUp(h) \/ Speak(h)

Playback(p) == SynthEnds(p) \/ FirstAudioFails(p) \/ FirstAudio(p)

Background(s) == BgClosed(s) \/ BgClaim(s) \/ BgDone(s)

Pipeline(s) == PipeDecide(s) \/ PipeTail(s)

\* What may happen to a recording, but need not.
Silence(s) == BgAutoStop(s) \/ PipeAutoStop(s) \/ PipeBackendGone(s) \/ PipeRejected(s)

Next ==
  \/ \E h \in Handlers : Press(h) \/ Continue(h)
  \/ \E p \in Procs : Playback(p)
  \/ \E s \in Sessions : Background(s) \/ Pipeline(s) \/ Silence(s)
  \/ \E u \in Speeches : PlaybackEnds(u)
  \/ Reply
  \/ StopForRecording

Spec == Init /\ [][Next]_vars

\* Tokio runs every task that can run; the transcription, language model and
\* speech backends answer or time out; a clip is finite.  No press, no silence
\* and no reply is owed.
Fairness ==
  /\ \A h \in Handlers : WF_vars(Continue(h))
  /\ \A p \in Procs : WF_vars(Playback(p))
  /\ \A s \in Sessions : /\ WF_vars(Background(s))
                        /\ WF_vars(Pipeline(s))
  /\ \A u \in Speeches : WF_vars(PlaybackEnds(u))

FairSpec == Spec /\ Fairness
----------------------------------------------------------------------------
\* Who still owes the daemon a TranscriptionDone: a stop press, a retry, a
\* claimed session, a pipeline.
Owed ==
  \/ \E h \in Handlers : pc[h] \in {"await", "batch", "retry"}
  \/ \E s \in Sessions : task[s] \in {"work", "drain", "final"}

\* Whoever moves the daemon to Transcribing owns that state until its
\* TranscriptionDone: the daemon is never wedged where Cancel is refused.
TranscribingIsOwned == state = "Transcribing" => Owed

\* A command or voice context is set only while its own session records: a
\* stale one would let a later press or claim take another recording's capture.
SlotIsOfTheRecording ==
  \A k \in CommandKinds : slot[k] # None =>
    state = "Recording" /\ capture \in {slot[k], None}

\* A session that ended left nothing behind for the next one to trip over: no
\* open microphone, no language override, no cancel flag.
IdleIsClean ==
  state = "Idle" => capture = None /\ language = None /\ streamCancel = None

\* There is a read-aloud state exactly while one read-aloud owns it, and any
\* other that still synthesizes or plays was told to stop: nothing plays that
\* a cancel cannot reach.
ReadAloudOwned ==
  /\ state \in ReadAloud <=> ttsStop # None
  /\ live \subseteq hushed \cup Some(ttsStop)

\* A press that stopped a reply, or released the lock to copy the selection,
\* never finds the next queued reply in the Idle state it counts on.
HeldPressFirst == Held => ~AgentPlayback

\* A streaming session whose cancel was acknowledged never reaches the
\* history, whichever of the pipeline and the stop press would write it.
CancelIsFinal == \A s \in flagged : saved[s] = 0

\* Transcribing does not last: whatever fails, the daemon takes presses again.
TranscribingEnds == state = "Transcribing" ~> state # "Transcribing"

\* A stopped command or voice recording is claimed, or discarded.
StopIsHeeded ==
  \A k \in CommandKinds, s \in Sessions :
    slot[k] = s /\ s \in closed ~> slot[k] # s

\* A read-aloud gives its state back.
ReadAloudEnds == \A u \in Speeches : ttsStop = u ~> ttsStop # u

\* What the program's own comments promise, and the code does not keep.

\* A cancelled recording is discarded instead of transcribed
\* (discard_recording_session's doc).
CancelledIsDiscarded == \A s \in cancelled : task[s] # "work"

\* A toggle that stops a command recording gets its audio ("the audio is
\* transcribed below", handle_toggle).
StopPressGetsTheAudio ==
  \A h \in Handlers : pc[h] = "batch" => Collects(job[h])

\* One session, one history entry ("without double-saving", handle_toggle).
HistoryOnce == \A s \in Sessions : saved[s] <= 1
============================================================================
