----------------------------- MODULE ReplyQueue -----------------------------
(***************************************************************************)
(* The reply queue of the agent runtime (daemon/agent.rs): what agents     *)
(* have to say waits in a queue until the daemon is Idle and nothing holds *)
(* replies, and is then read aloud, one utterance at a time.  Around the   *)
(* queue's own loop: the presses and cancels that silence it, the meeting  *)
(* recording that stops the one playing and puts it back, a selection read *)
(* aloud, and the dictation state they all go through.                     *)
(*                                                                         *)
(* An utterance stands for its text.  The model has one agent and one      *)
(* notice key: utterances of two agents, and notices of two keys, never    *)
(* replace or drop one another.  A step is the code between two awaits,    *)
(* except in requeue_if_stopped, whose comment has the loop run beside it: *)
(* its stop and its put back are two steps.  The stop a recording start    *)
(* spawns is one: what could come between its two halves is the failure    *)
(* of that start.                                                          *)
(***************************************************************************)
EXTENDS Selections, Naturals, Sequences, SequencesExt

CONSTANTS
  Replies,      \* utterances without a notice key or an interim kind
  Interims,     \* acknowledgements and progress updates
  Notices,      \* notices of the agent's one key
  Repeats,      \* notices whose spoken line is the same
  Nobody

ASSUME RepeatsAssumption == Repeats \subseteq Notices
ASSUME NobodyAssumption  == {Nobody, "selection"} \cap (Replies \cup Interims \cup Notices) = {}
ASSUME KindsDiffer       == /\ Replies \cap (Interims \cup Notices) = {}
                            /\ Interims \cap Notices = {}

VARIABLES
  utterances,   \* AgentRuntime.utterances
  playing,      \* AgentRuntime.playing
  ready,        \* utterance_ready: the Notify's permit
  loopAt,       \* where utterance_loop is
  stateNews,    \* state_rx has a change the loop has not seen
  statusNews,   \* the same of the recording status
  dictation,    \* the dictation state: Idle, Speaking (or Synthesizing), Busy
  voice,        \* what is read aloud: an utterance or the "selection"
  lock,         \* who keeps the dictation lock beyond one step
  press,        \* a press with a ReplyHold: "gap" until it goes on
  recorder,     \* the start of a recording
  late,         \* the stop a recording start spawned, the lock being busy
  copied,       \* the utterance a stop copied and has to put back
  capturing,    \* a recording captures
  asked,        \* the utterances the agents had to say so far
  expired,      \* the interims too old to be said
  said          \* the utterances read to their end

queueVars == <<utterances, playing, ready, loopAt, stateNews, statusNews,
               asked, expired, said>>
worldVars == <<dictation, voice, lock, press, recorder, late, copied,
               capturing>>
replyVars == <<queueVars, worldVars>>

Utterances  == Replies \cup Interims \cup Notices
Queued      == Range(utterances)
SameText(a, b) == a = b \/ {a, b} \subseteq Repeats

(* Whether replies wait besides the dictation state (replies_held): a      *)
(* ReplyHold, a press's or a recording start's, or a recording capturing.  *)
PressHolds == press \in {"gap", "mic", "aloud"}
RepliesHeld == PressHolds \/ recorder # "none" \/ capturing

MaySpeak == dictation = "Idle" /\ ~RepliesHeld

\* agent_playback: a read-aloud under way is an agent's.
AgentPlayback == dictation = "Speaking" /\ voice \in Utterances

RepliesTyped ==
  /\ utterances \in Seq(Utterances)
  /\ playing \in Utterances \cup {Nobody}
  /\ ready \in BOOLEAN /\ stateNews \in BOOLEAN /\ statusNews \in BOOLEAN
  /\ loopAt \in {"look", "asleep", "wait", "ask", "speak", "drain"}
  /\ dictation \in {"Idle", "Speaking", "Busy"}
  /\ voice \in Utterances \cup {"selection", Nobody}
  /\ lock \in {"free", "mic", "recorder"}
  /\ press \in {"none", "gap", "mic", "toggle", "aloud"}
  /\ recorder \in {"none", "putBack", "opening"}
  /\ late \in {"none", "waiting"}
  /\ copied \in Utterances \cup {Nobody}
  /\ capturing \in BOOLEAN
  /\ asked \subseteq Utterances
  /\ expired \subseteq Interims
  /\ said \subseteq Utterances

RepliesInit ==
  /\ utterances = <<>> /\ playing = Nobody /\ ready = FALSE /\ loopAt = "asleep"
  /\ stateNews = FALSE /\ statusNews = FALSE
  /\ dictation = "Idle" /\ voice = Nobody /\ lock = "free"
  /\ press = "none" /\ recorder = "none" /\ late = "none" /\ copied = Nobody
  /\ capturing = FALSE
  /\ asked = {} /\ expired = {} /\ said = {}
-----------------------------------------------------------------------------
(* The queue's own operations.                                             *)

IsNotice(u)  == u \in Notices
WithoutInterims(q) == Keeping(q, Utterances \ Interims)
HasNotice(q) == \E u \in Range(q) : IsNotice(u)
NoticeAt(q)  == CHOOSE i \in DOMAIN q : IsNotice(q[i])

\* requeue_front: of a key, the newest is the one that takes the front.
PutFrontM(u, q) == <<u>> \o q  \* mutant: beside the newer notice
PutFront(u, q) ==
  IF IsNotice(u) /\ HasNotice(q)
  THEN LET i == NoticeAt(q) IN <<q[i]>> \o RemoveAt(q, i)
  ELSE <<u>> \o q

\* requeue_if_stopped, its second half: an interim is not said again.
PutBack(u, q) == IF u \in Interims \cup {Nobody} THEN q ELSE PutFront(u, q)

(* enqueue: a queued notice says the newer text, one that says what the    *)
(* one playing says is dropped.                                            *)
Enqueued(u, q) ==
  IF IsNotice(u) /\ HasNotice(q)
  THEN utterances' = ReplaceAt(q, NoticeAt(q), u) /\ UNCHANGED ready
  ELSE IF IsNotice(u) /\ IsNotice(playing) /\ SameText(u, playing)
  THEN utterances' = q /\ UNCHANGED ready
  ELSE utterances' = Append(q, u) /\ ready' = TRUE

AskWith(u, q) ==
  /\ u \notin asked
  /\ asked' = asked \cup {u}
  /\ Enqueued(u, q)
  /\ UNCHANGED <<playing, loopAt, stateNews, statusNews, expired, said,
                 worldVars>>

\* say_interim and say_keyed.
SayInterim == \E u \in Interims : AskWith(u, utterances)
SayNotice  == \E u \in Notices : AskWith(u, utterances)

\* A reply says more than the interims still queued (deliver_reply).
DeliverReply == \E u \in Replies : AskWith(u, WithoutInterims(utterances))

\* The time to live of an interim runs out.
Expire ==
  \E u \in (Interims \cap asked) \ expired :
    /\ expired' = expired \cup {u}
    /\ UNCHANGED <<utterances, playing, ready, loopAt, stateNews, statusNews,
                   asked, said, worldVars>>
-----------------------------------------------------------------------------
(* utterance_loop.                                                         *)

LoopGoes(from, to) == loopAt = from /\ loopAt' = to

(* next_utterance: the first that has not expired, the ones before it gone. *)
Fresh(u) == u \notin expired
FirstFresh(q) == SelectInSeq(q, Fresh)
AfterFirst(q) ==
  IF FirstFresh(q) = 0 THEN <<>> ELSE SubSeq(q, FirstFresh(q) + 1, Len(q))

\* The top of the loop: sleep without utterances, wait while they are held.
LoopRests ==
  /\ IF utterances = <<>>
     THEN LoopGoes("look", "asleep") /\ UNCHANGED stateNews
     ELSE ~MaySpeak /\ LoopGoes("look", "wait") /\ stateNews' = FALSE
  /\ UNCHANGED <<utterances, playing, ready, statusNews, asked, expired, said,
                 worldVars>>

(* It takes the next utterance, which counts as playing from here; with    *)
(* expired interims only, it looks again.                                  *)
LoopTakes ==
  /\ utterances # <<>> /\ MaySpeak
  /\ utterances' = AfterFirst(utterances)
  /\ IF FirstFresh(utterances) = 0
     THEN LoopGoes("look", "look") /\ UNCHANGED playing
     ELSE LoopGoes("look", "ask") /\ playing' = utterances[FirstFresh(utterances)]
  /\ stateNews' = FALSE
  /\ UNCHANGED <<ready, statusNews, asked, expired, said, worldVars>>

\* tts_backend: the configuration no longer gives a voice.
LoopHasNoVoice ==
  /\ LoopGoes("ask", "look") /\ playing' = Nobody
  /\ UNCHANGED <<utterances, ready, stateNews, statusNews, asked, expired,
                 said, worldVars>>

(* speak_text takes the lock and looks again: a hold taken under it is not *)
(* missed.                                                                 *)
LoopStartsM ==  \* mutant: only the dictation state
  /\ lock = "free"
  /\ dictation = "Idle"
  /\ LoopGoes("ask", "speak")
  /\ dictation' = "Speaking" /\ voice' = playing /\ stateNews' = TRUE
  /\ UNCHANGED <<utterances, playing, ready, statusNews, asked, expired, said,
                 lock, press, recorder, late, copied, capturing>>
LoopStarts ==
  /\ lock = "free"
  /\ MaySpeak
  /\ LoopGoes("ask", "speak")
  /\ dictation' = "Speaking" /\ voice' = playing /\ stateNews' = TRUE
  /\ UNCHANGED <<utterances, playing, ready, statusNews, asked, expired, said,
                 lock, press, recorder, late, copied, capturing>>

\* NotIdle: something started first, or a hold came in.
LoopRefused ==
  /\ lock = "free"
  /\ ~MaySpeak
  /\ LoopGoes("ask", "wait")
  /\ utterances' = PutFront(playing, utterances) /\ playing' = Nobody
  /\ UNCHANGED <<ready, stateNews, statusNews, asked, expired, said, worldVars>>

\* The read-aloud this call of speak_text began is still the daemon's.
Owned == dictation = "Speaking" /\ voice = playing

\* Audio flows, or the read-aloud was stopped before it did: Ran(Ok).
LoopSpeaks ==
  /\ LoopGoes("speak", "drain")
  /\ lock = "free"
  /\ UNCHANGED <<utterances, playing, ready, stateNews, statusNews, asked,
                 expired, said, worldVars>>

\* The synthesis or the playback fails before any audio: Ran(Error).
LoopFails ==
  /\ lock = "free"
  /\ Owned
  /\ LoopGoes("speak", "look") /\ playing' = Nobody
  /\ dictation' = "Idle" /\ voice' = Nobody /\ stateNews' = TRUE
  /\ UNCHANGED <<utterances, ready, statusNews, asked, expired, said, lock,
                 press, recorder, late, copied, capturing>>

\* wait_for: it counts as playing until the playback ends.
LoopDrained ==
  /\ dictation # "Speaking"
  /\ LoopGoes("drain", "look") /\ playing' = Nobody /\ stateNews' = FALSE
  /\ UNCHANGED <<utterances, ready, statusNews, asked, expired, said,
                 worldVars>>

(* What wakes it: the permit alone while there is nothing to say, and the  *)
(* state or the recording status too while an utterance waits.             *)
Wakes(news) == CASE news = "ready"  -> ready
                 [] news = "state"  -> stateNews /\ loopAt = "wait"
                 [] news = "status" -> statusNews /\ loopAt = "wait"
LoopWakes ==
  \E news \in {"ready", "state", "status"} :
    /\ loopAt \in {"asleep", "wait"}
    /\ Wakes(news)
    /\ loopAt' = "look"
    /\ ready' = (ready /\ news # "ready")
    /\ stateNews' = (stateNews /\ news # "state")
    /\ statusNews' = (statusNews /\ news # "status")
    /\ UNCHANGED <<utterances, playing, asked, expired, said, worldVars>>

LoopSteps == LoopRests \/ LoopTakes \/ LoopStarts \/ LoopRefused \/ LoopSpeaks
               \/ LoopDrained \/ LoopWakes
-----------------------------------------------------------------------------
(* The dictation state.  Each step that changes it publishes it.           *)

Quiet(next) == dictation' = next /\ voice' = Nobody /\ stateNews' = TRUE

\* The playback ends by itself, or breaks off (speak.rs, the last task).
PlaybackEnds ==
  /\ lock = "free" /\ dictation = "Speaking"
  /\ voice \in Utterances => loopAt = "drain"
  /\ Quiet("Idle")
  /\ said' = said \cup ({voice} \cap Utterances)
  /\ UNCHANGED <<utterances, playing, ready, loopAt, statusNews, asked,
                 expired, lock, press, recorder, late, copied, capturing>>

(* A press silences an agent's read-aloud.  It opens its microphone under  *)
(* the same lock (a dictation), or it holds replies and lets go of it.     *)
Press ==
  /\ lock = "free" /\ press = "none"
  /\ AgentPlayback \/ dictation = "Idle"
  /\ IF AgentPlayback THEN Quiet("Idle") ELSE UNCHANGED <<dictation, voice, stateNews>>
  /\ \E next \in {"gap", "toggle"} :
       press' = next /\ lock' = IF next = "toggle" THEN "mic" ELSE "free"
  /\ UNCHANGED <<utterances, playing, ready, loopAt, statusNews, asked,
                 expired, said, recorder, late, copied, capturing>>

\* The press goes on: its microphone opens, which takes seconds.
PressOpens ==
  /\ press = "gap" /\ lock = "free" /\ dictation # "Busy"
  /\ press' = "mic" /\ lock' = "mic"
  /\ IF dictation = "Speaking" THEN Quiet("Idle") ELSE UNCHANGED <<dictation, voice, stateNews>>
  /\ UNCHANGED <<utterances, playing, ready, loopAt, statusNews, asked,
                 expired, said, recorder, late, copied, capturing>>

\* It records, or the microphone fails; its hold goes, which wakes the loop.
MicOpens ==
  /\ press \in {"mic", "toggle"}
  /\ press' = "none" /\ lock' = "free" /\ ready' = (ready \/ PressHolds)
  /\ Quiet("Busy") \/ UNCHANGED <<dictation, voice, stateNews>>
  /\ UNCHANGED <<utterances, playing, loopAt, statusNews, asked, expired,
                 said, recorder, late, copied, capturing>>

\* The press was for the selection, which it captured without the lock.
PressReadsAloud ==
  /\ press = "gap" /\ lock = "free" /\ dictation = "Idle"
  /\ press' = "aloud"
  /\ dictation' = "Speaking" /\ voice' = "selection" /\ stateNews' = TRUE
  /\ UNCHANGED <<utterances, playing, ready, loopAt, statusNews, asked,
                 expired, said, lock, recorder, late, copied, capturing>>

\* It is refused, or its read-aloud started: the hold goes.
PressEnds ==
  /\ press \in {"gap", "aloud"}
  /\ press' = "none" /\ ready' = TRUE
  /\ UNCHANGED <<utterances, playing, loopAt, stateNews, statusNews, asked,
                 expired, said, dictation, voice, lock, recorder, late, copied,
                 capturing>>

\* The dictation or the command ends.
BusyEnds ==
  /\ lock = "free" /\ dictation = "Busy"
  /\ Quiet("Idle")
  /\ UNCHANGED <<utterances, playing, ready, loopAt, statusNews, asked,
                 expired, said, lock, press, recorder, late, copied, capturing>>

(* handle_cancel: with an agent's read-aloud every queued utterance goes,  *)
(* else the interims.                                                      *)
CancelQueue(q) == IF AgentPlayback THEN <<>> ELSE WithoutInterims(q)
CancelReplies ==
  /\ lock = "free"
  /\ utterances' = CancelQueue(utterances)
  /\ IF dictation = "Idle" THEN UNCHANGED <<dictation, voice, stateNews>> ELSE Quiet("Idle")
  /\ UNCHANGED <<playing, ready, loopAt, statusNews, asked, expired, said,
                 lock, press, recorder, late, copied, capturing>>
-----------------------------------------------------------------------------
(* A meeting recording starts (hold_for_recording).                        *)

\* stop_for_recording: an agent's read-aloud is copied and stopped.
StopAgent ==
  IF AgentPlayback
  THEN copied' = playing /\ Quiet("Idle")
  ELSE UNCHANGED <<copied, dictation, voice, stateNews>>

(* The hold first, then the stop of what is playing.  When the lock is     *)
(* busy the stop is spawned (one at a time here): besides a microphone     *)
(* that opens, any handler may have it just then, so that is a choice.     *)
RecorderIdle == recorder = "none" /\ ~capturing

RecorderStarts ==
  /\ RecorderIdle
  /\ playing # Nobody => lock = "free"
  /\ IF playing # Nobody THEN StopAgent ELSE UNCHANGED <<copied, dictation, voice, stateNews>>
  /\ recorder' = IF copied' # Nobody THEN "putBack" ELSE "opening"
  /\ lock' = IF copied' # Nobody THEN "recorder" ELSE lock
  /\ UNCHANGED <<utterances, playing, ready, loopAt, statusNews, asked,
                 expired, said, press, late, capturing>>

RecorderSpawnsStop ==
  /\ RecorderIdle
  /\ playing # Nobody /\ late = "none"
  /\ late' = "waiting" /\ recorder' = "opening"
  /\ UNCHANGED <<queueVars, dictation, voice, lock, press, copied, capturing>>

RecorderPutsBack ==
  /\ recorder = "putBack" /\ recorder' = "opening"
  /\ utterances' = PutBack(copied, utterances)
  /\ copied' = Nobody /\ lock' = "free"
  /\ UNCHANGED <<playing, ready, loopAt, stateNews, statusNews, asked, expired,
                 said, dictation, voice, press, late, capturing>>

\* The devices are open: the recording shows as capturing, and the hold goes.
RecorderOpens ==
  /\ recorder = "opening"
  /\ recorder' = "none" /\ capturing' = TRUE
  /\ statusNews' = TRUE /\ ready' = TRUE
  /\ UNCHANGED <<utterances, playing, loopAt, stateNews, asked, expired, said,
                 dictation, voice, lock, press, late, copied>>

RecorderFailsM ==  \* mutant: the dropped hold wakes nobody
  /\ recorder = "opening"
  /\ recorder' = "none"
  /\ UNCHANGED <<queueVars, dictation, voice, lock, press, late, copied,
                 capturing>>
RecorderFails ==
  /\ recorder = "opening"
  /\ recorder' = "none" /\ ready' = TRUE
  /\ UNCHANGED <<utterances, playing, loopAt, stateNews, statusNews, asked,
                 expired, said, dictation, voice, lock, press, late, copied,
                 capturing>>

RecorderStops ==
  /\ capturing
  /\ capturing' = FALSE /\ statusNews' = TRUE
  /\ UNCHANGED <<utterances, playing, ready, loopAt, stateNews, asked, expired,
                 said, dictation, voice, lock, press, recorder, late, copied>>

(* The spawned stop gets the lock: with nothing held any more the start    *)
(* failed, and there is nothing to stop for.                               *)
LateStop ==
  /\ late = "waiting" /\ lock = "free" /\ late' = "none"
  /\ IF RepliesHeld /\ AgentPlayback
     THEN Quiet("Idle") /\ utterances' = PutBack(playing, utterances)
     ELSE UNCHANGED <<dictation, voice, stateNews, utterances>>
  /\ UNCHANGED <<playing, ready, loopAt, statusNews, asked, expired, said,
                 lock, press, recorder, copied, capturing>>
-----------------------------------------------------------------------------
RepliesNext ==
  \/ SayInterim \/ SayNotice \/ DeliverReply \/ Expire
  \/ LoopRests \/ LoopTakes \/ LoopHasNoVoice \/ LoopStarts \/ LoopRefused
  \/ LoopSpeaks \/ LoopFails \/ LoopDrained \/ LoopWakes
  \/ PlaybackEnds \/ Press \/ PressOpens \/ MicOpens \/ PressReadsAloud
  \/ PressEnds \/ BusyEnds \/ CancelReplies
  \/ RecorderStarts \/ RecorderSpawnsStop \/ RecorderPutsBack \/ RecorderOpens
  \/ RecorderFails \/ RecorderStops \/ LateStop

(* The loop is a task of its own: it takes its step when it has one.  So   *)
(* does the task of a spawned stop.  Nothing is assumed of the users, the  *)
(* agents, the devices and the recordings.                                 *)
RepliesFair ==
  /\ WF_replyVars(LoopSteps)
  /\ WF_replyVars(LateStop)

RepliesSpec == RepliesInit /\ [][RepliesNext]_replyVars /\ RepliesFair
-----------------------------------------------------------------------------
(* Properties.                                                             *)

(* The queue, its loop, the holds and the stops together are an outbox:    *)
(* nothing is lost but what the outbox may lose, nothing overtakes and     *)
(* nothing is said twice.  What a stop copied, and has not put back yet,   *)
(* waits at the front; what the loop is about to speak counts as being     *)
(* said (requeue_front, requeue_if_stopped, enqueue, utterance_loop).      *)
Outbox == INSTANCE SpeechOutbox WITH
  line   <- PutBack(copied, utterances),
  saying <- IF loopAt = "ask" \/ AgentPlayback THEN playing ELSE Nobody,
  told   <- said,
  raised <- asked
KeepsTheOutbox == Outbox!Spec

(* While a meeting is captured no agent speaks into it, but for one a      *)
(* spawned stop is still to silence, which waits for the lock.             *)
QuietInMeeting == capturing /\ AgentPlayback => late = "waiting"

(* The loop never sleeps for ever beside an utterance it could say: with   *)
(* the daemon Idle and nothing held, one that waits is taken (the three    *)
(* sources utterance_loop waits on miss no change that lets it speak).     *)
NeverStuck ==
  []<>(\/ utterances = <<>>
       \/ dictation # "Idle"
       \/ RepliesHeld
       \/ lock # "free")
=============================================================================
