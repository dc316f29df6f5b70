----------------------------- MODULE AgentTurns -----------------------------
(***************************************************************************)
(* The turns of one agent (daemon/agent.rs): its slot, the task of the     *)
(* turn that runs and the updates it sends, the commands that start, stop  *)
(* and reset, the hook events of the harness, the record in agents.json    *)
(* and the numbered writes of it, the overlay's row, and a daemon that     *)
(* dies and starts again.                                                  *)
(*                                                                         *)
(* A step is a section under the runtime's lock, or what happens between   *)
(* two of them.  The harness is external, as the driver of Claude Code     *)
(* (agent/claude.rs) uses it: a session that outlives the daemon, works    *)
(* for a turn or on its own, replies, may wait for a permission, sends a   *)
(* hook event for each and can be listed.  A turn's reply is the turn; a   *)
(* session is the turn that launched it.  Events carry when they were      *)
(* received: 2g from the start of turn g, 2g + 1 from its launch.  The     *)
(* session waits for the command of a hook, and that for the daemon, so it *)
(* does nothing else until an event of it is handled.  Left out: a stop    *)
(* that fails, the waits of idle_loop, and a record whose agent the config *)
(* changed.                                                                *)
(***************************************************************************)
EXTENDS Selections, Naturals, Sequences, SequencesExt, FiniteSets

CONSTANTS
  MaxTurns,     \* turns, those watched again after a restart included
  MaxOwn,       \* replies the session produces on its own
  MaxKept,      \* UNCLAIMED_MAX
  Senders,      \* requests to start a turn at the same time
  TurnBudgets   \* what each behaviour may have of turns, own replies,
                \* questions, snapshots waiting at once, crashes, of the
                \* requests and failures of Extras, and of Senders

Extras == {"stop", "stopIdle", "reset", "writeFails", "launchFails", "gone"}

ASSUME TurnBounds ==
  /\ MaxTurns \in Nat \ {0} /\ MaxOwn \in Nat /\ MaxKept \in Nat \ {0}
  /\ TurnBudgets \subseteq [turns : 1 .. MaxTurns, own : 0 .. MaxOwn, asks : Nat,
                            writes : Nat \ {0}, crashes : Nat,
                            extras : SUBSET Extras, senders : SUBSET Senders]

VARIABLES
  budget,       \* the behaviour's one of TurnBudgets
  slot,         \* the agent's Slot: turn (0 for none), phase, ownWork, polled
  turnTask,     \* the turn's task and its driver
  ghost,        \* a section an aborted task may still run
  strays,       \* launches of stopped turns that still run
  record,       \* the agent's AgentRecord: its session, turn_running
  disk,         \* agents.json
  writes,       \* snapshots not written yet, in the order they were taken
  writeLost,    \* the write of the newest snapshot failed
  kept,         \* unclaimed hook events
  flying,       \* hook events the harness sent, not received yet
  reading,      \* those handled with no turn running, between two sections
  sending,      \* where each request to start a turn is
  stopping,     \* where `--stop` is, and the session it stops
  listed,       \* what a listing of the idle session answered
  harness,      \* the sessions: what each works for, which of them wait
  board,        \* the agent's row of the overlay
  generations,  \* next_generation - 1
  heard,        \* how often each reply was delivered
  lastEnded,    \* the newest turn that ended by itself
  forgotten,    \* the sessions the user let go since the daemon started
  ordered,      \* the turns a `--stop` ended since then
  crashes

taskVars    == <<slot, turnTask, ghost, strays>>
storeVars   == <<record, disk, writes, writeLost, forgotten>>
eventVars   == <<kept, flying, reading>>
commandVars == <<sending, stopping, listed>>
talkVars    == <<heard, lastEnded, ordered>>
lifeVars    == <<budget, crashes>>
turnVars == <<taskVars, storeVars, eventVars, commandVars, harness, board,
              generations, talkVars, lifeVars>>

Turns    == 1 .. MaxTurns
Answers  == 1 .. MaxTurns + MaxOwn
Phases   == {"Idle", "Working", "NeedsYou"}

\* SessionRef: the bg id, and the session id once it was looked up.
SessionRefs == {r \in [bg : 0 .. MaxTurns, id : 0 .. MaxTurns] : r.id \in {0, r.bg}}
NoSession == [bg |-> 0, id |-> 0]

Snapshots == [session : SessionRefs, running : BOOLEAN, since : 0 .. MaxTurns]
HookEvents == [kind : {"stop", "prompt"}, session : Turns, reply : Answers,
               at : 0 .. 2 * MaxTurns + 1]
NobodySends == [s \in Senders |-> [at |-> "none", bg |-> 0]]
NoTask == [at |-> "none", says |-> 0, ref |-> NoSession, out |-> "none",
           outReply |-> 0, updates |-> <<>>, hooks |-> <<>>, waits |-> FALSE]

TurnsTyped ==
  /\ budget \in TurnBudgets
  /\ slot \in [turn : 0 .. MaxTurns, phase : Phases, ownWork : BOOLEAN,
               polled : 0 .. MaxTurns + MaxOwn]
  /\ turnTask.at \in {"none", "launch", "watch", "rewatch"}
  /\ (turnTask.at = "none") = (slot.turn = 0)
  /\ Range(turnTask.hooks) \subseteq HookEvents
  /\ strays \subseteq [gen : Turns, ref : SessionRefs, started : BOOLEAN]
  /\ record \in Snapshots /\ disk \in Snapshots /\ Range(writes) \subseteq Snapshots
  /\ record.running = (slot.turn # 0)
  /\ Range(kept) \subseteq HookEvents /\ Len(kept) <= MaxKept
  /\ reading \subseteq HookEvents
  /\ sending \in [Senders -> [at : {"none", "ask", "own", "second"}, bg : 0 .. MaxTurns]]
  /\ stopping.at \in {"none", "stop", "ask", "idle", "clear"}
  /\ listed \in Phases \cup {"none"}
  /\ board \in [turn : BOOLEAN, waits : BOOLEAN, ended : BOOLEAN]
  /\ heard \in [Answers -> 0 .. 2]

TurnsInit ==
  /\ budget \in TurnBudgets
  /\ slot = [turn |-> 0, phase |-> "Idle", ownWork |-> FALSE, polled |-> 0]
  /\ turnTask = NoTask /\ ghost = <<>> /\ strays = {}
  /\ record = [session |-> NoSession, running |-> FALSE, since |-> 0]
  /\ disk = record /\ writes = <<>> /\ writeLost = FALSE
  /\ kept = <<>> /\ flying = {} /\ reading = {}
  /\ sending = NobodySends
  /\ stopping = [at |-> "none", ref |-> NoSession] /\ listed = "none"
  /\ harness = [open |-> {}, work |-> [s \in Turns |-> 0], waits |-> {}, own |-> 0,
                asks |-> 0, replied |-> {}]
  /\ board = [turn |-> FALSE, waits |-> FALSE, ended |-> FALSE]
  /\ generations = 0 /\ heard = [r \in Answers |-> 0] /\ lastEnded = 0
  /\ forgotten = {} /\ ordered = {} /\ crashes = 0
-----------------------------------------------------------------------------
(* The record and its file.                                                *)

Records(new) ==
  /\ Len(writes) < budget.writes
  /\ record' = new /\ writes' = Append(writes, new) /\ writeLost' = FALSE
  /\ UNCHANGED disk

(* AgentRuntime.save: a snapshot older than the newest one on disk is      *)
(* skipped, so writing one leaves the newer ones to write.                 *)
ToWriteAfterM(i) == RemoveAt(writes, i)  \* mutant: the older ones are written too
ToWriteAfter(i)  == SubSeq(writes, i + 1, Len(writes))

Write == \E i \in DOMAIN writes :
  /\ disk' = writes[i] /\ writes' = ToWriteAfter(i)
  /\ UNCHANGED <<taskVars, record, writeLost, forgotten, eventVars,
                 commandVars, harness, board, generations, talkVars, lifeVars>>

WriteFails == "writeFails" \in budget.extras /\ \E i \in DOMAIN writes :
  /\ writes' = RemoveAt(writes, i) /\ writeLost' = (writeLost \/ i = Len(writes))
  /\ UNCHANGED <<taskVars, record, disk, forgotten, eventVars, commandVars,
                 harness, board, generations, talkVars, lifeVars>>
-----------------------------------------------------------------------------
(* The overlay's row (Board in agent/display.rs), as the events the        *)
(* runtime sends under its lock change it.                                 *)

NoRow        == [turn |-> FALSE, waits |-> FALSE, ended |-> FALSE]
TurnRow      == [NoRow EXCEPT !.turn = TRUE]
WaitingRow   == [board EXCEPT !.waits = TRUE]
WorkingRow   == [board EXCEPT !.waits = FALSE]
EndedRow     == [NoRow EXCEPT !.ended = board.ended \/ board.turn \/ board.waits]

Row == CASE board.waits -> "NeedsYou"
         [] board.turn /\ ~board.waits -> "Working"
         [] board.ended /\ ~board.turn /\ ~board.waits -> "Ended"
         [] OTHER -> "None"

\* Slot::shows_idle.
ShowsIdle == slot.turn = 0 /\ (slot.ownWork \/ slot.phase = "NeedsYou")
IdleSlot  == [slot EXCEPT !.phase = "Idle", !.ownWork = FALSE]

\* Slot::end_idle, and what the row does when it showed something.
EndsIdle(row) ==
  IF ShowsIdle THEN slot' = IdleSlot /\ board' = row
               ELSE UNCHANGED <<slot, board>>

\* show_own_work.
ShowsOwnWork ==
  IF slot.turn # 0 \/ slot.ownWork THEN UNCHANGED <<slot, board>>
  ELSE slot' = [slot EXCEPT !.phase = "Idle", !.ownWork = TRUE] /\ board' = TurnRow
-----------------------------------------------------------------------------
(* What agents say.                                                        *)

Delivers(r) == heard' = [heard EXCEPT ![r] = IF @ = 2 THEN 2 ELSE @ + 1]

\* same_reply against the reply of a turn that ended on a poll.
IsPolled(r) == slot.polled = r

(* own_reply: the work it showed ended, and the late Stop of a turn that   *)
(* ended on a poll is not spoken twice.                                    *)
OwnReplyM(r) ==  \* mutant: ends the row whatever it shows
  /\ slot' = [slot EXCEPT !.polled = 0]
  /\ board' = EndedRow
  /\ IF IsPolled(r) THEN UNCHANGED heard ELSE Delivers(r)
OwnReply(r) ==
  /\ slot' = [(IF ShowsIdle THEN IdleSlot ELSE slot) EXCEPT !.polled = 0]
  /\ board' = IF ShowsIdle THEN EndedRow ELSE board
  /\ IF IsPolled(r) THEN UNCHANGED heard ELSE Delivers(r)
-----------------------------------------------------------------------------
(* Starting a turn.                                                        *)

\* idle_session: with no turn running, the session to ask about.
HasIdleSession == slot.turn = 0 /\ record.session.bg # 0
TurnWorks == slot.turn # 0 /\ slot.phase # "NeedsYou"

\* What `claude agents` shows of a session.
ListedPhase(bg) ==
  IF harness.work[bg] = 0 THEN "Idle"
  ELSE IF bg \in harness.waits THEN "NeedsYou" ELSE "Working"

Goes(s, at, bg) == sending' = [sending EXCEPT ![s] = [at |-> at, bg |-> bg]]

\* start_turn, the first section.
SendChecks == \E s \in budget.senders :
  /\ sending[s].at = "none" /\ generations < budget.turns
  /\ ~TurnWorks
  /\ IF HasIdleSession THEN Goes(s, "ask", record.session.bg) ELSE Goes(s, "second", 0)
  /\ UNCHANGED <<taskVars, storeVars, eventVars, stopping, listed, harness,
                 board, generations, talkVars, lifeVars>>

\* session_phase: a listing that fails goes on.
SendAsks == \E s \in Senders :
  /\ sending[s].at = "ask"
  /\ \/ Goes(s, IF ListedPhase(sending[s].bg) = "Working" THEN "own" ELSE "second", 0)
     \/ Goes(s, "second", 0)
  /\ UNCHANGED <<taskVars, storeVars, eventVars, stopping, listed, harness,
                 board, generations, talkVars, lifeVars>>

SendFindsOwnWork == \E s \in Senders :
  /\ sending[s].at = "own"
  /\ Goes(s, "none", 0) /\ ShowsOwnWork
  /\ UNCHANGED <<turnTask, ghost, strays, storeVars, eventVars, stopping,
                 listed, harness, generations, talkVars, lifeVars>>

\* The newest ids the turn reported (TurnUpdates.latest), if it reported any.
SessionNow == IF turnTask.at = "launch" THEN record.session ELSE turnTask.ref

(* take_session_events: the ones of the session received since the turn    *)
(* started go to its driver, older ones are dropped.                       *)
Of(q, id) == Keeping(q, {e \in Range(q) : e.session = id})
NotBefore(q, g) == Keeping(q, {e \in Range(q) : e.at >= 2 * g})
ForwardedM(ref) == <<>>  \* mutant: kept until they expire
Forwarded(ref) == IF ref.id = 0 THEN <<>> ELSE Of(kept, ref.id)
KeptAfter(ref) == Keeping(kept, Range(kept) \ Range(Forwarded(ref)))

\* What an aborted task may still have been about to run.
Aborted ==
  /\ ghost' = IF turnTask.updates # <<>>
              THEN <<[gen |-> slot.turn, does |-> Head(turnTask.updates)]>>
              ELSE IF turnTask.out # "none"
              THEN <<[gen |-> slot.turn, does |-> [kind |-> "end", ref |-> NoSession, reply |-> 0]]>>
              ELSE ghost
  /\ strays' = strays \cup (IF turnTask.at = "launch"
                         THEN {[gen |-> slot.turn, ref |-> turnTask.ref, started |-> FALSE]}
                         ELSE {})

(* spawn_turn: the turn that is registered, and what it says when it       *)
(* replies.                                                                *)
Spawns(ref, at, says) ==
  LET g == generations + 1 IN
  /\ generations' = g
  /\ turnTask' = [NoTask EXCEPT !.at = at, !.says = says, !.ref = ref,
                    !.hooks = NotBefore(Forwarded(ref), g)]
  /\ kept' = KeptAfter(ref)
  /\ board' = TurnRow
  /\ slot' = [slot EXCEPT !.turn = g, !.phase = "Working", !.ownWork = FALSE]

(* start_turn, the second section: it checks again, and a turn that waits  *)
(* for the user is replaced.                                               *)
MayStartM == TRUE  \* mutant: trusts the first check
MayStart == ~TurnWorks
StartTurn == \E s \in Senders :
  /\ sending[s].at = "second" /\ Goes(s, "none", 0)
  /\ IF MayStart /\ generations < budget.turns
     THEN LET ref == IF slot.turn = 0 THEN record.session ELSE SessionNow IN
          /\ IF slot.turn = 0 THEN UNCHANGED <<ghost, strays>> ELSE Aborted
          /\ Records([session |-> ref, running |-> TRUE, since |-> generations + 1])
          /\ Spawns(ref, "launch", generations + 1)
     ELSE UNCHANGED <<taskVars, record, disk, writes, writeLost, kept, board,
                      generations>>
  /\ UNCHANGED <<forgotten, flying, reading, stopping, listed, harness,
                 talkVars, lifeVars>>
-----------------------------------------------------------------------------
(* The turn's task: its driver (external, claude.rs), and what the runtime *)
(* makes of its updates and its outcome.                                   *)

HooksHandled == flying = {} /\ reading = {}
Update(kind, ref, reply) == [kind |-> kind, ref |-> ref, reply |-> reply]
Sends(us) == turnTask' = [turnTask EXCEPT !.updates = @ \o us]
Ends(out, reply) == turnTask' = [turnTask EXCEPT !.out = out, !.outReply = reply]
Driving(at) == turnTask.at = at /\ turnTask.out = "none"

driverFrame == <<slot, ghost, storeVars, eventVars, commandVars, board,
                 generations, talkVars, lifeVars>>

(* next_turn and first_turn.  The old process is gone before a launch, and *)
(* so are its hooks; a session that works on its own refuses the turn.     *)
LaunchRefused ==
  /\ Driving("launch")
  /\ turnTask.ref.bg # 0 /\ ListedPhase(turnTask.ref.bg) = "Working"
  /\ Ends("busy", 0)
  /\ UNCHANGED <<strays, harness, driverFrame>>

LaunchFails ==
  /\ "launchFails" \in budget.extras
  /\ Driving("launch") /\ Ends("failed", 0)
  /\ UNCHANGED <<strays, harness, driverFrame>>

\* A launch starts the session's work for turn g; a new one has its own id.
Stopped(bg) == [harness EXCEPT !.work[bg] = 0, !.waits = @ \ {bg}]
Launches(g, ref, work) ==
  LET bg == IF ref.id = 0 THEN g ELSE ref.bg IN
  harness' = [harness EXCEPT !.open = @ \cup {bg}, !.work[bg] = work,
                             !.waits = @ \ {bg}]
Launch ==
  /\ Driving("launch") /\ HooksHandled
  /\ turnTask.ref.bg # 0 => ListedPhase(turnTask.ref.bg) # "Working"
  /\ LET ref == IF turnTask.ref.id = 0 THEN [bg |-> slot.turn, id |-> 0] ELSE turnTask.ref IN
     /\ Launches(slot.turn, turnTask.ref, slot.turn)
     /\ turnTask' = [turnTask EXCEPT !.at = "watch", !.ref = ref,
                       !.updates = Append(@, Update("session", ref, 0))]
  /\ UNCHANGED <<strays, driverFrame>>

(* A launch outlives its turn: report_session tells it of the stop, and it *)
(* stops what it started.                                                  *)
StrayLaunches == \E l \in strays :
  /\ HooksHandled /\ ~l.started
  /\ strays' = (strays \ {l}) \cup {[l EXCEPT !.started = TRUE]}
  /\ Launches(l.gen, l.ref, l.gen)
  /\ UNCHANGED <<turnTask, driverFrame>>

StrayStops(l) == Stopped(IF l.ref.id = 0 THEN l.gen ELSE l.ref.bg)
StrayReports == \E l \in strays :
  /\ l.started /\ strays' = strays \ {l}
  /\ harness' = StrayStops(l)
  /\ UNCHANGED <<turnTask, driverFrame>>

\* learn_session, or a poll that learns it.
LearnsSession ==
  /\ turnTask.at \in {"watch", "rewatch"} /\ turnTask.out = "none"
  /\ turnTask.ref.bg # 0 /\ turnTask.ref.id = 0
  /\ LET ref == [turnTask.ref EXCEPT !.id = turnTask.ref.bg] IN
     turnTask' = [turnTask EXCEPT !.ref = ref,
                    !.updates = Append(@, Update("session", ref, 0))]
  /\ UNCHANGED <<strays, harness, driverFrame>>

\* watch, a hook event: one from before the launch is the session's own.
IsCurrent(e) == turnTask.at = "rewatch" \/ e.at > 2 * slot.turn
WatchHook ==
  /\ turnTask.at \in {"watch", "rewatch"} /\ turnTask.out = "none"
  /\ turnTask.hooks # <<>>
  /\ LET e == Head(turnTask.hooks)
         rest == [turnTask EXCEPT !.hooks = Tail(@)] IN
     turnTask' =
       CASE ~IsCurrent(e) /\ e.kind = "stop" ->
              [rest EXCEPT !.updates = Append(@, Update("reply", NoSession, e.reply))]
         [] IsCurrent(e) /\ e.kind = "stop" ->
              [rest EXCEPT !.out = "reply", !.outReply = e.reply]
         [] IsCurrent(e) /\ e.kind = "prompt" /\ ~turnTask.waits ->
              [rest EXCEPT !.waits = TRUE, !.updates = Append(@, Update("waits", NoSession, 0))]
         [] OTHER -> rest
  /\ UNCHANGED <<strays, harness, driverFrame>>

\* watch, a poll: what `claude agents` and the transcript show.
WatchPollM ==  \* mutant: an interrupted turn is waited for
  /\ turnTask.at \in {"watch", "rewatch"} /\ turnTask.out = "none"
  /\ turnTask.says \in harness.replied
  /\ Ends("polled", turnTask.says)
  /\ UNCHANGED <<strays, harness, driverFrame>>
WatchPoll ==
  /\ turnTask.at \in {"watch", "rewatch"} /\ turnTask.out = "none"
  /\ turnTask.ref.bg # 0
  /\ \/ /\ ListedPhase(turnTask.ref.bg) = "Idle"
        /\ IF turnTask.says \in harness.replied
           THEN Ends("polled", turnTask.says)
           ELSE Ends("failed", 0)
     \/ /\ ListedPhase(turnTask.ref.bg) = "NeedsYou" /\ ~turnTask.waits
        /\ turnTask' = [turnTask EXCEPT !.waits = TRUE,
                          !.updates = Append(@, Update("waits", NoSession, 0))]
     \/ /\ ListedPhase(turnTask.ref.bg) = "Working" /\ turnTask.waits
        /\ turnTask' = [turnTask EXCEPT !.waits = FALSE,
                          !.updates = Append(@, Update("works", NoSession, 0))]
  /\ UNCHANGED <<strays, harness, driverFrame>>

\* The session is no longer listed (PollState::Gone): it is forgotten.
WatchFindsGone ==
  /\ "gone" \in budget.extras
  /\ turnTask.at \in {"watch", "rewatch"} /\ turnTask.out = "none"
  /\ turnTask.ref.bg # 0 /\ harness.work[turnTask.ref.bg] = 0
  /\ turnTask' = [turnTask EXCEPT !.out = "failed", !.ref = NoSession,
                     !.updates = Append(@, Update("session", NoSession, 0))]
  /\ UNCHANGED <<strays, harness, driverFrame>>

\* The restart landed before the launch printed an id.
WatchLostTrack ==
  /\ Driving("rewatch") /\ turnTask.ref.bg = 0
  /\ Ends("failed", 0)
  /\ UNCHANGED <<strays, harness, driverFrame>>

\* apply_update, of the turn it is for.
IsCurrentTurnM(g) == slot.turn # 0  \* mutant: any turn's
IsCurrentTurn(g) == slot.turn = g
Applies(g, u) ==
  IF ~IsCurrentTurn(g) THEN UNCHANGED <<slot, record, disk, writes, writeLost,
                                        kept, board, heard>> /\ UNCHANGED turnTask
  ELSE
  /\ IF u.kind = "session"
     THEN /\ Records([record EXCEPT !.session = u.ref])
          /\ kept' = KeptAfter(u.ref)
          /\ turnTask' = [turnTask EXCEPT
               !.updates = IF @ # <<>> /\ Head(@) = u THEN Tail(@) ELSE @,
               !.hooks = @ \o NotBefore(Forwarded(u.ref), g)]
     ELSE /\ turnTask' = [turnTask EXCEPT
               !.updates = IF @ # <<>> /\ Head(@) = u THEN Tail(@) ELSE @]
          /\ UNCHANGED <<record, disk, writes, writeLost, kept>>
  /\ CASE u.kind = "waits" -> slot' = [slot EXCEPT !.phase = "NeedsYou"]
                              /\ board' = WaitingRow /\ UNCHANGED heard
       [] u.kind = "works" -> slot' = [slot EXCEPT !.phase = "Working"]
                              /\ board' = WorkingRow /\ UNCHANGED heard
       [] u.kind = "reply" -> OwnReply(u.reply)
       [] OTHER -> UNCHANGED <<slot, board, heard>>

ApplyUpdate ==
  /\ slot.turn # 0 /\ turnTask.updates # <<>>
  /\ Applies(slot.turn, Head(turnTask.updates))
  /\ UNCHANGED <<ghost, strays, forgotten, flying, reading, commandVars,
                 harness, generations, lastEnded, ordered, lifeVars>>

(* finish_turn.  The reply of a turn that ended on a poll is remembered:   *)
(* its own Stop can still come.                                            *)
PolledAfterM(out, reply) == 0  \* mutant: never remembered
PolledAfter(out, reply) == IF out = "polled" THEN reply ELSE 0
FinishTurn ==
  /\ slot.turn # 0 /\ turnTask.out # "none" /\ turnTask.updates = <<>>
  /\ turnTask' = NoTask
  /\ slot' = [turn |-> 0, phase |-> "Idle", ownWork |-> turnTask.out = "busy",
              polled |-> PolledAfter(turnTask.out, turnTask.outReply)]
  /\ Records([record EXCEPT !.running = FALSE, !.since = 0])
  /\ board' = IF turnTask.out = "busy" THEN TurnRow ELSE EndedRow
  /\ IF turnTask.out \in {"reply", "polled"} THEN Delivers(turnTask.outReply)
                                             ELSE UNCHANGED heard
  /\ lastEnded' = turnTask.says
  /\ UNCHANGED <<ghost, strays, forgotten, eventVars, commandVars, harness,
                 generations, ordered, lifeVars>>

(* An aborted task that was about to take the lock runs that one section:  *)
(* its turn is gone from the slot by then.                                 *)
GhostRuns ==
  /\ ghost # <<>> /\ ghost' = <<>>
  /\ IF ghost[1].does.kind = "end"
     THEN UNCHANGED <<slot, turnTask, record, disk, writes, writeLost, kept,
                      board, heard>>
     ELSE Applies(ghost[1].gen, ghost[1].does)
  /\ UNCHANGED <<strays, forgotten, flying, reading, commandVars, harness,
                 generations, lastEnded, ordered, lifeVars>>
-----------------------------------------------------------------------------
(* Hook events (handle_agent_event).                                       *)

HasLaunched == turnTask.at \in {"watch", "rewatch"}
ReceivedAt == 2 * generations + (IF HasLaunched THEN 1 ELSE 0)

\* An event nobody owns is kept, in place of the oldest when there are many.
KeepM(q, e) == Append(q, e)  \* mutant: as many as come
Keep(q, e)  == Append(IF Len(q) = MaxKept THEN Tail(q) ELSE q, e)

HookArrives == \E e \in flying :
  LET got == [e EXCEPT !.at = ReceivedAt]
      mine == record.session.id = e.session IN
  /\ flying' = flying \ {e}
  /\ IF mine /\ slot.turn # 0
     THEN /\ turnTask' = [turnTask EXCEPT !.hooks = Append(@, got)]
          /\ UNCHANGED <<kept, reading>>
     ELSE IF mine
     THEN reading' = reading \cup {got} /\ UNCHANGED <<turnTask, kept>>
     ELSE \E from \in 1 .. Len(kept) + 1 :  \* the older ones may have expired
          /\ kept' = Keep(SubSeq(kept, from, Len(kept)), got)
          /\ UNCHANGED <<turnTask, reading>>
  /\ UNCHANGED <<slot, ghost, strays, storeVars, commandVars, harness, board,
                 generations, talkVars, lifeVars>>

\* idle_event answered: the session's own reply, or its wait for a permission.
HookWhileIdle == \E e \in reading :
  /\ reading' = reading \ {e}
  /\ CASE e.kind = "stop"   -> OwnReply(e.reply)
       [] e.kind = "prompt" /\ slot.turn = 0 ->
            slot' = [slot EXCEPT !.phase = "NeedsYou"] /\ board' = WaitingRow
            /\ UNCHANGED heard
       [] OTHER -> UNCHANGED <<slot, board, heard>>
  /\ UNCHANGED <<turnTask, ghost, strays, storeVars, kept, flying, commandVars,
                 harness, generations, lastEnded, ordered, lifeVars>>

\* A Stop without a message (IdleEvent::Ended).
HookEndsOwnWork == \E e \in reading :
  /\ e.kind = "stop" /\ e.reply > MaxTurns
  /\ reading' = reading \ {e}
  /\ EndsIdle(NoRow)
  /\ UNCHANGED <<turnTask, ghost, strays, storeVars, kept, flying, commandVars,
                 harness, generations, talkVars, lifeVars>>
-----------------------------------------------------------------------------
(* The listings: those of idle_loop, and of `whisrs agent`.                *)

ListIdle ==
  /\ listed = "none" /\ HasIdleSession /\ ShowsIdle
  /\ listed' = ListedPhase(record.session.bg)
  /\ UNCHANGED <<taskVars, storeVars, eventVars, sending, stopping, harness,
                 board, generations, talkVars, lifeVars>>

\* idle_phase_seen.
FollowsListing(phase) ==
  CASE ShowsIdle /\ phase = "Idle" -> EndsIdle(NoRow)
    [] ShowsIdle /\ phase = "Working" /\ slot.phase = "NeedsYou" ->
         /\ slot' = [slot EXCEPT !.phase = "Idle", !.ownWork = TRUE]
         /\ board' = IF slot.ownWork THEN WorkingRow ELSE TurnRow
    [] ShowsIdle /\ phase = "NeedsYou" /\ slot.phase # "NeedsYou" ->
         slot' = [slot EXCEPT !.phase = "NeedsYou"] /\ board' = WaitingRow
    [] OTHER -> UNCHANGED <<slot, board>>
ListingSeen ==
  /\ listed # "none" /\ listed' = "none" /\ FollowsListing(listed)
  /\ UNCHANGED <<turnTask, ghost, strays, storeVars, eventVars, sending,
                 stopping, harness, generations, talkVars, lifeVars>>
-----------------------------------------------------------------------------
(* `--stop` and `--reset`.                                                 *)

StopGoes(at, ref) == stopping' = [at |-> at, ref |-> ref]

\* stop_turn, its section: marked stopped first, and the newest ids kept.
StopTurn ==
  /\ "stop" \in budget.extras
  /\ stopping.at = "none" /\ slot.turn # 0
  /\ Aborted
  /\ LET ref == SessionNow IN
     /\ Records([session |-> ref, running |-> FALSE, since |-> 0])
     /\ StopGoes("stop", ref)
  /\ turnTask' = NoTask
  /\ slot' = [slot EXCEPT !.turn = 0, !.phase = "Idle"]
  /\ board' = NoRow
  /\ ordered' = ordered \cup {slot.turn}
  /\ UNCHANGED <<forgotten, eventVars, sending, listed, harness, generations,
                 heard, lastEnded, lifeVars>>

\* Driver::stop, after the lock: whatever runs in that session by now.
DriverStops ==
  /\ stopping.at \in {"stop", "idle"}
  /\ harness' = IF stopping.ref.bg = 0 THEN harness ELSE Stopped(stopping.ref.bg)
  /\ StopGoes(IF stopping.at = "stop" THEN "none" ELSE "clear", NoSession)
  /\ UNCHANGED <<taskVars, storeVars, eventVars, sending, listed, board,
                 generations, talkVars, lifeVars>>

\* stop_idle_session: the session is asked, stopped if it works, and its row
\* cleared unless a turn started meanwhile.
StopAsksIdle ==
  /\ "stopIdle" \in budget.extras
  /\ stopping.at = "none" /\ HasIdleSession
  /\ StopGoes("ask", record.session)
  /\ UNCHANGED <<taskVars, storeVars, eventVars, sending, listed, harness,
                 board, generations, talkVars, lifeVars>>

StopIdleAnswered ==
  /\ stopping.at = "ask"
  /\ IF ListedPhase(stopping.ref.bg) = "Idle"
     THEN StopGoes("none", NoSession) /\ FollowsListing("Idle")
     ELSE StopGoes("idle", stopping.ref) /\ UNCHANGED <<slot, board>>
  /\ UNCHANGED <<turnTask, ghost, strays, storeVars, eventVars, sending,
                 listed, harness, generations, talkVars, lifeVars>>

StopIdleClears ==
  /\ stopping.at = "clear" /\ StopGoes("none", NoSession)
  /\ IF slot.turn = 0
     THEN board' = NoRow /\ slot' = IF ShowsIdle THEN IdleSlot ELSE slot
     ELSE UNCHANGED <<slot, board>>
  /\ UNCHANGED <<turnTask, ghost, strays, storeVars, eventVars, sending,
                 listed, harness, generations, talkVars, lifeVars>>

\* reset, refused while a turn runs.
ResetSession ==
  /\ "reset" \in budget.extras
  /\ slot.turn = 0 /\ record.session # NoSession
  /\ Records([record EXCEPT !.session = NoSession])
  /\ forgotten' = forgotten \cup {record.session.bg}
  /\ slot' = IF ShowsIdle THEN IdleSlot ELSE slot
  /\ board' = NoRow
  /\ UNCHANGED <<turnTask, ghost, strays, eventVars, commandVars, harness,
                 generations, talkVars, lifeVars>>
-----------------------------------------------------------------------------
(* The harness (external).                                                 *)

harnessFrame == <<taskVars, storeVars, kept, reading, commandVars, board,
                  generations, talkVars, lifeVars>>

Works(bg) == harness.work[bg] # 0 /\ bg \notin harness.waits
Event(kind, bg) == [kind |-> kind, session |-> bg, reply |-> harness.work[bg], at |-> 0]

\* It replies; the Stop hook may be missing, and the poll finds the reply.
HarnessReplies == \E bg \in harness.open :
  /\ HooksHandled
  /\ Works(bg)
  /\ harness' = [harness EXCEPT !.work[bg] = 0, !.replied = @ \cup {harness.work[bg]}]
  /\ flying' = flying \cup {Event("stop", bg)} \/ UNCHANGED flying
  /\ UNCHANGED harnessFrame

HarnessAsks == \E bg \in harness.open :
  /\ HooksHandled
  /\ Works(bg) /\ harness.asks < budget.asks
  /\ harness' = [harness EXCEPT !.waits = @ \cup {bg}, !.asks = @ + 1]
  /\ flying' = flying \cup {Event("prompt", bg)}
  /\ UNCHANGED harnessFrame

\* Answered in a terminal.
HarnessGoesOn == \E bg \in harness.waits :
  /\ HooksHandled
  /\ harness' = [harness EXCEPT !.waits = @ \ {bg}]
  /\ UNCHANGED <<flying, harnessFrame>>

HarnessWorksOnItsOwn == \E bg \in harness.open :
  /\ HooksHandled
  /\ harness.work[bg] = 0 /\ harness.own < budget.own
  /\ harness' = [harness EXCEPT !.own = @ + 1, !.work[bg] = MaxTurns + harness.own + 1]
  /\ UNCHANGED <<flying, harnessFrame>>
-----------------------------------------------------------------------------
(* The daemon dies: all is lost but agents.json and the harness.  The next *)
(* one watches a turn that was running again (start_background).           *)
DaemonDies ==
  /\ crashes < budget.crashes /\ crashes' = crashes + 1
  /\ record' = disk /\ writes' = <<>> /\ writeLost' = FALSE /\ UNCHANGED disk
  /\ ghost' = <<>> /\ strays' = {} /\ flying' = {} /\ reading' = {} /\ kept' = <<>>
  /\ sending' = NobodySends /\ listed' = "none"
  /\ StopGoes("none", NoSession)
  /\ IF disk.running
     THEN LET g == generations + 1 IN
          /\ generations < budget.turns /\ generations' = g
          /\ turnTask' = [NoTask EXCEPT !.at = "rewatch", !.says = disk.since,
                            !.ref = disk.session]
          /\ slot' = [turn |-> g, phase |-> "Working", ownWork |-> FALSE, polled |-> 0]
          /\ board' = TurnRow
     ELSE /\ slot' = [turn |-> 0, phase |-> "Idle", ownWork |-> FALSE, polled |-> 0]
          /\ turnTask' = NoTask /\ board' = NoRow /\ UNCHANGED generations
  /\ forgotten' = {} /\ ordered' = {}
  /\ UNCHANGED <<budget, harness, heard, lastEnded>>
-----------------------------------------------------------------------------
TurnsNext ==
  \/ Write \/ WriteFails
  \/ SendChecks \/ SendAsks \/ SendFindsOwnWork \/ StartTurn
  \/ LaunchRefused \/ LaunchFails \/ Launch \/ StrayLaunches \/ StrayReports
  \/ LearnsSession
  \/ WatchHook \/ WatchPoll \/ WatchFindsGone
  \/ WatchLostTrack
  \/ ApplyUpdate \/ FinishTurn \/ GhostRuns
  \/ HookArrives \/ HookWhileIdle \/ HookEndsOwnWork
  \/ ListIdle \/ ListingSeen
  \/ StopTurn \/ DriverStops \/ StopAsksIdle \/ StopIdleAnswered
  \/ StopIdleClears \/ ResetSession
  \/ HarnessReplies \/ HarnessAsks \/ HarnessGoesOn \/ HarnessWorksOnItsOwn
  \/ DaemonDies

(* The turn's task polls and applies what it learned, and the writer       *)
(* writes.  Nothing is assumed of the harness, its hooks and the user.     *)
TurnSteps == WatchPoll \/ WatchLostTrack \/ ApplyUpdate \/ FinishTurn
TurnsFair == WF_turnVars(TurnSteps) /\ WF_turnVars(Write)

TurnsSpec == TurnsInit /\ [][TurnsNext]_turnVars /\ TurnsFair
-----------------------------------------------------------------------------
(* Properties.                                                             *)

(* With nothing left to write agents.json holds the newest state, unless   *)
(* the write of just that failed: snapshots written out of order never     *)
(* leave an older one behind (AgentRuntime.save).                          *)
DiskIsNewest == writes = <<>> => disk = record \/ writeLost

(* A session the user let go (`--reset`, `--new`) never comes back: no     *)
(* late update, of a stopped turn or a replaced one, puts it in the record *)
(* again (apply_update's generation check, TurnUpdates.stop).              *)
ForgottenStays == record.session.bg # 0 => record.session.bg \notin forgotten

(* The overlay shows what the runtime knows: a turn, its wait, the         *)
(* session's own work, or nothing that still runs; whichever sections sent *)
(* the row's events, in whichever order.                                   *)
BoardAgrees ==
  IF slot.turn # 0 \/ ShowsIdle
  THEN Row = IF slot.phase = "NeedsYou" THEN "NeedsYou" ELSE "Working"
  ELSE Row \in {"None", "Ended"}

(* A reply is spoken once, whether its Stop or the poll came first, unless *)
(* a later turn ended before its late Stop was handled or the daemon was   *)
(* restarted, which both forget the reply (own_reply, finish_turn).        *)
ReplyOnce == \A r \in Answers : heard[r] = 2 => lastEnded > r \/ crashes > 0

(* While a turn runs, no kept hook event is one of its session's: those    *)
(* that came before its id was known have reached its driver, or were too  *)
(* old for it (forward_unclaimed).                                         *)
KeptIsForeign ==
  slot.turn # 0 /\ record.session.id # 0 => Of(kept, record.session.id) = <<>>

(* A turn does not outlive its work: once its session works no longer, the *)
(* turn ends, with or without a Stop hook, with or without a reply, and    *)
(* when a restart lost the turn's task or the session's id (watch, rewatch, *)
(* finish_turn).                                                           *)
TurnsEnd ==
  []<>~(slot.turn # 0 /\ HasLaunched /\ turnTask.ref.bg # 0
          /\ harness.work[turnTask.ref.bg] = 0)

(* A turn that works is never replaced: of two requests that both saw the  *)
(* agent free, the second finds the first one's turn when it looks again   *)
(* (start_turn's two sections).                                            *)
WorkIsNotCutOff ==
  [][slot.turn # 0 /\ slot.turn' \notin {0, slot.turn} /\ UNCHANGED crashes
       => slot.phase = "NeedsYou"]_turnVars
=============================================================================
