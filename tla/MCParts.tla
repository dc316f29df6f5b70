------------------------------ MODULE MCParts ------------------------------
(***************************************************************************)
(* An instance of five components that share no state: the reply queue,    *)
(* an agent's turns, Claude's launches, the turns with a process of their  *)
(* own, and the realtime stream.  A behaviour is one of one component,     *)
(* `part`, with the others at rest; how large it may get is bounded below  *)
(* per component.  They are instances to check, not a composition.         *)
(***************************************************************************)
EXTENDS Parts

CONSTANTS reply, ack, notice, notice2, sender, sender2

VARIABLE part

partsVars == <<part, replyVars, turnVars, launchVars, processVars, streamVars>>

ReplyMix == {{reply, ack}, {notice, notice2}}

Calm == [turns |-> 2, own |-> 0, asks |-> 0, writes |-> 1, crashes |-> 0,
         extras |-> {}, senders |-> {sender}]
Budgets ==
  {[Calm EXCEPT !.extras = {"stop", "reset"}],
   [Calm EXCEPT !.turns = 1, !.own = 1, !.asks = 1, !.extras = {"stopIdle"}],
   [Calm EXCEPT !.own = 1, !.senders = {sender, sender2}],
   [Calm EXCEPT !.turns = 1, !.writes = 3, !.extras = {"writeFails", "launchFails", "reset"}],
   [Calm EXCEPT !.crashes = 1, !.writes = 2, !.extras = {"gone"}],
   [Calm EXCEPT !.asks = 1, !.extras = {"stopIdle"}]}

PartsInit ==
  /\ part \in {"replies", "turns", "launches", "processes", "stream"}
  /\ RepliesInit /\ TurnsInit /\ LaunchesInit /\ ProcessInit /\ StreamInit
  /\ part # "turns" => budget.crashes = 1
  /\ procs[0].at = "listed"
  /\ part # "stream" => vad /\ profile = "OpenAi"

RepliesStep ==
  /\ part = "replies" /\ RepliesNext
  /\ \E mix \in ReplyMix : asked' \subseteq mix
  /\ UNCHANGED <<part, turnVars, launchVars, processVars, streamVars>>
TurnsStep ==
  /\ part = "turns" /\ TurnsNext
  /\ UNCHANGED <<part, replyVars, launchVars, processVars, streamVars>>
LaunchesStep ==
  /\ part = "launches" /\ LaunchesNext
  /\ UNCHANGED <<part, replyVars, turnVars, processVars, streamVars>>
ProcessStep ==
  /\ part = "processes" /\ ProcessNext
  /\ deaths' > deaths => tries[MaxTries] = NoTry
  /\ deaths > 0 => stoppedRuns' = stoppedRuns
  /\ UNCHANGED <<part, replyVars, turnVars, launchVars, streamVars>>
StreamStep ==
  /\ part = "stream" /\ StreamNext
  /\ UNCHANGED <<part, replyVars, turnVars, launchVars, processVars>>

PartsNext == RepliesStep \/ TurnsStep \/ LaunchesStep \/ ProcessStep \/ StreamStep

(* Each component's fairness, asked of the behaviours that are of it. *)
PartsFair ==
  /\ WF_replyVars(part = "replies" /\ LoopSteps)
  /\ WF_replyVars(part = "replies" /\ LateStop)
  /\ WF_turnVars(part = "turns" /\ TurnSteps)
  /\ WF_turnVars(part = "turns" /\ Write)
  /\ WF_launchVars(part = "launches" /\ LaunchTask)
  /\ WF_launchVars(part = "launches" /\ StopTask)
  /\ WF_processVars(part = "processes" /\ ThreadSteps)
  /\ WF_processVars(part = "processes" /\ (HaltGets \/ HaltReturns))
  /\ WF_processVars(part = "processes" /\ GuardDrops)
  /\ WF_processVars(part = "processes" /\ DetachedEnds)
  /\ WF_processVars(part = "processes" /\ Dies)
  /\ WF_processVars(part = "processes" /\ Sweep)
  /\ WF_streamVars(part = "stream" /\ ReadMessage)
  /\ WF_streamVars(part = "stream" /\ TimesOut)
PartsSpec == PartsInit /\ [][PartsNext]_partsVars /\ PartsFair
=============================================================================
