------------------------------- MODULE Parts -------------------------------
(***************************************************************************)
(* Five components that share no state: the reply queue, an agent's turns, *)
(* Claude's launches, the turns with a process of their own, and the       *)
(* realtime stream.                                                        *)
(***************************************************************************)
EXTENDS ReplyQueue, AgentTurns, ClaudeLaunches, ProcessTurns, RealtimeStream

(* The five components' state stays what it is declared to be: no kept     *)
(* event beyond the cap (UNCLAIMED_MAX), no attempt beyond                 *)
(* RESUME_ATTEMPTS, no turn without its task, and nothing looked up as     *)
(* typed that was not.                                                     *)
PartsTyped == RepliesTyped /\ TurnsTyped /\ LaunchesTyped /\ ProcessTyped /\ StreamTyped
=============================================================================
