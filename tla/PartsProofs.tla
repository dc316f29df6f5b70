---------------------------- MODULE PartsProofs ----------------------------
(***************************************************************************)
(* The types of the five parts together, from each one's theorem.          *)
(***************************************************************************)
EXTENDS Parts, AgentRuntimeProofs, AgentHarnessProofs, RealtimeStreamProofs

\* Whatever each of the five does beside the others: their state keeps its types.
THEOREM PartsKeepTypes ==
  RepliesSpec /\ TurnsSpec /\ LaunchesSpec /\ ProcessSpec /\ StreamSpec => []PartsTyped
<1>1. RepliesTyped /\ TurnsTyped /\ LaunchesTyped /\ ProcessTyped /\ StreamTyped => PartsTyped
  BY DEF PartsTyped
<1>2. QED
  BY <1>1, RepliesKeepTypes, TurnsKeepTypes, LaunchesKeepTypes, ProcessKeepsTypes,
     StreamKeepsTypes, PTL
=============================================================================
