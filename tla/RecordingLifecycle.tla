------------------------- MODULE RecordingLifecycle -------------------------
(***************************************************************************)
(* What the recording daemon promises about each recording, whatever       *)
(* crashes, restarts or overlaps: how its status may change, that a        *)
(* transcript is only replaced for somebody who asked for it, and that no  *)
(* recording is left processing for ever.                                  *)
(***************************************************************************)
EXTENDS Naturals

CONSTANTS Recs

VARIABLES
  status,  \* of each recording, as the user sees it
  wanted   \* recordings somebody asked to transcribe again

lifeVars == <<status, wanted>>

Kept == {"done", "failed", "waiting"}

Init ==
  /\ status = [r \in Recs |-> "none"]
  /\ wanted = {}

Becomes(r, from, to) ==
  /\ status[r] \in from
  /\ status' = [status EXCEPT ![r] = to]

Begin(r)   == Becomes(r, {"none"}, "recording") /\ UNCHANGED wanted
Drop(r)    == Becomes(r, {"none", "recording"}, "gone")
Discard(r) == Drop(r) /\ UNCHANGED wanted
Stop(r) ==
  /\ \E to \in {"processing", "failed"} : Becomes(r, {"recording"}, to)
  /\ UNCHANGED wanted

\* An attempt ended, or there were too many.
Settle(r) ==
  /\ \E to \in Kept : Becomes(r, {"processing"}, to)
  /\ UNCHANGED wanted

\* The automatic retry of a recording that waits for the network.
Again(r)  == Becomes(r, {"waiting"}, "processing") /\ UNCHANGED wanted
GiveUp(r) == Becomes(r, {"waiting"}, "failed") /\ UNCHANGED wanted

Want(r) ==
  /\ status[r] \notin {"none", "gone"} /\ r \notin wanted
  /\ wanted' = wanted \cup {r}
  /\ UNCHANGED status
Unwant(r) == r \in wanted /\ wanted' = wanted \ {r} /\ UNCHANGED status
Redo(r) ==
  /\ r \in wanted
  /\ Becomes(r, Kept \cup {"recording", "processing"}, "processing")
  /\ wanted' = wanted \ {r}

\* One that is processing is a retry's that no worker took, in a shutdown.
Delete(r) ==
  /\ r \notin wanted
  /\ Becomes(r, Kept \cup {"processing"}, "gone")
  /\ UNCHANGED wanted

\* A crash forgets who asked; an exit finalizes the recording in progress.
Halt == wanted' = {} /\ UNCHANGED status
Interrupt(r) ==
  /\ Drop(r) \/ Becomes(r, {"recording"}, "processing")
  /\ wanted' = {}

Next ==
  \/ \E r \in Recs :
       \/ Begin(r) \/ Discard(r) \/ Stop(r) \/ Settle(r) \/ Again(r) \/ GiveUp(r)
       \/ Want(r) \/ Unwant(r) \/ Redo(r) \/ Delete(r) \/ Interrupt(r)
  \/ Halt

Spec ==
  /\ Init /\ [][Next]_lifeVars
  /\ \A r \in Recs : WF_lifeVars(Settle(r))
=============================================================================
