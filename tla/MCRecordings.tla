---------------------------- MODULE MCRecordings ----------------------------
(* Small instances of the recording daemon for TLC.                        *)
EXTENDS Recordings, TLC

CONSTANTS r1, r2, t1, t2

QueueAsks  == {"start", "cancel", "retry", "name", "delete"}
EditAsks   == {"start", "cancel", "summarize", "name", "delete"}
RepairAsks == {"start", "retry"}
RenameAsks == {"start", "name", "summarize"}

Renamings == Permutations(Recs) \cup Permutations(Tasks)
=============================================================================
