----------------------------- MODULE Selections -----------------------------
(***************************************************************************)
(* What is left of a queue from which some elements go, in the order they  *)
(* had (retain and its like): SelectSeq, with the set of those that stay   *)
(* in place of a test and a function a proof can unfold in place of the    *)
(* library's definition.                                                   *)
(***************************************************************************)
LOCAL INSTANCE Naturals
LOCAL INSTANCE Sequences

Keeping(q, those) ==
  LET upTo[i \in 0 .. Len(q)] ==
        IF i = 0 THEN <<>>
        ELSE IF q[i] \in those THEN Append(upTo[i - 1], q[i]) ELSE upTo[i - 1]
  IN  upTo[Len(q)]
=============================================================================
