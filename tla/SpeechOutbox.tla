---------------------------- MODULE SpeechOutbox ----------------------------
(***************************************************************************)
(* What the reply queue promises, without its loop, locks and wake-ups: an *)
(* outbox.  What agents have to say is said in the order it was asked for, *)
(* one at a time and once.  A recording may send the one being said back   *)
(* to the front; a user may cut it off, and with a cancel all that waits.  *)
(* Nothing else is lost but interims, which age, and a notice that says    *)
(* what an earlier one said.                                               *)
(***************************************************************************)
EXTENDS Selections, Sequences, SequencesExt

CONSTANTS Replies, Interims, Notices, Repeats, Nobody

VARIABLES
  line,         \* what waits, in order
  saying,       \* the one being said, or about to be
  told,         \* those said to their end
  raised        \* those ever asked for

outboxVars == <<line, saying, told, raised>>

Items == Replies \cup Interims \cup Notices
Repeated(u) == \E v \in raised : {u, v} \subseteq Repeats
Dropping(q, gone) == Keeping(q, Items \ gone)

Init == line = <<>> /\ saying = Nobody /\ told = {} /\ raised = {}

Joins(u) == \E gone \in SUBSET Interims :
  line' = Append(Dropping(line, IF u \in Replies THEN gone ELSE {}), u)
Replaces(u) == \E i \in DOMAIN line :
  line[i] \in Notices /\ u \in Notices /\ line' = ReplaceAt(line, i, u)

Ask == \E u \in Items \ raised :
  /\ raised' = raised \cup {u}
  /\ Joins(u) \/ Replaces(u) \/ (Repeated(u) /\ UNCHANGED line)
  /\ UNCHANGED <<saying, told>>

Age == /\ \E gone \in SUBSET Interims : line' = Dropping(line, gone)
       /\ UNCHANGED <<saying, told, raised>>

Say == \E gone \in SUBSET Interims :
  /\ saying = Nobody
  /\ Dropping(line, gone) # <<>>
  /\ saying' = Head(Dropping(line, gone))
  /\ line' = Tail(Dropping(line, gone))
  /\ UNCHANGED <<told, raised>>

End == /\ saying # Nobody /\ saying' = Nobody
       /\ told' = told \cup {saying}
       /\ UNCHANGED <<line, raised>>

CutOff == /\ saying # Nobody /\ saying' = Nobody
          /\ line' \in {line, <<>>}
          /\ UNCHANGED <<told, raised>>

\* Back to the front, the newer notice in its place if one waits; or dropped,
\* if it is an interim.
Newer(i) == saying \in Notices /\ line[i] \in Notices
SendBack ==
  /\ saying # Nobody /\ saying' = Nobody
  /\ \/ /\ ~\E i \in DOMAIN line : Newer(i)
        /\ line' = <<saying>> \o line
     \/ saying \in Interims /\ UNCHANGED line
     \/ \E i \in DOMAIN line : Newer(i) /\ line' = <<line[i]>> \o RemoveAt(line, i)
  /\ UNCHANGED <<told, raised>>

Next == Ask \/ Age \/ Say \/ End \/ CutOff \/ SendBack
Spec == Init /\ [][Next]_outboxVars
=============================================================================
