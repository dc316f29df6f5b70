-------------------------- MODULE AgentRepliesProofs --------------------------
(***************************************************************************)
(* An agent's reply is said once (own_reply and finish_turn in             *)
(* daemon/agent.rs), for any numbers of turns, of replies of a session's   *)
(* own and of kept events.  A reply can reach the user along several ways: *)
(* its Stop event, handled while the session is idle, by the turn's driver *)
(* or after it was kept for a session without an id, and the poll, which   *)
(* finds it when the Stop is late or missing.  That it is said once is an  *)
(* invariant of three parts.                                               *)
(*  - Where replies come from (WhereRepliesCome): turns are numbered in    *)
(*    order, one event is on its way at a time, a session works for one    *)
(*    reply that is not out, and what an event or an update tells of is.   *)
(*  - A reply is in one place at most (InOnePlace), counted over the       *)
(*    updates, the driver's events, the kept ones, the one on its way and  *)
(*    the outcome.                                                         *)
(*  - What was said already comes again only as the Stop of the turn that  *)
(*    ended on a poll, which own_reply knows and which is the first to     *)
(*    come (PolledIsFirst), or of an older turn (HeardRight).              *)
(* A step of the daemon is of one of some twenty kinds, which name what it *)
(* does to this; each lemma goes by kinds.                                 *)
(***************************************************************************)
EXTENDS AgentRuntimeProofs
-----------------------------------------------------------------------------
(* How many of a queue's elements are of a set, and which of them is first. *)
N(q, T) == Len(Keeping(q, T))
First(q, T, A) == \A i \in 1 .. Len(q) : q[i] \in T => \A j \in 1 .. i - 1 : q[j] \notin A

\* It is a count, nothing of an empty queue.
LEMMA Counted ==
  ASSUME NEW X, NEW q \in Seq(X), NEW T
  PROVE  N(q, T) \in Nat /\ N(<<>>, T) = 0
BY KeepingIsSeq, LenProperties, KeepingOfNone, EmptySeq DEF N

\* One more.
LEMMA CountedAppended ==
  ASSUME NEW X, NEW q \in Seq(X), NEW x \in X, NEW T
  PROVE  N(Append(q, x), T) = N(q, T) + (IF x \in T THEN 1 ELSE 0)
<1>1. Keeping(q, T) \in Seq(X) BY KeepingIsSeq
<1>2. N(q, T) \in Nat /\ Len(Append(Keeping(q, T), x)) = Len(Keeping(q, T)) + 1
  BY <1>1, Counted, AppendProperties
<1> QED BY <1>2, KeepingAppend DEF N

\* Those of two queues one after the other.
LEMMA CountedConcat ==
  ASSUME NEW X, NEW p \in Seq(X), NEW q \in Seq(X), NEW T
  PROVE  N(p \o q, T) = N(p, T) + N(q, T)
<1>1. Keeping(p, T) \in Seq(X) /\ Keeping(q, T) \in Seq(X) BY KeepingIsSeq
<1>2. Keeping(p \o q, T) = Keeping(p, T) \o Keeping(q, T) BY KeepingConcat
<1> QED BY <1>1, <1>2, ConcatProperties DEF N

\* The first goes.
LEMMA CountedTail ==
  ASSUME NEW X, NEW q \in Seq(X), q # <<>>, NEW T
  PROVE  N(q, T) = N(Tail(q), T) + (IF Head(q) \in T THEN 1 ELSE 0)
<1>1. Head(q) \in X /\ Tail(q) \in Seq(X) BY HeadTailProperties
<1>2. q = <<Head(q)>> \o Tail(q)
  <2>1. 1 \in 1 .. Len(q) /\ Head(q) = q[1] /\ Tail(q) = SubSeq(q, 2, Len(q))
    BY EmptySeq, LenProperties
  <2>2. SubSeq(q, 1, Len(q)) = <<q[1]>> \o SubSeq(q, 1 + 1, Len(q))
        /\ q = SubSeq(q, 1, 1 - 1) \o SubSeq(q, 1, Len(q))
        /\ SubSeq(q, 1, 1 - 1) \in Seq(X) /\ Len(SubSeq(q, 1, 1 - 1)) = 1 - 1
        /\ SubSeq(q, 1, Len(q)) \in Seq(X)
    BY <2>1, PartsOfSeq
  <2>3. SubSeq(q, 1, 1 - 1) = <<>> BY <2>2, EmptySeq
  <2>4. <<>> \o SubSeq(q, 1, Len(q)) = SubSeq(q, 1, Len(q)) BY <2>2, ConcatEmptySeq
  <2>5. q = SubSeq(q, 1, Len(q)) BY <2>2, <2>3, <2>4
  <2> QED BY <2>1, <2>2, <2>5
<1>3. /\ Head(q) \in T => Keeping(q, T) = <<Head(q)>> \o Keeping(Tail(q), T)
      /\ Head(q) \notin T => Keeping(q, T) = Keeping(Tail(q), T)
  <2>1. \A x \in X, t \in Seq(X) :
          /\ x \in T => Keeping(<<x>> \o t, T) = <<x>> \o Keeping(t, T)
          /\ x \notin T => Keeping(<<x>> \o t, T) = Keeping(t, T)
    BY KeepingPrefixed
  <2> QED BY Zenon, <1>1, <1>2, <2>1
<1>4. Keeping(Tail(q), T) \in Seq(X) BY <1>1, KeepingIsSeq
<1>5. Len(<<Head(q)>> \o Keeping(Tail(q), T)) = Len(Keeping(Tail(q), T)) + 1
  BY <1>1, <1>4, RangeOfPrefixed
<1>6. Len(Keeping(Tail(q), T)) \in Nat BY <1>4, LenProperties
<1> QED BY <1>3, <1>5, <1>6 DEF N

\* Of those that are kept.
LEMMA CountedKept ==
  ASSUME NEW X, NEW q \in Seq(X), NEW S, NEW T
  PROVE  N(Keeping(q, S), T) = N(q, S \cap T) /\ N(q, S \cap T) <= N(q, T)
<1>1. N(Keeping(q, S), T) = N(q, S \cap T) BY KeepingTwice DEF N
<1>2. Keeping(Keeping(q, T), S) = Keeping(q, T \cap S) BY KeepingTwice
<1>3. T \cap S = S \cap T OBVIOUS
<1>4. Keeping(q, T) \in Seq(X) BY KeepingIsSeq
<1>5. Len(Keeping(Keeping(q, T), S)) <= Len(Keeping(q, T)) BY <1>4, KeepingShortens
<1> QED BY <1>1, <1>2, <1>3, <1>5 DEF N

\* Of a smaller set there are fewer.
LEMMA CountedMonotone ==
  ASSUME NEW X, NEW q \in Seq(X), NEW S, NEW T, S \subseteq T
  PROVE  N(q, S) <= N(q, T)
<1>1. S \cap T = S OBVIOUS
<1> QED BY <1>1, CountedKept

\* The last ones.
LEMMA CountedRest ==
  ASSUME NEW X, NEW q \in Seq(X), NEW i \in 1 .. Len(q) + 1, NEW T
  PROVE  SubSeq(q, i, Len(q)) \in Seq(X) /\ N(SubSeq(q, i, Len(q)), T) <= N(q, T)
<1>0. Len(q) \in Nat BY LenProperties
<1>1. CASE i \in 1 .. Len(q)
  <2> DEFINE p == SubSeq(q, 1, i - 1)
             r == SubSeq(q, i, Len(q))
  <2>1. p \in Seq(X) /\ r \in Seq(X) /\ q = p \o r
    BY <1>1, PartsOfSeq
  <2> HIDE DEF p
  <2>2. SubSeq(q, i, Len(q)) = r OBVIOUS
  <2> HIDE DEF r
  <2>3. N(p, T) \in Nat /\ N(r, T) \in Nat
    BY <2>1, Counted
  <2>4. N(q, T) = N(p, T) + N(r, T)
    <3>1. N(p \o r, T) = N(p, T) + N(r, T) BY <2>1, CountedConcat
    <3> QED BY <2>1, <3>1
  <2>5. N(r, T) <= N(q, T) BY <2>3, <2>4
  <2> QED BY Zenon, <2>1, <2>2, <2>5
<1>2. CASE i = Len(q) + 1
  <2>1. i \in Int /\ Len(q) \in Int /\ i > Len(q) /\ \A k \in i .. Len(q) : q[k] \in X
    BY <1>0, <1>2
  <2>2. SubSeq(q, i, Len(q)) \in Seq(X) /\ Len(SubSeq(q, i, Len(q))) = 0
    BY <2>1, SubSeqProperties
  <2>3. SubSeq(q, i, Len(q)) = <<>> BY <2>2, EmptySeq
  <2>4. N(<<>>, T) = 0 /\ N(q, T) \in Nat BY Counted
  <2> QED BY <2>2, <2>3, <2>4
<1> QED BY <1>0, <1>1, <1>2

\* There are none if none is in the queue, and only then.
LEMMA CountedNone ==
  ASSUME NEW X, NEW q \in Seq(X), NEW T
  PROVE  (N(q, T) = 0) <=> (\A i \in 1 .. Len(q) : q[i] \notin T)
<1>1. Keeping(q, T) \in Seq(X) BY KeepingIsSeq
<1>2. Range(Keeping(q, T)) = Range(q) \cap T BY KeepingRange
<1>3. Range(q) = {q[i] : i \in 1 .. Len(q)} BY LenProperties DEF Range
<1>4. CASE N(q, T) = 0
  <2>1. Keeping(q, T) = <<>> BY <1>1, <1>4, EmptySeq DEF N
  <2>2. Range(<<>>) = {} BY DEF Range
  <2> QED BY <1>2, <1>3, <1>4, <2>1, <2>2
<1>5. CASE \A i \in 1 .. Len(q) : q[i] \notin T
  <2>1. Range(q) \cap T = {} BY <1>3, <1>5
  <2> QED BY <1>5, <2>1, KeepingNothing, EmptySeq DEF N
<1> QED BY <1>4, <1>5

\* The first one stays first behind one more, unless that is of the set too.
LEMMA FirstAppended ==
  ASSUME NEW X, NEW q \in Seq(X), NEW x \in X, NEW T, NEW A, First(q, T, A),
         x \in T => N(q, A) = 0
  PROVE  First(Append(q, x), T, A)
<1>1. /\ Len(Append(q, x)) = Len(q) + 1 /\ Len(q) \in Nat
      /\ \A i \in 1 .. Len(q) : Append(q, x)[i] = q[i]
      /\ Append(q, x)[Len(q) + 1] = x
  BY AppendProperties, LenProperties
<1>2. x \in T => \A j \in 1 .. Len(q) : q[j] \notin A BY CountedNone
<1> QED BY <1>1, <1>2 DEF First

\* The same for a queue behind it.
LEMMA FirstConcat ==
  ASSUME NEW X, NEW p \in Seq(X), NEW q \in Seq(X), NEW T, NEW A, First(p, T, A),
         N(q, T) = 0
  PROVE  First(p \o q, T, A)
<1>1. /\ Len(p \o q) = Len(p) + Len(q) /\ Len(p) \in Nat /\ Len(q) \in Nat
      /\ \A i \in 1 .. Len(p) + Len(q) :
            (p \o q)[i] = IF i <= Len(p) THEN p[i] ELSE q[i - Len(p)]
  BY ConcatProperties, LenProperties
<1>2. \A i \in 1 .. Len(q) : q[i] \notin T BY CountedNone
<1>3. ASSUME NEW i \in 1 .. Len(p) + Len(q), (p \o q)[i] \in T
      PROVE  i \in 1 .. Len(p) /\ p[i] \in T
  <2>1. CASE i <= Len(p) BY <1>1, <1>3, <2>1
  <2>2. CASE i > Len(p)
    <3>1. i - Len(p) \in 1 .. Len(q) /\ (p \o q)[i] = q[i - Len(p)] BY <1>1, <2>2
    <3> QED BY <1>2, <1>3, <3>1
  <2> QED BY <1>1, <2>1, <2>2
<1> QED BY <1>1, <1>3 DEF First

\* It stays first when another goes, and is the first of all that is of the set.
LEMMA FirstTail ==
  ASSUME NEW X, NEW q \in Seq(X), q # <<>>, NEW T, NEW A, First(q, T, A)
  PROVE  /\ First(Tail(q), T, A)
         /\ Head(q) \in A /\ Head(q) \notin T => N(q, T) = 0
<1>1. /\ Len(q) \in Nat \ {0} /\ Head(q) = q[1]
      /\ Len(Tail(q)) = Len(q) - 1 /\ \A i \in 1 .. Len(q) - 1 : Tail(q)[i] = q[i + 1]
  BY HeadTailProperties, EmptySeq, LenProperties
<1>2. First(Tail(q), T, A)
  <2> SUFFICES ASSUME NEW i \in 1 .. Len(q) - 1, Tail(q)[i] \in T,
                      NEW j \in 1 .. i - 1
               PROVE  Tail(q)[j] \notin A
    BY <1>1 DEF First
  <2>1. i + 1 \in 1 .. Len(q) /\ j + 1 \in 1 .. (i + 1) - 1 /\ j \in 1 .. Len(q) - 1
    BY <1>1
  <2>2. q[i + 1] \in T BY <1>1
  <2>3. q[j + 1] \notin A BY <2>1, <2>2 DEF First
  <2> QED BY <1>1, <2>1, <2>3
<1>3. ASSUME q[1] \in A, q[1] \notin T PROVE \A i \in 1 .. Len(q) : q[i] \notin T
  BY <1>1, <1>3 DEF First
<1> QED BY <1>1, <1>2, <1>3, CountedNone

-----------------------------------------------------------------------------
(* Where a reply may still be said from: an update of the turn's task, a   *)
(* Stop event given to it, one kept that the turn's session may yet claim, *)
(* one on its way, and the outcome of the task.                            *)
AllStops == {e \in HookEvents : e.kind = "stop"}
Stops(r) == {e \in AllStops : e.reply = r}
Late(r)  == {e \in Stops(r) : e.session = slot.turn}
AllSaid  == {u \in Updates : u.kind = "reply"}
Said(r)  == {u \in AllSaid : u.reply = r}
OnTheWay == flying \cup reading

InFlight(r) == \E e \in OnTheWay : e \in Stops(r)
OutIs(r) == turnTask.out = "reply" /\ turnTask.outReply = r
InUpdates(r)    == N(turnTask.updates, Said(r))
InHooks(r)    == N(turnTask.hooks, Stops(r))
InKept(r) == N(kept, Late(r))
Tokens(r) == InUpdates(r) + InHooks(r) + InKept(r)
             + (IF InFlight(r) THEN 1 ELSE 0) + (IF OutIs(r) THEN 1 ELSE 0)

\* The turns are numbered in order, and so are those that end; the reply of
\* one that ended on a poll is remembered by its number.
TurnNumbers ==
  /\ slot.turn \in {0, generations} /\ lastEnded \in 0 .. generations
  /\ slot.turn # 0 => lastEnded < slot.turn /\ turnTask.says = slot.turn
  /\ slot.polled \in {0, lastEnded} /\ (slot.polled # 0 => slot.polled \in harness.replied)
  /\ turnTask.at # "rewatch"
  /\ turnTask.at = "none" => turnTask = NoTask
  /\ turnTask.at = "launch" => turnTask.updates = <<>> /\ turnTask.out \notin {"polled", "reply"}
  /\ turnTask.out = "polled" => turnTask.outReply = slot.turn /\ slot.turn \in harness.replied

\* One event is on its way at a time, and none is handled for the idle
\* session once a turn of it has launched.
OneOnTheWay ==
  /\ \A e, f \in OnTheWay : e = f
  /\ flying = {} \/ reading = {}
  /\ reading # {} => turnTask.at \in {"none", "launch"} /\ turnTask.hooks = <<>>

\* A session nobody launched, a reply nobody works for.
Unused(g) == /\ g \notin harness.open /\ g \notin harness.replied
             /\ \A b \in Turns : harness.work[b] # g
RefOpen(ref) == ref.bg = 0 \/ ref.bg \in harness.open
NewIsUnused ==
  /\ harness.open \subseteq 1 .. generations
  /\ \A g \in Turns : g > generations => Unused(g)
  /\ turnTask.at = "launch" => Unused(slot.turn)
  /\ \A v \in Answers : v > MaxTurns + harness.own =>
       v \notin harness.replied /\ \A b \in Turns : harness.work[b] # v

\* A launch that outlived its turn is of a turn gone for good, and starts it
\* once.
StraysApart ==
  /\ \A l \in strays : /\ l.gen <= generations /\ l.gen # slot.turn
                       /\ l.ref.bg <= l.gen /\ RefOpen(l.ref)
                       /\ ~l.started => Unused(l.gen)
  /\ \A l, m \in strays : l.gen = m.gen => l = m

\* A session works for one reply that is not out yet, and no other session
\* works for it.
WorkIsNew ==
  \A b \in Turns : harness.work[b] # 0 =>
    /\ b \in harness.open /\ harness.work[b] \notin harness.replied
    /\ harness.work[b] <= MaxTurns => b <= harness.work[b] /\ harness.work[b] <= generations
    /\ \A c \in Turns : harness.work[c] = harness.work[b] => c = b

\* What the record, the task and its updates call a session was launched;
\* an update brings in the turn's own session, or the record's.
RefsAreOpen ==
  /\ RefOpen(record.session) /\ RefOpen(turnTask.ref)
  /\ \A i \in 1 .. Len(turnTask.updates) : RefOpen(turnTask.updates[i].ref)
  /\ turnTask.at = "launch" => turnTask.ref = record.session
  /\ turnTask.at = "watch" /\ turnTask.ref.id = 0 => turnTask.ref.bg \in {0, slot.turn}
  /\ \A i \in 1 .. Len(turnTask.updates) :
       LET u == turnTask.updates[i] IN
       u.kind = "session" /\ u.ref.id \notin {0, slot.turn} => i = 1 /\ u.ref = record.session

\* An event is of a session that was launched and tells of a reply that is
\* out; one of the turn's own came after its launch.
OfReply(e) ==
  /\ e.session \in harness.open
  /\ e.kind = "stop" => e.reply \in harness.replied /\ (e.reply <= MaxTurns => e.session <= e.reply)
OfTurn(e) == slot.turn # 0 /\ (e.session = slot.turn \/ (e.kind = "stop" /\ e.reply = slot.turn))
EventsTell ==
  /\ \A e \in OnTheWay : OfReply(e)
  /\ \A e \in Range(turnTask.hooks) : OfReply(e) /\ (OfTurn(e) => e.at > 2 * slot.turn)
  /\ \A e \in Range(kept) : /\ OfReply(e) /\ e.at <= 2 * generations + 1
                            /\ OfTurn(e) => e.at > 2 * slot.turn
RepliesAreOut ==
  /\ \A u \in Range(turnTask.updates) :
       u.kind = "reply" => u.reply \in harness.replied /\ u.reply # slot.turn
  /\ turnTask.out = "reply" => turnTask.outReply \in harness.replied
  /\ \A r \in Answers : heard[r] > 0 => r \in harness.replied

\* A reply is in one place at most.
InOnePlace == \A r \in Answers : Tokens(r) <= 1

\* A reply said already is still somewhere only as the late Stop of a turn
\* that is over: one that ended on a poll, or one before the last that ended.
Again(r) == r <= MaxTurns /\ (slot.polled = r \/ lastEnded > r)
HeardRight ==
  /\ slot.turn # 0 => heard[slot.turn] = 0
  /\ \A r \in Answers : heard[r] # 0 =>
       /\ InFlight(r) \/ InUpdates(r) > 0 \/ InHooks(r) > 0 => Again(r)
       /\ InKept(r) = 0
       /\ OutIs(r) => r <= MaxTurns
       /\ heard[r] = 2 => r <= MaxTurns /\ lastEnded > r

\* The late Stop of a turn that ended on a poll is said before any other
\* reply the session has on its way.
PolledIsFirst ==
  slot.polled # 0 => LET p == slot.polled IN
    /\ InFlight(p) => turnTask.at \in {"none", "launch"} /\ turnTask.hooks = <<>>
    /\ First(turnTask.hooks, Stops(p), AllStops)
    /\ First(turnTask.updates, Said(p), AllSaid)
    /\ InHooks(p) > 0 => N(turnTask.updates, AllSaid) = 0

WhereRepliesCome == TurnNumbers /\ OneOnTheWay /\ NewIsUnused /\ StraysApart /\ WorkIsNew
                    /\ RefsAreOpen /\ EventsTell /\ RepliesAreOut
SpokenInv == WhereRepliesCome /\ InOnePlace /\ HeardRight /\ PolledIsFirst
-----------------------------------------------------------------------------
(* What a step does to where replies come from.                            *)
TurnStays  == slot'.turn = slot.turn /\ slot'.polled = slot.polled
SessionStays == record'.session = record.session
EventsStay == UNCHANGED <<kept, flying, reading>>
TalkStays  == UNCHANGED <<heard, lastEnded>>
OnlyTask   == TurnStays /\ SessionStays /\ EventsStay /\ TalkStays /\ UNCHANGED generations
TaskBecomes(at, ref, out, reply, updates, hooks) ==
  /\ turnTask'.at = at /\ turnTask'.says = turnTask.says /\ turnTask'.ref = ref
  /\ turnTask'.out = out /\ turnTask'.outReply = reply
  /\ turnTask'.updates = updates /\ turnTask'.hooks = hooks
LeavesLaunch ==
  strays' = strays \cup (IF turnTask.at = "launch"
                         THEN {[gen |-> slot.turn, ref |-> turnTask.ref, started |-> FALSE]}
                         ELSE {})

\* Nothing, but that an event may be handled, or the session let go.
Rests ==
  /\ TurnStays /\ TalkStays /\ reading' \subseteq reading
  /\ UNCHANGED <<turnTask, strays, harness, kept, flying, generations>>
  /\ SessionStays \/ (slot.turn = 0 /\ record'.session = NoSession)

\* A turn starts, with none running or in place of one.
Begins(ref) ==
  /\ ref \in {record.session, turnTask.ref}
  /\ generations + 1 \in Turns /\ generations' = generations + 1
  /\ slot'.turn = generations + 1 /\ slot'.polled = slot.polled
  /\ turnTask' = [NoTask EXCEPT !.at = "launch", !.says = generations + 1, !.ref = ref,
                    !.hooks = NotBefore(Forwarded(ref), generations + 1)]
  /\ record'.session = ref /\ kept' = KeptAfter(ref)
  /\ LeavesLaunch /\ TalkStays /\ UNCHANGED <<flying, reading, harness>>

\* A turn ends by itself, or is stopped.
Finishes ==
  /\ slot.turn # 0 /\ turnTask.out # "none" /\ turnTask.updates = <<>> /\ turnTask' = NoTask
  /\ slot'.turn = 0 /\ slot'.polled = IF turnTask.out = "polled" THEN turnTask.outReply ELSE 0
  /\ IF turnTask.out \in {"reply", "polled"} THEN Delivers(turnTask.outReply)
                                             ELSE UNCHANGED heard
  /\ lastEnded' = turnTask.says /\ SessionStays /\ EventsStay
  /\ UNCHANGED <<strays, harness, generations>>
IsStopped ==
  /\ slot.turn # 0 /\ slot'.turn = 0 /\ slot'.polled = slot.polled /\ turnTask' = NoTask
  /\ record'.session \in {record.session, turnTask.ref}
  /\ LeavesLaunch /\ EventsStay /\ TalkStays /\ UNCHANGED <<harness, generations>>

\* The driver comes to an outcome, tells of a wait, learns the session's id
\* or that it is gone, and takes a hook event.
Quits ==
  /\ OnlyTask /\ UNCHANGED <<strays, harness>>
  /\ turnTask.at # "none" /\ turnTask.out = "none"
  /\ \E out, reply :
       /\ TaskBecomes(turnTask.at, turnTask.ref, out, reply, turnTask.updates, turnTask.hooks)
       /\ \/ out \in {"busy", "failed"}
          \/ /\ out = "polled" /\ turnTask.at = "watch"
             /\ reply = slot.turn /\ slot.turn \in harness.replied
Watching == turnTask.at = "watch" /\ turnTask.out = "none"
Tells ==
  /\ OnlyTask /\ UNCHANGED <<strays, harness>> /\ Watching
  /\ \E kind \in {"waits", "works"} :
       TaskBecomes("watch", turnTask.ref, "none", turnTask.outReply,
         Append(turnTask.updates, Update(kind, NoSession, 0)), turnTask.hooks)
Names(ref, out) ==
  TaskBecomes("watch", ref, out, turnTask.outReply,
    Append(turnTask.updates, Update("session", ref, 0)), turnTask.hooks)
Learns ==
  /\ OnlyTask /\ UNCHANGED <<strays, harness>> /\ Watching
  /\ turnTask.ref.bg # 0 /\ turnTask.ref.id = 0
  /\ Names([bg |-> turnTask.ref.bg, id |-> turnTask.ref.bg], "none")
Loses == OnlyTask /\ UNCHANGED <<strays, harness>> /\ Watching /\ Names(NoSession, "failed")
TakesHook ==
  /\ OnlyTask /\ UNCHANGED <<strays, harness>> /\ Watching /\ turnTask.hooks # <<>>
  /\ LET e == Head(turnTask.hooks)
         took(out, reply, updates) ==
           TaskBecomes("watch", turnTask.ref, out, reply, updates, Tail(turnTask.hooks)) IN
     \/ /\ e.kind = "stop" /\ ~(e.at > 2 * slot.turn)
        /\ took("none", turnTask.outReply, Append(turnTask.updates, Update("reply", NoSession, e.reply)))
     \/ e.kind = "stop" /\ took("reply", e.reply, turnTask.updates)
     \/ /\ e.kind # "stop"
        /\ \/ took("none", turnTask.outReply, turnTask.updates)
           \/ took("none", turnTask.outReply, Append(turnTask.updates, Update("waits", NoSession, 0)))

\* A launch, of the turn or of one that is gone.
StartsWork ==
  /\ OnlyTask /\ UNCHANGED strays /\ turnTask.at = "launch" /\ turnTask.out = "none"
  /\ HooksHandled /\ Launches(slot.turn, turnTask.ref, slot.turn)
  /\ Names(IF turnTask.ref.id = 0 THEN [bg |-> slot.turn, id |-> 0] ELSE turnTask.ref, "none")
StartsLate ==
  /\ OnlyTask /\ UNCHANGED turnTask /\ HooksHandled
  /\ \E l \in strays : /\ ~l.started
                       /\ strays' = (strays \ {l}) \cup {[l EXCEPT !.started = TRUE]}
                       /\ Launches(l.gen, l.ref, l.gen)

\* The harness: its work ends, waits or goes on, gives a reply, starts anew.
HarnessAlone ==
  /\ TurnStays /\ SessionStays /\ TalkStays
  /\ UNCHANGED <<turnTask, kept, reading, generations>>
Calms ==
  /\ HarnessAlone /\ strays' \subseteq strays
  /\ harness'.open = harness.open /\ harness'.replied = harness.replied
  /\ harness'.own = harness.own
  /\ \A b \in Turns : harness'.work[b] \in {0, harness.work[b]}
  /\ \/ UNCHANGED flying
     \/ HooksHandled /\ \E b \in harness.open : flying' = {Event("prompt", b)}
GivesReply ==
  /\ HarnessAlone /\ UNCHANGED strays /\ HooksHandled
  /\ \E b \in harness.open :
       /\ harness.work[b] # 0
       /\ harness' = [harness EXCEPT !.work[b] = 0, !.replied = @ \cup {harness.work[b]}]
       /\ flying' = {Event("stop", b)} \/ flying' = {}
WorksAgain ==
  /\ HarnessAlone /\ UNCHANGED <<strays, flying>> /\ harness.own < MaxOwn
  /\ \E b \in harness.open :
       /\ harness.work[b] = 0
       /\ harness' = [harness EXCEPT !.own = @ + 1, !.work[b] = MaxTurns + harness.own + 1]

\* An update is applied: the session, the reply, or what only shows.
Takes(hooks) ==
  /\ slot.turn # 0 /\ turnTask.updates # <<>> /\ UNCHANGED <<strays, harness, generations, lastEnded>>
  /\ UNCHANGED <<flying, reading>> /\ slot'.turn = slot.turn
  /\ TaskBecomes(turnTask.at, turnTask.ref, turnTask.out, turnTask.outReply,
       Tail(turnTask.updates), hooks)
TakesSession ==
  LET u == Head(turnTask.updates) IN
  /\ Takes(turnTask.hooks \o NotBefore(Forwarded(u.ref), slot.turn)) /\ u.kind = "session"
  /\ record'.session = u.ref /\ kept' = KeptAfter(u.ref)
  /\ UNCHANGED heard /\ slot'.polled = slot.polled
SaysOf(r) ==
  slot'.polled = 0 /\ IF IsPolled(r) THEN UNCHANGED heard ELSE Delivers(r)
TakesReply ==
  LET u == Head(turnTask.updates) IN
  Takes(turnTask.hooks) /\ SessionStays /\ UNCHANGED kept /\ u.kind = "reply" /\ SaysOf(u.reply)
TakesNews ==
  /\ Takes(turnTask.hooks) /\ SessionStays /\ UNCHANGED kept
  /\ Head(turnTask.updates).kind \notin {"session", "reply"}
  /\ UNCHANGED heard /\ slot'.polled = slot.polled

\* A hook event arrives, or is handled for the idle session.
Got(e) == [e EXCEPT !.at = ReceivedAt]
Arrives(e) ==
  /\ TurnStays /\ SessionStays /\ TalkStays /\ UNCHANGED <<strays, harness, generations>>
  /\ e \in flying /\ flying' = flying \ {e}
ReachesTurn(e) ==
  /\ Arrives(e) /\ slot.turn # 0 /\ UNCHANGED <<kept, reading>>
  /\ turnTask' = [turnTask EXCEPT !.hooks = Append(@, Got(e))]
ReachesIdle(e) ==
  Arrives(e) /\ slot.turn = 0 /\ UNCHANGED <<turnTask, kept>> /\ reading' = reading \cup {Got(e)}
IsKept(e) ==
  /\ Arrives(e) /\ UNCHANGED <<turnTask, reading>>
  /\ \E from \in 1 .. Len(kept) + 1 : kept' = Keep(SubSeq(kept, from, Len(kept)), Got(e))
SaysIdle ==
  /\ SessionStays /\ UNCHANGED <<turnTask, strays, harness, kept, flying, generations, lastEnded>>
  /\ slot'.turn = slot.turn
  /\ \E e \in reading : e.kind = "stop" /\ reading' = reading \ {e} /\ SaysOf(e.reply)

Kinds ==
  \/ Rests \/ (\E ref : Begins(ref)) \/ Finishes \/ IsStopped
  \/ Quits \/ Tells \/ Learns \/ Loses \/ TakesHook
  \/ StartsWork \/ StartsLate \/ Calms \/ GivesReply \/ WorksAgain
  \/ TakesSession \/ TakesReply \/ TakesNews
  \/ (\E e : ReachesTurn(e)) \/ (\E e : ReachesIdle(e)) \/ (\E e : IsKept(e)) \/ SaysIdle

-----------------------------------------------------------------------------
(* Every step is of one of these kinds, as long as the daemon lives.       *)
\* Which steps change nothing of this.
LEMMA StepsRest ==
  ASSUME LetGoInv, TypesInv,
         \/ Write \/ WriteFails \/ SendChecks \/ SendAsks \/ SendFindsOwnWork
         \/ ListIdle \/ ListingSeen \/ StopAsksIdle \/ StopIdleAnswered \/ StopIdleClears
         \/ GhostRuns \/ HookEndsOwnWork \/ ResetSession \/ UNCHANGED turnVars
  PROVE  Rests
<1>0. slot \in Slots /\ record \in Snapshots /\ \A p, o : [slot EXCEPT !.phase = p, !.ownWork = o].turn = slot.turn
  BY DEF TypesInv, SlotTyped, FileTyped, Slots
<1> USE DEF Rests, TurnStays, TalkStays, SessionStays
<1>1. CASE Write \/ WriteFails
  BY <1>1 DEF Write, WriteFails, taskVars, eventVars, talkVars
<1>2. CASE SendChecks \/ SendAsks \/ ListIdle \/ StopAsksIdle
  BY <1>2 DEF SendChecks, SendAsks, ListIdle, StopAsksIdle, taskVars, storeVars, eventVars,
     talkVars
<1>3. CASE SendFindsOwnWork
  BY <1>0, <1>3 DEF SendFindsOwnWork, ShowsOwnWork, storeVars, eventVars, talkVars, Slots
<1>4. ASSUME EndsIdle(NoRow) \/ (\E phase : FollowsListing(phase))
      PROVE  TurnStays
  BY <1>0, <1>4 DEF FollowsListing, EndsIdle, IdleSlot, Slots
<1>5. CASE ListingSeen \/ StopIdleAnswered
  <2>1. (\E phase : FollowsListing(phase)) \/ UNCHANGED slot
    BY <1>5 DEF ListingSeen, StopIdleAnswered
  <2> QED BY <1>4, <1>5, <2>1 DEF ListingSeen, StopIdleAnswered, storeVars, eventVars, talkVars
<1>6. CASE StopIdleClears
  BY <1>0, <1>6 DEF StopIdleClears, IdleSlot, storeVars, eventVars, talkVars, Slots
<1>7. CASE GhostRuns
  BY <1>7, GhostOnlyGoes DEF GhostRuns
<1>8. CASE HookEndsOwnWork
  BY <1>4, <1>8 DEF HookEndsOwnWork, storeVars, talkVars
<1>9. CASE ResetSession
  <2>1. record'.session = NoSession BY <1>0, <1>9 DEF ResetSession, Records, Snapshots
  <2> QED BY <1>0, <1>9, <2>1 DEF ResetSession, IdleSlot, eventVars, talkVars, Slots
<1>10. CASE UNCHANGED turnVars
  BY <1>10 DEF turnVars, taskVars, storeVars, eventVars, talkVars
<1> QED BY <1>1, <1>2, <1>3, <1>5, <1>6, <1>7, <1>8, <1>9, <1>10

\* What becomes of the turn's task in the driver's steps.
LEMMA DriversKinds ==
  ASSUME TypesInv, TurnNumbers,
         \/ LaunchRefused \/ LaunchFails \/ Launch \/ LearnsSession \/ WatchHook \/ WatchPoll
         \/ WatchFindsGone \/ WatchLostTrack
  PROVE  Quits \/ Tells \/ Learns \/ Loses \/ TakesHook \/ StartsWork
<1>0. /\ turnTask \in Tasks /\ turnTask.at # "rewatch"
      /\ turnTask.at # "none" => turnTask.says = slot.turn
      /\ turnTask.ref \in SessionRefs
  BY DEF TypesInv, TaskTyped, TurnNumbers, Tasks
<1>1. OnlyTask
  <2>1. UNCHANGED driverFrame BY DriverKeepsTask
  <2> QED BY <2>1 DEF driverFrame, storeVars, eventVars, talkVars, OnlyTask, TurnStays,
        SessionStays, EventsStay, TalkStays
<1>2. CASE LaunchRefused \/ LaunchFails \/ WatchLostTrack
  BY <1>0, <1>1, <1>2 DEF LaunchRefused, LaunchFails, WatchLostTrack, Driving, Ends, Quits,
     TaskBecomes, Tasks
<1>3. CASE Launch
  <2> DEFINE ref == IF turnTask.ref.id = 0 THEN [bg |-> slot.turn, id |-> 0] ELSE turnTask.ref
  <2>1. /\ turnTask.at = "launch" /\ turnTask.out = "none" /\ HooksHandled /\ UNCHANGED strays
        /\ Launches(slot.turn, turnTask.ref, slot.turn)
        /\ turnTask' = [turnTask EXCEPT !.at = "watch", !.ref = ref,
                          !.updates = Append(@, Update("session", ref, 0))]
    BY <1>3 DEF Launch, Driving
  <2> HIDE DEF ref
  <2>2. Names(ref, "none") BY <1>0, <2>1 DEF Names, TaskBecomes, Tasks
  <2> USE DEF ref
  <2> QED BY <1>1, <2>1, <2>2 DEF StartsWork
<1>4. CASE LearnsSession
  <2> DEFINE ref == [turnTask.ref EXCEPT !.id = turnTask.ref.bg]
  <2>1. /\ Watching /\ UNCHANGED <<strays, harness>> /\ turnTask.ref.bg # 0 /\ turnTask.ref.id = 0
        /\ turnTask' = [turnTask EXCEPT !.ref = ref,
                          !.updates = Append(@, Update("session", ref, 0))]
    BY <1>0, <1>4 DEF LearnsSession, Watching
  <2>2. ref = [bg |-> turnTask.ref.bg, id |-> turnTask.ref.bg] BY <1>0 DEF SessionRefs
  <2> HIDE DEF ref
  <2>3. Names(ref, "none") BY <1>0, <2>1 DEF Names, TaskBecomes, Tasks, Watching
  <2> QED BY <1>1, <2>1, <2>2, <2>3 DEF Learns
<1>5. CASE WatchFindsGone
  <2>1. Watching /\ UNCHANGED <<strays, harness>> BY <1>0, <1>5 DEF WatchFindsGone, Watching
  <2>2. Names(NoSession, "failed")
    BY <1>0, <1>5, <2>1 DEF WatchFindsGone, Names, TaskBecomes, Tasks, Watching
  <2> QED BY <1>1, <2>1, <2>2 DEF Loses
<1>6. CASE WatchPoll
  <2>1. Watching /\ UNCHANGED <<strays, harness>> BY <1>0, <1>6 DEF WatchPoll, Watching
  <2>2. \/ Ends("failed", 0)
        \/ Ends("polled", turnTask.says) /\ turnTask.says \in harness.replied
        \/ \E kind \in {"waits", "works"}, waits \in BOOLEAN : turnTask' =
             [turnTask EXCEPT !.waits = waits,
                              !.updates = Append(@, Update(kind, NoSession, 0))]
    BY <1>6 DEF WatchPoll
  <2>3. CASE Ends("failed", 0)
    BY <1>0, <1>1, <2>1, <2>3 DEF Ends, Quits, TaskBecomes, Watching, Tasks
  <2>4. CASE Ends("polled", turnTask.says) /\ turnTask.says \in harness.replied
    BY <1>0, <1>1, <2>1, <2>4 DEF Ends, Quits, TaskBecomes, Watching, Tasks
  <2>5. CASE \E kind \in {"waits", "works"}, waits \in BOOLEAN : turnTask' =
               [turnTask EXCEPT !.waits = waits,
                                !.updates = Append(@, Update(kind, NoSession, 0))]
    BY <1>0, <1>1, <2>1, <2>5 DEF Tells, TaskBecomes, Watching, Tasks
  <2> QED BY <2>2, <2>3, <2>4, <2>5
<1>7. CASE WatchHook
  <2> DEFINE e == Head(turnTask.hooks)
             rest == [turnTask EXCEPT !.hooks = Tail(@)]
  <2>1. Watching /\ UNCHANGED <<strays, harness>> /\ turnTask.hooks # <<>>
    BY <1>0, <1>7 DEF WatchHook, Watching
  <2>2. /\ rest.at = "watch" /\ rest.says = turnTask.says /\ rest.ref = turnTask.ref
        /\ rest.out = "none" /\ rest.outReply = turnTask.outReply
        /\ rest.updates = turnTask.updates /\ rest.hooks = Tail(turnTask.hooks)
        /\ DOMAIN rest = {"at", "says", "ref", "out", "outReply", "updates", "hooks", "waits"}
    BY <1>0, <2>1 DEF Watching, Tasks
  <2>3. \/ /\ ~(e.at > 2 * slot.turn) /\ e.kind = "stop"
           /\ turnTask' = [rest EXCEPT !.updates = Append(@, Update("reply", NoSession, e.reply))]
        \/ /\ e.kind = "stop"
           /\ turnTask' = [rest EXCEPT !.out = "reply", !.outReply = e.reply]
        \/ /\ e.kind # "stop"
           /\ turnTask' = [rest EXCEPT !.waits = TRUE,
                             !.updates = Append(@, Update("waits", NoSession, 0))]
        \/ e.kind # "stop" /\ turnTask' = rest
    BY <1>0, <1>7 DEF WatchHook, IsCurrent
  <2> HIDE DEF rest, e
  <2>4. \/ /\ e.kind = "stop" /\ ~(e.at > 2 * slot.turn)
           /\ TaskBecomes("watch", turnTask.ref, "none", turnTask.outReply,
                Append(turnTask.updates, Update("reply", NoSession, e.reply)), Tail(turnTask.hooks))
        \/ /\ e.kind = "stop"
           /\ TaskBecomes("watch", turnTask.ref, "reply", e.reply, turnTask.updates,
                Tail(turnTask.hooks))
        \/ /\ e.kind # "stop"
           /\ TaskBecomes("watch", turnTask.ref, "none", turnTask.outReply,
                Append(turnTask.updates, Update("waits", NoSession, 0)), Tail(turnTask.hooks))
        \/ /\ e.kind # "stop"
           /\ TaskBecomes("watch", turnTask.ref, "none", turnTask.outReply,
                turnTask.updates, Tail(turnTask.hooks))
    BY <2>2, <2>3 DEF TaskBecomes
  <2> USE DEF e
  <2> QED BY <1>1, <2>1, <2>4 DEF TakesHook
<1> QED BY <1>2, <1>3, <1>4, <1>5, <1>6, <1>7

\* A turn that starts, and one that ends.
LEMMA TurnsKinds ==
  ASSUME TypesInv, StartTurn \/ FinishTurn \/ StopTurn
  PROVE  Rests \/ (\E ref : Begins(ref)) \/ Finishes \/ IsStopped
<1>0. /\ slot \in Slots /\ turnTask \in Tasks /\ (turnTask.at = "none") = (slot.turn = 0)
      /\ record \in Snapshots /\ generations \in 0 .. MaxTurns /\ MaxTurns \in Nat
      /\ budget.turns \in 1 .. MaxTurns
  BY TurnBounds DEF TypesInv, SlotTyped, TaskTyped, FileTyped, CountsTyped
<1>1. CASE StartTurn /\ MayStart /\ generations < budget.turns
  <2> DEFINE ref == IF slot.turn = 0 THEN record.session ELSE SessionNow
  <2>1. /\ (slot.turn = 0 /\ UNCHANGED <<ghost, strays>>) \/ (slot.turn # 0 /\ Aborted)
        /\ Records([session |-> ref, running |-> TRUE, since |-> generations + 1])
        /\ Spawns(ref, "launch", generations + 1)
        /\ UNCHANGED <<flying, reading, harness, heard, lastEnded>>
    BY <1>1 DEF StartTurn, talkVars
  <2>2. ref \in {record.session, turnTask.ref} BY DEF SessionNow
  <2> HIDE DEF ref
  <2>3. record'.session = ref BY <2>1 DEF Records
  <2>4. LeavesLaunch
    <3>1. CASE slot.turn = 0
      <4>1. turnTask.at # "launch" /\ UNCHANGED strays BY <1>0, <2>1, <3>1
      <4> QED BY <4>1 DEF LeavesLaunch
    <3>2. CASE Aborted BY <3>2, Zenon DEF LeavesLaunch, Aborted
    <3> QED BY <2>1, <3>1, <3>2
  <2>5. generations + 1 \in Turns BY <1>0, <1>1 DEF Turns
  <2>6. /\ slot'.turn = generations + 1 /\ slot'.polled = slot.polled
        /\ generations' = generations + 1 /\ kept' = KeptAfter(ref)
        /\ turnTask' = [NoTask EXCEPT !.at = "launch", !.says = generations + 1, !.ref = ref,
                          !.hooks = NotBefore(Forwarded(ref), generations + 1)]
    BY <1>0, <2>1 DEF Spawns, Slots
  <2>7. Begins(ref) BY <2>1, <2>2, <2>3, <2>4, <2>5, <2>6 DEF Begins, TalkStays
  <2> QED BY <2>7
<1>2. CASE StartTurn /\ ~(MayStart /\ generations < budget.turns)
  BY <1>2 DEF StartTurn, taskVars, talkVars, Rests, TurnStays, TalkStays, SessionStays
<1>3. CASE FinishTurn
  <2>1. record'.session = record.session BY <1>0, <1>3 DEF FinishTurn, Records, Snapshots
  <2> QED BY <1>3, <2>1 DEF FinishTurn, Finishes, PolledAfter, SessionStays, EventsStay, eventVars
<1>4. CASE StopTurn
  <2>1. record'.session = SessionNow BY <1>4 DEF StopTurn, Records
  <2>2. LeavesLaunch BY <1>4, Zenon DEF StopTurn, Aborted, LeavesLaunch
  <2>3. slot'.turn = 0 /\ slot'.polled = slot.polled BY <1>0, <1>4 DEF StopTurn, Slots
  <2>4. SessionNow \in {record.session, turnTask.ref} BY DEF SessionNow
  <2> QED BY <1>4, <2>1, <2>2, <2>3, <2>4 DEF StopTurn, IsStopped, EventsStay, TalkStays, eventVars
<1> QED BY <1>1, <1>2, <1>3, <1>4

\* The launches that outlived their turns, and the harness.
LEMMA HarnessKinds ==
  ASSUME TypesInv,
         \/ StrayLaunches \/ StrayReports \/ DriverStops
         \/ HarnessReplies \/ HarnessAsks \/ HarnessGoesOn \/ HarnessWorksOnItsOwn
  PROVE  Rests \/ StartsLate \/ Calms \/ GivesReply \/ WorksAgain
<1>0. harness \in Places /\ MaxTurns \in Nat BY TurnBounds DEF TypesInv, HarnessTyped
<1>1. CASE StrayLaunches
  <2>1. OnlyTask /\ UNCHANGED turnTask
    BY <1>1 DEF StrayLaunches, driverFrame, storeVars, eventVars, talkVars, OnlyTask, TurnStays,
       SessionStays, EventsStay, TalkStays
  <2> QED BY <1>1, <2>1 DEF StrayLaunches, StartsLate
<1>2. ASSUME NEW bg
      PROVE  /\ Stopped(bg).open = harness.open /\ Stopped(bg).replied = harness.replied
             /\ Stopped(bg).own = harness.own
             /\ \A b \in Turns : Stopped(bg).work[b] \in {0, harness.work[b]}
  BY <1>0 DEF Stopped, Places
<1>3. CASE StrayReports
  <2>1. (\E bg : harness' = Stopped(bg)) /\ strays' \subseteq strays /\ UNCHANGED flying
    BY <1>3 DEF StrayReports, StrayStops, driverFrame, eventVars
  <2>2. HarnessAlone
    BY <1>3 DEF StrayReports, driverFrame, storeVars, eventVars, talkVars, HarnessAlone, TurnStays,
       SessionStays, TalkStays
  <2> QED BY <1>2, <2>1, <2>2 DEF Calms
<1>4. CASE DriverStops
  <2>1. harness' = harness \/ \E bg : harness' = Stopped(bg) BY <1>4 DEF DriverStops
  <2>2. HarnessAlone /\ UNCHANGED <<strays, flying>>
    BY <1>4 DEF DriverStops, taskVars, storeVars, eventVars, talkVars, HarnessAlone, TurnStays,
       SessionStays, TalkStays
  <2> QED BY <1>2, <2>1, <2>2 DEF Calms
<1>5. CASE HarnessReplies
  <2>1. HarnessAlone /\ UNCHANGED strays
    BY <1>5 DEF HarnessReplies, harnessFrame, taskVars, storeVars, talkVars, HarnessAlone, TurnStays,
       SessionStays, TalkStays
  <2> QED BY <1>5, <2>1 DEF HarnessReplies, GivesReply, Works, HooksHandled
<1>6. CASE HarnessAsks
  <2>1. HarnessAlone /\ UNCHANGED strays
    BY <1>6 DEF HarnessAsks, harnessFrame, taskVars, storeVars, talkVars, HarnessAlone, TurnStays,
       SessionStays, TalkStays
  <2>2. PICK bg \in harness.open :
          /\ HooksHandled /\ flying' = flying \cup {Event("prompt", bg)}
          /\ harness' = [harness EXCEPT !.waits = @ \cup {bg}, !.asks = @ + 1]
    BY <1>6 DEF HarnessAsks
  <2>3. /\ harness'.open = harness.open /\ harness'.replied = harness.replied
        /\ harness'.own = harness.own /\ harness'.work = harness.work
    BY <1>0, <2>2 DEF Places
  <2>4. flying' = {Event("prompt", bg)} BY <2>2 DEF HooksHandled
  <2> QED BY <2>1, <2>2, <2>3, <2>4 DEF Calms
<1>7. CASE HarnessGoesOn
  <2>1. HarnessAlone /\ UNCHANGED <<strays, flying>>
    BY <1>7 DEF HarnessGoesOn, harnessFrame, taskVars, storeVars, talkVars, HarnessAlone, TurnStays,
       SessionStays, TalkStays
  <2>2. /\ harness'.open = harness.open /\ harness'.replied = harness.replied
        /\ harness'.own = harness.own /\ harness'.work = harness.work
    BY <1>0, <1>7 DEF HarnessGoesOn, Places
  <2> QED BY <2>1, <2>2 DEF Calms
<1>8. CASE HarnessWorksOnItsOwn
  <2>1. HarnessAlone /\ UNCHANGED <<strays, flying>>
    BY <1>8 DEF HarnessWorksOnItsOwn, harnessFrame, taskVars, storeVars, talkVars, HarnessAlone,
       TurnStays, SessionStays, TalkStays
  <2>2. harness.own < MaxOwn
    <3>1. budget.own \in 0 .. MaxOwn BY TurnBounds DEF TypesInv, CountsTyped
    <3>2. harness.own < budget.own BY <1>8 DEF HarnessWorksOnItsOwn
    <3>3. harness.own \in 0 .. MaxOwn BY <1>0 DEF Places
    <3> QED BY <3>1, <3>2, <3>3, TurnBounds
  <2> QED BY <1>8, <2>1, <2>2 DEF HarnessWorksOnItsOwn, WorksAgain
<1> QED BY <1>1, <1>3, <1>4, <1>5, <1>6, <1>7, <1>8

\* The updates of the task, and the hook events.
LEMMA UpdatesKinds ==
  ASSUME TypesInv, ApplyUpdate
  PROVE  TakesSession \/ TakesReply \/ TakesNews
<1> DEFINE u == Head(turnTask.updates)
<1>0. /\ slot \in Slots /\ turnTask \in Tasks /\ record \in Snapshots
      /\ slot.turn # 0 /\ turnTask.updates # <<>>
  BY DEF TypesInv, SlotTyped, TaskTyped, FileTyped, ApplyUpdate
<1>1. Applies(slot.turn, u)
      /\ UNCHANGED <<strays, harness, generations, lastEnded, flying, reading>>
  BY DEF ApplyUpdate
<1> HIDE DEF u
<1>2. /\ \/ /\ u.kind = "session"
            /\ Records([record EXCEPT !.session = u.ref]) /\ kept' = KeptAfter(u.ref)
            /\ turnTask' = [turnTask EXCEPT
                 !.updates = IF @ # <<>> /\ Head(@) = u THEN Tail(@) ELSE @,
                 !.hooks = @ \o NotBefore(Forwarded(u.ref), slot.turn)]
         \/ /\ u.kind # "session"
            /\ turnTask' = [turnTask EXCEPT
                 !.updates = IF @ # <<>> /\ Head(@) = u THEN Tail(@) ELSE @]
            /\ UNCHANGED <<record, kept>>
      /\ \/ u.kind = "reply" /\ OwnReply(u.reply)
         \/ /\ u.kind # "reply" /\ UNCHANGED heard
            /\ UNCHANGED slot \/ \E phase : slot' = [slot EXCEPT !.phase = phase]
  BY <1>1 DEF Applies, IsCurrentTurn
<1>3. ASSUME OwnReply(u.reply) PROVE SaysOf(u.reply) /\ slot'.turn = slot.turn
  BY <1>0, <1>3 DEF OwnReply, SaysOf, IdleSlot, Slots
<1>4. ASSUME UNCHANGED slot \/ \E phase : slot' = [slot EXCEPT !.phase = phase]
      PROVE  slot'.turn = slot.turn /\ slot'.polled = slot.polled
  BY <1>0, <1>4 DEF Slots
<1>5. Head(turnTask.updates) = u BY DEF u
<1>6. CASE u.kind = "session"
  <2> DEFINE f == NotBefore(Forwarded(u.ref), slot.turn)
  <2>1. turnTask' = [turnTask EXCEPT !.updates = Tail(turnTask.updates), !.hooks = turnTask.hooks \o f]
    BY <1>0, <1>2, <1>5, <1>6
  <2>2. record'.session = u.ref /\ kept' = KeptAfter(u.ref) /\ UNCHANGED heard
        /\ slot'.turn = slot.turn /\ slot'.polled = slot.polled
    <3>1. Records([record EXCEPT !.session = u.ref]) BY <1>2, <1>6
    <3>2. record'.session = u.ref BY <1>0, <3>1 DEF Records, Snapshots
    <3> QED BY <1>2, <1>4, <1>6, <3>2
  <2> HIDE DEF f
  <2>3. TaskBecomes(turnTask.at, turnTask.ref, turnTask.out, turnTask.outReply,
          Tail(turnTask.updates), turnTask.hooks \o f)
    BY <1>0, <2>1 DEF TaskBecomes, Tasks
  <2> USE DEF f
  <2>4. TakesSession BY <1>0, <1>1, <1>5, <1>6, <2>2, <2>3 DEF TakesSession, Takes
  <2> QED BY <2>4
<1>7. CASE u.kind # "session"
  <2>1. turnTask' = [turnTask EXCEPT !.updates = Tail(turnTask.updates)]
    BY <1>0, <1>2, <1>5, <1>7
  <2>2. TaskBecomes(turnTask.at, turnTask.ref, turnTask.out, turnTask.outReply,
          Tail(turnTask.updates), turnTask.hooks)
    BY <1>0, <2>1 DEF TaskBecomes, Tasks
  <2>3. SessionStays /\ UNCHANGED kept BY <1>2, <1>7 DEF SessionStays
  <2>4. slot'.turn = slot.turn BY <1>2, <1>3, <1>4
  <2>5. Takes(turnTask.hooks) BY <1>0, <1>1, <2>2, <2>4 DEF Takes
  <2>6. CASE u.kind = "reply"
    BY <1>2, <1>3, <1>5, <2>3, <2>5, <2>6 DEF TakesReply
  <2>7. CASE u.kind # "reply"
    BY <1>2, <1>4, <1>5, <1>7, <2>3, <2>5, <2>7 DEF TakesNews
  <2> QED BY <2>6, <2>7
<1> QED BY <1>6, <1>7

\* The sections that receive a hook event, or handle one for the idle session.
LEMMA HooksKinds ==
  ASSUME TypesInv, HookArrives \/ HookWhileIdle
  PROVE  \/ Rests \/ (\E e : ReachesTurn(e)) \/ (\E e : ReachesIdle(e)) \/ (\E e : IsKept(e))
         \/ SaysIdle
<1>0. slot \in Slots BY DEF TypesInv, SlotTyped
<1>1. CASE HookArrives
  <2>1. PICK e \in flying :
          /\ flying' = flying \ {e}
          /\ \/ /\ slot.turn # 0 /\ turnTask' = [turnTask EXCEPT !.hooks = Append(@, Got(e))]
                /\ UNCHANGED <<kept, reading>>
             \/ /\ slot.turn = 0 /\ reading' = reading \cup {Got(e)} /\ UNCHANGED <<turnTask, kept>>
             \/ /\ \E from \in 1 .. Len(kept) + 1 :
                     kept' = Keep(SubSeq(kept, from, Len(kept)), Got(e))
                /\ UNCHANGED <<turnTask, reading>>
    BY <1>1 DEF HookArrives, Got
  <2>2. Arrives(e)
    BY <1>1, <2>1 DEF HookArrives, storeVars, talkVars, Arrives, TurnStays, SessionStays, TalkStays
  <2> QED BY <2>1, <2>2 DEF ReachesTurn, ReachesIdle, IsKept
<1>2. CASE HookWhileIdle
  <2>1. PICK e \in reading :
          /\ reading' = reading \ {e}
          /\ \/ e.kind = "stop" /\ OwnReply(e.reply)
             \/ /\ UNCHANGED slot \/ \E phase : slot' = [slot EXCEPT !.phase = phase]
                /\ UNCHANGED heard
    BY <1>2 DEF HookWhileIdle
  <2>2. UNCHANGED <<turnTask, strays, harness, kept, flying, generations, lastEnded>> /\ SessionStays
    BY <1>2 DEF HookWhileIdle, storeVars, SessionStays
  <2>3. CASE e.kind = "stop" /\ OwnReply(e.reply)
    <3>1. SaysOf(e.reply) /\ slot'.turn = slot.turn
      BY <1>0, <2>3 DEF OwnReply, SaysOf, IdleSlot, Slots
    <3> QED BY <2>1, <2>2, <2>3, <3>1 DEF SaysIdle
  <2>4. CASE (UNCHANGED slot \/ \E phase : slot' = [slot EXCEPT !.phase = phase]) /\ UNCHANGED heard
    <3>1. TurnStays BY <1>0, <2>4 DEF TurnStays, Slots
    <3> QED BY <2>1, <2>2, <2>4, <3>1 DEF Rests, TalkStays
  <2> QED BY <2>1, <2>3, <2>4
<1> QED BY <1>1, <1>2

\* Every step but the death of the daemon is of one of these kinds.
LEMMA StepsKinds ==
  ASSUME LetGoInv, TypesInv, TurnNumbers, [TurnsNext]_turnVars, ~DaemonDies
  PROVE  Kinds
BY StepsRest, DriversKinds, TurnsKinds, HarnessKinds, UpdatesKinds, HooksKinds DEF TurnsNext, Kinds

-----------------------------------------------------------------------------
(* Where replies come from: the numbers of the turns, the events on their  *)
(* way, the sessions that were launched.                                   *)
\* The types these proofs use.
LEMMA SpokenTypes ==
  ASSUME TypesInv
  PROVE  /\ MaxTurns \in Nat /\ MaxOwn \in Nat /\ generations \in 0 .. MaxTurns
         /\ slot.turn \in 0 .. MaxTurns /\ slot.polled \in Told
         /\ turnTask \in Tasks /\ (turnTask.at = "none") = (slot.turn = 0)
         /\ turnTask.updates \in Seq(Updates) /\ turnTask.hooks \in Seq(HookEvents)
         /\ kept \in Seq(HookEvents) /\ flying \subseteq HookEvents /\ reading \subseteq HookEvents
         /\ harness \in Places /\ harness.own \in 0 .. MaxOwn
         /\ strays \subseteq [gen : Turns, ref : SessionRefs, started : BOOLEAN]
         /\ heard \in [Answers -> 0 .. 2] /\ record.session \in SessionRefs
         /\ turnTask.ref \in SessionRefs /\ NoSession \in SessionRefs
BY TurnBounds, SessionsTyped DEF TypesInv, CountsTyped, SlotTyped, Slots, TaskTyped, Tasks,
   EventsTyped, HarnessTyped, Places, ShownTyped

\* No task: it has no updates, no events and no outcome.
LEMMA NoTaskIs ==
  /\ NoTask.at = "none" /\ NoTask.says = 0 /\ NoTask.ref = NoSession /\ NoTask.out = "none"
  /\ NoTask.updates = <<>> /\ NoTask.hooks = <<>>
BY DEF NoTask

\* A session that was launched stays so, and a reply that is out.
LEMMA HarnessGrows ==
  ASSUME TypesInv, Kinds
  PROVE  /\ harness.open \subseteq harness'.open /\ harness.replied \subseteq harness'.replied
         /\ harness.own <= harness'.own /\ harness.own \in Nat
         /\ \A ref : RefOpen(ref) => RefOpen(ref)'
         /\ \A e : OfReply(e) => OfReply(e)'
<1>0. harness \in Places /\ harness.own \in Nat BY SpokenTypes, TurnBounds
<1> SUFFICES /\ harness.open \subseteq harness'.open /\ harness.replied \subseteq harness'.replied
             /\ harness.own <= harness'.own
  BY <1>0 DEF RefOpen, OfReply
<1>1. CASE StartsWork \/ StartsLate
  <2>1. \E g, ref, w : Launches(g, ref, w) BY <1>1 DEF StartsWork, StartsLate
  <2> QED BY <1>0, <2>1 DEF Launches, Places
<1>2. CASE Calms \/ GivesReply \/ WorksAgain
  <2>1. CASE Calms BY <1>0, <2>1 DEF Calms
  <2>2. CASE GivesReply BY <1>0, <2>2 DEF GivesReply, Places
  <2>3. CASE WorksAgain BY <1>0, <2>3 DEF WorksAgain, Places
  <2> QED BY <1>2, <2>1, <2>2, <2>3
<1>3. CASE ~(StartsWork \/ StartsLate \/ Calms \/ GivesReply \/ WorksAgain)
  <2>1. UNCHANGED harness
    <3>1. CASE \/ Rests \/ (\E ref : Begins(ref)) \/ Finishes \/ IsStopped
               \/ Quits \/ Tells \/ Learns \/ Loses \/ TakesHook
      BY <3>1 DEF Rests, Begins, Finishes, IsStopped, Quits, Tells, Learns, Loses, TakesHook
    <3>2. CASE \/ TakesSession \/ TakesReply \/ TakesNews
               \/ (\E e : ReachesTurn(e)) \/ (\E e : ReachesIdle(e)) \/ (\E e : IsKept(e)) \/ SaysIdle
      BY <3>2 DEF TakesSession, TakesReply, TakesNews, Takes, ReachesTurn, ReachesIdle, IsKept,
         Arrives, SaysIdle
    <3> QED BY <1>3, <3>1, <3>2 DEF Kinds
  <2> QED BY <1>0, <2>1
<1> QED BY <1>1, <1>2, <1>3

\* The turns stay numbered.
LEMMA KindsKeepNumbers ==
  ASSUME TypesInv, TypesInv', TurnNumbers, Kinds
  PROVE  TurnNumbers'
<1> USE DEF TurnNumbers
<1>0. /\ MaxTurns \in Nat /\ generations \in Nat /\ slot.turn \in Nat /\ lastEnded \in Nat
      /\ turnTask \in Tasks /\ (turnTask.at = "none") = (slot.turn = 0)
      /\ (turnTask'.at = "none") = (slot'.turn = 0) /\ turnTask' \in Tasks
  BY SpokenTypes, TurnBounds DEF TypesInv, TaskTyped
<1>1. harness.replied \subseteq harness'.replied BY HarnessGrows
<1>2. CASE Rests
  BY <1>0, <1>2 DEF Rests, TurnStays, TalkStays
<1>3. ASSUME NEW ref, Begins(ref) PROVE TurnNumbers'
  <2>1. /\ turnTask'.at = "launch" /\ turnTask'.says = generations + 1
        /\ turnTask'.out = "none" /\ turnTask'.updates = <<>>
    BY <1>3, NoTaskIs DEF Begins, NoTask
  <2> QED BY <1>0, <1>3, <2>1 DEF Begins, TalkStays
<1>4. CASE Finishes
  BY <1>0, <1>4, NoTaskIs DEF Finishes
<1>5. CASE IsStopped
  BY <1>0, <1>5, NoTaskIs DEF IsStopped, TalkStays
<1> USE DEF OnlyTask, TurnStays, TalkStays
<1>6. CASE Quits
  BY <1>0, <1>6 DEF Quits, TaskBecomes
<1>7. CASE Tells \/ Learns \/ Loses
  BY <1>0, <1>7 DEF Tells, Learns, Loses, Names, TaskBecomes, Watching
<1>8. CASE TakesHook
  BY <1>0, <1>8 DEF TakesHook, TaskBecomes, Watching
<1>9. CASE StartsWork
  BY <1>0, <1>1, <1>9 DEF StartsWork, Names, TaskBecomes
<1>10. CASE StartsLate
  BY <1>0, <1>1, <1>10 DEF StartsLate
<1>11. CASE Calms \/ GivesReply \/ WorksAgain
  BY <1>0, <1>1, <1>11 DEF Calms, GivesReply, WorksAgain, HarnessAlone
<1>12. CASE TakesSession \/ TakesReply \/ TakesNews
  <2>1. /\ slot.turn # 0 /\ turnTask.updates # <<>> /\ UNCHANGED <<generations, harness, lastEnded>>
        /\ slot'.turn = slot.turn /\ turnTask'.at = turnTask.at /\ turnTask'.says = turnTask.says
        /\ turnTask'.out = turnTask.out /\ turnTask'.outReply = turnTask.outReply
    BY <1>12 DEF TakesSession, TakesReply, TakesNews, Takes, TaskBecomes
  <2>2. slot'.polled \in {0, slot.polled}
    BY <1>12 DEF TakesSession, TakesReply, TakesNews, SaysOf
  <2> QED BY <1>0, <2>1, <2>2
<1>13. ASSUME NEW e, ReachesTurn(e) \/ ReachesIdle(e) \/ IsKept(e) PROVE TurnNumbers'
  BY <1>0, <1>13 DEF ReachesTurn, ReachesIdle, IsKept, Arrives, Tasks
<1>14. CASE SaysIdle
  BY <1>0, <1>14 DEF SaysIdle, SaysOf
<1> QED BY <1>2, <1>3, <1>4, <1>5, <1>6, <1>7, <1>8, <1>9, <1>10, <1>11, <1>12, <1>13, <1>14 DEF Kinds

\* What is forwarded was kept, and is of the session; what is left was kept.
LEMMA ForwardedWas ==
  ASSUME TypesInv, NEW ref, NEW g
  PROVE  /\ Forwarded(ref) \in Seq(HookEvents)
         /\ Range(Forwarded(ref)) \subseteq Range(kept)
         /\ ref.id = 0 => Forwarded(ref) = <<>>
         /\ \A e \in Range(Forwarded(ref)) : e.session = ref.id
         /\ NotBefore(Forwarded(ref), g) \in Seq(HookEvents)
         /\ Range(NotBefore(Forwarded(ref), g)) \subseteq Range(Forwarded(ref))
         /\ \A e \in Range(NotBefore(Forwarded(ref), g)) : e.at >= 2 * g
         /\ KeptAfter(ref) \in Seq(HookEvents)
         /\ Range(KeptAfter(ref)) \subseteq Range(kept)
<1>1. kept \in Seq(HookEvents) BY SpokenTypes
<1>2. \A those : /\ Keeping(kept, those) \in Seq(HookEvents)
                 /\ Range(Keeping(kept, those)) = Range(kept) \cap those
  BY <1>1, KeepingIsSeq, KeepingRange
<1>3. /\ ref.id = 0 => Forwarded(ref) = <<>>
      /\ ref.id # 0 => Forwarded(ref) = Of(kept, ref.id)
  BY DEF Forwarded
<1>4. /\ Of(kept, ref.id) \in Seq(HookEvents) /\ Range(Of(kept, ref.id)) \subseteq Range(kept)
      /\ \A e \in Range(Of(kept, ref.id)) : e.session = ref.id
  BY <1>2 DEF Of
<1>5. <<>> \in Seq(HookEvents) /\ Range(<<>>) = {} BY EmptySeq DEF Range
<1>6. /\ Forwarded(ref) \in Seq(HookEvents) /\ Range(Forwarded(ref)) \subseteq Range(kept)
      /\ \A e \in Range(Forwarded(ref)) : e.session = ref.id
  BY <1>3, <1>4, <1>5
<1>7. /\ NotBefore(Forwarded(ref), g) \in Seq(HookEvents)
      /\ Range(NotBefore(Forwarded(ref), g)) \subseteq Range(Forwarded(ref))
      /\ \A e \in Range(NotBefore(Forwarded(ref), g)) : e.at >= 2 * g
  <2> DEFINE f == Forwarded(ref)
             recent == {e \in Range(f) : e.at >= 2 * g}
  <2>1. f \in Seq(HookEvents) BY <1>6
  <2>2. NotBefore(f, g) = Keeping(f, recent) BY DEF NotBefore
  <2> HIDE DEF f, recent
  <2>3. Keeping(f, recent) \in Seq(HookEvents) /\ Range(Keeping(f, recent)) = Range(f) \cap recent
    BY <2>1, KeepingIsSeq, KeepingRange
  <2>4. /\ NotBefore(f, g) \in Seq(HookEvents) /\ Range(NotBefore(f, g)) \subseteq Range(f)
        /\ \A e \in Range(NotBefore(f, g)) : e.at >= 2 * g
    BY <2>2, <2>3 DEF recent
  <2> QED BY <2>4 DEF f
<1>8. KeptAfter(ref) \in Seq(HookEvents) /\ Range(KeptAfter(ref)) \subseteq Range(kept)
  BY <1>2 DEF KeptAfter
<1> QED BY <1>3, <1>6, <1>7, <1>8

\* Nothing kept is as late as a turn that only starts.
LEMMA NothingForwarded ==
  ASSUME TypesInv, EventsTell, NEW ref
  PROVE  NotBefore(Forwarded(ref), generations + 1) = <<>>
<1> DEFINE f == NotBefore(Forwarded(ref), generations + 1)
<1>1. /\ f \in Seq(HookEvents) /\ Range(f) \subseteq Range(kept)
      /\ \A e \in Range(f) : e.at >= 2 * (generations + 1)
  BY ForwardedWas
<1>2. \A e \in Range(kept) : e.at \in Int /\ e.at <= 2 * generations + 1
  <2>1. Range(kept) \subseteq HookEvents BY SpokenTypes, LenProperties DEF Range
  <2> QED BY <2>1, SpokenTypes DEF EventsTell, HookEvents
<1>3. generations \in Int BY SpokenTypes
<1>4. \A e \in Range(f) : FALSE BY <1>1, <1>2, <1>3
<1> HIDE DEF f
<1>5. f = <<>>
  <2>1. ASSUME Len(f) # 0 PROVE FALSE
    <3>1. Len(f) \in Nat /\ DOMAIN f = 1 .. Len(f) BY <1>1, LenProperties
    <3>2. f[1] \in Range(f) BY <2>1, <3>1 DEF Range
    <3> QED BY <1>4, <3>2
  <2> QED BY <1>1, <2>1, EmptySeq
<1> QED BY <1>5 DEF f

\* What Begins and Takes leave of the turn's task.
LEMMA BeginsWith ==
  ASSUME TypesInv, EventsTell, NEW ref, Begins(ref)
  PROVE  /\ turnTask'.at = "launch" /\ turnTask'.ref = ref /\ turnTask'.out = "none"
         /\ turnTask'.updates = <<>> /\ turnTask'.hooks = <<>>
<1>1. NotBefore(Forwarded(ref), generations + 1) = <<>> BY NothingForwarded
<1> QED BY <1>1 DEF Begins, NoTask

\* One event stays on its way.
LEMMA KindsKeepOne ==
  ASSUME TypesInv, TurnNumbers, OneOnTheWay, EventsTell, Kinds
  PROVE  OneOnTheWay'
<1> USE DEF OneOnTheWay, OnTheWay
<1>0. turnTask \in Tasks BY SpokenTypes
<1>1. CASE Rests
  BY <1>1 DEF Rests
<1>2. ASSUME NEW ref, Begins(ref) PROVE OneOnTheWay'
  BY <1>2, BeginsWith DEF Begins
<1>3. CASE Finishes \/ IsStopped
  BY <1>3, NoTaskIs DEF Finishes, IsStopped, EventsStay
<1>4. CASE Quits
  BY <1>4 DEF Quits, OnlyTask, EventsStay, TaskBecomes
<1>5. CASE Tells \/ Learns \/ Loses \/ TakesHook
  <2>1. reading = {} BY <1>5 DEF Tells, Learns, Loses, TakesHook, Watching
  <2> QED BY <1>5, <2>1 DEF Tells, Learns, Loses, TakesHook, OnlyTask, EventsStay
<1>6. CASE StartsWork
  BY <1>6 DEF StartsWork, OnlyTask, EventsStay, HooksHandled
<1>7. CASE StartsLate
  BY <1>7 DEF StartsLate, OnlyTask, EventsStay
<1>8. CASE Calms \/ WorksAgain
  BY <1>8 DEF Calms, WorksAgain, HarnessAlone, HooksHandled
<1>9. CASE GivesReply
  BY <1>9 DEF GivesReply, HarnessAlone, HooksHandled
<1>10. CASE TakesSession
  <2>1. reading = {} BY <1>10, NoTaskIs DEF TakesSession, Takes, TurnNumbers
  <2> QED BY <1>10, <2>1 DEF TakesSession, Takes
<1>11. CASE TakesReply \/ TakesNews
  BY <1>11 DEF TakesReply, TakesNews, Takes, TaskBecomes
<1>12. ASSUME NEW e, ReachesTurn(e) \/ IsKept(e) PROVE OneOnTheWay'
  <2>1. flying' = {} /\ reading' = {}
    BY <1>12 DEF ReachesTurn, IsKept, Arrives
  <2> QED BY <2>1
<1>13. ASSUME NEW e, ReachesIdle(e) PROVE OneOnTheWay'
  <2>1. flying' = {} /\ reading' = {Got(e)} /\ UNCHANGED turnTask /\ slot.turn = 0
    BY <1>13 DEF ReachesIdle, Arrives
  <2>2. turnTask.at = "none" /\ turnTask.hooks = <<>> BY <2>1, SpokenTypes, NoTaskIs DEF TurnNumbers
  <2> QED BY <2>1, <2>2
<1>14. CASE SaysIdle
  BY <1>14 DEF SaysIdle
<1> QED BY <1>1, <1>2, <1>3, <1>4, <1>5, <1>6, <1>7, <1>8, <1>9, <1>10, <1>11, <1>12, <1>13, <1>14 DEF Kinds

\* The work of a launch.
LEMMA LaunchIs ==
  ASSUME TypesInv, NewIsUnused, NEW g \in Turns, NEW ref \in SessionRefs, RefOpen(ref),
         ref.bg <= g, g <= generations, Launches(g, ref, g), Unused(g)
  PROVE  \E bg \in Turns :
           /\ bg <= g /\ (bg = g \/ bg \in harness.open)
           /\ harness'.open = harness.open \cup {bg} /\ harness'.replied = harness.replied
           /\ harness'.own = harness.own
           /\ harness'.work = [harness.work EXCEPT ![bg] = g]
           /\ harness.work \in [Turns -> Told]
<1> DEFINE bg == IF ref.id = 0 THEN g ELSE ref.bg
<1>0. harness \in Places /\ MaxTurns \in Nat BY SpokenTypes
<1>1. bg \in Turns /\ bg <= g /\ (bg = g \/ bg \in harness.open)
  BY <1>0 DEF SessionRefs, Turns, RefOpen
<1>2. harness' = [harness EXCEPT !.open = @ \cup {bg}, !.work[bg] = g, !.waits = @ \ {bg}]
  BY DEF Launches
<1> HIDE DEF bg
<1>3. /\ harness'.open = harness.open \cup {bg} /\ harness'.replied = harness.replied
      /\ harness'.own = harness.own /\ harness'.work = [harness.work EXCEPT ![bg] = g]
      /\ harness.work \in [Turns -> Told]
  BY <1>0, <1>2 DEF Places
<1> QED BY <1>1, <1>3

\* Which kinds of steps leave the harness alone.
LEMMA HarnessStays ==
  ASSUME Kinds, ~StartsWork, ~StartsLate, ~Calms, ~GivesReply, ~WorksAgain
  PROVE  UNCHANGED harness
<1>1. CASE \/ Rests \/ (\E ref : Begins(ref)) \/ Finishes \/ IsStopped
           \/ Quits \/ Tells \/ Learns \/ Loses \/ TakesHook
  BY <1>1 DEF Rests, Begins, Finishes, IsStopped, Quits, Tells, Learns, Loses, TakesHook
<1>2. CASE \/ TakesSession \/ TakesReply \/ TakesNews
           \/ (\E e : ReachesTurn(e)) \/ (\E e : ReachesIdle(e)) \/ (\E e : IsKept(e)) \/ SaysIdle
  BY <1>2 DEF TakesSession, TakesReply, TakesNews, Takes, ReachesTurn, ReachesIdle, IsKept,
     Arrives, SaysIdle
<1> QED BY <1>1, <1>2 DEF Kinds

\* What was not used is not, but by the turn launched.
LEMMA LaunchKeepsUnused ==
  ASSUME TypesInv, NewIsUnused, NEW g \in Turns, NEW ref \in SessionRefs, RefOpen(ref),
         ref.bg <= g, g <= generations, Launches(g, ref, g), Unused(g),
         NEW x, x # g, Unused(x)
  PROVE  Unused(x)'
<1>1. PICK bg \in Turns :
        /\ bg = g \/ bg \in harness.open
        /\ harness'.open = harness.open \cup {bg} /\ harness'.replied = harness.replied
        /\ harness'.work = [harness.work EXCEPT ![bg] = g] /\ harness.work \in [Turns -> Told]
  BY LaunchIs
<1> QED BY <1>1 DEF Unused

\* So does every step that starts none.
LEMMA OthersKeepUnused ==
  ASSUME TypesInv, Kinds, ~StartsWork, ~StartsLate, NEW x \in Turns, Unused(x)
  PROVE  Unused(x)'
<1>0. harness \in Places /\ MaxTurns \in Nat /\ x # 0 /\ harness.own \in Nat /\ x <= MaxTurns
  BY SpokenTypes, TurnBounds DEF Turns
<1>1. CASE Calms BY <1>0, <1>1 DEF Calms, Unused
<1>2. CASE GivesReply
  <2>1. PICK b \in harness.open :
          harness' = [harness EXCEPT !.work[b] = 0, !.replied = @ \cup {harness.work[b]}]
    BY <1>2 DEF GivesReply
  <2>2. b \in Turns BY <1>0 DEF Places
  <2>3. /\ harness'.open = harness.open /\ harness'.replied = harness.replied \cup {harness.work[b]}
        /\ harness'.work = [harness.work EXCEPT ![b] = 0] /\ harness.work \in [Turns -> Told]
    BY <1>0, <2>1 DEF Places
  <2> QED BY <1>0, <2>2, <2>3 DEF Unused
<1>3. CASE WorksAgain
  <2>1. PICK b \in harness.open :
          harness' = [harness EXCEPT !.own = @ + 1, !.work[b] = MaxTurns + harness.own + 1]
    BY <1>3 DEF WorksAgain
  <2>2. b \in Turns BY <1>0 DEF Places
  <2>3. /\ harness'.open = harness.open /\ harness'.replied = harness.replied
        /\ harness'.work = [harness.work EXCEPT ![b] = MaxTurns + harness.own + 1]
        /\ harness.work \in [Turns -> Told]
    BY <1>0, <2>1 DEF Places
  <2> QED BY <1>0, <2>2, <2>3 DEF Unused
<1> QED BY <1>1, <1>2, <1>3, HarnessStays DEF Unused

\* A launch, of the turn or a late one, is of a turn nobody worked for.
LEMMA StartsAre ==
  ASSUME TypesInv, TurnNumbers, NewIsUnused, StraysApart, RefsAreOpen, StartsWork \/ StartsLate
  PROVE  \E g \in Turns, ref \in SessionRefs :
           /\ RefOpen(ref) /\ ref.bg <= g /\ g <= generations /\ Launches(g, ref, g) /\ Unused(g)
           /\ \/ StartsWork /\ g = slot.turn
              \/ /\ StartsLate
                 /\ \E l \in strays : /\ g = l.gen
                                      /\ strays' = (strays \ {l}) \cup {[l EXCEPT !.started = TRUE]}
<1>0. /\ MaxTurns \in Nat /\ generations \in Nat /\ slot.turn \in 0 .. MaxTurns
      /\ (turnTask.at = "none") = (slot.turn = 0)
      /\ turnTask.ref \in SessionRefs /\ harness.open \subseteq 1 .. generations
  BY SpokenTypes, TurnBounds DEF NewIsUnused
<1>1. CASE StartsWork
  <2>1. slot.turn \in Turns /\ slot.turn = generations /\ Unused(slot.turn)
        /\ Launches(slot.turn, turnTask.ref, slot.turn) /\ RefOpen(turnTask.ref)
    BY <1>0, <1>1 DEF StartsWork, Turns, TurnNumbers, NewIsUnused, RefsAreOpen
  <2>2. turnTask.ref.bg <= slot.turn BY <1>0, <2>1 DEF RefOpen
  <2> QED BY <1>0, <1>1, <2>1, <2>2
<1>2. CASE StartsLate
  <2>1. PICK l \in strays :
          /\ ~l.started /\ strays' = (strays \ {l}) \cup {[l EXCEPT !.started = TRUE]}
          /\ Launches(l.gen, l.ref, l.gen)
    BY <1>2 DEF StartsLate
  <2>2. l.gen \in Turns /\ l.ref \in SessionRefs BY SpokenTypes
  <2>3. RefOpen(l.ref) /\ l.ref.bg <= l.gen /\ l.gen <= generations /\ Unused(l.gen)
    BY <2>1 DEF StraysApart
  <2> QED BY <1>2, <2>1, <2>2, <2>3
<1> QED BY <1>1, <1>2

\* The sessions and replies to come stay unused.
LEMMA KindsKeepUnused ==
  ASSUME TypesInv, TypesInv', TurnNumbers, NewIsUnused, StraysApart, RefsAreOpen, EventsTell, Kinds
  PROVE  NewIsUnused'
<1>0. /\ MaxTurns \in Nat /\ generations \in Nat /\ harness \in Places /\ harness.own \in Nat
      /\ turnTask \in Tasks /\ slot.turn \in Nat
  BY SpokenTypes, TurnBounds
<1>1. CASE StartsWork \/ StartsLate
  <2>1. PICK g \in Turns, ref \in SessionRefs :
          /\ RefOpen(ref) /\ ref.bg <= g /\ g <= generations /\ Launches(g, ref, g) /\ Unused(g)
          /\ \/ StartsWork /\ g = slot.turn
             \/ StartsLate /\ \E l \in strays : g = l.gen
    BY <1>1, StartsAre
  <2>2. PICK bg \in Turns :
          /\ bg <= g /\ harness'.open = harness.open \cup {bg} /\ harness'.replied = harness.replied
          /\ harness'.own = harness.own
          /\ harness'.work = [harness.work EXCEPT ![bg] = g] /\ harness.work \in [Turns -> Told]
    BY <2>1, LaunchIs
  <2>3. \A x : x # g /\ Unused(x) => Unused(x)' BY <2>1, LaunchKeepsUnused
  <2>4. generations' = generations /\ slot'.turn = slot.turn
    BY <2>1 DEF StartsWork, StartsLate, OnlyTask, TurnStays
  <2>5. harness'.open \subseteq 1 .. generations' BY <1>0, <2>1, <2>2, <2>4 DEF NewIsUnused, Turns
  <2>6. \A x \in Turns : x > generations' => Unused(x)'
    BY <1>0, <2>1, <2>3, <2>4 DEF NewIsUnused, Turns
  <2>7. turnTask'.at = "launch" => Unused(slot.turn)'
    <3>1. CASE StartsWork BY <3>1 DEF StartsWork, Names, TaskBecomes
    <3>2. CASE StartsLate /\ \E l \in strays : g = l.gen
      BY <2>3, <2>4, <3>2 DEF StartsLate, NewIsUnused, StraysApart
    <3> QED BY <2>1, <3>1, <3>2
  <2>8. \A v \in Answers : v > MaxTurns + harness'.own =>
          v \notin harness'.replied /\ \A b \in Turns : harness'.work[b] # v
    BY <1>0, <2>2 DEF NewIsUnused, Turns, Answers
  <2> QED BY <2>5, <2>6, <2>7, <2>8 DEF NewIsUnused
<1>2. CASE ~StartsWork /\ ~StartsLate
  <2>1. \A x \in Turns : Unused(x) => Unused(x)' BY <1>2, OthersKeepUnused
  <2>2. /\ generations' \in {generations, generations + 1}
        /\ harness'.open = harness.open
    <3>1. CASE Calms \/ GivesReply \/ WorksAgain
      BY <1>0, <3>1 DEF Calms, GivesReply, WorksAgain, HarnessAlone, Places
    <3>2. CASE ~(Calms \/ GivesReply \/ WorksAgain)
      <4>1. UNCHANGED harness BY <1>2, <3>2, HarnessStays
      <4>2. CASE \/ Rests \/ (\E ref : Begins(ref)) \/ Finishes \/ IsStopped
                 \/ Quits \/ Tells \/ Learns \/ Loses \/ TakesHook
        BY <4>1, <4>2 DEF Rests, Begins, Finishes, IsStopped, Quits, Tells, Learns, Loses,
           TakesHook, OnlyTask
      <4>3. CASE \/ TakesSession \/ TakesReply \/ TakesNews
                 \/ (\E e : ReachesTurn(e)) \/ (\E e : ReachesIdle(e)) \/ (\E e : IsKept(e)) \/ SaysIdle
        BY <4>1, <4>3 DEF TakesSession, TakesReply, TakesNews, Takes, ReachesTurn, ReachesIdle,
           IsKept, Arrives, SaysIdle
      <4> QED BY <1>2, <3>2, <4>2, <4>3 DEF Kinds
    <3> QED BY <3>1, <3>2
  <2>3. turnTask'.at = "launch" => Unused(slot'.turn) /\ slot'.turn \in Turns
    <3>0. turnTask.at = "launch" => slot.turn \in Turns
      BY SpokenTypes DEF Turns
    <3>1. CASE \E ref : Begins(ref)
      BY <1>0, <3>1 DEF Begins, NewIsUnused, Turns
    <3>2. CASE ~\E ref : Begins(ref)
      <4>1. turnTask'.at = "launch" => turnTask.at = "launch" /\ slot'.turn = slot.turn
        <5>1. CASE Rests \/ Finishes \/ IsStopped
          BY <5>1, NoTaskIs DEF Rests, TurnStays, Finishes, IsStopped
        <5>2. CASE Quits \/ Tells \/ Learns \/ Loses \/ TakesHook
          BY <5>2 DEF Quits, Tells, Learns, Loses, TakesHook, Names, TaskBecomes, OnlyTask, TurnStays
        <5>3. CASE Calms \/ GivesReply \/ WorksAgain \/ SaysIdle
          BY <5>3 DEF Calms, GivesReply, WorksAgain, HarnessAlone, TurnStays, SaysIdle
        <5>4. CASE TakesSession \/ TakesReply \/ TakesNews
          BY <5>4 DEF TakesSession, TakesReply, TakesNews, Takes, TaskBecomes
        <5>5. ASSUME NEW e, ReachesTurn(e) \/ ReachesIdle(e) \/ IsKept(e)
              PROVE  turnTask'.at = turnTask.at /\ slot'.turn = slot.turn
          BY <1>0, <5>5 DEF ReachesTurn, ReachesIdle, IsKept, Arrives, TurnStays, Tasks
        <5> QED BY <1>2, <3>2, <5>1, <5>2, <5>3, <5>4, <5>5 DEF Kinds
      <4> QED BY <3>0, <4>1 DEF NewIsUnused
    <3> QED BY <3>1, <3>2
  <2>4. \A v \in Answers : v > MaxTurns + harness'.own =>
          v \notin harness'.replied /\ \A b \in Turns : harness'.work[b] # v
    <3>1. CASE Calms BY <1>0, <3>1 DEF Calms, NewIsUnused, Answers
    <3>2. CASE GivesReply
      <4>1. PICK b \in harness.open :
              harness' = [harness EXCEPT !.work[b] = 0, !.replied = @ \cup {harness.work[b]}]
        BY <3>2 DEF GivesReply
      <4>2. b \in Turns BY <1>0 DEF Places
      <4> QED BY <1>0, <4>1, <4>2 DEF NewIsUnused, Answers, Places
    <3>3. CASE WorksAgain
      <4>1. PICK b \in harness.open :
              harness' = [harness EXCEPT !.own = @ + 1, !.work[b] = MaxTurns + harness.own + 1]
        BY <3>3 DEF WorksAgain
      <4>2. /\ harness'.own = harness.own + 1 /\ harness'.replied = harness.replied
            /\ \A c \in Turns : harness'.work[c] \in {harness.work[c], MaxTurns + harness.own + 1}
        BY <1>0, <4>1 DEF Places
      <4> QED BY <1>0, <4>2 DEF NewIsUnused, Answers
    <3>4. CASE UNCHANGED harness BY <3>4 DEF NewIsUnused
    <3> QED BY <1>2, <3>1, <3>2, <3>3, <3>4, HarnessStays
  <2>5. harness'.open \subseteq 1 .. generations' BY <1>0, <2>2 DEF NewIsUnused
  <2>6. \A x \in Turns : x > generations' => Unused(x)'
    BY <1>0, <2>1, <2>2 DEF NewIsUnused, Turns
  <2>7. turnTask'.at = "launch" => Unused(slot.turn)'
    <3>1. \A x \in Turns : x = slot'.turn /\ Unused(x)' => Unused(slot.turn)' BY DEF Unused
    <3> QED BY <2>1, <2>3, <3>1
  <2> QED BY <2>4, <2>5, <2>6, <2>7 DEF NewIsUnused
<1> QED BY <1>1, <1>2

-----------------------------------------------------------------------------
(* The launches that outlive their turns, and what the sessions work for.  *)
\* Which kinds leave the launches that outlived their turns alone.
LEMMA StraysStay ==
  ASSUME Kinds, ~StartsLate, ~Calms, ~IsStopped, \A ref : ~Begins(ref)
  PROVE  UNCHANGED strays
<1>1. CASE \/ Rests \/ Finishes
           \/ Quits \/ Tells \/ Learns \/ Loses \/ TakesHook \/ StartsWork
  BY <1>1 DEF Rests, Finishes, Quits, Tells, Learns, Loses, TakesHook, StartsWork
<1>2. CASE \/ TakesSession \/ TakesReply \/ TakesNews \/ GivesReply \/ WorksAgain
           \/ (\E e : ReachesTurn(e)) \/ (\E e : ReachesIdle(e)) \/ (\E e : IsKept(e)) \/ SaysIdle
  BY <1>2 DEF TakesSession, TakesReply, TakesNews, Takes, GivesReply, WorksAgain, ReachesTurn,
     ReachesIdle, IsKept, Arrives, SaysIdle
<1> QED BY <1>1, <1>2 DEF Kinds

\* A turn, and the number of the last one, change as turns start and end.
LEMMA TurnStaysElse ==
  ASSUME Kinds, ~Finishes, ~IsStopped, \A ref : ~Begins(ref)
  PROVE  slot'.turn = slot.turn /\ UNCHANGED <<generations, lastEnded>>
<1> USE DEF OnlyTask, TurnStays, TalkStays
<1>1. CASE \/ Rests \/ Quits \/ Tells \/ Learns \/ Loses \/ TakesHook \/ StartsWork \/ StartsLate
  BY <1>1 DEF Rests, Quits, Tells, Learns, Loses, TakesHook, StartsWork, StartsLate
<1>2. CASE \/ TakesSession \/ TakesReply \/ TakesNews \/ GivesReply \/ WorksAgain \/ Calms
           \/ (\E e : ReachesTurn(e)) \/ (\E e : ReachesIdle(e)) \/ (\E e : IsKept(e)) \/ SaysIdle
  BY <1>2 DEF TakesSession, TakesReply, TakesNews, Takes, GivesReply, WorksAgain, Calms, HarnessAlone,
     ReachesTurn, ReachesIdle, IsKept, Arrives, SaysIdle
<1> QED BY <1>1, <1>2 DEF Kinds

\* A turn that is stopped, or replaced, leaves its launch apart.
LEMMA LeavingKeepsStrays ==
  ASSUME TypesInv, TurnNumbers, NewIsUnused, StraysApart, RefsAreOpen, LeavesLaunch,
         UNCHANGED harness, generations <= generations', generations' \in Nat,
         slot'.turn = 0 \/ slot'.turn > generations
  PROVE  StraysApart'
<1>0. /\ generations \in Nat /\ slot.turn \in Nat /\ (turnTask.at = "none") = (slot.turn = 0)
      /\ harness.open \subseteq 1 .. generations /\ turnTask.ref \in SessionRefs /\ MaxTurns \in Nat
      /\ strays \subseteq [gen : Turns, ref : SessionRefs, started : BOOLEAN]
  BY SpokenTypes, TurnBounds DEF NewIsUnused
<1> DEFINE new == [gen |-> slot.turn, ref |-> turnTask.ref, started |-> FALSE]
<1>1. strays' \subseteq strays \cup {new} /\ (turnTask.at = "launch" \/ strays' = strays)
  BY DEF LeavesLaunch
<1>2. ASSUME turnTask.at = "launch"
      PROVE  /\ slot.turn = generations /\ slot.turn # 0 /\ RefOpen(turnTask.ref)
             /\ turnTask.ref.bg <= slot.turn /\ Unused(slot.turn)
  <2>1. slot.turn = generations /\ slot.turn # 0 /\ RefOpen(turnTask.ref) /\ Unused(slot.turn)
    BY <1>0, <1>2 DEF TurnNumbers, RefsAreOpen, NewIsUnused
  <2>2. turnTask.ref.bg <= slot.turn BY <1>0, <2>1 DEF RefOpen, SessionRefs
  <2> QED BY <2>1, <2>2
<1>3. new.gen = slot.turn /\ new.ref = turnTask.ref /\ ~new.started OBVIOUS
<1>4. \A l \in strays : l.gen \in 1 .. MaxTurns BY <1>0 DEF Turns
<1> HIDE DEF new
<1>5. \A ref : RefOpen(ref)' <=> RefOpen(ref) BY DEF RefOpen
<1>6. \A x : Unused(x)' <=> Unused(x) BY DEF Unused
<1>7. \A l \in strays' : /\ l.gen <= generations' /\ l.gen # slot'.turn
                         /\ l.ref.bg <= l.gen /\ RefOpen(l.ref)
                         /\ ~l.started => Unused(l.gen)
  BY <1>0, <1>1, <1>2, <1>3, <1>4 DEF StraysApart
<1>8. \A l, m \in strays' : l.gen = m.gen => l = m
  BY <1>1, <1>2, <1>3 DEF StraysApart
<1> QED BY <1>5, <1>6, <1>7, <1>8 DEF StraysApart

\* The launches that outlived their turns stay apart.
LEMMA KindsKeepStrays ==
  ASSUME TypesInv, TypesInv', TurnNumbers, NewIsUnused, StraysApart, RefsAreOpen, Kinds
  PROVE  StraysApart'
<1>0. /\ generations \in Nat /\ slot.turn \in Nat /\ MaxTurns \in Nat
      /\ strays \subseteq [gen : Turns, ref : SessionRefs, started : BOOLEAN]
      /\ \A ref : RefOpen(ref) => RefOpen(ref)'
  BY SpokenTypes, TurnBounds, HarnessGrows
<1>1. ASSUME NEW ref, Begins(ref) PROVE StraysApart'
  BY <1>0, <1>1, LeavingKeepsStrays DEF Begins
<1>2. CASE IsStopped
  BY <1>0, <1>2, LeavingKeepsStrays DEF IsStopped
<1>3. CASE StartsLate
  <2>1. PICK g \in Turns, ref \in SessionRefs :
          /\ RefOpen(ref) /\ ref.bg <= g /\ g <= generations /\ Launches(g, ref, g) /\ Unused(g)
          /\ \/ StartsWork /\ g = slot.turn
             \/ /\ StartsLate
                /\ \E l \in strays : /\ g = l.gen
                                     /\ strays' = (strays \ {l}) \cup {[l EXCEPT !.started = TRUE]}
    BY <1>3, StartsAre
  <2>2. CASE StartsWork
    <3>1. turnTask.at = "launch" /\ UNCHANGED turnTask BY <1>3, <2>2 DEF StartsWork, StartsLate
    <3>2. turnTask'.at = "watch" BY <2>2 DEF StartsWork, Names, TaskBecomes
    <3> QED BY <3>1, <3>2
  <2>3. CASE \E l \in strays : /\ g = l.gen
                               /\ strays' = (strays \ {l}) \cup {[l EXCEPT !.started = TRUE]}
    <3>1. PICK l \in strays : /\ g = l.gen
                              /\ strays' = (strays \ {l}) \cup {[l EXCEPT !.started = TRUE]}
      BY <2>3
    <3> DEFINE new == [l EXCEPT !.started = TRUE]
    <3>2. new.gen = l.gen /\ new.ref = l.ref /\ new.started BY <1>0
    <3>3. strays' = (strays \ {l}) \cup {new} BY <3>1
    <3> HIDE DEF new
    <3>4. \A m \in strays \ {l} : m.gen # g BY <3>1 DEF StraysApart
    <3>5. \A x : x # g /\ Unused(x) => Unused(x)' BY <2>1, LaunchKeepsUnused
    <3>6. slot'.turn = slot.turn /\ generations' = generations
      BY <1>3 DEF StartsLate, OnlyTask, TurnStays
    <3>7. \A m \in strays' : /\ m.gen <= generations' /\ m.gen # slot'.turn
                             /\ m.ref.bg <= m.gen /\ RefOpen(m.ref)
                             /\ ~m.started => m.gen # g /\ Unused(m.gen)
      BY <3>1, <3>2, <3>3, <3>4, <3>6 DEF StraysApart
    <3>8. \A m, n \in strays' : m.gen = n.gen => m = n
      BY <3>1, <3>2, <3>3, <3>4 DEF StraysApart
    <3>9. \A m \in strays' : /\ m.gen <= generations' /\ m.gen # slot'.turn
                             /\ m.ref.bg <= m.gen /\ RefOpen(m.ref)'
                             /\ ~m.started => Unused(m.gen)'
      BY <1>0, <3>5, <3>7
    <3> QED BY <3>8, <3>9 DEF StraysApart, RefOpen, Unused
  <2> QED BY <2>1, <2>2, <2>3
<1>4. CASE ~StartsLate /\ ~IsStopped /\ \A ref : ~Begins(ref)
  <2>1. strays' \subseteq strays
    BY <1>4, StraysStay DEF Calms
  <2>2. generations' = generations /\ slot'.turn \in {0, slot.turn}
    <3>1. CASE Finishes BY <3>1 DEF Finishes
    <3>2. CASE ~Finishes BY <1>4, <3>2, TurnStaysElse
    <3> QED BY <3>1, <3>2
  <2>3. \A x \in Turns : Unused(x) /\ x # slot.turn => Unused(x)'
    <3>1. CASE StartsWork
      <4>1. PICK g \in Turns, ref \in SessionRefs :
              /\ RefOpen(ref) /\ ref.bg <= g /\ g <= generations /\ Launches(g, ref, g) /\ Unused(g)
              /\ StartsWork /\ g = slot.turn
        BY <1>4, <3>1, StartsAre
      <4> QED BY <4>1, LaunchKeepsUnused
    <3>2. CASE ~StartsWork BY <1>4, <3>2, OthersKeepUnused
    <3> QED BY <3>1, <3>2
  <2>4. \A l \in strays' : l.gen \in Turns /\ l.gen # 0 BY <1>0, <2>1 DEF Turns
  <2>5. \A m \in strays' : /\ m.gen <= generations' /\ m.gen # slot'.turn
                           /\ m.ref.bg <= m.gen /\ RefOpen(m.ref)'
                           /\ ~m.started => Unused(m.gen)'
    BY <1>0, <2>1, <2>2, <2>3, <2>4 DEF StraysApart
  <2>6. \A m, n \in strays' : m.gen = n.gen => m = n BY <2>1 DEF StraysApart
  <2> QED BY <2>5, <2>6 DEF StraysApart, RefOpen, Unused
<1> QED BY <1>1, <1>2, <1>3, <1>4

\* Work that starts in a session is for a reply nobody worked for.
LEMMA StartedIsNew ==
  ASSUME TypesInv, WorkIsNew, NEW bg \in Turns, NEW v \in Answers,
         v \notin harness.replied, \A b \in Turns : harness.work[b] # v,
         v <= MaxTurns => bg <= v /\ v <= generations',
         generations <= generations', generations' \in Int,
         bg \in harness'.open, harness.open \subseteq harness'.open,
         harness'.replied = harness.replied, harness.work \in [Turns -> Told],
         harness'.work = [harness.work EXCEPT ![bg] = v]
  PROVE  WorkIsNew'
<1>0. MaxTurns \in Nat /\ generations \in Nat /\ MaxOwn \in Nat BY SpokenTypes, TurnBounds
<1>1. ASSUME NEW b \in Turns, harness'.work[b] # 0
      PROVE  /\ b \in harness'.open /\ harness'.work[b] \notin harness'.replied
             /\ harness'.work[b] <= MaxTurns => b <= harness'.work[b] /\ harness'.work[b] <= generations'
             /\ \A c \in Turns : harness'.work[c] = harness'.work[b] => c = b
  <2>1. CASE b = bg
    BY <1>0, <2>1 DEF Turns
  <2>2. CASE b # bg
    <3>1. harness'.work[b] = harness.work[b] BY <2>2
    <3>2. /\ b \in harness.open /\ harness.work[b] \notin harness.replied
          /\ harness.work[b] <= MaxTurns => b <= harness.work[b] /\ harness.work[b] <= generations
          /\ \A c \in Turns : harness.work[c] = harness.work[b] => c = b
      BY <1>1, <3>1 DEF WorkIsNew
    <3>3. harness.work[b] \in Int BY <1>0 DEF Told
    <3> QED BY <1>0, <2>2, <3>1, <3>2, <3>3
  <2> QED BY <2>1, <2>2
<1> QED BY <1>1 DEF WorkIsNew

\* A session stays with work nobody else has.
LEMMA KindsKeepWork ==
  ASSUME TypesInv, TurnNumbers, NewIsUnused, StraysApart, RefsAreOpen, WorkIsNew, Kinds
  PROVE  WorkIsNew'
<1>0. /\ MaxTurns \in Nat /\ MaxOwn \in Nat /\ generations \in Nat /\ harness \in Places
      /\ harness.own \in Nat /\ harness.open \subseteq harness'.open
      /\ harness.work \in [Turns -> Told]
  BY SpokenTypes, TurnBounds, HarnessGrows DEF Places
<1>1. CASE StartsWork \/ StartsLate
  <2>1. PICK g \in Turns, ref \in SessionRefs :
          /\ RefOpen(ref) /\ ref.bg <= g /\ g <= generations /\ Launches(g, ref, g) /\ Unused(g)
    BY <1>1, StartsAre
  <2>2. PICK bg \in Turns :
          /\ bg <= g /\ harness'.open = harness.open \cup {bg} /\ harness'.replied = harness.replied
          /\ harness'.work = [harness.work EXCEPT ![bg] = g]
    BY <2>1, LaunchIs
  <2>3. generations' = generations BY <1>1 DEF StartsWork, StartsLate, OnlyTask
  <2>4. g \in Answers BY <1>0 DEF Turns, Answers
  <2>5. g \notin harness.replied /\ \A b \in Turns : harness.work[b] # g BY <2>1 DEF Unused
  <2> QED BY <1>0, <2>1, <2>2, <2>3, <2>4, <2>5, StartedIsNew
<1>2. CASE WorksAgain
  <2> DEFINE v == MaxTurns + harness.own + 1
  <2>1. PICK bg \in harness.open : harness' = [harness EXCEPT !.own = @ + 1, !.work[bg] = v]
    BY <1>2 DEF WorksAgain
  <2>2. bg \in Turns BY <1>0 DEF Places
  <2>3. v \in Answers /\ v > MaxTurns + harness.own /\ ~(v <= MaxTurns)
    BY <1>0, <1>2 DEF WorksAgain, Answers
  <2> HIDE DEF v
  <2>4. v \notin harness.replied /\ \A b \in Turns : harness.work[b] # v
    BY <2>3 DEF NewIsUnused
  <2>5. /\ harness'.work = [harness.work EXCEPT ![bg] = v] /\ harness'.replied = harness.replied
        /\ harness'.open = harness.open
    BY <1>0, <2>1 DEF Places
  <2>6. generations' = generations BY <1>2 DEF WorksAgain, HarnessAlone
  <2> QED BY <1>0, <2>2, <2>3, <2>4, <2>5, <2>6, StartedIsNew
<1>3. CASE GivesReply
  <2>1. PICK bg \in harness.open :
          /\ harness' = [harness EXCEPT !.work[bg] = 0, !.replied = @ \cup {harness.work[bg]}]
          /\ harness.work[bg] # 0
    BY <1>3 DEF GivesReply
  <2>2. bg \in Turns BY <1>0 DEF Places
  <2>3. /\ harness'.work = [harness.work EXCEPT ![bg] = 0] /\ harness'.open = harness.open
        /\ harness'.replied = harness.replied \cup {harness.work[bg]}
    BY <1>0, <2>1 DEF Places
  <2>4. generations' = generations BY <1>3 DEF GivesReply, HarnessAlone
  <2>5. ASSUME NEW b \in Turns, harness'.work[b] # 0
        PROVE  b # bg /\ harness'.work[b] = harness.work[b]
    BY <1>0, <2>2, <2>3, <2>5
  <2>6. ASSUME NEW b \in Turns, b # bg PROVE harness.work[b] # harness.work[bg]
    BY <2>1, <2>2, <2>6 DEF WorkIsNew
  <2> QED BY <1>0, <2>2, <2>3, <2>4, <2>5, <2>6 DEF WorkIsNew
<1>4. CASE Calms
  BY <1>0, <1>4 DEF Calms, HarnessAlone, WorkIsNew
<1>5. CASE ~(StartsWork \/ StartsLate \/ Calms \/ GivesReply \/ WorksAgain)
  <2>1. UNCHANGED harness BY <1>5, HarnessStays
  <2>2. generations <= generations' /\ generations' \in Nat
    <3>1. CASE \E ref : Begins(ref) BY <1>0, <3>1 DEF Begins
    <3>2. CASE Finishes \/ IsStopped BY <1>0, <3>2 DEF Finishes, IsStopped
    <3>3. CASE ~Finishes /\ ~IsStopped /\ ~\E ref : Begins(ref) BY <1>0, <3>3, TurnStaysElse
    <3> QED BY <3>1, <3>2, <3>3
  <2>3. \A b \in Turns : harness.work[b] \in Int BY <1>0 DEF Told
  <2> QED BY <1>0, <2>1, <2>2, <2>3 DEF WorkIsNew
<1> QED BY <1>1, <1>2, <1>3, <1>4, <1>5

-----------------------------------------------------------------------------
(* The sessions the record, the task and its updates name.                 *)
\* A queue that gets one more element, and one whose first goes.
LEMMA ElementsAppended ==
  ASSUME NEW X, NEW q \in Seq(X), NEW x
  PROVE  /\ Len(q) \in Nat /\ Len(Append(q, x)) = Len(q) + 1
         /\ \A i \in 1 .. Len(q) : Append(q, x)[i] = q[i]
         /\ Append(q, x)[Len(q) + 1] = x
<1>1. q \in Seq(X \cup {x}) /\ x \in X \cup {x} OBVIOUS
<1> QED BY <1>1, AppendProperties, LenProperties

\* And of one whose first goes.
LEMMA ElementsOfTail ==
  ASSUME NEW X, NEW q \in Seq(X), q # <<>>
  PROVE  /\ Len(q) \in Nat \ {0} /\ Len(Tail(q)) = Len(q) - 1 /\ Tail(q) \in Seq(X)
         /\ \A i \in 1 .. Len(q) - 1 : Tail(q)[i] = q[i + 1]
         /\ Head(q) = q[1] /\ q[1] \in X
BY HeadTailProperties, EmptySeq, LenProperties

\* A session that is launched after a step.
Opened(ref) == ref.bg = 0 \/ ref.bg \in harness'.open

\* What is called a session stays launched.
LEMMA NamingKeepsRefs ==
  ASSUME TypesInv, RefsAreOpen, NEW ref, NEW out, Names(ref, out), Opened(ref), SessionStays,
         slot'.turn = slot.turn, \A s : RefOpen(s) => Opened(s),
         ref.id = 0 => ref.bg \in {0, slot.turn},
         ref.id \in {0, slot.turn} \/ (turnTask.updates = <<>> /\ ref = record.session)
  PROVE  RefsAreOpen'
<1> DEFINE q == turnTask.updates
           u == Update("session", ref, 0)
<1>1. q \in Seq(Updates) BY SpokenTypes
<1>2. u.kind = "session" /\ u.ref = ref BY DEF Update
<1>3. turnTask'.updates = Append(q, u) /\ turnTask'.ref = ref /\ turnTask'.at = "watch"
  BY DEF Names, TaskBecomes
<1>4. q = <<>> => Len(q) = 0 BY <1>1, EmptySeq
<1>5. /\ \A i \in 1 .. Len(q) : Opened(q[i].ref)
      /\ \A i \in 1 .. Len(q) :
           q[i].kind = "session" /\ q[i].ref.id \notin {0, slot.turn} => i = 1 /\ q[i].ref = record.session
  BY DEF RefsAreOpen
<1>6. /\ q = <<>> => ref.id \in {0, slot.turn} \/ ref = record.session
      /\ q # <<>> => ref.id \in {0, slot.turn}
  OBVIOUS
<1> HIDE DEF u, q
<1>7. /\ Len(q) \in Nat /\ Len(Append(q, u)) = Len(q) + 1
      /\ \A i \in 1 .. Len(q) : Append(q, u)[i] = q[i]
      /\ Append(q, u)[Len(q) + 1] = u
  BY <1>1, ElementsAppended
<1>8. ASSUME NEW i \in 1 .. Len(q) + 1
      PROVE  /\ Opened(Append(q, u)[i].ref)
             /\ Append(q, u)[i].kind = "session" /\ Append(q, u)[i].ref.id \notin {0, slot.turn}
                  => i = 1 /\ Append(q, u)[i].ref = record.session
  <2>1. CASE i \in 1 .. Len(q)
    BY <1>5, <1>7, <2>1
  <2>2. CASE i = Len(q) + 1
    <3>1. Append(q, u)[i] = u BY <1>7, <2>2
    <3> QED BY <1>2, <1>4, <1>6, <2>2, <3>1
  <2> QED BY <1>7, <2>1, <2>2
<1>9. \A i \in 1 .. Len(turnTask'.updates) :
        /\ Opened(turnTask'.updates[i].ref)
        /\ turnTask'.updates[i].kind = "session" /\ turnTask'.updates[i].ref.id \notin {0, slot.turn}
             => i = 1 /\ turnTask'.updates[i].ref = record.session
  BY <1>3, <1>7, <1>8
<1>10. Opened(record'.session) BY DEF RefsAreOpen, SessionStays
<1> QED BY <1>3, <1>9, <1>10 DEF RefsAreOpen, SessionStays, RefOpen, Opened

\* So do the sessions of the record, the task and its updates.
LEMMA KindsKeepRefs ==
  ASSUME TypesInv, TypesInv', TurnNumbers, NewIsUnused, StraysApart, RefsAreOpen, EventsTell, Kinds
  PROVE  RefsAreOpen'
<1>0. /\ turnTask.updates \in Seq(Updates) /\ \A s : RefOpen(s) => Opened(s)
      /\ turnTask.ref \in SessionRefs /\ record.session \in SessionRefs
      /\ Opened(NoSession) /\ NoSession.id = 0 /\ NoSession.bg = 0
      /\ (turnTask.at = "none") = (slot.turn = 0) /\ slot.turn \in Nat
      /\ turnTask \in Tasks /\ Len(<<>>) = 0
  BY SpokenTypes, HarnessGrows DEF Opened, RefOpen, NoSession
<1>1. ASSUME NEW ref, Begins(ref) PROVE RefsAreOpen'
  <2>1. /\ turnTask'.at = "launch" /\ turnTask'.ref = ref /\ turnTask'.updates = <<>>
        /\ record'.session = ref
    BY <1>1, BeginsWith DEF Begins
  <2>2. Opened(ref) BY <1>0, <1>1 DEF Begins, RefsAreOpen
  <2> QED BY <1>0, <2>1, <2>2 DEF RefsAreOpen, RefOpen, Opened
<1>2. CASE Finishes \/ IsStopped
  <2>1. turnTask' = NoTask /\ record'.session \in {record.session, turnTask.ref}
    BY <1>2 DEF Finishes, IsStopped, SessionStays
  <2>2. Opened(record'.session) BY <1>0, <2>1 DEF RefsAreOpen
  <2> QED BY <1>0, <2>1, <2>2, NoTaskIs DEF RefsAreOpen, RefOpen, Opened
<1>3. CASE Rests
  <2>1. CASE SessionStays
    BY <1>0, <1>3, <2>1 DEF Rests, TurnStays, SessionStays, RefsAreOpen, RefOpen, Opened
  <2>2. CASE slot.turn = 0 /\ record'.session = NoSession
    <3>1. turnTask' = NoTask BY <1>0, <1>3, <2>2 DEF Rests, TurnNumbers
    <3> QED BY <1>0, <2>2, <3>1, NoTaskIs DEF RefsAreOpen, RefOpen, Opened
  <2> QED BY <1>3, <2>1, <2>2 DEF Rests
<1>4. CASE Learns
  <2> DEFINE ref == [bg |-> turnTask.ref.bg, id |-> turnTask.ref.bg]
  <2>1. /\ Names(ref, "none") /\ SessionStays /\ slot'.turn = slot.turn /\ Watching
        /\ turnTask.ref.bg # 0 /\ turnTask.ref.id = 0
    BY <1>4 DEF Learns, OnlyTask, TurnStays
  <2>2. turnTask.ref.bg = slot.turn BY <2>1 DEF RefsAreOpen, Watching
  <2>3. Opened(turnTask.ref) BY <1>0 DEF RefsAreOpen
  <2>4. ref.bg = turnTask.ref.bg /\ ref.id = turnTask.ref.bg OBVIOUS
  <2> HIDE DEF ref
  <2>5. Opened(ref) BY <2>3, <2>4 DEF Opened
  <2> QED BY <1>0, <2>1, <2>2, <2>4, <2>5, NamingKeepsRefs
<1>5. CASE Loses
  BY <1>0, <1>5, NamingKeepsRefs DEF Loses, OnlyTask, TurnStays
<1>6. CASE StartsWork
  <2> DEFINE ref == IF turnTask.ref.id = 0 THEN [bg |-> slot.turn, id |-> 0] ELSE turnTask.ref
  <2>1. /\ Names(ref, "none") /\ SessionStays /\ slot'.turn = slot.turn /\ turnTask.at = "launch"
        /\ Launches(slot.turn, turnTask.ref, slot.turn)
    BY <1>6 DEF StartsWork, OnlyTask, TurnStays
  <2>2. turnTask.updates = <<>> /\ turnTask.ref = record.session
    BY <2>1 DEF RefsAreOpen, TurnNumbers
  <2>3. /\ ref.id = 0 => ref.bg = slot.turn
        /\ ref.id # 0 => ref = turnTask.ref
    BY <1>0
  <2>4. Opened(ref)
    <3>1. turnTask.ref.id = 0 => slot.turn \in harness'.open
      BY SpokenTypes, <2>1 DEF Launches, Places
    <3>2. Opened(turnTask.ref) BY <1>0 DEF RefsAreOpen
    <3> QED BY <3>1, <3>2 DEF Opened
  <2> HIDE DEF ref
  <2> QED BY <1>0, <2>1, <2>2, <2>3, <2>4, NamingKeepsRefs
<1>7. ASSUME NEW u, u.kind # "session", u.ref = NoSession,
             turnTask'.updates \in {turnTask.updates, Append(turnTask.updates, u)},
             turnTask'.ref = turnTask.ref, turnTask'.at = turnTask.at, turnTask.at = "watch",
             SessionStays, slot'.turn = slot.turn
      PROVE  RefsAreOpen'
  <2> DEFINE q == turnTask.updates
  <2>1. /\ Len(q) \in Nat /\ Len(Append(q, u)) = Len(q) + 1
        /\ \A i \in 1 .. Len(q) : Append(q, u)[i] = q[i]
        /\ Append(q, u)[Len(q) + 1] = u
    BY <1>0, ElementsAppended
  <2>2. \A i \in 1 .. Len(turnTask'.updates) :
          \/ i \in 1 .. Len(q) /\ turnTask'.updates[i] = q[i]
          \/ turnTask'.updates[i] = u
    BY <1>7, <2>1
  <2> HIDE DEF q
  <2>3. \A i \in 1 .. Len(turnTask'.updates) :
          /\ Opened(turnTask'.updates[i].ref)
          /\ turnTask'.updates[i].kind = "session" /\ turnTask'.updates[i].ref.id \notin {0, slot.turn}
               => i = 1 /\ turnTask'.updates[i].ref = record.session
    BY <1>0, <1>7, <2>2 DEF RefsAreOpen, q
  <2>4. Opened(record.session) /\ Opened(turnTask.ref) BY <1>0 DEF RefsAreOpen
  <2> QED BY <1>7, <2>3, <2>4 DEF RefsAreOpen, SessionStays, RefOpen, Opened
<1>8. ASSUME NEW kind, kind # "session", NEW reply
      PROVE  Update(kind, NoSession, reply).kind # "session"
             /\ Update(kind, NoSession, reply).ref = NoSession
  BY <1>8 DEF Update
<1>9. CASE Tells
  BY <1>7, <1>8, <1>9 DEF Tells, OnlyTask, TurnStays, TaskBecomes, Watching
<1>10. CASE TakesHook
  <2>1. \E kind \in {"reply", "waits"} : \E reply :
          turnTask'.updates \in {turnTask.updates,
                                 Append(turnTask.updates, Update(kind, NoSession, reply))}
    BY <1>10 DEF TakesHook, TaskBecomes
  <2>2. /\ turnTask'.ref = turnTask.ref /\ turnTask'.at = turnTask.at /\ turnTask.at = "watch"
        /\ SessionStays /\ slot'.turn = slot.turn
    BY <1>10 DEF TakesHook, OnlyTask, TurnStays, TaskBecomes, Watching
  <2> QED BY <1>7, <1>8, <2>1, <2>2
<1>11. CASE TakesSession \/ TakesReply \/ TakesNews
  <2> DEFINE q == turnTask.updates
  <2>1. /\ q # <<>> /\ turnTask'.updates = Tail(q) /\ turnTask'.ref = turnTask.ref
        /\ turnTask'.at = turnTask.at /\ slot'.turn = slot.turn
        /\ \/ TakesSession /\ record'.session = Head(q).ref
           \/ Head(q).kind # "session" /\ record'.session = record.session
    BY <1>11 DEF TakesSession, TakesReply, TakesNews, Takes, TaskBecomes, SessionStays
  <2>2. turnTask.at # "launch" BY <2>1 DEF TurnNumbers
  <2>3. /\ Len(q) \in Nat \ {0} /\ Len(Tail(q)) = Len(q) - 1
        /\ \A i \in 1 .. Len(q) - 1 : Tail(q)[i] = q[i + 1]
        /\ Head(q) = q[1]
    BY <1>0, <2>1, ElementsOfTail
  <2>4. /\ \A i \in 1 .. Len(q) : Opened(q[i].ref)
        /\ \A i \in 1 .. Len(q) :
             q[i].kind = "session" /\ q[i].ref.id \notin {0, slot.turn} => i = 1 /\ q[i].ref = record.session
    BY <1>0 DEF RefsAreOpen
  <2>5. Opened(record'.session)
    <3>1. Opened(record.session) BY <1>0 DEF RefsAreOpen
    <3>2. Opened(Head(q).ref) BY <2>3, <2>4
    <3> QED BY <2>1, <3>1, <3>2
  <2>6. \A i \in 1 .. Len(turnTask'.updates) :
          /\ Opened(turnTask'.updates[i].ref)
          /\ turnTask'.updates[i].kind = "session" => turnTask'.updates[i].ref.id \in {0, slot.turn}
    <3> HIDE DEF q
    <3> SUFFICES ASSUME NEW i \in 1 .. Len(q) - 1
                 PROVE  /\ Opened(Tail(q)[i].ref)
                        /\ Tail(q)[i].kind = "session" => Tail(q)[i].ref.id \in {0, slot.turn}
      BY <2>1, <2>3
    <3>1. Tail(q)[i] = q[i + 1] /\ i + 1 \in 1 .. Len(q) /\ i + 1 # 1 BY <2>3
    <3> QED BY <2>4, <3>1
  <2>7. Opened(turnTask.ref) BY <1>0 DEF RefsAreOpen
  <2>8. turnTask'.at = "watch" /\ turnTask'.ref.id = 0 => turnTask'.ref.bg \in {0, slot'.turn}
    BY <2>1 DEF RefsAreOpen
  <2> HIDE DEF q
  <2> QED BY <2>1, <2>2, <2>5, <2>6, <2>7, <2>8 DEF RefsAreOpen, RefOpen, Opened
<1>12. ASSUME turnTask'.updates = turnTask.updates, turnTask'.ref = turnTask.ref,
              turnTask'.at = turnTask.at, SessionStays, slot'.turn = slot.turn
       PROVE  RefsAreOpen'
  BY <1>0, <1>12 DEF RefsAreOpen, SessionStays, RefOpen, Opened
<1>13. CASE Quits
  BY <1>12, <1>13 DEF Quits, OnlyTask, TurnStays, TaskBecomes
<1>14. CASE StartsLate \/ Calms \/ GivesReply \/ WorksAgain \/ SaysIdle
  BY <1>12, <1>14 DEF StartsLate, OnlyTask, TurnStays, Calms, GivesReply, WorksAgain, HarnessAlone, SaysIdle
<1>15. ASSUME NEW e, ReachesTurn(e) \/ ReachesIdle(e) \/ IsKept(e) PROVE RefsAreOpen'
  <2>1. turnTask'.updates = turnTask.updates /\ turnTask'.ref = turnTask.ref
        /\ turnTask'.at = turnTask.at
    BY <1>0, <1>15 DEF ReachesTurn, ReachesIdle, IsKept, Tasks
  <2> QED BY <1>12, <1>15, <2>1 DEF ReachesTurn, ReachesIdle, IsKept, Arrives, TurnStays
<1> QED BY <1>1, <1>2, <1>3, <1>4, <1>5, <1>6, <1>9, <1>10, <1>11, <1>13, <1>14, <1>15 DEF Kinds

-----------------------------------------------------------------------------
(* What the events and the updates tell of.                                *)
\* The elements of a queue whose first goes, and of two queues.
LEMMA RangeOfTail ==
  ASSUME NEW X, NEW q \in Seq(X), q # <<>>
  PROVE  Range(Tail(q)) \subseteq Range(q) /\ Head(q) \in Range(q)
<1>1. /\ Len(q) \in Nat \ {0} /\ Len(Tail(q)) = Len(q) - 1 /\ Tail(q) \in Seq(X)
      /\ \A i \in 1 .. Len(q) - 1 : Tail(q)[i] = q[i + 1]
      /\ Head(q) = q[1]
  BY ElementsOfTail
<1>2. DOMAIN q = 1 .. Len(q) /\ DOMAIN Tail(q) = 1 .. Len(q) - 1 BY <1>1, LenProperties
<1>3. \A i \in 1 .. Len(q) - 1 : i + 1 \in 1 .. Len(q) BY <1>1
<1> QED BY <1>1, <1>2, <1>3 DEF Range

\* Those of two queues one after the other are the elements of both.
LEMMA RangeOfConcat ==
  ASSUME NEW X, NEW p \in Seq(X), NEW q \in Seq(X)
  PROVE  Range(p \o q) \subseteq Range(p) \cup Range(q)
<1>1. /\ Len(p \o q) = Len(p) + Len(q) /\ p \o q \in Seq(X)
      /\ \A i \in 1 .. Len(p) + Len(q) :
            (p \o q)[i] = IF i <= Len(p) THEN p[i] ELSE q[i - Len(p)]
      /\ Len(p) \in Nat /\ Len(q) \in Nat
      /\ DOMAIN p = 1 .. Len(p) /\ DOMAIN q = 1 .. Len(q) /\ DOMAIN (p \o q) = 1 .. Len(p \o q)
  BY ConcatProperties, LenProperties
<1>2. ASSUME NEW i \in 1 .. Len(p) + Len(q)
      PROVE  (p \o q)[i] \in Range(p) \cup Range(q)
  <2>1. CASE i <= Len(p)
    <3>1. (p \o q)[i] = p[i] /\ i \in DOMAIN p BY <1>1, <2>1
    <3> QED BY <3>1 DEF Range
  <2>2. CASE i > Len(p)
    <3>1. (p \o q)[i] = q[i - Len(p)] /\ i - Len(p) \in DOMAIN q BY <1>1, <2>2
    <3> QED BY <3>1 DEF Range
  <2> QED BY <1>1, <2>1, <2>2
<1> QED BY <1>1, <1>2 DEF Range

\* An event as it is received.
LEMMA GotIs ==
  ASSUME TypesInv, TurnNumbers, NewIsUnused, EventsTell, NEW e \in flying
  PROVE  /\ Got(e) \in HookEvents /\ Got(e).kind = e.kind /\ Got(e).reply = e.reply
         /\ Got(e).session = e.session /\ OfReply(Got(e)) /\ Got(e).at <= 2 * generations + 1
         /\ OfTurn(Got(e)) => Got(e).at > 2 * slot.turn
<1>0. /\ MaxTurns \in Nat /\ generations \in 0 .. MaxTurns /\ e \in HookEvents
      /\ turnTask.at \in {"none", "launch", "watch", "rewatch"} /\ slot.turn \in 0 .. MaxTurns
      /\ (turnTask.at = "none") = (slot.turn = 0)
  BY SpokenTypes DEF Tasks
<1>1. ReceivedAt \in 0 .. 2 * MaxTurns + 1 /\ ReceivedAt <= 2 * generations + 1
  BY <1>0 DEF ReceivedAt
<1>2. Got(e) \in HookEvents /\ Got(e).kind = e.kind /\ Got(e).reply = e.reply
      /\ Got(e).session = e.session /\ Got(e).at = ReceivedAt
  BY <1>0, <1>1 DEF Got, HookEvents
<1>3. OfReply(e) BY DEF EventsTell, OnTheWay
<1>4. OfReply(Got(e)) BY <1>2, <1>3 DEF OfReply
<1>5. ASSUME OfTurn(Got(e)) PROVE ReceivedAt > 2 * slot.turn
  <2>1. slot.turn # 0 /\ slot.turn = generations BY <1>5 DEF OfTurn, TurnNumbers
  <2>2. ~Unused(slot.turn) BY <1>4, <1>5 DEF OfTurn, OfReply, Unused
  <2>3. turnTask.at = "watch" BY <1>0, <2>1, <2>2 DEF NewIsUnused, TurnNumbers
  <2> QED BY <1>0, <2>1, <2>3 DEF ReceivedAt, HasLaunched
<1> QED BY <1>1, <1>2, <1>4, <1>5

\* The events stay what they are while the turn does.
LEMMA EventsStayKnown ==
  ASSUME EventsTell, \A e : OfReply(e) => OfReply(e)',
         \A e \in OnTheWay' : e \in OnTheWay \/ OfReply(e)',
         Range(turnTask'.hooks) \subseteq Range(turnTask.hooks) \cup Range(kept),
         Range(kept') \subseteq Range(kept),
         slot'.turn \in {0, slot.turn}, UNCHANGED generations
  PROVE  EventsTell'
<1>1. \A e : OfTurn(e)' => OfTurn(e) /\ slot'.turn = slot.turn BY DEF OfTurn
<1> QED BY <1>1 DEF EventsTell, OfReply

\* Every event stays one of a session and a reply there are.
LEMMA KindsKeepEvents ==
  ASSUME TypesInv, TypesInv', TurnNumbers, NewIsUnused, WorkIsNew, EventsTell, Kinds
  PROVE  EventsTell'
<1>0. /\ \A e : OfReply(e) => OfReply(e)'
      /\ turnTask.hooks \in Seq(HookEvents) /\ kept \in Seq(HookEvents) /\ turnTask \in Tasks
      /\ generations \in Nat /\ MaxTurns \in Nat /\ Range(<<>>) = {} /\ harness \in Places
  BY SpokenTypes, HarnessGrows, TurnBounds DEF Range
<1>1. ASSUME NEW ref, Begins(ref) PROVE EventsTell'
  <2>1. /\ Range(turnTask'.hooks) = {} /\ Range(kept') \subseteq Range(kept)
        /\ UNCHANGED OnTheWay /\ generations' = generations + 1 /\ slot'.turn = generations + 1
        /\ generations + 1 \in Turns /\ UNCHANGED harness
    BY <1>0, <1>1, BeginsWith, ForwardedWas DEF Begins, OnTheWay
  <2>2. Unused(generations + 1) BY <1>0, <2>1 DEF NewIsUnused, Turns
  <2>3. \A e : OfReply(e) => ~OfTurn(e)' BY <2>1, <2>2 DEF OfReply, OfTurn, Unused
  <2>4. \A e \in Range(kept') : /\ OfReply(e) /\ e.at <= 2 * generations + 1
    BY <2>1 DEF EventsTell
  <2>5. \A e \in Range(kept) : e.at \in Int
    <3>1. Range(kept) \subseteq HookEvents BY <1>0, LenProperties DEF Range
    <3> QED BY <1>0, <3>1 DEF HookEvents
  <2>6. \A e \in Range(kept') : e.at <= 2 * generations' + 1 BY <1>0, <2>1, <2>4, <2>5
  <2>7. \A e \in OnTheWay : OfReply(e) BY DEF EventsTell
  <2> QED BY <1>0, <2>1, <2>3, <2>4, <2>6, <2>7 DEF EventsTell
<1>2. CASE Rests \/ Finishes \/ IsStopped \/ SaysIdle
  <2>1. /\ OnTheWay' \subseteq OnTheWay /\ UNCHANGED <<kept, generations>>
        /\ turnTask' = turnTask \/ turnTask' = NoTask
        /\ slot'.turn \in {0, slot.turn}
    BY <1>2 DEF Rests, TurnStays, Finishes, IsStopped, SaysIdle, OnTheWay, EventsStay
  <2> QED BY <1>0, <2>1, EventsStayKnown, NoTaskIs
<1>3. CASE Quits \/ Tells \/ Learns \/ Loses \/ TakesHook \/ StartsWork \/ StartsLate
  <2>1. UNCHANGED <<kept, generations, OnTheWay>> /\ slot'.turn = slot.turn
    BY <1>3 DEF Quits, Tells, Learns, Loses, TakesHook, StartsWork, StartsLate, OnlyTask, TurnStays,
       EventsStay, OnTheWay
  <2>2. \/ turnTask'.hooks = turnTask.hooks
        \/ turnTask.hooks # <<>> /\ turnTask'.hooks = Tail(turnTask.hooks)
    BY <1>3 DEF Quits, Tells, Learns, Loses, TakesHook, StartsWork, StartsLate, Names, TaskBecomes
  <2>3. Range(turnTask'.hooks) \subseteq Range(turnTask.hooks) BY <1>0, <2>2, RangeOfTail
  <2> QED BY <1>0, <2>1, <2>3, EventsStayKnown
<1>4. CASE Calms \/ GivesReply \/ WorksAgain
  <2>1. UNCHANGED <<kept, generations, reading, turnTask>> /\ slot'.turn = slot.turn
    BY <1>4 DEF Calms, GivesReply, WorksAgain, HarnessAlone, TurnStays
  <2>2. \A e \in flying' : e \in flying \/ OfReply(e)'
    <3>1. CASE Calms
      <4>1. \A b \in harness.open : OfReply(Event("prompt", b)) BY DEF Event, OfReply
      <4> QED BY <1>0, <3>1, <4>1 DEF Calms
    <3>2. CASE GivesReply
      <4>1. PICK b \in harness.open :
              /\ harness.work[b] # 0
              /\ harness' = [harness EXCEPT !.work[b] = 0, !.replied = @ \cup {harness.work[b]}]
              /\ flying' = {Event("stop", b)} \/ flying' = {}
        BY <3>2 DEF GivesReply
      <4>2. b \in Turns BY <1>0 DEF Places
      <4>3. harness'.open = harness.open /\ harness'.replied = harness.replied \cup {harness.work[b]}
        BY <1>0, <4>1 DEF Places
      <4>4. harness.work[b] <= MaxTurns => b <= harness.work[b] BY <4>1, <4>2 DEF WorkIsNew
      <4>5. PICK x : x = Event("stop", b) OBVIOUS
      <4>6. x.session = b /\ x.reply = harness.work[b] BY <4>5 DEF Event
      <4>7. OfReply(x)' BY <4>1, <4>3, <4>4, <4>6 DEF OfReply
      <4> QED BY <4>1, <4>5, <4>7
    <3>3. CASE WorksAgain BY <3>3 DEF WorksAgain
    <3> QED BY <1>4, <3>1, <3>2, <3>3
  <2> QED BY <1>0, <2>1, <2>2, EventsStayKnown DEF OnTheWay
<1>5. CASE TakesSession
  <2>1. PICK ref : /\ turnTask'.hooks = turnTask.hooks \o NotBefore(Forwarded(ref), slot.turn)
                   /\ kept' = KeptAfter(ref)
    BY <1>5 DEF TakesSession, Takes, TaskBecomes
  <2>2. UNCHANGED <<OnTheWay, generations>> /\ slot'.turn = slot.turn
    BY <1>5 DEF TakesSession, Takes, OnTheWay
  <2> DEFINE f == NotBefore(Forwarded(ref), slot.turn)
  <2>3. f \in Seq(HookEvents) /\ Range(f) \subseteq Range(kept) /\ Range(kept') \subseteq Range(kept)
    BY <2>1, ForwardedWas
  <2>4. turnTask'.hooks = turnTask.hooks \o f BY <2>1
  <2> HIDE DEF f
  <2>5. Range(turnTask'.hooks) \subseteq Range(turnTask.hooks) \cup Range(kept)
    BY <1>0, <2>3, <2>4, RangeOfConcat
  <2> QED BY <1>0, <2>2, <2>3, <2>5, EventsStayKnown
<1>6. CASE TakesReply \/ TakesNews
  <2>1. /\ UNCHANGED <<kept, OnTheWay, generations>> /\ slot'.turn = slot.turn
        /\ turnTask'.hooks = turnTask.hooks
    BY <1>6 DEF TakesReply, TakesNews, Takes, TaskBecomes, OnTheWay
  <2> QED BY <1>0, <2>1, EventsStayKnown
<1>7. ASSUME NEW e, ReachesTurn(e) \/ ReachesIdle(e) \/ IsKept(e) PROVE EventsTell'
  <2> DEFINE got == Got(e)
  <2>1. e \in flying /\ flying' \subseteq flying /\ UNCHANGED <<generations, harness>>
        /\ slot'.turn = slot.turn
    BY <1>7 DEF ReachesTurn, ReachesIdle, IsKept, Arrives, TurnStays
  <2>2. /\ got \in HookEvents /\ OfReply(got) /\ got.at <= 2 * generations + 1
        /\ OfTurn(got) => got.at > 2 * slot.turn
    BY <2>1, GotIs
  <2> HIDE DEF got
  <2>3. /\ \A x : OfReply(x)' <=> OfReply(x)
        /\ \A x : OfTurn(x)' <=> OfTurn(x)
    BY <2>1 DEF OfReply, OfTurn
  <2>4. CASE ReachesTurn(e)
    <3>1. Range(turnTask'.hooks) = Range(turnTask.hooks) \cup {got}
      BY <1>0, <2>2, <2>4, RangeOfAppend DEF ReachesTurn, Tasks, got
    <3> QED BY <2>1, <2>2, <2>3, <2>4, <3>1 DEF ReachesTurn, EventsTell, OnTheWay
  <2>5. CASE ReachesIdle(e)
    BY <2>1, <2>2, <2>3, <2>5 DEF ReachesIdle, EventsTell, OnTheWay, got
  <2>6. CASE IsKept(e)
    <3>1. Range(kept') \subseteq Range(kept) \cup {got}
      BY <1>0, <2>6, KeepingOneMore DEF IsKept, got
    <3> QED BY <2>1, <2>2, <2>3, <2>6, <3>1 DEF IsKept, EventsTell, OnTheWay
  <2> QED BY <1>7, <2>4, <2>5, <2>6
<1> QED BY <1>1, <1>2, <1>3, <1>4, <1>5, <1>6, <1>7 DEF Kinds

\* A reply that is said is heard once more.
LEMMA DeliversIs ==
  ASSUME TypesInv, NEW r \in Answers, Delivers(r)
  PROVE  /\ heard' \in [Answers -> 0 .. 2] /\ heard'[r] # 0
         /\ heard'[r] = 2 => heard[r] # 0
         /\ \A s \in Answers : s # r => heard'[s] = heard[s]
BY SpokenTypes DEF Delivers

\* Which replies are said in a step.
Says(r) ==
  \/ Finishes /\ turnTask.out \in {"reply", "polled"} /\ r = turnTask.outReply
  \/ TakesReply /\ r = Head(turnTask.updates).reply
  \/ SaysIdle /\ \E e \in reading : e.kind = "stop" /\ e.reply = r /\ reading' = reading \ {e}

\* The other replies are heard no more than before.
LEMMA SaidBy ==
  ASSUME Kinds
  PROVE  UNCHANGED heard \/ \E r : Says(r) /\ Delivers(r) /\ (Finishes \/ ~IsPolled(r))
<1>1. CASE Finishes BY <1>1 DEF Finishes, Says
<1>2. CASE TakesReply BY <1>2 DEF TakesReply, SaysOf, Says
<1>3. CASE SaysIdle
  <2>1. PICK e \in reading : e.kind = "stop" /\ reading' = reading \ {e} /\ SaysOf(e.reply)
    BY <1>3 DEF SaysIdle
  <2>2. Says(e.reply) BY <1>3, <2>1 DEF Says
  <2> QED BY <2>1, <2>2 DEF SaysOf
<1>4. CASE ~Finishes /\ ~TakesReply /\ ~SaysIdle
  <2> USE DEF OnlyTask, TalkStays
  <2>1. CASE \/ Rests \/ (\E ref : Begins(ref)) \/ IsStopped
             \/ Quits \/ Tells \/ Learns \/ Loses \/ TakesHook \/ StartsWork \/ StartsLate
    BY <2>1 DEF Rests, Begins, IsStopped, Quits, Tells, Learns, Loses, TakesHook, StartsWork, StartsLate
  <2>2. CASE \/ TakesSession \/ TakesNews \/ GivesReply \/ WorksAgain \/ Calms
             \/ (\E e : ReachesTurn(e)) \/ (\E e : ReachesIdle(e)) \/ (\E e : IsKept(e))
    BY <2>2 DEF TakesSession, TakesNews, GivesReply, WorksAgain, Calms, HarnessAlone,
       ReachesTurn, ReachesIdle, IsKept, Arrives
  <2> QED BY <1>4, <2>1, <2>2 DEF Kinds
<1> QED BY <1>1, <1>2, <1>3, <1>4

\* What is said is a reply that is out.
LEMMA SaidIsOut ==
  ASSUME TypesInv, TurnNumbers, EventsTell, RepliesAreOut, NEW r, Says(r)
  PROVE  r \in Answers /\ r \in harness.replied
<1>0. /\ harness.replied \subseteq Answers /\ turnTask.updates \in Seq(Updates)
  BY SpokenTypes DEF Places
<1>1. CASE Finishes /\ turnTask.out \in {"reply", "polled"} /\ r = turnTask.outReply
  BY <1>0, <1>1 DEF TurnNumbers, RepliesAreOut
<1>2. CASE TakesReply /\ r = Head(turnTask.updates).reply
  <2>1. Head(turnTask.updates) \in Range(turnTask.updates) /\ Head(turnTask.updates).kind = "reply"
    BY <1>0, <1>2, RangeOfTail DEF TakesReply, Takes
  <2> QED BY <1>0, <1>2, <2>1 DEF RepliesAreOut
<1>3. CASE \E e \in reading : e.kind = "stop" /\ e.reply = r /\ reading' = reading \ {e}
  BY <1>0, <1>3 DEF EventsTell, OnTheWay, OfReply
<1> QED BY <1>1, <1>2, <1>3 DEF Says

\* The task's updates: as they are, with one more, without the first, or none.
LEMMA UpdatesChange ==
  ASSUME TypesInv, TurnNumbers, EventsTell, Kinds
  PROVE  \/ UNCHANGED turnTask.updates /\ slot'.turn \in {0, slot.turn}
         \/ turnTask'.updates = <<>>
         \/ /\ turnTask.updates # <<>> /\ turnTask'.updates = Tail(turnTask.updates)
            /\ slot'.turn = slot.turn
         \/ /\ \E u : turnTask'.updates = Append(turnTask.updates, u) /\ u.kind # "reply"
            /\ slot'.turn = slot.turn
         \/ /\ TakesHook
            /\ Head(turnTask.hooks).kind = "stop" /\ ~(Head(turnTask.hooks).at > 2 * slot.turn)
            /\ turnTask'.updates
                 = Append(turnTask.updates, Update("reply", NoSession, Head(turnTask.hooks).reply))
            /\ slot'.turn = slot.turn
<1>0. turnTask \in Tasks BY SpokenTypes
<1>1. ASSUME NEW ref, Begins(ref) PROVE turnTask'.updates = <<>>
  BY <1>1, BeginsWith
<1>2. CASE Finishes \/ IsStopped
  BY <1>2, NoTaskIs DEF Finishes, IsStopped
<1>3. CASE TakesSession \/ TakesReply \/ TakesNews
  BY <1>3 DEF TakesSession, TakesReply, TakesNews, Takes, TaskBecomes
<1>4. CASE TakesHook
  <2>1. Update("waits", NoSession, 0).kind # "reply" BY DEF Update
  <2> QED BY <1>4, <2>1 DEF TakesHook, TaskBecomes, OnlyTask, TurnStays
<1>5. CASE Tells \/ Learns \/ Loses \/ StartsWork
  <2>1. \A kind, ref : Update(kind, ref, 0).kind = kind BY DEF Update
  <2>2. slot'.turn = slot.turn BY <1>5 DEF Tells, Learns, Loses, StartsWork, OnlyTask, TurnStays
  <2>3. \E kind \in {"waits", "works", "session"} : \E ref :
          turnTask'.updates = Append(turnTask.updates, Update(kind, ref, 0))
    BY <1>5 DEF Tells, Learns, Loses, StartsWork, Names, TaskBecomes
  <2> QED BY <2>1, <2>2, <2>3
<1>6. CASE Rests \/ Quits \/ StartsLate \/ Calms \/ GivesReply \/ WorksAgain \/ SaysIdle
  BY <1>6 DEF Rests, Quits, StartsLate, OnlyTask, TurnStays, TaskBecomes, Calms, GivesReply,
     WorksAgain, HarnessAlone, SaysIdle
<1>7. ASSUME NEW e, ReachesTurn(e) \/ ReachesIdle(e) \/ IsKept(e)
      PROVE  UNCHANGED turnTask.updates /\ slot'.turn = slot.turn
  BY <1>0, <1>7 DEF ReachesTurn, ReachesIdle, IsKept, Arrives, TurnStays, Tasks
<1> QED BY <1>1, <1>2, <1>3, <1>4, <1>5, <1>6, <1>7 DEF Kinds

\* And its outcome.
LEMMA OutcomeChanges ==
  ASSUME TypesInv, EventsTell, Kinds, turnTask'.out = "reply"
  PROVE  \/ turnTask.out = "reply" /\ turnTask'.outReply = turnTask.outReply
         \/ /\ TakesHook /\ turnTask.out = "none"
            /\ Head(turnTask.hooks).kind = "stop" /\ turnTask'.outReply = Head(turnTask.hooks).reply
            /\ turnTask'.updates = turnTask.updates
<1>0. turnTask \in Tasks BY SpokenTypes
<1>1. \A ref : ~Begins(ref) BY BeginsWith
<1>2. ~Finishes /\ ~IsStopped BY NoTaskIs DEF Finishes, IsStopped
<1>3. ~Quits /\ ~Tells /\ ~Learns /\ ~Loses /\ ~StartsWork
  BY DEF Quits, Tells, Learns, Loses, StartsWork, Names, TaskBecomes
<1>4. CASE TakesHook
  BY <1>4 DEF TakesHook, TaskBecomes, Watching
<1>5. CASE TakesSession \/ TakesReply \/ TakesNews
  BY <1>5 DEF TakesSession, TakesReply, TakesNews, Takes, TaskBecomes
<1>6. CASE Rests \/ StartsLate \/ Calms \/ GivesReply \/ WorksAgain \/ SaysIdle
  BY <1>6 DEF Rests, StartsLate, OnlyTask, Calms, GivesReply, WorksAgain, HarnessAlone, SaysIdle
<1>7. ASSUME NEW e, ReachesTurn(e) \/ ReachesIdle(e) \/ IsKept(e)
      PROVE  UNCHANGED <<turnTask.out, turnTask.outReply>>
  BY <1>0, <1>7 DEF ReachesTurn, ReachesIdle, IsKept, Tasks
<1> QED BY <1>1, <1>2, <1>3, <1>4, <1>5, <1>6, <1>7 DEF Kinds

\* The replies told, and those heard, stay replies that are out.
LEMMA KindsKeepReplies ==
  ASSUME TypesInv, TypesInv', TurnNumbers, NewIsUnused, EventsTell, RepliesAreOut, Kinds
  PROVE  RepliesAreOut'
<1>0. /\ harness.replied \subseteq harness'.replied /\ turnTask.updates \in Seq(Updates)
      /\ turnTask.hooks \in Seq(HookEvents) /\ Range(<<>>) = {}
      /\ harness.replied \subseteq Answers /\ 0 \notin Answers
  BY SpokenTypes, HarnessGrows, TurnBounds DEF Range, Answers, Places
<1>1. \A u \in Range(turnTask'.updates) :
        u.kind = "reply" => u.reply \in harness'.replied /\ u.reply # slot'.turn
  <2>1. CASE UNCHANGED turnTask.updates /\ slot'.turn \in {0, slot.turn}
    BY <1>0, <2>1 DEF RepliesAreOut
  <2>2. CASE turnTask'.updates = <<>> BY <1>0, <2>2
  <2>3. CASE /\ turnTask.updates # <<>> /\ turnTask'.updates = Tail(turnTask.updates)
             /\ slot'.turn = slot.turn
    BY <1>0, <2>3, RangeOfTail DEF RepliesAreOut
  <2>4. ASSUME NEW u, turnTask'.updates = Append(turnTask.updates, u), slot'.turn = slot.turn,
               u.kind = "reply" => u.reply \in harness.replied /\ u.reply # slot.turn
        PROVE  \A v \in Range(turnTask'.updates) :
                 v.kind = "reply" => v.reply \in harness'.replied /\ v.reply # slot'.turn
    <3>1. turnTask.updates \in Seq(Updates \cup {u}) /\ u \in Updates \cup {u} BY <1>0
    <3>2. Range(turnTask'.updates) = Range(turnTask.updates) \cup {u} BY <2>4, <3>1, RangeOfAppend
    <3> QED BY <1>0, <2>4, <3>2 DEF RepliesAreOut
  <2>5. CASE /\ TakesHook
             /\ Head(turnTask.hooks).kind = "stop" /\ ~(Head(turnTask.hooks).at > 2 * slot.turn)
             /\ turnTask'.updates
                  = Append(turnTask.updates, Update("reply", NoSession, Head(turnTask.hooks).reply))
             /\ slot'.turn = slot.turn
    <3>1. Head(turnTask.hooks) \in Range(turnTask.hooks)
      BY <1>0, <2>5, RangeOfTail DEF TakesHook
    <3>2. slot.turn # 0 BY <2>5, SpokenTypes DEF TakesHook, Watching
    <3>3. Head(turnTask.hooks).reply \in harness.replied /\ Head(turnTask.hooks).reply # slot.turn
      BY <2>5, <3>1, <3>2 DEF EventsTell, OfReply, OfTurn
    <3>4. Update("reply", NoSession, Head(turnTask.hooks).reply).reply = Head(turnTask.hooks).reply
      BY DEF Update
    <3> QED BY <2>4, <2>5, <3>3, <3>4
  <2> QED BY <2>1, <2>2, <2>3, <2>4, <2>5, UpdatesChange
<1>2. turnTask'.out = "reply" => turnTask'.outReply \in harness'.replied
  <2>1. CASE TakesHook /\ Head(turnTask.hooks).kind = "stop"
             /\ turnTask'.outReply = Head(turnTask.hooks).reply
    <3>1. Head(turnTask.hooks) \in Range(turnTask.hooks)
      BY <1>0, <2>1, RangeOfTail DEF TakesHook
    <3> QED BY <1>0, <2>1, <3>1 DEF EventsTell, OfReply
  <2> QED BY <1>0, <2>1, OutcomeChanges DEF RepliesAreOut
<1>3. \A r \in Answers : heard'[r] > 0 => r \in harness'.replied
  <2>1. CASE UNCHANGED heard BY <1>0, <2>1 DEF RepliesAreOut
  <2>2. ASSUME NEW r, Says(r), Delivers(r)
        PROVE  \A s \in Answers : heard'[s] > 0 => s \in harness'.replied
    <3>1. r \in Answers /\ r \in harness.replied BY <2>2, SaidIsOut
    <3>2. \A s \in Answers : s # r => heard'[s] = heard[s] BY <2>2, <3>1, DeliversIs
    <3> QED BY <1>0, <3>1, <3>2 DEF RepliesAreOut
  <2> QED BY <2>1, <2>2, SaidBy
<1> QED BY <1>1, <1>2, <1>3 DEF RepliesAreOut

-----------------------------------------------------------------------------
(* How a step moves a reply: it is said or forgotten, or stays; its Stop   *)
(* is taken by the driver, claimed by the turn, or received; it is given.  *)
Dropped(r) ==
  /\ InUpdates(r)' <= InUpdates(r) /\ InHooks(r)' <= InHooks(r) /\ InKept(r)' <= InKept(r)
  /\ InFlight(r)' => InFlight(r)
  /\ OutIs(r)' => OutIs(r)
TookIt(r) ==
  /\ InHooks(r) = InHooks(r)' + 1 /\ InKept(r)' = InKept(r)
  /\ InFlight(r)' => InFlight(r)
  /\ ~OutIs(r)
  /\ \/ InUpdates(r)' = InUpdates(r) + 1 /\ ~OutIs(r)'
     \/ InUpdates(r)' = InUpdates(r)
Claimed(r) ==
  /\ InUpdates(r)' <= InUpdates(r) /\ InKept(r)' <= InKept(r)
  /\ InHooks(r)' + InKept(r)' <= InHooks(r) + InKept(r)
  /\ InFlight(r)' => InFlight(r)
  /\ OutIs(r)' => OutIs(r)
Arrived(r) ==
  /\ InFlight(r) /\ ~InFlight(r)' /\ InUpdates(r)' <= InUpdates(r)
  /\ OutIs(r)' => OutIs(r)
  /\ \/ InHooks(r)' <= InHooks(r) + 1 /\ InKept(r)' <= InKept(r)
     \/ /\ InHooks(r)' <= InHooks(r) /\ InKept(r)' <= InKept(r) + 1
        /\ InKept(r)' > InKept(r) => slot.turn # 0 /\ (r <= MaxTurns => slot.turn <= r)
Given(r) ==
  /\ r \notin harness.replied
  /\ InUpdates(r)' <= InUpdates(r) /\ InHooks(r)' <= InHooks(r) /\ InKept(r)' <= InKept(r)
  /\ OutIs(r)' => OutIs(r)
Moved(r) == Dropped(r) \/ TookIt(r) \/ Claimed(r) \/ Arrived(r) \/ Given(r)

\* The counts, and the queues they count.
LEMMA CountsAre ==
  ASSUME TypesInv, TypesInv', NEW r
  PROVE  /\ InUpdates(r) \in Nat /\ InHooks(r) \in Nat /\ InKept(r) \in Nat
         /\ InUpdates(r)' \in Nat /\ InHooks(r)' \in Nat /\ InKept(r)' \in Nat
         /\ turnTask' \in Tasks /\ turnTask'.updates \in Seq(Updates)
         /\ turnTask'.hooks \in Seq(HookEvents) /\ kept' \in Seq(HookEvents)
<1>1. /\ turnTask.updates \in Seq(Updates) /\ turnTask.hooks \in Seq(HookEvents)
      /\ kept \in Seq(HookEvents)
  BY SpokenTypes
<1>2. /\ turnTask' \in Tasks /\ turnTask'.updates \in Seq(Updates)
      /\ turnTask'.hooks \in Seq(HookEvents) /\ kept' \in Seq(HookEvents)
  BY DEF TypesInv, TaskTyped, EventsTyped, Tasks
<1>3. N(turnTask.updates, Said(r)) \in Nat /\ N(turnTask'.updates, Said(r)) \in Nat
  BY <1>1, <1>2, Counted
<1>4. N(turnTask.hooks, Stops(r)) \in Nat /\ N(turnTask'.hooks, Stops(r)) \in Nat
  BY <1>1, <1>2, Counted
<1>5. N(kept, Late(r)) \in Nat /\ N(kept', Late(r)') \in Nat
  BY <1>1, <1>2, Counted
<1> QED BY <1>2, <1>3, <1>4, <1>5 DEF InUpdates, InHooks, InKept

\* Nothing kept is late for a turn no kept event is of.
LEMMA NoneLate ==
  ASSUME NEW q \in Seq(HookEvents), NEW r, NEW g, \A e \in Range(q) : e.session # g
  PROVE  N(q, {e \in Stops(r) : e.session = g}) = 0
<1> DEFINE T == {e \in Stops(r) : e.session = g}
<1>1. \A i \in 1 .. Len(q) : q[i] \in Range(q) BY LenProperties DEF Range
<1>2. \A i \in 1 .. Len(q) : q[i] \notin T BY <1>1
<1> HIDE DEF T
<1>3. N(q, T) = 0 BY <1>2, CountedNone
<1> QED BY <1>3 DEF T

\* The task and the kept events as they were, or gone.
LEMMA StayingDrops ==
  ASSUME UNCHANGED <<turnTask.updates, turnTask.hooks, kept>>, slot'.turn = slot.turn,
         OnTheWay' \subseteq OnTheWay, NEW r,
         turnTask'.out = "reply" => turnTask.out = "reply" /\ turnTask'.outReply = turnTask.outReply
  PROVE  InUpdates(r)' = InUpdates(r) /\ InHooks(r)' = InHooks(r) /\ InKept(r)' = InKept(r)
         /\ (InFlight(r)' => InFlight(r)) /\ (OutIs(r)' => OutIs(r))
BY DEF InUpdates, InHooks, InKept, Late, InFlight, OutIs

\* A turn that is gone or only starts has nothing on its way to it.
LEMMA EmptyDrops ==
  ASSUME TypesInv, TypesInv', turnTask'.updates = <<>>, turnTask'.hooks = <<>>, turnTask'.out = "none",
         \A e \in Range(kept') : e.session # slot'.turn, OnTheWay' \subseteq OnTheWay, NEW r
  PROVE  Dropped(r) /\ InKept(r)' = 0
<1>1. N(<<>>, Said(r)) = 0 /\ N(<<>>, Stops(r)) = 0
  BY Counted, EmptySeq
<1>2. InUpdates(r)' = 0 /\ InHooks(r)' = 0 BY <1>1 DEF InUpdates, InHooks
<1>3. InKept(r)' = 0
  <2>1. kept' \in Seq(HookEvents) BY CountsAre
  <2>2. N(kept', {e \in Stops(r) : e.session = slot'.turn}) = 0 BY <2>1, NoneLate
  <2> QED BY <2>2 DEF InKept, Late
<1> QED BY <1>2, <1>3, CountsAre DEF Dropped, InFlight, OutIs

\* A reply that is not out is nowhere.
LEMMA NewIsNowhere ==
  ASSUME TypesInv, EventsTell, RepliesAreOut, NEW r, r \notin harness.replied
  PROVE  /\ InUpdates(r) = 0 /\ InHooks(r) = 0 /\ InKept(r) = 0
         /\ ~InFlight(r) /\ ~OutIs(r)
<1>0. /\ turnTask.updates \in Seq(Updates) /\ turnTask.hooks \in Seq(HookEvents)
      /\ kept \in Seq(HookEvents)
  BY SpokenTypes
<1>1. InUpdates(r) = 0
  <2>1. \A i \in 1 .. Len(turnTask.updates) : turnTask.updates[i] \in Range(turnTask.updates)
    BY <1>0, LenProperties DEF Range
  <2>2. \A i \in 1 .. Len(turnTask.updates) : turnTask.updates[i] \notin Said(r)
    BY <2>1 DEF RepliesAreOut, Said, AllSaid
  <2> QED BY <1>0, <2>2, CountedNone DEF InUpdates
<1>2. \A e : OfReply(e) => e \notin Stops(r) BY DEF OfReply, Stops, AllStops
<1>3. InHooks(r) = 0
  <2>1. \A i \in 1 .. Len(turnTask.hooks) : turnTask.hooks[i] \in Range(turnTask.hooks)
    BY <1>0, LenProperties DEF Range
  <2>2. \A i \in 1 .. Len(turnTask.hooks) : turnTask.hooks[i] \notin Stops(r)
    BY <1>2, <2>1 DEF EventsTell
  <2> QED BY <1>0, <2>2, CountedNone DEF InHooks
<1>4. InKept(r) = 0
  <2>1. \A i \in 1 .. Len(kept) : kept[i] \in Range(kept) BY <1>0, LenProperties DEF Range
  <2>2. \A i \in 1 .. Len(kept) : kept[i] \notin Late(r) BY <1>2, <2>1 DEF EventsTell, Late
  <2> QED BY <1>0, <2>2, CountedNone DEF InKept
<1>5. ~InFlight(r) BY <1>2 DEF InFlight, EventsTell
<1>6. ~OutIs(r) BY DEF OutIs, RepliesAreOut
<1> QED BY <1>1, <1>3, <1>4, <1>5, <1>6

\* A turn that starts, ends or is stopped drops what was on its way to it.
LEMMA TurnsDrop ==
  ASSUME TypesInv, TypesInv', NewIsUnused, EventsTell, NEW r,
         (\E ref : Begins(ref)) \/ Finishes \/ IsStopped
  PROVE  Dropped(r) /\ InKept(r)' = 0
<1>0. kept \in Seq(HookEvents) /\ MaxTurns \in Nat /\ generations \in Nat BY SpokenTypes
<1>1. \A e \in Range(kept) : e.session \in Turns /\ e.session \in harness.open
  <2>1. Range(kept) \subseteq HookEvents BY <1>0, LenProperties DEF Range
  <2> QED BY <2>1 DEF HookEvents, EventsTell, OfReply
<1>2. ASSUME NEW ref, Begins(ref) PROVE Dropped(r) /\ InKept(r)' = 0
  <2>1. /\ turnTask'.updates = <<>> /\ turnTask'.hooks = <<>> /\ turnTask'.out = "none"
        /\ UNCHANGED OnTheWay
    BY <1>2, BeginsWith DEF Begins, OnTheWay
  <2>2. Range(kept') \subseteq Range(kept) /\ slot'.turn = generations + 1
    BY <1>2, ForwardedWas DEF Begins
  <2>3. generations + 1 \notin harness.open BY <1>0 DEF NewIsUnused
  <2> QED BY <1>1, <2>1, <2>2, <2>3, EmptyDrops
<1>3. CASE Finishes \/ IsStopped
  <2>1. /\ turnTask' = NoTask /\ UNCHANGED <<kept, OnTheWay>> /\ slot'.turn = 0
    BY <1>3 DEF Finishes, IsStopped, EventsStay, OnTheWay
  <2>2. 0 \notin Turns BY <1>0 DEF Turns
  <2> QED BY <1>1, <2>1, <2>2, NoTaskIs, EmptyDrops
<1> QED BY <1>2, <1>3

\* An update that is no reply is not counted.
LEMMA OthersUncounted ==
  ASSUME NEW q \in Seq(Updates), NEW u, u.kind # "reply", NEW r
  PROVE  /\ N(Append(q, u), Said(r)) = N(q, Said(r))
         /\ N(Append(q, u), AllSaid) = N(q, AllSaid)
<1>1. q \in Seq(Updates \cup {u}) /\ u \in Updates \cup {u} OBVIOUS
<1>2. u \notin Said(r) /\ u \notin AllSaid BY DEF Said, AllSaid
<1>3. N(q, Said(r)) \in Nat /\ N(q, AllSaid) \in Nat BY Counted
<1> QED BY <1>1, <1>2, <1>3, CountedAppended

\* The driver's other steps drop nothing.
LEMMA DriverDrops ==
  ASSUME TypesInv, TypesInv', NEW r,
         Rests \/ Quits \/ Tells \/ Learns \/ Loses \/ StartsWork \/ StartsLate \/ Calms \/ WorksAgain
  PROVE  Dropped(r)
<1>0. turnTask.updates \in Seq(Updates) BY SpokenTypes
<1>1. CASE Rests \/ Quits \/ StartsLate \/ WorksAgain
  <2>1. /\ UNCHANGED <<turnTask.updates, turnTask.hooks, kept>> /\ slot'.turn = slot.turn
        /\ OnTheWay' \subseteq OnTheWay
        /\ turnTask'.out = "reply" => turnTask.out = "reply" /\ turnTask'.outReply = turnTask.outReply
    BY <1>1 DEF Rests, Quits, StartsLate, OnlyTask, TurnStays, EventsStay, TaskBecomes, WorksAgain,
       HarnessAlone, OnTheWay
  <2> QED BY <2>1, StayingDrops, CountsAre DEF Dropped
<1>2. CASE Calms
  <2>1. /\ UNCHANGED <<turnTask, kept, reading>> /\ slot'.turn = slot.turn
    BY <1>2 DEF Calms, HarnessAlone, TurnStays
  <2>2. \A e \in flying' : e \in flying \/ e \notin Stops(r)
    <3>1. \A b : Event("prompt", b).kind = "prompt" BY DEF Event
    <3> QED BY <1>2, <3>1 DEF Calms, Stops, AllStops
  <2>3. /\ InUpdates(r)' = InUpdates(r) /\ InHooks(r)' = InHooks(r) /\ InKept(r)' = InKept(r)
        /\ OutIs(r)' => OutIs(r)
    BY <2>1 DEF InUpdates, InHooks, InKept, Late, OutIs
  <2>4. InFlight(r)' => InFlight(r) BY <2>1, <2>2 DEF InFlight, OnTheWay
  <2> QED BY <2>3, <2>4, CountsAre DEF Dropped
<1>3. CASE Tells \/ Learns \/ Loses \/ StartsWork
  <2>1. /\ UNCHANGED <<turnTask.hooks, kept, OnTheWay>> /\ slot'.turn = slot.turn
        /\ turnTask'.out # "reply"
    BY <1>3 DEF Tells, Learns, Loses, StartsWork, OnlyTask, TurnStays, EventsStay, Names,
       TaskBecomes, OnTheWay
  <2>2. \A kind, ref : Update(kind, ref, 0).kind = kind BY DEF Update
  <2>3. \E kind \in {"waits", "works", "session"} : \E ref :
          turnTask'.updates = Append(turnTask.updates, Update(kind, ref, 0))
    BY <1>3 DEF Tells, Learns, Loses, StartsWork, Names, TaskBecomes
  <2>4. PICK u : turnTask'.updates = Append(turnTask.updates, u) /\ u.kind # "reply" BY <2>2, <2>3
  <2>5. InUpdates(r)' = InUpdates(r) BY <1>0, <2>4, OthersUncounted DEF InUpdates
  <2>6. InHooks(r)' = InHooks(r) /\ InKept(r)' = InKept(r) BY <2>1 DEF InHooks, InKept, Late
  <2> QED BY <2>1, <2>5, <2>6, CountsAre DEF Dropped, InFlight, OutIs
<1> QED BY <1>1, <1>2, <1>3

\* An update applied, or an event handled, goes.
LEMMA TakingDrops ==
  ASSUME TypesInv, TypesInv', NEW r, TakesReply \/ TakesNews \/ SaysIdle
  PROVE  Dropped(r)
<1>0. turnTask.updates \in Seq(Updates) BY SpokenTypes
<1>1. CASE SaysIdle
  <2>1. /\ UNCHANGED <<turnTask.updates, turnTask.hooks, kept>> /\ slot'.turn = slot.turn
        /\ OnTheWay' \subseteq OnTheWay /\ UNCHANGED turnTask
    BY <1>1 DEF SaysIdle, OnTheWay
  <2> QED BY <2>1, StayingDrops, CountsAre DEF Dropped
<1>2. CASE TakesReply \/ TakesNews
  <2>1. /\ UNCHANGED <<turnTask.hooks, turnTask.out, turnTask.outReply, kept, OnTheWay>>
        /\ slot'.turn = slot.turn /\ turnTask.updates # <<>>
        /\ turnTask'.updates = Tail(turnTask.updates)
    BY <1>2 DEF TakesReply, TakesNews, Takes, TaskBecomes, OnTheWay
  <2>2. InHooks(r)' = InHooks(r) /\ InKept(r)' = InKept(r) BY <2>1 DEF InHooks, InKept, Late
  <2>3. N(turnTask.updates, Said(r)) = N(Tail(turnTask.updates), Said(r))
                             + (IF Head(turnTask.updates) \in Said(r) THEN 1 ELSE 0)
    BY <1>0, <2>1, CountedTail
  <2>4. InUpdates(r)' <= InUpdates(r) BY <2>1, <2>3, CountsAre DEF InUpdates
  <2> QED BY <2>1, <2>2, <2>4, CountsAre DEF Dropped, InFlight, OutIs
<1> QED BY <1>1, <1>2

\* A reply the harness gives was nowhere.
LEMMA GivingMoves ==
  ASSUME TypesInv, TypesInv', WorkIsNew, NEW r, GivesReply
  PROVE  Moved(r)
<1>0. harness \in Places BY SpokenTypes
<1>1. /\ UNCHANGED <<turnTask, kept, reading>> /\ slot'.turn = slot.turn
  BY DEF GivesReply, HarnessAlone, TurnStays
<1>2. /\ InUpdates(r)' = InUpdates(r) /\ InHooks(r)' = InHooks(r) /\ InKept(r)' = InKept(r)
      /\ OutIs(r)' => OutIs(r)
  BY <1>1 DEF InUpdates, InHooks, InKept, Late, OutIs
<1>3. PICK b \in harness.open : harness.work[b] # 0 /\ (flying' = {Event("stop", b)} \/ flying' = {})
  BY DEF GivesReply
<1>4. b \in Turns BY <1>0 DEF Places
<1>5. CASE r = harness.work[b]
  <2>1. r \notin harness.replied BY <1>3, <1>4, <1>5 DEF WorkIsNew
  <2> QED BY <1>2, <2>1, CountsAre DEF Given, Moved
<1>6. CASE r # harness.work[b]
  <2>1. Event("stop", b) \notin Stops(r) BY <1>6 DEF Event, Stops
  <2>2. InFlight(r)' => InFlight(r) BY <1>1, <1>3, <2>1 DEF InFlight, OnTheWay
  <2> QED BY <1>2, <2>2, CountsAre DEF Dropped, Moved
<1> QED BY <1>5, <1>6

\* The driver takes a hook event: a Stop is the turn's, or another reply.
LEMMA HookMoves ==
  ASSUME TypesInv, TypesInv', NEW r, TakesHook
  PROVE  Moved(r)
<1> DEFINE e == Head(turnTask.hooks)
<1>0. /\ turnTask.updates \in Seq(Updates) /\ turnTask.hooks \in Seq(HookEvents)
      /\ turnTask.hooks # <<>> /\ turnTask.out = "none" /\ UNCHANGED <<kept, OnTheWay>>
      /\ slot'.turn = slot.turn /\ turnTask'.hooks = Tail(turnTask.hooks)
  BY SpokenTypes DEF TakesHook, Watching, OnlyTask, TurnStays, EventsStay, OnTheWay, TaskBecomes
<1>1. e \in HookEvents
  <2>1. e \in Range(turnTask.hooks) BY <1>0, RangeOfTail
  <2> QED BY <1>0, <2>1, LenProperties DEF Range
<1>2. InHooks(r) = InHooks(r)' + (IF e \in Stops(r) THEN 1 ELSE 0)
  <2>1. N(turnTask.hooks, Stops(r)) = N(Tail(turnTask.hooks), Stops(r)) + (IF e \in Stops(r) THEN 1 ELSE 0)
    BY <1>0, CountedTail
  <2> QED BY <1>0, <2>1 DEF InHooks
<1>3. InKept(r)' = InKept(r) BY <1>0 DEF InKept, Late
<1>4. ~OutIs(r) /\ (InFlight(r)' => InFlight(r)) BY <1>0 DEF OutIs, InFlight
<1>5. \/ /\ e.kind = "stop" /\ turnTask'.out = "none"
         /\ turnTask'.updates = Append(turnTask.updates, Update("reply", NoSession, e.reply))
      \/ e.kind = "stop" /\ turnTask'.outReply = e.reply /\ turnTask'.updates = turnTask.updates
      \/ e.kind # "stop" /\ turnTask'.out = "none" /\ turnTask'.updates = turnTask.updates
      \/ /\ e.kind # "stop" /\ turnTask'.out = "none"
         /\ turnTask'.updates = Append(turnTask.updates, Update("waits", NoSession, 0))
  BY DEF TakesHook, TaskBecomes
<1>6. (e \in Stops(r)) <=> (e.kind = "stop" /\ e.reply = r) BY <1>1 DEF Stops, AllStops
<1> HIDE DEF e
<1>7. CASE /\ e.kind = "stop" /\ turnTask'.out = "none"
           /\ turnTask'.updates = Append(turnTask.updates, Update("reply", NoSession, e.reply))
  <2>1. PICK u : u = Update("reply", NoSession, e.reply) OBVIOUS
  <2>2. u \in Updates
    <3>1. NoSession \in SessionRefs BY SpokenTypes
    <3>2. e.reply \in Told BY <1>1, TurnBounds DEF HookEvents, Answers, Told
    <3> QED BY <2>1, <3>1, <3>2 DEF Update, Updates
  <2>3. (u \in Said(r)) <=> (e.reply = r) BY <2>1, <2>2 DEF Said, AllSaid, Update
  <2>4. N(Append(turnTask.updates, u), Said(r))
          = N(turnTask.updates, Said(r)) + (IF u \in Said(r) THEN 1 ELSE 0)
    BY <1>0, <2>2, CountedAppended
  <2>5. InUpdates(r)' = InUpdates(r) + (IF u \in Said(r) THEN 1 ELSE 0)
    BY <1>7, <2>1, <2>4 DEF InUpdates
  <2>6. ~OutIs(r)' BY <1>7 DEF OutIs
  <2> QED BY <1>2, <1>3, <1>4, <1>6, <1>7, <2>3, <2>5, <2>6, CountsAre DEF TookIt, Dropped, Moved
<1>8. CASE e.kind = "stop" /\ turnTask'.outReply = e.reply /\ turnTask'.updates = turnTask.updates
  <2>1. InUpdates(r)' = InUpdates(r) BY <1>8 DEF InUpdates
  <2>2. OutIs(r)' => e.reply = r BY <1>8 DEF OutIs
  <2> QED BY <1>2, <1>3, <1>4, <1>6, <1>8, <2>1, <2>2, CountsAre DEF TookIt, Dropped, Moved
<1>9. CASE /\ e.kind # "stop" /\ turnTask'.out = "none"
           /\ \/ turnTask'.updates = turnTask.updates
              \/ turnTask'.updates = Append(turnTask.updates, Update("waits", NoSession, 0))
  <2>1. InUpdates(r)' = InUpdates(r)
    <3>1. Update("waits", NoSession, 0).kind # "reply" BY DEF Update
    <3>2. PICK u : u = Update("waits", NoSession, 0) OBVIOUS
    <3> QED BY <1>0, <1>9, <3>1, <3>2, OthersUncounted DEF InUpdates
  <2>2. ~OutIs(r)' BY <1>9 DEF OutIs
  <2> QED BY <1>2, <1>3, <1>4, <1>6, <1>9, <2>1, <2>2, CountsAre DEF Dropped, Moved
<1> QED BY <1>5, <1>7, <1>8, <1>9

\* An event that arrives is the turn's, the idle session's, or kept.
LEMMA ArrivalMoves ==
  ASSUME TypesInv, TypesInv', TurnNumbers, NewIsUnused, OneOnTheWay, EventsTell, NEW r, NEW e,
         ReachesTurn(e) \/ ReachesIdle(e) \/ IsKept(e)
  PROVE  Moved(r)
<1> DEFINE got == Got(e)
<1>0. /\ turnTask \in Tasks /\ turnTask.hooks \in Seq(HookEvents) /\ kept \in Seq(HookEvents)
      /\ e \in flying /\ flying' = flying \ {e} /\ slot'.turn = slot.turn /\ e \in HookEvents
      /\ MaxTurns \in Nat
  BY SpokenTypes DEF ReachesTurn, ReachesIdle, IsKept, Arrives, TurnStays
<1>1. got \in HookEvents /\ got.kind = e.kind /\ got.reply = e.reply /\ got.session = e.session
  BY <1>0, GotIs
<1>2. (got \in Stops(r)) <=> (e \in Stops(r)) BY <1>0, <1>1 DEF Stops, AllStops
<1>3. flying = {e} /\ reading = {} BY <1>0 DEF OneOnTheWay, OnTheWay
<1>4. InFlight(r) <=> e \in Stops(r) BY <1>3 DEF InFlight, OnTheWay
<1> HIDE DEF got
<1>5. CASE ReachesTurn(e)
  <2>1. turnTask' = [turnTask EXCEPT !.hooks = Append(@, got)] /\ UNCHANGED <<kept, reading>>
    BY <1>5 DEF ReachesTurn, got
  <2>2. N(Append(turnTask.hooks, got), Stops(r)) = N(turnTask.hooks, Stops(r)) + (IF got \in Stops(r) THEN 1 ELSE 0)
    BY <1>0, <1>1, CountedAppended
  <2>3. InHooks(r)' = InHooks(r) + (IF got \in Stops(r) THEN 1 ELSE 0)
    BY <1>0, <2>1, <2>2 DEF InHooks, Tasks
  <2>4. /\ InUpdates(r)' = InUpdates(r) /\ InKept(r)' = InKept(r) /\ (OutIs(r)' => OutIs(r))
    BY <1>0, <2>1 DEF InUpdates, InKept, Late, OutIs, Tasks
  <2>5. ~InFlight(r)' BY <1>0, <1>3, <2>1 DEF InFlight, OnTheWay
  <2> QED BY <1>2, <1>4, <2>3, <2>4, <2>5, CountsAre DEF Arrived, Dropped, Moved
<1>6. CASE ReachesIdle(e)
  <2>1. /\ UNCHANGED <<turnTask, kept>> /\ reading' = {got}
    BY <1>3, <1>6 DEF ReachesIdle, got
  <2>2. /\ InUpdates(r)' = InUpdates(r) /\ InHooks(r)' = InHooks(r) /\ InKept(r)' = InKept(r)
        /\ OutIs(r)' => OutIs(r)
    BY <1>0, <2>1 DEF InUpdates, InHooks, InKept, Late, OutIs
  <2>3. InFlight(r)' => InFlight(r) BY <1>0, <1>2, <1>3, <1>4, <2>1 DEF InFlight, OnTheWay
  <2> QED BY <2>2, <2>3, CountsAre DEF Dropped, Moved
<1>7. CASE IsKept(e)
  <2>1. PICK from \in 1 .. Len(kept) + 1 : kept' = Keep(SubSeq(kept, from, Len(kept)), got)
    BY <1>7 DEF IsKept, got
  <2>2. UNCHANGED <<turnTask, reading>> BY <1>7 DEF IsKept
  <2> DEFINE t == SubSeq(kept, from, Len(kept))
             rest == IF Len(t) = MaxKept THEN Tail(t) ELSE t
  <2>3. t \in Seq(HookEvents) /\ N(t, Late(r)) <= N(kept, Late(r)) BY <1>0, CountedRest
  <2>4. kept' = Append(rest, got) BY <2>1 DEF Keep
  <2>5. rest \in Seq(HookEvents) /\ N(rest, Late(r)) <= N(t, Late(r))
    <3> HIDE DEF t
    <3>1. CASE Len(t) = MaxKept
      <4>1. t # <<>> BY <3>1, TurnBounds
      <4>2. rest = Tail(t) BY <3>1
      <4>3. Tail(t) \in Seq(HookEvents) BY <2>3, <4>1, HeadTailProperties
      <4>4. N(t, Late(r)) = N(Tail(t), Late(r)) + (IF Head(t) \in Late(r) THEN 1 ELSE 0)
        BY <2>3, <4>1, CountedTail
      <4>5. N(t, Late(r)) \in Nat /\ N(Tail(t), Late(r)) \in Nat BY <2>3, <4>3, Counted
      <4> HIDE DEF rest
      <4> QED BY <4>2, <4>3, <4>4, <4>5
    <3>2. CASE Len(t) # MaxKept
      <4>1. rest = t BY <3>2
      <4>2. N(t, Late(r)) \in Nat BY <2>3, Counted
      <4> HIDE DEF rest
      <4> QED BY <2>3, <4>1, <4>2
    <3> QED BY <3>1, <3>2
  <2> HIDE DEF rest, t
  <2>6. N(Append(rest, got), Late(r)) = N(rest, Late(r)) + (IF got \in Late(r) THEN 1 ELSE 0)
    BY <1>1, <2>5, CountedAppended
  <2>7. N(rest, Late(r)) \in Nat /\ N(t, Late(r)) \in Nat BY <2>3, <2>5, Counted
  <2>8. Late(r)' = Late(r) BY <1>0 DEF Late
  <2>9. InKept(r)' <= InKept(r) + (IF got \in Late(r) THEN 1 ELSE 0)
    BY <2>3, <2>4, <2>5, <2>6, <2>7, <2>8, CountsAre DEF InKept
  <2>10. /\ InUpdates(r)' = InUpdates(r) /\ InHooks(r)' = InHooks(r) /\ (OutIs(r)' => OutIs(r))
    BY <2>2 DEF InUpdates, InHooks, OutIs
  <2>11. ~InFlight(r)' BY <1>0, <1>3, <2>2 DEF InFlight, OnTheWay
  <2>12. got \in Late(r) => e \in Stops(r) /\ slot.turn # 0 /\ (r <= MaxTurns => slot.turn <= r)
    <3>1. e.session \in Turns /\ 0 \notin Turns BY <1>0 DEF HookEvents, Turns
    <3>2. e \in Stops(r) => e.kind = "stop" /\ e.reply = r BY DEF Stops, AllStops
    <3>3. OfReply(e) BY <1>0 DEF EventsTell, OnTheWay
    <3> QED BY <1>1, <1>2, <3>1, <3>2, <3>3 DEF Late, OfReply
  <2>13. CASE got \in Late(r)
    BY <1>4, <2>9, <2>10, <2>11, <2>12, <2>13, CountsAre DEF Arrived, Moved
  <2>14. CASE got \notin Late(r)
    BY <2>9, <2>10, <2>11, <2>14, CountsAre DEF Dropped, Moved
  <2> QED BY <2>13, <2>14
<1> QED BY <1>5, <1>6, <1>7

\* No event of a session that is not the turn's is taken from the kept ones.
LEMMA OnlyItsOwn ==
  ASSUME TypesInv, TurnNumbers, RefsAreOpen, KeptForeign, NEW ref, TakesSession,
         ref = Head(turnTask.updates).ref, ref.id # slot.turn
  PROVE  Forwarded(ref) = <<>> /\ KeptAfter(ref) = kept
<1>0. /\ turnTask.updates \in Seq(Updates) /\ turnTask.updates # <<>> /\ slot.turn # 0
      /\ Head(turnTask.updates).kind = "session" /\ kept \in Seq(HookEvents)
  BY SpokenTypes DEF TakesSession, Takes
<1>1. Forwarded(ref) = <<>>
  <2>1. CASE ref.id = 0 BY <2>1, ForwardedWas
  <2>2. CASE ref.id # 0
    <3>1. /\ Len(turnTask.updates) \in Nat \ {0} /\ Head(turnTask.updates) = turnTask.updates[1]
      BY <1>0, ElementsOfTail
    <3>2. 1 \in 1 .. Len(turnTask.updates) BY <3>1
    <3>3. ref = record.session BY <1>0, <2>2, <3>1, <3>2 DEF RefsAreOpen
    <3>4. \A e \in Range(kept) : e.session # ref.id
      BY <1>0, <2>2, <3>3 DEF KeptForeign, ForeignTo
    <3>5. /\ Range(Forwarded(ref)) \subseteq Range(kept) /\ Forwarded(ref) \in Seq(HookEvents)
          /\ \A e \in Range(Forwarded(ref)) : e.session = ref.id
      BY ForwardedWas
    <3> DEFINE f == Forwarded(ref)
    <3> HIDE DEF f
    <3>6. Range(f) = {} /\ f \in Seq(HookEvents) BY <3>4, <3>5 DEF f
    <3>7. DOMAIN f = 1 .. Len(f) /\ Len(f) \in Nat BY <3>6, LenProperties
    <3>8. Len(f) = 0
      <4>1. ASSUME Len(f) # 0 PROVE FALSE
        <5>1. 1 \in DOMAIN f BY <3>7, <4>1
        <5>2. f[1] \in Range(f) BY <5>1 DEF Range
        <5> QED BY <3>6, <5>2
      <4> QED BY <4>1
    <3>9. f = <<>> BY <3>6, <3>8, EmptySeq
    <3> QED BY <3>9 DEF f
  <2> QED BY <2>1, <2>2
<1>2. KeptAfter(ref) = kept
  <2>1. Range(<<>>) = {} BY DEF Range
  <2>2. KeptAfter(ref) = Keeping(kept, Range(kept)) BY <1>1, <2>1 DEF KeptAfter
  <2> QED BY <1>0, <2>2, KeepingAll
<1> QED BY <1>1, <1>2

\* Of the turn's own session all of them are, those from its start on to its
\* driver.
LEMMA AllItsOwn ==
  ASSUME TypesInv, NEW r, NEW ref, ref.id = slot.turn, slot.turn # 0
  PROVE  /\ N(NotBefore(Forwarded(ref), slot.turn), Stops(r)) <= InKept(r)
         /\ N(KeptAfter(ref), Late(r)) = 0
<1> DEFINE f    == Forwarded(ref)
           mine == {e \in Range(kept) : e.session = ref.id}
           recent == {e \in Range(f) : e.at >= 2 * slot.turn}
<1>0. kept \in Seq(HookEvents) BY SpokenTypes
<1>1. f = Keeping(kept, mine) BY DEF Forwarded, Of
<1>2. NotBefore(f, slot.turn) = Keeping(f, recent) BY DEF NotBefore
<1>3. KeptAfter(ref) = Keeping(kept, Range(kept) \ Range(f)) BY DEF KeptAfter
<1>4. f \in Seq(HookEvents) BY ForwardedWas
<1>5. mine \cap Stops(r) \subseteq Late(r) BY DEF Late
<1>6. \A e \in Range(kept) : e.session = ref.id => e \in mine OBVIOUS
<1> HIDE DEF f, mine, recent
<1>7. Range(f) = Range(kept) \cap mine BY <1>0, <1>1, KeepingRange
<1>8. N(NotBefore(f, slot.turn), Stops(r)) <= InKept(r)
  <2>1. /\ N(Keeping(f, recent), Stops(r)) = N(f, recent \cap Stops(r))
        /\ N(f, recent \cap Stops(r)) <= N(f, Stops(r))
    BY <1>4, CountedKept
  <2>2. /\ N(Keeping(kept, mine), Stops(r)) = N(kept, mine \cap Stops(r))
        /\ N(kept, mine \cap Stops(r)) <= N(kept, Stops(r))
    BY <1>0, CountedKept
  <2>3. N(kept, mine \cap Stops(r)) <= N(kept, Late(r)) BY <1>0, <1>5, CountedMonotone
  <2>4. /\ N(f, recent \cap Stops(r)) \in Nat /\ N(f, Stops(r)) \in Nat
        /\ N(kept, mine \cap Stops(r)) \in Nat /\ N(kept, Late(r)) \in Nat
    BY <1>0, <1>4, Counted
  <2> QED BY <1>1, <1>2, <2>1, <2>2, <2>3, <2>4 DEF InKept
<1>9. N(KeptAfter(ref), Late(r)) = 0
  <2>1. KeptAfter(ref) \in Seq(HookEvents) BY ForwardedWas
  <2>2. Range(KeptAfter(ref)) = Range(kept) \cap (Range(kept) \ Range(f))
    BY <1>0, <1>3, KeepingRange
  <2>3. \A e \in Range(KeptAfter(ref)) : e.session # slot.turn BY <1>6, <1>7, <2>2
  <2> QED BY <2>1, <2>3, NoneLate DEF Late
<1> QED BY <1>8, <1>9 DEF f

\* A session's update forwards what is its own.
LEMMA SessionMoves ==
  ASSUME TypesInv, TypesInv', TurnNumbers, RefsAreOpen, KeptForeign, NEW r, TakesSession
  PROVE  Moved(r)
<1>1. PICK ref : ref = Head(turnTask.updates).ref OBVIOUS
<1> DEFINE f == NotBefore(Forwarded(ref), slot.turn)
<1>2. /\ turnTask.updates \in Seq(Updates) /\ turnTask.hooks \in Seq(HookEvents)
      /\ turnTask.updates # <<>> /\ slot.turn # 0 /\ slot'.turn = slot.turn
      /\ UNCHANGED <<turnTask.out, turnTask.outReply, flying, reading>>
      /\ turnTask'.updates = Tail(turnTask.updates)
      /\ turnTask'.hooks = turnTask.hooks \o f /\ kept' = KeptAfter(ref)
  BY <1>1, SpokenTypes DEF TakesSession, Takes, TaskBecomes
<1>3. f \in Seq(HookEvents) BY ForwardedWas
<1> HIDE DEF f
<1>4. InUpdates(r)' <= InUpdates(r)
  <2>1. N(turnTask.updates, Said(r)) = N(Tail(turnTask.updates), Said(r))
                             + (IF Head(turnTask.updates) \in Said(r) THEN 1 ELSE 0)
    BY <1>2, CountedTail
  <2> QED BY <1>2, <2>1, CountsAre DEF InUpdates
<1>5. (OutIs(r)' => OutIs(r)) /\ (InFlight(r)' => InFlight(r))
  BY <1>2 DEF OutIs, InFlight, OnTheWay
<1>6. InHooks(r)' = InHooks(r) + N(f, Stops(r)) /\ N(f, Stops(r)) \in Nat
  <2>1. N(turnTask.hooks \o f, Stops(r)) = N(turnTask.hooks, Stops(r)) + N(f, Stops(r))
    BY <1>2, <1>3, CountedConcat
  <2> QED BY <1>2, <1>3, <2>1, Counted DEF InHooks
<1>7. InKept(r)' = N(KeptAfter(ref), Late(r)) BY <1>2 DEF InKept, Late
<1>8. CASE ref.id = slot.turn
  <2>1. N(f, Stops(r)) <= InKept(r) /\ N(KeptAfter(ref), Late(r)) = 0
    BY <1>2, <1>8, AllItsOwn DEF f
  <2> QED BY <1>4, <1>5, <1>6, <1>7, <2>1, CountsAre DEF Claimed, Moved
<1>9. CASE ref.id # slot.turn
  <2>1. Forwarded(ref) = <<>> /\ KeptAfter(ref) = kept BY <1>1, <1>9, OnlyItsOwn
  <2>2. f = <<>>
    <3>1. f = Keeping(<<>>, {e \in Range(<<>>) : e.at >= 2 * slot.turn}) BY <2>1 DEF f, NotBefore
    <3> QED BY <3>1, KeepingOfNone
  <2>3. N(f, Stops(r)) = 0 BY <1>3, <2>2, Counted
  <2> QED BY <1>4, <1>5, <1>6, <1>7, <2>1, <2>3, CountsAre DEF InKept, Claimed, Moved
<1> QED BY <1>8, <1>9

\* Every step moves a reply in one of these ways.
LEMMA KindsMove ==
  ASSUME TypesInv, TypesInv', WhereRepliesCome, KeptForeign, Kinds, NEW r
  PROVE  Moved(r)
<1> USE DEF WhereRepliesCome
<1>1. CASE (\E ref : Begins(ref)) \/ Finishes \/ IsStopped BY <1>1, TurnsDrop DEF Moved
<1>2. CASE \/ Rests \/ Quits \/ Tells \/ Learns \/ Loses \/ StartsWork \/ StartsLate \/ Calms
           \/ WorksAgain
  BY <1>2, DriverDrops DEF Moved
<1>3. CASE TakesReply \/ TakesNews \/ SaysIdle BY <1>3, TakingDrops DEF Moved
<1>4. CASE GivesReply BY <1>4, GivingMoves
<1>5. CASE TakesHook BY <1>5, HookMoves
<1>6. CASE TakesSession BY <1>6, SessionMoves
<1>7. CASE (\E e : ReachesTurn(e)) \/ (\E e : ReachesIdle(e)) \/ (\E e : IsKept(e))
  BY <1>7, ArrivalMoves
<1> QED BY <1>1, <1>2, <1>3, <1>4, <1>5, <1>6, <1>7 DEF Kinds

\* A reply stays in one place.
LEMMA KindsKeepOnePlace ==
  ASSUME TypesInv, TypesInv', WhereRepliesCome, KeptForeign, InOnePlace, Kinds
  PROVE  InOnePlace'
<1> SUFFICES ASSUME NEW r \in Answers PROVE Tokens(r)' <= 1
  BY DEF InOnePlace
<1>0. Tokens(r) <= 1 BY DEF InOnePlace
<1>1. Moved(r) BY KindsMove
<1>2. CASE Dropped(r) \/ Claimed(r)
  <2> DEFINE f  == IF InFlight(r) THEN 1 ELSE 0
             w  == IF OutIs(r) THEN 1 ELSE 0
             f2 == IF InFlight(r)' THEN 1 ELSE 0
             w2 == IF OutIs(r)' THEN 1 ELSE 0
  <2>1. f2 <= f /\ w2 <= w /\ f \in Nat /\ w \in Nat /\ f2 \in Nat /\ w2 \in Nat
    BY <1>2 DEF Dropped, Claimed
  <2>2. Tokens(r) = InUpdates(r) + InHooks(r) + InKept(r) + f + w BY DEF Tokens
  <2>3. Tokens(r)' = InUpdates(r)' + InHooks(r)' + InKept(r)' + f2 + w2 BY DEF Tokens
  <2>4. /\ InUpdates(r)' <= InUpdates(r)
        /\ InHooks(r)' + InKept(r)' <= InHooks(r) + InKept(r)
    BY <1>2, CountsAre DEF Dropped, Claimed
  <2> HIDE DEF f, w, f2, w2
  <2> QED BY <1>0, <2>1, <2>2, <2>3, <2>4, CountsAre
<1>3. CASE TookIt(r) BY <1>0, <1>3, CountsAre DEF TookIt, Tokens
<1>4. CASE Arrived(r) BY <1>0, <1>4, CountsAre DEF Arrived, Tokens
<1>5. CASE Given(r)
  <2>1. InUpdates(r) = 0 /\ InHooks(r) = 0 /\ InKept(r) = 0 /\ ~OutIs(r)
    BY <1>5, NewIsNowhere DEF Given, WhereRepliesCome
  <2> QED BY <1>5, <2>1, CountsAre DEF Given, Tokens
<1> QED BY <1>1, <1>2, <1>3, <1>4, <1>5 DEF Moved

-----------------------------------------------------------------------------
(* What was said.                                                          *)
\* A reply may still be said; after a step it may not.
Pending(r) == InFlight(r) \/ InUpdates(r) > 0 \/ InHooks(r) > 0
Silent(r) == ~InFlight(r)' /\ InUpdates(r)' = 0 /\ InHooks(r)' = 0

\* A reply that is said was where it is said from, and is nowhere after that,
\* but for one the poll found.
LEMMA SaidIsGone ==
  ASSUME TypesInv, TypesInv', WhereRepliesCome, InOnePlace, NEW r \in Answers, Says(r),
         ~(Finishes /\ turnTask.out = "polled")
  PROVE  /\ Silent(r) /\ InKept(r)' = 0 /\ ~OutIs(r)'
         /\ IF Finishes THEN OutIs(r) ELSE Pending(r)
<1> USE DEF WhereRepliesCome
<1>0. Tokens(r) <= 1 BY DEF InOnePlace
<1>1. CASE Finishes /\ turnTask.out \in {"reply", "polled"} /\ r = turnTask.outReply
  <2>1. OutIs(r) BY <1>1 DEF OutIs
  <2>2. InUpdates(r) = 0 /\ InHooks(r) = 0 /\ InKept(r) = 0 /\ ~InFlight(r)
    BY <1>0, <2>1, CountsAre DEF Tokens
  <2>3. Dropped(r) BY <1>1, TurnsDrop
  <2>4. ~OutIs(r)' BY <1>1, NoTaskIs DEF Finishes, OutIs
  <2> QED BY <1>1, <2>1, <2>2, <2>3, <2>4, CountsAre DEF Dropped, Silent
<1>2. CASE TakesReply /\ r = Head(turnTask.updates).reply
  <2>1. /\ turnTask.updates \in Seq(Updates) /\ turnTask.updates # <<>>
        /\ Head(turnTask.updates).kind = "reply" /\ turnTask'.updates = Tail(turnTask.updates)
        /\ slot.turn # 0
    BY <1>2, SpokenTypes DEF TakesReply, Takes, TaskBecomes
  <2>2. Head(turnTask.updates) \in Updates BY <2>1, HeadTailProperties
  <2>3. Head(turnTask.updates) \in Said(r) BY <1>2, <2>1, <2>2 DEF Said, AllSaid
  <2>4. N(turnTask.updates, Said(r)) = N(Tail(turnTask.updates), Said(r))
                             + (IF Head(turnTask.updates) \in Said(r) THEN 1 ELSE 0)
    BY <2>1, CountedTail
  <2>5. InUpdates(r) = InUpdates(r)' + 1 BY <2>1, <2>3, <2>4, CountsAre DEF InUpdates
  <2>6. /\ InUpdates(r)' = 0 /\ InHooks(r) = 0 /\ InKept(r) = 0 /\ ~InFlight(r) /\ ~OutIs(r)
    BY <1>0, <2>5, CountsAre DEF Tokens
  <2>7. Dropped(r) BY <1>2, TakingDrops
  <2>8. ~Finishes BY <2>1 DEF Finishes
  <2> QED BY <2>5, <2>6, <2>7, <2>8, CountsAre DEF Dropped, Silent, Pending
<1>3. ASSUME SaysIdle, NEW e \in reading, e.kind = "stop", e.reply = r, reading' = reading \ {e}
      PROVE  /\ Silent(r) /\ InKept(r)' = 0 /\ ~OutIs(r)'
             /\ IF Finishes THEN OutIs(r) ELSE Pending(r)
  <2>1. e \in Stops(r) BY <1>3, SpokenTypes DEF Stops, AllStops
  <2>2. InFlight(r) BY <2>1 DEF InFlight, OnTheWay
  <2>3. InUpdates(r) = 0 /\ InHooks(r) = 0 /\ InKept(r) = 0 /\ ~OutIs(r)
    BY <1>0, <2>2, CountsAre DEF Tokens
  <2>4. Dropped(r) BY <1>3, TakingDrops
  <2>5. ~InFlight(r)'
    <3>1. UNCHANGED flying BY <1>3 DEF SaysIdle
    <3> QED BY <1>3, <3>1 DEF OneOnTheWay, OnTheWay, InFlight
  <2>6. ~Finishes
    <3>1. reading' # reading BY <1>3
    <3> QED BY <3>1 DEF Finishes, EventsStay
  <2> QED BY <2>2, <2>3, <2>4, <2>5, <2>6, CountsAre DEF Dropped, Silent, Pending
<1> QED BY <1>1, <1>2, <1>3 DEF Says

\* Another reply is said only once the one that ended on a poll is nowhere.
LEMMA PolledWasSaid ==
  ASSUME TypesInv, TypesInv', WhereRepliesCome, PolledIsFirst, NEW p, p = slot.polled, p # 0,
         NEW r, Says(r), r # p, ~Finishes
  PROVE  Silent(p)
<1> USE DEF WhereRepliesCome
<1>0. /\ turnTask.updates \in Seq(Updates) /\ turnTask.hooks \in Seq(HookEvents)
      /\ turnTask.at \in {"none", "launch", "watch", "rewatch"}
      /\ (turnTask.at = "none") = (slot.turn = 0)
  BY SpokenTypes DEF Tasks
<1>1. /\ InFlight(p) => turnTask.at \in {"none", "launch"} /\ turnTask.hooks = <<>>
      /\ First(turnTask.updates, Said(p), AllSaid)
      /\ InHooks(p) > 0 => N(turnTask.updates, AllSaid) = 0
  BY DEF PolledIsFirst
<1>2. ~InFlight(p) /\ InUpdates(p) = 0 /\ InHooks(p) = 0
  <2>1. CASE TakesReply /\ r = Head(turnTask.updates).reply
    <3>1. /\ turnTask.updates # <<>> /\ Head(turnTask.updates).kind = "reply" /\ slot.turn # 0
      BY <2>1 DEF TakesReply, Takes
    <3>2. Head(turnTask.updates) \in Updates BY <1>0, <3>1, HeadTailProperties
    <3>3. Head(turnTask.updates) \in AllSaid /\ Head(turnTask.updates) \notin Said(p)
      BY <2>1, <3>1, <3>2 DEF Said, AllSaid
    <3>4. InUpdates(p) = 0 BY <1>0, <1>1, <3>1, <3>3, FirstTail DEF InUpdates
    <3>5. N(turnTask.updates, AllSaid) # 0
      <4>1. N(turnTask.updates, AllSaid) = N(Tail(turnTask.updates), AllSaid)
                             + (IF Head(turnTask.updates) \in AllSaid THEN 1 ELSE 0)
        BY <1>0, <3>1, CountedTail
      <4>2. N(Tail(turnTask.updates), AllSaid) \in Nat
        BY <1>0, <3>1, HeadTailProperties, Counted
      <4> QED BY <3>3, <4>1, <4>2
    <3>6. InHooks(p) = 0 BY <1>1, <3>5, CountsAre
    <3>7. ~InFlight(p) BY <1>0, <1>1, <3>1, NoTaskIs DEF TurnNumbers
    <3> QED BY <3>4, <3>6, <3>7
  <2>2. ASSUME SaysIdle, NEW e \in reading, e.kind = "stop", e.reply = r
        PROVE  ~InFlight(p) /\ InUpdates(p) = 0 /\ InHooks(p) = 0
    <3>1. \A f \in OnTheWay : f = e BY <2>2 DEF OneOnTheWay, OnTheWay
    <3>2. ~InFlight(p) BY <2>2, <3>1 DEF InFlight, Stops
    <3>3. turnTask.at \in {"none", "launch"} /\ turnTask.hooks = <<>> BY <2>2 DEF OneOnTheWay
    <3>4. turnTask.updates = <<>> BY <3>3, NoTaskIs DEF TurnNumbers
    <3> QED BY <1>0, <3>2, <3>3, <3>4, Counted DEF InUpdates, InHooks
  <2> QED BY <2>1, <2>2 DEF Says
<1>3. Dropped(p) BY TakingDrops DEF Says
<1> QED BY <1>2, <1>3, CountsAre DEF Dropped, Silent

\* The turn's own reply is not said while it runs.
LEMMA SaysAnother ==
  ASSUME TypesInv, WhereRepliesCome, NEW r, Says(r), ~Finishes, slot.turn # 0
  PROVE  r # slot.turn
<1> USE DEF WhereRepliesCome
<1>0. /\ turnTask.updates \in Seq(Updates) /\ (turnTask.at = "none") = (slot.turn = 0)
  BY SpokenTypes
<1>1. CASE TakesReply /\ r = Head(turnTask.updates).reply
  <2>1. Head(turnTask.updates) \in Range(turnTask.updates) /\ Head(turnTask.updates).kind = "reply"
    BY <1>0, <1>1, RangeOfTail DEF TakesReply, Takes
  <2> QED BY <1>1, <2>1 DEF RepliesAreOut
<1>2. CASE SaysIdle /\ \E e \in reading : e.kind = "stop" /\ e.reply = r
  <2>1. turnTask.at = "launch" BY <1>0, <1>2 DEF OneOnTheWay
  <2>2. slot.turn \notin harness.replied BY <2>1 DEF NewIsUnused, Unused
  <2>3. r \in harness.replied BY SaidIsOut
  <2> QED BY <2>2, <2>3
<1> QED BY <1>1, <1>2 DEF Says

\* What was heard and what ended only grow; the reply a turn that ended on a
\* poll said is remembered until another is said.
LEMMA TalkGrows ==
  ASSUME TypesInv, TurnNumbers, Kinds
  PROVE  /\ UNCHANGED lastEnded \/ (Finishes /\ lastEnded' = slot.turn /\ lastEnded < slot.turn)
         /\ \/ slot'.polled = slot.polled
            \/ Finishes
            \/ slot'.polled = 0 /\ ~Finishes /\ \E r : Says(r)
<1>1. CASE Finishes BY <1>1 DEF Finishes, TurnNumbers
<1>2. CASE TakesReply /\ ~Finishes
  BY <1>2 DEF TakesReply, Takes, SaysOf, Says
<1>3. CASE SaysIdle /\ ~Finishes
  <2>1. PICK e \in reading : e.kind = "stop" /\ reading' = reading \ {e} /\ SaysOf(e.reply)
    BY <1>3 DEF SaysIdle
  <2>2. Says(e.reply) BY <1>3, <2>1 DEF Says
  <2> QED BY <1>3, <2>1, <2>2 DEF SaysOf, SaysIdle
<1>4. CASE ~Finishes /\ ~TakesReply /\ ~SaysIdle
  <2> USE DEF OnlyTask, TalkStays, TurnStays
  <2>1. CASE \/ Rests \/ (\E ref : Begins(ref)) \/ IsStopped
             \/ Quits \/ Tells \/ Learns \/ Loses \/ TakesHook \/ StartsWork \/ StartsLate
    BY <2>1 DEF Rests, Begins, IsStopped, Quits, Tells, Learns, Loses, TakesHook, StartsWork, StartsLate
  <2>2. CASE \/ TakesSession \/ TakesNews \/ GivesReply \/ WorksAgain \/ Calms
             \/ (\E e : ReachesTurn(e)) \/ (\E e : ReachesIdle(e)) \/ (\E e : IsKept(e))
    BY <2>2 DEF TakesSession, TakesNews, Takes, GivesReply, WorksAgain, Calms, HarnessAlone,
       ReachesTurn, ReachesIdle, IsKept, Arrives
  <2> QED BY <1>4, <2>1, <2>2 DEF Kinds
<1> QED BY <1>1, <1>2, <1>3, <1>4

\* A reply that stays live and was heard was not the last one polled, or is
\* it still.
LEMMA AgainStays ==
  ASSUME TypesInv, TypesInv', WhereRepliesCome, InOnePlace, PolledIsFirst, Kinds,
         NEW r \in Answers, Again(r), ~Silent(r)
  PROVE  Again(r)'
<1>0. lastEnded \in Int /\ r \in Int /\ slot.turn \in Int /\ lastEnded' \in Int /\ r # 0
      /\ MaxTurns \in Int
  BY SpokenTypes, KindsKeepNumbers, TurnBounds DEF WhereRepliesCome, TurnNumbers, Answers, TypesInv, CountsTyped
<1>1. CASE lastEnded > r
  BY <1>0, <1>1, TalkGrows DEF Again, WhereRepliesCome
<1>2. CASE slot.polled = r
  <2>1. r = lastEnded BY <1>0, <1>2 DEF WhereRepliesCome, TurnNumbers
  <2>2. CASE Finishes
    <3>1. lastEnded' = slot.turn /\ lastEnded < slot.turn
      BY <2>2 DEF WhereRepliesCome, TurnNumbers, Finishes
    <3> QED BY <1>0, <2>1, <3>1 DEF Again
  <2>3. CASE slot'.polled = slot.polled BY <1>2, <2>3 DEF Again
  <2>4. ASSUME ~Finishes, NEW s, Says(s) PROVE FALSE
    <3>1. CASE s = r
      <4>1. Says(r) BY <2>4, <3>1
      <4> QED BY <2>4, <4>1, SaidIsGone
    <3>2. CASE s # r
      BY <1>0, <1>2, <2>4, <3>2, PolledWasSaid
    <3> QED BY <3>1, <3>2
  <2> QED BY <2>2, <2>3, <2>4, TalkGrows DEF WhereRepliesCome
<1> QED BY <1>1, <1>2 DEF Again

\* What is heard is right of a reply that is said now.
LEMMA SayingIsRight ==
  ASSUME TypesInv, TypesInv', WhereRepliesCome, InOnePlace, HeardRight, Kinds,
         NEW r, Says(r), Delivers(r), Finishes \/ ~IsPolled(r)
  PROVE  /\ Pending(r)' => Again(r)'
         /\ InKept(r)' = 0 /\ ~OutIs(r)'
         /\ heard'[r] = 2 => r <= MaxTurns /\ lastEnded' > r
<1> USE DEF WhereRepliesCome
<1>0. /\ r \in Answers /\ r \in harness.replied
      /\ lastEnded \in Int /\ r \in Int /\ r # 0 /\ generations \in Nat /\ MaxTurns \in Nat
      /\ slot.turn \in 0 .. MaxTurns
  BY SaidIsOut, SpokenTypes, TurnBounds DEF TurnNumbers, Answers
<1>1. heard'[r] = 2 => heard[r] # 0 BY <1>0, DeliversIs
<1>2. CASE Finishes /\ turnTask.out = "polled"
  <2>1. r = slot.turn /\ slot.turn # 0
    <3>1. UNCHANGED <<flying, reading>> /\ turnTask.updates = <<>> BY <1>2 DEF Finishes, EventsStay
    <3>2. \A e \in reading : reading' # reading \ {e} BY <3>1
    <3>3. r = turnTask.outReply BY <3>1, <3>2 DEF Says, TakesReply, Takes
    <3> QED BY <1>2, <3>3 DEF TurnNumbers, Finishes
  <2>2. slot'.polled = r BY <1>2, <2>1 DEF Finishes, TurnNumbers
  <2>3. heard'[r] # 2 BY <1>1, <2>1 DEF HeardRight
  <2>4. InKept(r)' = 0 BY <1>2, TurnsDrop
  <2>5. ~OutIs(r)' BY <1>2, NoTaskIs DEF Finishes, OutIs
  <2>6. Again(r)' BY <1>0, <2>1, <2>2 DEF Again
  <2> QED BY <2>3, <2>4, <2>5, <2>6
<1>3. CASE ~(Finishes /\ turnTask.out = "polled")
  <2>1. /\ Silent(r) /\ InKept(r)' = 0 /\ ~OutIs(r)'
        /\ IF Finishes THEN OutIs(r) ELSE Pending(r)
    BY <1>0, <1>3, SaidIsGone
  <2>2. ~Pending(r)' BY <2>1 DEF Silent, Pending
  <2>3. ASSUME heard[r] # 0 PROVE r <= MaxTurns /\ lastEnded' > r
    <3>1. CASE Finishes
      <4>1. r <= MaxTurns BY <1>0, <2>1, <2>3, <3>1 DEF HeardRight
      <4>2. r \in Turns BY <1>0, <4>1 DEF Turns, Answers
      <4>3. r <= generations BY <1>0, <4>2 DEF NewIsUnused, Unused
      <4>4. slot.turn = generations /\ lastEnded' = slot.turn /\ slot.turn # 0
        BY <3>1 DEF Finishes, TurnNumbers
      <4>5. r # slot.turn BY <2>3, <4>4 DEF HeardRight
      <4> QED BY <1>0, <4>1, <4>3, <4>4, <4>5
    <3>2. CASE ~Finishes
      <4>1. Again(r) BY <1>0, <2>1, <2>3, <3>2 DEF HeardRight, Pending
      <4>2. UNCHANGED lastEnded BY <3>2, TalkGrows
      <4> QED BY <3>2, <4>1, <4>2 DEF Again, IsPolled
    <3> QED BY <3>1, <3>2
  <2> QED BY <1>1, <2>1, <2>2, <2>3
<1> QED BY <1>2, <1>3

\* And of one that is not.
LEMMA StayingRight ==
  ASSUME TypesInv, TypesInv', WhereRepliesCome, KeptForeign, InOnePlace, HeardRight, PolledIsFirst,
         Kinds, NEW r \in Answers, heard'[r] = heard[r], heard[r] # 0
  PROVE  /\ Pending(r)' => Again(r)'
         /\ InKept(r)' = 0
         /\ OutIs(r)' => r <= MaxTurns
         /\ heard'[r] = 2 => r <= MaxTurns /\ lastEnded' > r
<1>a. /\ lastEnded \in Int /\ r \in Int /\ slot.turn \in Int /\ lastEnded' \in Int /\ MaxTurns \in Int
  BY SpokenTypes, KindsKeepNumbers, TurnBounds
     DEF WhereRepliesCome, TurnNumbers, Answers, TypesInv, CountsTyped
<1>b. lastEnded <= lastEnded' BY <1>a, TalkGrows DEF WhereRepliesCome
<1>c. heard[r] \in 0 .. 2 BY SpokenTypes
<1>0. /\ lastEnded \in Int /\ r \in Int /\ slot.turn \in Int /\ lastEnded' \in Int /\ MaxTurns \in Int
      /\ lastEnded <= lastEnded' /\ heard[r] \in 0 .. 2
      /\ slot.turn # 0 => lastEnded < slot.turn
  BY <1>a, <1>b, <1>c DEF WhereRepliesCome, TurnNumbers
<1>1. InKept(r) = 0 /\ (Pending(r) => Again(r)) /\ (OutIs(r) => r <= MaxTurns)
      /\ (heard[r] = 2 => r <= MaxTurns /\ lastEnded > r)
  BY DEF HeardRight, Pending
<1>2. r \in harness.replied BY <1>0 DEF WhereRepliesCome, RepliesAreOut
<1>3. Moved(r) BY KindsMove
<1>4. ~Silent(r) => Pending(r)
  BY <1>1, <1>2, <1>3, CountsAre DEF Moved, Dropped, TookIt, Claimed, Arrived, Given, Silent, Pending
<1>5. Pending(r)' => Again(r)'
  <2>1. Pending(r)' => ~Silent(r) BY CountsAre DEF Pending, Silent
  <2> QED BY <1>1, <1>4, <2>1, AgainStays
<1>6. InKept(r)' = 0
  <2>1. CASE Arrived(r)
    <3>1. Again(r) BY <1>1, <2>1 DEF Arrived, Pending
    <3>2. r <= MaxTurns /\ r <= lastEnded
      BY <1>0, <3>1 DEF Again, WhereRepliesCome, TurnNumbers
    <3>3. ~(InKept(r)' > InKept(r)) BY <1>0, <2>1, <3>2, CountsAre DEF Arrived
    <3> QED BY <1>1, <3>3, CountsAre
  <2>2. CASE ~Arrived(r)
    <3>1. InKept(r)' <= InKept(r)
      BY <1>2, <1>3, <2>2, CountsAre DEF Moved, Dropped, TookIt, Claimed, Given
    <3> QED BY <1>1, <3>1, CountsAre
  <2> QED BY <2>1, <2>2
<1>7. OutIs(r)' => r <= MaxTurns
  <2>1. CASE TookIt(r)
    <3>1. Pending(r) BY <2>1, CountsAre DEF TookIt, Pending
    <3> QED BY <1>1, <3>1 DEF Again
  <2>2. CASE ~TookIt(r)
    BY <1>1, <1>2, <1>3, <2>2 DEF Moved, Dropped, Claimed, Arrived, Given
  <2> QED BY <2>1, <2>2
<1> QED BY <1>0, <1>1, <1>5, <1>6, <1>7

\* A turn that runs was not heard of.
LEMMA TurnStaysUnheard ==
  ASSUME TypesInv, TypesInv', WhereRepliesCome, HeardRight, Kinds, slot'.turn # 0
  PROVE  heard'[slot'.turn] = 0
<1>0. /\ slot.turn \in 0 .. MaxTurns /\ generations \in 0 .. MaxTurns /\ MaxTurns \in Nat
      /\ MaxOwn \in Nat /\ heard \in [Answers -> 0 .. 2]
  BY SpokenTypes
<1>1. CASE Finishes \/ IsStopped BY <1>1 DEF Finishes, IsStopped
<1>2. ASSUME NEW ref, Begins(ref) PROVE heard'[slot'.turn] = 0
  <2>1. slot'.turn = generations + 1 /\ UNCHANGED heard /\ generations + 1 \in Turns
    BY <1>2 DEF Begins, TalkStays
  <2>2. generations + 1 \notin harness.replied
    BY <1>0, <2>1 DEF WhereRepliesCome, NewIsUnused, Unused
  <2>3. generations + 1 \in Answers BY <1>0, <2>1 DEF Turns, Answers
  <2>4. heard[generations + 1] \in 0 .. 2 BY <1>0, <2>3
  <2> QED BY <2>1, <2>2, <2>3, <2>4 DEF WhereRepliesCome, RepliesAreOut
<1>3. CASE ~Finishes /\ ~IsStopped /\ (\A ref : ~Begins(ref))
  <2>1. slot'.turn = slot.turn BY <1>3, TurnStaysElse
  <2>2. heard[slot.turn] = 0 BY <2>1 DEF HeardRight
  <2>3. slot.turn \in Answers BY <1>0, <2>1 DEF Answers
  <2>4. CASE UNCHANGED heard BY <2>1, <2>2, <2>4
  <2>5. ASSUME NEW r, Says(r), Delivers(r) PROVE heard'[slot'.turn] = 0
    <3>1. r # slot.turn BY <1>3, <2>1, <2>5, SaysAnother
    <3>2. r \in Answers BY <2>5, SaidIsOut DEF WhereRepliesCome
    <3>3. \A s \in Answers : s # r => heard'[s] = heard[s] BY <2>5, <3>2, DeliversIs
    <3> QED BY <2>1, <2>2, <2>3, <3>1, <3>3
  <2> QED BY <2>4, <2>5, SaidBy
<1> QED BY <1>1, <1>2, <1>3

\* What was heard stays right.
LEMMA KindsKeepHeard ==
  ASSUME TypesInv, TypesInv', WhereRepliesCome, KeptForeign, InOnePlace, HeardRight, PolledIsFirst,
         Kinds
  PROVE  HeardRight'
<1>1. ASSUME NEW r \in Answers, heard'[r] # 0
      PROVE  /\ Pending(r)' => Again(r)'
             /\ InKept(r)' = 0
             /\ OutIs(r)' => r <= MaxTurns
             /\ heard'[r] = 2 => r <= MaxTurns /\ lastEnded' > r
  <2>1. CASE heard'[r] = heard[r] BY <1>1, <2>1, StayingRight
  <2>2. CASE Says(r) /\ Delivers(r) /\ (Finishes \/ ~IsPolled(r)) BY <2>2, SayingIsRight
  <2>3. ASSUME NEW s, Says(s), Delivers(s), s # r PROVE heard'[r] = heard[r]
    <3>1. s \in Answers BY <2>3, SaidIsOut DEF WhereRepliesCome
    <3>2. \A t \in Answers : t # s => heard'[t] = heard[t] BY <2>3, <3>1, DeliversIs
    <3> QED BY <2>3, <3>2
  <2> QED BY <2>1, <2>2, <2>3, SaidBy
<1>2. slot'.turn # 0 => heard'[slot'.turn] = 0 BY TurnStaysUnheard
<1> QED BY <1>1, <1>2 DEF HeardRight, Pending

-----------------------------------------------------------------------------
(* The reply of a turn that ended on a poll is said first.                 *)
\* The parts of PolledIsFirst after a step.
PolledGoesFirst(p) ==
  /\ InFlight(p)' => turnTask'.at \in {"none", "launch"} /\ turnTask'.hooks = <<>>
  /\ First(turnTask'.hooks, Stops(p), AllStops)
  /\ First(turnTask'.updates, Said(p), AllSaid)
  /\ InHooks(p)' > 0 => N(turnTask'.updates, AllSaid) = 0

\* What is known of the reply of a turn that ended on a poll.
LEMMA PolledIs ==
  ASSUME TypesInv, TypesInv', WhereRepliesCome, KeptForeign, PolledIsFirst, Kinds,
         NEW p, p = slot.polled, p # 0
  PROVE  /\ p \in Answers /\ p \in harness.replied /\ p <= MaxTurns
         /\ slot.turn # 0 => p < slot.turn
         /\ InFlight(p)' => InFlight(p)
         /\ InFlight(p) => turnTask.at \in {"none", "launch"} /\ turnTask.hooks = <<>>
         /\ First(turnTask.hooks, Stops(p), AllStops)
         /\ First(turnTask.updates, Said(p), AllSaid)
         /\ InHooks(p) > 0 => N(turnTask.updates, AllSaid) = 0
<1>0. /\ p = lastEnded /\ p \in harness.replied /\ lastEnded \in 0 .. generations
      /\ slot.turn # 0 => lastEnded < slot.turn
  BY DEF WhereRepliesCome, TurnNumbers
<1>1. /\ generations \in 0 .. MaxTurns /\ MaxTurns \in Nat /\ MaxOwn \in Nat BY SpokenTypes
<1>2. p \in Answers /\ p <= MaxTurns BY <1>0, <1>1 DEF Answers
<1>3. Moved(p) BY KindsMove
<1>4. InFlight(p)' => InFlight(p)
  BY <1>0, <1>3 DEF Moved, Dropped, TookIt, Claimed, Arrived, Given
<1> QED BY <1>0, <1>2, <1>4 DEF PolledIsFirst

\* Nothing of the turn is first.
LEMMA EmptyIsFirst ==
  ASSUME turnTask'.updates = <<>>, turnTask'.hooks = <<>>, turnTask'.at \in {"none", "launch"}, NEW p
  PROVE  PolledGoesFirst(p)
<1>1. N(<<>>, AllSaid) = 0 /\ Len(<<>>) = 0 BY Counted, EmptySeq
<1>2. First(<<>>, Stops(p), AllStops) /\ First(<<>>, Said(p), AllSaid) BY <1>1 DEF First
<1> QED BY <1>1, <1>2 DEF PolledGoesFirst

\* The driver's steps leave it first.
LEMMA DriverKeepsFirst ==
  ASSUME TypesInv, TypesInv', WhereRepliesCome, KeptForeign, PolledIsFirst, Kinds,
         NEW p, p = slot.polled, p # 0,
         Quits \/ Tells \/ Learns \/ Loses \/ StartsWork
  PROVE  PolledGoesFirst(p)
<1>0. /\ turnTask.updates \in Seq(Updates)
      /\ InFlight(p)' => InFlight(p)
      /\ InFlight(p) => turnTask.at \in {"none", "launch"} /\ turnTask.hooks = <<>>
      /\ First(turnTask.hooks, Stops(p), AllStops)
      /\ First(turnTask.updates, Said(p), AllSaid)
      /\ InHooks(p) > 0 => N(turnTask.updates, AllSaid) = 0
  BY PolledIs, SpokenTypes
<1>1. CASE Quits
  <2>1. /\ turnTask'.hooks = turnTask.hooks /\ turnTask'.updates = turnTask.updates
        /\ turnTask'.at = turnTask.at
    BY <1>1 DEF Quits, TaskBecomes
  <2>2. InHooks(p)' = InHooks(p) BY <2>1 DEF InHooks
  <2> QED BY <1>0, <2>1, <2>2 DEF PolledGoesFirst
<1>2. CASE Tells \/ Learns \/ Loses \/ StartsWork
  <2>1. turnTask'.hooks = turnTask.hooks
    BY <1>2 DEF Tells, Learns, Loses, StartsWork, Names, TaskBecomes
  <2>2. ~InFlight(p)'
    <3>1. CASE Watching BY <1>0, <3>1 DEF Watching
    <3>2. CASE StartsWork
      <4>1. OnTheWay' = {} BY <3>2 DEF StartsWork, OnlyTask, EventsStay, HooksHandled, OnTheWay
      <4> QED BY <4>1 DEF InFlight
    <3> QED BY <1>2, <3>1, <3>2 DEF Tells, Learns, Loses
  <2>3. \A kind, ref : Update(kind, ref, 0).kind = kind BY DEF Update
  <2>4. \E kind \in {"waits", "works", "session"} : \E ref :
          turnTask'.updates = Append(turnTask.updates, Update(kind, ref, 0))
    BY <1>2 DEF Tells, Learns, Loses, StartsWork, Names, TaskBecomes
  <2>5. PICK u : turnTask'.updates = Append(turnTask.updates, u) /\ u.kind # "reply" BY <2>3, <2>4
  <2>6. N(turnTask'.updates, AllSaid) = N(turnTask.updates, AllSaid)
    BY <1>0, <2>5, OthersUncounted
  <2>7. First(turnTask'.updates, Said(p), AllSaid)
    <3>1. turnTask.updates \in Seq(Updates \cup {u}) /\ u \in Updates \cup {u} BY <1>0
    <3>2. u \notin Said(p) BY <2>5 DEF Said, AllSaid
    <3> QED BY <1>0, <2>5, <3>1, <3>2, FirstAppended
  <2>8. InHooks(p)' = InHooks(p) BY <2>1 DEF InHooks
  <2> QED BY <1>0, <2>1, <2>2, <2>6, <2>7, <2>8 DEF PolledGoesFirst
<1> QED BY <1>1, <1>2

\* So does a hook event that is taken.
LEMMA HookKeepsFirst ==
  ASSUME TypesInv, TypesInv', WhereRepliesCome, KeptForeign, InOnePlace, PolledIsFirst, Kinds,
         NEW p, p = slot.polled, p # 0, TakesHook
  PROVE  PolledGoesFirst(p)
<1> DEFINE e == Head(turnTask.hooks)
<1>0. /\ turnTask.updates \in Seq(Updates) /\ turnTask.hooks \in Seq(HookEvents)
      /\ InFlight(p)' => InFlight(p)
      /\ InFlight(p) => turnTask.at \in {"none", "launch"} /\ turnTask.hooks = <<>>
      /\ First(turnTask.hooks, Stops(p), AllStops)
      /\ First(turnTask.updates, Said(p), AllSaid)
      /\ InHooks(p) > 0 => N(turnTask.updates, AllSaid) = 0
      /\ p \in Answers
  BY PolledIs, SpokenTypes
<1>1. turnTask.hooks # <<>> /\ turnTask'.hooks = Tail(turnTask.hooks)
  BY DEF TakesHook, TaskBecomes
<1>2. ~InFlight(p)' BY <1>0, <1>1
<1>3. /\ First(turnTask'.hooks, Stops(p), AllStops)
      /\ e \in AllStops /\ e \notin Stops(p) => InHooks(p) = 0
  BY <1>0, <1>1, FirstTail DEF InHooks
<1>4. InHooks(p) = InHooks(p)' + (IF e \in Stops(p) THEN 1 ELSE 0)
  <2>1. N(turnTask.hooks, Stops(p)) = N(Tail(turnTask.hooks), Stops(p)) + (IF e \in Stops(p) THEN 1 ELSE 0)
    BY <1>0, <1>1, CountedTail
  <2> QED BY <1>1, <2>1 DEF InHooks
<1>5. e \in HookEvents
  <2>1. e \in Range(turnTask.hooks) BY <1>0, <1>1, RangeOfTail
  <2> QED BY <1>0, <2>1, LenProperties DEF Range
<1>6. \/ turnTask'.updates = turnTask.updates
      \/ turnTask'.updates = Append(turnTask.updates, Update("waits", NoSession, 0))
      \/ /\ e.kind = "stop"
         /\ turnTask'.updates = Append(turnTask.updates, Update("reply", NoSession, e.reply))
  BY DEF TakesHook, TaskBecomes
<1>7. Tokens(p) <= 1 BY <1>0 DEF InOnePlace
<1> HIDE DEF e
<1>8. CASE turnTask'.updates = turnTask.updates
  BY <1>0, <1>2, <1>3, <1>4, <1>8, CountsAre DEF PolledGoesFirst
<1>9. CASE turnTask'.updates = Append(turnTask.updates, Update("waits", NoSession, 0))
  <2>1. Update("waits", NoSession, 0).kind # "reply" BY DEF Update
  <2>2. PICK u : u = Update("waits", NoSession, 0) OBVIOUS
  <2>3. N(turnTask'.updates, AllSaid) = N(turnTask.updates, AllSaid)
    BY <1>0, <1>9, <2>1, <2>2, OthersUncounted
  <2>4. First(turnTask'.updates, Said(p), AllSaid)
    <3>1. turnTask.updates \in Seq(Updates \cup {u}) /\ u \in Updates \cup {u} BY <1>0
    <3>2. u \notin Said(p) BY <2>1, <2>2 DEF Said, AllSaid
    <3> QED BY <1>0, <1>9, <2>2, <3>1, <3>2, FirstAppended
  <2> QED BY <1>0, <1>2, <1>3, <1>4, <2>3, <2>4, CountsAre DEF PolledGoesFirst
<1>10. CASE /\ e.kind = "stop"
            /\ turnTask'.updates = Append(turnTask.updates, Update("reply", NoSession, e.reply))
  <2>1. PICK u : u = Update("reply", NoSession, e.reply) OBVIOUS
  <2>2. turnTask.updates \in Seq(Updates \cup {u}) /\ u \in Updates \cup {u} BY <1>0
  <2>3. e \in AllStops /\ (e \in Stops(p) <=> e.reply = p)
    BY <1>5, <1>10 DEF Stops, AllStops
  <2>4. u \in Said(p) => e.reply = p BY <2>1 DEF Said, Update
  <2>5. e.reply = p => N(turnTask.updates, AllSaid) = 0
    BY <1>0, <1>4, <2>3, CountsAre
  <2>6. First(turnTask'.updates, Said(p), AllSaid)
    BY <1>0, <1>10, <2>1, <2>2, <2>4, <2>5, FirstAppended
  <2>7. InHooks(p)' = 0
    <3>1. CASE e.reply = p
      <4>1. InHooks(p) = 1 BY <1>4, <1>7, <2>3, <3>1, CountsAre DEF Tokens
      <4> QED BY <1>4, <2>3, <3>1, <4>1, CountsAre
    <3>2. CASE e.reply # p
      BY <1>3, <1>4, <2>3, <3>2, CountsAre
    <3> QED BY <3>1, <3>2
  <2> QED BY <1>2, <1>3, <2>6, <2>7 DEF PolledGoesFirst
<1> QED BY <1>6, <1>8, <1>9, <1>10

\* So does an update that is applied.
LEMMA TakingKeepsFirst ==
  ASSUME TypesInv, TypesInv', WhereRepliesCome, KeptForeign, PolledIsFirst, Kinds,
         NEW p, p = slot.polled, p # 0, TakesSession \/ TakesNews
  PROVE  PolledGoesFirst(p)
<1>0. /\ turnTask.updates \in Seq(Updates) /\ turnTask.hooks \in Seq(HookEvents)
      /\ InFlight(p)' => InFlight(p)
      /\ InFlight(p) => turnTask.at \in {"none", "launch"} /\ turnTask.hooks = <<>>
      /\ First(turnTask.hooks, Stops(p), AllStops)
      /\ First(turnTask.updates, Said(p), AllSaid)
      /\ InHooks(p) > 0 => N(turnTask.updates, AllSaid) = 0
      /\ p \in harness.replied /\ p <= MaxTurns /\ p \in Answers
      /\ slot.turn # 0 => p < slot.turn
  BY PolledIs, SpokenTypes
<1>1. /\ turnTask.updates # <<>> /\ turnTask'.updates = Tail(turnTask.updates) /\ slot.turn # 0
  BY DEF TakesSession, TakesNews, Takes, TaskBecomes
<1>2. ~InFlight(p)'
  <2>1. turnTask.at \notin {"none", "launch"} BY <1>1, NoTaskIs DEF WhereRepliesCome, TurnNumbers
  <2> QED BY <1>0, <2>1
<1>3. First(turnTask'.updates, Said(p), AllSaid) BY <1>0, <1>1, FirstTail
<1>4. N(turnTask.updates, AllSaid) = 0 => N(turnTask'.updates, AllSaid) = 0
  <2>1. N(turnTask.updates, AllSaid) = N(Tail(turnTask.updates), AllSaid)
                             + (IF Head(turnTask.updates) \in AllSaid THEN 1 ELSE 0)
    BY <1>0, <1>1, CountedTail
  <2>2. N(Tail(turnTask.updates), AllSaid) \in Nat BY <1>0, <1>1, HeadTailProperties, Counted
  <2> QED BY <1>1, <2>1, <2>2
<1>5. CASE TakesNews
  <2>1. turnTask'.hooks = turnTask.hooks BY <1>5 DEF TakesNews, Takes, TaskBecomes
  <2>2. InHooks(p)' = InHooks(p) BY <2>1 DEF InHooks
  <2> QED BY <1>0, <1>2, <1>3, <1>4, <2>1, <2>2 DEF PolledGoesFirst
<1>6. CASE TakesSession
  <2>1. PICK ref : ref = Head(turnTask.updates).ref OBVIOUS
  <2> DEFINE f == NotBefore(Forwarded(ref), slot.turn)
  <2>2. turnTask'.hooks = turnTask.hooks \o f BY <1>6, <2>1 DEF TakesSession, Takes, TaskBecomes
  <2>3. /\ f \in Seq(HookEvents) /\ Range(f) \subseteq Range(Forwarded(ref))
        /\ Range(Forwarded(ref)) \subseteq Range(kept)
        /\ \A e \in Range(Forwarded(ref)) : e.session = ref.id
    BY ForwardedWas
  <2>4. ref.id # slot.turn => Range(f) = {}
    <3>1. Range(<<>>) = {} BY DEF Range
    <3>2. ref.id # slot.turn => Forwarded(ref) = <<>>
      BY <1>6, <2>1, OnlyItsOwn DEF WhereRepliesCome
    <3> QED BY <2>3, <3>1, <3>2
  <2> HIDE DEF f
  <2>5. \A e \in Range(f) : e \notin Stops(p)
    <3> SUFFICES ASSUME NEW e \in Range(f), e \in Stops(p) PROVE FALSE OBVIOUS
    <3>1. e.session = slot.turn /\ OfReply(e) BY <2>3, <2>4 DEF WhereRepliesCome, EventsTell
    <3>2. e.kind = "stop" /\ e.reply = p BY DEF Stops, AllStops
    <3>3. slot.turn <= p BY <1>0, <3>1, <3>2 DEF OfReply
    <3>4. slot.turn \in Int /\ p \in Int BY <1>0, SpokenTypes DEF Answers
    <3> QED BY <1>0, <1>1, <3>3, <3>4
  <2>6. N(f, Stops(p)) = 0
    <3>1. \A i \in 1 .. Len(f) : f[i] \in Range(f) BY <2>3, LenProperties DEF Range
    <3> QED BY <2>3, <2>5, <3>1, CountedNone
  <2>7. First(turnTask'.hooks, Stops(p), AllStops) BY <1>0, <2>2, <2>3, <2>6, FirstConcat
  <2>8. InHooks(p)' = InHooks(p)
    <3>1. N(turnTask.hooks \o f, Stops(p)) = N(turnTask.hooks, Stops(p)) + N(f, Stops(p))
      BY <1>0, <2>3, CountedConcat
    <3> QED BY <2>2, <2>6, <3>1, CountsAre DEF InHooks
  <2> QED BY <1>0, <1>2, <1>3, <1>4, <2>7, <2>8 DEF PolledGoesFirst
<1> QED BY <1>5, <1>6

\* So does an event that reaches the turn.
LEMMA ArrivalKeepsFirst ==
  ASSUME TypesInv, TypesInv', WhereRepliesCome, KeptForeign, PolledIsFirst, Kinds,
         NEW p, p = slot.polled, p # 0, NEW e, ReachesTurn(e)
  PROVE  PolledGoesFirst(p)
<1> DEFINE got == Got(e)
<1>0. /\ turnTask \in Tasks /\ turnTask.hooks \in Seq(HookEvents) /\ turnTask.updates \in Seq(Updates)
      /\ e \in flying /\ flying' = flying \ {e} /\ UNCHANGED reading /\ slot.turn # 0
      /\ InFlight(p) => turnTask.at \in {"none", "launch"} /\ turnTask.hooks = <<>>
      /\ First(turnTask.hooks, Stops(p), AllStops)
      /\ First(turnTask.updates, Said(p), AllSaid)
      /\ InHooks(p) > 0 => N(turnTask.updates, AllSaid) = 0
  BY PolledIs, SpokenTypes DEF ReachesTurn, Arrives
<1>1. got \in HookEvents /\ got.kind = e.kind /\ got.reply = e.reply /\ e \in HookEvents
  BY <1>0, GotIs, SpokenTypes DEF WhereRepliesCome
<1>2. (got \in Stops(p)) <=> (e \in Stops(p)) BY <1>1 DEF Stops, AllStops
<1>3. e \in Stops(p) => InFlight(p) BY <1>0 DEF InFlight, OnTheWay
<1>4. ~InFlight(p)' BY <1>0 DEF WhereRepliesCome, OneOnTheWay, OnTheWay, InFlight
<1>5. turnTask'.hooks = Append(turnTask.hooks, got) /\ turnTask'.updates = turnTask.updates
  BY <1>0 DEF ReachesTurn, Tasks
<1> HIDE DEF got
<1>6. N(<<>>, AllStops) = 0 /\ N(<<>>, AllSaid) = 0 BY Counted, EmptySeq
<1>7. First(turnTask'.hooks, Stops(p), AllStops)
  <2>1. got \in Stops(p) => N(turnTask.hooks, AllStops) = 0 BY <1>0, <1>2, <1>3, <1>6
  <2> QED BY <1>0, <1>1, <1>5, <2>1, FirstAppended
<1>8. InHooks(p)' > 0 => N(turnTask'.updates, AllSaid) = 0
  <2>1. CASE got \in Stops(p)
    <3>1. turnTask.updates = <<>> BY <1>0, <1>2, <1>3, <2>1, NoTaskIs DEF WhereRepliesCome, TurnNumbers
    <3> QED BY <1>5, <1>6, <3>1
  <2>2. CASE got \notin Stops(p)
    <3>1. N(Append(turnTask.hooks, got), Stops(p)) = N(turnTask.hooks, Stops(p)) + (IF got \in Stops(p) THEN 1 ELSE 0)
      BY <1>0, <1>1, CountedAppended
    <3>2. InHooks(p)' = InHooks(p) BY <1>5, <2>2, <3>1, CountsAre DEF InHooks
    <3> QED BY <1>0, <1>5, <3>2
  <2> QED BY <2>1, <2>2
<1> QED BY <1>0, <1>4, <1>5, <1>7, <1>8 DEF PolledGoesFirst

\* The reply of a turn that ended on a poll stays first.
LEMMA KindsKeepPolled ==
  ASSUME TypesInv, TypesInv', WhereRepliesCome, KeptForeign, InOnePlace, PolledIsFirst, Kinds
  PROVE  PolledIsFirst'
<1> SUFFICES ASSUME slot'.polled # 0, NEW p, p = slot'.polled PROVE PolledGoesFirst(p)
  BY DEF PolledIsFirst, PolledGoesFirst
<1>1. CASE Finishes \/ IsStopped
  BY <1>1, NoTaskIs, EmptyIsFirst DEF Finishes, IsStopped
<1>2. ASSUME NEW ref, Begins(ref) PROVE PolledGoesFirst(p)
  BY <1>2, BeginsWith, EmptyIsFirst DEF WhereRepliesCome
<1>3. CASE TakesReply \/ SaysIdle
  BY <1>3 DEF TakesReply, SaysIdle, SaysOf
<1>4. CASE ~(Finishes \/ TakesReply \/ SaysIdle)
  <2>0. p = slot.polled
    <3>1. \A r : ~Says(r) BY <1>4 DEF Says
    <3> QED BY <1>4, <3>1, TalkGrows DEF WhereRepliesCome
  <2>1. CASE Quits \/ Tells \/ Learns \/ Loses \/ StartsWork BY <2>0, <2>1, DriverKeepsFirst
  <2>2. CASE TakesHook BY <2>0, <2>2, HookKeepsFirst
  <2>3. CASE TakesSession \/ TakesNews BY <2>0, <2>3, TakingKeepsFirst
  <2>4. ASSUME NEW e, ReachesTurn(e) PROVE PolledGoesFirst(p) BY <2>0, <2>4, ArrivalKeepsFirst
  <2>5. CASE UNCHANGED turnTask
    <3>1. /\ InFlight(p)' => InFlight(p)
          /\ InFlight(p) => turnTask.at \in {"none", "launch"} /\ turnTask.hooks = <<>>
          /\ First(turnTask.hooks, Stops(p), AllStops)
          /\ First(turnTask.updates, Said(p), AllSaid)
          /\ InHooks(p) > 0 => N(turnTask.updates, AllSaid) = 0
      BY <2>0, PolledIs
    <3>2. InHooks(p)' = InHooks(p) BY <2>5 DEF InHooks
    <3> QED BY <2>5, <3>1, <3>2 DEF PolledGoesFirst
  <2>6. \/ UNCHANGED turnTask
        \/ Quits \/ Tells \/ Learns \/ Loses \/ StartsWork \/ TakesHook \/ TakesSession \/ TakesNews
        \/ IsStopped \/ (\E ref : Begins(ref)) \/ (\E e : ReachesTurn(e))
    BY <1>4 DEF Kinds, Rests, StartsLate, Calms, GivesReply, WorksAgain, HarnessAlone, ReachesIdle,
       IsKept
  <2> QED BY <1>1, <1>2, <2>1, <2>2, <2>3, <2>4, <2>5, <2>6
<1> QED BY <1>1, <1>3, <1>4

-----------------------------------------------------------------------------
(* A reply is said once.                                                   *)
\* Where the replies come from, and what was said, until the daemon dies.
OnceInv == crashes \in Nat /\ (crashes = 0 => SpokenInv)

\* Nothing is said at first.
LEMMA StartsSpoken == ASSUME TurnsInit PROVE SpokenInv
<1>0. /\ slot = [turn |-> 0, phase |-> "Idle", ownWork |-> FALSE, polled |-> 0]
      /\ turnTask = NoTask /\ strays = {} /\ kept = <<>> /\ flying = {} /\ reading = {}
      /\ record.session = NoSession /\ generations = 0 /\ lastEnded = 0
      /\ harness.open = {} /\ harness.replied = {} /\ harness.own = 0
      /\ harness.work = [s \in Turns |-> 0] /\ heard = [r \in Answers |-> 0]
  BY DEF TurnsInit
<1>1. /\ slot.turn = 0 /\ slot.polled = 0 /\ OnTheWay = {} BY <1>0 DEF OnTheWay
<1>2. MaxTurns \in Nat \ {0} /\ MaxOwn \in Nat /\ 0 \notin Turns /\ 0 \notin Answers
  BY TurnBounds DEF Turns, Answers
<1>3. Range(<<>>) = {} /\ Len(<<>>) = 0 BY DEF Range
<1>4. \A T : N(<<>>, T) = 0 BY Counted, EmptySeq
<1>5. \A b \in Turns : harness.work[b] = 0 BY <1>0
<1>6. TurnNumbers BY <1>0, <1>1, NoTaskIs DEF TurnNumbers
<1>7. OneOnTheWay BY <1>0, <1>1 DEF OneOnTheWay
<1>8. NewIsUnused
  <2>1. \A g : g # 0 => Unused(g) BY <1>0, <1>5 DEF Unused
  <2> QED BY <1>0, <1>2, <1>5, <2>1, NoTaskIs DEF NewIsUnused, Unused
<1>9. StraysApart /\ WorkIsNew BY <1>0, <1>5 DEF StraysApart, WorkIsNew
<1>10. RefsAreOpen
  <2>1. RefOpen(NoSession) BY DEF RefOpen, NoSession
  <2>2. \A i \in 1 .. Len(turnTask.updates) : FALSE BY <1>0, <1>3, NoTaskIs
  <2> QED BY <1>0, <2>1, <2>2, NoTaskIs DEF RefsAreOpen
<1>11. EventsTell BY <1>0, <1>1, <1>3, NoTaskIs DEF EventsTell
<1>12. RepliesAreOut BY <1>0, <1>3, NoTaskIs DEF RepliesAreOut
<1>13. \A r \in Answers : Tokens(r) = 0 /\ ~InFlight(r) /\ InKept(r) = 0 /\ heard[r] = 0
  BY <1>0, <1>1, <1>4, NoTaskIs
     DEF Tokens, InFlight, InUpdates, InHooks, InKept, OutIs
<1>14. InOnePlace BY <1>13 DEF InOnePlace
<1>15. HeardRight BY <1>1, <1>13 DEF HeardRight
<1>16. PolledIsFirst BY <1>1 DEF PolledIsFirst
<1> QED BY <1>6, <1>7, <1>8, <1>9, <1>10, <1>11, <1>12, <1>14, <1>15, <1>16
        DEF SpokenInv, WhereRepliesCome

\* Every kind of step keeps it.
LEMMA KindsKeepSpoken ==
  ASSUME TypesInv, TypesInv', KeptForeign, SpokenInv, Kinds PROVE SpokenInv'
<1>1. WhereRepliesCome /\ InOnePlace /\ HeardRight /\ PolledIsFirst BY DEF SpokenInv
<1>2. WhereRepliesCome'
  BY <1>1, KindsKeepNumbers, KindsKeepOne, KindsKeepUnused, KindsKeepStrays, KindsKeepWork,
     KindsKeepRefs, KindsKeepEvents, KindsKeepReplies DEF WhereRepliesCome
<1> QED BY <1>1, <1>2, KindsKeepOnePlace, KindsKeepHeard, KindsKeepPolled DEF SpokenInv

\* The invariant holds in every state.
THEOREM OnceInvariant == TurnsSpec => []OnceInv
<1>1. TurnsInit => OnceInv
  <2>1. TurnsInit => crashes = 0 BY DEF TurnsInit
  <2> QED BY <2>1, StartsSpoken DEF OnceInv
<1>2. LetGoInv /\ ForeignInv /\ TypesInv /\ TypesInv' /\ OnceInv /\ [TurnsNext]_turnVars => OnceInv'
  <2> SUFFICES ASSUME LetGoInv, ForeignInv, TypesInv, TypesInv', OnceInv, [TurnsNext]_turnVars
               PROVE  OnceInv'
    OBVIOUS
  <2>1. CASE DaemonDies BY <2>1 DEF DaemonDies, OnceInv
  <2>2. CASE ~DaemonDies
    <3>1. UNCHANGED crashes
      <4>1. CASE UNCHANGED turnVars BY <4>1 DEF turnVars, lifeVars
      <4>2. CASE TurnsNext BY <2>2, <4>2, TurnChanges
      <4> QED BY <4>1, <4>2
    <3>2. ASSUME crashes = 0 PROVE SpokenInv'
      <4>1. SpokenInv BY <3>2 DEF OnceInv
      <4>2. TurnNumbers BY <4>1 DEF SpokenInv, WhereRepliesCome
      <4>3. Kinds BY <2>2, <4>2, StepsKinds
      <4> QED BY <4>1, <4>3, KindsKeepSpoken DEF ForeignInv
    <3> QED BY <3>1, <3>2 DEF OnceInv
  <2> QED BY <2>1, <2>2
<1> QED BY <1>1, <1>2, LetGoInvariant, ForeignInvariant, TypesInvariant, PTL DEF TurnsSpec

\* A reply is said once, unless a later turn ended before its late Stop was
\* handled or the daemon died (own_reply, finish_turn).
THEOREM RepliesAreSaidOnce == TurnsSpec => []ReplyOnce
<1>1. TypesInv /\ OnceInv => ReplyOnce
  <2> SUFFICES ASSUME TypesInv, OnceInv, NEW r \in Answers, heard[r] = 2, ~(crashes > 0)
               PROVE  lastEnded > r
    BY DEF ReplyOnce
  <2>1. crashes = 0 BY DEF OnceInv
  <2> QED BY <2>1 DEF OnceInv, SpokenInv, HeardRight
<1> QED BY <1>1, OnceInvariant, TypesInvariant, PTL
=============================================================================
