------------------------ MODULE RealtimeStreamProofs ------------------------
(***************************************************************************)
(* Theorems about RealtimeStream, for any words, any number of chunks and  *)
(* of completed events sent again: nothing is typed twice, and text that   *)
(* was typed is kept.                                                      *)
(***************************************************************************)
EXTENDS RealtimeStream, SequenceTheorems, TLAPS

Texts == {"delta", "completed"}

StreamShape ==
  /\ profile \in {"OpenAi", "Lemonade"}
  /\ speech \in Seq(Words \cup {Hum}) /\ Len(speech) <= MaxChunks
  /\ cut \in Nat /\ cut <= Len(speech)
  /\ engine \in [closed : BOOLEAN, committed : BOOLEAN, final : BOOLEAN,
                 anyText : BOOLEAN,
                 end : {"none", "completed", "ok", "failed"}]
  /\ items \subseteq Items /\ done \subseteq Items /\ half \subseteq Items
  /\ typed \in Seq(Items)
  /\ wire \in Seq(Messages)

\* Whatever is on the wire or typed was said before: its text stays.
Before ==
  /\ \A i \in items \cup done : i[2] <= Len(speech)
  /\ \A k \in 1 .. Len(wire) : wire[k].kind \in Texts => wire[k].item[2] <= Len(speech)
  /\ \A k \in 1 .. Len(typed) : typed[k][2] <= Len(speech)

\* An error is read only of a server or a connection that failed; what is
\* typed is noted, and the tail is committed once the microphone closed.
Noted ==
  /\ \A k \in 1 .. Len(wire) : wire[k].kind = "error" => gone = "error"
  /\ typed # <<>> => engine.anyText
  /\ engine.committed => engine.closed

\* With append-only text every item has one delta: on the wire, or typed.
DeltaOnce ==
  profile = "OpenAi" =>
    /\ \A k \in 1 .. Len(wire) : wire[k].kind = "delta" => wire[k].item \in half
    /\ \A k \in 1 .. Len(typed) : typed[k] \in half
    /\ \A j, k \in 1 .. Len(wire) :
         wire[j].kind = "delta" /\ wire[k].kind = "delta" /\ wire[j].item = wire[k].item
           => j = k
    /\ \A j \in 1 .. Len(wire), k \in 1 .. Len(typed) :
         wire[j].kind = "delta" => wire[j].item # typed[k]

\* Otherwise a typed text is looked up.
TextOnce ==
  profile = "Lemonade" => \A k \in 1 .. Len(typed) : Text(typed[k]) \in textsTyped

StreamInv == StreamShape /\ Before /\ Noted /\ DeltaOnce /\ TextOnce /\ TypedOnce /\ KeepsTyped
-----------------------------------------------------------------------------
(* Sequences.                                                              *)

\* A word more does not change the text of what was said before.
LEMMA TextStays ==
  ASSUME speech \in Seq(Words \cup {Hum}), NEW w \in Words \cup {Hum},
         speech' = Append(speech, w), NEW i \in Items, i[2] <= Len(speech)
  PROVE  Text(i)' = Text(i)
<1>1. i[1] \in Nat /\ i[2] \in Nat /\ i[1] >= 1 /\ i[1] <= i[2]
  BY StreamBounds DEF Items
<1>2. SubSeq(Append(speech, w), i[1], i[2]) = SubSeq(speech, i[1], i[2])
  <2>1. Append(speech, w) = speech \o <<w>> /\ <<w>> \in Seq(Words \cup {Hum})
    BY AppendIsConcat
  <2>2. i[1] \in 1 .. Len(speech) /\ i[2] \in 1 .. Len(speech)
    BY StreamBounds DEF Items
  <2>3. SubSeq(speech \o <<w>>, i[1], i[2]) = SubSeq(speech, i[1], i[2])
    BY <2>1, <2>2, SubSeqOfConcat1, Zenon
  <2>4. QED BY <2>1, <2>3
<1>3. QED BY <1>2 DEF Text

\* What is said next is an item of the next chunks.
LEMMA NextItemIsOne ==
  ASSUME StreamShape, cut < Len(speech)
  PROVE  NextItem \in Items /\ NextItem[2] <= Len(speech)
BY StreamBounds DEF StreamShape, NextItem, Items

\* A message that is sent comes last.
LEMMA Sent ==
  ASSUME wire \in Seq(Messages), NEW m \in Messages, ToEngine(m)
  PROVE  /\ wire' \in Seq(Messages) /\ Len(wire') = Len(wire) + 1
         /\ \A k \in 1 .. Len(wire) : wire'[k] = wire[k]
         /\ wire'[Len(wire')] = m
BY DEF ToEngine

\* A message that is read leaves the others, or none.
LEMMA Received ==
  ASSUME wire \in Seq(Messages), wire # <<>>, wire' = <<>> \/ wire' = Tail(wire)
  PROVE  /\ Head(wire) = wire[1] /\ Head(wire) \in Messages /\ 1 \in 1 .. Len(wire)
         /\ wire' \in Seq(Messages)
         /\ \A k \in 1 .. Len(wire') : wire'[k] = wire[k + 1] /\ k + 1 \in 1 .. Len(wire)
<1>1. Len(wire) \in Nat /\ Len(wire) >= 1 /\ Head(wire) = wire[1] /\ wire[1] \in Messages
  OBVIOUS
<1>2. CASE wire' = <<>>
  BY <1>1, <1>2
<1>3. CASE wire' = Tail(wire)
  BY <1>1, <1>3, HeadTailProperties
<1>4. QED BY <1>1, <1>2, <1>3

\* A message of another kind carries no item; one with text does.
LEMMA MessageKinds ==
  ASSUME NEW m \in Messages
  PROVE  /\ m.kind \in Texts => m.item \in Items /\ m.named \in BOOLEAN
         /\ m.kind \notin Texts => m.kind \in {"emptyCommit", "error", "cleared", "close", "end", "ping"}
BY DEF Messages, Texts
-----------------------------------------------------------------------------
(* Every step keeps the invariant.                                         *)

\* The stream starts with nothing said, sent or typed.
LEMMA StartsInv == ASSUME StreamInit PROVE StreamInv
<1>1. StreamShape
  BY StreamBounds DEF StreamInit, StreamShape
<1>2. Before /\ Noted /\ DeltaOnce /\ TextOnce /\ TypedOnce /\ KeepsTyped
  BY DEF StreamInit, Before, Noted, DeltaOnce, TextOnce, TypedOnce, KeepsTyped
<1>3. QED BY <1>1, <1>2 DEF StreamInv

\* The server cuts the chunks into items, with or without the commit.
LEMMA CutsItems == ASSUME StreamInv, DetectTurn \/ CommitTail PROVE StreamInv'
<1>1. /\ cut < Len(speech) /\ items' = items \cup {NextItem} /\ cut' = Len(speech)
      /\ UNCHANGED <<profile, speech, engineVars, half, done, gone, wire>>
  BY DEF DetectTurn, CommitTail
<1>2. NextItem \in Items /\ NextItem[2] <= Len(speech)
  BY <1>1, NextItemIsOne DEF StreamInv
<1>3. StreamShape'
  BY <1>1, <1>2 DEF StreamInv, StreamShape, engineVars
<1>4. Before'
  BY <1>1, <1>2 DEF StreamInv, Before, engineVars
<1>5. Noted' /\ DeltaOnce' /\ TextOnce' /\ TypedOnce' /\ KeepsTyped'
  BY <1>1 DEF StreamInv, Noted, DeltaOnce, TextOnce, TypedOnce, KeepsTyped, Text, engineVars
<1>6. QED BY <1>3, <1>4, <1>5 DEF StreamInv

\* The server sends a message that is no delta: what it says of an item was
\* said, and only an end of the connection is reported as one.
LEMMA SendsMessage ==
  ASSUME StreamInv, NEW m \in Messages, ToEngine(m),
         m.kind # "delta",
         m.kind \in Texts => m.item[2] <= Len(speech),
         m.kind = "error" => gone' = "error", gone = "error" => gone' = "error",
         items' \subseteq items, done' \subseteq done \cup items,
         UNCHANGED <<profile, speech, engineVars, cut, half>>
  PROVE  StreamInv'
<1>1. /\ wire' \in Seq(Messages) /\ Len(wire') = Len(wire) + 1 /\ Len(wire) \in Nat
      /\ \A k \in 1 .. Len(wire) : wire'[k] = wire[k]
      /\ wire'[Len(wire')] = m
  BY Sent DEF StreamInv, StreamShape
<1>2. StreamShape'
  BY <1>1 DEF StreamInv, StreamShape, engineVars
<1>3. \A k \in 1 .. Len(wire') :
        (k \in 1 .. Len(wire) /\ wire'[k] = wire[k]) \/ wire'[k] = m
  BY <1>1
<1>4. Before'
  BY <1>3 DEF StreamInv, Before, engineVars
<1>5. Noted'
  BY <1>3 DEF StreamInv, Noted, engineVars
<1>6. DeltaOnce'
  BY <1>3 DEF StreamInv, DeltaOnce, engineVars
<1>7. TextOnce' /\ TypedOnce' /\ KeepsTyped'
  BY DEF StreamInv, TextOnce, TypedOnce, KeepsTyped, Text, engineVars
<1>8. QED BY <1>2, <1>4, <1>5, <1>6, <1>7 DEF StreamInv

\* A delta is the first of its item.
LEMMA SendsDelta == ASSUME StreamInv, SendDelta PROVE StreamInv'
<1>1. PICK i \in items \ half :
        /\ half' = half \cup {i}
        /\ ToEngine([kind |-> "delta", item |-> i, named |-> TRUE])
        /\ UNCHANGED <<profile, speech, engineVars, cut, items, done, gone>>
  BY DEF SendDelta
<1> DEFINE m == [kind |-> "delta", item |-> i, named |-> TRUE]
<1>2. m \in Messages /\ i \in Items /\ i[2] <= Len(speech)
  BY <1>1 DEF StreamInv, StreamShape, Before, Messages
<1>3. /\ wire' \in Seq(Messages) /\ Len(wire') = Len(wire) + 1 /\ Len(wire) \in Nat
      /\ \A k \in 1 .. Len(wire) : wire'[k] = wire[k]
      /\ wire'[Len(wire')] = m
  BY <1>1, <1>2, Sent DEF StreamInv, StreamShape
<1>4. StreamShape'
  BY <1>1, <1>2, <1>3 DEF StreamInv, StreamShape, engineVars
<1>5. \A k \in 1 .. Len(wire') :
        \/ k \in 1 .. Len(wire) /\ wire'[k] = wire[k]
        \/ k = Len(wire') /\ wire'[k] = m
  BY <1>3
<1>6. Before'
  BY <1>1, <1>2, <1>5 DEF StreamInv, Before, engineVars
<1>7. Noted'
  BY <1>1, <1>5 DEF StreamInv, Noted, engineVars
<1>8. DeltaOnce'
  BY <1>1, <1>5 DEF StreamInv, DeltaOnce, engineVars
<1>9. TextOnce' /\ TypedOnce' /\ KeepsTyped'
  BY <1>1 DEF StreamInv, TextOnce, TypedOnce, KeepsTyped, Text, engineVars
<1>10. QED BY <1>4, <1>6, <1>7, <1>8, <1>9 DEF StreamInv

\* Whatever else the server does is a message that is no delta.
LEMMA ServerSends ==
  ASSUME StreamInv, CommitNothing \/ SendCompleted \/ Replay \/ Ping \/ ServerEnds
  PROVE  StreamInv'
<1>1. CASE CommitNothing
  <2>1. PICK kind \in {"emptyCommit", "cleared"} : ToEngine([kind |-> kind])
    BY <1>1 DEF CommitNothing
  <2>2. [kind |-> kind] \in Messages
    BY DEF Messages
  <2>3. QED BY <1>1, <2>1, <2>2, SendsMessage DEF CommitNothing, Texts
<1>2. CASE SendCompleted
  <2>1. PICK i \in items, named \in Ids :
          /\ items' = items \ {i} /\ done' = done \cup {i}
          /\ ToEngine([kind |-> "completed", item |-> i, named |-> named])
          /\ UNCHANGED <<profile, speech, engineVars, cut, half, gone>>
    BY <1>2 DEF SendCompleted
  <2>2. /\ [kind |-> "completed", item |-> i, named |-> named] \in Messages
        /\ i[2] <= Len(speech)
    BY <2>1 DEF StreamInv, StreamShape, Before, Messages, Ids
  <2>3. QED BY <2>1, <2>2, SendsMessage
<1>3. CASE Replay
  <2>1. PICK i \in done, named \in Ids :
          /\ ToEngine([kind |-> "completed", item |-> i, named |-> named])
          /\ UNCHANGED <<profile, speech, engineVars, cut, items, half, done, gone>>
    BY <1>3 DEF Replay
  <2>2. /\ [kind |-> "completed", item |-> i, named |-> named] \in Messages
        /\ i[2] <= Len(speech)
    BY <2>1 DEF StreamInv, StreamShape, Before, Messages, Ids
  <2>3. QED BY <2>1, <2>2, SendsMessage
<1>4. CASE ServerEnds
  <2>1. PICK kind \in {"error", "close", "end"} :
          /\ gone = "no" /\ gone' = kind /\ ToEngine([kind |-> kind])
          /\ UNCHANGED <<profile, speech, engineVars, cut, items, half, done>>
    BY <1>4 DEF ServerEnds, ServerRuns
  <2>2. [kind |-> kind] \in Messages
    BY DEF Messages
  <2>3. QED BY <2>1, <2>2, SendsMessage DEF Texts
<1>5. CASE Ping
  <2>1. [kind |-> "ping"] \in Messages
    BY DEF Messages
  <2>2. ToEngine([kind |-> "ping"])
        /\ UNCHANGED <<profile, speech, engineVars, cut, items, half, done, gone>>
    BY <1>5 DEF Ping, serverVars
  <2>3. QED BY <2>1, <2>2, SendsMessage DEF Texts
<1>6. QED BY <1>1, <1>2, <1>3, <1>4, <1>5

\* A chunk more changes no text of what was said.
LEMMA SendsChunk ==
  ASSUME StreamInv, NEW w \in Words \cup {Hum}, SendChunk(w)
  PROVE  StreamInv'
<1>1. /\ speech' = Append(speech, w) /\ Len(speech) < MaxChunks
      /\ UNCHANGED <<profile, engineVars, cut, items, half, done, gone, wire>>
  BY DEF SendChunk, serverVars
<1>2. /\ speech' \in Seq(Words \cup {Hum}) /\ Len(speech) \in Nat
      /\ Len(speech') = Len(speech) + 1 /\ Len(speech') <= MaxChunks
  BY <1>1, StreamBounds DEF StreamInv, StreamShape
<1>3. StreamShape'
  BY <1>1, <1>2 DEF StreamInv, StreamShape, engineVars
<1>4. \A i \in Items : i[2] <= Len(speech) => i[2] <= Len(speech')
  BY <1>2, StreamBounds DEF Items
<1>5. /\ \A i \in items \cup done : i \in Items
      /\ \A k \in 1 .. Len(wire) : wire[k].kind \in Texts => wire[k].item \in Items
      /\ \A k \in 1 .. Len(typed) : typed[k] \in Items
  BY MessageKinds DEF StreamInv, StreamShape
<1>6. Before'
  BY <1>1, <1>4, <1>5 DEF StreamInv, Before, engineVars
<1>7. Noted' /\ DeltaOnce' /\ TypedOnce' /\ KeepsTyped'
  BY <1>1 DEF StreamInv, Noted, DeltaOnce, TypedOnce, KeepsTyped, engineVars
<1>8. TextOnce'
  <2>1. \A k \in 1 .. Len(typed) : Text(typed[k])' = Text(typed[k])
    <3>1. TAKE k \in 1 .. Len(typed)
    <3>2. typed[k] \in Items /\ typed[k][2] <= Len(speech) /\ typed' = typed
      BY <1>1, <1>5 DEF StreamInv, Before, engineVars
    <3>3. \A i \in Items : i[2] <= Len(speech) => Text(i)' = Text(i)
      BY <1>1, TextStays DEF StreamInv, StreamShape
    <3>4. QED BY <3>2, <3>3 DEF Text
  <2>2. QED BY <1>1, <2>1 DEF StreamInv, TextOnce, engineVars
<1>9. QED BY <1>3, <1>6, <1>7, <1>8 DEF StreamInv

\* The microphone closes, a chunk cannot be sent, or the wait runs out:
\* nothing is typed.  Once the tail was committed no send can fail, and text
\* that was typed keeps the stream from failing.
LEMMA ClosesOrEnds ==
  ASSUME StreamInv, CloseInput \/ SendFails \/ TimesOut
  PROVE  StreamInv'
<1>1. /\ wire' = wire \/ wire' = <<>>
      /\ engine.end = "none" /\ engine'.anyText = engine.anyText
      /\ UNCHANGED <<profile, speech, textsTyped, typed, cut, items, half, done, gone>>
  BY DEF CloseInput, SendFails, TimesOut, serverVars, EndsWithout, EndsAs, ReadsAudio,
         StreamOver, StreamInv, StreamShape
<1>2. StreamShape'
  <2>1. engine' \in [closed : BOOLEAN, committed : BOOLEAN, final : BOOLEAN,
                     anyText : BOOLEAN, end : {"none", "completed", "ok", "failed"}]
    BY DEF StreamInv, StreamShape, CloseInput, SendFails, TimesOut, EndsWithout, EndsAs
  <2>2. wire \in Seq(Messages) /\ <<>> \in Seq(Messages)
    BY DEF StreamInv, StreamShape
  <2>3. wire' \in Seq(Messages)
    BY <1>1, <2>2
  <2>4. QED BY <1>1, <2>1, <2>3 DEF StreamInv, StreamShape
<1>3. Before' /\ Noted' /\ DeltaOnce' /\ TypedOnce'
  <2>1. engine'.committed => engine'.closed
    BY DEF StreamInv, StreamShape, Noted, CloseInput, SendFails, TimesOut, ReadsAudio,
           EndsWithout, EndsAs
  <2>2. QED BY <1>1, <2>1 DEF StreamInv, Before, Noted, DeltaOnce, TypedOnce
<1>4. TextOnce'
  BY <1>1 DEF StreamInv, TextOnce, Text
<1>5. KeepsTyped'
  BY <1>1 DEF StreamInv, StreamShape, Noted, KeepsTyped, CloseInput, SendFails, TimesOut,
              EndsWithout, EndsAs, Graceful, Awaiting, ReadsAudio
<1>6. QED BY <1>2, <1>3, <1>4, <1>5 DEF StreamInv

\* The messages that are left are as they were.
LEMMA LeavesRest ==
  ASSUME StreamInv, wire' \in Seq(Messages),
         \A k \in 1 .. Len(wire') : wire'[k] = wire[k + 1] /\ k + 1 \in 1 .. Len(wire),
         UNCHANGED <<profile, speech, items, half, done, typed>>
  PROVE  Before' /\ DeltaOnce'
<1>1. Before'
  BY DEF StreamInv, Before
<1>2. DeltaOnce'
  <2>1. SUFFICES ASSUME profile = "OpenAi" PROVE DeltaOnce'
    BY DEF DeltaOnce
  <2>2. \A k \in 1 .. Len(wire') : wire'[k].kind = "delta" =>
          /\ wire'[k].item \in half
          /\ \A j \in 1 .. Len(typed) : wire'[k].item # typed[j]
    BY <2>1 DEF StreamInv, DeltaOnce
  <2>3. \A j, k \in 1 .. Len(wire') :
          wire'[j].kind = "delta" /\ wire'[k].kind = "delta" /\ wire'[j].item = wire'[k].item
            => j = k
    BY <2>1 DEF StreamInv, DeltaOnce
  <2>4. QED BY <2>1, <2>2, <2>3 DEF StreamInv, DeltaOnce
<1>3. QED BY <1>1, <1>2

\* What the engine does with the first message, if it is no text: nothing is
\* typed, and once something was only an error fails the stream after the commit.
LEMMA ReadsOther ==
  ASSUME StreamInv, ReadMessage, wire[1].kind \notin Texts
  PROVE  StreamInv'
<1>1. /\ wire # <<>> /\ engine.end = "none"
      /\ wire' = <<>> \/ wire' = Tail(wire)
      /\ UNCHANGED <<profile, speech, cut, items, half, done, gone>>
  BY DEF ReadMessage, StreamOver, serverVars
<1>2. /\ Head(wire) = wire[1] /\ Head(wire) \in Messages /\ 1 \in 1 .. Len(wire)
      /\ wire' \in Seq(Messages)
      /\ \A k \in 1 .. Len(wire') : wire'[k] = wire[k + 1] /\ k + 1 \in 1 .. Len(wire)
  BY <1>1, Received DEF StreamInv, StreamShape
<1>3. /\ OnOther(wire[1].kind) /\ UNCHANGED <<textsTyped, typed>>
      /\ wire[1].kind \in {"emptyCommit", "error", "cleared", "close", "end", "ping"}
  BY <1>2, MessageKinds DEF ReadMessage, Texts
<1>4. \/ engine' = engine
      \/ EndsWithout
      \/ EndsAs("ok")
      \/ EndsAs("failed") /\ wire[1].kind = "error"
  BY <1>3 DEF OnOther, KeepsStreaming
<1>5. /\ engine' \in [closed : BOOLEAN, committed : BOOLEAN, final : BOOLEAN,
                     anyText : BOOLEAN, end : {"none", "completed", "ok", "failed"}]
      /\ engine'.anyText = engine.anyText /\ engine'.closed = engine.closed
      /\ engine'.committed = engine.committed
  BY <1>4 DEF StreamInv, StreamShape, EndsWithout, EndsAs
<1>6. StreamShape'
  BY <1>1, <1>2, <1>3, <1>5 DEF StreamInv, StreamShape
<1>7. Before' /\ Noted' /\ DeltaOnce'
  BY <1>1, <1>2, <1>3, <1>5, LeavesRest DEF StreamInv, Noted
<1>8. TextOnce' /\ TypedOnce'
  BY <1>1, <1>3 DEF StreamInv, TextOnce, TypedOnce, Text
<1>9. KeepsTyped'
  <2>1. SUFFICES ASSUME engine'.end = "failed", engine'.committed, typed # <<>>
                 PROVE  gone = "error"
    BY <1>1, <1>3 DEF KeepsTyped
  <2>2. engine.closed /\ engine.anyText
    BY <1>5, <2>1 DEF StreamInv, Noted
  <2>3. wire[1].kind = "error"
    BY <1>1, <1>4, <2>1, <2>2 DEF StreamInv, StreamShape, EndsWithout, EndsAs, Graceful
  <2>4. QED BY <1>2, <2>3 DEF StreamInv, Noted
<1>10. QED BY <1>6, <1>7, <1>8, <1>9 DEF StreamInv

\* The engine types the text of a message as one more item that nothing typed
\* before is, or leaves what is typed alone.
LEMMA TypesNext ==
  ASSUME StreamInv, NEW i \in Items, typed' = Append(typed, i),
         \A k \in 1 .. Len(typed) : typed[k] # i
  PROVE  /\ typed' \in Seq(Items) /\ TypedOnce'
         /\ \A k \in 1 .. Len(typed') :
              (k \in 1 .. Len(typed) /\ typed'[k] = typed[k]) \/ typed'[k] = i
<1>1. typed \in Seq(Items) /\ Len(typed) \in Nat
  BY DEF StreamInv, StreamShape
<1>2. /\ typed' \in Seq(Items) /\ Len(typed') = Len(typed) + 1
      /\ \A k \in 1 .. Len(typed) : typed'[k] = typed[k]
      /\ typed'[Len(typed) + 1] = i
  BY <1>1, AppendProperties
<1>3. DOMAIN typed = 1 .. Len(typed) /\ DOMAIN typed' = 1 .. Len(typed')
  BY <1>1, <1>2
<1>4. \A k \in 1 .. Len(typed') :
        \/ k \in 1 .. Len(typed) /\ typed'[k] = typed[k]
        \/ k = Len(typed) + 1 /\ typed'[k] = i
  BY <1>1, <1>2
<1>5. TypedOnce'
  BY <1>3, <1>4 DEF StreamInv, TypedOnce
<1>6. QED BY <1>2, <1>4, <1>5

\* A delta is typed once: it was on the wire, so it is not typed yet, and it
\* is the only one of its item.
LEMMA ReadsDelta ==
  ASSUME StreamInv, ReadMessage, wire[1].kind = "delta"
  PROVE  StreamInv'
<1> DEFINE m == wire[1]
<1>1. /\ wire # <<>> /\ engine.end = "none"
      /\ wire' = <<>> \/ wire' = Tail(wire)
      /\ UNCHANGED <<profile, speech, cut, items, half, done, gone>>
  BY DEF ReadMessage, StreamOver, serverVars
<1>2. /\ Head(wire) = m /\ m \in Messages /\ 1 \in 1 .. Len(wire)
      /\ wire' \in Seq(Messages)
      /\ \A k \in 1 .. Len(wire') : wire'[k] = wire[k + 1] /\ k + 1 \in 1 .. Len(wire)
  BY <1>1, Received DEF StreamInv, StreamShape
<1>3. OnDelta(m) /\ UNCHANGED textsTyped /\ m.item \in Items
  BY <1>2, MessageKinds DEF ReadMessage, Texts
<1>4. \/ engine' = engine /\ typed' = typed
      \/ /\ profile = "OpenAi" /\ typed' = Append(typed, m.item)
         /\ engine' = [engine EXCEPT !.anyText = TRUE]
  BY <1>3 DEF OnDelta, KeepsStreaming
<1>5. /\ engine' \in [closed : BOOLEAN, committed : BOOLEAN, final : BOOLEAN,
                     anyText : BOOLEAN, end : {"none", "completed", "ok", "failed"}]
      /\ engine'.end = "none"
      /\ engine'.committed = engine.committed /\ engine'.closed = engine.closed
      /\ engine.anyText => engine'.anyText
      /\ typed' # typed => engine'.anyText
  BY <1>1, <1>4 DEF StreamInv, StreamShape
<1>6. CASE typed' = typed
  <2>1. StreamShape' /\ Before' /\ DeltaOnce'
    BY <1>1, <1>2, <1>5, <1>6, LeavesRest DEF StreamInv, StreamShape
  <2>2. Noted'
    BY <1>1, <1>2, <1>5, <1>6 DEF StreamInv, Noted
  <2>3. TextOnce' /\ TypedOnce' /\ KeepsTyped'
    BY <1>1, <1>3, <1>5, <1>6 DEF StreamInv, TextOnce, TypedOnce, KeepsTyped, Text
  <2>4. QED BY <2>1, <2>2, <2>3 DEF StreamInv
<1>7. CASE profile = "OpenAi" /\ typed' = Append(typed, m.item)
  <2>1. /\ \A k \in 1 .. Len(typed) : typed[k] # m.item
        /\ m.item \in half
    BY <1>2, <1>7 DEF StreamInv, DeltaOnce
  <2>2. /\ typed' \in Seq(Items) /\ TypedOnce'
        /\ \A k \in 1 .. Len(typed') :
             (k \in 1 .. Len(typed) /\ typed'[k] = typed[k]) \/ typed'[k] = m.item
    BY <1>3, <1>7, <2>1, TypesNext
  <2>3. StreamShape'
    BY <1>1, <1>2, <1>5, <2>2 DEF StreamInv, StreamShape
  <2>4. m.item[2] <= Len(speech)
    BY <1>2 DEF StreamInv, Before, Texts
  <2>5. Before'
    BY <1>1, <1>2, <2>2, <2>4 DEF StreamInv, Before
  <2>6. typed' # typed
    BY <1>7 DEF StreamInv, StreamShape
  <2>7. Noted'
    BY <1>1, <1>2, <1>5, <2>6 DEF StreamInv, Noted
  <2>8. DeltaOnce'
    <3>1. \A k \in 1 .. Len(wire') : wire'[k].kind = "delta" =>
            wire'[k].item \in half /\ wire'[k].item # m.item
      BY <1>2, <1>7 DEF StreamInv, DeltaOnce
    <3>2. \A j, k \in 1 .. Len(wire') :
            wire'[j].kind = "delta" /\ wire'[k].kind = "delta" /\ wire'[j].item = wire'[k].item
              => j = k
      BY <1>2, <1>7 DEF StreamInv, DeltaOnce
    <3>3. \A j \in 1 .. Len(wire'), k \in 1 .. Len(typed') :
            wire'[j].kind = "delta" => wire'[j].item # typed'[k]
      BY <1>2, <1>7, <2>2, <3>1 DEF StreamInv, DeltaOnce
    <3>4. QED BY <1>1, <1>7, <2>1, <2>2, <3>1, <3>2, <3>3 DEF StreamInv, DeltaOnce
  <2>9. TextOnce' /\ KeepsTyped'
    BY <1>1, <1>5, <1>7 DEF TextOnce, KeepsTyped
  <2>10. QED BY <2>2, <2>3, <2>5, <2>7, <2>8, <2>9 DEF StreamInv
<1>8. QED BY <1>4, <1>6, <1>7

\* A completed text is typed only if it is looked up and not found: then no
\* item typed before has this text, so none is this item.
LEMMA ReadsCompleted ==
  ASSUME StreamInv, ReadMessage, wire[1].kind = "completed"
  PROVE  StreamInv'
<1> DEFINE m == wire[1]
<1>1. /\ wire # <<>> /\ engine.end = "none"
      /\ wire' = <<>> \/ wire' = Tail(wire)
      /\ UNCHANGED <<profile, speech, cut, items, half, done, gone>>
  BY DEF ReadMessage, StreamOver, serverVars
<1>2. /\ Head(wire) = m /\ m \in Messages /\ 1 \in 1 .. Len(wire)
      /\ wire' \in Seq(Messages)
      /\ \A k \in 1 .. Len(wire') : wire'[k] = wire[k + 1] /\ k + 1 \in 1 .. Len(wire)
  BY <1>1, Received DEF StreamInv, StreamShape
<1>3. OnCompleted(m) /\ m.item \in Items
  BY <1>2, MessageKinds DEF ReadMessage, Texts
<1>4. NewText(m) \in BOOLEAN
  BY DEF NewText
<1>5. /\ engine' \in [closed : BOOLEAN, committed : BOOLEAN, final : BOOLEAN,
                     anyText : BOOLEAN, end : {"none", "completed", "ok", "failed"}]
      /\ engine'.end # "failed"
      /\ engine'.committed = engine.committed /\ engine'.closed = engine.closed
      /\ engine'.anyText <=> engine.anyText \/ NewText(m)
  BY <1>1, <1>3, <1>4 DEF StreamInv, StreamShape, OnCompleted, Completes, Awaiting
<1>6. CASE ~NewText(m)
  <2>1. UNCHANGED <<typed, textsTyped>>
    BY <1>3, <1>6 DEF OnCompleted
  <2>2. StreamShape' /\ Before' /\ DeltaOnce'
    BY <1>1, <1>2, <1>5, <2>1, LeavesRest DEF StreamInv, StreamShape
  <2>3. Noted'
    BY <1>1, <1>2, <1>5, <2>1 DEF StreamInv, Noted
  <2>4. TextOnce' /\ TypedOnce' /\ KeepsTyped'
    BY <1>1, <1>5, <2>1 DEF StreamInv, TextOnce, TypedOnce, KeepsTyped, Text
  <2>5. QED BY <2>2, <2>3, <2>4 DEF StreamInv
<1>7. CASE NewText(m)
  <2>1. /\ profile = "Lemonade" /\ Text(m.item) \notin textsTyped
        /\ typed' = Append(typed, m.item)
        /\ textsTyped' = textsTyped \cup {Text(m.item)}
    BY <1>3, <1>7 DEF OnCompleted, NewText
  <2>2. \A k \in 1 .. Len(typed) : typed[k] # m.item
    BY <2>1 DEF StreamInv, TextOnce
  <2>3. /\ typed' \in Seq(Items) /\ TypedOnce'
        /\ \A k \in 1 .. Len(typed') :
             (k \in 1 .. Len(typed) /\ typed'[k] = typed[k]) \/ typed'[k] = m.item
    BY <1>3, <2>1, <2>2, TypesNext
  <2>4. StreamShape'
    BY <1>1, <1>2, <1>5, <2>3 DEF StreamInv, StreamShape
  <2>5. m.item[2] <= Len(speech)
    BY <1>2 DEF StreamInv, Before, Texts
  <2>6. Before'
    BY <1>1, <1>2, <2>3, <2>5 DEF StreamInv, Before
  <2>7. Noted'
    BY <1>1, <1>2, <1>5, <1>7 DEF StreamInv, Noted
  <2>8. DeltaOnce' /\ KeepsTyped'
    BY <1>1, <1>5, <2>1 DEF DeltaOnce, KeepsTyped
  <2>9. TextOnce'
    <3>1. \A i : Text(i)' = Text(i)
      BY <1>1 DEF Text
    <3>2. \A k \in 1 .. Len(typed') : Text(typed'[k]) \in textsTyped'
      BY <2>1, <2>3 DEF StreamInv, TextOnce
    <3>3. QED BY <1>1, <3>1, <3>2 DEF TextOnce, Text
  <2>10. QED BY <2>3, <2>4, <2>6, <2>7, <2>8, <2>9 DEF StreamInv
<1>8. QED BY <1>6, <1>7
-----------------------------------------------------------------------------
(* The theorems.                                                           *)

\* A step of the specification, or none, keeps the invariant.
LEMMA StepKeepsInv ==
  ASSUME StreamInv, [StreamNext]_streamVars
  PROVE  StreamInv'
<1>1. CASE DetectTurn \/ CommitTail
  BY <1>1, CutsItems
<1>2. CASE SendDelta
  BY <1>2, SendsDelta
<1>3. CASE CommitNothing \/ SendCompleted \/ Replay \/ Ping \/ ServerEnds
  BY <1>3, ServerSends
<1>4. CASE \E w \in Words \cup {Hum} : SendChunk(w)
  BY <1>4, SendsChunk
<1>5. CASE CloseInput \/ SendFails \/ TimesOut
  BY <1>5, ClosesOrEnds
<1>6. CASE ReadMessage
  BY <1>6, ReadsOther, ReadsDelta, ReadsCompleted DEF Texts
<1>7. CASE UNCHANGED streamVars
  BY <1>7 DEF StreamInv, StreamShape, Before, Noted, DeltaOnce, TextOnce, TypedOnce, KeepsTyped,
              Text, streamVars, engineVars, serverVars
<1>8. QED BY <1>1, <1>2, <1>3, <1>4, <1>5, <1>6, <1>7 DEF StreamNext

\* StreamInv holds in every state of the stream.
THEOREM StreamInvariant == StreamSpec => []StreamInv
<1>1. StreamInit => StreamInv
  BY StartsInv
<1>2. StreamInv /\ [StreamNext]_streamVars => StreamInv'
  BY StepKeepsInv
<1>3. QED BY <1>1, <1>2, PTL DEF StreamSpec

\* However many words are said and events sent again, and however they are
\* interleaved, the engine types no item twice (emit_text, on_completed).
THEOREM NothingTypedTwice == StreamSpec => []TypedOnce
<1>1. StreamInv => TypedOnce
  BY DEF StreamInv
<1>2. QED BY <1>1, StreamInvariant, PTL

\* Once the tail was committed, a stream that typed something fails only if
\* the server reported an error or the connection broke: no timeout, empty
\* commit or clean close makes it fail
\* (can_finalize_without_post_commit_completion).
THEOREM TypedTextIsKept == StreamSpec => []KeepsTyped
<1>1. StreamInv => KeepsTyped
  BY DEF StreamInv
<1>2. QED BY <1>1, StreamInvariant, PTL
-----------------------------------------------------------------------------
(* The types: StreamTyped.                                                 *)
\* What StreamTyped says beside StreamInv: the engine's lookups, the server.
LookupsTyped ==
  /\ itemsTyped \subseteq ToSet(typed) /\ read \subseteq Items
  /\ \A t \in textsTyped : \E i \in ToSet(typed) : t = Text(i)
ServerTyped ==
  /\ vad \in BOOLEAN /\ gone \in {"no", "error", "close", "end"}
  /\ tail \in Items \cup {NoItem, NoTail}
  /\ replays \in 0 .. MaxReplays

\* What was typed is of items, and was said.
LEMMA TypedWasSaid ==
  ASSUME StreamInv
  PROVE  \A i \in ToSet(typed) : i \in Items /\ i[2] <= Len(speech)
<1>1. typed \in Seq(Items) BY DEF StreamInv, StreamShape
<1>2. DOMAIN typed = 1 .. Len(typed) /\ \A k \in 1 .. Len(typed) : typed[k] \in Items
  BY <1>1, LenProperties, ElementOfSeq
<1> QED BY <1>2 DEF ToSet, StreamInv, Before

\* What is typed next joins the rest.
LEMMA TypedGrows ==
  ASSUME StreamInv, NEW i \in Items, typed' = Append(typed, i)
  PROVE  ToSet(typed') = ToSet(typed) \cup {i}
<1>1. typed \in Seq(Items) BY DEF StreamInv, StreamShape
<1>2. /\ Len(typed') = Len(typed) + 1 /\ typed'[Len(typed) + 1] = i /\ Len(typed) \in Nat
      /\ \A k \in 1 .. Len(typed) : typed'[k] = typed[k]
      /\ DOMAIN typed' = 1 .. Len(typed) + 1 /\ DOMAIN typed = 1 .. Len(typed)
  BY <1>1, AppendProperties, LenProperties
<1> QED BY <1>2 DEF ToSet

\* What is looked up was typed.
LEMMA LookupsStay ==
  ASSUME StreamInv, LookupsTyped, [StreamNext]_streamVars PROVE LookupsTyped'
<1>1. ASSUME UNCHANGED <<speech, itemsTyped, read, textsTyped>>, ToSet(typed) \subseteq ToSet(typed')
      PROVE  LookupsTyped'
  <2>1. \A i : Text(i)' = Text(i) BY <1>1 DEF Text
  <2> QED BY <1>1, <2>1 DEF LookupsTyped
<1>2. CASE UNCHANGED streamVars BY <1>1, <1>2 DEF streamVars, engineVars
<1>3. CASE DetectTurn \/ CommitTail \/ CommitNothing \/ SendDelta \/ SendCompleted
             \/ Replay \/ Ping \/ ServerEnds \/ CloseInput \/ SendFails \/ TimesOut
  BY <1>1, <1>3 DEF DetectTurn, CommitTail, CommitNothing, SendDelta, SendCompleted, Replay,
     Ping, ServerEnds, CloseInput, SendFails, TimesOut, engineVars
<1>4. ASSUME NEW w \in Words \cup {Hum}, SendChunk(w) PROVE LookupsTyped'
  <2>1. /\ speech' = Append(speech, w) /\ UNCHANGED <<itemsTyped, read, textsTyped, typed>>
        /\ speech \in Seq(Words \cup {Hum})
    BY <1>4 DEF SendChunk, engineVars, StreamInv, StreamShape
  <2>2. \A i \in ToSet(typed) : Text(i)' = Text(i)
    <3>1. \A i \in Items : i[2] <= Len(speech) => Text(i)' = Text(i)
      BY <2>1, TextStays
    <3> QED BY <3>1, TypedWasSaid
  <2> QED BY <2>1, <2>2 DEF LookupsTyped
<1>5. CASE ReadMessage
  <2> DEFINE m == wire[1]
  <2>1. /\ UNCHANGED speech /\ Head(wire) = m /\ m \in Messages /\ 1 \in 1 .. Len(wire)
    <3>1. wire # <<>> /\ wire \in Seq(Messages) /\ UNCHANGED speech
      BY <1>5 DEF ReadMessage, StreamInv, StreamShape
    <3> QED BY <3>1
  <2>2. m.kind \in Texts => m.item \in Items BY <2>1, MessageKinds
  <2>3. \A i : Text(i)' = Text(i) BY <2>1 DEF Text
  <2>4. CASE m.kind = "completed"
    <3>1. OnCompleted(m) /\ m.item \in Items
      BY <1>5, <2>1, <2>2, <2>4 DEF ReadMessage, Texts
    <3>2. CASE NewText(m)
      <4>1. /\ typed' = Append(typed, m.item) /\ read' = read \cup {m.item}
            /\ textsTyped' = textsTyped \cup {Text(m.item)}
            /\ itemsTyped' \subseteq itemsTyped \cup {m.item}
        BY <3>1, <3>2 DEF OnCompleted
      <4>2. ToSet(typed') = ToSet(typed) \cup {m.item} BY <3>1, <4>1, TypedGrows
      <4> QED BY <2>3, <3>1, <4>1, <4>2 DEF LookupsTyped
    <3>3. CASE ~NewText(m)
      <4>1. UNCHANGED <<typed, textsTyped, itemsTyped>> /\ read' = read \cup {m.item}
        BY <3>1, <3>3 DEF OnCompleted
      <4> QED BY <2>3, <3>1, <4>1 DEF LookupsTyped
    <3> QED BY <3>2, <3>3
  <2>5. CASE m.kind = "delta"
    <3>1. OnDelta(m) /\ m.item \in Items /\ UNCHANGED <<itemsTyped, textsTyped, read>>
      BY <1>5, <2>1, <2>2, <2>5 DEF ReadMessage, Texts
    <3>2. ToSet(typed) \subseteq ToSet(typed')
      BY <3>1, TypedGrows DEF OnDelta
    <3> QED BY <1>1, <2>1, <3>1, <3>2
  <2>6. CASE m.kind \notin {"completed", "delta"}
    BY <1>1, <1>5, <2>1, <2>6 DEF ReadMessage
  <2> QED BY <2>4, <2>5, <2>6
<1> QED BY <1>2, <1>3, <1>4, <1>5 DEF StreamNext

\* The server's side.
LEMMA ServerStays ==
  ASSUME StreamInv, ServerTyped, [StreamNext]_streamVars PROVE ServerTyped'
<1>1. ASSUME UNCHANGED <<vad, gone, tail, replays>> PROVE ServerTyped'
  BY <1>1 DEF ServerTyped
<1>2. CASE UNCHANGED streamVars BY <1>1, <1>2 DEF streamVars, serverVars
<1>3. CASE DetectTurn \/ SendDelta \/ SendCompleted \/ CloseInput \/ SendFails \/ TimesOut
             \/ ReadMessage \/ Ping \/ \E w \in Words \cup {Hum} : SendChunk(w)
  BY <1>1, <1>3 DEF DetectTurn, Ping, SendDelta, SendCompleted, CloseInput, SendFails, TimesOut,
     ReadMessage, SendChunk, serverVars
<1>4. CASE CommitTail
  BY <1>4, NextItemIsOne DEF CommitTail, StreamInv, ServerTyped
<1>5. CASE CommitNothing
  BY <1>5 DEF CommitNothing, ServerTyped
<1>6. CASE Replay
  BY <1>6, StreamBounds DEF Replay, ServerTyped
<1>7. CASE ServerEnds
  BY <1>7 DEF ServerEnds, ServerTyped
<1> QED BY <1>2, <1>3, <1>4, <1>5, <1>6, <1>7 DEF StreamNext

\* The stream keeps its types, with StreamInv, which has those of what was
\* said, typed and sent: also, what the engine looks up as typed already
\* (emitted_completed_item_ids, emitted_completed_text) was typed.
THEOREM StreamKeepsTypes == StreamSpec => []StreamTyped
<1>1. StreamInit => LookupsTyped /\ ServerTyped
  <2> SUFFICES ASSUME StreamInit PROVE LookupsTyped /\ ServerTyped OBVIOUS
  <2>1. LookupsTyped BY DEF StreamInit, LookupsTyped
  <2>2. vad \in BOOLEAN /\ gone \in {"no", "error", "close", "end"} BY Zenon DEF StreamInit
  <2>3. tail \in Items \cup {NoItem, NoTail} BY Zenon DEF StreamInit
  <2>4. replays \in 0 .. MaxReplays BY StreamBounds DEF StreamInit
  <2> QED BY <2>1, <2>2, <2>3, <2>4 DEF ServerTyped
<1>2. StreamInv /\ LookupsTyped /\ ServerTyped /\ [StreamNext]_streamVars
        => LookupsTyped' /\ ServerTyped'
  BY LookupsStay, ServerStays
<1>3. StreamInv /\ LookupsTyped /\ ServerTyped => StreamTyped
  <2> SUFFICES ASSUME StreamInv, LookupsTyped, ServerTyped PROVE StreamTyped OBVIOUS
  <2> USE StreamBounds
  <2>1. speech \in BoundedSeq(Words \cup {Hum}, MaxChunks) /\ cut \in 0 .. Len(speech)
    <3>1. /\ speech \in Seq(Words \cup {Hum}) /\ Len(speech) \in 0 .. MaxChunks
          /\ cut \in Nat /\ cut <= Len(speech)
      BY DEF StreamInv, StreamShape
    <3>2. speech \in [1 .. Len(speech) -> Words \cup {Hum}] BY <3>1
    <3>3. speech \in UNION {[1 .. m -> Words \cup {Hum}] : m \in 0 .. MaxChunks}
      BY <3>1, <3>2
    <3>4. speech \in BoundedSeq(Words \cup {Hum}, MaxChunks)
      BY Zenon, <3>3 DEF BoundedSeq, SeqOf
    <3>5. cut \in 0 .. Len(speech) BY <3>1
    <3> QED BY <3>4, <3>5
  <2>2. itemsTyped \subseteq ToSet(typed) /\ textsTyped \subseteq {Text(i) : i \in ToSet(typed)}
    BY DEF LookupsTyped
  <2>3. \A m \in ToSet(wire) : m \in Messages
    BY DEF ToSet, StreamInv, StreamShape
  <2>4. /\ profile \in {"OpenAi", "Lemonade"} /\ typed \in Seq(Items)
        /\ engine \in [closed : BOOLEAN, committed : BOOLEAN, final : BOOLEAN,
                       anyText : BOOLEAN, end : {"none", "completed", "ok", "failed"}]
        /\ items \subseteq Items /\ half \subseteq Items /\ done \subseteq Items
    BY Zenon DEF StreamInv, StreamShape
  <2>5. /\ vad \in BOOLEAN /\ gone \in {"no", "error", "close", "end"} /\ read \subseteq Items
        /\ tail \in Items \cup {NoItem, NoTail} /\ replays \in 0 .. MaxReplays
    BY Zenon DEF LookupsTyped, ServerTyped
  <2> QED BY Zenon, <2>1, <2>2, <2>3, <2>4, <2>5 DEF StreamTyped
<1> QED BY <1>1, <1>2, <1>3, StreamInvariant, PTL DEF StreamSpec
=============================================================================
