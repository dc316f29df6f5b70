--------------------------- MODULE RealtimeStream ---------------------------
(***************************************************************************)
(* The protocol engine of the realtime transcription backends              *)
(* (transcription/openai_realtime_protocol/engine.rs): it streams the      *)
(* microphone's audio to a server, types the text that comes back, and     *)
(* after the microphone closed commits the buffered tail and decides when  *)
(* the stream is over, and whether it failed.                              *)
(*                                                                         *)
(* A chunk is one word of speech, or a Hum that is none.  The server is    *)
(* external: it cuts the buffered chunks into items, by its own voice      *)
(* detection or on the commit, transcribes the items in any order, sends   *)
(* for each a delta and a completed event, may send a completed event      *)
(* again, or without its item id, answers an empty commit with an error,   *)
(* with "cleared" or not at all, may send pings, and may fail, close or    *)
(* break off.  Left out: the handshake, and a typing channel nobody reads. *)
(***************************************************************************)
EXTENDS Naturals, Sequences, SequencesExt, FiniteSets

CONSTANTS
  Words,        \* what a user may say: the same word may be said twice
  Hum,          \* noise: the server transcribes it to nothing
  MaxChunks,    \* chunks of audio
  MaxReplays    \* completed events the server sends again

ASSUME StreamBounds == MaxChunks \in Nat /\ MaxReplays \in Nat /\ Hum \notin Words

VARIABLES
  profile,      \* OpenAiRealtimeProfile: "OpenAi" or "Lemonade"
  speech,       \* the chunks sent, in order
  engine,       \* StreamState's flags, and how the stream ended
  itemsTyped,   \* emitted_completed_item_ids
  textsTyped,   \* emitted_completed_text
  typed,        \* what reached the typing channel: the items, in order
  vad,          \* the server's: it detects the turns by itself
  cut,          \* how many chunks are in items
  tail,         \* the item the commit made
  items,        \* items not transcribed
  half,         \* items whose delta was sent
  done,         \* items whose completed event was sent
  replays,      \* how many of these were sent again
  wire,         \* messages to the engine, in order
  gone,         \* whether the server has ended it: "no", or how
  read          \* items whose completed event the engine read

engineVars == <<engine, itemsTyped, textsTyped, typed, read>>
serverVars == <<cut, tail, items, half, done, replays, gone>>
streamVars == <<profile, speech, engineVars, vad, serverVars, wire>>

(* An item stands for its chunks, from one position to another. *)
NoItem    == <<0, 0>>   \* no commit was answered yet
NoTail    == <<1, 0>>   \* the commit found nothing
Items     == {i \in (1 .. MaxChunks) \X (1 .. MaxChunks) : i[1] <= i[2]}
Spoken(w) == w # Hum
Text(i)   == SelectSeq(SubSeq(speech, i[1], i[2]), Spoken)

Messages ==
  [kind : {"delta", "completed"}, item : Items, named : BOOLEAN]
    \cup [kind : {"emptyCommit", "error", "cleared", "close", "end", "ping"}]

StreamTyped ==
  /\ profile \in {"OpenAi", "Lemonade"} /\ vad \in BOOLEAN
  /\ speech \in BoundedSeq(Words \cup {Hum}, MaxChunks)
  /\ engine \in [closed : BOOLEAN, committed : BOOLEAN, final : BOOLEAN,
                 anyText : BOOLEAN,
                 end : {"none", "completed", "ok", "failed"}]
  /\ typed \in Seq(Items) /\ read \subseteq Items
  /\ itemsTyped \subseteq ToSet(typed)
  /\ textsTyped \subseteq {Text(i) : i \in ToSet(typed)}
  /\ cut \in 0 .. Len(speech) /\ tail \in Items \cup {NoItem, NoTail}
  /\ items \subseteq Items /\ half \subseteq Items /\ done \subseteq Items
  /\ replays \in 0 .. MaxReplays /\ gone \in {"no", "error", "close", "end"}
  /\ \A m \in ToSet(wire) : m \in Messages

StreamInit ==
  /\ profile \in {"OpenAi", "Lemonade"} /\ vad \in BOOLEAN
  /\ speech = <<>> /\ typed = <<>> /\ wire = <<>>
  /\ engine = [closed |-> FALSE, committed |-> FALSE, final |-> FALSE,
               anyText |-> FALSE, end |-> "none"]
  /\ itemsTyped = {} /\ textsTyped = {} /\ read = {}
  /\ cut = 0 /\ tail = NoItem /\ replays = 0 /\ gone = "no"
  /\ items = {} /\ half = {} /\ done = {}
-----------------------------------------------------------------------------
(* The server.                                                             *)

StreamOver == engine.end # "none"
ServerRuns == gone = "no" /\ ~StreamOver
ToEngine(m)   == wire' = Append(wire, m)

(* Voice detection ends a turn: what is buffered becomes an item.          *)
NextItem == <<cut + 1, Len(speech)>>
DetectTurn ==
  /\ ServerRuns /\ vad /\ cut < Len(speech)
  /\ items' = items \cup {NextItem} /\ cut' = Len(speech)
  /\ UNCHANGED <<profile, speech, engineVars, vad, tail, half, done, replays, gone, wire>>

(* The commit takes effect: the tail becomes an item.  With nothing left   *)
(* to commit a server complains, clears the buffer or says nothing.        *)
Committed == engine.committed /\ tail = NoItem
CommitTail ==
  /\ ServerRuns /\ Committed /\ cut < Len(speech)
  /\ items' = items \cup {NextItem} /\ cut' = Len(speech) /\ tail' = NextItem
  /\ UNCHANGED <<profile, speech, engineVars, vad, half, done, replays, gone, wire>>

CommitNothing ==
  /\ ServerRuns /\ Committed /\ cut = Len(speech)
  /\ \E kind \in {"emptyCommit", "cleared"} : ToEngine([kind |-> kind])
  /\ tail' = NoTail
  /\ UNCHANGED <<profile, speech, engineVars, vad, cut, items, half, done, replays, gone>>

(* Append-only text comes as a delta first.  Previews are left out: they   *)
(* are kept, replaced and never typed.  Only the text that completes them  *)
(* is looked up by its item id.                                            *)
Ids == IF profile = "OpenAi" THEN {TRUE} ELSE BOOLEAN

SendDelta ==
  \E i \in items \ half :
    /\ ServerRuns /\ profile = "OpenAi"
    /\ half' = half \cup {i}
    /\ ToEngine([kind |-> "delta", item |-> i, named |-> TRUE])
    /\ UNCHANGED <<profile, speech, engineVars, vad, cut, tail, items, done, replays, gone>>

SendCompleted ==
  \E i \in items, named \in Ids :
    /\ ServerRuns /\ (profile = "OpenAi" => i \in half)
    /\ items' = items \ {i} /\ done' = done \cup {i}
    /\ ToEngine([kind |-> "completed", item |-> i, named |-> named])
    /\ UNCHANGED <<profile, speech, engineVars, vad, cut, tail, half, replays, gone>>

Replay ==
  \E i \in done, named \in Ids :
    /\ ServerRuns /\ replays < MaxReplays
    /\ replays' = replays + 1
    /\ ToEngine([kind |-> "completed", item |-> i, named |-> named])
    /\ UNCHANGED <<profile, speech, engineVars, vad, cut, tail, items, half, done, gone>>

\* A ping, or an event the engine only logs.  It matters where the engine
\* waits after the commit with nothing else to read, and is left out elsewhere.
Ping ==
  /\ ServerRuns /\ engine.committed /\ wire = <<>>
  /\ ToEngine([kind |-> "ping"])
  /\ UNCHANGED <<profile, speech, engineVars, vad, serverVars>>

\* It fails: it reports an error, or the connection breaks.  Or it closes the
\* connection, or just ends it.
ServerEnds ==
  \E kind \in {"error", "close", "end"} :
    /\ ServerRuns
    /\ gone' = kind
    /\ ToEngine([kind |-> kind])
    /\ UNCHANGED <<profile, speech, engineVars, vad, cut, tail, items, half, done, replays>>
-----------------------------------------------------------------------------
(* StreamState.  Its emitted_append_text is only looked up for previews,   *)
(* whose profile never adds to it.                                         *)

Awaiting(e)    == e.closed /\ e.committed /\ ~e.final
Graceful       == engine.closed /\ engine.anyText
EndsAs(how)    == engine' = [engine EXCEPT !.end = how]
EndsWithout    == EndsAs(IF Graceful THEN "ok" ELSE "failed")
KeepsStreaming == UNCHANGED engine

OnDeltaM(m) ==  \* mutant: typed text is not noted
  IF profile = "OpenAi" /\ Text(m.item) # <<>>
  THEN typed' = Append(typed, m.item) /\ KeepsStreaming
  ELSE KeepsStreaming /\ UNCHANGED typed
\* on_delta: append-only text is typed as it comes, a preview is not.
OnDelta(m) ==
  IF profile = "OpenAi" /\ Text(m.item) # <<>>
  THEN typed' = Append(typed, m.item) /\ engine' = [engine EXCEPT !.anyText = TRUE]
  ELSE KeepsStreaming /\ UNCHANGED typed

(* on_completed: only previews' completed text is typed, once; the event   *)
(* ends the stream once the tail is committed.                             *)
NewTextM(m) ==  \* mutant: only the item id is looked up
  /\ profile = "Lemonade"
  /\ Text(m.item) # <<>>
  /\ ~(m.named /\ m.item \in itemsTyped)
NewText(m) ==
  /\ profile = "Lemonade"
  /\ Text(m.item) # <<>>
  /\ ~(m.named /\ m.item \in itemsTyped)
  /\ Text(m.item) \notin textsTyped

Completes(m) ==
  engine' = [engine EXCEPT !.anyText = @ \/ NewText(m),
                           !.final = @ \/ Awaiting(engine),
                           !.end = IF Awaiting(engine) THEN "completed" ELSE @]

OnCompleted(m) ==
  /\ Completes(m)
  /\ read' = read \cup {m.item}
  /\ IF NewText(m)
     THEN /\ typed' = Append(typed, m.item)
          /\ textsTyped' = textsTyped \cup {Text(m.item)}
          /\ itemsTyped' = itemsTyped \cup (IF m.named THEN {m.item} ELSE {})
     ELSE UNCHANGED <<typed, textsTyped, itemsTyped>>

\* handle_server_message, but for the events with text.
OnOther(kind) ==
  CASE kind = "emptyCommit" -> EndsWithout
    [] kind = "cleared" ->
         IF profile = "Lemonade" /\ Awaiting(engine) THEN EndsAs("ok")
         ELSE KeepsStreaming
    [] kind = "ping"   -> KeepsStreaming
    [] kind = "close"  -> IF Awaiting(engine) THEN EndsWithout ELSE EndsAs("ok")
    [] kind = "end"    -> EndsWithout
    [] OTHER           -> EndsAs("failed")  \* an error, or the connection's
-----------------------------------------------------------------------------
(* transcribe_stream.                                                      *)

ReadsAudio == ~StreamOver /\ ~engine.closed

SendChunk(w) ==
  /\ ReadsAudio /\ Len(speech) < MaxChunks
  /\ speech' = Append(speech, w)
  /\ UNCHANGED <<profile, engineVars, vad, serverVars, wire>>

\* The microphone closed: the tail is committed.
CloseInputM ==  \* mutant: the commit is sent and not noted
  /\ ReadsAudio
  /\ engine' = [engine EXCEPT !.closed = TRUE]
  /\ UNCHANGED <<profile, speech, itemsTyped, textsTyped, typed, read, vad, serverVars, wire>>
CloseInput ==
  /\ ReadsAudio
  /\ engine' = [engine EXCEPT !.closed = TRUE, !.committed = TRUE]
  /\ UNCHANGED <<profile, speech, itemsTyped, textsTyped, typed, read, vad, serverVars, wire>>

\* A chunk or the commit cannot be sent any more, however the connection ended.
SendFails ==
  /\ ReadsAudio /\ gone # "no"
  /\ engine' \in {[engine EXCEPT !.end = "failed", !.closed = c] : c \in BOOLEAN}
  /\ wire' = <<>>
  /\ UNCHANGED <<profile, speech, itemsTyped, textsTyped, typed, read, vad, serverVars>>

ReadMessage ==
  /\ ~StreamOver /\ wire # <<>>
  /\ LET m == Head(wire) IN
       CASE m.kind = "delta" ->
              OnDelta(m) /\ UNCHANGED <<itemsTyped, textsTyped, read>>
         [] m.kind = "completed" -> OnCompleted(m)
         [] OTHER ->
              OnOther(m.kind) /\ UNCHANGED <<itemsTyped, textsTyped, typed, read>>
  /\ wire' = IF StreamOver' THEN <<>> ELSE Tail(wire)
  /\ UNCHANGED <<profile, speech, vad, serverVars>>

\* The wait after the commit runs out.  It is one for the next message,
\* whichever: with each that comes, a ping too, it begins anew.
TimesOut ==
  /\ ~StreamOver /\ Awaiting(engine) /\ wire = <<>>
  /\ EndsWithout
  /\ UNCHANGED <<profile, speech, itemsTyped, textsTyped, typed, read, vad, serverVars, wire>>
-----------------------------------------------------------------------------
StreamNext ==
  \/ DetectTurn \/ CommitTail \/ CommitNothing
  \/ SendDelta \/ SendCompleted \/ Replay \/ Ping \/ ServerEnds
  \/ \E w \in Words \cup {Hum} : SendChunk(w)
  \/ CloseInput \/ SendFails \/ ReadMessage \/ TimesOut

(* The engine reads what arrived, and its timer runs out by itself, unless *)
(* messages keep coming.  The server and the microphone owe nothing.       *)
StreamFair == WF_streamVars(ReadMessage) /\ WF_streamVars(TimesOut)

StreamSpec == StreamInit /\ [][StreamNext]_streamVars /\ StreamFair
-----------------------------------------------------------------------------
(* Properties.                                                             *)

(* Nothing is typed twice, whatever the server sends again and with or     *)
(* without its item id (emitted_completed_item_ids, emitted_completed_text; *)
(* text typed from deltas is not typed again when it completes).           *)
TypedOnce == \A i, k \in DOMAIN typed : i # k => typed[i] # typed[k]

(* Once the tail was committed, text that was typed is kept: the stream    *)
(* only fails if the server reported an error or the connection broke, and *)
(* never because the last answer is missing, be it by a timeout, an empty  *)
(* commit or a clean close (can_finalize_without_post_commit_completion).  *)
(* A commit that could not be sent fails the stream whatever ended it.     *)
KeepsTyped ==
  engine.end = "failed" /\ engine.committed /\ typed # <<>> => gone = "error"

(* Once the microphone closed the stream ends, also with a server that     *)
(* says nothing more, or nothing but pings that stop at some time.         *)
Pinged == \E k \in DOMAIN wire : wire[k].kind = "ping"
StreamEnds == <>[]~Pinged => (engine.closed ~> StreamOver)

(* The completed event that ends the stream is that of the committed tail, *)
(* if anybody spoke in it: not one of an earlier turn (the comments of     *)
(* final_completion_seen and of the wait after the commit).                *)
LastTurn == IF cut < Len(speech) THEN NextItem ELSE tail
TailIsAwaited ==
  engine.end = "completed" /\ LastTurn \in Items /\ Text(LastTurn) # <<>>
    => LastTurn \in read
=============================================================================
