------------------------ MODULE DaemonSessionProofs ------------------------
(***************************************************************************)
(* Theorems about DaemonSession, for any number of handlers, recordings    *)
(* and read-alouds and any set of command flows.                           *)
(*                                                                         *)
(* Those at the end are about presses that are handled one at a time, as   *)
(* the hotkey loop handles them (OneAtATime): Transcribing always has an   *)
(* owner, a context is set only for the recording that goes on, and a      *)
(* session that ended leaves the daemon as it found it.  Tasks, pipelines, *)
(* read-alouds and the reply queue run beside the one handler as they      *)
(* like.  With two handlers at once TLC finds all three violated (MCWedge  *)
(* shows the first), so the assumption is needed.                          *)
(***************************************************************************)
EXTENDS DaemonSession, TLAPS
(* What the helpers of the actions do to the types. *)

\* A transition, valid or refused, leaves a state of the machine.
LEMMA TransitionType ==
  ASSUME TypeDaemon, NEW action, Transition(action)
  PROVE  state' \in States
BY DEF TypeDaemon, Transition, Valid, After, States, ReadAloud

\* Hush takes tts_stop and sets its flag.
LEMMA HushType ==
  ASSUME TypeSpeeches, Hush
  PROVE  ttsStop' \in Opt(Speeches) /\ hushed' \subseteq Speeches
BY DEF TypeSpeeches, Hush, Opt, Some

\* A press that stops an agent's playback finds a state of the machine.
LEMMA BargeType ==
  ASSUME TypeDaemon, TypeSpeeches
  PROVE  /\ Barged \in States
         /\ BargeIn => /\ ttsStop' \in Opt(Speeches)
                       /\ hushed' \subseteq Speeches
<1>1. Barged \in States
  BY DEF TypeDaemon, Barged, AgentPlayback, After, States, ReadAloud
<1>2. BargeIn => ttsStop' \in Opt(Speeches) /\ hushed' \subseteq Speeches
  BY HushType DEF BargeIn, TypeSpeeches
<1>3. QED BY <1>1, <1>2

\* Stopping the capture closes what DaemonState held, if anything.
LEMMA StopType ==
  ASSUME TypeDaemon, TypeSessions, StopCapture
  PROVE  capture' \in Opt(Sessions) /\ closed' \subseteq Sessions
BY DEF TypeDaemon, TypeSessions, StopCapture, Opt, Some

\* Saving counts up to MaxSaved.
LEMMA SaveType ==
  ASSUME TypeSessions, NEW s \in Sessions, Save(s)
  PROVE  saved' \in [Sessions -> 0..MaxSaved]
BY DEF TypeSessions, Save, MaxSaved

\* A new session is one, whatever its flow.
LEMMA StartType ==
  ASSUME TypeDaemon, TypeSessions, NEW s \in Sessions,
         NEW flow \in CommandKinds \cup {"dictation"}, NEW step \in TaskSteps,
         StartSession(s, flow, step)
  PROVE  TypeSessions' /\ capture' \in Opt(Sessions)
BY DEF TypeDaemon, TypeSessions, StartSession, Opt, Some, MaxSaved

\* A handler goes to a step of its program that its command fits.
LEMMA GotoType ==
  ASSUME TypeHandlers, NEW p \in Procs, NEW step \in PcSteps, NEW for \in Purposes,
         Fits(step, for), Goto(p, step, for)
  PROVE  /\ pc' \in [Procs -> PcSteps]
         /\ what' \in [Procs -> Purposes]
         /\ \A q \in Procs : Fits(pc'[q], what'[q])
BY DEF TypeHandlers, Goto

LEMMA FinishType ==
  ASSUME TypeHandlers, NEW p \in Procs, Finish(p)
  PROVE  /\ pc' \in [Procs -> PcSteps]
         /\ what' \in [Procs -> Purposes]
         /\ \A q \in Procs : Fits(pc'[q], what'[q])
BY GotoType DEF Finish, PcSteps, Purposes, Fits

\* The end of a read-aloud takes it out of every set.
LEMMA EndType ==
  ASSUME TypeDaemon, TypeSpeeches, NEW u, NEW owned, End(u, owned)
  PROVE  /\ state' \in States
         /\ ttsStop' \in Opt(Speeches)
         /\ live' \subseteq Speeches
         /\ playing' \subseteq Speeches
         /\ hushed' \subseteq Speeches
BY TransitionType DEF TypeDaemon, TypeSpeeches, End, Opt

\* Asking to speak, refused or not.
LEMMA SpeakStartType ==
  ASSUME TypeDaemon, TypeSessions, TypeSpeeches, TypeHandlers,
         NEW p \in Procs, NEW origin \in Origins,
         SpeakStart(p, origin)
  PROVE  TypeOK'
<1>1. TypeDaemon'
  BY TransitionType DEF TypeDaemon, SpeakStart
<1>2. TypeSpeeches'
  BY DEF TypeSpeeches, SpeakStart, Opt
<1>3. TypeHandlers'
  BY GotoType, FinishType
     DEF TypeHandlers, SpeakStart, PcSteps, Purposes, Fits
<1>4. TypeSessions'
  BY DEF TypeSessions, SpeakStart, recordVars, fateVars
<1>5. QED BY <1>1, <1>2, <1>3, <1>4 DEF TypeOK
----------------------------------------------------------------------------
\* Every step keeps every variable in its type.
LEMMA TypeStep == TypeOK /\ [Next]_vars => TypeOK'
<1> SUFFICES ASSUME TypeDaemon, TypeSessions, TypeSpeeches, TypeHandlers, [Next]_vars
             PROVE  TypeOK'
  BY DEF TypeOK
<1> USE DEF Procs, Opt
<1>1. ASSUME NEW h \in Handlers, ToggleRefused(h) PROVE TypeOK'
  <2>1. TypeDaemon'
    BY <1>1, BargeType DEF TypeDaemon, ToggleRefused
  <2>2. TypeSpeeches'
    BY <1>1, BargeType DEF TypeSpeeches, ToggleRefused
  <2>3. TypeSessions' /\ TypeHandlers'
    BY <1>1 DEF TypeSessions, TypeHandlers, ToggleRefused, recordVars,
           fateVars, handlerVars
  <2>4. QED BY <2>1, <2>2, <2>3 DEF TypeOK
<1>2. ASSUME NEW h \in Handlers, ToggleStart(h) PROVE TypeOK'
  <2>1. PICK s \in Sessions, step \in TaskSteps : StartSession(s, "dictation", step)
    BY <1>2 DEF ToggleStart, TaskSteps
  <2>2. TypeSessions' /\ capture' \in Opt(Sessions)
    BY <2>1, StartType
  <2>3. TypeDaemon'
    BY <1>2, <2>2 DEF TypeDaemon, ToggleStart, After, States
  <2>4. TypeSpeeches'
    BY <1>2, BargeType DEF TypeSpeeches, ToggleStart
  <2>5. TypeHandlers'
    BY <1>2 DEF TypeHandlers, ToggleStart, handlerVars
  <2>6. QED BY <2>2, <2>3, <2>4, <2>5 DEF TypeOK
<1>3. ASSUME NEW h \in Handlers, ToggleStop(h) PROVE TypeOK'
  <2>1. TypeDaemon'
    BY <1>3, TransitionType, StopType DEF TypeDaemon, ToggleStop, NoSlots,
           DiscardCommandSessions
  <2>2. TypeSessions'
    BY <1>3, StopType DEF TypeSessions, ToggleStop, fateVars
  <2>3. TypeHandlers'
    BY <1>3, GotoType DEF TypeHandlers, ToggleStop, NoSlots, TypeDaemon, Job,
           PcSteps, Purposes, Fits
  <2>4. TypeSpeeches'
    BY <1>3 DEF TypeSpeeches, ToggleStop, ttsVars
  <2>5. QED BY <2>1, <2>2, <2>3, <2>4 DEF TypeOK
<1>4. ASSUME NEW h \in Handlers, AwaitDone(h) PROVE TypeOK'
  <2>1. TypeDaemon'
    BY <1>4, TransitionType DEF TypeDaemon, AwaitDone, Release
  <2>2. TypeSessions'
    BY <1>4, SaveType DEF TypeSessions, AwaitDone, recordVars
  <2>3. TypeHandlers'
    BY <1>4, FinishType DEF TypeHandlers, AwaitDone, Job, NoJob
  <2>4. TypeSpeeches'
    BY <1>4 DEF TypeSpeeches, AwaitDone, ttsVars
  <2>5. QED BY <2>1, <2>2, <2>3, <2>4 DEF TypeOK
<1>5. ASSUME NEW h \in Handlers, BatchDone(h) PROVE TypeOK'
  <2>1. TypeDaemon'
    BY <1>5, TransitionType DEF TypeDaemon, BatchDone, Release
  <2>2. TypeSessions'
    BY <1>5, SaveType DEF TypeSessions, BatchDone, Collects, recordVars,
           TypeHandlers, Job
  <2>3. TypeHandlers'
    BY <1>5, FinishType DEF TypeHandlers, BatchDone, Job, NoJob
  <2>4. TypeSpeeches'
    BY <1>5 DEF TypeSpeeches, BatchDone, ttsVars
  <2>5. QED BY <2>1, <2>2, <2>3, <2>4 DEF TypeOK
<1>6. ASSUME NEW h \in Handlers, Cancel(h) PROVE TypeOK'
  <2>1. TypeDaemon'
    BY <1>6, TransitionType, StopType DEF TypeDaemon, Cancel, Discard, NoSlots,
           DiscardCommandSessions
  <2>2. TypeSessions'
    BY <1>6, StopType DEF TypeSessions, Cancel, Discard, TaskSteps, Opt, Some,
           TypeDaemon
  <2>3. TypeSpeeches'
    BY <1>6, HushType DEF TypeSpeeches, Cancel
  <2>4. TypeHandlers'
    BY <1>6 DEF TypeHandlers, Cancel, handlerVars
  <2>5. QED BY <2>1, <2>2, <2>3, <2>4 DEF TypeOK
<1>7. ASSUME NEW h \in Handlers, NEW k \in CommandKinds \ {"agent"}, CommandPress(h, k) PROVE TypeOK'
  <2>1. TypeDaemon'
    BY <1>7, BargeType DEF TypeDaemon, CommandPress
  <2>2. TypeSpeeches'
    BY <1>7, BargeType DEF TypeSpeeches, CommandPress
  <2>3. TypeHandlers'
    BY <1>7, GotoType, FinishType DEF TypeHandlers, CommandPress, PcSteps,
           Purposes, Fits
  <2>4. TypeSessions'
    BY <1>7 DEF TypeSessions, CommandPress, recordVars, fateVars
  <2>5. QED BY <2>1, <2>2, <2>3, <2>4 DEF TypeOK
<1>8. ASSUME NEW h \in Handlers, CommandGate(h) PROVE TypeOK'
  <2>1. TypeHandlers'
    BY <1>8, GotoType, FinishType DEF TypeHandlers, CommandGate, PcSteps, Fits
  <2>2. TypeDaemon' /\ TypeSessions' /\ TypeSpeeches'
    BY <1>8 DEF TypeDaemon, TypeSessions, TypeSpeeches, CommandGate,
           daemonVars, recordVars, fateVars, ttsVars
  <2>3. QED BY <2>1, <2>2 DEF TypeOK
<1>9. ASSUME NEW h \in Handlers, CommandTake(h) PROVE TypeOK'
  <2>1. TypeDaemon'
    BY <1>9, StopType DEF TypeDaemon, CommandTake
  <2>2. TypeSessions'
    BY <1>9, StopType DEF TypeSessions, CommandTake, fateVars
  <2>3. TypeHandlers'
    BY <1>9, FinishType DEF TypeHandlers, CommandTake
  <2>4. TypeSpeeches'
    BY <1>9 DEF TypeSpeeches, CommandTake, ttsVars
  <2>5. QED BY <2>1, <2>2, <2>3, <2>4 DEF TypeOK
<1>10. ASSUME NEW h \in Handlers, CommandGivesUp(h) PROVE TypeOK'
  <2>1. TypeHandlers'
    BY <1>10, FinishType DEF TypeHandlers, CommandGivesUp
  <2>2. TypeDaemon' /\ TypeSessions' /\ TypeSpeeches'
    BY <1>10 DEF TypeDaemon, TypeSessions, TypeSpeeches, CommandGivesUp,
           daemonVars, recordVars, fateVars, ttsVars
  <2>3. QED BY <2>1, <2>2 DEF TypeOK
<1>11. ASSUME NEW h \in Handlers, CommandStart(h) PROVE TypeOK'
  <2>1. what[h] \in CommandKinds
    BY <1>11 DEF CommandStart, TypeHandlers, Fits
  <2>2. ASSUME Valid(state, "Toggle") PROVE TypeDaemon' /\ TypeSessions'
    <3>1. PICK s \in Sessions : /\ StartSession(s, what[h], "record")
                               /\ slot' = [slot EXCEPT ![what[h]] = s]
      BY <1>11, <2>2 DEF CommandStart
    <3>2. TypeSessions' /\ capture' \in Opt(Sessions)
      BY <2>1, <3>1, StartType DEF TaskSteps
    <3>3. TypeDaemon'
      BY <1>11, <3>1, <3>2, TransitionType DEF TypeDaemon, CommandStart
    <3>4. QED BY <3>2, <3>3
  <2>3. ASSUME ~Valid(state, "Toggle") PROVE TypeDaemon' /\ TypeSessions'
    <3>1. TypeDaemon'
      BY <1>11, <2>3, TransitionType DEF TypeDaemon, CommandStart
    <3>2. TypeSessions'
      BY <1>11, <2>3 DEF TypeSessions, CommandStart, fateVars
    <3>3. QED BY <3>1, <3>2
  <2>4. TypeSpeeches'
    BY <1>11 DEF TypeSpeeches, CommandStart, ttsVars
  <2>5. TypeHandlers'
    BY <1>11, FinishType DEF TypeHandlers, CommandStart
  <2>6. QED BY <2>2, <2>3, <2>4, <2>5 DEF TypeOK
<1>12. ASSUME NEW h \in Handlers, VoicePress(h) PROVE TypeOK'
  <2>1. TypeDaemon'
    BY <1>12, BargeType, StopType DEF TypeDaemon, VoicePress
  <2>2. TypeSessions'
    BY <1>12, StopType DEF TypeSessions, VoicePress, fateVars
  <2>3. TypeSpeeches'
    BY <1>12, BargeType DEF TypeSpeeches, VoicePress
  <2>4. TypeHandlers'
    BY <1>12, GotoType DEF TypeHandlers, VoicePress, PcSteps, Purposes, Fits
  <2>5. QED BY <2>1, <2>2, <2>3, <2>4 DEF TypeOK
<1>13. ASSUME NEW h \in Handlers, VoiceGivesUp(h) PROVE TypeOK'
  <2>1. TypeHandlers'
    BY <1>13, FinishType DEF TypeHandlers, VoiceGivesUp
  <2>2. TypeDaemon' /\ TypeSessions' /\ TypeSpeeches'
    BY <1>13 DEF TypeDaemon, TypeSessions, TypeSpeeches, VoiceGivesUp,
           daemonVars, recordVars, fateVars, ttsVars
  <2>3. QED BY <2>1, <2>2 DEF TypeOK
<1>14. ASSUME NEW h \in Handlers, VoiceStart(h) PROVE TypeOK'
  <2>1. "agent" \in CommandKinds
    BY <1>14 DEF VoiceStart, TypeHandlers, Fits
  <2>2. ASSUME state' = "Recording" PROVE TypeDaemon' /\ TypeSessions'
    <3>1. PICK s \in Sessions : /\ StartSession(s, "agent", "record")
                               /\ slot' = [slot EXCEPT !["agent"] = s]
      BY <1>14, <2>2 DEF VoiceStart
    <3>2. TypeSessions' /\ capture' \in Opt(Sessions)
      BY <2>1, <3>1, StartType DEF TaskSteps
    <3>3. TypeDaemon'
      BY <1>14, <2>2, <3>1, <3>2 DEF TypeDaemon, VoiceStart, States
    <3>4. QED BY <3>2, <3>3
  <2>3. ASSUME state' # "Recording" PROVE TypeDaemon' /\ TypeSessions'
    <3>1. TypeDaemon'
      BY <1>14, <2>3 DEF TypeDaemon, VoiceStart, States
    <3>2. TypeSessions'
      BY <1>14, <2>3 DEF TypeSessions, VoiceStart, fateVars
    <3>3. QED BY <3>1, <3>2
  <2>4. TypeSpeeches'
    BY <1>14, HushType DEF TypeSpeeches, VoiceStart
  <2>5. TypeHandlers'
    BY <1>14, FinishType DEF TypeHandlers, VoiceStart
  <2>6. QED BY <2>2, <2>3, <2>4, <2>5 DEF TypeOK
<1>15. ASSUME NEW s \in Sessions, BgAutoStop(s) PROVE TypeOK'
  <2>1. TypeDaemon'
    BY <1>15, StopType DEF TypeDaemon, BgAutoStop
  <2>2. TypeSessions'
    BY <1>15, StopType DEF TypeSessions, BgAutoStop, TaskSteps, fateVars
  <2>3. TypeSpeeches' /\ TypeHandlers'
    BY <1>15 DEF TypeSpeeches, TypeHandlers, BgAutoStop, ttsVars, handlerVars
  <2>4. QED BY <2>1, <2>2, <2>3 DEF TypeOK
<1>16. ASSUME NEW s \in Sessions, BgClosed(s) PROVE TypeOK'
  <2>1. TypeSessions'
    BY <1>16 DEF TypeSessions, BgClosed, TaskSteps, fateVars
  <2>2. TypeDaemon' /\ TypeSpeeches' /\ TypeHandlers'
    BY <1>16 DEF TypeDaemon, TypeSpeeches, TypeHandlers, BgClosed, daemonVars,
           ttsVars, handlerVars
  <2>3. QED BY <2>1, <2>2 DEF TypeOK
<1>17. ASSUME NEW s \in Sessions, BgClaim(s) PROVE TypeOK'
  <2>1. TypeDaemon'
    BY <1>17, TransitionType, StopType DEF TypeDaemon, BgClaim
  <2>2. TypeSessions'
    BY <1>17, StopType DEF TypeSessions, BgClaim, TaskSteps, fateVars
  <2>3. TypeSpeeches' /\ TypeHandlers'
    BY <1>17 DEF TypeSpeeches, TypeHandlers, BgClaim, ttsVars, handlerVars
  <2>4. QED BY <2>1, <2>2, <2>3 DEF TypeOK
<1>18. ASSUME NEW s \in Sessions, BgDone(s) PROVE TypeOK'
  <2>1. TypeDaemon'
    BY <1>18, TransitionType DEF TypeDaemon, BgDone
  <2>2. TypeSessions'
    BY <1>18 DEF TypeSessions, BgDone, TaskSteps, fateVars
  <2>3. TypeSpeeches' /\ TypeHandlers'
    BY <1>18 DEF TypeSpeeches, TypeHandlers, BgDone, ttsVars, handlerVars
  <2>4. QED BY <2>1, <2>2, <2>3 DEF TypeOK
<1>19. ASSUME NEW s \in Sessions, PipeAutoStop(s) PROVE TypeOK'
  <2>1. TypeDaemon'
    BY <1>19, TransitionType, StopType DEF TypeDaemon, PipeAutoStop
  <2>2. TypeSessions'
    BY <1>19, StopType DEF TypeSessions, PipeAutoStop, TaskSteps, fateVars
  <2>3. TypeSpeeches' /\ TypeHandlers'
    BY <1>19 DEF TypeSpeeches, TypeHandlers, PipeAutoStop, ttsVars, handlerVars
  <2>4. QED BY <2>1, <2>2, <2>3 DEF TypeOK
<1>20. ASSUME NEW s \in Sessions, PipeDecide(s) PROVE TypeOK'
  <2>1. TypeDaemon'
    BY <1>20 DEF TypeDaemon, PipeDecide, Decide, Release
  <2>2. TypeSessions'
    BY <1>20, SaveType DEF TypeSessions, PipeDecide, Decide, TaskSteps
  <2>3. TypeSpeeches' /\ TypeHandlers'
    BY <1>20 DEF TypeSpeeches, TypeHandlers, PipeDecide, ttsVars, handlerVars,
           Decide
  <2>4. QED BY <2>1, <2>2, <2>3 DEF TypeOK
<1>21. ASSUME NEW s \in Sessions, PipeBackendGone(s) PROVE TypeOK'
  <2>1. TypeDaemon'
    BY <1>21 DEF TypeDaemon, PipeBackendGone, Decide, Release
  <2>2. TypeSessions'
    BY <1>21, SaveType DEF TypeSessions, PipeBackendGone, Decide, TaskSteps
  <2>3. TypeSpeeches' /\ TypeHandlers'
    BY <1>21 DEF TypeSpeeches, TypeHandlers, PipeBackendGone, ttsVars,
           handlerVars, Decide
  <2>4. QED BY <2>1, <2>2, <2>3 DEF TypeOK
<1>22. ASSUME NEW s \in Sessions, PipeTail(s) PROVE TypeOK'
  <2>1. TypeDaemon'
    BY <1>22, TransitionType DEF TypeDaemon, PipeTail
  <2>2. TypeSessions'
    BY <1>22 DEF TypeSessions, PipeTail, TaskSteps, fateVars
  <2>3. TypeSpeeches' /\ TypeHandlers'
    BY <1>22 DEF TypeSpeeches, TypeHandlers, PipeTail, ttsVars, handlerVars
  <2>4. QED BY <2>1, <2>2, <2>3 DEF TypeOK
<1>23. ASSUME NEW s \in Sessions, PipeRejected(s) PROVE TypeOK'
  <2>1. TypeSessions'
    BY <1>23 DEF TypeSessions, PipeRejected, TaskSteps, fateVars
  <2>2. TypeDaemon' /\ TypeSpeeches' /\ TypeHandlers'
    BY <1>23 DEF TypeDaemon, TypeSpeeches, TypeHandlers, PipeRejected,
           daemonVars, ttsVars, handlerVars
  <2>3. QED BY <2>1, <2>2 DEF TypeOK
<1>24. ASSUME NEW h \in Handlers, RetryStart(h) PROVE TypeOK'
  <2>1. TypeDaemon'
    BY <1>24, TransitionType DEF TypeDaemon, RetryStart
  <2>2. TypeHandlers'
    BY <1>24, GotoType DEF TypeHandlers, RetryStart, PcSteps, Purposes, Fits
  <2>3. TypeSessions' /\ TypeSpeeches'
    BY <1>24 DEF TypeSessions, TypeSpeeches, RetryStart, recordVars, fateVars,
           ttsVars
  <2>4. QED BY <2>1, <2>2, <2>3 DEF TypeOK
<1>25. ASSUME NEW h \in Handlers, RetryDone(h) PROVE TypeOK'
  <2>1. TypeDaemon'
    BY <1>25, TransitionType DEF TypeDaemon, RetryDone
  <2>2. TypeHandlers'
    BY <1>25, FinishType DEF TypeHandlers, RetryDone
  <2>3. TypeSessions' /\ TypeSpeeches'
    BY <1>25 DEF TypeSessions, TypeSpeeches, RetryDone, recordVars, fateVars,
           ttsVars
  <2>4. QED BY <2>1, <2>2, <2>3 DEF TypeOK
<1>26. ASSUME NEW h \in Handlers, SpeakPress(h) PROVE TypeOK'
  <2>1. TypeDaemon'
    BY <1>26, TransitionType DEF TypeDaemon, SpeakPress
  <2>2. TypeSpeeches'
    BY <1>26, HushType DEF TypeSpeeches, SpeakPress
  <2>3. TypeHandlers'
    BY <1>26, GotoType DEF TypeHandlers, SpeakPress, PcSteps, Purposes,
           Origins, Fits
  <2>4. TypeSessions'
    BY <1>26 DEF TypeSessions, SpeakPress, recordVars, fateVars
  <2>5. QED BY <2>1, <2>2, <2>3, <2>4 DEF TypeOK
<1>27. ASSUME NEW h \in Handlers, SpeakTextPress(h) PROVE TypeOK'
  <2>1. TypeDaemon'
    BY <1>27, TransitionType DEF TypeDaemon, SpeakTextPress
  <2>2. TypeSpeeches'
    BY <1>27, HushType DEF TypeSpeeches, SpeakTextPress
  <2>3. TypeHandlers'
    BY <1>27, GotoType DEF TypeHandlers, SpeakTextPress, PcSteps, Purposes,
           Origins, Fits
  <2>4. TypeSessions'
    BY <1>27 DEF TypeSessions, SpeakTextPress, recordVars, fateVars
  <2>5. QED BY <2>1, <2>2, <2>3, <2>4 DEF TypeOK
<1>28. ASSUME NEW h \in Handlers, SpeakGivesUp(h) PROVE TypeOK'
  <2>1. TypeHandlers'
    BY <1>28, FinishType DEF TypeHandlers, SpeakGivesUp
  <2>2. TypeDaemon' /\ TypeSessions' /\ TypeSpeeches'
    BY <1>28 DEF TypeDaemon, TypeSessions, TypeSpeeches, SpeakGivesUp,
           daemonVars, recordVars, fateVars, ttsVars
  <2>3. QED BY <2>1, <2>2 DEF TypeOK
<1>29. ASSUME NEW p \in Procs, SynthEnds(p) PROVE TypeOK'
  <2>1. TypeDaemon'
    BY <1>29, EndType DEF TypeDaemon, SynthEnds
  <2>2. TypeSpeeches'
    BY <1>29, EndType DEF TypeSpeeches, SynthEnds, Opt
  <2>3. TypeHandlers'
    BY <1>29, GotoType, FinishType DEF TypeHandlers, SynthEnds, PcSteps, Fits
  <2>4. TypeSessions'
    BY <1>29 DEF TypeSessions, SynthEnds, recordVars, fateVars
  <2>5. QED BY <2>1, <2>2, <2>3, <2>4 DEF TypeOK
<1>30. ASSUME NEW p \in Procs, FirstAudioFails(p) PROVE TypeOK'
  <2>1. TypeDaemon'
    BY <1>30, EndType DEF TypeDaemon, FirstAudioFails
  <2>2. TypeSpeeches'
    BY <1>30, EndType DEF TypeSpeeches, FirstAudioFails, Opt
  <2>3. TypeHandlers'
    BY <1>30, FinishType DEF TypeHandlers, FirstAudioFails
  <2>4. TypeSessions'
    BY <1>30 DEF TypeSessions, FirstAudioFails, recordVars, fateVars
  <2>5. QED BY <2>1, <2>2, <2>3, <2>4 DEF TypeOK
<1>31. ASSUME NEW p \in Procs, FirstAudio(p) PROVE TypeOK'
  <2>1. TypeDaemon'
    BY <1>31, TransitionType DEF TypeDaemon, FirstAudio
  <2>2. TypeSpeeches'
    BY <1>31 DEF TypeSpeeches, FirstAudio, Opt, Some
  <2>3. TypeHandlers'
    BY <1>31, FinishType DEF TypeHandlers, FirstAudio
  <2>4. TypeSessions'
    BY <1>31 DEF TypeSessions, FirstAudio, recordVars, fateVars
  <2>5. QED BY <2>1, <2>2, <2>3, <2>4 DEF TypeOK
<1>32. ASSUME NEW u \in Speeches, PlaybackEnds(u) PROVE TypeOK'
  <2>1. TypeDaemon'
    BY <1>32, EndType DEF TypeDaemon, PlaybackEnds
  <2>2. TypeSpeeches'
    BY <1>32, EndType DEF TypeSpeeches, PlaybackEnds
  <2>3. TypeSessions' /\ TypeHandlers'
    BY <1>32 DEF TypeSessions, TypeHandlers, PlaybackEnds, recordVars,
           fateVars, handlerVars
  <2>4. QED BY <2>1, <2>2, <2>3 DEF TypeOK
<1>33. ASSUME NEW h \in Handlers, Speak(h) PROVE TypeOK'
  BY <1>33, SpeakStartType DEF Speak, TypeHandlers, Fits, Origins
<1>34. ASSUME Reply PROVE TypeOK'
  BY <1>34, SpeakStartType DEF Reply, Procs, Origins
<1>35. CASE StopForRecording
  <2>1. TypeDaemon'
    BY <1>35, BargeType DEF TypeDaemon, StopForRecording
  <2>2. TypeSpeeches'
    BY <1>35, BargeType DEF TypeSpeeches, StopForRecording
  <2>3. TypeSessions' /\ TypeHandlers'
    BY <1>35 DEF TypeSessions, TypeHandlers, StopForRecording, recordVars,
           fateVars, handlerVars
  <2>4. QED BY <2>1, <2>2, <2>3 DEF TypeOK
<1>36. CASE UNCHANGED vars
  BY <1>36 DEF vars, daemonVars, ttsVars, recordVars, fateVars, handlerVars,
     TypeOK, TypeDaemon, TypeSessions, TypeSpeeches, TypeHandlers
<1>37. QED
  BY <1>1, <1>2, <1>3, <1>4, <1>5, <1>6, <1>7, <1>8, <1>9, <1>10, <1>11,
     <1>12, <1>13, <1>14, <1>15, <1>16, <1>17, <1>18, <1>19, <1>20, <1>21,
     <1>22, <1>23, <1>24, <1>25, <1>26, <1>27, <1>28, <1>29, <1>30, <1>31,
     <1>32, <1>33, <1>34, <1>35, <1>36
     DEF Next, Press, Continue, Selected, VoiceGoesOn, Playback, Background,
         Pipeline, Silence

\* The initial state is typed.
LEMMA TypeInit == Init => TypeOK
BY DEF Init, TypeOK, TypeDaemon, TypeSessions, TypeSpeeches, TypeHandlers, States,
       Opt, TaskSteps, MaxSaved, Origins, Procs, PcSteps, Purposes, Fits, Job, NoJob

\* The variables keep their types.
THEOREM Typed == Spec => []TypeOK
BY TypeInit, TypeStep, PTL DEF Spec
----------------------------------------------------------------------------
(* The read-aloud states belong to the read-aloud that owns tts_stop. *)

\* The transitions of recordings neither enter nor leave a read-aloud state.
LEMMA KeepsReadAloud ==
  ASSUME NEW action \in {"Toggle", "TranscriptionDone", "RetryStart"},
         Transition(action)
  PROVE  state' \in ReadAloud <=> state \in ReadAloud
BY DEF Transition, Valid, After, ReadAloud

\* A recording's own steps, and a handler that waits for one.
RecordingStep ==
  \/ \E h \in Handlers :
       \/ ToggleStop(h) \/ AwaitDone(h) \/ BatchDone(h)
       \/ CommandGate(h) \/ CommandTake(h) \/ CommandGivesUp(h) \/ CommandStart(h)
       \/ VoiceGivesUp(h) \/ RetryStart(h) \/ RetryDone(h) \/ SpeakGivesUp(h)
  \/ \E s \in Sessions : Background(s) \/ Pipeline(s) \/ Silence(s)

LEMMA RecordingFrame ==
  ASSUME RecordingStep
  PROVE  UNCHANGED ttsVars /\ (state' \in ReadAloud <=> state \in ReadAloud)
<1>1. ASSUME NEW h \in Handlers,
             ToggleStop(h) \/ AwaitDone(h) \/ BatchDone(h)
      PROVE  UNCHANGED ttsVars /\ (state' \in ReadAloud <=> state \in ReadAloud)
  BY <1>1, KeepsReadAloud DEF ToggleStop, AwaitDone, BatchDone
<1>2. ASSUME NEW h \in Handlers,
             \/ CommandGate(h) \/ CommandTake(h) \/ CommandGivesUp(h)
             \/ VoiceGivesUp(h) \/ SpeakGivesUp(h)
      PROVE  UNCHANGED <<ttsVars, state>>
  BY <1>2 DEF CommandGate, CommandTake, CommandGivesUp, VoiceGivesUp, SpeakGivesUp,
              daemonVars
<1>3. ASSUME NEW h \in Handlers, CommandStart(h) \/ RetryStart(h) \/ RetryDone(h)
      PROVE  UNCHANGED ttsVars /\ (state' \in ReadAloud <=> state \in ReadAloud)
  BY <1>3, KeepsReadAloud DEF CommandStart, RetryStart, RetryDone
<1>4. ASSUME NEW s \in Sessions, Background(s)
      PROVE  UNCHANGED ttsVars /\ (state' \in ReadAloud <=> state \in ReadAloud)
  BY <1>4, KeepsReadAloud DEF Background, BgClosed, BgClaim, BgDone, daemonVars
<1>5. ASSUME NEW s \in Sessions, Pipeline(s) \/ Silence(s)
      PROVE  UNCHANGED ttsVars /\ (state' \in ReadAloud <=> state \in ReadAloud)
  BY <1>5, KeepsReadAloud
     DEF Pipeline, PipeDecide, PipeTail, Decide, Silence, BgAutoStop, PipeAutoStop,
         PipeBackendGone, PipeRejected, daemonVars
<1>6. QED
  BY <1>1, <1>2, <1>3, <1>4, <1>5 DEF RecordingStep

\* The steps of read-alouds, and of the presses that stop one.
SpeechStep ==
  \/ \E h \in Handlers :
       \/ ToggleRefused(h) \/ ToggleStart(h) \/ Cancel(h)
       \/ \E k \in CommandKinds \ {"agent"} : CommandPress(h, k)
       \/ VoicePress(h) \/ VoiceStart(h)
       \/ SpeakPress(h) \/ SpeakTextPress(h) \/ Speak(h)
  \/ \E p \in Procs : Playback(p)
  \/ \E u \in Speeches : PlaybackEnds(u)
  \/ Reply
  \/ StopForRecording

LEMMA NextCases == Next => RecordingStep \/ SpeechStep
BY DEF Next, RecordingStep, SpeechStep, Press, Continue, Selected, VoiceGoesOn

\* What stops a read-aloud leaves no owner and no read-aloud state.
LEMMA BargedOwned ==
  ASSUME ReadAloudOwned, BargeIn, state' = Barged, UNCHANGED live
  PROVE  ReadAloudOwned'
BY DEF ReadAloudOwned, BargeIn, Barged, AgentPlayback, Hush, After, ReadAloud, Some

LEMMA HushedOwned ==
  ASSUME ReadAloudOwned, Hush, state' \notin ReadAloud, UNCHANGED live
  PROVE  ReadAloudOwned'
BY DEF ReadAloudOwned, Hush, Some

LEMMA CancelNotReadAloud ==
  ASSUME Transition("Cancel")
  PROVE  state' \notin ReadAloud
BY DEF Transition, Valid, After, ReadAloud

LEMMA SpeakStartOwned ==
  ASSUME ReadAloudOwned, NEW p, NEW origin, SpeakStart(p, origin)
  PROVE  ReadAloudOwned'
<1>1. CASE MaySpeak(origin)
  BY <1>1, IdsAssumption
     DEF SpeakStart, MaySpeak, ReadAloudOwned, Transition, Valid, After, ReadAloud, Some
<1>2. CASE ~MaySpeak(origin)
  BY <1>2 DEF SpeakStart, ReadAloudOwned
<1>3. QED BY <1>1, <1>2

\* Whether the read-aloud that ends owned the state or not.
LEMMA EndOwned ==
  ASSUME ReadAloudOwned, NEW u, NEW owned, owned => state \in ReadAloud, End(u, owned)
  PROVE  ReadAloudOwned'
BY DEF ReadAloudOwned, End, Transition, Valid, After, ReadAloud, Some

LEMMA OwnedStep == ReadAloudOwned /\ [Next]_vars => ReadAloudOwned'
<1> SUFFICES ASSUME ReadAloudOwned, [Next]_vars PROVE ReadAloudOwned'
  OBVIOUS
<1>1. CASE RecordingStep
  BY <1>1, RecordingFrame DEF ReadAloudOwned, ttsVars
<1>2. ASSUME NEW h \in Handlers, ToggleRefused(h) PROVE ReadAloudOwned'
  BY <1>2, BargedOwned DEF ToggleRefused
<1>3. ASSUME NEW h \in Handlers, ToggleStart(h) PROVE ReadAloudOwned'
  <2>1. state' \notin ReadAloud
    BY <1>3 DEF ToggleStart, After, ReadAloud
  <2>2. AgentPlayback \/ state \notin ReadAloud
    BY <1>3 DEF ToggleStart, Barged, ReadAloud
  <2>3. QED
    BY <1>3, <2>1, <2>2, HushedOwned DEF ToggleStart, BargeIn, ReadAloudOwned
<1>4. ASSUME NEW h \in Handlers, Cancel(h) PROVE ReadAloudOwned'
  BY <1>4, HushedOwned, CancelNotReadAloud DEF Cancel
<1>5. ASSUME NEW h \in Handlers, NEW k \in CommandKinds \ {"agent"}, CommandPress(h, k)
      PROVE  ReadAloudOwned'
  BY <1>5, BargedOwned DEF CommandPress
<1>6. ASSUME NEW h \in Handlers, VoicePress(h) PROVE ReadAloudOwned'
  <2>1. CASE BargeIn /\ state' = Barged
    BY <1>6, <2>1, BargedOwned DEF VoicePress
  <2>2. CASE UNCHANGED <<state, ttsStop, hushed>>
    BY <1>6, <2>2 DEF VoicePress, ReadAloudOwned
  <2>3. QED BY <1>6, <2>1, <2>2 DEF VoicePress
<1>7. ASSUME NEW h \in Handlers, VoiceStart(h) PROVE ReadAloudOwned'
  <2>1. state' \notin ReadAloud
    BY <1>7 DEF VoiceStart, ReadAloud
  <2>2. QED
    BY <1>7, <2>1, HushedOwned DEF VoiceStart, ReadAloudOwned
<1>8. ASSUME NEW h \in Handlers, SpeakPress(h) \/ SpeakTextPress(h)
      PROVE  ReadAloudOwned'
  <2>1. CASE Hush /\ Transition("Cancel")
    BY <1>8, <2>1, HushedOwned, CancelNotReadAloud DEF SpeakPress, SpeakTextPress
  <2>2. CASE UNCHANGED <<state, ttsStop, hushed>>
    BY <1>8, <2>2 DEF SpeakPress, SpeakTextPress, ReadAloudOwned
  <2>3. QED BY <1>8, <2>1, <2>2 DEF SpeakPress, SpeakTextPress
<1>9. ASSUME NEW h \in Handlers, Speak(h) PROVE ReadAloudOwned'
  BY <1>9, SpeakStartOwned DEF Speak
<1>10. CASE Reply
  BY <1>10, SpeakStartOwned DEF Reply
<1>11. ASSUME NEW p \in Procs, SynthEnds(p) PROVE ReadAloudOwned'
  <2>1. CASE UNCHANGED <<state, ttsStop, live, hushed>>
    BY <2>1 DEF ReadAloudOwned
  <2>2. CASE End(utter[p], state = "Synthesizing" /\ ttsStop = utter[p])
    BY <2>2, EndOwned DEF ReadAloud
  <2>3. QED BY <1>11, <2>1, <2>2 DEF SynthEnds
<1>12. ASSUME NEW p \in Procs, FirstAudioFails(p) PROVE ReadAloudOwned'
  BY <1>12, EndOwned DEF FirstAudioFails, ReadAloud
<1>13. ASSUME NEW p \in Procs, FirstAudio(p) PROVE ReadAloudOwned'
  BY <1>13
     DEF FirstAudio, ReadAloudOwned, Transition, Valid, After, ReadAloud
<1>14. ASSUME NEW u \in Speeches, PlaybackEnds(u) PROVE ReadAloudOwned'
  BY <1>14, EndOwned DEF PlaybackEnds
<1>15. CASE StopForRecording
  BY <1>15, BargedOwned DEF StopForRecording
<1>16. CASE UNCHANGED vars
  BY <1>16 DEF vars, daemonVars, ttsVars, ReadAloudOwned
<1>17. QED
  BY <1>1, <1>2, <1>3, <1>4, <1>5, <1>6, <1>7, <1>8, <1>9, <1>10, <1>11, <1>12,
     <1>13, <1>14, <1>15, <1>16, NextCases DEF SpeechStep, Playback

\* A read-aloud state has exactly one owner, and whatever else still plays was
\* told to stop, however presses, cancels and replies interleave.
THEOREM ReadAloudOwnership == Spec => []ReadAloudOwned
<1>1. Init => ReadAloudOwned
  BY DEF Init, ReadAloudOwned, ReadAloud
<1>2. QED BY <1>1, OwnedStep, PTL DEF Spec
----------------------------------------------------------------------------
(* A press that holds the agents' replies. *)

\* A step that takes no hold and starts no read-aloud of an agent.
LEMMA HeldFrame ==
  ASSUME HeldPressFirst, Held' => Held, AgentPlayback' => AgentPlayback
  PROVE  HeldPressFirst'
BY DEF HeldPressFirst

\* Going on to a step that does not hold the replies takes no hold.
LEMMA GotoHolds ==
  ASSUME TypeOK, NEW p \in Procs, NEW step, NEW for, Goto(p, step, for),
         step \notin {"select", "voice", "speak", "synth", "first"}
  PROVE  Held' => Held
BY DEF Held, Holding, Goto, TypeOK, TypeHandlers, Procs

LEMMA RecordingPlayback ==
  ASSUME RecordingStep
  PROVE  AgentPlayback' => AgentPlayback
BY RecordingFrame DEF AgentPlayback, ttsVars

LEMMA RecordingHolds ==
  ASSUME TypeOK, RecordingStep
  PROVE  Held' => Held
<1>1. ASSUME NEW h \in Handlers,
             \/ ToggleStop(h) \/ AwaitDone(h) \/ BatchDone(h) \/ CommandGate(h)
             \/ CommandTake(h) \/ CommandGivesUp(h) \/ CommandStart(h)
             \/ VoiceGivesUp(h) \/ RetryStart(h) \/ RetryDone(h) \/ SpeakGivesUp(h)
      PROVE  Held' => Held
  <2>1. \E step, for : /\ Goto(h, step, for)
                       /\ step \in {"idle", "await", "batch", "take", "retry"}
    BY <1>1 DEF ToggleStop, AwaitDone, BatchDone, CommandGate, CommandTake,
                CommandGivesUp, CommandStart, VoiceGivesUp, RetryStart, RetryDone,
                SpeakGivesUp, Finish
  <2>2. QED BY <2>1, GotoHolds DEF Procs
<1>2. ASSUME NEW s \in Sessions, Background(s) \/ Pipeline(s) \/ Silence(s)
      PROVE  UNCHANGED <<pc, what>>
  BY <1>2 DEF Background, BgClosed, BgClaim, BgDone, Pipeline, PipeDecide, PipeTail,
              Decide, Silence, BgAutoStop, PipeAutoStop, PipeBackendGone,
              PipeRejected, handlerVars
<1>3. QED
  BY <1>1, <1>2 DEF RecordingStep, Held, Holding

LEMMA BargedIdle ==
  ASSUME BargeIn, state' = Barged, UNCHANGED ttsOrigin
  PROVE  ~AgentPlayback'
BY DEF Barged, BargeIn, Hush, AgentPlayback, After, ReadAloud

\* An agent's utterance starts only when no press holds the replies.
LEMMA SpeakStartHeld ==
  ASSUME TypeOK, HeldPressFirst, NEW p \in Procs, NEW origin, SpeakStart(p, origin),
         pc[p] = "speak" => what[p] = origin,
         p \in Handlers => pc[p] = "speak" /\ origin # "agent"
  PROVE  HeldPressFirst'
<1>1. Held' => Held
  BY HandlersAssumption
     DEF SpeakStart, Goto, Finish, Held, Holding, TypeOK, TypeHandlers, Procs
<1>2. CASE MaySpeak(origin) /\ origin = "agent"
  BY <1>1, <1>2 DEF MaySpeak, HeldPressFirst
<1>3. CASE MaySpeak(origin) /\ origin # "agent"
  BY <1>3 DEF SpeakStart, HeldPressFirst, AgentPlayback
<1>4. CASE ~MaySpeak(origin)
  BY <1>1, <1>4, HeldFrame DEF SpeakStart, AgentPlayback
<1>5. QED BY <1>2, <1>3, <1>4

LEMMA EndPlayback ==
  ASSUME NEW u, NEW owned, End(u, owned), UNCHANGED ttsOrigin
  PROVE  AgentPlayback' => AgentPlayback
BY DEF End, AgentPlayback, Transition, Valid, After, ReadAloud

LEMMA HeldStep == TypeOK /\ HeldPressFirst /\ [Next]_vars => HeldPressFirst'
<1> SUFFICES ASSUME TypeOK, HeldPressFirst, [Next]_vars PROVE HeldPressFirst'
  OBVIOUS
<1>1. CASE RecordingStep
  BY <1>1, RecordingPlayback, RecordingHolds, HeldFrame
<1>2. ASSUME NEW h \in Handlers, ToggleRefused(h) PROVE HeldPressFirst'
  BY <1>2, BargedIdle DEF ToggleRefused, HeldPressFirst
<1>3. ASSUME NEW h \in Handlers, ToggleStart(h) PROVE HeldPressFirst'
  BY <1>3 DEF ToggleStart, After, HeldPressFirst, AgentPlayback, ReadAloud
<1>4. ASSUME NEW h \in Handlers, Cancel(h) PROVE HeldPressFirst'
  BY <1>4 DEF Cancel, Hush, HeldPressFirst, AgentPlayback
<1>5. ASSUME NEW h \in Handlers, NEW k \in CommandKinds \ {"agent"}, CommandPress(h, k)
      PROVE  HeldPressFirst'
  BY <1>5, BargedIdle DEF CommandPress, HeldPressFirst
<1>6. ASSUME NEW h \in Handlers, VoicePress(h) PROVE HeldPressFirst'
  <2>1. CASE BargeIn /\ state' = Barged
    BY <1>6, <2>1, BargedIdle DEF VoicePress, HeldPressFirst
  <2>2. CASE UNCHANGED <<state, ttsStop, hushed>> /\ Goto(h, "voice", "plain")
    <3>1. Held' => Held
      BY <1>6, <2>2 DEF Goto, Held, Holding, TypeOK, TypeHandlers, Procs
    <3>2. QED BY <1>6, <2>2, <3>1, HeldFrame DEF VoicePress, AgentPlayback
  <2>3. CASE UNCHANGED <<state, ttsStop, hushed, pc, what>>
    BY <1>6, <2>3 DEF VoicePress, HeldPressFirst, AgentPlayback, Held, Holding
  <2>4. QED BY <1>6, <2>1, <2>2, <2>3 DEF VoicePress
<1>7. ASSUME NEW h \in Handlers, VoiceStart(h) PROVE HeldPressFirst'
  BY <1>7 DEF VoiceStart, HeldPressFirst, AgentPlayback, ReadAloud
<1>8. ASSUME NEW h \in Handlers, SpeakPress(h) PROVE HeldPressFirst'
  <2>1. CASE Hush
    BY <2>1 DEF Hush, HeldPressFirst, AgentPlayback
  <2>2. CASE state' = "Idle"
    BY <2>2 DEF HeldPressFirst, AgentPlayback, ReadAloud
  <2>3. QED BY <1>8, <2>1, <2>2 DEF SpeakPress
<1>9. ASSUME NEW h \in Handlers, SpeakTextPress(h) PROVE HeldPressFirst'
  <2>1. CASE Hush
    BY <2>1 DEF Hush, HeldPressFirst, AgentPlayback
  <2>2. CASE state' = "Idle"
    BY <2>2 DEF HeldPressFirst, AgentPlayback, ReadAloud
  <2>3. QED BY <1>9, <2>1, <2>2 DEF SpeakTextPress
<1>10. ASSUME NEW h \in Handlers, Speak(h) PROVE HeldPressFirst'
  <2>1. what[h] # "agent"
    BY <1>10 DEF Speak, TypeOK, TypeHandlers, Fits, Procs
  <2>2. QED BY <1>10, <2>1, SpeakStartHeld DEF Speak, Procs
<1>11. CASE Reply
  BY <1>11, SpeakStartHeld, HandlersAssumption DEF Reply, Procs
<1>12. ASSUME NEW p \in Procs, SynthEnds(p) PROVE HeldPressFirst'
  <2>1. Held' => Held
    BY <1>12 DEF SynthEnds, Goto, Finish, Held, Holding, TypeOK, TypeHandlers, Procs
  <2>2. AgentPlayback' => AgentPlayback
    BY <1>12, EndPlayback DEF SynthEnds, AgentPlayback
  <2>3. QED BY <2>1, <2>2, HeldFrame
<1>13. ASSUME NEW p \in Procs, FirstAudioFails(p) PROVE HeldPressFirst'
  <2>1. Held' => Held
    BY <1>13, GotoHolds DEF FirstAudioFails, Finish
  <2>2. AgentPlayback' => AgentPlayback
    BY <1>13, EndPlayback DEF FirstAudioFails
  <2>3. QED BY <2>1, <2>2, HeldFrame
<1>14. ASSUME NEW p \in Procs, FirstAudio(p) PROVE HeldPressFirst'
  <2>1. Held' => Held
    BY <1>14, GotoHolds DEF FirstAudio, Finish
  <2>2. AgentPlayback' => AgentPlayback
    BY <1>14 DEF FirstAudio, AgentPlayback, Transition, Valid, After, ReadAloud
  <2>3. QED BY <2>1, <2>2, HeldFrame
<1>15. ASSUME NEW u \in Speeches, PlaybackEnds(u) PROVE HeldPressFirst'
  BY <1>15, EndPlayback, HeldFrame DEF PlaybackEnds, handlerVars, Held, Holding
<1>16. CASE StopForRecording
  BY <1>16, BargedIdle DEF StopForRecording, HeldPressFirst
<1>17. CASE UNCHANGED vars
  BY <1>17, HeldFrame
     DEF vars, daemonVars, ttsVars, handlerVars, Held, Holding, AgentPlayback
<1>18. QED
  BY <1>1, <1>2, <1>3, <1>4, <1>5, <1>6, <1>7, <1>8, <1>9, <1>10, <1>11, <1>12,
     <1>13, <1>14, <1>15, <1>16, <1>17, NextCases DEF SpeechStep, Playback

\* No agent's reply plays while a press that holds the replies is on its way.
THEOREM HeldPressesGoFirst == Spec => []HeldPressFirst
<1>1. Init => HeldPressFirst
  BY DEF Init, HeldPressFirst, AgentPlayback, ReadAloud
<1>2. QED BY <1>1, Typed, HeldStep, PTL DEF Spec
----------------------------------------------------------------------------
(* An acknowledged cancel is final. *)

\* A session that can still be cancelled, or was, has no text and no entry.
CancelInv ==
  /\ \A s \in Sessions : s \in flagged \/ streamCancel = s =>
       s \notin heard /\ saved[s] = 0
  /\ ~streaming => flagged = {} /\ streamCancel = None

CancelVars == <<streaming, flagged, streamCancel, heard, saved>>

\* The steps that touch a flag, its slot, a text or the history.
CancelStep ==
  \/ \E h \in Handlers : ToggleStart(h) \/ AwaitDone(h) \/ BatchDone(h) \/ Cancel(h)
                          \/ CommandStart(h) \/ VoiceStart(h)
  \/ \E s \in Sessions : PipeDecide(s) \/ PipeBackendGone(s)

LEMMA CancelCases == Next => CancelStep \/ UNCHANGED CancelVars
<1> SUFFICES ASSUME Next, ~CancelStep PROVE UNCHANGED CancelVars
  OBVIOUS
<1> USE DEF CancelVars, daemonVars, recordVars, fateVars
<1>1. ASSUME NEW h \in Handlers, Press(h) PROVE UNCHANGED CancelVars
  BY <1>1 DEF CancelStep, Press, ToggleRefused, ToggleStop, CommandPress, VoicePress,
              RetryStart, SpeakPress, SpeakTextPress
<1>2. ASSUME NEW h \in Handlers, Continue(h) PROVE UNCHANGED CancelVars
  BY <1>2 DEF CancelStep, Continue, Selected, VoiceGoesOn, CommandGate, CommandTake,
              CommandGivesUp, VoiceGivesUp, RetryDone, SpeakGivesUp, Speak, SpeakStart
<1>3. ASSUME NEW p \in Procs, Playback(p) PROVE UNCHANGED CancelVars
  BY <1>3 DEF Playback, SynthEnds, FirstAudioFails, FirstAudio
<1>4. ASSUME NEW s \in Sessions, Background(s) \/ Pipeline(s) \/ Silence(s)
      PROVE  UNCHANGED CancelVars
  BY <1>4 DEF CancelStep, Background, BgClosed, BgClaim, BgDone, Pipeline, PipeTail,
              Silence, BgAutoStop, PipeAutoStop, PipeRejected
<1>5. ASSUME NEW u \in Speeches, PlaybackEnds(u) PROVE UNCHANGED CancelVars
  BY <1>5 DEF PlaybackEnds
<1>6. CASE Reply \/ StopForRecording
  BY <1>6 DEF Reply, SpeakStart, StopForRecording
<1>7. QED BY <1>1, <1>2, <1>3, <1>4, <1>5, <1>6 DEF Next

\* A new recording of s: its flag, text and entries are its own.
LEMMA StartCancel ==
  ASSUME TypeOK, CancelInv, NEW s \in Sessions, NEW flow, NEW step,
         StartSession(s, flow, step), UNCHANGED streaming,
         \/ UNCHANGED streamCancel
         \/ streaming /\ streamCancel' = s
  PROVE  CancelInv'
BY DEF CancelInv, StartSession, TypeOK, TypeSessions

LEMMA SaveCancel ==
  ASSUME TypeOK, CancelInv, NEW s \in Sessions, Save(s),
         s \notin flagged, streamCancel' # s,
         \A r \in Sessions : streamCancel' = r => streamCancel = r,
         ~streaming => streamCancel' = None,
         heard' \subseteq heard \cup {s}, UNCHANGED <<streaming, flagged>>
  PROVE  CancelInv'
BY DEF CancelInv, Save, TypeOK, TypeSessions

LEMMA DecideCancel ==
  ASSUME TypeOK, CancelInv, NEW s \in Sessions, Decide(s)
  PROVE  CancelInv'
<1>1. /\ streamCancel' # s
      /\ \A r \in Sessions : streamCancel' = r => streamCancel = r
      /\ ~streaming => streamCancel' = None
      /\ UNCHANGED <<streaming, flagged>>
  BY IdsAssumption DEF Decide, Release, CancelInv
<1>2. CASE ~Discarded(s) /\ heard' = heard \cup {s} /\ Save(s)
  BY <1>1, <1>2, SaveCancel DEF Discarded
<1>3. CASE UNCHANGED <<heard, saved>>
  BY <1>1, <1>3 DEF CancelInv
<1>4. QED BY <1>2, <1>3 DEF Decide

LEMMA CancelInvStep == TypeOK /\ CancelInv /\ [Next]_vars => CancelInv'
<1> SUFFICES ASSUME TypeOK, CancelInv, [Next]_vars PROVE CancelInv'
  OBVIOUS
<1>1. ASSUME NEW h \in Handlers, ToggleStart(h) PROVE CancelInv'
  BY <1>1, StartCancel DEF ToggleStart
<1>2. ASSUME NEW h \in Handlers, AwaitDone(h) PROVE CancelInv'
  <2>1. /\ \A r \in Sessions : streamCancel' = r => streamCancel = r
        /\ ~streaming => streamCancel' = None
        /\ UNCHANGED <<streaming, flagged, heard>>
    BY <1>2, IdsAssumption DEF AwaitDone, Release, CancelInv, recordVars
  <2>2. CASE job[h].task \in heard /\ Save(job[h].task)
    <3>1. job[h].task \in Sessions
      BY <2>2 DEF TypeOK, TypeSessions
    <3>2. job[h].task \notin flagged /\ streamCancel # job[h].task
      BY <2>2, <3>1 DEF CancelInv
    <3>3. QED BY <2>1, <2>2, <3>1, <3>2, SaveCancel
  <2>3. CASE UNCHANGED saved
    BY <2>1, <2>3 DEF CancelInv
  <2>4. QED BY <1>2, <2>2, <2>3 DEF AwaitDone
<1>3. ASSUME NEW h \in Handlers, BatchDone(h) PROVE CancelInv'
  <2>1. /\ \A r \in Sessions : streamCancel' = r => streamCancel = r
        /\ ~streaming => streamCancel' = None
        /\ UNCHANGED <<streaming, flagged, heard>>
    BY <1>3, IdsAssumption DEF BatchDone, Release, CancelInv, recordVars
  <2>2. CASE Collects(job[h])
    <3>1. flagged = {} /\ streamCancel = None /\ ~streaming
      BY <2>2 DEF Collects, CancelInv
    <3>2. flagged' = {} /\ streamCancel' = None
      BY <2>1, <3>1
    <3>3. QED BY <3>2, IdsAssumption DEF CancelInv
  <2>3. CASE UNCHANGED saved
    BY <2>1, <2>3 DEF CancelInv
  <2>4. QED BY <1>3, <2>2, <2>3 DEF BatchDone
<1>4. ASSUME NEW h \in Handlers, Cancel(h) PROVE CancelInv'
  BY <1>4, IdsAssumption DEF Cancel, Discard, CancelInv, Some
<1>5. ASSUME NEW h \in Handlers, CommandStart(h) PROVE CancelInv'
  <2>1. CASE Valid(state, "Toggle")
    BY <1>5, <2>1, StartCancel DEF CommandStart
  <2>2. CASE ~Valid(state, "Toggle")
    BY <1>5, <2>2 DEF CommandStart, CancelInv, fateVars
  <2>3. QED BY <2>1, <2>2
<1>6. ASSUME NEW h \in Handlers, VoiceStart(h) PROVE CancelInv'
  <2>1. CASE state' = "Recording"
    BY <1>6, <2>1, StartCancel DEF VoiceStart
  <2>2. CASE state' # "Recording"
    BY <1>6, <2>2 DEF VoiceStart, CancelInv, fateVars
  <2>3. QED BY <2>1, <2>2
<1>7. ASSUME NEW s \in Sessions, PipeDecide(s) \/ PipeBackendGone(s) PROVE CancelInv'
  BY <1>7, DecideCancel DEF PipeDecide, PipeBackendGone
<1>8. CASE UNCHANGED CancelVars
  BY <1>8 DEF CancelVars, CancelInv
<1>9. CASE UNCHANGED vars
  BY <1>8, <1>9 DEF vars, daemonVars, recordVars, fateVars, CancelVars
<1>10. QED
  BY <1>1, <1>2, <1>3, <1>4, <1>5, <1>6, <1>7, <1>8, <1>9, CancelCases DEF CancelStep

\* Once a cancel set the flag of a streaming session, nobody writes its text to
\* the history: not its pipeline, not a stop press that awaited it.
THEOREM CancelsAreFinal == Spec => []CancelIsFinal
<1>1. Init => CancelInv
  BY IdsAssumption DEF Init, CancelInv
<1>2. TypeOK /\ CancelInv => CancelIsFinal
  BY DEF CancelInv, CancelIsFinal, TypeOK, TypeSessions
<1>3. QED BY <1>1, <1>2, Typed, CancelInvStep, PTL DEF Spec
----------------------------------------------------------------------------
(* Presses one at a time. *)

OneAtATime == \A g, h \in Handlers : g = h
----------------------------------------------------------------------------
(* Transcribing has an owner. *)

\* A command press that released the lock finds no recording when it takes it
\* again: nobody else could start one.
OwnInv ==
  /\ TranscribingIsOwned
  /\ \A h \in Handlers : pc[h] = "select" => state # "Recording"

\* Ends Transcribing, or leaves the state as it is.
LEMMA DoneLeaves ==
  ASSUME Transition("TranscriptionDone")
  PROVE  state' # "Transcribing" /\ (state' = "Recording" => state = "Recording")
BY DEF Transition, Valid, After

\* Nothing owed is dropped but by a transition out of Transcribing.
LEMMA StillOwned ==
  ASSUME OwnInv, Owed => Owed', state' = "Transcribing" => state = "Transcribing"
  PROVE  TranscribingIsOwned'
BY DEF OwnInv, TranscribingIsOwned

\* A handler that was not at "select" and does not go there, while the state
\* does not become Recording.
LEMMA SelectKept ==
  ASSUME OwnInv, state' = "Recording" => state = "Recording",
         \A g \in Handlers : pc'[g] = "select" => pc[g] = "select"
  PROVE  \A g \in Handlers : pc'[g] = "select" => state' # "Recording"
BY DEF OwnInv

\* The steps of a session's task but those that end what it owes.
LEMMA TaskOwes ==
  ASSUME TypeOK, NEW s \in Sessions, NEW step \in TaskSteps,
         task' = [task EXCEPT ![s] = step], UNCHANGED pc,
         task[s] \in {"work", "drain", "final"} => step \in {"work", "drain", "final"}
  PROVE  Owed => Owed'
BY DEF Owed, TypeOK, TypeSessions

\* A handler that owes nothing goes on.
LEMMA GotoOwes ==
  ASSUME TypeOK, NEW h \in Handlers, NEW step, NEW for, Goto(h, step, for),
         pc[h] \notin {"await", "batch", "retry"},
         \A s \in Sessions : task[s] \in {"work", "drain", "final"} => task'[s] = task[s]
  PROVE  Owed => Owed'
BY DEF Owed, Goto, TypeOK, TypeHandlers, Procs

\* A new recording takes an id nothing is owed for.
LEMMA StartOwes ==
  ASSUME TypeOK, NEW s \in Sessions, NEW flow, NEW step, StartSession(s, flow, step)
  PROVE  \A r \in Sessions : task[r] \in {"work", "drain", "final"} => task'[r] = task[r]
BY DEF StartSession, Free, TypeOK, TypeSessions

\* The steps that leave Transcribing alone, or enter it from nowhere.
LEMMA Keeps ==
  ASSUME OwnInv, Owed => Owed', state' \in {"Transcribing", "Recording"} => state' = state,
         \A g \in Handlers : pc'[g] = "select" => pc[g] = "select"
  PROVE  OwnInv'
BY DEF OwnInv, TranscribingIsOwned

\* A recording starts: the one handler there is does not wait to start another.
LEMMA Starts ==
  ASSUME OneAtATime, NEW h \in Handlers, pc'[h] # "select", state' # "Transcribing"
  PROVE  OwnInv'
BY DEF OneAtATime, OwnInv, TranscribingIsOwned

\* What a stop press, a retry or a session's task finishes with.
LEMMA Finalized ==
  ASSUME OwnInv, Transition("TranscriptionDone"),
         \A g \in Handlers : pc'[g] = "select" => pc[g] = "select"
  PROVE  OwnInv'
BY DoneLeaves DEF OwnInv, TranscribingIsOwned

LEMMA OwnHandler ==
  ASSUME TypeOK, OwnInv, OneAtATime, NEW h \in Handlers, Press(h) \/ Continue(h)
  PROVE  OwnInv'
<1> USE DEF Procs
<1>1. CASE ToggleRefused(h)
  BY <1>1, Keeps DEF ToggleRefused, Owed, Barged, AgentPlayback, After, ReadAloud,
                     recordVars, handlerVars
<1>2. CASE ToggleStart(h)
  BY <1>2, Starts DEF ToggleStart, After, handlerVars
<1>3. CASE ToggleStop(h)
  <2>1. pc'[h] \in {"await", "batch"}
    BY <1>3 DEF ToggleStop, Goto, TypeOK, TypeHandlers
  <2>2. OwnInv'
    BY <1>3, <2>1 DEF OneAtATime, OwnInv, TranscribingIsOwned, Owed
  <2>3. QED BY <2>2
<1>4. CASE Cancel(h)
  <2>1. CASE Valid(state, "Cancel")
    BY <1>4, <2>1 DEF Cancel, Transition, Valid, After, OwnInv, TranscribingIsOwned
  <2>2. CASE ~Valid(state, "Cancel")
    BY <1>4, <2>2, Keeps DEF Cancel, Transition, Owed, handlerVars
  <2>3. QED BY <2>1, <2>2
<1>5. ASSUME NEW k \in CommandKinds \ {"agent"}, CommandPress(h, k) PROVE OwnInv'
  <2>1. state' \in {"Transcribing", "Recording"} => state' = state
    BY <1>5 DEF CommandPress, Barged, AgentPlayback, After, ReadAloud
  <2>2. Owed => Owed'
    BY <1>5 DEF CommandPress, Goto, Finish, Owed, TypeOK, TypeHandlers, recordVars
  <2>3. \A g \in Handlers : pc'[g] = "select" => state' # "Recording"
    BY <1>5 DEF CommandPress, Goto, Finish, OneAtATime, TypeOK, TypeHandlers
  <2>4. QED BY <2>1, <2>2, <2>3 DEF OwnInv, TranscribingIsOwned
<1>6. CASE VoicePress(h)
  <2>1. state' \in {"Transcribing", "Recording"} => state' = state
    BY <1>6 DEF VoicePress, Barged, AgentPlayback, After, ReadAloud
  <2>2. Owed => Owed'
    BY <1>6 DEF VoicePress, Goto, Owed, TypeOK, TypeHandlers
  <2>3. \A g \in Handlers : pc'[g] = "select" => pc[g] = "select"
    BY <1>6 DEF VoicePress, Goto, TypeOK, TypeHandlers
  <2>4. QED BY <2>1, <2>2, <2>3, Keeps
<1>7. CASE RetryStart(h)
  BY <1>7 DEF RetryStart, Goto, OneAtATime, OwnInv, TranscribingIsOwned, Owed,
              TypeOK, TypeHandlers
<1>8. CASE SpeakPress(h) \/ SpeakTextPress(h)
  <2>1. state' \in {"Transcribing", "Recording"} => state' = state
    BY <1>8 DEF SpeakPress, SpeakTextPress, Transition, Valid, After
  <2>2. Owed => Owed'
    BY <1>8 DEF SpeakPress, SpeakTextPress, Goto, Owed, TypeOK, TypeHandlers, recordVars
  <2>3. \A g \in Handlers : pc'[g] = "select" => pc[g] = "select"
    BY <1>8 DEF SpeakPress, SpeakTextPress, Goto, TypeOK, TypeHandlers
  <2>4. QED BY <2>1, <2>2, <2>3, Keeps
<1>9. CASE AwaitDone(h) \/ BatchDone(h) \/ RetryDone(h)
  <2>1. \A g \in Handlers : pc'[g] = "select" => pc[g] = "select"
    BY <1>9 DEF AwaitDone, BatchDone, RetryDone, Finish, Goto, TypeOK, TypeHandlers
  <2>2. QED BY <1>9, <2>1, Finalized DEF AwaitDone, BatchDone, RetryDone
<1>10. CASE CommandGate(h) \/ CommandTake(h) \/ CommandGivesUp(h) \/ VoiceGivesUp(h)
            \/ SpeakGivesUp(h)
  <2>1. UNCHANGED <<state, task>>
    BY <1>10 DEF CommandGate, CommandTake, CommandGivesUp, VoiceGivesUp, SpeakGivesUp,
                 daemonVars, recordVars
  <2>2. \E step, for : Goto(h, step, for) /\ step \in {"idle", "take"}
    BY <1>10 DEF CommandGate, CommandTake, CommandGivesUp, VoiceGivesUp, SpeakGivesUp, Finish
  <2>3. pc[h] \notin {"await", "batch", "retry"}
    BY <1>10 DEF CommandGate, CommandTake, CommandGivesUp, VoiceGivesUp, SpeakGivesUp
  <2>4. \A g \in Handlers : pc'[g] = "select" => pc[g] = "select"
    BY <2>2 DEF Goto, TypeOK, TypeHandlers
  <2>5. QED BY <2>1, <2>2, <2>3, <2>4, GotoOwes, Keeps
<1>11. CASE CommandStart(h)
  <2>1. state # "Recording" /\ pc'[h] = "idle"
    BY <1>11 DEF CommandStart, Finish, Goto, OwnInv, TypeOK, TypeHandlers
  <2>2. CASE Valid(state, "Toggle")
    <3>1. state' # "Transcribing"
      BY <1>11, <2>1, <2>2 DEF CommandStart, Transition, Valid, After
    <3>2. QED BY <2>1, <3>1, Starts
  <2>3. CASE ~Valid(state, "Toggle")
    <3>1. Owed => Owed'
      BY <1>11, <2>3 DEF CommandStart, Finish, Goto, Owed, TypeOK, TypeHandlers
    <3>2. QED BY <1>11, <2>3, <3>1 DEF CommandStart, Finish, Goto, Transition, OwnInv,
                   TranscribingIsOwned, TypeOK, TypeHandlers
  <2>4. QED BY <2>2, <2>3
<1>12. CASE VoiceStart(h)
  <2>1. pc'[h] # "select" /\ state' # "Transcribing"
    BY <1>12 DEF VoiceStart, Finish, Goto, TypeOK, TypeHandlers
  <2>2. QED BY <2>1, Starts
<1>13. CASE Speak(h)
  <2>1. state' \in {"Transcribing", "Recording"} => state' = state
    BY <1>13 DEF Speak, SpeakStart, MaySpeak, Transition, Valid, After
  <2>2. \E step, for : Goto(h, step, for) /\ step \in {"idle", "synth"}
    BY <1>13 DEF Speak, SpeakStart, Finish
  <2>3. pc[h] \notin {"await", "batch", "retry"} /\ UNCHANGED task
    BY <1>13 DEF Speak, SpeakStart, recordVars
  <2>4. \A g \in Handlers : pc'[g] = "select" => pc[g] = "select"
    BY <2>2 DEF Goto, TypeOK, TypeHandlers
  <2>5. QED BY <2>1, <2>2, <2>3, <2>4, GotoOwes, Keeps
<1>14. QED
  BY <1>1, <1>2, <1>3, <1>4, <1>5, <1>6, <1>7, <1>8, <1>9, <1>10, <1>11, <1>12, <1>13
     DEF Press, Continue, Selected, VoiceGoesOn

LEMMA OwnTask ==
  ASSUME TypeOK, OwnInv, NEW s \in Sessions, Background(s) \/ Pipeline(s) \/ Silence(s)
  PROVE  OwnInv'
<1>1. UNCHANGED pc
  BY DEF Background, BgClosed, BgClaim, BgDone, Pipeline, PipeDecide, PipeTail, Decide,
         Silence, BgAutoStop, PipeAutoStop, PipeBackendGone, PipeRejected, handlerVars
<1>2. CASE BgDone(s) \/ PipeTail(s)
  BY <1>1, <1>2, Finalized DEF BgDone, PipeTail
<1>3. CASE BgClaim(s)
  <2>1. CASE Claimable(kind[s])
    <3>1. state' = "Transcribing" /\ task'[s] = "work"
      BY <1>3, <2>1 DEF BgClaim, Claimable, Transition, Valid, After, TypeOK, TypeSessions
    <3>2. QED BY <3>1 DEF OwnInv, TranscribingIsOwned, Owed
  <2>2. CASE ~Claimable(kind[s])
    <3>1. Owed => Owed'
      BY <1>1, <1>3, <2>2, TaskOwes DEF BgClaim, TaskSteps
    <3>2. QED BY <1>1, <1>3, <2>2, <3>1, Keeps DEF BgClaim
  <2>3. QED BY <2>1, <2>2
<1>4. CASE PipeAutoStop(s)
  <2>1. task'[s] = "drain"
    BY <1>4 DEF PipeAutoStop, TypeOK, TypeSessions
  <2>2. state' = "Recording" => state = "Recording"
    BY <1>4 DEF PipeAutoStop, Transition, Valid, After
  <2>3. QED BY <1>1, <2>1, <2>2 DEF OwnInv, TranscribingIsOwned, Owed
<1>5. CASE PipeDecide(s) \/ PipeBackendGone(s)
  <2>1. Owed => Owed'
    BY <1>1, <1>5, TaskOwes DEF PipeDecide, PipeBackendGone, Decide, TaskSteps
  <2>2. UNCHANGED state
    BY <1>5 DEF PipeDecide, PipeBackendGone, Decide
  <2>3. QED BY <1>1, <2>1, <2>2, Keeps
<1>6. CASE BgClosed(s) \/ BgAutoStop(s) \/ PipeRejected(s)
  <2>1. Owed => Owed'
    BY <1>1, <1>6, TaskOwes DEF BgClosed, BgAutoStop, PipeRejected, TaskSteps
  <2>2. UNCHANGED state
    BY <1>6 DEF BgClosed, BgAutoStop, PipeRejected, daemonVars
  <2>3. QED BY <1>1, <2>1, <2>2, Keeps
<1>7. QED BY <1>2, <1>3, <1>4, <1>5, <1>6 DEF Background, Pipeline, Silence

\* A read-aloud is none of the recordings' business.
LEMMA OwnSpeech ==
  ASSUME TypeOK, OwnInv,
         \/ \E p \in Procs : Playback(p)
         \/ \E u \in Speeches : PlaybackEnds(u)
         \/ Reply
         \/ StopForRecording
  PROVE  OwnInv'
<1>1. state' \in {"Transcribing", "Recording"} => state' = state
  BY DEF Playback, SynthEnds, FirstAudioFails, FirstAudio, PlaybackEnds, End, Reply,
         SpeakStart, MaySpeak, Transition, Valid, After, StopForRecording, Barged,
         AgentPlayback, ReadAloud
<1>2. CASE StopForRecording \/ \E u \in Speeches : PlaybackEnds(u)
  BY <1>1, <1>2, Keeps DEF PlaybackEnds, StopForRecording, Owed, handlerVars, recordVars
<1>3. ASSUME NEW p \in Procs, Playback(p) \/ (p = ReplyLoop /\ Reply)
      PROVE  (Owed => Owed') /\ \A g \in Handlers : pc'[g] = "select" => pc[g] = "select"
  <2>1. /\ UNCHANGED task
        /\ pc[p] \in {"idle", "synth", "first"}
        /\ \E step, for : Goto(p, step, for) /\ step \in {"idle", "synth", "first"}
    BY <1>3 DEF Playback, SynthEnds, FirstAudioFails, FirstAudio, Reply, SpeakStart,
                Finish, recordVars
  <2>2. QED BY <2>1 DEF Goto, Owed, TypeOK, TypeHandlers, Procs
<1>4. QED BY <1>1, <1>2, <1>3, Keeps DEF Procs

LEMMA OwnStep == OneAtATime /\ TypeOK /\ OwnInv /\ [Next]_vars => OwnInv'
<1> SUFFICES ASSUME OneAtATime, TypeOK, OwnInv, [Next]_vars PROVE OwnInv'
  OBVIOUS
<1>1. CASE UNCHANGED vars
  BY <1>1, Keeps DEF vars, daemonVars, recordVars, handlerVars, Owed
<1>2. CASE Next
  BY <1>2, OwnHandler, OwnTask, OwnSpeech DEF Next
<1>3. QED BY <1>1, <1>2

\* As long as presses are handled one at a time, the daemon is never wedged in
\* Transcribing, whatever its tasks do meanwhile.
THEOREM TranscribingHasAnOwner ==
  ASSUME OneAtATime PROVE Spec => []TranscribingIsOwned
<1>1. Init => OwnInv
  BY DEF Init, OwnInv, TranscribingIsOwned, Procs
<1>2. TypeOK /\ OwnInv /\ [Next]_vars => OwnInv'
  BY OwnStep
<1>3. OwnInv => TranscribingIsOwned
  BY DEF OwnInv
<1>4. QED BY <1>1, <1>2, <1>3, Typed, PTL DEF Spec
----------------------------------------------------------------------------
(* What one session leaves for the next. *)

\* A pipeline that still runs; a handler that owes a TranscriptionDone.
LivePipe(s)  == kind[s] = "dictation" /\ task[s] \in {"record", "drain", "final"}
Finishing(h) == pc[h] \in {"await", "batch", "retry"}

\* Nothing of a recording is left: no microphone, no slot of any flow.
Silent == capture = None /\ \A k \in CommandKinds : slot[k] = None

\* Nor a language override, a cancel flag, a pipeline or a claimed session.
Quiet ==
  /\ language = None /\ streamCancel = None
  /\ \A s \in Sessions : ~LivePipe(s) /\ task[s] # "work"
  /\ \A h \in Handlers : pc[h] \notin {"batch", "retry"}

StateInv ==
  /\ state # "Recording" => Silent
  /\ state \in {"Idle"} \cup ReadAloud => Quiet
  /\ state = "Recording" =>
       /\ \A h \in Handlers : pc[h] \in {"idle", "gate", "take"}
       /\ \A s \in Sessions : task[s] # "work"

SlotInv ==
  /\ \A j, k \in CommandKinds : slot[j] # None /\ slot[k] # None => j = k
  /\ \A k \in CommandKinds : slot[k] # None =>
       /\ capture \in {slot[k], None}
       /\ language = None /\ streamCancel = None
       /\ \A s \in Sessions : ~LivePipe(s)

PipeInv ==
  \A s \in Sessions : LivePipe(s) =>
    /\ streamTask = s \/ \E h \in Handlers : pc[h] = "await" /\ job[h].task = s
    /\ streamCancel \in {s, None}
    /\ task[s] = "final" => streamCancel = None
    /\ \A r \in Sessions : (LivePipe(r) => r = s) /\ task[r] # "work"
    /\ \A h \in Handlers : pc[h] \notin {"batch", "retry"}

WorkInv ==
  \A s \in Sessions : task[s] = "work" =>
    /\ language = None /\ streamCancel = None
    /\ \A r \in Sessions : task[r] = "work" => r = s
    /\ \A h \in Handlers : ~Finishing(h)

FinishInv ==
  \A h \in Handlers : Finishing(h) =>
    /\ language = None
    /\ streamCancel \in {job[h].flag, None}
    /\ pc[h] = "retry" => streamCancel = None
    /\ pc[h] = "await" => \A s \in Sessions : LivePipe(s) => job[h].task = s

SerialInv == StateInv /\ SlotInv /\ PipeInv /\ WorkInv /\ FinishInv

\* A step that starts nothing: it may let go of a microphone, a slot, an
\* override or a flag, and a session's task may move on or end.  SerialInv asks
\* something of the state only where it becomes Idle, or stops recording.
LEMMA LetsGo ==
  ASSUME SerialInv, UNCHANGED <<kind, job>>,
         capture' \in {capture, None}, language' \in {language, None},
         streamCancel' \in {streamCancel, None},
         \A k \in CommandKinds : slot'[k] \in {slot[k], None},
         \A s \in Sessions :
           \/ task'[s] = task[s]
           \/ task'[s] \notin {"record", "drain", "final", "work"}
           \/ task'[s] = "drain" /\ LivePipe(s)
           \/ task'[s] = "final" /\ LivePipe(s) /\ streamCancel' = None,
         streamTask' = streamTask \/ \A s \in Sessions : ~LivePipe(s)',
         \A h \in Handlers :
           \/ pc'[h] = pc[h]
           \/ /\ pc'[h] \notin {"await", "batch", "retry"}
              /\ pc[h] = "await" => \A s \in Sessions : ~LivePipe(s)'
              /\ state' = "Recording" => pc'[h] \in {"idle", "gate", "take"},
         state' = "Recording" => state = "Recording",
         state' # "Recording" /\ state = "Recording" => Silent',
         state' \in {"Idle"} \cup ReadAloud => state \in {"Idle"} \cup ReadAloud \/ Quiet'
  PROVE  SerialInv'
<1> USE DEF Finishing
<1>0. \A s \in Sessions : /\ LivePipe(s)' => LivePipe(s)
                          /\ task'[s] = "work" => task[s] = "work"
                          /\ LivePipe(s)' /\ task'[s] = "final" =>
                               task[s] = "final" \/ streamCancel' = None
  BY DEF LivePipe
<1>01. \A h \in Handlers : pc'[h] \in {"await", "batch", "retry"} => pc[h] = pc'[h]
  OBVIOUS
<1>1. StateInv'
  <2>1. state' # "Recording" => Silent'
    BY DEF SerialInv, StateInv, Silent
  <2>2. state' \in {"Idle"} \cup ReadAloud => Quiet'
    <3>1. CASE state \in {"Idle"} \cup ReadAloud
      BY <3>1, <1>0, <1>01 DEF SerialInv, StateInv, Quiet
    <3>2. CASE state \notin {"Idle"} \cup ReadAloud
      BY <3>2
    <3>3. QED BY <3>1, <3>2
  <2>3. state' = "Recording" =>
          /\ \A h \in Handlers : pc'[h] \in {"idle", "gate", "take"}
          /\ \A s \in Sessions : task'[s] # "work"
    BY <1>0 DEF SerialInv, StateInv
  <2>4. QED BY <2>1, <2>2, <2>3 DEF StateInv, Silent
<1>2. SlotInv'
  BY <1>0 DEF SerialInv, SlotInv
<1>3. PipeInv'
  <2> SUFFICES ASSUME NEW s \in Sessions, LivePipe(s)'
               PROVE  /\ streamTask' = s \/ \E h \in Handlers : pc'[h] = "await" /\ job'[h].task = s
                      /\ streamCancel' \in {s, None}
                      /\ task'[s] = "final" => streamCancel' = None
                      /\ \A r \in Sessions : (LivePipe(r)' => r = s) /\ task'[r] # "work"
                      /\ \A h \in Handlers : pc'[h] \notin {"batch", "retry"}
    BY DEF PipeInv
  <2>1. LivePipe(s) /\ streamTask' = streamTask
    BY <1>0
  <2>2. /\ streamTask = s \/ \E h \in Handlers : pc[h] = "await" /\ job[h].task = s
        /\ streamCancel \in {s, None}
        /\ task[s] = "final" => streamCancel = None
        /\ \A r \in Sessions : (LivePipe(r) => r = s) /\ task[r] # "work"
        /\ \A h \in Handlers : pc[h] \notin {"batch", "retry"}
    BY <2>1 DEF SerialInv, PipeInv
  <2>3. \A h \in Handlers : pc[h] = "await" => pc'[h] = "await"
    OBVIOUS
  <2>4. QED BY <2>1, <2>2, <2>3, <1>0, <1>01
<1>4. WorkInv'
  BY <1>0, <1>01 DEF SerialInv, WorkInv
<1>5. FinishInv'
  BY <1>0, <1>01 DEF SerialInv, FinishInv
<1>6. QED BY <1>1, <1>2, <1>3, <1>4, <1>5 DEF SerialInv

\* The other sessions keep their task and flow when one starts.
LEMMA StartSerial ==
  ASSUME TypeOK, SerialInv, OneAtATime, NEW h \in Handlers,
         NEW s \in Sessions, NEW flow \in CommandKinds \cup {"dictation"},
         NEW step \in {"none", "record"}, StartSession(s, flow, step),
         state \in {"Idle"} \cup ReadAloud, state' = "Recording",
         pc'[h] = "idle", UNCHANGED job,
         \/ /\ flow = "dictation"
            /\ UNCHANGED slot
            /\ language' = s
            /\ step = "record" => streamTask' = s /\ streamCancel' = s
            /\ step # "record" => UNCHANGED <<streamTask, streamCancel>>
         \/ /\ flow # "dictation"
            /\ slot' = [slot EXCEPT ![flow] = s]
            /\ UNCHANGED <<language, streamTask, streamCancel>>
  PROVE  SerialInv'
<1> USE DEF Finishing
<1>1. Quiet /\ Silent
  BY DEF SerialInv, StateInv, ReadAloud
<1>2. \A r \in Sessions : /\ task'[r] # "work"
                          /\ LivePipe(r)' => r = s /\ flow = "dictation" /\ step = "record"
  BY <1>1 DEF Quiet, LivePipe, StartSession, TypeOK, TypeSessions
<1>3. \A g \in Handlers : pc'[g] = "idle"
  BY DEF OneAtATime
<1>4. StateInv'
  BY <1>2, <1>3 DEF StateInv, ReadAloud
<1>5. SlotInv'
  <2>1. CASE flow = "dictation"
    <3>1. slot' = slot
      BY <2>1
    <3>2. QED BY <1>1, <3>1 DEF SlotInv, Silent
  <2>2. CASE flow # "dictation"
    <3>1. slot' = [slot EXCEPT ![flow] = s] /\ flow \in CommandKinds /\ capture' = s
      BY <2>2 DEF StartSession
    <3>2. language' = None /\ streamCancel' = None
      BY <1>1, <2>2 DEF Quiet
    <3>3. \A k \in CommandKinds : slot'[k] # None => k = flow /\ slot'[k] = s
      BY <1>1, <3>1 DEF Silent, TypeOK, TypeDaemon
    <3>4. QED BY <1>2, <2>2, <3>1, <3>2, <3>3 DEF SlotInv
  <2>3. QED BY <2>1, <2>2
<1>6. PipeInv'
  <2> SUFFICES ASSUME NEW r \in Sessions, LivePipe(r)'
               PROVE  /\ streamTask' = r
                      /\ streamCancel' = r
                      /\ task'[r] # "final"
    BY <1>2, <1>3 DEF PipeInv
  <2>1. r = s /\ flow = "dictation" /\ step = "record"
    BY <1>2
  <2>2. task'[s] = step
    BY DEF StartSession, TypeOK, TypeSessions
  <2>3. QED BY <2>1, <2>2
<1>7. WorkInv'
  BY <1>2 DEF WorkInv
<1>8. FinishInv'
  BY <1>3 DEF FinishInv
<1>9. QED BY <1>4, <1>5, <1>6, <1>7, <1>8 DEF SerialInv

\* A press that finishes what it starts here: it stops the recording of any
\* flow, or retries the last dictation.
LEMMA StopSerial ==
  ASSUME TypeOK, SerialInv, OneAtATime, NEW h \in Handlers, ToggleStop(h)
  PROVE  SerialInv'
<1> USE DEF Finishing
<1>1. state = "Recording" /\ state' = "Transcribing"
  BY DEF ToggleStop, Transition, Valid, After
<1>2. /\ capture' = None /\ language' = None /\ streamTask' = None
      /\ UNCHANGED <<streamCancel, kind, task>>
      /\ \A k \in CommandKinds : slot'[k] = None
      /\ job'[h] = [audio |-> capture, task |-> streamTask, flag |-> streamCancel]
      /\ pc'[h] = IF streamTask # None THEN "await" ELSE "batch"
  BY DEF ToggleStop, DiscardCommandSessions, NoSlots, StopCapture, Goto, TypeOK,
         TypeHandlers, Procs
<1>3. /\ \A s \in Sessions : task[s] # "work" /\ (LivePipe(s) => streamTask = s)
      /\ \A s \in Sessions : LivePipe(s)' <=> LivePipe(s)
  BY <1>1, <1>2 DEF SerialInv, StateInv, PipeInv, LivePipe
<1>4. StateInv'
  BY <1>1, <1>2 DEF StateInv, Silent, ReadAloud
<1>5. SlotInv'
  BY <1>2 DEF SlotInv
<1>6. PipeInv'
  <2> SUFFICES ASSUME NEW s \in Sessions, LivePipe(s)'
               PROVE  /\ \E g \in Handlers : pc'[g] = "await" /\ job'[g].task = s
                      /\ streamCancel' \in {s, None}
                      /\ task'[s] = "final" => streamCancel' = None
                      /\ \A r \in Sessions : (LivePipe(r)' => r = s) /\ task'[r] # "work"
                      /\ \A g \in Handlers : pc'[g] \notin {"batch", "retry"}
    BY DEF PipeInv
  <2>1. LivePipe(s) /\ streamTask = s /\ streamTask # None
    BY <1>3, IdsAssumption
  <2>2. pc'[h] = "await" /\ job'[h].task = s
    BY <1>2, <2>1
  <2>3. /\ streamCancel \in {s, None}
        /\ task[s] = "final" => streamCancel = None
    BY <2>1 DEF SerialInv, PipeInv
  <2>4. QED BY <2>1, <2>2, <2>3, <1>2, <1>3 DEF OneAtATime
<1>7. WorkInv'
  BY <1>2, <1>3 DEF WorkInv
<1>8. FinishInv'
  <2>1. job'[h].flag = streamCancel /\ job'[h].task = streamTask
    BY <1>2
  <2>2. QED BY <1>2, <1>3, <2>1 DEF FinishInv, OneAtATime
<1>9. QED BY <1>4, <1>5, <1>6, <1>7, <1>8 DEF SerialInv

LEMMA RetrySerial ==
  ASSUME TypeOK, SerialInv, OneAtATime, NEW h \in Handlers, RetryStart(h)
  PROVE  SerialInv'
<1> USE DEF Finishing
<1>1. state = "Idle" /\ state' = "Transcribing" /\ pc'[h] = "retry"
  BY DEF RetryStart, Transition, Valid, After, Goto, TypeOK, TypeHandlers, Procs
<1>2. Silent /\ Quiet
  BY <1>1 DEF SerialInv, StateInv
<1>3. UNCHANGED <<capture, slot, language, streamTask, streamCancel, kind, task>>
  BY DEF RetryStart, recordVars
<1>4. \A s \in Sessions : ~LivePipe(s)' /\ task'[s] # "work"
  BY <1>2, <1>3 DEF Quiet, LivePipe
<1>5. StateInv'
  BY <1>1, <1>2, <1>3 DEF StateInv, Silent, ReadAloud
<1>6. SlotInv' /\ PipeInv' /\ WorkInv'
  BY <1>2, <1>3, <1>4 DEF SlotInv, PipeInv, WorkInv, Silent
<1>7. FinishInv'
  BY <1>1, <1>2, <1>3, <1>4 DEF FinishInv, OneAtATime, Quiet
<1>8. QED BY <1>5, <1>6, <1>7 DEF SerialInv

\* A session of a flow is claimed: whichever it is, nothing else runs.
LEMMA ClaimSerial ==
  ASSUME TypeOK, SerialInv, NEW s \in Sessions, BgClaim(s), Claimable(kind[s])
  PROVE  SerialInv'
<1> USE DEF Finishing
<1>1. state = "Recording" /\ state' = "Transcribing" /\ slot[kind[s]] # None
  BY DEF BgClaim, Claimable, Transition, Valid, After
<1>2. /\ capture' = None /\ slot' = [slot EXCEPT ![kind[s]] = None]
      /\ task' = [task EXCEPT ![s] = "work"] /\ kind[s] \in CommandKinds
      /\ UNCHANGED <<language, streamTask, streamCancel, kind, pc, job>>
  BY DEF BgClaim, StopCapture, handlerVars
<1>3. \A k \in CommandKinds : slot'[k] = None
  BY <1>1, <1>2 DEF SerialInv, SlotInv, TypeOK, TypeDaemon
<1>4. /\ language = None /\ streamCancel = None
      /\ \A r \in Sessions : ~LivePipe(r) /\ task[r] # "work"
      /\ \A h \in Handlers : pc[h] \in {"idle", "gate", "take"}
  BY <1>1, <1>2 DEF SerialInv, SlotInv, StateInv
<1>5. \A r \in Sessions : ~LivePipe(r)' /\ (task'[r] = "work" => r = s)
  BY <1>2, <1>4 DEF LivePipe, TypeOK, TypeSessions
<1>6. StateInv'
  BY <1>1, <1>2, <1>3 DEF StateInv, Silent, ReadAloud
<1>7. SlotInv' /\ PipeInv'
  BY <1>3, <1>5 DEF SlotInv, PipeInv
<1>8. WorkInv' /\ FinishInv'
  BY <1>2, <1>4, <1>5 DEF WorkInv, FinishInv
<1>9. QED BY <1>6, <1>7, <1>8 DEF SerialInv

\* A handler's other steps: it goes somewhere it finishes nothing, and the
\* recordings are left alone, or their microphone is closed.
LEMMA GotoSerial ==
  ASSUME TypeOK, SerialInv, NEW p \in Procs, NEW step, NEW for, Goto(p, step, for),
         p \in Handlers => ~Finishing(p),
         step \notin {"await", "batch", "retry"},
         state' = "Recording" => p \notin Handlers \/ step \in {"idle", "gate", "take"},
         UNCHANGED <<slot, language, streamTask, streamCancel, kind, task, job>>,
         capture' \in {capture, None},
         \/ state' = state
         \/ state \in {"Idle"} \cup ReadAloud /\ state' \in {"Idle"} \cup ReadAloud
  PROVE  SerialInv'
<1>1. \A h \in Handlers :
        \/ pc'[h] = pc[h]
        \/ /\ pc'[h] \notin {"await", "batch", "retry"}
           /\ pc[h] # "await"
           /\ state' = "Recording" => pc'[h] \in {"idle", "gate", "take"}
  BY DEF Goto, TypeOK, TypeHandlers, Procs, Finishing
<1>2. \A k \in CommandKinds : slot'[k] \in {slot[k], None}
  OBVIOUS
<1>3. QED BY <1>1, <1>2, LetsGo DEF ReadAloud

\* Or it goes nowhere.
LEMMA StaySerial ==
  ASSUME SerialInv, UNCHANGED <<slot, language, streamTask, streamCancel, kind, task, pc, job>>,
         capture' \in {capture, None},
         \/ state' = state
         \/ state \in {"Idle"} \cup ReadAloud /\ state' \in {"Idle"} \cup ReadAloud
  PROVE  SerialInv'
<1>1. \A k \in CommandKinds : slot'[k] \in {slot[k], None}
  OBVIOUS
<1>2. QED BY <1>1, LetsGo DEF ReadAloud

\* The one handler that finishes leaves nothing behind, whether its transition
\* is the one that makes the daemon idle or came too late.
LEMMA FinishSerial ==
  ASSUME TypeOK, SerialInv, OneAtATime, NEW h \in Handlers,
         AwaitDone(h) \/ BatchDone(h) \/ RetryDone(h)
  PROVE  SerialInv'
<1> USE DEF Finishing
<1>1. /\ UNCHANGED <<capture, slot, language, streamTask, kind, task>>
      /\ Transition("TranscriptionDone") /\ Finish(h)
      /\ \/ Release(job[h].flag)
         \/ pc[h] = "retry" /\ UNCHANGED streamCancel
  BY DEF AwaitDone, BatchDone, RetryDone, recordVars
<1>2. language' = None /\ streamCancel' = None
  BY <1>1 DEF SerialInv, FinishInv, Release, AwaitDone, BatchDone, RetryDone
<1>3. \A s \in Sessions : ~LivePipe(s)
  <2>1. CASE BatchDone(h) \/ RetryDone(h)
    BY <2>1 DEF SerialInv, PipeInv, BatchDone, RetryDone
  <2>2. CASE AwaitDone(h)
    BY <2>2 DEF SerialInv, FinishInv, AwaitDone, LivePipe
  <2>3. QED BY <2>1, <2>2
<1>4. \A s \in Sessions : task[s] # "work"
  BY DEF SerialInv, WorkInv, AwaitDone, BatchDone, RetryDone
<1>5. \A s \in Sessions : ~LivePipe(s)' /\ task'[s] # "work"
  BY <1>1, <1>3, <1>4 DEF LivePipe
<1>6. \A g \in Handlers : pc'[g] = "idle"
  BY <1>1 DEF OneAtATime, Finish, Goto, TypeOK, TypeHandlers, Procs
<1>7. state # "Recording" /\ state' # "Recording"
  BY <1>1 DEF SerialInv, StateInv, Transition, Valid, After, AwaitDone, BatchDone, RetryDone
<1>8. StateInv'
  <2>1. Silent'
    BY <1>1, <1>7 DEF SerialInv, StateInv, Silent
  <2>2. Quiet'
    BY <1>2, <1>5, <1>6 DEF Quiet
  <2>3. QED BY <1>7, <2>1, <2>2 DEF StateInv
<1>9. SlotInv'
  BY <1>1, <1>2, <1>5 DEF SerialInv, SlotInv
<1>10. PipeInv' /\ WorkInv' /\ FinishInv'
  BY <1>5, <1>6 DEF PipeInv, WorkInv, FinishInv
<1>11. QED BY <1>8, <1>9, <1>10 DEF SerialInv

\* Asking to speak starts no recording, granted or not.
LEMMA SpeakSerial ==
  ASSUME TypeOK, SerialInv, NEW p \in Procs, NEW origin, SpeakStart(p, origin),
         p \in Handlers => ~Finishing(p)
  PROVE  SerialInv'
<1>1. /\ UNCHANGED <<capture, slot, language, streamTask, streamCancel, kind, task, job>>
      /\ \/ state' = state
         \/ state \in {"Idle"} \cup ReadAloud /\ state' \in {"Idle"} \cup ReadAloud
  BY DEF SpeakStart, MaySpeak, Transition, Valid, After, ReadAloud, recordVars
<1>2. PICK step, for : Goto(p, step, for)
                         /\ (step = "idle" \/ (step = "synth" /\ state' # "Recording"))
  BY DEF SpeakStart, MaySpeak, Finish, Transition, Valid, After
<1>3. QED BY <1>1, <1>2, GotoSerial

LEMMA HandlerSerial ==
  ASSUME TypeOK, SerialInv, OneAtATime, NEW h \in Handlers, Press(h) \/ Continue(h)
  PROVE  SerialInv'
<1> USE DEF Procs, Finishing
<1>1. state = "Recording" => pc[h] \in {"idle", "gate", "take"}
  BY DEF SerialInv, StateInv
<1>3. CASE ToggleRefused(h)
  <2>1. \/ state' = state
        \/ state \in {"Idle"} \cup ReadAloud /\ state' \in {"Idle"} \cup ReadAloud
    BY <1>3 DEF ToggleRefused, Barged, AgentPlayback, After
  <2>2. QED BY <1>3, <2>1, StaySerial DEF ToggleRefused, recordVars, handlerVars
<1>4. CASE ToggleStart(h)
  <2>1. state \in {"Idle"} \cup ReadAloud /\ state' = "Recording"
    BY <1>4 DEF ToggleStart, Barged, AgentPlayback, After
  <2>2. PICK s \in Sessions :
          /\ StartSession(s, "dictation", IF streaming THEN "record" ELSE "none")
          /\ language' = s
          /\ IF streaming THEN streamTask' = s /\ streamCancel' = s
                          ELSE UNCHANGED <<streamTask, streamCancel>>
    BY <1>4 DEF ToggleStart
  <2>3. pc'[h] = "idle" /\ UNCHANGED <<slot, job>>
    BY <1>4 DEF ToggleStart, handlerVars
  <2>4. CASE streaming
    BY <2>1, <2>2, <2>3, <2>4, StartSerial
  <2>5. CASE ~streaming
    BY <2>1, <2>2, <2>3, <2>5, StartSerial
  <2>6. QED BY <2>4, <2>5
<1>5. CASE ToggleStop(h)
  BY <1>5, StopSerial
<1>6. CASE Cancel(h)
  <2>1. CASE Valid(state, "Cancel") /\ Discard
    <3>1. /\ capture' = None /\ language' = None /\ slot' = [k \in CommandKinds |-> None]
          /\ streamCancel' = None
          /\ \A s \in Sessions : task'[s] = IF s = streamTask THEN "ended" ELSE task[s]
          /\ UNCHANGED <<kind, pc, job>> /\ state' = "Idle"
          /\ state \in {"Recording"} \cup ReadAloud
      BY <1>6, <2>1 DEF Cancel, Discard, StopCapture, DiscardCommandSessions, NoSlots,
                        Transition, Valid, After, handlerVars
    <3>2. \A s \in Sessions : LivePipe(s) => s = streamTask
      BY <3>1 DEF SerialInv, StateInv, Quiet, PipeInv
    <3>3. \A s \in Sessions : ~LivePipe(s)' /\ task'[s] # "work"
      BY <3>1, <3>2 DEF LivePipe, SerialInv, StateInv, Quiet
    <3>4. Silent' /\ Quiet'
      BY <3>1, <3>3 DEF Silent, Quiet, SerialInv, StateInv
    <3>5. \A s \in Sessions : task'[s] = task[s] \/ task'[s] = "ended"
      BY <3>1
    <3>6. QED BY <3>1, <3>3, <3>4, <3>5, LetsGo
  <2>2. CASE ~Valid(state, "Cancel")
    <3>1. /\ UNCHANGED <<state, capture, slot, language, streamTask, kind, task, pc, job>>
          /\ streamCancel' \in {streamCancel, None}
      BY <1>6, <2>2 DEF Cancel, Transition, handlerVars
    <3>2. \A k \in CommandKinds : slot'[k] \in {slot[k], None}
      BY <3>1
    <3>3. QED BY <3>1, <3>2, LetsGo
  <2>3. QED BY <1>6, <2>1, <2>2 DEF Cancel
<1>7. ASSUME NEW k \in CommandKinds \ {"agent"}, CommandPress(h, k) PROVE SerialInv'
  <2>1. /\ \/ state' = state
           \/ state \in {"Idle"} \cup ReadAloud /\ state' \in {"Idle"} \cup ReadAloud
        /\ pc[h] = "idle"
        /\ UNCHANGED <<capture, slot, language, streamTask, streamCancel, kind, task, job>>
    BY <1>7 DEF CommandPress, Barged, AgentPlayback, After, recordVars
  <2>2. PICK step, for : Goto(h, step, for) /\ step \in {"select", "gate", "idle"}
                           /\ (step = "select" => state' = "Idle")
    BY <1>7 DEF CommandPress, Finish
  <2>3. QED BY <2>1, <2>2, GotoSerial
<1>8. CASE VoicePress(h)
  <2>1. CASE state = "Recording"
    BY <1>8, <2>1, StaySerial DEF VoicePress, StopCapture, ReadAloud
  <2>2. CASE state # "Recording"
    <3>1. /\ state' = state \/ state' = "Idle"
          /\ state \in {"Idle"} \cup ReadAloud /\ pc[h] = "idle"
          /\ UNCHANGED <<capture, slot, language, streamTask, streamCancel, kind, task, job>>
          /\ \E for : Goto(h, "voice", for)
      BY <1>8, <2>2 DEF VoicePress, Barged, AgentPlayback, After
    <3>2. state' # "Recording"
      BY <2>2, <3>1
    <3>3. QED BY <3>1, <3>2, GotoSerial
  <2>3. QED BY <2>1, <2>2
<1>9. CASE RetryStart(h)
  BY <1>9, RetrySerial
<1>10. CASE SpeakPress(h) \/ SpeakTextPress(h)
  <2>1. /\ state \in {"Idle"} \cup ReadAloud /\ state' = "Idle" /\ pc[h] = "idle"
        /\ UNCHANGED <<capture, slot, language, streamTask, streamCancel, kind, task, job>>
    BY <1>10 DEF SpeakPress, SpeakTextPress, Transition, Valid, After, recordVars, ReadAloud
  <2>2. CASE UNCHANGED <<pc, what>>
    BY <2>1, <2>2, StaySerial
  <2>3. CASE \E for : Goto(h, "speak", for)
    BY <2>1, <2>3, GotoSerial
  <2>4. QED BY <1>10, <2>2, <2>3 DEF SpeakPress, SpeakTextPress
<1>11. CASE AwaitDone(h) \/ BatchDone(h) \/ RetryDone(h)
  BY <1>11, FinishSerial
<1>12. CASE CommandGate(h) \/ CommandTake(h) \/ CommandGivesUp(h) \/ VoiceGivesUp(h)
            \/ SpeakGivesUp(h)
  <2>1. /\ pc[h] \in {"gate", "take", "select", "voice", "speak"}
        /\ capture' \in {capture, None}
        /\ UNCHANGED <<state, slot, language, streamTask, streamCancel, kind, task, job>>
    BY <1>12 DEF CommandGate, CommandTake, CommandGivesUp, VoiceGivesUp, SpeakGivesUp,
                 daemonVars, recordVars, StopCapture
  <2>2. PICK step, for : Goto(h, step, for) /\ step \in {"idle", "take"}
    BY <1>12 DEF CommandGate, CommandTake, CommandGivesUp, VoiceGivesUp, SpeakGivesUp, Finish
  <2>3. QED BY <2>1, <2>2, GotoSerial
<1>13. CASE CommandStart(h)
  <2>1. pc[h] = "select" /\ state # "Recording" /\ Finish(h) /\ UNCHANGED job
    BY <1>1, <1>13 DEF CommandStart
  <2>2. CASE Valid(state, "Toggle")
    <3>1. state = "Idle" /\ state' = "Recording"
      BY <1>13, <2>1, <2>2 DEF CommandStart, Transition, Valid, After
    <3>2. PICK s \in Sessions : /\ StartSession(s, what[h], "record")
                                /\ slot' = [slot EXCEPT ![what[h]] = s]
      BY <1>13, <2>2 DEF CommandStart
    <3>3. what[h] \in CommandKinds /\ what[h] # "dictation"
      BY <2>1, KindsAssumption DEF TypeOK, TypeHandlers, Fits
    <3>4. pc'[h] = "idle"
      BY <2>1 DEF Finish, Goto, TypeOK, TypeHandlers
    <3>5. UNCHANGED <<language, streamTask, streamCancel>>
      BY <1>13 DEF CommandStart
    <3>6. QED BY <2>1, <3>1, <3>2, <3>3, <3>4, <3>5, StartSerial
  <2>3. CASE ~Valid(state, "Toggle")
    <3>1. UNCHANGED <<state, capture, slot, language, streamTask, streamCancel, kind, task>>
      BY <1>13, <2>3 DEF CommandStart, Transition
    <3>2. QED BY <2>1, <3>1, GotoSerial DEF Finish
  <2>4. QED BY <2>2, <2>3
<1>14. CASE VoiceStart(h)
  <2>1. /\ pc[h] = "voice" /\ state \in {"Idle"} \cup ReadAloud /\ Finish(h)
        /\ UNCHANGED <<job, language, streamTask, streamCancel>>
    BY <1>14 DEF VoiceStart
  <2>2. CASE state' = "Recording"
    <3>1. PICK s \in Sessions : /\ StartSession(s, "agent", "record")
                                /\ slot' = [slot EXCEPT !["agent"] = s]
      BY <1>14, <2>2 DEF VoiceStart
    <3>2. "agent" \in CommandKinds
      BY <2>1 DEF TypeOK, TypeHandlers, Fits
    <3>3. pc'[h] = "idle"
      BY <2>1 DEF Finish, Goto, TypeOK, TypeHandlers
    <3>4. QED BY <2>1, <2>2, <3>1, <3>2, <3>3, StartSerial
  <2>3. CASE state' # "Recording"
    <3>1. UNCHANGED <<capture, slot, kind, task>> /\ state' = "Idle"
      BY <1>14, <2>3 DEF VoiceStart
    <3>2. QED BY <2>1, <2>3, <3>1, GotoSerial DEF Finish
  <2>4. QED BY <2>2, <2>3
<1>15. CASE Speak(h)
  <2>1. pc[h] = "speak" /\ SpeakStart(h, what[h])
    BY <1>15 DEF Speak
  <2>2. QED BY <2>1, SpeakSerial
<1>16. QED
  BY <1>3, <1>4, <1>5, <1>6, <1>7, <1>8, <1>9, <1>10, <1>11, <1>12, <1>13, <1>14, <1>15
     DEF Press, Continue, Selected, VoiceGoesOn

LEMMA TaskSerial ==
  ASSUME TypeOK, SerialInv, NEW s \in Sessions, Background(s) \/ Pipeline(s) \/ Silence(s)
  PROVE  SerialInv'
<1>1. UNCHANGED <<streamTask, kind, pc, job>>
  BY DEF Background, BgClosed, BgClaim, BgDone, Pipeline, PipeDecide, PipeTail, Decide,
         Silence, BgAutoStop, PipeAutoStop, PipeBackendGone, PipeRejected, daemonVars,
         handlerVars
<1>2. CASE BgClosed(s) \/ BgAutoStop(s) \/ PipeRejected(s)
  <2>1. /\ capture' \in {capture, None}
        /\ UNCHANGED <<state, language, streamCancel, slot>>
        /\ \E step \in {"claim", "ended"} : task' = [task EXCEPT ![s] = step]
    BY <1>2 DEF BgClosed, BgAutoStop, PipeRejected, StopCapture, daemonVars
  <2>2. \A r \in Sessions : task'[r] = task[r] \/ task'[r] \in {"claim", "ended"}
    BY <2>1 DEF TypeOK, TypeSessions
  <2>3. \A k \in CommandKinds : slot'[k] \in {slot[k], None}
    BY <2>1
  <2>4. QED BY <1>1, <2>1, <2>2, <2>3, LetsGo
<1>3. CASE BgClaim(s)
  <2>1. CASE Claimable(kind[s])
    BY <1>3, <2>1, ClaimSerial
  <2>2. CASE ~Claimable(kind[s])
    <3>1. /\ UNCHANGED <<state, capture, language, streamCancel, slot>>
          /\ task' = [task EXCEPT ![s] = "ended"]
      BY <1>3, <2>2 DEF BgClaim
    <3>2. \A r \in Sessions : task'[r] = task[r] \/ task'[r] = "ended"
      BY <3>1 DEF TypeOK, TypeSessions
    <3>3. QED BY <1>1, <3>1, <3>2, LetsGo
  <2>3. QED BY <2>1, <2>2
<1>4. CASE BgDone(s)
  <2>1. /\ UNCHANGED <<capture, language, streamCancel, slot>>
        /\ task' = [task EXCEPT ![s] = "ended"] /\ task[s] = "work"
        /\ Transition("TranscriptionDone")
    BY <1>4 DEF BgDone
  <2>2. \A r \in Sessions : task'[r] = task[r] \/ task'[r] = "ended"
    BY <2>1 DEF TypeOK, TypeSessions
  <2>3. state # "Recording" /\ state' # "Recording"
    BY <2>1 DEF SerialInv, StateInv, Transition, Valid, After
  <2>4. Quiet'
    BY <1>1, <2>1, <2>2 DEF SerialInv, WorkInv, PipeInv, Quiet, LivePipe, Finishing,
                           TypeOK, TypeSessions
  <2>5. QED BY <1>1, <2>1, <2>2, <2>3, <2>4, LetsGo
<1>5. CASE PipeAutoStop(s)
  <2>1. /\ LivePipe(s) /\ task' = [task EXCEPT ![s] = "drain"]
        /\ UNCHANGED <<language, streamCancel, slot>>
        /\ capture' \in {capture, None}
        /\ state' = IF state = "Recording" THEN "Transcribing" ELSE state
        /\ state = "Recording" => capture' = None
    BY <1>5 DEF PipeAutoStop, LivePipe, StopCapture, Transition, Valid, After
  <2>2. \A r \in Sessions : task'[r] = task[r] \/ (task'[r] = "drain" /\ LivePipe(r))
    BY <2>1 DEF TypeOK, TypeSessions
  <2>3. \A k \in CommandKinds : slot'[k] = None
    BY <2>1 DEF SerialInv, SlotInv
  <2>4. state' # "Recording" /\ state = "Recording" => Silent'
    BY <2>1, <2>3 DEF Silent
  <2>5. QED BY <1>1, <2>1, <2>2, <2>3, <2>4, LetsGo DEF ReadAloud
<1>6. CASE PipeDecide(s) \/ PipeBackendGone(s)
  <2>1. /\ LivePipe(s) /\ task' = [task EXCEPT ![s] = "final"]
        /\ UNCHANGED <<state, capture, language, slot>> /\ Release(s)
    BY <1>6 DEF PipeDecide, PipeBackendGone, Decide, LivePipe
  <2>2. streamCancel' = None
    BY <2>1 DEF SerialInv, PipeInv, Release
  <2>3. \A r \in Sessions : task'[r] = task[r] \/ (task'[r] = "final" /\ LivePipe(r))
    BY <2>1 DEF TypeOK, TypeSessions
  <2>4. QED BY <1>1, <2>1, <2>2, <2>3, LetsGo
<1>7. CASE PipeTail(s)
  <2>1. /\ LivePipe(s) /\ task[s] = "final" /\ task' = [task EXCEPT ![s] = "ended"]
        /\ UNCHANGED <<capture, streamCancel, slot>>
        /\ state' = IF state = "Transcribing" THEN "Idle" ELSE state
        /\ language' = IF state = "Transcribing" THEN None ELSE language
    BY <1>7 DEF PipeTail, LivePipe, Transition, Valid, After
  <2>2. \A r \in Sessions : task'[r] = task[r] \/ task'[r] = "ended"
    BY <2>1 DEF TypeOK, TypeSessions
  <2>3. state = "Transcribing" => Quiet'
    BY <1>1, <2>1, <2>2 DEF SerialInv, PipeInv, Quiet, LivePipe, TypeOK, TypeSessions
  <2>4. QED BY <1>1, <2>1, <2>2, <2>3, LetsGo DEF ReadAloud
<1>8. QED BY <1>2, <1>3, <1>4, <1>5, <1>6, <1>7 DEF Background, Pipeline, Silence

LEMMA SpeechSerial ==
  ASSUME TypeOK, SerialInv,
         \/ \E p \in Procs : Playback(p)
         \/ \E u \in Speeches : PlaybackEnds(u)
         \/ Reply
         \/ StopForRecording
  PROVE  SerialInv'
<1>1. CASE StopForRecording
  BY <1>1, StaySerial
     DEF StopForRecording, Barged, AgentPlayback, After, ReadAloud, recordVars, handlerVars
<1>2. ASSUME NEW u \in Speeches, PlaybackEnds(u) PROVE SerialInv'
  <2>1. \/ state' = state
        \/ state \in {"Idle"} \cup ReadAloud /\ state' \in {"Idle"} \cup ReadAloud
    BY <1>2 DEF PlaybackEnds, End, Transition, Valid, After, ReadAloud
  <2>2. QED BY <1>2, <2>1, StaySerial DEF PlaybackEnds, recordVars, handlerVars
<1>3. CASE Reply
  BY <1>3, SpeakSerial DEF Reply, Procs, Finishing
<1>4. ASSUME NEW p \in Procs, Playback(p) PROVE SerialInv'
  <2>1. \/ state' = state
        \/ state \in {"Idle"} \cup ReadAloud /\ state' \in {"Idle"} \cup ReadAloud
    BY <1>4 DEF Playback, SynthEnds, FirstAudioFails, FirstAudio, End, Transition, Valid,
                After, ReadAloud
  <2>2. /\ UNCHANGED <<capture, slot, language, streamTask, streamCancel, kind, task, job>>
        /\ pc[p] \in {"synth", "first"}
    BY <1>4 DEF Playback, SynthEnds, FirstAudioFails, FirstAudio, recordVars
  <2>3. PICK step, for : Goto(p, step, for) /\ (step = "idle" \/ (step = "first" /\ state' # "Recording"))
    BY <1>4 DEF Playback, SynthEnds, FirstAudioFails, FirstAudio, Finish
  <2>4. QED BY <2>1, <2>2, <2>3, GotoSerial DEF Finishing
<1>5. QED BY <1>1, <1>2, <1>3, <1>4

LEMMA SerialStep == OneAtATime /\ TypeOK /\ SerialInv /\ [Next]_vars => SerialInv'
<1> SUFFICES ASSUME OneAtATime, TypeOK, SerialInv, [Next]_vars PROVE SerialInv'
  OBVIOUS
<1>1. CASE UNCHANGED vars
  BY <1>1, StaySerial DEF vars, daemonVars, recordVars, handlerVars
<1>2. CASE Next
  BY <1>2, HandlerSerial, TaskSerial, SpeechSerial DEF Next
<1>3. QED BY <1>1, <1>2

LEMMA SerialInit == Init => SerialInv
BY DEF Init, SerialInv, StateInv, SlotInv, PipeInv, WorkInv, FinishInv, Silent, Quiet,
       LivePipe, Finishing, Procs, ReadAloud

\* As long as presses are handled one at a time, a command or voice context is
\* set only while its own session records, so no press and no claim takes the
\* capture of another recording for its own.
THEOREM SlotsAreOfTheRecording ==
  ASSUME OneAtATime PROVE Spec => []SlotIsOfTheRecording
<1>1. TypeOK /\ SerialInv /\ [Next]_vars => SerialInv'
  BY SerialStep
<1>2. SerialInv => SlotIsOfTheRecording
  BY DEF SerialInv, StateInv, SlotInv, Silent, SlotIsOfTheRecording
<1>3. QED BY <1>1, <1>2, SerialInit, Typed, PTL DEF Spec

\* And a session that ended, however it ended, left the daemon as it found it.
THEOREM IdleDaemonIsClean ==
  ASSUME OneAtATime PROVE Spec => []IdleIsClean
<1>1. TypeOK /\ SerialInv /\ [Next]_vars => SerialInv'
  BY SerialStep
<1>2. SerialInv => IdleIsClean
  BY DEF SerialInv, StateInv, Silent, Quiet, IdleIsClean
<1>3. QED BY <1>1, <1>2, SerialInit, Typed, PTL DEF Spec
=============================================================================
