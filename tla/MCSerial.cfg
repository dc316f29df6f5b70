\* One press at a time (the hotkey loop), every flow.
SPECIFICATION FairSpec
CONSTANTS
  None = None
  ReplyLoop = replies
  h1 = h1 h2 = h2 s1 = s1 s2 = s2 u1 = u1 u2 = u2
  Handlers <- OneHandler
  Sessions <- TwoSessions
  Speeches <- OneSpeech
  CommandKinds <- TwoKinds
INVARIANTS TypeOK TranscribingIsOwned SlotIsOfTheRecording IdleIsClean HeldPressFirst
PROPERTIES TranscribingEnds StopIsHeeded ReadAloudEnds
