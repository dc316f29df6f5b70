\* A toggle on a command recording.
SPECIFICATION Spec
CONSTANTS
  None = None
  ReplyLoop = replies
  h1 = h1 h2 = h2 s1 = s1 s2 = s2 u1 = u1 u2 = u2
  Handlers <- OneHandler
  Sessions <- TwoSessions
  Speeches <- OneSpeech
  CommandKinds <- OneKind
INVARIANTS StopPressGetsTheAudio
