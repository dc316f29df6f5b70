\* A command's first press and another press at once, with a batch backend.
SPECIFICATION BatchFairSpec
CONSTANTS
  None = None
  ReplyLoop = replies
  h1 = h1 h2 = h2 s1 = s1 s2 = s2 u1 = u1 u2 = u2
  Handlers <- TwoHandlers
  Sessions <- TwoSessions
  Speeches <- OneSpeech
  CommandKinds <- OneKind
PROPERTY TranscribingEnds
