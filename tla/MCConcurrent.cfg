\* Two commands handled at once (the hotkey loop and an IPC client).
SPECIFICATION StreamingSpec
CONSTANTS
  None = None
  ReplyLoop = replies
  h1 = h1 h2 = h2 s1 = s1 s2 = s2 u1 = u1 u2 = u2
  Handlers <- TwoHandlers
  Sessions <- TwoSessions
  Speeches <- TwoSpeeches
  CommandKinds <- VoiceKind
SYMMETRY Symmetry
INVARIANTS ReadAloudOwned CancelIsFinal
