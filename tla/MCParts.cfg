\* Five components side by side, each on an instance of its own.
SPECIFICATION PartsSpec
CONSTANTS
  reply = reply  ack = ack  notice = notice  notice2 = notice2  Nobody = Nobody
  sender = sender  sender2 = sender2
  Replies = {reply}  Interims = {ack}  Notices = {notice, notice2}
  Repeats = {}
  MaxTurns = 2  MaxOwn = 1  MaxKept = 1  Senders = {sender, sender2}
  TurnBudgets <- Budgets
  MaxLaunches = 2  MaxPrompts = 2  ResumeAttempts = 2
  MaxRuns = 2  MaxTries = 2  MaxDeaths = 1
  Words = {word}  Hum = Hum  MaxChunks = 2  MaxReplays = 1
INVARIANTS
  PartsTyped
  QuietInMeeting
  DiskIsNewest ForgottenStays BoardAgrees ReplyOnce KeptIsForeign
  NotSentDoesNotRun
  OneProcess SweptFirst WorkedIsKnown
  TypedOnce KeepsTyped
PROPERTIES
  KeepsTheOutbox NeverStuck
  TurnsEnd WorkIsNotCutOff
  ResumeWaits OriginalKept StraysStop
  StoppedDies
  StreamEnds
\* Every budget runs out, and a stream ends.
CHECK_DEADLOCK FALSE
