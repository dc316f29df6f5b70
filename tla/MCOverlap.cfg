\* Two recordings, edits and summaries, and writes that fail.
SPECIFICATION Spec
CONSTANTS
  None = None Worker = Worker Startup = Startup Timer = Timer
  r1 = r1 r2 = r2 t1 = t1 t2 = t2
  Recs = {r1, r2}
  Tasks = {t1}
  MaxAttempts = 1
  NetworkMax = 0
  MaxCrashes = 0
  Asks <- EditAsks
  DiskFails = TRUE
  Patient = TRUE
SYMMETRY Renamings
INVARIANTS OneOwner CapturingIsLive
CHECK_DEADLOCK FALSE
