\* A rename while a summary of the recording is queued.
SPECIFICATION Spec
CONSTANTS
  None = None Worker = Worker Startup = Startup Timer = Timer
  r1 = r1 r2 = r2 t1 = t1 t2 = t2
  Recs = {r1}
  Tasks = {t1, t2}
  MaxAttempts = 2
  NetworkMax = 1
  MaxCrashes = 0
  Asks <- RenameAsks
  DiskFails = FALSE
  Patient = TRUE
INVARIANTS RenameKept
CHECK_DEADLOCK FALSE
