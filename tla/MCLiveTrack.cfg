\* A retry while the stop of the recording is not finished.
SPECIFICATION Spec
CONSTANTS
  None = None Worker = Worker Startup = Startup Timer = Timer
  r1 = r1 r2 = r2 t1 = t1 t2 = t2
  Recs = {r1}
  Tasks = {t1}
  MaxAttempts = 2
  NetworkMax = 1
  MaxCrashes = 0
  Asks <- RepairAsks
  DiskFails = FALSE
  Patient = FALSE
INVARIANTS LiveTrackUntouched
CHECK_DEADLOCK FALSE
