\* One recording through crashes, shutdowns, retries and the network.
SPECIFICATION FairSpec
CONSTANTS
  None = None Worker = Worker Startup = Startup Timer = Timer
  r1 = r1 r2 = r2 t1 = t1 t2 = t2
  Recs = {r1}
  Tasks = {t1}
  MaxAttempts = 2
  NetworkMax = 1
  MaxCrashes = 3
  Asks <- QueueAsks
  DiskFails = FALSE
  Patient = TRUE
INVARIANTS TypeOK NothingForgotten WaitingIsWatched FairCount CrashLoopEnds
PROPERTIES KeepsItsPromises
CHECK_DEADLOCK FALSE
