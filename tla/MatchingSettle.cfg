\* A user and two jobs, two profile writes, no faults, liveness.
SPECIFICATION FairSpec
CONSTANTS
  None = None
  User = {u1}
  Job = {j1, j2}
  EmbedWorker = {e1}
  JobWorker = {f1}
  Overlap = TRUE
  MaxEdits = 2
  MaxPatches = 0
  MaxFaults = 0
  MaxStops = 0
INVARIANT NothingMissed
PROPERTY SubmitIsEmbedded
CHECK_DEADLOCK FALSE
