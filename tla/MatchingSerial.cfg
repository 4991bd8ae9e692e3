\* One pair, two submits and two settings changes that do not overlap the matchers, one fault, one crash.
SPECIFICATION Spec
CONSTANTS
  None = None
  User = {u1}
  Job = {j1}
  EmbedWorker = {e1, e2}
  JobWorker = {f1}
  Overlap = FALSE
  MaxEdits = 2
  MaxPatches = 2
  MaxFaults = 1
  MaxStops = 1
SYMMETRY EmbedSymmetry
INVARIANTS QueuedOnce PendingIsCurrent SettingsKept
CHECK_DEADLOCK FALSE
