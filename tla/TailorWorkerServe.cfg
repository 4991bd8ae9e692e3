\* Liveness: a match enqueued up to twice, two faults that may repeat a command, no stop;
\* locks may expire.
SPECIFICATION FairSpec
CONSTANTS
  NoMatch = NoMatch
  MatchId = {m1}
  Worker = {w1, w2}
  Promising = {m1}
  MaxAttempts = 3
  LockOutlivesRun = FALSE
  Resends = TRUE
  MaxSends = 2
  MaxFaults = 2
  MaxStops = 0
INVARIANTS RetryBudget NoExtraCopies
PROPERTY QueuedMatchIsServed
CHECK_DEADLOCK FALSE
