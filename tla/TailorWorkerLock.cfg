\* One match delivered once or twice to two workers, with one fault and one stop.
SPECIFICATION Spec
CONSTANTS
  NoMatch = NoMatch
  MatchId = {m1}
  Worker = {w1, w2}
  Promising = {m1}
  MaxAttempts = 2
  LockOutlivesRun = TRUE
  Resends = FALSE
  MaxSends = 2
  MaxFaults = 1
  MaxStops = 1
SYMMETRY WorkerSymmetry
INVARIANTS TypeOK OneTailorer AtMostOneApplication OutcomesAreTrue
PROPERTIES ImplementsService CompletedIsFinal ApplicationsStay
CHECK_DEADLOCK FALSE
