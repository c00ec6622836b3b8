SPECIFICATION MCSpec
CONSTANTS
  j1 = j1  j2 = j2  w1 = w1  w2 = w2
  Jobs = {j1, j2}
  Workers = {w1, w2}
  MaxRow = 5
  Undecodable = {5}
  MaxRecords = 4
  BatchSize = 2
  PublishMaxAttempts = 2
  MaxFaults = 2
INVARIANTS OneExecutor BoundedAmplification CancelStopsPublishing SucceededIsComplete
PROPERTIES OutcomeIsFinal ReplaySettles
CHECK_DEADLOCK FALSE
