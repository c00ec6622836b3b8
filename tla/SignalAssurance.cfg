SPECIFICATION MCSpec
CONSTANTS
  prop1 = prop1  prop2 = prop2  key1 = key1  x = x  y = y
  Proposals = {prop1, prop2}
  Overlaps <- MCOverlaps
  ClientKeys = {key1}
  Requests = {1, 2}
  MaxRequests = 3
  MaxDecisions = 2
  MaxFaults = 1
  Signals = {x, y}
  Confirmed <- MCConfirmed
  Closes <- MCCloses
  Horizon = 2
  AsOf = {2, 4}
  Workers = {1, 2}
  Relays = {1, 2}
  PageSize = 2
  MaxMessages = 2
  MaxRuns = 2
  MaxBreaks = 1
  MaxDay = 3
  Origins = {1}
  Horizons = {1, 2}
  OutcomeRuns = {1, 2}
  MaxPrices = 3
  MaxVerdicts = 2
  MaxStops = 1
INVARIANTS MaterializationsAgree OutcomeIsDecidedOnce WindowsAreSessions FiguresFitDirection
PROPERTIES ImplementsOutbox OutboxIsEmptied OutcomesProgress PathIsMeasured
CHECK_DEADLOCK FALSE
