SPECIFICATION MCSpec
CONSTANTS
  r1 = r1  r2 = r2  None = None  Foreign = Foreign  Invalid = Invalid
  Ids = {"i1", "i2"}
  Payloads = {"p1", "p2"}
  Relays = {r1, r2}
  Unpublishable <- MCUnpublishable
  PageSize = 2
  MaxMessages = 2
  MaxFaults = 1
  w1 = w1  w2 = w2
  Persisters = {w1, w2}
  Ports = {1, 2}
  Denies <- MCDenies
  Exposures <- MCExposures
  Rank <- MCRank
  MaxEpisodeSignals = 1
  Threshold = 2
  Window = 2
  MaxDeliveries = 0
  MaxChanges = 0
INVARIANTS FailedEventIsRetried
CHECK_DEADLOCK FALSE
