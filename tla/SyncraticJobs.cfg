SPECIFICATION MCSpec
CONSTANTS
  r1 = r1  w1 = w1  w2 = w2
  Runners = {r1}
  Workers = {w1, w2}
  Bare = {1}
  MaxDigest = 2
  MaxAttempts = 2
  MaxFaults = 1
  MaxCrashes = 1
INVARIANTS AsksWithinAttempts OverviewIsCurrent
PROPERTIES BriefSettlesOrLost
CHECK_DEADLOCK FALSE
