SPECIFICATION Spec
CONSTANTS
  e1 = e1  mild = mild  quiet = quiet  broken = broken  big = big  odd = odd
  Events = {e1, mild, big, quiet, broken, odd}
  Broken = {broken}
  Quiet = {quiet}
  Oversized = {big}
  Malformed = {odd}
  Mild = {mild}
  Decisions = {"acknowledged", "resolved"}
  MaxEvents = 2
  MaxAttempts = 2
  MaxInput = 4
  MaxSignals = 3
  MaxDecisions = 0
  MaxFaults = 1
INVARIANTS FailedSignalIsRetried
CHECK_DEADLOCK FALSE
