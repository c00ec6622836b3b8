SPECIFICATION MCSpec
CONSTANTS
  e1 = e1  e2 = e2  bad = bad  cand = cand
  i1 = i1  i2 = i2  i3 = i3  i4 = i4  i5 = i5
  k1 = k1  k2 = k2  k3 = k3
  n1 = n1  n2 = n2  c1 = c1  c2 = c2
  Events = {e1, e2, bad}
  Invalid = {bad}
  Candidates = {}
  Ids = {i1, i2, i3, i4, i5}
  Keys = {k1, k2, k3}
  GatewayID <- MCGatewayID
  BodyID <- MCBodyID
  IdemKey <- MCIdemKey
  Clients = {c1, c2}
  Normalizers = {n1, n2}
  NoOwner = NoOwner
  UseTemporal = FALSE
  MaxRaw = 2
  MaxFaults = 1
  run1 = run1  run2 = run2  x = x  y = y
  Runs = {run1, run2}
  Symbols = {1, 2}
  MaxProviderAttempts = 2
  MaxProviderRequests = 2
  MaxStarts = 2
  MaxErrors = 1
  Assets = {x, y}
  Sessions = {1, 2, 3}
  Bars <- MCBars
  MaxJobs = 4
  MaxBreaks = 2
INVARIANTS AuditAgrees AcceptedIsRecorded PullsAreBounded SucceededIsComplete
PROPERTIES EventuallyAccountedFor TasksSettle
CHECK_DEADLOCK FALSE
