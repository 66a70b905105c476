CONSTANTS
  r1 = r1  r2 = r2  a1 = a1  a2 = a2  k1 = k1  c1 = c1  c2 = c2
  u1 = u1  v1 = v1  v2 = v2
  tokenWindow = tokenWindow  spendQuota = spendQuota  tokenBucket = tokenBucket
  requestWindow = requestWindow
  userSlots = userSlots  targetSlots = targetSlots
  Unknown = Unknown
  Owner <- McOwner
  Metric <- McMetric
  Algorithm <- McAlgorithm
  ScopeKind <- McScopeKind
  ScopeId <- McScopeId
  PeriodLen <- McPeriodLen
  Refill <- McRefill
  Interval <- McInterval
  Rate <- McRate
  Requests = {r1, r2}
  Attempts = {a1, a2}
  Keys = {k1}
  Connections = {c1, c2}
  Policies = {requestWindow, userSlots, targetSlots, tokenBucket}
  Settings <- SwitchedBucket
  Prices = {}
  Units = {2}
  Outcomes = {"succeeded"}
  Reported = {}
  Costs = {}
  ReconciledCosts = {}
  Deltas = {}
  Grants <- AnyGranted
  MaxTime = 2
  MaxCost = 2
  MaxOutbox = 3
SYMMETRY Sym
SPECIFICATION Spec
INVARIANTS BucketNeverOvergrants RequestsCountOnce ConcurrencyIsBounded LeasesAreLive
PROPERTIES ClosedStaysClosed
CHECK_DEADLOCK FALSE
