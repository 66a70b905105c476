CONSTANTS
  r1 = r1  r2 = r2  a1 = a1  a2 = a2  k1 = k1  c1 = c1  c2 = c2
  u1 = u1  v1 = v1  v2 = v2
  tokenWindow = tokenWindow  spendQuota = spendQuota  tokenBucket = tokenBucket
  requestWindow = requestWindow
  userSlots = userSlots  targetSlots = targetSlots
  Unknown = Unknown
  Owner <- McOwner
  Metric <- McMetric
  Algorithm <- McAlgorithm
  ScopeKind <- McScopeKind
  ScopeId <- McScopeId
  PeriodLen <- McPeriodLen
  Refill <- McRefill
  Interval <- McInterval
  Rate <- McRate
  Requests = {r1}
  Attempts = {a1, a2}
  Keys = {k1}
  Connections = {c1}
  Policies = {tokenWindow, spendQuota}
  Settings <- LimitThree
  Prices = {v1, v2}
  Units = {1}
  Outcomes = {"succeeded"}
  Reported = {0, 1}
  Costs = {2}
  ReconciledCosts = {}
  Deltas <- McDeltas
  Grants <- AllGranted
  MaxTime = 1
  MaxCost = 2
  MaxOutbox = 4
SYMMETRY SymAttempts
SPECIFICATION Spec
INVARIANTS ReservedIsOutstanding PeriodsRestateUsage LedgerExplainsUsage
CHECK_DEADLOCK FALSE
