CONSTANTS
  r1 = r1  r2 = r2  a1 = a1  a2 = a2  k1 = k1  c1 = c1  c2 = c2  u1 = u1  v1 = v1  v2 = v2
  Unknown = Unknown
  Owner <- McOwner
  Metric <- NoPolicy
  Algorithm <- NoPolicy
  ScopeKind <- NoPolicy
  ScopeId <- NoPolicy
  PeriodLen <- NoPolicy
  Refill <- NoPolicy
  Interval <- NoPolicy
  Rate <- McRate
  Grants <- AllGranted
  Requests = {r1}
  Attempts = {a1, a2}
  Keys = {k1}
  Connections = {c1, c2}
  Policies = {}
  Settings <- NoPolicy
  Prices = {v1}
  Units = {1}
  Outcomes = {"succeeded"}
  Reported = {1}
  Costs = {}
  ReconciledCosts = {}
  Deltas <- McDeltas
  MaxTime = 0
  MaxCost = 2
  MaxOutbox = 8
  MaxEvents = 4
SPECIFICATION ProjectionFairSpec
INVARIANTS DailyExplainsAttempts NothingPoisonsTheQueue
PROPERTIES ProjectsExactlyOnce EventsAreDelivered
CHECK_DEADLOCK FALSE
