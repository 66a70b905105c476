CONSTANTS
  r1 = r1  r2 = r2  a1 = a1  a2 = a2  k1 = k1  c1 = c1  u1 = u1
  Unknown = Unknown
  Requests = {r1, r2}
  Attempts = {a1, a2}
  Keys = {k1}
  Connections = {c1}
  Owner <- McOwner
  Policies = {}
  Metric <- None
  Algorithm <- None
  ScopeKind <- None
  ScopeId <- None
  PeriodLen <- None
  Refill <- None
  Interval <- None
  Settings <- None
  Prices = {}
  Rate <- None
  Units = {0}
  Outcomes = {"succeeded", "failed", "cancelled", "interrupted_unknown"}
  Reported = {}
  Costs = {}
  ReconciledCosts = {}
  Deltas = {}
  Grants <- McGrants
  MaxTime = 0
  MaxCost = 0
  MaxOutbox = 10
  MaxPollFailures = 2
  Key = k1
  Target = c1
  RequestOf <- McRequestOf
  AttemptOf <- McAttemptOf
  MaxJobs = 2
  Driver <- McDrivers
  WorkerRestarts = TRUE
  MaxCrashes = 1
SPECIFICATION MediaFairSpec
INVARIANTS SubmittedOnce JobAgreesWithAttempt
PROPERTIES ClosedJobIsFinal UninterruptedJobsEnd
CHECK_DEADLOCK FALSE
