CONSTANTS
  r1 = r1  a1 = a1  a2 = a2  k1 = k1  c1 = c1  c2 = c2  u1 = u1
  Unknown = Unknown
  Owner <- McOwner
  Metric <- NoPolicy
  Algorithm <- NoPolicy
  ScopeKind <- NoPolicy
  ScopeId <- NoPolicy
  PeriodLen <- NoPolicy
  Refill <- NoPolicy
  Interval <- NoPolicy
  Settings <- NoPolicy
  Rate <- NoPolicy
  Forms <- McForms
  Targets <- McTargets
  AttemptOf <- McAttemptOf
  Key = k1
  Requests = {r1}
  Attempts = {a1, a2}
  Keys = {k1}
  Connections = {c1, c2}
  Policies = {}
  Prices = {}
  Units = {1}
  Outcomes = {}
  Reported = {}
  Costs = {}
  ReconciledCosts = {}
  Deltas = {}
  Grants <- AllGranted
  MaxTime = 0
  MaxCost = 0
  MaxOutbox = 9
  SearchCalls = 3
  SearchOutput = 4
  SearchInput = 1
  SearchResult = 2
  Client = "responses"
  MaxPayloads = 4
  MaxDeferred = 1
  MaxRevision = 1
  MaxCrashes = 1
SPECIFICATION ForwardSpec
INVARIANTS AnswerAgreesWithRecord SentIsNeverReleased TurnsAreNotFailed SearchWithinReservation
PROPERTIES TranslatedIsFaithful NoAttemptAfterBytes RequestsClose
