SPECIFICATION Spec
CONSTANTS
  c1 = c1
  c2 = c2
  m1 = m1
  m2 = m2
  e1 = e1
  e2 = e2
  Connections = {c1, c2}
  Models = {m1, m2}
  ConnectionOf <- OneEach
  Cost <- DearerFirst
  Requests = {r1}
  Endpoints = {e1, e2}
  Keyless = {e2}
  Scripted = {e1}
  Free = {m1}
  Strategies = {"weighted", "lowest_cost", "lowest_latency"}
  Latencies = {1}
  Threshold = 1
  Bundles <- TwoBundles
  MaxRevision = 2
  None = None
INVARIANTS SentAsConfigured PlansAreComplete
CHECK_DEADLOCK FALSE
