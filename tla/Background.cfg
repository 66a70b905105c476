SPECIFICATION BackgroundSpec
CONSTANTS
  r1 = r1
  r2 = r2
  m = m
  o = o
  k1 = k1
  k2 = k2
  Responses = {r1}
  MessageBatches = {m}
  OpenAIBatches = {o}
  Total = 1
  KeyOf <- MCKeyOf
  OwnerOf <- MCOwnerOf
  MaxJobs = 2
  MaxOwnerJobs = 2
  MaxKeyJobs = 2
  MaxSubmissions = 2
  MaxEdits = 1
  MaxCrashes = 1
INVARIANTS ProviderCalledOnce CancelReachesTheWorker TurnsAreConsistent EndedBatchIsExplained
PROPERTIES QueuedWorkEnds
