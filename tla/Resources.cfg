CONSTANTS
  k1 = k1  u1 = u1  f1 = f1  m1 = m1  s1 = s1  x1 = x1  g1 = g1  n1 = n1
  None = None
  Keys = {k1}
  UserOf <- OneOwner
  Files = {f1}
  Uploads = {m1}
  Stores = {s1}
  Kept = {x1}
  GeminiUploads = {g1}
  Names = {n1}
  Data <- TwoBytes
  Sizes = {1, 2}
  Days = {2}
  FileLife = 1
  UploadLife = 1
  KeyRows = 3
  KeyBytes = 3
  OwnerRows = 3
  OwnerBytes = 3
  AllRows = 3
  AllBytes = 3
  MaxParts = 2
  MaxTime = 2
  Waits = {0, 1}
SPECIFICATION ResourcesSpec
INVARIANT GeminiFilesAreComplete
PROPERTY BudgetIsKept
CHECK_DEADLOCK FALSE
