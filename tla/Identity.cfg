SPECIFICATION Spec
CONSTANTS
  Users = {u1, u2}
  Keys = {k1}
  Scopes = {chat}
  Handlers = {h1, h2, h3}
  Slots = 2
  MaxFailures = 1
  MaxRevisions = 5
  MaxCodes = 1
  None = None
SYMMETRY Symmetric
INVARIANTS OneOwner SessionsAreCurrent KeysWithinCeiling
CHECK_DEADLOCK FALSE
