\* Writes in a caller's transaction: the decorator invalidates before the caller commits.
SPECIFICATION SpecTx
CONSTANTS
  p1 = p1
  p2 = p2
  Procs = {p1, p2}
  None = None
  Ids = {"u1", "u2"}
  Identifiers = {"nick"}
  Scopes = {"none", "tenant"}
  NoScope = "none"
  NoArg = "-"
  Extends = {}
  Keys <- OneKey
  Tags <- OneKeyTags
  Values <- MCValues
  ReadTags <- MCReadTags
  Writes = {"Update"}
  Plan <- MCPlan
  TagSupport = "full"
  MaxWrites = 1
INVARIANTS
  StaleOnlyIfRaced
