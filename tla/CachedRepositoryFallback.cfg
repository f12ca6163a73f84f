\* Two keys, bulk writes, and an InvalidateTags that may fail: each invalidation goes by tags or key by key.
SPECIFICATION Spec
CONSTANTS
  p1 = p1
  p2 = p2
  Procs = {p1, p2}
  None = None
  Ids = {"u1", "u2"}
  Identifiers = {"nick"}
  Scopes = {"none", "tenant"}
  NoScope = "none"
  NoArg = "-"
  Extends = {}
  Keys <- TwoKeys
  Tags <- TwoKeyTags
  Values <- MCValues
  ReadTags <- MCReadTags
  Writes = {"UpdateMany"}
  Plan <- MCPlan
  TagSupport = "failing"
  MaxWrites = 2
SYMMETRY Symmetry2
INVARIANTS
  TypeOK
  TagCoverage
  StaleOnlyIfRaced
  IInv
