\* Refreshes, evicted registries, failing calls and transactions, all at once.
SPECIFICATION SpecUnreliable
CONSTANTS
  p1 = p1
  p2 = p2
  Procs = {p1, p2}
  None = None
  Ids = {"u1", "u2"}
  Identifiers = {"nick"}
  Scopes = {"none", "tenant"}
  NoScope = "none"
  NoArg = "-"
  Extends = {}
  Keys <- OneKey
  Tags <- OneKeyTags
  Values <- MCValues
  ReadTags <- MCReadTags
  Writes = {"UpdateMany"}
  Plan <- MCPlan
  TagSupport = "failing"
  MaxWrites = 1
SYMMETRY Symmetry2
INVARIANTS
  UnreliableTypeOK
  StaleOnlyIfSlipped
  UnreliableInv
PROPERTIES
  CoverageLostOnlyBy
