\* Every method returns, and reads keep what the abstract cache promises, under fair scheduling and a starvation-free mutex.
SPECIFICATION FairSpec
CONSTANTS
  p1 = p1
  p2 = p2
  Procs = {p1, p2}
  None = None
  Ids = {"u1", "u2"}
  Identifiers = {"nick"}
  Scopes = {"none", "tenant"}
  NoScope = "none"
  NoArg = "-"
  Extends = {}
  Keys <- OneKey
  Tags <- OneKeyTags
  Values <- MCValues
  ReadTags <- MCReadTags
  Writes = {"UpdateMany"}
  Plan <- MCPlan
  TagSupport = "failing"
  MaxWrites = 2
INVARIANTS
  ReadsSeeFinishedWrites
PROPERTIES
  MethodsReturn
  KeepsPromise
