\* Services with tags and without: every write method over every cached read.
SPECIFICATION Spec
CONSTANTS
  Ids = {"u1", "u2"}
  Identifiers = {"ann", "bob"}
  Scopes = {"none", "tenant"}
  NoScope = "none"
  NoArg = "-"
  Extends = {}
  Order <- MCOrder
  Shows <- MCShows
  MaxWrites = 3
  Address = "0x"
  None = None
INVARIANTS
  FreshnessTypeOK
  WriterScopeFresh
  TagsLeaveOnlyGone
  FallbackLeavesOnlyGone
