\* Records deleted by criteria, and records whose identifier is changed.
SPECIFICATION Spec
CONSTANTS
  Ids = {"u1", "u2"}
  Identifiers = {"ann", "bob"}
  Scopes = {"none", "tenant"}
  NoScope = "none"
  NoArg = "-"
  Extends = {}
  Order <- MCOrder
  Shows <- MCShows
  MaxWrites = 3
  Address = "0x"
  None = None
INVARIANTS
  GoneNotServed
