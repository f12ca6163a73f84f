\* Readers beside goroutines that set the scope defaults.
SPECIFICATION Spec
CONSTANTS
  Procs = {p1, p2, p3}
  Scopes = {none, tenant}
  Initial = none
  Defaulted = Defaulted
  Refreshes = TRUE
  None = None
INVARIANTS
  ScopeTypeOK
  DefaultsAgree
  MisalignedOnlyIfRaced
