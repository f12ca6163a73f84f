\* One goroutine reads while another sets the scope defaults.
SPECIFICATION Spec
CONSTANTS
  Procs = {p1, p2}
  Scopes = {none, tenant}
  Initial = none
  Defaulted = Defaulted
  Refreshes = FALSE
  None = None
INVARIANTS
  KeysAligned
