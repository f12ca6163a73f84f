\* Three clients that register, invalidate, delete and fetch as they like.
SPECIFICATION Spec
CONSTANTS
  p1 = p1
  p2 = p2
  p3 = p3
  k1 = k1
  k2 = k2
  Procs = {p1, p2, p3}
  Keys = {k1, k2}
  Tags = {"t1", "t2"}
  None = None
  Values = {v}
  TagLists <- MCTagLists
  KeySets <- MCKeySets
SYMMETRY Symmetry
INVARIANTS
  ClientsTypeOK
  RegistrationsKept
  RemovalsDone
  ClientsInvariant
