\* Scopes whose data has unexported fields only: a point in time.
SPECIFICATION Spec
CONSTANTS
  Types <- MCTypes
  Methods = {"GetByID", "List"}
  Ids <- TimesIds
  Scopes <- Times
  TagLists <- MCTagLists
  Alphabet <- MCAlphabet
  Runes <- MCRunes
  Namespace <- MCNamespace
  Word <- MCWord
  ValueText <- SerializeValue
  MaxCalls = 2
  MaxResults = 2
INVARIANTS
  ScopesNeverShare
CHECK_DEADLOCK FALSE
