\* Three repositories, two of types of one name, on one service with tags or without.
SPECIFICATION Spec
CONSTANTS
  Types <- MCTypes
  Methods = {"GetByID", "GetByIdentifier", "List"}
  Ids <- MCIds
  Scopes <- MCScopes
  TagLists <- MCTagLists
  Alphabet <- MCAlphabet
  Runes <- MCRunes
  Namespace <- MCNamespace
  Word <- MCWord
  ValueText <- SerializeValue
  MaxCalls = 3
  MaxResults = 2
INVARIANTS
  SharedTypeOK
  MixedUpOnlyByLookalikes
  CachedOnce
  TaggedIsRegistered
  SharedInv
PROPERTIES
  ReachesAsPlanned
CHECK_DEADLOCK FALSE
