--------------------------- MODULE RepositoryKeys ---------------------------
(***************************************************************************)
(* The cache keys, tags and invalidations the decorator builds,            *)
(* repositorycache/decorator.go, as operators over abstract ids,           *)
(* identifier values and scope signatures.                                 *)
(*                                                                         *)
(* A serialized key ns::method::arg::signature is a record: its segments   *)
(* are kept apart, and the namespace, the same for the whole repository,   *)
(* is left out.  The zero scope signature adds no segment to a key.        *)
(***************************************************************************)
EXTENDS SequencesExt

CONSTANTS
  Ids,          \* record ids
  Identifiers,  \* values of identifier fields
  Scopes,       \* resolved scope signatures of a select
  NoScope,      \* the signature for which IsZero() holds
  NoArg,        \* the argument of a method that has none; an unset id
  Extends       \* {<<a, b>>}: the string a is a proper prefix of the string b

ASSUME NoScopeAssumption == NoScope \in Scopes
ASSUME NoArgAssumption   == NoArg \notin Ids \cup Identifiers

Key(method, arg, scope) == [method |-> method, arg |-> arg, scope |-> scope]

QueryMethods == {"Get", "List", "Count"}

AllKeys ==
  {Key(m, NoArg, s) : m \in QueryMethods, s \in Scopes}
  \cup {Key("GetByID", i, s) : i \in Ids, s \in Scopes}
  \cup {Key("GetByIdentifier", x, s) : x \in Identifiers, s \in Scopes}

Tag(label, value) == [label |-> label, value |-> value]

ListTag          == Tag("list", NoArg)
ScopeTag(s)      == Tag("scope", s)
IdTag(i)         == Tag("id", i)
IdentifierTag(x) == Tag("identifier", x)

AllTags == {ListTag} \cup {ScopeTag(s) : s \in Scopes}
           \cup {IdTag(i) : i \in Ids} \cup {IdentifierTag(x) : x \in Identifiers}

(* The tags a successful read registers its key under.                     *)
TagsOfRead(k) ==
  CASE k.method = "Get"              -> <<ScopeTag(k.scope)>>
    [] k.method \in {"List", "Count"} -> <<ListTag, ScopeTag(k.scope)>>
    [] k.method = "GetByID"          -> <<ScopeTag(k.scope), IdTag(k.arg)>>
    [] k.method = "GetByIdentifier"  -> <<ScopeTag(k.scope), IdentifierTag(k.arg)>>

-----------------------------------------------------------------------------
(* A record is its id, NoArg when none can be extracted, and the values of *)
(* its identifier fields, none when no field is configured or set.         *)
Record(i, xs) == [id |-> i, identifiers |-> xs]

(* (Faulty: the id is not tagged.)                                         *)
RecordTagsNoId(r) == [j \in DOMAIN r.identifiers |-> IdentifierTag(r.identifiers[j])]

RecordTags(r) ==
  (IF r.id = NoArg THEN <<>> ELSE <<IdTag(r.id)>>)
  \o [j \in DOMAIN r.identifiers |-> IdentifierTag(r.identifiers[j])]

AppendTag(ts, t)   == IF Contains(ts, t) THEN ts ELSE Append(ts, t)
AppendTags(ts, us) == FoldLeft(AppendTag, ts, us)

(* (Faulty: no scope tag.)                                                 *)
WriteInvalidationTagsUnscoped(s, rs) ==
  FoldLeft(LAMBDA ts, r : AppendTags(ts, RecordTags(r)), <<ListTag>>, rs)

WriteInvalidationTags(s, rs) ==
  FoldLeft(LAMBDA ts, r : AppendTags(ts, RecordTags(r)), <<ListTag, ScopeTag(s)>>, rs)

-----------------------------------------------------------------------------
(* Deletions.  methodPrefix(m, a) has no trailing separator, so it matches *)
(* every argument that begins with a; methodPrefixWithSeparator(m) matches *)
(* the keys of m that have a segment after the method.                     *)
DeleteKeyOf(m) == [scan |-> FALSE, keys |-> {Key(m, NoArg, NoScope)}]

DeletePrefix(m, a) ==
  [scan |-> TRUE,
   keys |-> {k \in AllKeys : k.method = m /\ (k.arg = a \/ <<a, k.arg>> \in Extends)}]

DeletePrefixWithSeparator(m) ==
  [scan |-> TRUE,
   keys |-> {k \in AllKeys : k.method = m /\ (k.arg # NoArg \/ k.scope # NoScope)}]

InvalidateRecordCaches(r) ==
  (IF r.id = NoArg THEN <<>> ELSE <<DeletePrefix("GetByID", r.id)>>)
  \o IF r.identifiers = <<>> THEN <<DeletePrefixWithSeparator("GetByIdentifier")>>
     ELSE [j \in DOMAIN r.identifiers |-> DeletePrefix("GetByIdentifier", r.identifiers[j])]

(* (Faulty: the keys made in a scope are left.)                            *)
InvalidateMethodUnscoped(m) == <<DeleteKeyOf(m)>>

InvalidateMethod(m) == <<DeleteKeyOf(m), DeletePrefixWithSeparator(m)>>

InvalidateQueries ==
  InvalidateMethod("Get") \o InvalidateMethod("List") \o InvalidateMethod("Count")

-----------------------------------------------------------------------------
(* The invalidateAfter... methods: the tags, and the fallback deletions.   *)
InvalidateAfterCreate(s, rs) ==
  [tags     |-> WriteInvalidationTags(s, rs),
   fallback |-> FlattenSeq([j \in DOMAIN rs |-> InvalidateRecordCaches(rs[j])])
                \o InvalidateQueries]

InvalidateAfterUpdate(s, r) ==
  [tags     |-> WriteInvalidationTags(s, <<r>>),
   fallback |-> InvalidateRecordCaches(r) \o InvalidateQueries]

InvalidateAfterCriteriaOperation(s) ==
  [tags     |-> <<ListTag, ScopeTag(s)>>,
   fallback |-> <<DeletePrefixWithSeparator("GetByID"),
                  DeletePrefixWithSeparator("GetByIdentifier")>>
                \o InvalidateMethod("List") \o InvalidateMethod("Count")
                \o InvalidateMethod("Get")]

(* Which of them a write method calls, in which order.  records are those  *)
(* the base repository returned; for a deletion, the record given.         *)
CreateMethods   == {"Create", "CreateTx", "GetOrCreate", "GetOrCreateTx",
                    "CreateMany", "CreateManyTx"}
UpdateMethods   == {"Update", "UpdateTx", "Upsert", "UpsertTx",
                    "Delete", "DeleteTx", "ForceDelete", "ForceDeleteTx",
                    "UpdateMany", "UpdateManyTx", "UpsertMany", "UpsertManyTx"}
CriteriaMethods == {"DeleteMany", "DeleteManyTx", "DeleteWhere", "DeleteWhereTx"}

PlanOfWrite(method, s, records) ==
  CASE method \in CreateMethods   -> <<InvalidateAfterCreate(s, records)>>
    [] method \in UpdateMethods   ->
         [j \in DOMAIN records |-> InvalidateAfterUpdate(s, records[j])]
    [] method \in CriteriaMethods -> <<InvalidateAfterCriteriaOperation(s)>>
=============================================================================
