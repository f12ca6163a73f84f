-------------------------- MODULE RecordFreshness --------------------------
(***************************************************************************)
(* How far the invalidations of the decorator reach: one caller at a time, *)
(* but real records with identifiers, every read method in several scopes, *)
(* every write method, and the keys and tags RepositoryKeys derives from   *)
(* repositorycache/decorator.go.                                           *)
(*                                                                         *)
(* With one caller a read is one step: its result is cached and its key    *)
(* registered before anything else happens.  So is a write.  So a cached   *)
(* result is stale only when no invalidation was aimed at its key.         *)
(*                                                                         *)
(* What is cached under one key affects neither another key nor the base   *)
(* repository, so it is enough to follow one key, any of them.             *)
(***************************************************************************)
EXTENDS RepositoryKeys, Integers, FiniteSets

CONSTANTS
  Order,      \* the ids in the order the database finds the records
  Shows,      \* [Scopes -> SUBSET Ids]: the records a scope lets through
  MaxWrites,  \* bound: the number of writes
  Address,    \* the text of a pointer
  None        \* no record, nothing cached

ASSUME OrderAssumption == Order \in Seq(Ids) /\ Range(Order) = Ids
ASSUME AddressAssumption == Address \notin Ids \cup {NoArg}
ASSUME ShowsAssumption == Shows \in [Scopes -> SUBSET Ids]
ASSUME WritesAssumption == MaxWrites \in Nat

VARIABLES
  rows,     \* the base repository's table: [Ids -> a row or None] (external)
  writes,   \* the number of writes so far
  key,      \* the key followed
  entry,    \* what is cached under it: an answer or None
  writer,   \* the scope the last write was made in, None before the first
  idField,  \* the record type's field ID or Id: a value, a pointer, or neither
  hasIdentifiers, \* are there identifier fields, given or derived
  hasTags   \* does the service implement cache.TagRegistry

(* What an instance is made with, or follows, never changes.               *)
chosen == <<key, idField, hasIdentifiers, hasTags>>
vars   == <<rows, writes, entry, writer, chosen>>

Rows == [nick : Identifiers, revision : 0..MaxWrites]

Visible == {i \in Shows[key.scope] : rows[i] # None}
Matches == {i \in Visible : CASE key.method = "GetByID" -> i = key.arg
                             [] key.method = "GetByIdentifier" -> rows[i].nick = key.arg
                             [] OTHER -> TRUE}
First   == LET n == SelectInSeq(Order, LAMBDA i : i \in Matches)
           IN IF n = 0 THEN {} ELSE {Order[n]}

(* What the base repository returns to the read: a number or some records. *)
Answer ==
  CASE key.method = "Count" -> Cardinality(Matches)
    [] key.method = "Get"   -> [i \in First |-> rows[i]]
    [] OTHER                -> [i \in Matches |-> rows[i]]

(* A read of one record that finds none is an error, which is not cached.  *)
Found == key.method \in {"List", "Count"} \/ Matches # {}

Table == [Ids -> Rows \cup {None}]

FreshnessTypeOK ==
  /\ rows \in Table
  /\ writes \in 0..MaxWrites
  /\ key \in AllKeys
  /\ entry # None =>
       IF key.method = "Count" THEN entry \in 0..Cardinality(Shows[key.scope])
       ELSE /\ \E ids \in SUBSET Shows[key.scope] : entry \in [ids -> Rows]
            /\ key.method # "List" => Cardinality(DOMAIN entry) = 1
  /\ writer \in Scopes \cup {None}
  /\ idField \in {"value", "pointer", "none"}
  /\ hasIdentifiers \in BOOLEAN
  /\ hasTags \in BOOLEAN

(* The decorator starts over a table with any content, identifiers unique. *)
Init ==
  /\ rows \in {table \in Table : \A i \in Ids : table[i] # None =>
                  /\ table[i].revision = 0
                  /\ \A j \in Ids \ {i} : table[j] # table[i]}
  /\ writes = 0
  /\ key \in AllKeys
  /\ entry  = None
  /\ writer = None
  /\ idField \in {"value", "pointer", "none"}
  /\ hasIdentifiers \in BOOLEAN
  /\ hasTags \in BOOLEAN

-----------------------------------------------------------------------------
(* Get, GetByID, List, Count and GetByIdentifier without criteria.         *)
(* (The first form, a slip, caches what a failed read returns.)            *)
ReadMissUnchecked ==
  /\ entry = None
  /\ entry' = Answer
  /\ UNCHANGED <<rows, writes, writer, chosen>>

ReadMiss ==
  /\ entry = None
  /\ Found
  /\ entry' = Answer
  /\ UNCHANGED <<rows, writes, writer, chosen>>

ReadFails == entry = None /\ ~Found /\ UNCHANGED vars

ReadHit == entry # None /\ UNCHANGED vars

(* Tags reach the keys registered under one of them; a fallback reaches    *)
(* the keys its deletions match.                                           *)
Reaches(invalidation) ==
  IF hasTags THEN Range(invalidation.tags) \cap Range(TagsOfRead(key)) # {}
  ELSE \E d \in Range(invalidation.fallback) : key \in d.keys

(* A write in scope s: the base repository's changes, then the plan.       *)
Write(method, s, newRows, records) ==
  /\ writes < MaxWrites
  /\ writes' = writes + 1
  /\ writer' = s
  /\ rows' = newRows
  /\ entry' = IF \E n \in Range(PlanOfWrite(method, s, records)) : Reaches(n)
              THEN None ELSE entry
  /\ UNCHANGED chosen

(* extractID formats the field as it is: a pointer as an address, which is *)
(* not the id, while extractIdentifierValues follows pointers.             *)
ExtractID(i) ==
  CASE idField = "value" -> i [] idField = "pointer" -> Address [] idField = "none" -> NoArg
Extracted(i, xs) == Record(ExtractID(i), xs)

Row(x)           == [nick |-> x, revision |-> writes + 1]
Given(x)         == IF hasIdentifiers THEN <<x>> ELSE <<>>
Taken(x, others) == \E i \in others : rows[i] # None /\ rows[i].nick = x
Unique(table)    ==
  \A i, j \in Ids :
    table[i] # None /\ table[j] # None /\ table[i].nick = table[j].nick => i = j

(* Create, GetOrCreate of a record not there yet, Upsert of a new one.     *)
CreateRecord(s, i, x) ==
  /\ rows[i] = None
  /\ ~Taken(x, Ids)
  /\ \E method \in {"Create", "GetOrCreate", "Upsert"} :
       Write(method, s, [rows EXCEPT ![i] = Row(x)], <<Extracted(i, Given(x))>>)

(* GetOrCreate of a record that is there invalidates all the same.         *)
GetExisting(s, i) ==
  /\ rows[i] # None
  /\ Write("GetOrCreate", s, rows, <<Extracted(i, Given(rows[i].nick))>>)

(* The record returned by an update has its new identifier only.           *)
UpdateRecord(s, i, x) ==
  /\ rows[i] # None
  /\ ~Taken(x, Ids \ {i})
  /\ Write("Update", s, [rows EXCEPT ![i] = Row(x)], <<Extracted(i, Given(x))>>)

(* CreateMany, UpdateMany and UpsertMany of the records ids, which have    *)
(* the identifiers names from now on.                                      *)
ChangeRecords(s, ids, names) ==
  LET list    == SetToSeq(ids)
      newRows == [i \in Ids |-> IF i \in ids THEN Row(names[i]) ELSE rows[i]]
  IN /\ ids # {}
     /\ Unique(newRows)
     /\ \E method \in {"CreateMany", "UpdateMany", "UpsertMany"} :
          /\ method = "CreateMany" => \A i \in ids : rows[i] = None
          /\ method = "UpdateMany" => \A i \in ids : rows[i] # None
          /\ Write(method, s, newRows,
                   [j \in DOMAIN list |-> Extracted(list[j], Given(names[list[j]]))])

(* Delete and ForceDelete invalidate for the record they are given, which  *)
(* may have its id alone.                                                  *)
DeleteRecord(s, i) ==
  /\ rows[i] # None
  /\ \E xs \in {<<>>, Given(rows[i].nick)} :
       Write("Delete", s, [rows EXCEPT ![i] = None], <<Extracted(i, xs)>>)

(* DeleteMany and DeleteWhere of the records that meet some criteria.      *)
DeleteRecords(s, ids) ==
  Write("DeleteWhere", s, [i \in Ids |-> IF i \in ids THEN None ELSE rows[i]], <<>>)

Next ==
  \/ ReadMiss \/ ReadFails \/ ReadHit
  \/ \E s \in Scopes :
       \/ \E i \in Ids :
            \/ \E x \in Identifiers : CreateRecord(s, i, x) \/ UpdateRecord(s, i, x)
            \/ GetExisting(s, i) \/ DeleteRecord(s, i)
       \/ \E ids \in SUBSET Ids :
            \/ DeleteRecords(s, ids)
            \/ \E names \in [ids -> Identifiers] : ChangeRecords(s, ids, names)

Spec == Init /\ [][Next]_vars

-----------------------------------------------------------------------------
Stale == entry # None /\ entry # Answer

(* With tags, a caller that goes on in the scope it wrote in never sees    *)
(* data from before its write: the write's scope tag is on every key of    *)
(* the scope.                                                              *)
WriterScopeFresh ==
  hasTags /\ key.scope = writer => ~Stale

(* With tags, what stays cached in other scopes is stale only if it is     *)
(* Get's record or a record that no longer answers the read, having been   *)
(* deleted or renamed: never the old state of one that does, never a list  *)
(* or a count.  (Without identifiers GetByIdentifier is never reached, nor *)
(* GetByID when the id is not in a field ID or Id or is a pointer there.)  *)
TagsLeaveOnlyGone ==
  hasTags /\ Stale =>
    \/ key.method = "Get"
    \/ key.method \in {"GetByID", "GetByIdentifier"} /\ Matches = {}
    \/ key.method = "GetByIdentifier" /\ ~hasIdentifiers
    \/ key.method = "GetByID" /\ idField # "value"

(* Without tags every scope is reached, and only the old identifier of a   *)
(* record renamed or deleted can stay behind, and the ids that extractID   *)
(* does not give: these even in the scope of the write.                    *)
FallbackLeavesOnlyGone ==
  ~hasTags /\ Stale =>
    \/ hasIdentifiers /\ key.method = "GetByIdentifier" /\ Matches = {}
    \/ key.method = "GetByID" /\ idField # "value"

(* README, Cache Invalidation: "registers read keys under scope, ID,       *)
(* identifier, and list tags, then invalidates those tags after            *)
(* creates/updates/deletes"; decorator.go: "invalidateAfterUpdate          *)
(* invalidates all relevant caches after update operations".  So a record  *)
(* that is gone is not read by its id any more, nor one that was renamed   *)
(* by its old identifier.                                                  *)
GoneNotServed ==
  idField = "value" /\ entry # None =>
    /\ key.method = "GetByID" => rows[key.arg] # None
    /\ key.method = "GetByIdentifier" =>
         \A i \in DOMAIN entry : rows[i] # None => rows[i].nick = key.arg
=============================================================================
