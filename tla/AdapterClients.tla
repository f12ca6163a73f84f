--------------------------- MODULE AdapterClients ---------------------------
(***************************************************************************)
(* SturdycAdapter under clients that call it as they like: any method, any *)
(* key, any tags, at any time.  The decorator is one such client; others   *)
(* share the service through the container or use it directly.             *)
(***************************************************************************)
EXTENDS SturdycAdapter

CONSTANTS
  TagLists,   \* the lists of tags clients give
  KeySets     \* the sets of keys they delete, by a prefix or key by key

ASSUME ClientsAssumption == TagLists \subseteq Seq(Tags) /\ KeySets \subseteq SUBSET Keys

VARIABLES
  adding,    \* the tags of each goroutine's AddTags
  kept,      \* history: [Tags -> SUBSET Keys], the registrations that finished
             \* and whose key no InvalidateTags of the tag has deleted since
  owed       \* history: the results each call has promised to remove and that
             \* have been there ever since it began

vars == <<shared, locals, adding, kept, owed>>

ClientsTypeOK ==
  /\ AdapterTypeOK
  /\ adding \in [Procs -> Seq(Tags)]
  /\ kept \in [Tags -> SUBSET Keys]
  /\ owed \in [Procs -> SUBSET Keys]

Init ==
  /\ AdapterInit
  /\ adding = [p \in Procs |-> <<>>]
  /\ kept   = [t \in Tags |-> {}]
  /\ owed   = [p \in Procs |-> {}]

(* A call of p that is to remove the results under ks begins; and a step   *)
(* of any other kind.  A result once gone is owed no more.                 *)
Promise(p, ks) ==
  owed' = [q \in Procs |-> {k \in (IF q = p THEN ks ELSE owed[q]) : entries'[k] # None}]
NoPromise == owed' = [q \in Procs |-> {k \in owed[q] : entries'[k] # None}]

-----------------------------------------------------------------------------
GetOrFetch(p, k, valid) ==
  /\ at[p] = "idle"
  /\ CallGetOrFetch(p, k, valid)
  /\ NoPromise
  /\ UNCHANGED <<adding, kept>>

Fetched(p, v) == FetchReturns(p, v) /\ NoPromise /\ UNCHANGED <<adding, kept>>

AddTags(p, k, ts) ==
  /\ at[p] = "idle"
  /\ CallAddTags(p, k, ts)
  /\ adding' = [adding EXCEPT ![p] = ts]
  /\ NoPromise
  /\ UNCHANGED kept

Added(p) ==
  /\ UnlockAdded(p)
  /\ kept' = [t \in Tags |-> IF t \in Elems(adding[p]) THEN kept[t] \cup {key[p]} ELSE kept[t]]
  /\ NoPromise
  /\ UNCHANGED adding

InvalidateTags(p, ts) ==
  /\ at[p] = "idle"
  /\ CallInvalidateTags(p, ts)
  /\ Promise(p, UNION {kept[t] : t \in Elems(ts)})
  /\ UNCHANGED <<adding, kept>>

Sweep(p, k) ==
  /\ SweepKey(p, k)
  /\ kept' = [kept EXCEPT ![Head(todo[p])] = @ \ {k}]
  /\ NoPromise
  /\ UNCHANGED adding

Delete(p, k) ==
  /\ at[p] = "idle"
  /\ CallDelete(p, k)
  /\ Promise(p, {k})
  /\ UNCHANGED <<adding, kept>>

DeleteByPrefix(p, ks) ==
  at[p] = "idle" /\ CallDeleteByPrefix(p, ks) /\ Promise(p, ks) /\ UNCHANGED <<adding, kept>>

InvalidateKeys(p, ks) ==
  at[p] = "idle" /\ CallInvalidateKeys(p, ks) /\ Promise(p, ks) /\ UNCHANGED <<adding, kept>>

GetBack(p) ==
  /\ at[p] # "idle"
  /\ Return(p)
  /\ adding' = [adding EXCEPT ![p] = <<>>]
  /\ Promise(p, {})
  /\ UNCHANGED kept

OtherStep(p) ==
  /\ \/ GetOrFetchStep(p) \/ DeleteStep(p)
     \/ LockToAdd(p) \/ AddTag(p)
     \/ LockToInvalidate(p) \/ LoadRegistry(p) \/ DropRegistry(p) \/ UnlockInvalidated(p)
  /\ NoPromise
  /\ UNCHANGED <<adding, kept>>

EntryGone(k) == EvictEntry(k) /\ NoPromise /\ UNCHANGED <<adding, kept>>

ClientStep(p) ==
  \/ \E k \in Keys :
       \/ \E valid \in BOOLEAN : GetOrFetch(p, k, valid)
       \/ \E ts \in TagLists : AddTags(p, k, ts)
       \/ Sweep(p, k) \/ Delete(p, k)
  \/ \E ts \in TagLists : InvalidateTags(p, ts)
  \/ \E ks \in KeySets : DeleteByPrefix(p, ks) \/ InvalidateKeys(p, ks)
  \/ \E v \in Values : Fetched(p, v)
  \/ Added(p) \/ GetBack(p) \/ OtherStep(p)

Next == (\E k \in Keys : EntryGone(k)) \/ \E p \in Procs : ClientStep(p)

Spec == Init /\ [][Next]_vars

-----------------------------------------------------------------------------
(* A registration that AddTags has made is there until InvalidateTags has  *)
(* deleted its key: neither a concurrent AddTags, which loads a registry,  *)
(* changes it and sets it back, nor an InvalidateTags that loaded the      *)
(* registry before, and drops it after, loses it.                          *)
RegistrationsKept == \A t \in Tags : kept[t] \subseteq registry[t]

(* When Delete, InvalidateKeys, DeleteByPrefix or InvalidateTags returns,  *)
(* every result it was asked to remove, those registered under the tags    *)
(* when it was called included, has been gone at some time since then,     *)
(* whoever else deleted, fetched, registered or evicted meanwhile.         *)
RemovalsDone == \A p \in Procs : at[p] = "done" => owed[p] = {}

-----------------------------------------------------------------------------
(* The inductive invariant, goroutine by goroutine: who holds tagMu and    *)
(* has a key at hand,                                                      *)
ControlOK(p) ==
  /\ at[p] \in {"adding", "invalidating", "sweep"} <=> tagMu = p
  /\ at[p] \in Fetching \cup AddingTags => key[p] \in Keys

(* which of its tags an AddTags has registered its key under,              *)
RegisteringOK(p) ==
  /\ at[p] = "addLock" => todo[p] = adding[p]
  /\ at[p] = "adding" => \A t \in Elems(adding[p]) : t \in Elems(todo[p]) \/ key[p] \in registry[t]

(* what a sweep has still to delete before its registry may go,            *)
SweepingOK(p) == at[p] = "sweep" => todo[p] # <<>> /\ kept[Head(todo[p])] \subseteq doomed[p]

(* and where a call finds each of the results that it owes.                *)
ListedIn(k, ts) == \E t \in Elems(ts) : k \in kept[t]

OwedOK(p) ==
  \A k \in owed[p] :
    /\ at[p] \in Invalidating \cup Deleting
    /\ at[p] \in Deleting => k \in doomed[p]
    /\ at[p] \in {"invLock", "invalidating"} => ListedIn(k, todo[p])
    /\ at[p] = "sweep" => k \in doomed[p] \/ ListedIn(k, Tail(todo[p]))

(* ClientsTypeOK, RegistrationsKept and RemovalsDone all follow from it.   *)
ClientsInvariant ==
  /\ ClientsTypeOK
  /\ RegistrationsKept
  /\ \A p \in Procs : ControlOK(p) /\ RegisteringOK(p) /\ SweepingOK(p) /\ OwedOK(p)
=============================================================================
