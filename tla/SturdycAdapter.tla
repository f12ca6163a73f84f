--------------------------- MODULE SturdycAdapter ---------------------------
(***************************************************************************)
(* The default cache service, internal/cacheinfra/sturdyc_adapter.go: a    *)
(* sturdyc client wrapped with tag registries kept in the same cache and   *)
(* guarded by one mutex.  Goroutines call the service concurrently; every  *)
(* call is a sequence of steps, one per access to the shared state.        *)
(*                                                                         *)
(* The sturdyc client itself is external: a get, a set and a delete of one *)
(* key are atomic, a scan returns the keys present at one instant, and a   *)
(* miss is fetched by one caller per key while the others wait for it.     *)
(*                                                                         *)
(* Keys and tags are abstract.  A tag's registry is stored by the code     *)
(* under the cache key "tag::" + tag; here it is registry[tag], and an     *)
(* absent registry is the empty set, which every reader of it treats alike.*)
(***************************************************************************)
EXTENDS Naturals, Sequences

CONSTANTS
  Procs,   \* the goroutines that call the service
  Keys,    \* cache keys of fetched results
  Tags,    \* tag names
  Values,  \* what a fetch function can return
  None     \* no value, no key, no goroutine

ASSUME NoneAssumption == None \notin Procs /\ None \notin Keys /\ None \notin Values

VARIABLES
  entries,   \* [Keys -> Values or None]: the sturdyc client's results
  registry,  \* [Tags -> SUBSET Keys]: the sturdyc client's tag registries
  tagMu,     \* the goroutine holding sturdycService.tagMu, or None
  flight,    \* [Keys -> Procs or None]: who is fetching the key (external)
  at,        \* where each goroutine is in its call
  key,       \* the key argument of its call
  got,       \* the value its GetOrFetch has, None while it has none
  todo,      \* the tags its AddTags or InvalidateTags has still to process
  doomed     \* the keys its call has still to delete

shared  == <<entries, registry, tagMu, flight>>
locals  == <<at, key, got, todo, doomed>>

(* Locations.  Outside a call a goroutine is idle, or has just got back a  *)
(* value (served), an error (failed) or nothing (done).                    *)
Outside      == {"idle", "served", "failed", "done"}
Leading      == {"fetch", "store", "land"}
Fetching     == {"lookup", "flight", "wait"} \cup Leading
AddingTags   == {"addLock", "adding"}
Invalidating == {"invLock", "invalidating", "sweep"}
Deleting     == {"scan", "delete"}
Locations    == Outside \cup Fetching \cup AddingTags \cup Invalidating \cup Deleting

Elems(s) == {s[i] : i \in 1..Len(s)}

AdapterTypeOK ==
  /\ entries \in [Keys -> Values \cup {None}]
  /\ registry \in [Tags -> SUBSET Keys]
  /\ tagMu \in Procs \cup {None}
  /\ flight \in [Keys -> Procs \cup {None}]
  /\ at \in [Procs -> Locations]
  /\ key \in [Procs -> Keys \cup {None}]
  /\ got \in [Procs -> Values \cup {None}]
  /\ todo \in [Procs -> Seq(Tags)]
  /\ doomed \in [Procs -> SUBSET Keys]

AdapterInit ==
  /\ entries  = [k \in Keys |-> None]
  /\ registry = [t \in Tags |-> {}]
  /\ tagMu    = None
  /\ flight   = [k \in Keys |-> None]
  /\ at       = [p \in Procs |-> "idle"]
  /\ key      = [p \in Procs |-> None]
  /\ got      = [p \in Procs |-> None]
  /\ todo     = [p \in Procs |-> <<>>]
  /\ doomed   = [p \in Procs |-> {}]

Goto(p, from, to) == at[p] = from /\ at' = [at EXCEPT ![p] = to]

-----------------------------------------------------------------------------
(* Faulty forms of some actions, named after them: slips this code could   *)
(* have, each of which some property has to notice.                        *)

(* AddTags without its test for the empty key is given one.                *)
CallAddTagsNoKey(p, k, ts) ==
  /\ at[p] \in Outside
  /\ at' = [at EXCEPT ![p] = "addLock"]
  /\ key' = [key EXCEPT ![p] = None]
  /\ todo' = [todo EXCEPT ![p] = ts]
  /\ UNCHANGED <<shared, got, doomed>>

(* AddTags does not take tagMu.                                            *)
LockToAddUnguarded(p) ==
  /\ Goto(p, "addLock", "adding")
  /\ UNCHANGED <<shared, key, got, todo, doomed>>

(* AddTags starts a new registry where there is one.                       *)
AddTagReplacing(p) ==
  /\ at[p] = "adding"
  /\ todo[p] # <<>>
  /\ registry' = [registry EXCEPT ![Head(todo[p])] = {key[p]}]
  /\ todo' = [todo EXCEPT ![p] = Tail(@)]
  /\ UNCHANGED <<entries, tagMu, flight, at, key, got, doomed>>

(* InvalidateTags returns after its first tag.                             *)
CallInvalidateTagsFirst(p, ts) ==
  /\ at[p] \in Outside
  /\ at' = [at EXCEPT ![p] = IF ts = <<>> THEN "done" ELSE "invLock"]
  /\ todo' = [todo EXCEPT ![p] = IF ts = <<>> THEN ts ELSE <<Head(ts)>>]
  /\ UNCHANGED <<shared, key, got, doomed>>

(* InvalidateTags gives up when tagMu is taken.                            *)
LockToInvalidateTry(p) ==
  /\ at[p] = "invLock"
  /\ at' = [at EXCEPT ![p] = IF tagMu = None THEN "invalidating" ELSE "done"]
  /\ tagMu' = IF tagMu = None THEN p ELSE tagMu
  /\ UNCHANGED <<entries, registry, flight, key, got, todo, doomed>>

(* InvalidateTags returns without releasing tagMu.                         *)
UnlockInvalidatedHeld(p) ==
  /\ todo[p] = <<>>
  /\ Goto(p, "invalidating", "done")
  /\ UNCHANGED <<shared, key, got, todo, doomed>>

-----------------------------------------------------------------------------
(* GetOrFetch(ctx, key, fetchFn).  A fetch function that validateFetchFn   *)
(* refuses is reported at once; otherwise the call goes to the client.     *)
CallGetOrFetch(p, k, valid) ==
  /\ at[p] \in Outside
  /\ at' = [at EXCEPT ![p] = IF valid THEN "lookup" ELSE "failed"]
  /\ key' = [key EXCEPT ![p] = k]
  /\ got' = [got EXCEPT ![p] = None]
  /\ UNCHANGED <<shared, todo, doomed>>

LookupHit(p) ==
  /\ Goto(p, "lookup", "served")
  /\ entries[key[p]] # None
  /\ got' = [got EXCEPT ![p] = entries[key[p]]]
  /\ UNCHANGED <<shared, key, todo, doomed>>

LookupMiss(p) ==
  /\ Goto(p, "lookup", "flight")
  /\ entries[key[p]] = None
  /\ UNCHANGED <<shared, key, got, todo, doomed>>

(* The lookup and the in-flight map are two critical sections, so a caller *)
(* that missed may lead a fetch of a key that was stored meanwhile.        *)
LeadFlight(p) ==
  /\ Goto(p, "flight", "fetch")
  /\ flight[key[p]] = None
  /\ flight' = [flight EXCEPT ![key[p]] = p]
  /\ UNCHANGED <<entries, registry, tagMu, key, got, todo, doomed>>

JoinFlight(p) ==
  /\ Goto(p, "flight", "wait")
  /\ flight[key[p]] # None
  /\ UNCHANGED <<shared, key, got, todo, doomed>>

FetchReturns(p, v) ==
  /\ Goto(p, "fetch", "store")
  /\ got' = [got EXCEPT ![p] = v]
  /\ UNCHANGED <<shared, key, todo, doomed>>

FetchFails(p) ==
  /\ Goto(p, "fetch", "land")
  /\ UNCHANGED <<shared, key, got, todo, doomed>>

StoreFetched(p) ==
  /\ Goto(p, "store", "land")
  /\ entries' = [entries EXCEPT ![key[p]] = got[p]]
  /\ UNCHANGED <<registry, tagMu, flight, key, got, todo, doomed>>

(* The flight ends: the leader and everyone waiting on it get its outcome. *)
Aboard(p) == {q \in Procs : q = p \/ (at[q] = "wait" /\ key[q] = key[p])}

LandFlight(p) ==
  /\ at[p] = "land"
  /\ at' = [q \in Procs |-> IF q \notin Aboard(p) THEN at[q]
                            ELSE IF got[p] = None THEN "failed" ELSE "served"]
  /\ got' = [q \in Procs |-> IF q \in Aboard(p) THEN got[p] ELSE got[q]]
  /\ flight' = [flight EXCEPT ![key[p]] = None]
  /\ UNCHANGED <<entries, registry, tagMu, key, todo, doomed>>

-----------------------------------------------------------------------------
(* AddTags(ctx, key, tags): under tagMu, load each tag's registry, add the *)
(* key to it and set it back.  No other holder of a registry can run, so   *)
(* the load and the set are one step.                                      *)
CallAddTags(p, k, ts) ==
  /\ at[p] \in Outside
  /\ at' = [at EXCEPT ![p] = IF ts = <<>> THEN "done" ELSE "addLock"]
  /\ key' = [key EXCEPT ![p] = k]
  /\ todo' = [todo EXCEPT ![p] = ts]
  /\ UNCHANGED <<shared, got, doomed>>

LockToAdd(p) ==
  /\ tagMu = None
  /\ Goto(p, "addLock", "adding")
  /\ tagMu' = p
  /\ UNCHANGED <<entries, registry, flight, key, got, todo, doomed>>

AddTag(p) ==
  /\ at[p] = "adding"
  /\ todo[p] # <<>>
  /\ registry' = [registry EXCEPT ![Head(todo[p])] = @ \cup {key[p]}]
  /\ todo' = [todo EXCEPT ![p] = Tail(@)]
  /\ UNCHANGED <<entries, tagMu, flight, at, key, got, doomed>>

UnlockAdded(p) ==
  /\ todo[p] = <<>>
  /\ Goto(p, "adding", "done")
  /\ tagMu' = None
  /\ UNCHANGED <<entries, registry, flight, key, got, todo, doomed>>

-----------------------------------------------------------------------------
(* InvalidateTags(ctx, tags): under tagMu, tag by tag, load the registry,  *)
(* delete every key it lists, then delete the registry itself.  GetOrFetch *)
(* does not take tagMu, so results are stored between these steps.         *)
CallInvalidateTags(p, ts) ==
  /\ at[p] \in Outside
  /\ at' = [at EXCEPT ![p] = IF ts = <<>> THEN "done" ELSE "invLock"]
  /\ todo' = [todo EXCEPT ![p] = ts]
  /\ UNCHANGED <<shared, key, got, doomed>>

LockToInvalidate(p) ==
  /\ tagMu = None
  /\ Goto(p, "invLock", "invalidating")
  /\ tagMu' = p
  /\ UNCHANGED <<entries, registry, flight, key, got, todo, doomed>>

LoadRegistry(p) ==
  /\ todo[p] # <<>>
  /\ Goto(p, "invalidating", "sweep")
  /\ doomed' = [doomed EXCEPT ![p] = registry[Head(todo[p])]]
  /\ UNCHANGED <<shared, key, got, todo>>

SweepKey(p, k) ==
  /\ at[p] = "sweep"
  /\ k \in doomed[p]
  /\ entries' = [entries EXCEPT ![k] = None]
  /\ doomed' = [doomed EXCEPT ![p] = @ \ {k}]
  /\ UNCHANGED <<registry, tagMu, flight, at, key, got, todo>>

DropRegistry(p) ==
  /\ doomed[p] = {}
  /\ Goto(p, "sweep", "invalidating")
  /\ registry' = [registry EXCEPT ![Head(todo[p])] = {}]
  /\ todo' = [todo EXCEPT ![p] = Tail(@)]
  /\ UNCHANGED <<entries, tagMu, flight, key, got, doomed>>

UnlockInvalidated(p) ==
  /\ todo[p] = <<>>
  /\ Goto(p, "invalidating", "done")
  /\ tagMu' = None
  /\ UNCHANGED <<entries, registry, flight, key, got, todo, doomed>>

-----------------------------------------------------------------------------
(* Delete(ctx, key): one atomic removal.                                   *)
CallDelete(p, k) ==
  /\ at[p] \in Outside
  /\ at' = [at EXCEPT ![p] = "done"]
  /\ entries' = [entries EXCEPT ![k] = None]
  /\ UNCHANGED <<registry, tagMu, flight, key, got, todo, doomed>>

(* DeleteByPrefix(ctx, prefix): scan the keys, then delete the matching    *)
(* ones of the snapshot one by one.  ks is the set of keys with the prefix.*)
CallDeleteByPrefix(p, ks) ==
  /\ at[p] \in Outside
  /\ at' = [at EXCEPT ![p] = "scan"]
  /\ doomed' = [doomed EXCEPT ![p] = ks]
  /\ UNCHANGED <<shared, key, got, todo>>

ScanKeys(p) ==
  /\ Goto(p, "scan", "delete")
  /\ doomed' = [doomed EXCEPT ![p] = {k \in @ : entries[k] # None}]
  /\ UNCHANGED <<shared, key, got, todo>>

(* InvalidateKeys(ctx, keys): delete the given keys one by one.            *)
CallInvalidateKeys(p, ks) ==
  /\ at[p] \in Outside
  /\ at' = [at EXCEPT ![p] = "delete"]
  /\ doomed' = [doomed EXCEPT ![p] = ks]
  /\ UNCHANGED <<shared, key, got, todo>>

DeleteKey(p, k) ==
  /\ at[p] = "delete"
  /\ k \in doomed[p]
  /\ entries' = [entries EXCEPT ![k] = None]
  /\ doomed' = [doomed EXCEPT ![p] = @ \ {k}]
  /\ UNCHANGED <<registry, tagMu, flight, at, key, got, todo>>

DeletedAll(p) ==
  /\ doomed[p] = {}
  /\ Goto(p, "delete", "done")
  /\ UNCHANGED <<shared, key, got, todo, doomed>>

-----------------------------------------------------------------------------
(* The caller is finished with the results of its calls.                   *)
Return(p) ==
  /\ at[p] \in Outside
  /\ at' = [at EXCEPT ![p] = "idle"]
  /\ key' = [key EXCEPT ![p] = None]
  /\ got' = [got EXCEPT ![p] = None]
  /\ UNCHANGED <<shared, todo, doomed>>

(* Expiry or eviction of a result, at any time.  (Registries are entries   *)
(* of the client too and can be evicted when it is at its capacity; here   *)
(* the capacity is not reached.)                                           *)
EvictEntry(k) ==
  /\ entries[k] # None
  /\ entries' = [entries EXCEPT ![k] = None]
  /\ UNCHANGED <<registry, tagMu, flight, locals>>

(* The steps a goroutine takes inside a call, but for what a fetch returns.*)
GetOrFetchStep(p) ==
  \/ LookupHit(p) \/ LookupMiss(p) \/ LeadFlight(p) \/ JoinFlight(p)
  \/ FetchFails(p) \/ StoreFetched(p) \/ LandFlight(p)

AddTagsStep(p) == LockToAdd(p) \/ AddTag(p) \/ UnlockAdded(p)

InvalidateTagsStep(p) ==
  \/ LockToInvalidate(p) \/ LoadRegistry(p) \/ DropRegistry(p) \/ UnlockInvalidated(p)
  \/ \E k \in Keys : SweepKey(p, k)

DeleteStep(p) == ScanKeys(p) \/ DeletedAll(p) \/ \E k \in Keys : DeleteKey(p, k)

CallStep(p) ==
  GetOrFetchStep(p) \/ AddTagsStep(p) \/ InvalidateTagsStep(p) \/ DeleteStep(p)
=============================================================================
