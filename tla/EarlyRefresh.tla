---------------------------- MODULE EarlyRefresh ----------------------------
(***************************************************************************)
(* CachedRepository over a client with early refreshes, which              *)
(* DefaultConfig switches on (EarlyRefresh, passed on by ToSturdycOptions).*)
(*                                                                         *)
(* A hit on an entry older than its refresh time is served as it is, and   *)
(* starts a goroutine of the client that calls the same fetch function and *)
(* stores its result under the key.  The goroutine is external: one per    *)
(* key at a time; it stores without looking whether the key is still       *)
(* cached, and nothing of the decorator runs after it.                     *)
(***************************************************************************)
EXTENDS CachedRepository

VARIABLES
  refreshing,  \* [Keys -> {"no", "fetch", "store"}]: the key's refresh
  refreshed    \* [Keys -> Values or None]: what it has fetched

refreshVars == <<refreshing, refreshed>>
allVars     == <<vars, refreshVars>>

RefreshTypeOK ==
  /\ refreshing \in [Keys -> {"no", "fetch", "store"}]
  /\ refreshed \in [Keys -> Values \cup {None}]

InitRefresh ==
  /\ Init
  /\ refreshing = [k \in Keys |-> "no"]
  /\ refreshed  = [k \in Keys |-> None]

(* A hit past the entry's refresh time.                                    *)
HitStartsRefresh(p) ==
  /\ LookupHit(p)
  /\ refreshing[key[p]] = "no"
  /\ refreshing' = [refreshing EXCEPT ![key[p]] = "fetch"]
  /\ UNCHANGED <<decorator, refreshed>>

RefreshFetches(k) ==
  /\ refreshing[k] = "fetch"
  /\ refreshing' = [refreshing EXCEPT ![k] = "store"]
  /\ refreshed' = [refreshed EXCEPT ![k] = committed]
  /\ UNCHANGED vars

RefreshFails(k) ==
  /\ refreshing[k] = "fetch"
  /\ refreshing' = [refreshing EXCEPT ![k] = "no"]
  /\ UNCHANGED <<vars, refreshed>>

RefreshStores(k) ==
  /\ refreshing[k] = "store"
  /\ entries' = [entries EXCEPT ![k] = refreshed[k]]
  /\ refreshing' = [refreshing EXCEPT ![k] = "no"]
  /\ refreshed' = [refreshed EXCEPT ![k] = None]
  /\ UNCHANGED <<registry, tagMu, flight, locals, decorator>>

Refresh(k) == RefreshFetches(k) \/ RefreshFails(k) \/ RefreshStores(k)

NextRefresh ==
  \/ Next /\ UNCHANGED refreshVars
  \/ \E p \in Procs : HitStartsRefresh(p)
  \/ \E k \in Keys : Refresh(k)

SpecRefresh == InitRefresh /\ [][NextRefresh]_allVars

(* README: "The decorator registers read keys under scope, ID, identifier, *)
(* and list tags, then invalidates those tags after                        *)
(* creates/updates/deletes."  So a cached result that no reader and no     *)
(* refresh is working on is listed by each of its tags.                    *)
RefreshedIsRegistered ==
  \A k \in Keys :
    entries[k] # None /\ k \notin ReadingNow /\ refreshing[k] = "no" => Findable(k)
=============================================================================
