------------------------- MODULE AdapterClientsProofs -------------------------
(***************************************************************************)
(* Whatever its clients do, the cache service loses no registration and    *)
(* every removal removes what was there: proved for any number of them.    *)
(*                                                                         *)
(* A step of one goroutine disturbs what the invariant says of another     *)
(* only through the registries, the registrations kept and the results     *)
(* present; OthersStep says how little that is, and with it each part of   *)
(* the invariant needs the steps of its own goroutine alone.               *)
(***************************************************************************)
EXTENDS AdapterClients, ListLemmas

USE DEF Outside, Leading, Fetching, AddingTags, Invalidating, Deleting

-----------------------------------------------------------------------------
(* What the proofs need of the lists of tags and deletions taken apart.    *)
LEMMA ElemsAre == ASSUME NEW S, NEW s \in Seq(S) PROVE Elems(s) = Range(s)
  BY DEF Elems, Range

LEMMA ElemsHeadTail ==
  ASSUME NEW S, NEW s \in Seq(S), s # <<>>
  PROVE  /\ Head(s) \in S /\ Tail(s) \in Seq(S)
         /\ Elems(s) = {Head(s)} \cup Elems(Tail(s))
  BY ElemsAre, RangeHeadTail

LEMMA ElemsEmpty == Elems(<<>>) = {}
  BY DEF Elems

LEMMA ElemsIn == ASSUME NEW S, NEW s \in Seq(S) PROVE Elems(s) \subseteq S
  BY DEF Elems

-----------------------------------------------------------------------------
LEMMA InitInvariant == Init => ClientsInvariant
  BY NoneAssumption DEF Init, AdapterInit, ClientsInvariant, ClientsTypeOK, AdapterTypeOK,
    Locations, RegistrationsKept, ControlOK, RegisteringOK, SweepingOK, OwedOK,
    NoneAssumption

-----------------------------------------------------------------------------
(* A goroutine's step keeps the types.                                     *)
LEMMA ClientTypeStep ==
  ASSUME ClientsInvariant, NEW p \in Procs, ClientStep(p)
  PROVE  ClientsTypeOK'
  <1> USE ClientsAssumption
      DEF ClientsInvariant, ClientsTypeOK, AdapterTypeOK, ControlOK, Locations, shared,
          Goto, Promise, NoPromise, ClientsAssumption
  <1>1. ASSUME NEW k \in Keys, NEW valid \in BOOLEAN, GetOrFetch(p, k, valid) PROVE ClientsTypeOK'
    BY <1>1 DEF GetOrFetch, CallGetOrFetch
  <1>2. ASSUME NEW k \in Keys, NEW ts \in TagLists, AddTags(p, k, ts) PROVE ClientsTypeOK'
    BY <1>2 DEF AddTags, CallAddTags
  <1>3. ASSUME NEW k \in Keys, Sweep(p, k) PROVE ClientsTypeOK'
    BY <1>3 DEF Sweep, SweepKey
  <1>4. ASSUME NEW k \in Keys, Delete(p, k) PROVE ClientsTypeOK'
    BY <1>4 DEF Delete, CallDelete
  <1>5. ASSUME NEW ts \in TagLists, InvalidateTags(p, ts) PROVE ClientsTypeOK'
    <2>1. UNION {kept[t] : t \in Elems(ts)} \subseteq Keys
      BY ElemsIn
    <2> QED
      BY <1>5, <2>1 DEF InvalidateTags, CallInvalidateTags
  <1>6. ASSUME NEW ks \in KeySets, DeleteByPrefix(p, ks) PROVE ClientsTypeOK'
    BY <1>6 DEF DeleteByPrefix, CallDeleteByPrefix
  <1>7. ASSUME NEW ks \in KeySets, InvalidateKeys(p, ks) PROVE ClientsTypeOK'
    BY <1>7 DEF InvalidateKeys, CallInvalidateKeys
  <1>8. ASSUME NEW v \in Values, Fetched(p, v) PROVE ClientsTypeOK'
    BY <1>8 DEF Fetched, FetchReturns
  <1>9. ASSUME Added(p) PROVE ClientsTypeOK'
    BY <1>9 DEF Added, UnlockAdded
  <1>10. ASSUME GetBack(p) PROVE ClientsTypeOK'
    BY <1>10 DEF GetBack, Return
  <1>11. ASSUME OtherStep(p) PROVE ClientsTypeOK'
    <2> USE DEF OtherStep
    <2>1. CASE GetOrFetchStep(p)
      <3>1. LookupHit(p) \/ StoreFetched(p) => ClientsTypeOK'
        BY ZenonT(60), <1>11 DEF LookupHit, StoreFetched
      <3>2. LookupMiss(p) \/ JoinFlight(p) => ClientsTypeOK'
        BY <1>11 DEF LookupMiss, JoinFlight
      <3>3. LeadFlight(p) => ClientsTypeOK'
        BY <1>11 DEF LeadFlight
      <3>4. FetchFails(p) => ClientsTypeOK'
        BY <1>11 DEF FetchFails
      <3>5. LandFlight(p) => ClientsTypeOK'
        BY <1>11 DEF LandFlight
      <3> QED
        BY <2>1, <3>1, <3>2, <3>3, <3>4, <3>5 DEF GetOrFetchStep
    <2>2. CASE DeleteStep(p)
      <3>1. ScanKeys(p) => ClientsTypeOK'
        BY <1>11 DEF ScanKeys
      <3>3. DeletedAll(p) => ClientsTypeOK'
        BY <1>11 DEF DeletedAll
      <3>2. ASSUME NEW k \in Keys, DeleteKey(p, k) PROVE ClientsTypeOK'
        BY <1>11, <3>2 DEF DeleteKey
      <3> QED
        BY <2>2, <3>1, <3>2, <3>3 DEF DeleteStep
    <2>3. CASE LockToAdd(p) \/ LockToInvalidate(p) \/ LoadRegistry(p) \/ UnlockInvalidated(p)
      <3>1. LoadRegistry(p) => registry[Head(todo[p])] \subseteq Keys
        BY ElemsHeadTail DEF LoadRegistry
      <3> QED
        BY <1>11, <2>3, <3>1 DEF LockToAdd, LockToInvalidate, LoadRegistry, UnlockInvalidated
    <2>4. CASE AddTag(p)
      <3>1. Head(todo[p]) \in Tags /\ Tail(todo[p]) \in Seq(Tags)
        BY <2>4, ElemsHeadTail DEF AddTag
      <3> QED
        BY <1>11, <2>4, <3>1 DEF AddTag
    <2>5. CASE DropRegistry(p)
      <3>1. Head(todo[p]) \in Tags /\ Tail(todo[p]) \in Seq(Tags)
        BY <2>5, ElemsHeadTail DEF DropRegistry, SweepingOK
      <3> QED
        BY <1>11, <2>5, <3>1 DEF DropRegistry
    <2> QED
      BY <1>11, <2>1, <2>2, <2>3, <2>4, <2>5
  <1> QED
    BY <1>1, <1>2, <1>3, <1>4, <1>5, <1>6, <1>7, <1>8, <1>9, <1>10, <1>11 DEF ClientStep

-----------------------------------------------------------------------------
(* What a step of p leaves of the state of every other goroutine q: its    *)
(* call goes on as it was, but for the end of a flight it waits on; only   *)
(* results that are gone leave its debts; and tagMu changes hands only     *)
(* between p and nobody.                                                   *)
Undisturbed(q) ==
  /\ at'[q] = at[q] \/ (at[q] = "wait" /\ at'[q] \in {"served", "failed"})
  /\ key'[q] = key[q] /\ todo'[q] = todo[q] /\ adding'[q] = adding[q] /\ doomed'[q] = doomed[q]
  /\ owed'[q] = {k \in owed[q] : entries'[k] # None}

(* And what it leaves of the registries: they and the registrations kept   *)
(* change only under tagMu, and a registration is given up with its key.   *)
Guarded(p) ==
  /\ tagMu' # tagMu => (tagMu = None /\ tagMu' = p) \/ (tagMu = p /\ tagMu' = None)
  /\ tagMu # p => registry' = registry /\ kept' = kept
  /\ \A t \in Tags : \A k \in kept[t] : k \in kept'[t] \/ entries'[k] = None

LEMMA OthersStep ==
  ASSUME ClientsInvariant, NEW p \in Procs, ClientStep(p)
  PROVE  Guarded(p) /\ \A q \in Procs \ {p} : Undisturbed(q)
  <1> DEFINE P == Guarded(p) /\ \A q \in Procs \ {p} : Undisturbed(q)
  <1> USE NoneAssumption
      DEF ClientsInvariant, ClientsTypeOK, AdapterTypeOK, ControlOK, shared, Goto,
          Promise, NoPromise, Undisturbed, Guarded, NoneAssumption
  <1>1. ASSUME NEW k \in Keys, NEW valid \in BOOLEAN, GetOrFetch(p, k, valid) PROVE P
    BY <1>1 DEF GetOrFetch, CallGetOrFetch
  <1>2. ASSUME NEW k \in Keys, NEW ts \in TagLists, AddTags(p, k, ts) PROVE P
    BY <1>2 DEF AddTags, CallAddTags
  <1>3. ASSUME NEW k \in Keys, Sweep(p, k) PROVE P
    BY <1>3 DEF Sweep, SweepKey
  <1>4. ASSUME NEW k \in Keys, Delete(p, k) PROVE P
    BY <1>4 DEF Delete, CallDelete
  <1>5. ASSUME NEW ts \in TagLists, InvalidateTags(p, ts) PROVE P
    BY <1>5 DEF InvalidateTags, CallInvalidateTags
  <1>6. ASSUME NEW ks \in KeySets, DeleteByPrefix(p, ks) PROVE P
    BY <1>6 DEF DeleteByPrefix, CallDeleteByPrefix
  <1>7. ASSUME NEW ks \in KeySets, InvalidateKeys(p, ks) PROVE P
    BY <1>7 DEF InvalidateKeys, CallInvalidateKeys
  <1>8. ASSUME NEW v \in Values, Fetched(p, v) PROVE P
    BY <1>8 DEF Fetched, FetchReturns
  <1>9. ASSUME Added(p) PROVE P
    BY <1>9 DEF Added, UnlockAdded
  <1>10. ASSUME GetBack(p) PROVE P
    BY <1>10 DEF GetBack, Return
  <1>11. ASSUME OtherStep(p) PROVE P
    <2> USE DEF OtherStep
    <2>1. CASE GetOrFetchStep(p)
      BY <1>11, <2>1 DEF GetOrFetchStep, LookupHit, LookupMiss, LeadFlight, JoinFlight,
        FetchFails, StoreFetched, LandFlight, Aboard
    <2>2. CASE DeleteStep(p)
      BY <1>11, <2>2 DEF DeleteStep, ScanKeys, DeleteKey, DeletedAll
    <2>3. CASE LockToAdd(p) \/ LockToInvalidate(p) \/ LoadRegistry(p) \/ UnlockInvalidated(p)
      BY <1>11, <2>3 DEF LockToAdd, LockToInvalidate, LoadRegistry, UnlockInvalidated
    <2>4. CASE AddTag(p) \/ DropRegistry(p)
      BY <1>11, <2>4 DEF AddTag, DropRegistry
    <2> QED
      BY <1>11, <2>1, <2>2, <2>3, <2>4
  <1> QED
    BY <1>1, <1>2, <1>3, <1>4, <1>5, <1>6, <1>7, <1>8, <1>9, <1>10, <1>11 DEF ClientStep

(* So what the invariant says of the others still holds.                   *)
LEMMA OthersKeep ==
  ASSUME ClientsInvariant, NEW p \in Procs, ClientStep(p), NEW q \in Procs, q # p
  PROVE  ControlOK(q)' /\ RegisteringOK(q)' /\ SweepingOK(q)' /\ OwedOK(q)'
  <1>1. Undisturbed(q) /\ Guarded(p)
    BY OthersStep
  <1>2. ControlOK(q) /\ RegisteringOK(q) /\ SweepingOK(q) /\ OwedOK(q) /\ ControlOK(p)
    BY DEF ClientsInvariant
  <1>3. ControlOK(q)'
    BY <1>1, <1>2, NoneAssumption DEF Undisturbed, Guarded, ControlOK, NoneAssumption
  <1>4. at[q] \in {"adding", "sweep"} => registry' = registry /\ kept' = kept
    BY <1>1, <1>2 DEF Guarded, ControlOK
  <1>5. RegisteringOK(q)'
    BY <1>1, <1>2, <1>4 DEF Undisturbed, RegisteringOK
  <1>6. SweepingOK(q)'
    BY <1>1, <1>2, <1>4 DEF Undisturbed, SweepingOK
  <1>7. OwedOK(q)'
    <2> SUFFICES ASSUME NEW k \in owed'[q]
                 PROVE  /\ at'[q] \in Invalidating \cup Deleting
                        /\ at'[q] \in Deleting => k \in doomed'[q]
                        /\ at'[q] \in {"invLock", "invalidating"} => ListedIn(k, todo[q])'
                        /\ at'[q] = "sweep" => k \in doomed'[q] \/ ListedIn(k, Tail(todo[q]))'
      BY DEF OwedOK
    <2>1. k \in owed[q] /\ entries'[k] # None
      BY <1>1 DEF Undisturbed
    <2>2. at'[q] = at[q]
      BY <1>1, <1>2, <2>1 DEF Undisturbed, OwedOK
    <2>3. todo[q] \in Seq(Tags)
      BY DEF ClientsInvariant, ClientsTypeOK, AdapterTypeOK
    <2>4. ListedIn(k, todo[q]) => ListedIn(k, todo[q])'
      BY <1>1, <2>1, <2>3, ElemsIn DEF Undisturbed, Guarded, ListedIn
    <2>5. at[q] = "sweep" /\ ListedIn(k, Tail(todo[q])) => ListedIn(k, Tail(todo[q]))'
      BY <1>1, <1>4 DEF Undisturbed, ListedIn
    <2> QED
      BY <1>1, <1>2, <2>1, <2>2, <2>4, <2>5 DEF Undisturbed, OwedOK
  <1> QED
    BY <1>3, <1>5, <1>6, <1>7

-----------------------------------------------------------------------------
(* A goroutine's own step keeps what the invariant says of it.             *)
LEMMA OwnKeeps ==
  ASSUME ClientsInvariant, NEW p \in Procs, ClientStep(p)
  PROVE  ControlOK(p)' /\ RegisteringOK(p)' /\ SweepingOK(p)' /\ OwedOK(p)'
  <1> DEFINE P == ControlOK(p)' /\ RegisteringOK(p)' /\ SweepingOK(p)' /\ OwedOK(p)'
  <1> USE NoneAssumption
      DEF ClientsInvariant, ClientsTypeOK, AdapterTypeOK, ControlOK, RegisteringOK, SweepingOK,
          OwedOK, shared, Goto, Promise, NoPromise, NoneAssumption
  <1>0. todo[p] \in Seq(Tags) /\ adding[p] \in Seq(Tags)
    OBVIOUS
  <1>1. ASSUME NEW k \in Keys, NEW valid \in BOOLEAN, GetOrFetch(p, k, valid) PROVE P
    BY <1>1 DEF GetOrFetch, CallGetOrFetch
  <1>2. ASSUME NEW k \in Keys, NEW ts \in TagLists, AddTags(p, k, ts) PROVE P
    BY <1>2 DEF AddTags, CallAddTags
  <1>3. ASSUME NEW k \in Keys, Sweep(p, k) PROVE P
    <2>1. Head(todo[p]) \in Tags
      BY <1>3, ElemsHeadTail DEF Sweep, SweepKey
    <2>2. ASSUME NEW j \in owed'[p] PROVE j \in doomed'[p] \/ ListedIn(j, Tail(todo[p]))'
      <3>1. j \in owed[p] /\ j # k
        BY <1>3 DEF Sweep, SweepKey
      <3>2. \A t \in Tags : j \in kept[t] => j \in kept'[t]
        BY <1>3, <2>1, <3>1 DEF Sweep, SweepKey
      <3>3. Elems(Tail(todo[p])) \subseteq Tags
        BY <1>0, <1>3, ElemsHeadTail, ElemsIn DEF Sweep, SweepKey
      <3> QED
        BY <1>3, <3>1, <3>2, <3>3 DEF Sweep, SweepKey, ListedIn
    <2> QED
      BY <1>3, <2>1, <2>2 DEF Sweep, SweepKey
  <1>4. ASSUME NEW k \in Keys, Delete(p, k) PROVE P
    <2>1. owed'[p] = {}
      BY <1>4 DEF Delete, CallDelete
    <2>2. at[p] = "idle" /\ at'[p] = "done" /\ tagMu' = tagMu
      BY <1>4 DEF Delete, CallDelete
    <2> QED
      BY <2>1, <2>2
  <1>5. ASSUME NEW ts \in TagLists, InvalidateTags(p, ts) PROVE P
    <2>1. \A k \in owed'[p] : ts # <<>> /\ ListedIn(k, ts)'
      BY <1>5, ElemsEmpty DEF InvalidateTags, ListedIn
    <2>2. at'[p] = (IF ts = <<>> THEN "done" ELSE "invLock") /\ todo'[p] = ts
      BY <1>5 DEF InvalidateTags, CallInvalidateTags
    <2>3. OwedOK(p)'
      BY <2>1, <2>2 DEF ListedIn
    <2> QED
      BY <1>5, <2>2, <2>3 DEF InvalidateTags, CallInvalidateTags
  <1>6. ASSUME NEW ks \in KeySets, DeleteByPrefix(p, ks) PROVE P
    BY ZenonT(60), <1>6 DEF DeleteByPrefix, CallDeleteByPrefix
  <1>7. ASSUME NEW ks \in KeySets, InvalidateKeys(p, ks) PROVE P
    BY ZenonT(60), <1>7 DEF InvalidateKeys, CallInvalidateKeys
  <1>8. ASSUME NEW v \in Values, Fetched(p, v) PROVE P
    BY <1>8 DEF Fetched, FetchReturns
  <1>9. ASSUME Added(p) PROVE P
    BY <1>9 DEF Added, UnlockAdded
  <1>10. ASSUME GetBack(p) PROVE P
    BY <1>10 DEF GetBack, Return
  <1>11. ASSUME GetOrFetchStep(p), OtherStep(p) PROVE P
    <2>1. LookupHit(p) => P
      BY ZenonT(60), <1>11 DEF OtherStep, LookupHit
    <2>3. StoreFetched(p) => P
      <3>1. StoreFetched(p) => owed'[p] = {} /\ at[p] = "store" /\ at'[p] = "land"
                               /\ tagMu' = tagMu /\ key' = key
        BY ZenonT(60), <1>11 DEF OtherStep, StoreFetched
      <3> QED
        BY <3>1
    <2>4. LandFlight(p) => P
      BY ZenonT(60), <1>11 DEF OtherStep, LandFlight, Aboard
    <2>2. LookupMiss(p) \/ LeadFlight(p) \/ JoinFlight(p) \/ FetchFails(p) => P
      BY <1>11 DEF OtherStep, LookupMiss, LeadFlight, JoinFlight, FetchFails
    <2> QED
      BY <1>11, <2>1, <2>2, <2>3, <2>4 DEF GetOrFetchStep
  <1>12. ASSUME DeleteStep(p), OtherStep(p) PROVE P
    <2>1. ScanKeys(p) \/ DeletedAll(p) => P
      BY <1>12 DEF OtherStep, ScanKeys, DeletedAll
    <2>2. ASSUME NEW k \in Keys, DeleteKey(p, k) PROVE P
      BY ZenonT(60), <1>12, <2>2 DEF OtherStep, DeleteKey
    <2> QED
      BY <1>12, <2>1, <2>2 DEF DeleteStep
  <1>13. ASSUME LockToAdd(p) \/ LockToInvalidate(p), OtherStep(p) PROVE P
    <2>1. LockToAdd(p) => P
      BY <1>13 DEF OtherStep, LockToAdd
    <2>2. ASSUME LockToInvalidate(p) PROVE P
      <3>1. OwedOK(p)'
        BY <1>13, <2>2 DEF OtherStep, LockToInvalidate, ListedIn
      <3> QED
        BY <1>13, <2>2, <3>1 DEF OtherStep, LockToInvalidate
    <2> QED
      BY <1>13, <2>1, <2>2
  <1>14. ASSUME AddTag(p), OtherStep(p) PROVE P
    <2>1. Head(todo[p]) \in Tags /\ Elems(todo[p]) = {Head(todo[p])} \cup Elems(Tail(todo[p]))
      BY <1>14, ElemsHeadTail DEF AddTag
    <2>2. RegisteringOK(p)'
      BY <1>0, <1>14, <2>1, ElemsIn DEF OtherStep, AddTag
    <2> QED
      BY <1>14, <2>2 DEF OtherStep, AddTag
  <1>15. ASSUME LoadRegistry(p), OtherStep(p) PROVE P
    <2>1. Head(todo[p]) \in Tags /\ Elems(todo[p]) = {Head(todo[p])} \cup Elems(Tail(todo[p]))
      BY <1>15, ElemsHeadTail DEF LoadRegistry
    <2>2. doomed'[p] = registry[Head(todo[p])] /\ kept[Head(todo[p])] \subseteq doomed'[p]
      BY <1>15, <2>1 DEF LoadRegistry, RegistrationsKept
    <2>3. ASSUME NEW k \in owed'[p] PROVE k \in doomed'[p] \/ ListedIn(k, Tail(todo[p]))'
      BY <1>15, <2>1, <2>2 DEF OtherStep, LoadRegistry, ListedIn
    <2> QED
      BY <1>15, <2>2, <2>3 DEF OtherStep, LoadRegistry
  <1>16. ASSUME DropRegistry(p), OtherStep(p) PROVE P
    <2>1. doomed[p] = {} /\ todo'[p] = Tail(todo[p]) /\ kept' = kept /\ owed'[p] \subseteq owed[p]
      BY <1>16 DEF OtherStep, DropRegistry
    <2>3. at[p] = "sweep" /\ at'[p] = "invalidating"
      BY <1>16 DEF DropRegistry
    <2>2. OwedOK(p)'
      BY <2>1, <2>3 DEF ListedIn
    <2> QED
      BY <1>16, <2>2 DEF OtherStep, DropRegistry
  <1>17. ASSUME UnlockInvalidated(p), OtherStep(p) PROVE P
    BY <1>17, ElemsEmpty DEF OtherStep, UnlockInvalidated, ListedIn
  <1> QED
    BY <1>1, <1>2, <1>3, <1>4, <1>5, <1>6, <1>7, <1>8, <1>9, <1>10, <1>11, <1>12, <1>13, <1>14,
      <1>15, <1>16, <1>17 DEF ClientStep, OtherStep

-----------------------------------------------------------------------------
(* Registrations kept: gained when AddTags has made all of them, given up  *)
(* one by one in a sweep, which is over before the registry is dropped.    *)
LEMMA KeptStep ==
  ASSUME ClientsInvariant, NEW p \in Procs, ClientStep(p)
  PROVE  RegistrationsKept'
  <1> USE DEF ClientsInvariant, ClientsTypeOK, AdapterTypeOK, RegistrationsKept
  <1>1. CASE Added(p)
    BY <1>1, ElemsEmpty DEF Added, UnlockAdded, Goto, RegisteringOK
  <1>2. CASE \E k \in Keys : Sweep(p, k)
    BY <1>2 DEF Sweep, SweepKey
  <1>3. CASE OtherStep(p) /\ AddTag(p)
    BY <1>3 DEF OtherStep, AddTag
  <1>4. CASE OtherStep(p) /\ DropRegistry(p)
    <2>1. kept[Head(todo[p])] = {}
      BY <1>4 DEF DropRegistry, Goto, SweepingOK
    <2> QED
      BY <1>4, <2>1 DEF OtherStep, DropRegistry
  <1>5. CASE registry' = registry /\ kept' = kept
    BY <1>5
  <1> USE DEF shared, Goto
  <1>6. OtherStep(p) => AddTag(p) \/ DropRegistry(p) \/ (registry' = registry /\ kept' = kept)
    BY DEF OtherStep, GetOrFetchStep, LookupHit, LookupMiss, LeadFlight, JoinFlight, FetchFails,
      StoreFetched, LandFlight, DeleteStep, ScanKeys, DeleteKey, DeletedAll, LockToAdd,
      LockToInvalidate, LoadRegistry, UnlockInvalidated
  <1>7. \/ Added(p) \/ (\E k \in Keys : Sweep(p, k)) \/ OtherStep(p)
        \/ (registry' = registry /\ kept' = kept)
    BY DEF ClientStep, GetOrFetch, CallGetOrFetch, AddTags, CallAddTags, Delete, CallDelete,
      InvalidateTags, CallInvalidateTags, DeleteByPrefix, CallDeleteByPrefix, InvalidateKeys,
      CallInvalidateKeys, Fetched, FetchReturns, GetBack, Return
  <1> QED
    BY <1>1, <1>2, <1>3, <1>4, <1>5, <1>6, <1>7

(* Expiry and eviction of a result only pay debts.                         *)
LEMMA EvictionStep ==
  ASSUME ClientsInvariant, NEW k \in Keys, EntryGone(k)
  PROVE  ClientsInvariant'
  BY NoneAssumption
  DEF EntryGone, EvictEntry, NoPromise, locals, ClientsInvariant, ClientsTypeOK, AdapterTypeOK,
    RegistrationsKept, ControlOK, RegisteringOK, SweepingOK, OwedOK, ListedIn, NoneAssumption

LEMMA StepInvariant == ClientsInvariant /\ [Next]_vars => ClientsInvariant'
  <1> SUFFICES ASSUME ClientsInvariant, [Next]_vars PROVE ClientsInvariant'
    OBVIOUS
  <1>1. ASSUME NEW k \in Keys, EntryGone(k) PROVE ClientsInvariant'
    BY <1>1, EvictionStep
  <1>2. ASSUME NEW p \in Procs, ClientStep(p) PROVE ClientsInvariant'
    <2>1. ClientsTypeOK' /\ RegistrationsKept'
      BY <1>2, ClientTypeStep, KeptStep
    <2>2. \A q \in Procs : ControlOK(q)' /\ RegisteringOK(q)' /\ SweepingOK(q)' /\ OwedOK(q)'
      BY <1>2, OwnKeeps, OthersKeep
    <2> QED
      BY <2>1, <2>2 DEF ClientsInvariant
  <1>3. CASE UNCHANGED vars
    BY <1>3 DEF vars, shared, locals, ClientsInvariant, ClientsTypeOK, AdapterTypeOK,
      RegistrationsKept, ControlOK, RegisteringOK, SweepingOK, OwedOK, ListedIn
  <1> QED
    BY <1>1, <1>2, <1>3 DEF Next

-----------------------------------------------------------------------------
(* The invariant holds in every reachable state.                           *)
THEOREM ClientsInvariance == Spec => []ClientsInvariant
  BY InitInvariant, StepInvariant, PTL DEF Spec

(* The service's state keeps its types under clients that call AddTags,    *)
(* InvalidateTags, the deletions and GetOrFetch as they like.              *)
THEOREM ClientsTyped == Spec => []ClientsTypeOK
  <1>1. ClientsInvariant => ClientsTypeOK
    BY DEF ClientsInvariant
  <1> QED
    BY <1>1, ClientsInvariance, PTL

(* No registration that AddTags has made is lost while its key has not     *)
(* been deleted by InvalidateTags.                                         *)
THEOREM NoRegistrationLost == Spec => []RegistrationsKept
  <1>1. ClientsInvariant => RegistrationsKept
    BY DEF ClientsInvariant
  <1> QED
    BY <1>1, ClientsInvariance, PTL

(* A removal that returns has removed whatever it was asked to remove,     *)
(* those registered under its tags when InvalidateTags was called included.*)
THEOREM RemovalsRemove == Spec => []RemovalsDone
  <1>1. ClientsInvariant => RemovalsDone
    BY DEF ClientsInvariant, OwedOK, RemovalsDone
  <1> QED
    BY <1>1, ClientsInvariance, PTL
=============================================================================
