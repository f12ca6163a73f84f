------------------------ MODULE CachedRepositoryProofs ------------------------
(***************************************************************************)
(* The safety properties of CachedRepository are invariants of Spec, for   *)
(* every value of the constants.                                           *)
(*                                                                         *)
(* The argument goes through IInv of CachedRepositoryInvariant.  Each part *)
(* of it is preserved by a lemma of its own, with one step per action.     *)
(* First come the effects of a step that several parts read: how entries,  *)
(* races and outcomes of writes change.  Then: types and control, the two  *)
(* locks, what a fetch holds, what the registries list, what a write has   *)
(* still to delete, and last the two statements about clients.             *)
(***************************************************************************)
EXTENDS CachedRepositoryInvariant, ListLemmas

USE DEF Outside, Leading, Fetching, AddingTags, Invalidating, Deleting

-----------------------------------------------------------------------------
(* What the proofs need of the lists of tags and deletions taken apart.    *)
LEMMA ElemsAre == ASSUME NEW S, NEW s \in Seq(S) PROVE Elems(s) = Range(s)
  BY DEF Elems, Range

LEMMA ElemsHeadTail ==
  ASSUME NEW S, NEW s \in Seq(S), s # <<>>
  PROVE  /\ Head(s) \in S /\ Tail(s) \in Seq(S)
         /\ Elems(s) = {Head(s)} \cup Elems(Tail(s))
  BY ElemsAre, RangeHeadTail

LEMMA ElemsEmpty == Elems(<<>>) = {}
  BY DEF Elems

LEMMA ElemsIn == ASSUME NEW S, NEW s \in Seq(S) PROVE Elems(s) \subseteq S
  BY DEF Elems

-----------------------------------------------------------------------------
(* An invalidation is tags and deletions, a deletion is a set of keys.     *)
LEMMA InvalidationParts ==
  /\ \A v \in Invalidation : v.tags \in Seq(Tags) /\ v.fallback \in Seq(Deletion)
  /\ \A d \in Deletion : d.keys \subseteq Keys
  <1>1. ASSUME NEW d \in KeyDeletion PROVE d.keys \subseteq Keys
    <2>1. PICK k \in Keys : d = [scan |-> FALSE, keys |-> {k}]
      BY <1>1 DEF KeyDeletion
    <2> QED
      BY <2>1
  <1>2. ASSUME NEW d \in [scan : {TRUE}, keys : SUBSET Keys] PROVE d.keys \subseteq Keys
    BY <1>2
  <1> QED
    BY <1>1, <1>2 DEF Invalidation, Deletion

-----------------------------------------------------------------------------
(* Steps preserve the types.  ControlOK says that a key is at hand when a  *)
(* step indexes by it.                                                     *)
LEMMA TypeStep ==
  ASSUME TypeOK, ControlOK, [NextTx]_vars
  PROVE  TypeOK'
  <1> USE DEF TypeOK, AdapterTypeOK, Versions, Ops, Locations
  <1>1. ASSUME NEW k \in Keys, EvictEntry(k), UNCHANGED decorator PROVE TypeOK'
    BY <1>1 DEF EvictEntry, decorator, locals
  <1>2. ASSUME NEW p \in Procs, NEW k \in Keys, StartRead(p, k) PROVE TypeOK'
    BY <1>2 DEF StartRead, CallGetOrFetch, shared
  <1>3. ASSUME NEW p \in Procs, FetchBase(p) PROVE TypeOK'
    BY <1>3, BoundAssumption, ValuesAssumption DEF BoundAssumption,
      ValuesAssumption, FetchBase, FetchReturns, Goto, shared, decorator
  <1>4. ASSUME NEW p \in Procs, RegisterTags(p) PROVE TypeOK'
    BY <1>4, TagsAssumption DEF TagsAssumption, ControlOK, RegisterTags,
      CallAddTags, shared
  <1>5. ASSUME NEW p \in Procs, FinishRead(p) PROVE TypeOK'
    BY <1>5 DEF FinishRead, Return, shared
  <1>6. ASSUME NEW p \in Procs, NEW w \in Writes, BaseWrite(p, w) PROVE TypeOK'
    <2>1. /\ committed \in Nat /\ committed < MaxWrites
          /\ committed + 1 \in 1..MaxWrites
      BY <1>6, BoundAssumption DEF BaseWrite, Commit, TypeOK, Versions,
        BoundAssumption
    <2>2. Exposed \subseteq Keys
      BY DEF Exposed, ReadingNow
    <2>3. /\ committed' \in Versions
          /\ racers' \in [1..MaxWrites -> SUBSET Keys]
          /\ write' \in [Procs -> Versions]
      BY <1>6, <2>1, <2>2 DEF BaseWrite, Commit, TypeOK, Versions
    <2>4. plan' \in [Procs -> Seq(Invalidation)] /\ op' \in [Procs -> Ops]
      BY <1>6, PlanAssumption DEF BaseWrite, TypeOK, Ops, PlanAssumption
    <2> QED
      BY <1>6, <2>3, <2>4
      DEF BaseWrite, shared, locals, TypeOK, AdapterTypeOK
  <1>7. ASSUME NEW p \in Procs, InvalidateByTags(p) PROVE TypeOK'
    <2> DEFINE v == Head(plan[p])
    <2>1. v \in Invalidation /\ Tail(plan[p]) \in Seq(Invalidation)
      BY <1>7, ElemsHeadTail DEF InvalidateByTags, TypeOK
    <2>2. v.tags \in Seq(Tags)
      BY <2>1, InvalidationParts
    <2>3. /\ plan' \in [Procs -> Seq(Invalidation)]
          /\ reached' \in [Procs -> SUBSET Keys]
      BY <1>7, <2>1 DEF InvalidateByTags, TypeOK
    <2>4. AdapterTypeOK'
      BY <1>7, <2>2 DEF InvalidateByTags, CallInvalidateTags, shared, TypeOK,
        AdapterTypeOK, Locations
    <2> QED
      BY <1>7, <2>3, <2>4 DEF InvalidateByTags, TypeOK
  <1>8. ASSUME NEW p \in Procs, FallBack(p) PROVE TypeOK'
    <2> DEFINE v == Head(plan[p])
    <2>1. v \in Invalidation /\ Tail(plan[p]) \in Seq(Invalidation)
      BY <1>8, ElemsHeadTail DEF FallBack, TypeOK
    <2>2. v.fallback \in Seq(Deletion)
      BY <2>1, InvalidationParts
    <2>3. UNION {d.keys : d \in Elems(v.fallback)} \subseteq Keys
      BY <2>2, ElemsIn, InvalidationParts
    <2>4. /\ plan' \in [Procs -> Seq(Invalidation)]
          /\ fallback' \in [Procs -> Seq(Deletion)]
      BY <1>8, <2>1, <2>2 DEF FallBack, TypeOK
    <2>5. reached' \in [Procs -> SUBSET Keys]
      BY <1>8, <2>3 DEF FallBack, TypeOK
    <2> QED
      BY <1>8, <2>4, <2>5 DEF FallBack, shared, locals, TypeOK, AdapterTypeOK
  <1>9. ASSUME NEW p \in Procs, NextDeletion(p) PROVE TypeOK'
    <2> DEFINE d == Head(fallback[p])
    <2>1. d \in Deletion /\ Tail(fallback[p]) \in Seq(Deletion)
      BY <1>9, ElemsHeadTail DEF NextDeletion, TypeOK
    <2>2. d.keys \subseteq Keys
      BY <2>1, InvalidationParts
    <2>3. fallback' \in [Procs -> Seq(Deletion)]
      BY <1>9, <2>1 DEF NextDeletion, TypeOK
    <2>4. AdapterTypeOK'
      <3>1. CASE d.scan
        BY ZenonT(60), <1>9, <3>1, <2>2 DEF NextDeletion, CallDeleteByPrefix, shared,
          TypeOK, AdapterTypeOK, Locations
      <3>2. CASE ~d.scan
        BY <1>9, <3>2, <2>2 DEF NextDeletion, CallDelete, TypeOK,
          AdapterTypeOK, Locations
      <3> QED
        BY <3>1, <3>2
    <2> QED
      BY <1>9, <2>3, <2>4 DEF NextDeletion, TypeOK
  <1>10. ASSUME NEW p \in Procs, FinishWrite(p) PROVE TypeOK'
    BY SMTT(30), <1>10, BoundAssumption DEF BoundAssumption, FinishWrite, Invalidated,
      Return, shared
  <1>11. ASSUME NEW p \in Procs, LookupHit(p), UNCHANGED decorator
         PROVE  TypeOK'
    BY <1>11 DEF ControlOK, LookupHit, Goto, shared, decorator
  <1>12. ASSUME NEW p \in Procs, LookupMiss(p), UNCHANGED decorator
         PROVE  TypeOK'
    BY <1>12 DEF LookupMiss, Goto, shared, decorator
  <1>13. ASSUME NEW p \in Procs, LeadFlight(p), UNCHANGED decorator
         PROVE  TypeOK'
    BY <1>13 DEF ControlOK, LeadFlight, Goto, decorator
  <1>14. ASSUME NEW p \in Procs, JoinFlight(p), UNCHANGED decorator
         PROVE  TypeOK'
    BY <1>14 DEF JoinFlight, Goto, shared, decorator
  <1>15. ASSUME NEW p \in Procs, FetchFails(p), UNCHANGED decorator
         PROVE  TypeOK'
    BY <1>15 DEF FetchFails, Goto, shared, decorator
  <1>16. ASSUME NEW p \in Procs, StoreFetched(p), UNCHANGED decorator
         PROVE  TypeOK'
    BY <1>16 DEF ControlOK, StoreFetched, Goto, decorator
  <1>17. ASSUME NEW p \in Procs, LandFlight(p), UNCHANGED decorator
         PROVE  TypeOK'
    BY <1>17 DEF ControlOK, LandFlight, Aboard, decorator
  <1>18. ASSUME NEW p \in Procs, LockToAdd(p), UNCHANGED decorator
         PROVE  TypeOK'
    BY <1>18 DEF LockToAdd, Goto, decorator
  <1>19. ASSUME NEW p \in Procs, AddTag(p), UNCHANGED decorator PROVE TypeOK'
    <2>1. Head(todo[p]) \in Tags /\ Tail(todo[p]) \in Seq(Tags)
      BY <1>19, ElemsHeadTail DEF AddTag, TypeOK, AdapterTypeOK
    <2>2. key[p] \in Keys
      BY <1>19 DEF AddTag, ControlOK, TypeOK, Ops
    <2> QED
      BY <1>19, <2>1, <2>2 DEF AddTag, decorator, TypeOK, AdapterTypeOK
  <1>20. ASSUME NEW p \in Procs, UnlockAdded(p), UNCHANGED decorator
         PROVE  TypeOK'
    BY <1>20 DEF UnlockAdded, Goto, decorator
  <1>21. ASSUME NEW p \in Procs, LockToInvalidate(p), UNCHANGED decorator
         PROVE  TypeOK'
    BY <1>21 DEF LockToInvalidate, Goto, decorator
  <1>22. ASSUME NEW p \in Procs, LoadRegistry(p), UNCHANGED decorator
         PROVE  TypeOK'
    BY <1>22 DEF LoadRegistry, Goto, shared, decorator
  <1>23. ASSUME NEW p \in Procs, DropRegistry(p), UNCHANGED decorator
         PROVE  TypeOK'
    <2>1. Tail(todo[p]) \in Seq(Tags)
      BY <1>23, ElemsHeadTail DEF DropRegistry, Goto, ControlOK, TypeOK, AdapterTypeOK
    <2> QED
      BY <1>23, <2>1 DEF DropRegistry, Goto, decorator, TypeOK, AdapterTypeOK,
        Locations
  <1>24. ASSUME NEW p \in Procs, UnlockInvalidated(p), UNCHANGED decorator
         PROVE  TypeOK'
    BY <1>24 DEF UnlockInvalidated, Goto, decorator
  <1>25. ASSUME NEW p \in Procs, NEW k \in Keys,
                SweepKey(p, k), UNCHANGED decorator
         PROVE  TypeOK'
    BY <1>25 DEF SweepKey, decorator
  <1>26. ASSUME NEW p \in Procs, ScanKeys(p), UNCHANGED decorator PROVE TypeOK'
    BY <1>26 DEF ScanKeys, Goto, shared, decorator
  <1>27. ASSUME NEW p \in Procs, DeletedAll(p), UNCHANGED decorator
         PROVE  TypeOK'
    BY <1>27 DEF DeletedAll, Goto, shared, decorator
  <1>28. ASSUME NEW p \in Procs, NEW k \in Keys,
                DeleteKey(p, k), UNCHANGED decorator
         PROVE  TypeOK'
    BY <1>28 DEF DeleteKey, decorator
  <1>29. CASE UNCHANGED vars
    BY <1>29 DEF vars, shared, locals, decorator
  <1>30. ASSUME NEW p \in Procs, NEW w \in Writes, BaseWriteTx(p, w)
         PROVE  TypeOK'
    BY <1>30, PlanAssumption DEF PlanAssumption, BaseWriteTx, shared, locals
  <1>31. ASSUME NEW p \in Procs, FinishWriteTx(p)
         PROVE  TypeOK'
    BY <1>31 DEF FinishWriteTx, Invalidated, Return, shared
  <1>32. ASSUME NEW p \in Procs, CommitTx(p)
         PROVE  TypeOK'
    <2>1. committed \in Nat /\ committed + 1 \in 1..MaxWrites
      BY <1>32, BoundAssumption DEF CommitTx, Commit, TypeOK, Versions, BoundAssumption
    <2>2. Exposed \subseteq Keys
      BY DEF Exposed, ReadingNow
    <2>3. /\ committed' \in Versions
          /\ racers' \in [1..MaxWrites -> SUBSET Keys]
          /\ reach' \in [1..MaxWrites -> SUBSET Keys]
          /\ reached' \in [Procs -> SUBSET Keys]
          /\ op' \in [Procs -> Ops]
      BY <1>32, <2>1, <2>2 DEF CommitTx, Commit, TypeOK, Versions, Ops
    <2> QED
      BY <1>32, <2>3 DEF CommitTx, shared, locals, TypeOK, AdapterTypeOK
  <1>33. ASSUME NEW p \in Procs, RollbackTx(p)
         PROVE  TypeOK'
    BY <1>33 DEF RollbackTx, shared, locals
  <1> QED
    BY <1>1, <1>2, <1>3, <1>4, <1>5, <1>6, <1>7, <1>8, <1>9, <1>10, <1>11,
      <1>12, <1>13, <1>14, <1>15, <1>16, <1>17, <1>18, <1>19, <1>20, <1>21,
      <1>22, <1>23, <1>24, <1>25, <1>26, <1>27, <1>28, <1>29, <1>30, <1>31,
      <1>32, <1>33 DEF NextTx, WriteTx, Next, Evict, Read, Write, Service,
      CallStep, GetOrFetchStep, AddTagsStep, InvalidateTagsStep, DeleteStep

(* Every goroutine is where its method can be, with what it has there.     *)
LEMMA ControlStep ==
  ASSUME TypeOK, ControlOK, [NextTx]_vars
  PROVE  ControlOK'
  <1> USE NoneAssumption, ValuesAssumption, BoundAssumption, TagsAssumption
          DEF TypeOK, AdapterTypeOK, Versions, Ops, Locations, ControlOK,
          HasTagRegistry, NoneAssumption, ValuesAssumption, BoundAssumption,
          TagsAssumption
  <1>1. ASSUME NEW l \in Keys, EvictEntry(l), UNCHANGED decorator
        PROVE  ControlOK'
    BY <1>1 DEF EvictEntry, decorator, locals
  <1>2. ASSUME NEW p \in Procs, NEW l \in Keys, StartRead(p, l)
        PROVE  ControlOK'
    BY <1>2 DEF StartRead, CallGetOrFetch, shared
  <1>3. ASSUME NEW p \in Procs, FetchBase(p) PROVE ControlOK'
    BY SMTT(30), <1>3 DEF FetchBase, FetchReturns, Goto, shared, decorator
  <1>4. ASSUME NEW p \in Procs, RegisterTags(p) PROVE ControlOK'
    BY SMTT(30), <1>4 DEF RegisterTags, CallAddTags, shared
  <1>5. ASSUME NEW p \in Procs, FinishRead(p) PROVE ControlOK'
    BY <1>5 DEF FinishRead, Return, shared
  <1>6. ASSUME NEW p \in Procs, NEW w \in Writes, BaseWrite(p, w)
        PROVE  ControlOK'
    BY <1>6 DEF BaseWrite, Commit, shared, locals
  <1>7. ASSUME NEW p \in Procs, InvalidateByTags(p) PROVE ControlOK'
    BY SMTT(30), <1>7 DEF InvalidateByTags, CallInvalidateTags, shared
  <1>8. ASSUME NEW p \in Procs, FallBack(p) PROVE ControlOK'
    BY <1>8 DEF FallBack, shared, locals
  <1>9. ASSUME NEW p \in Procs, NextDeletion(p) PROVE ControlOK'
    BY SMTT(30), <1>9 DEF NextDeletion, CallDeleteByPrefix, CallDelete, shared
  <1>10. ASSUME NEW p \in Procs, FinishWrite(p) PROVE ControlOK'
    BY <1>10 DEF FinishWrite, Invalidated, Return, shared
  <1>11. ASSUME NEW p \in Procs, LookupHit(p), UNCHANGED decorator
         PROVE  ControlOK'
    BY SMTT(30), <1>11 DEF LookupHit, Goto, shared, decorator
  <1>12. ASSUME NEW p \in Procs, LookupMiss(p), UNCHANGED decorator
         PROVE  ControlOK'
    BY SMTT(30), <1>12 DEF LookupMiss, Goto, shared, decorator
  <1>13. ASSUME NEW p \in Procs, LeadFlight(p), UNCHANGED decorator
         PROVE  ControlOK'
    BY SMTT(30), <1>13 DEF LeadFlight, Goto, decorator
  <1>14. ASSUME NEW p \in Procs, JoinFlight(p), UNCHANGED decorator
         PROVE  ControlOK'
    BY SMTT(30), <1>14 DEF JoinFlight, Goto, shared, decorator
  <1>15. ASSUME NEW p \in Procs, FetchFails(p), UNCHANGED decorator
         PROVE  ControlOK'
    BY <1>15 DEF FetchFails, Goto, shared, decorator
  <1>16. ASSUME NEW p \in Procs, StoreFetched(p), UNCHANGED decorator
         PROVE  ControlOK'
    BY SMTT(30), <1>16 DEF StoreFetched, Goto, decorator
  <1>17. ASSUME NEW p \in Procs, LandFlight(p), UNCHANGED decorator
         PROVE  ControlOK'
    BY SMTT(30), <1>17 DEF LandFlight, Aboard, decorator
  <1>18. ASSUME NEW p \in Procs, LockToAdd(p), UNCHANGED decorator
         PROVE  ControlOK'
    BY <1>18 DEF LockToAdd, Goto, decorator
  <1>19. ASSUME NEW p \in Procs, AddTag(p), UNCHANGED decorator
         PROVE  ControlOK'
    BY <1>19 DEF AddTag, decorator
  <1>20. ASSUME NEW p \in Procs, UnlockAdded(p), UNCHANGED decorator
         PROVE  ControlOK'
    BY <1>20 DEF UnlockAdded, Goto, decorator
  <1>21. ASSUME NEW p \in Procs, LockToInvalidate(p), UNCHANGED decorator
         PROVE  ControlOK'
    BY <1>21 DEF LockToInvalidate, Goto, decorator
  <1>22. ASSUME NEW p \in Procs, LoadRegistry(p), UNCHANGED decorator
         PROVE  ControlOK'
    BY SMTT(30), <1>22 DEF LoadRegistry, Goto, shared, decorator
  <1>23. ASSUME NEW p \in Procs, DropRegistry(p), UNCHANGED decorator
         PROVE  ControlOK'
    BY SMTT(30), <1>23 DEF DropRegistry, Goto, decorator
  <1>24. ASSUME NEW p \in Procs, UnlockInvalidated(p), UNCHANGED decorator
         PROVE  ControlOK'
    BY <1>24 DEF UnlockInvalidated, Goto, decorator
  <1>25. ASSUME NEW p \in Procs, NEW l \in Keys,
                SweepKey(p, l), UNCHANGED decorator
         PROVE  ControlOK'
    BY <1>25 DEF SweepKey, decorator
  <1>26. ASSUME NEW p \in Procs, ScanKeys(p), UNCHANGED decorator
         PROVE  ControlOK'
    BY SMTT(30), <1>26 DEF ScanKeys, Goto, shared, decorator
  <1>27. ASSUME NEW p \in Procs, DeletedAll(p), UNCHANGED decorator
         PROVE  ControlOK'
    BY <1>27 DEF DeletedAll, Goto, shared, decorator
  <1>28. ASSUME NEW p \in Procs, NEW l \in Keys,
                DeleteKey(p, l), UNCHANGED decorator
         PROVE  ControlOK'
    BY <1>28 DEF DeleteKey, decorator
  <1>29. CASE UNCHANGED vars
    BY <1>29 DEF vars, shared, locals, decorator
  <1>30. ASSUME NEW p \in Procs, NEW w \in Writes, BaseWriteTx(p, w)
         PROVE  ControlOK'
    BY <1>30 DEF BaseWriteTx, shared, locals
  <1>31. ASSUME NEW p \in Procs, FinishWriteTx(p)
         PROVE  ControlOK'
    BY <1>31 DEF FinishWriteTx, Invalidated, Return, shared
  <1>32. ASSUME NEW p \in Procs, CommitTx(p)
         PROVE  ControlOK'
    BY <1>32 DEF CommitTx, Commit, shared, locals
  <1>33. ASSUME NEW p \in Procs, RollbackTx(p)
         PROVE  ControlOK'
    BY <1>33 DEF RollbackTx, shared, locals
  <1> QED
    BY <1>1, <1>2, <1>3, <1>4, <1>5, <1>6, <1>7, <1>8, <1>9, <1>10, <1>11,
      <1>12, <1>13, <1>14, <1>15, <1>16, <1>17, <1>18, <1>19, <1>20, <1>21,
      <1>22, <1>23, <1>24, <1>25, <1>26, <1>27, <1>28, <1>29, <1>30, <1>31,
      <1>32, <1>33 DEF NextTx, WriteTx, Next, Evict, Read, Write, Service,
      CallStep, GetOrFetchStep, AddTagsStep, InvalidateTagsStep, DeleteStep

(* Writes keep distinct numbers, and the outcome of one is set once.       *)
LEMMA WritesStep ==
  ASSUME TypeOK, ControlOK, WritesOK, [Next]_vars
  PROVE  WritesOK'
  <1>1. ASSUME NEW p \in Procs, NEW l \in Keys, StartRead(p, l) PROVE WritesOK'
    BY SMTT(30), <1>1, BoundAssumption DEF TypeOK, AdapterTypeOK, Versions, Ops,
      WritesOK, BoundAssumption, StartRead, CallGetOrFetch, shared
  <1>2. ASSUME NEW p \in Procs, RegisterTags(p) PROVE WritesOK'
    BY SMTT(30), <1>2, BoundAssumption DEF TypeOK, AdapterTypeOK, Versions, Ops,
      WritesOK, BoundAssumption, RegisterTags, CallAddTags, shared
  <1>3. ASSUME NEW p \in Procs, FinishRead(p) PROVE WritesOK'
    BY SMTT(30), <1>3, BoundAssumption DEF TypeOK, AdapterTypeOK, Versions, Ops,
      WritesOK, BoundAssumption, FinishRead, Return, shared
  <1>4. ASSUME NEW p \in Procs, NEW w \in Writes, BaseWrite(p, w)
        PROVE  WritesOK'
    <2>1. /\ committed \in Nat /\ committed < MaxWrites
          /\ committed' = committed + 1 /\ committed + 1 \in 1..MaxWrites
      BY <1>4, BoundAssumption DEF BaseWrite, Commit, TypeOK, Versions,
        BoundAssumption
    <2>2. reach[committed + 1] = {}
      BY <2>1 DEF WritesOK
    <2>3. \A q \in Procs \ {p} : op[q] = "write" => write[q] # committed + 1
      BY <2>1 DEF WritesOK
    <2>4. /\ op' = [op EXCEPT ![p] = "write"]
          /\ write' = [write EXCEPT ![p] = committed + 1]
          /\ UNCHANGED <<reach, before>>
      BY <1>4 DEF BaseWrite
    <2>5. /\ op'[p] = "write" /\ write'[p] = committed + 1
          /\ \A q \in Procs \ {p} : op'[q] = op[q] /\ write'[q] = write[q]
          /\ UNCHANGED <<fallback, reached>>
          /\ \A q \in Procs \ {p} : plan'[q] = plan[q]
      BY <1>4, <2>4 DEF BaseWrite, TypeOK
    <2> QED
      <3>1. ASSUME NEW q \in Procs, op'[q] = "write"
            PROVE  write'[q] \in 1..committed' /\ reach'[write'[q]] = {}
        BY <2>1, <2>2, <2>4, <2>5, <3>1 DEF WritesOK
      <3>2. ASSUME NEW q \in Procs, op'[q] # "write"
            PROVE  reached'[q] = {} /\ plan'[q] = <<>> /\ fallback'[q] = <<>>
        BY <2>5, <3>2 DEF WritesOK
      <3>3. ASSUME NEW q \in Procs, NEW r \in Procs \ {q},
                   op'[q] = "write", op'[r] = "write"
            PROVE  write'[q] # write'[r]
        BY <2>3, <2>5, <3>3 DEF WritesOK
      <3>4. \A q \in Procs : \A n \in before'[q] : reach'[n] # {}
        BY <2>4 DEF WritesOK
      <3>5. \A n \in 1..MaxWrites : n > committed' => reach'[n] = {}
        BY <2>1, <2>4, BoundAssumption DEF WritesOK, BoundAssumption
      <3>6. \A q \in Procs : op'[q] # "uncommitted"
        BY <2>5 DEF WritesOK
      <3> QED
        BY <3>1, <3>2, <3>3, <3>4, <3>5, <3>6 DEF WritesOK
  <1>5. ASSUME NEW p \in Procs, InvalidateByTags(p) PROVE WritesOK'
    <2> /\ op[p] = "write" /\ plan' = [plan EXCEPT ![p] = Tail(plan[p])]
        /\ \A q \in Procs \ {p} : reached'[q] = reached[q]
        /\ UNCHANGED <<op, fallback, committed, write, reach, before>>
      BY <1>5 DEF InvalidateByTags, TypeOK
    <2> QED
      BY <1>5 DEF WritesOK, TypeOK
  <1>6. ASSUME NEW p \in Procs, FallBack(p) PROVE WritesOK'
    <2> /\ op[p] = "write" /\ plan' = [plan EXCEPT ![p] = Tail(plan[p])]
        /\ \A q \in Procs \ {p} : reached'[q] = reached[q]
        /\ \A q \in Procs \ {p} : fallback'[q] = fallback[q]
        /\ UNCHANGED <<op, committed, write, reach, before>>
      BY <1>6 DEF FallBack, TypeOK
    <2> QED
      BY <1>6 DEF WritesOK, TypeOK
  <1>7. ASSUME NEW p \in Procs, NextDeletion(p) PROVE WritesOK'
    BY <1>7, BoundAssumption DEF TypeOK, AdapterTypeOK, Versions, Ops,
      WritesOK, BoundAssumption, NextDeletion, CallDeleteByPrefix, CallDelete,
      shared
  <1>8. ASSUME NEW p \in Procs, FinishWrite(p) PROVE WritesOK'
    <2>1. /\ op[p] = "write" /\ op'[p] = "none"
          /\ plan[p] = <<>> /\ fallback[p] = <<>> /\ reached'[p] = {}
          /\ \A q \in Procs \ {p} : op'[q] = op[q] /\ write'[q] = write[q]
          /\ \A q \in Procs \ {p} : reached'[q] = reached[q]
          /\ \A n \in 1..MaxWrites : n # write[p] => reach'[n] = reach[n]
          /\ UNCHANGED <<plan, fallback, committed, before>>
      BY <1>8 DEF FinishWrite, Invalidated, TypeOK
    <2>2. write[p] \in 1..committed /\ reach[write[p]] = {}
      BY <2>1 DEF WritesOK
    <2>3. committed \in Nat /\ committed <= MaxWrites
      BY BoundAssumption DEF TypeOK, Versions, BoundAssumption
    <2>4. ASSUME NEW q \in Procs, op'[q] = "write"
          PROVE  write'[q] \in 1..committed' /\ reach'[write'[q]] = {}
      <3>1. q # p /\ op[q] = "write"
        BY <2>1, <2>4
      <3>2. write[q] \in 1..committed /\ reach[write[q]] = {} /\ write[q] # write[p]
        BY <2>1, <3>1 DEF WritesOK
      <3>3. write[q] \in 1..MaxWrites
        BY <2>3, <3>2, BoundAssumption DEF BoundAssumption
      <3>4. write'[q] = write[q] /\ reach'[write[q]] = {} /\ committed' = committed
        BY <2>1, <3>1, <3>2, <3>3
      <3> QED
        BY <3>2, <3>4
    <2>5. ASSUME NEW q \in Procs, op'[q] # "write"
          PROVE  reached'[q] = {} /\ plan'[q] = <<>> /\ fallback'[q] = <<>>
      BY <2>1, <2>5 DEF WritesOK
    <2>6. ASSUME NEW q \in Procs, NEW r \in Procs \ {q},
                 op'[q] = "write", op'[r] = "write"
          PROVE  write'[q] # write'[r]
      BY <2>1, <2>6 DEF WritesOK
    <2>7. ASSUME NEW q \in Procs, NEW n \in before'[q]
          PROVE  reach'[n] # {}
      <3>1. n \in before[q] /\ n \in 1..MaxWrites /\ reach[n] # {}
        BY <2>1, <2>7 DEF WritesOK, TypeOK
      <3> QED
        BY <2>1, <2>2, <3>1
    <2>8. ASSUME NEW n \in 1..MaxWrites, n > committed' PROVE reach'[n] = {}
      BY <2>1, <2>2, <2>3, <2>8 DEF WritesOK
    <2>9. \A q \in Procs : op'[q] # "uncommitted"
      BY <2>1 DEF WritesOK
    <2> QED
      BY <2>4, <2>5, <2>6, <2>7, <2>8, <2>9 DEF WritesOK
  <1>9. CASE UNCHANGED decorator
    BY <1>9 DEF decorator, WritesOK
  <1> QED
    BY <1>1, <1>2, <1>3, <1>4, <1>5, <1>6, <1>7, <1>8, <1>9 DEF Next, Evict,
      Read, Write, Service, FetchBase, vars

-----------------------------------------------------------------------------
(* How a step changes what several parts of the invariant read.            *)

(* A deletion of a fallback, by prefix or by key.                          *)
LEMMA NextDeletionEffect ==
  ASSUME TypeOK, NEW p \in Procs, NextDeletion(p)
  PROVE  /\ op[p] = "write" /\ at[p] \in Outside /\ fallback[p] # <<>>
         /\ at'[p] \in {"scan", "done"} /\ fallback'[p] = Tail(fallback[p])
         /\ \A q \in Procs \ {p} : /\ at'[q] = at[q] /\ doomed'[q] = doomed[q]
                                   /\ fallback'[q] = fallback[q]
         /\ \A k \in Keys : entries'[k] \in {entries[k], None}
         /\ \A k \in Head(fallback[p]).keys :
              entries'[k] = None \/ (at'[p] = "scan" /\ k \in doomed'[p])
         /\ UNCHANGED <<registry, tagMu, flight, key, got, todo, op, plan,
                        committed, write, reached, reach, racers, before>>
  <1> DEFINE d == Head(fallback[p])
  <1>1. d \in Deletion
    BY ElemsHeadTail DEF NextDeletion, TypeOK
  <1>2. /\ op[p] = "write" /\ fallback[p] # <<>>
        /\ fallback'[p] = Tail(fallback[p])
        /\ \A q \in Procs \ {p} : fallback'[q] = fallback[q]
        /\ UNCHANGED <<op, plan, committed, write, reached, reach, racers, before>>
    BY DEF NextDeletion, TypeOK
  <1>3. CASE d.scan
    <2>1. CallDeleteByPrefix(p, d.keys)
      BY <1>3 DEF NextDeletion
    <2> QED
      BY <1>2, <2>1 DEF CallDeleteByPrefix, shared, TypeOK, AdapterTypeOK
  <1>4. CASE ~d.scan
    <2>1. d \in KeyDeletion
      BY <1>1, <1>4 DEF Deletion
    <2>2. PICK k \in d.keys : CallDelete(p, k)
      BY <1>4 DEF NextDeletion
    <2>3. d.keys = {k} /\ k \in Keys
      BY <2>1, <2>2 DEF KeyDeletion
    <2> QED
      BY <1>2, <2>2, <2>3 DEF CallDelete, TypeOK, AdapterTypeOK
  <1> QED
    BY <1>3, <1>4

(* What a step of the service does to the variables several parts read: an *)
(* entry is removed, or stored by a fetch of its key; data is held after a *)
(* step if it was before or was just fetched; and a goroutine has new data *)
(* from a hit, from its fetch, or from the end of a flight of its key.     *)
(* Results are stored, and invalidations begin, in one way each.           *)
EntryEffect(k) ==
  \/ entries'[k] \in {entries[k], None}
  \/ \E p \in Procs : StoreFetched(p) /\ key[p] = k /\ entries'[k] = got[p]

HeldEffect(p) ==
  HoldsFetched(p)' =>
    \/ HoldsFetched(p) /\ key'[p] = key[p] /\ got'[p] = got[p]
    \/ FetchBase(p)

GotEffect(p) ==
  \/ got'[p] \in {got[p], None}
  \/ LookupHit(p)
  \/ FetchBase(p)
  \/ \E q \in Procs : LandFlight(q) /\ key[q] = key[p] /\ got'[p] = got[q]

MoveEffect(p) ==
  /\ at[p] = "store" /\ at'[p] = "land" => StoreFetched(p)
  /\ at[p] \notin Invalidating /\ at'[p] \in Invalidating => InvalidateByTags(p)

(* Every step has these effects.                                           *)
LEMMA ServiceEffects ==
  ASSUME TypeOK, ControlOK, [NextTx]_vars
  PROVE  /\ \A k \in Keys : EntryEffect(k)
         /\ \A r \in Procs : HeldEffect(r) /\ GotEffect(r) /\ MoveEffect(r)
  <1> DEFINE Effects ==
        /\ \A k \in Keys : EntryEffect(k)
        /\ \A r \in Procs : HeldEffect(r) /\ GotEffect(r) /\ MoveEffect(r)
  <1> USE DEF TypeOK, AdapterTypeOK, Ops, EntryEffect, HeldEffect, GotEffect,
          MoveEffect, HoldsFetched, ControlOK
  <1>1. ASSUME NEW l \in Keys, EvictEntry(l), UNCHANGED decorator PROVE Effects
    BY <1>1 DEF EvictEntry, decorator, locals
  <1>2. ASSUME NEW p \in Procs, NEW l \in Keys, StartRead(p, l) PROVE Effects
    BY <1>2 DEF StartRead, CallGetOrFetch, shared
  <1>3. ASSUME NEW p \in Procs, FetchBase(p) PROVE Effects
    BY ZenonT(60), <1>3 DEF FetchBase, FetchReturns, Goto, shared, decorator
  <1>4. ASSUME NEW p \in Procs, RegisterTags(p) PROVE Effects
    BY <1>4 DEF RegisterTags, CallAddTags, shared
  <1>5. ASSUME NEW p \in Procs, FinishRead(p) PROVE Effects
    BY <1>5 DEF FinishRead, Return, shared
  <1>6. ASSUME NEW p \in Procs, NEW w \in Writes, BaseWrite(p, w) PROVE Effects
    BY <1>6 DEF BaseWrite, Commit, shared, locals
  <1>7. ASSUME NEW p \in Procs, InvalidateByTags(p) PROVE Effects
    <2>1. /\ \A r \in Procs \ {p} : at'[r] = at[r]
          /\ at'[p] \in {"done", "invLock"} /\ UNCHANGED <<entries, key, got>>
      BY <1>7 DEF InvalidateByTags, CallInvalidateTags, shared
    <2> QED
      BY <1>7, <2>1
  <1>8. ASSUME NEW p \in Procs, FallBack(p) PROVE Effects
    BY <1>8 DEF FallBack, shared, locals
  <1>9. ASSUME NEW p \in Procs, NextDeletion(p) PROVE Effects
    BY <1>9, NextDeletionEffect DEF NextDeletion, CallDeleteByPrefix,
      CallDelete, shared
  <1>10. ASSUME NEW p \in Procs, FinishWrite(p) PROVE Effects
    BY <1>10 DEF FinishWrite, Invalidated, Return, shared
  <1>11. ASSUME NEW p \in Procs, LookupHit(p), UNCHANGED decorator
         PROVE  Effects
    <2>1. /\ \A r \in Procs \ {p} : at'[r] = at[r] /\ got'[r] = got[r]
          /\ at'[p] = "served" /\ UNCHANGED <<entries, key>>
      BY <1>11 DEF LookupHit, Goto, shared, decorator
    <2> QED
      BY <1>11, <2>1
  <1>12. ASSUME NEW p \in Procs, LookupMiss(p), UNCHANGED decorator
         PROVE  Effects
    BY <1>12 DEF LookupMiss, Goto, shared, decorator
  <1>13. ASSUME NEW p \in Procs, LeadFlight(p), UNCHANGED decorator
         PROVE  Effects
    BY <1>13 DEF LeadFlight, Goto, decorator
  <1>14. ASSUME NEW p \in Procs, JoinFlight(p), UNCHANGED decorator
         PROVE  Effects
    BY <1>14 DEF JoinFlight, Goto, shared, decorator
  <1>15. ASSUME NEW p \in Procs, FetchFails(p), UNCHANGED decorator
         PROVE  Effects
    BY <1>15 DEF FetchFails, Goto, shared, decorator
  <1>16. ASSUME NEW p \in Procs, StoreFetched(p), UNCHANGED decorator
         PROVE  Effects
    <2>1. /\ at[p] = "store" /\ at'[p] = "land" /\ key[p] \in Keys
          /\ \A r \in Procs \ {p} : at'[r] = at[r]
          /\ entries' = [entries EXCEPT ![key[p]] = got[p]] /\ UNCHANGED <<key, got>>
      BY <1>16 DEF StoreFetched, Goto, decorator
    <2>2. \A k \in Keys : entries'[k] = entries[k] \/ (key[p] = k /\ entries'[k] = got[p])
      BY <2>1
    <2> QED
      BY <1>16, <2>1, <2>2
  <1>17. ASSUME NEW p \in Procs, LandFlight(p), UNCHANGED decorator
         PROVE  Effects
    BY <1>17 DEF LandFlight, Aboard, decorator
  <1>18. ASSUME NEW p \in Procs, LockToAdd(p), UNCHANGED decorator
         PROVE  Effects
    BY <1>18 DEF LockToAdd, Goto, decorator
  <1>19. ASSUME NEW p \in Procs, AddTag(p), UNCHANGED decorator PROVE Effects
    BY <1>19 DEF AddTag, decorator
  <1>20. ASSUME NEW p \in Procs, UnlockAdded(p), UNCHANGED decorator
         PROVE  Effects
    BY <1>20 DEF UnlockAdded, Goto, decorator
  <1>21. ASSUME NEW p \in Procs, LockToInvalidate(p), UNCHANGED decorator
         PROVE  Effects
    BY <1>21 DEF LockToInvalidate, Goto, decorator
  <1>22. ASSUME NEW p \in Procs, LoadRegistry(p), UNCHANGED decorator
         PROVE  Effects
    BY <1>22 DEF LoadRegistry, Goto, shared, decorator
  <1>23. ASSUME NEW p \in Procs, DropRegistry(p), UNCHANGED decorator
         PROVE  Effects
    BY <1>23 DEF DropRegistry, Goto, decorator
  <1>24. ASSUME NEW p \in Procs, UnlockInvalidated(p), UNCHANGED decorator
         PROVE  Effects
    BY <1>24 DEF UnlockInvalidated, Goto, decorator
  <1>25. ASSUME NEW p \in Procs, NEW l \in Keys,
                SweepKey(p, l), UNCHANGED decorator
         PROVE  Effects
    BY <1>25 DEF SweepKey, decorator
  <1>26. ASSUME NEW p \in Procs, ScanKeys(p), UNCHANGED decorator PROVE Effects
    BY <1>26 DEF ScanKeys, Goto, shared, decorator
  <1>27. ASSUME NEW p \in Procs, DeletedAll(p), UNCHANGED decorator
         PROVE  Effects
    BY <1>27 DEF DeletedAll, Goto, shared, decorator
  <1>28. ASSUME NEW p \in Procs, NEW l \in Keys,
                DeleteKey(p, l), UNCHANGED decorator
         PROVE  Effects
    BY <1>28 DEF DeleteKey, decorator
  <1>29. CASE UNCHANGED vars
    BY <1>29 DEF vars, shared, locals, decorator
  <1>30. ASSUME NEW p \in Procs, NEW w \in Writes, BaseWriteTx(p, w)
         PROVE  Effects
    BY <1>30 DEF BaseWriteTx, shared, locals
  <1>31. ASSUME NEW p \in Procs, FinishWriteTx(p)
         PROVE  Effects
    BY <1>31 DEF FinishWriteTx, Invalidated, Return, shared
  <1>32. ASSUME NEW p \in Procs, CommitTx(p)
         PROVE  Effects
    BY <1>32 DEF CommitTx, Commit, shared, locals
  <1>33. ASSUME NEW p \in Procs, RollbackTx(p)
         PROVE  Effects
    BY <1>33 DEF RollbackTx, shared, locals
  <1> QED
    BY <1>1, <1>2, <1>3, <1>4, <1>5, <1>6, <1>7, <1>8, <1>9, <1>10, <1>11,
      <1>12, <1>13, <1>14, <1>15, <1>16, <1>17, <1>18, <1>19, <1>20, <1>21,
      <1>22, <1>23, <1>24, <1>25, <1>26, <1>27, <1>28, <1>29, <1>30, <1>31,
      <1>32, <1>33 DEF NextTx, WriteTx, Next, Evict, Read, Write, Service,
      CallStep, GetOrFetchStep, AddTagsStep, InvalidateTagsStep, DeleteStep

(* What a step of the decorator does to the history: a commit takes the    *)
(* next version and records its races, which are settled from then on, and *)
(* a write's outcome is set when it finishes.                              *)
CommitEffect ==
  \/ UNCHANGED <<committed, racers>>
  \/ /\ committed < MaxWrites /\ committed' = committed + 1
     /\ racers' = [racers EXCEPT ![committed + 1] = Exposed]

OutcomeEffect ==
  UNCHANGED reach \/ \E p \in Procs : FinishWrite(p) \/ CommitTx(p)

WriterEffect(p) ==
  op'[p] = "write" =>
    \/ op[p] = "write" /\ write'[p] = write[p]
    \/ op[p] = "none" /\ at'[p] = at[p] /\ reached'[p] = reached[p]

(* Every step has these effects.                                           *)
LEMMA HistoryEffects ==
  ASSUME TypeOK, [NextTx]_vars
  PROVE  CommitEffect /\ OutcomeEffect /\ \A p \in Procs : WriterEffect(p)
  <1> DEFINE Effects ==
        CommitEffect /\ OutcomeEffect /\ \A p \in Procs : WriterEffect(p)
  <1> USE DEF TypeOK, CommitEffect, OutcomeEffect, WriterEffect
  <1>1. ASSUME NEW p \in Procs, NEW l \in Keys, StartRead(p, l)
        PROVE  Effects
    BY <1>1 DEF StartRead, CallGetOrFetch, shared
  <1>2. ASSUME NEW p \in Procs, RegisterTags(p)
        PROVE  Effects
    BY <1>2 DEF RegisterTags, CallAddTags, shared
  <1>3. ASSUME NEW p \in Procs, FinishRead(p)
        PROVE  Effects
    BY <1>3 DEF FinishRead, Return, shared
  <1>4. ASSUME NEW p \in Procs, NEW w \in Writes, BaseWrite(p, w)
        PROVE  Effects
    BY <1>4 DEF Commit, BaseWrite, shared, locals
  <1>5. ASSUME NEW p \in Procs, InvalidateByTags(p)
        PROVE  Effects
    BY <1>5 DEF InvalidateByTags, CallInvalidateTags, shared
  <1>6. ASSUME NEW p \in Procs, FallBack(p) PROVE Effects
    BY <1>6 DEF FallBack, shared, locals
  <1>7. ASSUME NEW p \in Procs, NextDeletion(p)
        PROVE  Effects
    BY <1>7 DEF NextDeletion, CallDeleteByPrefix, CallDelete, shared
  <1>8. ASSUME NEW p \in Procs, FinishWrite(p)
        PROVE  Effects
    BY <1>8 DEF FinishWrite, Invalidated, Return, shared
  <1>9. CASE UNCHANGED decorator
    BY <1>9 DEF decorator
  <1>10. ASSUME NEW p \in Procs, NEW w \in Writes, BaseWriteTx(p, w)
         PROVE  Effects
    BY <1>10 DEF BaseWriteTx, shared, locals
  <1>11. ASSUME NEW p \in Procs, FinishWriteTx(p)
         PROVE  Effects
    BY <1>11 DEF FinishWriteTx, Invalidated, Return, shared
  <1>12. ASSUME NEW p \in Procs, CommitTx(p)
         PROVE  Effects
    BY <1>12 DEF CommitTx, Commit, shared, locals
  <1>13. ASSUME NEW p \in Procs, RollbackTx(p)
         PROVE  Effects
    BY <1>13 DEF RollbackTx, shared, locals
  <1> QED
    BY <1>1, <1>2, <1>3, <1>4, <1>5, <1>6, <1>7, <1>8, <1>9, <1>10, <1>11,
      <1>12, <1>13 DEF NextTx, WriteTx, Next, Evict, Read, Write, Service,
      FetchBase, vars

(* The version only grows, by one.                                         *)
LEMMA CommitStep ==
  ASSUME TypeOK, [NextTx]_vars
  PROVE  committed \in Nat /\ (committed' = committed \/ committed' = committed + 1)
  BY HistoryEffects, BoundAssumption
  DEF CommitEffect, TypeOK, Versions, BoundAssumption

(* The races of a committed write are settled; a commit records its own.   *)
LEMMA RacersStep ==
  ASSUME TypeOK, [NextTx]_vars, NEW n \in 1..committed'
  PROVE  \/ n \in 1..committed /\ racers'[n] = racers[n]
         \/ n = committed + 1 /\ racers'[n] = Exposed
  <1>1. committed \in Nat /\ MaxWrites \in Nat
    BY CommitStep, BoundAssumption DEF BoundAssumption
  <1>2. CASE UNCHANGED <<committed, racers>>
    BY <1>2
  <1>3. CASE /\ committed < MaxWrites /\ committed' = committed + 1
             /\ racers' = [racers EXCEPT ![committed + 1] = Exposed]
    <2>1. committed + 1 \in 1..MaxWrites
      BY <1>1, <1>3
    <2>2. CASE n = committed + 1
      BY <1>3, <2>1, <2>2 DEF TypeOK
    <2>3. CASE n # committed + 1
      <3>1. n \in 1..committed /\ n \in 1..MaxWrites
        BY <1>1, <1>3, <2>1, <2>3
      <3> QED
        BY <1>3, <2>3, <3>1 DEF TypeOK
    <2> QED
      BY <2>2, <2>3
  <1> QED
    BY <1>2, <1>3, HistoryEffects DEF CommitEffect

(* What a finished write covers is set when it finishes.                   *)
LEMMA ReachStep ==
  ASSUME TypeOK, [NextTx]_vars, NEW n \in 1..MaxWrites, reach'[n] # reach[n]
  PROVE  \E p \in Procs : \/ FinishWrite(p) /\ n = write[p]
                          \/ CommitTx(p) /\ n = committed + 1
  <1>1. PICK p \in Procs : FinishWrite(p) \/ CommitTx(p)
    BY HistoryEffects DEF OutcomeEffect
  <1> QED
    BY <1>1 DEF FinishWrite, CommitTx, TypeOK

-----------------------------------------------------------------------------
(* tagMu excludes: only its holder is at a step that uses a registry.      *)
LEMMA LockStep ==
  ASSUME TypeOK, ControlOK, LockOK, [NextTx]_vars
  PROVE  LockOK'
  <1> USE NoneAssumption DEF TypeOK, AdapterTypeOK, Ops, ControlOK, LockOK,
          NoneAssumption
  <1>1. ASSUME NEW l \in Keys, EvictEntry(l), UNCHANGED decorator PROVE LockOK'
    BY <1>1 DEF EvictEntry, decorator, locals
  <1>2. ASSUME NEW p \in Procs, NEW l \in Keys, StartRead(p, l) PROVE LockOK'
    BY <1>2 DEF StartRead, CallGetOrFetch, shared
  <1>3. ASSUME NEW p \in Procs, FetchBase(p) PROVE LockOK'
    BY <1>3 DEF FetchBase, FetchReturns, Goto, shared, decorator
  <1>4. ASSUME NEW p \in Procs, RegisterTags(p) PROVE LockOK'
    BY <1>4 DEF RegisterTags, CallAddTags, shared
  <1>5. ASSUME NEW p \in Procs, FinishRead(p) PROVE LockOK'
    BY <1>5 DEF FinishRead, Return, shared
  <1>6. ASSUME NEW p \in Procs, NEW w \in Writes, BaseWrite(p, w) PROVE LockOK'
    BY <1>6 DEF BaseWrite, Commit, shared, locals
  <1>7. ASSUME NEW p \in Procs, InvalidateByTags(p) PROVE LockOK'
    BY <1>7 DEF InvalidateByTags, CallInvalidateTags, shared
  <1>8. ASSUME NEW p \in Procs, FallBack(p) PROVE LockOK'
    BY <1>8 DEF FallBack, shared, locals
  <1>9. ASSUME NEW p \in Procs, NextDeletion(p) PROVE LockOK'
    BY <1>9 DEF NextDeletion, CallDeleteByPrefix, CallDelete, shared
  <1>10. ASSUME NEW p \in Procs, FinishWrite(p) PROVE LockOK'
    BY <1>10 DEF FinishWrite, Invalidated, Return, shared
  <1>11. ASSUME NEW p \in Procs, LookupHit(p), UNCHANGED decorator
         PROVE  LockOK'
    BY <1>11 DEF LookupHit, Goto, shared, decorator
  <1>12. ASSUME NEW p \in Procs, LookupMiss(p), UNCHANGED decorator
         PROVE  LockOK'
    BY <1>12 DEF LookupMiss, Goto, shared, decorator
  <1>13. ASSUME NEW p \in Procs, LeadFlight(p), UNCHANGED decorator
         PROVE  LockOK'
    BY <1>13 DEF LeadFlight, Goto, decorator
  <1>14. ASSUME NEW p \in Procs, JoinFlight(p), UNCHANGED decorator
         PROVE  LockOK'
    BY <1>14 DEF JoinFlight, Goto, shared, decorator
  <1>15. ASSUME NEW p \in Procs, FetchFails(p), UNCHANGED decorator
         PROVE  LockOK'
    BY <1>15 DEF FetchFails, Goto, shared, decorator
  <1>16. ASSUME NEW p \in Procs, StoreFetched(p), UNCHANGED decorator
         PROVE  LockOK'
    BY <1>16 DEF StoreFetched, Goto, decorator
  <1>17. ASSUME NEW p \in Procs, LandFlight(p), UNCHANGED decorator
         PROVE  LockOK'
    BY <1>17 DEF LandFlight, Aboard, decorator
  <1>18. ASSUME NEW p \in Procs, LockToAdd(p), UNCHANGED decorator
         PROVE  LockOK'
    BY <1>18 DEF LockToAdd, Goto, decorator
  <1>19. ASSUME NEW p \in Procs, AddTag(p), UNCHANGED decorator PROVE LockOK'
    BY <1>19 DEF AddTag, decorator
  <1>20. ASSUME NEW p \in Procs, UnlockAdded(p), UNCHANGED decorator
         PROVE  LockOK'
    BY <1>20 DEF UnlockAdded, Goto, decorator
  <1>21. ASSUME NEW p \in Procs, LockToInvalidate(p), UNCHANGED decorator
         PROVE  LockOK'
    BY <1>21 DEF LockToInvalidate, Goto, decorator
  <1>22. ASSUME NEW p \in Procs, LoadRegistry(p), UNCHANGED decorator
         PROVE  LockOK'
    BY <1>22 DEF LoadRegistry, Goto, shared, decorator
  <1>23. ASSUME NEW p \in Procs, DropRegistry(p), UNCHANGED decorator
         PROVE  LockOK'
    BY <1>23 DEF DropRegistry, Goto, decorator
  <1>24. ASSUME NEW p \in Procs, UnlockInvalidated(p), UNCHANGED decorator
         PROVE  LockOK'
    BY <1>24 DEF UnlockInvalidated, Goto, decorator
  <1>25. ASSUME NEW p \in Procs, NEW l \in Keys,
                SweepKey(p, l), UNCHANGED decorator
         PROVE  LockOK'
    BY <1>25 DEF SweepKey, decorator
  <1>26. ASSUME NEW p \in Procs, ScanKeys(p), UNCHANGED decorator PROVE LockOK'
    BY <1>26 DEF ScanKeys, Goto, shared, decorator
  <1>27. ASSUME NEW p \in Procs, DeletedAll(p), UNCHANGED decorator
         PROVE  LockOK'
    BY <1>27 DEF DeletedAll, Goto, shared, decorator
  <1>28. ASSUME NEW p \in Procs, NEW l \in Keys,
                DeleteKey(p, l), UNCHANGED decorator
         PROVE  LockOK'
    BY <1>28 DEF DeleteKey, decorator
  <1>29. CASE UNCHANGED vars
    BY <1>29 DEF vars, shared, locals, decorator
  <1>30. ASSUME NEW p \in Procs, NEW w \in Writes, BaseWriteTx(p, w)
         PROVE  LockOK'
    BY <1>30 DEF BaseWriteTx, shared, locals
  <1>31. ASSUME NEW p \in Procs, FinishWriteTx(p)
         PROVE  LockOK'
    BY <1>31 DEF FinishWriteTx, Invalidated, Return, shared
  <1>32. ASSUME NEW p \in Procs, CommitTx(p)
         PROVE  LockOK'
    BY <1>32 DEF CommitTx, Commit, shared, locals
  <1>33. ASSUME NEW p \in Procs, RollbackTx(p)
         PROVE  LockOK'
    BY <1>33 DEF RollbackTx, shared, locals
  <1> QED
    BY <1>1, <1>2, <1>3, <1>4, <1>5, <1>6, <1>7, <1>8, <1>9, <1>10, <1>11,
      <1>12, <1>13, <1>14, <1>15, <1>16, <1>17, <1>18, <1>19, <1>20, <1>21,
      <1>22, <1>23, <1>24, <1>25, <1>26, <1>27, <1>28, <1>29, <1>30, <1>31,
      <1>32, <1>33 DEF NextTx, WriteTx, Next, Evict, Read, Write, Service,
      CallStep, GetOrFetchStep, AddTagsStep, InvalidateTagsStep, DeleteStep

(* While AddTags runs, a tag of its key is still to do or lists the key:   *)
(* nobody can drop the registry meanwhile.                                 *)
LEMMA AddingStep ==
  ASSUME TypeOK, ControlOK, LockOK, AddingOK, [NextTx]_vars
  PROVE  AddingOK'
  <1> USE TagsAssumption, ElemsHeadTail, ElemsEmpty DEF TypeOK, AdapterTypeOK,
          Ops, ControlOK, LockOK, AddingOK, TagsAssumption
  <1>1. ASSUME NEW l \in Keys, EvictEntry(l), UNCHANGED decorator
        PROVE  AddingOK'
    BY <1>1 DEF EvictEntry, decorator, locals
  <1>2. ASSUME NEW p \in Procs, NEW l \in Keys, StartRead(p, l) PROVE AddingOK'
    BY <1>2 DEF StartRead, CallGetOrFetch, shared
  <1>3. ASSUME NEW p \in Procs, FetchBase(p) PROVE AddingOK'
    BY <1>3 DEF FetchBase, FetchReturns, Goto, shared, decorator
  <1>4. ASSUME NEW p \in Procs, RegisterTags(p) PROVE AddingOK'
    BY <1>4 DEF RegisterTags, CallAddTags, shared
  <1>5. ASSUME NEW p \in Procs, FinishRead(p) PROVE AddingOK'
    BY <1>5 DEF FinishRead, Return, shared
  <1>6. ASSUME NEW p \in Procs, NEW w \in Writes, BaseWrite(p, w)
        PROVE  AddingOK'
    BY <1>6 DEF BaseWrite, Commit, shared, locals
  <1>7. ASSUME NEW p \in Procs, InvalidateByTags(p) PROVE AddingOK'
    BY <1>7 DEF InvalidateByTags, CallInvalidateTags, shared
  <1>8. ASSUME NEW p \in Procs, FallBack(p) PROVE AddingOK'
    BY <1>8 DEF FallBack, shared, locals
  <1>9. ASSUME NEW p \in Procs, NextDeletion(p) PROVE AddingOK'
    <2>1. /\ at'[p] # "adding" /\ UNCHANGED <<registry, key, todo>>
          /\ \A q \in Procs \ {p} : at'[q] = at[q]
      BY <1>9 DEF NextDeletion, CallDeleteByPrefix, CallDelete, shared
    <2> QED
      BY <2>1
  <1>10. ASSUME NEW p \in Procs, FinishWrite(p) PROVE AddingOK'
    BY <1>10 DEF FinishWrite, Invalidated, Return, shared
  <1>11. ASSUME NEW p \in Procs, LookupHit(p), UNCHANGED decorator
         PROVE  AddingOK'
    BY <1>11 DEF LookupHit, Goto, shared, decorator
  <1>12. ASSUME NEW p \in Procs, LookupMiss(p), UNCHANGED decorator
         PROVE  AddingOK'
    BY <1>12 DEF LookupMiss, Goto, shared, decorator
  <1>13. ASSUME NEW p \in Procs, LeadFlight(p), UNCHANGED decorator
         PROVE  AddingOK'
    BY <1>13 DEF LeadFlight, Goto, decorator
  <1>14. ASSUME NEW p \in Procs, JoinFlight(p), UNCHANGED decorator
         PROVE  AddingOK'
    BY <1>14 DEF JoinFlight, Goto, shared, decorator
  <1>15. ASSUME NEW p \in Procs, FetchFails(p), UNCHANGED decorator
         PROVE  AddingOK'
    BY <1>15 DEF FetchFails, Goto, shared, decorator
  <1>16. ASSUME NEW p \in Procs, StoreFetched(p), UNCHANGED decorator
         PROVE  AddingOK'
    BY <1>16 DEF StoreFetched, Goto, decorator
  <1>17. ASSUME NEW p \in Procs, LandFlight(p), UNCHANGED decorator
         PROVE  AddingOK'
    BY <1>17 DEF LandFlight, Aboard, decorator
  <1>18. ASSUME NEW p \in Procs, LockToAdd(p), UNCHANGED decorator
         PROVE  AddingOK'
    BY <1>18 DEF LockToAdd, Goto, decorator
  <1>19. ASSUME NEW p \in Procs, AddTag(p), UNCHANGED decorator PROVE AddingOK'
    BY <1>19 DEF AddTag, decorator
  <1>20. ASSUME NEW p \in Procs, UnlockAdded(p), UNCHANGED decorator
         PROVE  AddingOK'
    BY <1>20 DEF UnlockAdded, Goto, decorator
  <1>21. ASSUME NEW p \in Procs, LockToInvalidate(p), UNCHANGED decorator
         PROVE  AddingOK'
    BY <1>21 DEF LockToInvalidate, Goto, decorator
  <1>22. ASSUME NEW p \in Procs, LoadRegistry(p), UNCHANGED decorator
         PROVE  AddingOK'
    BY <1>22 DEF LoadRegistry, Goto, shared, decorator
  <1>23. ASSUME NEW p \in Procs, DropRegistry(p), UNCHANGED decorator
         PROVE  AddingOK'
    BY <1>23 DEF DropRegistry, Goto, decorator
  <1>24. ASSUME NEW p \in Procs, UnlockInvalidated(p), UNCHANGED decorator
         PROVE  AddingOK'
    BY <1>24 DEF UnlockInvalidated, Goto, decorator
  <1>25. ASSUME NEW p \in Procs, NEW l \in Keys,
                SweepKey(p, l), UNCHANGED decorator
         PROVE  AddingOK'
    BY <1>25 DEF SweepKey, decorator
  <1>26. ASSUME NEW p \in Procs, ScanKeys(p), UNCHANGED decorator
         PROVE  AddingOK'
    BY <1>26 DEF ScanKeys, Goto, shared, decorator
  <1>27. ASSUME NEW p \in Procs, DeletedAll(p), UNCHANGED decorator
         PROVE  AddingOK'
    BY <1>27 DEF DeletedAll, Goto, shared, decorator
  <1>28. ASSUME NEW p \in Procs, NEW l \in Keys,
                DeleteKey(p, l), UNCHANGED decorator
         PROVE  AddingOK'
    BY <1>28 DEF DeleteKey, decorator
  <1>29. CASE UNCHANGED vars
    BY <1>29 DEF vars, shared, locals, decorator
  <1>30. ASSUME NEW p \in Procs, NEW w \in Writes, BaseWriteTx(p, w)
         PROVE  AddingOK'
    BY <1>30 DEF BaseWriteTx, shared, locals
  <1>31. ASSUME NEW p \in Procs, FinishWriteTx(p)
         PROVE  AddingOK'
    BY <1>31 DEF FinishWriteTx, Invalidated, Return, shared
  <1>32. ASSUME NEW p \in Procs, CommitTx(p)
         PROVE  AddingOK'
    BY <1>32 DEF CommitTx, Commit, shared, locals
  <1>33. ASSUME NEW p \in Procs, RollbackTx(p)
         PROVE  AddingOK'
    BY <1>33 DEF RollbackTx, shared, locals
  <1> QED
    BY <1>1, <1>2, <1>3, <1>4, <1>5, <1>6, <1>7, <1>8, <1>9, <1>10, <1>11,
      <1>12, <1>13, <1>14, <1>15, <1>16, <1>17, <1>18, <1>19, <1>20, <1>21,
      <1>22, <1>23, <1>24, <1>25, <1>26, <1>27, <1>28, <1>29, <1>30, <1>31,
      <1>32, <1>33 DEF NextTx, WriteTx, Next, Evict, Read, Write, Service,
      CallStep, GetOrFetchStep, AddTagsStep, InvalidateTagsStep, DeleteStep

(* The in-flight map names the one goroutine that leads a key's fetch.     *)
LEMMA FlightStep ==
  ASSUME TypeOK, ControlOK, FlightOK, [NextTx]_vars
  PROVE  FlightOK'
  <1> USE NoneAssumption DEF TypeOK, AdapterTypeOK, Ops, ControlOK, FlightOK,
          NoneAssumption
  <1>1. ASSUME NEW l \in Keys, EvictEntry(l), UNCHANGED decorator
        PROVE  FlightOK'
    BY <1>1 DEF EvictEntry, decorator, locals
  <1>2. ASSUME NEW p \in Procs, NEW l \in Keys, StartRead(p, l) PROVE FlightOK'
    BY <1>2 DEF StartRead, CallGetOrFetch, shared
  <1>3. ASSUME NEW p \in Procs, FetchBase(p) PROVE FlightOK'
    BY <1>3 DEF FetchBase, FetchReturns, Goto, shared, decorator
  <1>4. ASSUME NEW p \in Procs, RegisterTags(p) PROVE FlightOK'
    BY <1>4 DEF RegisterTags, CallAddTags, shared
  <1>5. ASSUME NEW p \in Procs, FinishRead(p) PROVE FlightOK'
    BY <1>5 DEF FinishRead, Return, shared
  <1>6. ASSUME NEW p \in Procs, NEW w \in Writes, BaseWrite(p, w)
        PROVE  FlightOK'
    BY <1>6 DEF BaseWrite, Commit, shared, locals
  <1>7. ASSUME NEW p \in Procs, InvalidateByTags(p) PROVE FlightOK'
    BY <1>7 DEF InvalidateByTags, CallInvalidateTags, shared
  <1>8. ASSUME NEW p \in Procs, FallBack(p) PROVE FlightOK'
    BY <1>8 DEF FallBack, shared, locals
  <1>9. ASSUME NEW p \in Procs, NextDeletion(p) PROVE FlightOK'
    BY <1>9 DEF NextDeletion, CallDeleteByPrefix, CallDelete, shared
  <1>10. ASSUME NEW p \in Procs, FinishWrite(p) PROVE FlightOK'
    BY <1>10 DEF FinishWrite, Invalidated, Return, shared
  <1>11. ASSUME NEW p \in Procs, LookupHit(p), UNCHANGED decorator
         PROVE  FlightOK'
    BY <1>11 DEF LookupHit, Goto, shared, decorator
  <1>12. ASSUME NEW p \in Procs, LookupMiss(p), UNCHANGED decorator
         PROVE  FlightOK'
    BY <1>12 DEF LookupMiss, Goto, shared, decorator
  <1>13. ASSUME NEW p \in Procs, LeadFlight(p), UNCHANGED decorator
         PROVE  FlightOK'
    <2>1. key[p] \in Keys
      BY <1>13 DEF LeadFlight, Goto, ControlOK, TypeOK, Ops
    <2>2. ASSUME NEW q \in Procs, at'[q] \in Leading PROVE flight'[key'[q]] = q
      <3>1. CASE q = p
        BY <1>13, <2>1, <3>1 DEF LeadFlight, Goto, TypeOK, AdapterTypeOK
      <3>2. CASE q # p
        <4>1. at[q] \in Leading /\ flight[key[q]] = q /\ key'[q] = key[q]
          BY <1>13, <2>2, <3>2 DEF LeadFlight, Goto, TypeOK, AdapterTypeOK, FlightOK
        <4>2. key[q] # key[p]
          BY <1>13, <4>1, NoneAssumption DEF LeadFlight, NoneAssumption
        <4> QED
          BY <1>13, <4>1, <4>2 DEF LeadFlight, TypeOK, AdapterTypeOK
      <3> QED
        BY <3>1, <3>2
    <2> QED
      BY <2>2 DEF FlightOK
  <1>14. ASSUME NEW p \in Procs, JoinFlight(p), UNCHANGED decorator
         PROVE  FlightOK'
    BY <1>14 DEF JoinFlight, Goto, shared, decorator
  <1>15. ASSUME NEW p \in Procs, FetchFails(p), UNCHANGED decorator
         PROVE  FlightOK'
    BY <1>15 DEF FetchFails, Goto, shared, decorator
  <1>16. ASSUME NEW p \in Procs, StoreFetched(p), UNCHANGED decorator
         PROVE  FlightOK'
    BY <1>16 DEF StoreFetched, Goto, decorator
  <1>17. ASSUME NEW p \in Procs, LandFlight(p), UNCHANGED decorator
         PROVE  FlightOK'
    BY <1>17 DEF LandFlight, Aboard, decorator
  <1>18. ASSUME NEW p \in Procs, LockToAdd(p), UNCHANGED decorator
         PROVE  FlightOK'
    BY <1>18 DEF LockToAdd, Goto, decorator
  <1>19. ASSUME NEW p \in Procs, AddTag(p), UNCHANGED decorator PROVE FlightOK'
    BY <1>19 DEF AddTag, decorator
  <1>20. ASSUME NEW p \in Procs, UnlockAdded(p), UNCHANGED decorator
         PROVE  FlightOK'
    BY <1>20 DEF UnlockAdded, Goto, decorator
  <1>21. ASSUME NEW p \in Procs, LockToInvalidate(p), UNCHANGED decorator
         PROVE  FlightOK'
    BY <1>21 DEF LockToInvalidate, Goto, decorator
  <1>22. ASSUME NEW p \in Procs, LoadRegistry(p), UNCHANGED decorator
         PROVE  FlightOK'
    BY <1>22 DEF LoadRegistry, Goto, shared, decorator
  <1>23. ASSUME NEW p \in Procs, DropRegistry(p), UNCHANGED decorator
         PROVE  FlightOK'
    BY <1>23 DEF DropRegistry, Goto, decorator
  <1>24. ASSUME NEW p \in Procs, UnlockInvalidated(p), UNCHANGED decorator
         PROVE  FlightOK'
    BY <1>24 DEF UnlockInvalidated, Goto, decorator
  <1>25. ASSUME NEW p \in Procs, NEW l \in Keys,
                SweepKey(p, l), UNCHANGED decorator
         PROVE  FlightOK'
    BY <1>25 DEF SweepKey, decorator
  <1>26. ASSUME NEW p \in Procs, ScanKeys(p), UNCHANGED decorator
         PROVE  FlightOK'
    BY <1>26 DEF ScanKeys, Goto, shared, decorator
  <1>27. ASSUME NEW p \in Procs, DeletedAll(p), UNCHANGED decorator
         PROVE  FlightOK'
    BY <1>27 DEF DeletedAll, Goto, shared, decorator
  <1>28. ASSUME NEW p \in Procs, NEW l \in Keys,
                DeleteKey(p, l), UNCHANGED decorator
         PROVE  FlightOK'
    BY <1>28 DEF DeleteKey, decorator
  <1>29. CASE UNCHANGED vars
    BY <1>29 DEF vars, shared, locals, decorator
  <1>30. ASSUME NEW p \in Procs, NEW w \in Writes, BaseWriteTx(p, w)
         PROVE  FlightOK'
    BY <1>30 DEF BaseWriteTx, shared, locals
  <1>31. ASSUME NEW p \in Procs, FinishWriteTx(p)
         PROVE  FlightOK'
    BY <1>31 DEF FinishWriteTx, Invalidated, Return, shared
  <1>32. ASSUME NEW p \in Procs, CommitTx(p)
         PROVE  FlightOK'
    BY <1>32 DEF CommitTx, Commit, shared, locals
  <1>33. ASSUME NEW p \in Procs, RollbackTx(p)
         PROVE  FlightOK'
    BY <1>33 DEF RollbackTx, shared, locals
  <1> QED
    BY <1>1, <1>2, <1>3, <1>4, <1>5, <1>6, <1>7, <1>8, <1>9, <1>10, <1>11,
      <1>12, <1>13, <1>14, <1>15, <1>16, <1>17, <1>18, <1>19, <1>20, <1>21,
      <1>22, <1>23, <1>24, <1>25, <1>26, <1>27, <1>28, <1>29, <1>30, <1>31,
      <1>32, <1>33 DEF NextTx, WriteTx, Next, Evict, Read, Write, Service,
      CallStep, GetOrFetchStep, AddTagsStep, InvalidateTagsStep, DeleteStep

(* Data held by a fetch is excused: the fetch returned the version of its  *)
(* moment, and every commit since then found the goroutine holding it.     *)
LEMMA HeldStep ==
  ASSUME TypeOK, ControlOK, HeldOK, [NextTx]_vars
  PROVE  HeldOK'
  <1> SUFFICES ASSUME NEW p \in Procs, HoldsFetched(p)', NEW n \in 1..committed',
                      got'[p] < n
               PROVE  key'[p] \in racers'[n]
    BY DEF HeldOK, Excused
  <1>1. CASE HoldsFetched(p) /\ key'[p] = key[p] /\ got'[p] = got[p]
    <2>1. key[p] \in Keys
      BY <1>1 DEF HoldsFetched, ControlOK, TypeOK, Ops
    <2>2. key[p] \in Exposed
      BY <1>1, <2>1 DEF Exposed
    <2> QED
      BY <1>1, <2>2, RacersStep DEF HeldOK, Excused
  <1>2. CASE FetchBase(p)
    <2>1. got'[p] = committed /\ committed' = committed
      BY <1>2 DEF FetchBase, FetchReturns, decorator, TypeOK, AdapterTypeOK
    <2> QED
      BY <2>1, CommitStep
  <1> QED
    BY <1>1, <1>2, ServiceEffects DEF HeldEffect

-----------------------------------------------------------------------------
(* A cached key that can be found stays so while it is cached.             *)
LEMMA FindableStep ==
  ASSUME TypeOK, ControlOK, [NextTx]_vars,
         NEW k \in Keys, Findable(k), entries'[k] # None
  PROVE  Findable(k)'
  <1>1. ASSUME \A t \in Tags : registry[t] \subseteq registry'[t],
               \A q \in Procs : at'[q] = "sweep" =>
                 at[q] = "sweep" /\ todo'[q] = todo[q] /\ doomed'[q] = doomed[q]
        PROVE  Findable(k)'
    <2>1. Elems(ReadTags[k]) \subseteq Tags
      BY ElemsIn, TagsAssumption DEF TagsAssumption
    <2> QED
      BY <1>1, <2>1 DEF Findable
  <1> USE DEF TypeOK, AdapterTypeOK, ControlOK
  <1>2. ASSUME NEW l \in Keys, EvictEntry(l), UNCHANGED decorator
        PROVE  Findable(k)'
    BY <1>2, <1>1 DEF EvictEntry, decorator, locals
  <1>3. ASSUME NEW p \in Procs, NEW l \in Keys, StartRead(p, l)
        PROVE  Findable(k)'
    BY <1>3, <1>1 DEF StartRead, CallGetOrFetch, shared
  <1>4. ASSUME NEW p \in Procs, FetchBase(p) PROVE Findable(k)'
    BY <1>4, <1>1 DEF FetchBase, FetchReturns, Goto, shared, decorator
  <1>5. ASSUME NEW p \in Procs, RegisterTags(p) PROVE Findable(k)'
    BY <1>5, <1>1 DEF RegisterTags, CallAddTags, shared
  <1>6. ASSUME NEW p \in Procs, FinishRead(p) PROVE Findable(k)'
    BY <1>6, <1>1 DEF FinishRead, Return, shared
  <1>7. ASSUME NEW p \in Procs, NEW w \in Writes, BaseWrite(p, w)
        PROVE  Findable(k)'
    BY <1>7, <1>1 DEF BaseWrite, Commit, shared, locals
  <1>8. ASSUME NEW p \in Procs, InvalidateByTags(p) PROVE Findable(k)'
    BY <1>8, <1>1 DEF InvalidateByTags, CallInvalidateTags, shared
  <1>9. ASSUME NEW p \in Procs, FallBack(p) PROVE Findable(k)'
    BY <1>9, <1>1 DEF FallBack, shared, locals
  <1>10. ASSUME NEW p \in Procs, NextDeletion(p) PROVE Findable(k)'
    <2> /\ at'[p] # "sweep" /\ UNCHANGED <<registry, todo>>
        /\ \A q \in Procs \ {p} : at'[q] = at[q] /\ doomed'[q] = doomed[q]
      BY ZenonT(60), <1>10, NextDeletionEffect
    <2> QED
      BY <1>1
  <1>11. ASSUME NEW p \in Procs, FinishWrite(p) PROVE Findable(k)'
    BY <1>11, <1>1 DEF FinishWrite, Invalidated, Return, shared
  <1>12. ASSUME NEW p \in Procs, LookupHit(p), UNCHANGED decorator
         PROVE  Findable(k)'
    BY <1>12, <1>1 DEF LookupHit, Goto, shared, decorator
  <1>13. ASSUME NEW p \in Procs, LookupMiss(p), UNCHANGED decorator
         PROVE  Findable(k)'
    BY <1>13, <1>1 DEF LookupMiss, Goto, shared, decorator
  <1>14. ASSUME NEW p \in Procs, LeadFlight(p), UNCHANGED decorator
         PROVE  Findable(k)'
    BY <1>14, <1>1 DEF LeadFlight, Goto, decorator
  <1>15. ASSUME NEW p \in Procs, JoinFlight(p), UNCHANGED decorator
         PROVE  Findable(k)'
    BY <1>15, <1>1 DEF JoinFlight, Goto, shared, decorator
  <1>16. ASSUME NEW p \in Procs, FetchFails(p), UNCHANGED decorator
         PROVE  Findable(k)'
    BY <1>16, <1>1 DEF FetchFails, Goto, shared, decorator
  <1>17. ASSUME NEW p \in Procs, StoreFetched(p), UNCHANGED decorator
         PROVE  Findable(k)'
    BY <1>17, <1>1 DEF StoreFetched, Goto, decorator
  <1>18. ASSUME NEW p \in Procs, LandFlight(p), UNCHANGED decorator
         PROVE  Findable(k)'
    BY <1>18, <1>1 DEF LandFlight, Aboard, decorator
  <1>19. ASSUME NEW p \in Procs, LockToAdd(p), UNCHANGED decorator
         PROVE  Findable(k)'
    BY <1>19, <1>1 DEF LockToAdd, Goto, decorator
  <1>20. ASSUME NEW p \in Procs, AddTag(p), UNCHANGED decorator
         PROVE  Findable(k)'
    BY <1>20, <1>1 DEF AddTag, decorator
  <1>21. ASSUME NEW p \in Procs, UnlockAdded(p), UNCHANGED decorator
         PROVE  Findable(k)'
    BY <1>21, <1>1 DEF UnlockAdded, Goto, decorator
  <1>22. ASSUME NEW p \in Procs, LockToInvalidate(p), UNCHANGED decorator
         PROVE  Findable(k)'
    BY <1>22, <1>1 DEF LockToInvalidate, Goto, decorator
  <1>23. ASSUME NEW p \in Procs, LoadRegistry(p), UNCHANGED decorator
         PROVE  Findable(k)'
    <2>1. \A q \in Procs \ {p} : /\ at'[q] = at[q] /\ todo'[q] = todo[q]
                                /\ doomed'[q] = doomed[q]
      BY <1>23 DEF LoadRegistry, Goto, shared, TypeOK, AdapterTypeOK
    <2>2. /\ registry' = registry /\ todo' = todo
          /\ doomed'[p] = registry[Head(todo[p])]
      BY <1>23 DEF LoadRegistry, shared, TypeOK, AdapterTypeOK
    <2>3. ASSUME NEW t \in Elems(ReadTags[k]), NEW q \in Procs,
                 at'[q] = "sweep", Head(todo'[q]) = t
          PROVE  k \in doomed'[q]
      <3>1. CASE q = p
        BY <2>2, <2>3, <3>1 DEF Findable
      <3>2. CASE q # p
        BY <2>1, <2>3, <3>2 DEF Findable
      <3> QED
        BY <3>1, <3>2
    <2> QED
      BY <2>2, <2>3 DEF Findable
  <1>24. ASSUME NEW p \in Procs, DropRegistry(p), UNCHANGED decorator
         PROVE  Findable(k)'
    <2>1. Head(todo[p]) \notin Elems(ReadTags[k])
      BY <1>24 DEF DropRegistry, Goto, Findable
    <2>2. /\ \A t \in Elems(ReadTags[k]) : registry'[t] = registry[t]
          /\ at'[p] # "sweep" /\ doomed' = doomed
          /\ \A q \in Procs \ {p} : at'[q] = at[q] /\ todo'[q] = todo[q]
      <3>1. Elems(ReadTags[k]) \subseteq Tags
        BY ElemsIn, TagsAssumption DEF TagsAssumption
      <3> QED
        BY <1>24, <2>1, <3>1 DEF DropRegistry, Goto, TypeOK, AdapterTypeOK
    <2>3. ASSUME NEW t \in Elems(ReadTags[k]) PROVE k \in registry'[t]
      BY <2>2 DEF Findable
    <2>4. ASSUME NEW t \in Elems(ReadTags[k]), NEW q \in Procs,
                 at'[q] = "sweep", Head(todo'[q]) = t
          PROVE  k \in doomed'[q]
      <3>1. q # p
        BY <2>2, <2>4
      <3> QED
        BY <2>2, <2>4, <3>1 DEF Findable
    <2> QED
      BY <2>3, <2>4 DEF Findable
  <1>25. ASSUME NEW p \in Procs, UnlockInvalidated(p), UNCHANGED decorator
         PROVE  Findable(k)'
    BY <1>25, <1>1 DEF UnlockInvalidated, Goto, decorator
  <1>26. ASSUME NEW p \in Procs, NEW l \in Keys,
                SweepKey(p, l), UNCHANGED decorator
         PROVE  Findable(k)'
    <2>1. k # l
      BY <1>26 DEF SweepKey, TypeOK, AdapterTypeOK
    <2>2. /\ UNCHANGED <<registry, at, todo>>
          /\ \A q \in Procs : k \in doomed[q] => k \in doomed'[q]
      BY <1>26, <2>1 DEF SweepKey, TypeOK, AdapterTypeOK
    <2> QED
      BY <2>2 DEF Findable
  <1>27. ASSUME NEW p \in Procs, ScanKeys(p), UNCHANGED decorator
         PROVE  Findable(k)'
    BY <1>27, <1>1 DEF ScanKeys, Goto, shared, decorator
  <1>28. ASSUME NEW p \in Procs, DeletedAll(p), UNCHANGED decorator
         PROVE  Findable(k)'
    BY <1>28, <1>1 DEF DeletedAll, Goto, shared, decorator
  <1>29. ASSUME NEW p \in Procs, NEW l \in Keys,
                DeleteKey(p, l), UNCHANGED decorator
         PROVE  Findable(k)'
    BY <1>29, <1>1 DEF DeleteKey, decorator
  <1>30. CASE UNCHANGED vars
    BY <1>30, <1>1 DEF vars, shared, locals, decorator
  <1>31. ASSUME NEW p \in Procs, NEW w \in Writes, BaseWriteTx(p, w)
         PROVE  Findable(k)'
    BY <1>31, <1>1 DEF BaseWriteTx, shared, locals
  <1>32. ASSUME NEW p \in Procs, FinishWriteTx(p)
         PROVE  Findable(k)'
    BY <1>32, <1>1 DEF FinishWriteTx, Invalidated, Return, shared
  <1>33. ASSUME NEW p \in Procs, CommitTx(p)
         PROVE  Findable(k)'
    BY <1>33, <1>1 DEF CommitTx, Commit, shared, locals
  <1>34. ASSUME NEW p \in Procs, RollbackTx(p)
         PROVE  Findable(k)'
    BY <1>34, <1>1 DEF RollbackTx, shared, locals
  <1> QED
    BY <1>2, <1>3, <1>4, <1>5, <1>6, <1>7, <1>8, <1>9, <1>10, <1>11, <1>12,
      <1>13, <1>14, <1>15, <1>16, <1>17, <1>18, <1>19, <1>20, <1>21, <1>22,
      <1>23, <1>24, <1>25, <1>26, <1>27, <1>28, <1>29, <1>30, <1>31, <1>32,
      <1>33, <1>34 DEF NextTx, WriteTx, Next, Evict, Read, Write, Service,
      CallStep, GetOrFetchStep, AddTagsStep, InvalidateTagsStep, DeleteStep

(* A key in the care of a goroutine stays there until UnlockAdded makes it *)
(* findable: nobody drops a registry while AddTags runs.                   *)
LEMMA CareStep ==
  ASSUME TypeOK, ControlOK, LockOK, HasTagRegistry, [NextTx]_vars,
         NEW k \in Keys, NEW q \in Procs, InCare(q, k)
  PROVE  InCare(q, k)' \/ Findable(k)'
  <1> DEFINE Kept == InCare(q, k)' \/ Findable(k)'
  <1> USE DEF TypeOK, AdapterTypeOK, InCare, Unregistered, HoldsFetched
  <1>1. ASSUME NEW l \in Keys, EvictEntry(l), UNCHANGED decorator
        PROVE  Kept
    BY <1>1 DEF EvictEntry, decorator, locals
  <1>2. ASSUME NEW p \in Procs, NEW l \in Keys, StartRead(p, l)
        PROVE  Kept
    BY <1>2 DEF ControlOK, StartRead, CallGetOrFetch, shared
  <1>3. ASSUME NEW p \in Procs, FetchBase(p) PROVE Kept
    BY <1>3 DEF FetchBase, FetchReturns, Goto, shared, decorator
  <1>4. ASSUME NEW p \in Procs, RegisterTags(p) PROVE Kept
    BY <1>4, TagsAssumption DEF TagsAssumption, RegisterTags, CallAddTags,
      shared
  <1>5. ASSUME NEW p \in Procs, FinishRead(p) PROVE Kept
    BY <1>5 DEF ControlOK, FinishRead, Return, shared
  <1>6. ASSUME NEW p \in Procs, NEW w \in Writes, BaseWrite(p, w)
        PROVE  Kept
    BY <1>6 DEF BaseWrite, Commit, shared, locals
  <1>7. ASSUME NEW p \in Procs, InvalidateByTags(p) PROVE Kept
    BY <1>7 DEF InvalidateByTags, CallInvalidateTags, shared
  <1>8. ASSUME NEW p \in Procs, FallBack(p) PROVE Kept
    BY <1>8 DEF FallBack, shared, locals
  <1>9. ASSUME NEW p \in Procs, NextDeletion(p) PROVE Kept
    BY <1>9, NextDeletionEffect DEF NextDeletion, CallDeleteByPrefix,
      CallDelete, shared
  <1>10. ASSUME NEW p \in Procs, FinishWrite(p) PROVE Kept
    BY <1>10 DEF FinishWrite, Invalidated, Return, shared
  <1>11. ASSUME NEW p \in Procs, LookupHit(p), UNCHANGED decorator
         PROVE  Kept
    BY <1>11 DEF LookupHit, Goto, shared, decorator
  <1>12. ASSUME NEW p \in Procs, LookupMiss(p), UNCHANGED decorator
         PROVE  Kept
    BY <1>12 DEF LookupMiss, Goto, shared, decorator
  <1>13. ASSUME NEW p \in Procs, LeadFlight(p), UNCHANGED decorator
         PROVE  Kept
    BY <1>13 DEF LeadFlight, Goto, decorator
  <1>14. ASSUME NEW p \in Procs, JoinFlight(p), UNCHANGED decorator
         PROVE  Kept
    BY <1>14 DEF JoinFlight, Goto, shared, decorator
  <1>15. ASSUME NEW p \in Procs, FetchFails(p), UNCHANGED decorator
         PROVE  Kept
    BY <1>15 DEF FetchFails, Goto, shared, decorator
  <1>16. ASSUME NEW p \in Procs, StoreFetched(p), UNCHANGED decorator
         PROVE  Kept
    BY <1>16 DEF ControlOK, StoreFetched, Goto, decorator
  <1>17. ASSUME NEW p \in Procs, LandFlight(p), UNCHANGED decorator
         PROVE  Kept
    BY <1>17 DEF ControlOK, Ops, LandFlight, Aboard, decorator
  <1>18. ASSUME NEW p \in Procs, LockToAdd(p), UNCHANGED decorator
         PROVE  Kept
    <2>1. /\ at'[p] = "adding" /\ todo[p] = ReadTags[key[p]]
          /\ \A r \in Procs \ {p} : at'[r] = at[r]
          /\ UNCHANGED <<registry, key, got, todo, op>>
      BY <1>18 DEF ControlOK, LockToAdd, Goto, decorator
    <2> QED
      BY <2>1
  <1>19. ASSUME NEW p \in Procs, AddTag(p), UNCHANGED decorator
         PROVE  Kept
    <2>1. /\ UNCHANGED <<at, key, got, op>>
          /\ \A r \in Procs \ {p} : todo'[r] = todo[r]
          /\ \A t \in Tags : registry[t] \subseteq registry'[t]
      BY <1>19 DEF AddTag, decorator
    <2>2. Elems(ReadTags[k]) \subseteq Tags
      BY ElemsIn, TagsAssumption DEF TagsAssumption
    <2>3. CASE p # q
      BY <2>1, <2>2, <2>3
    <2>4. CASE p = q
      <3>1. /\ todo[q] # <<>> /\ todo'[q] = Tail(todo[q]) /\ key[q] = k
            /\ Head(todo[q]) \in Tags => k \in registry'[Head(todo[q])]
        BY <1>19, <2>4 DEF AddTag
      <3>2. Elems(todo[q]) = {Head(todo[q])} \cup Elems(todo'[q]) /\ Head(todo[q]) \in Tags
        BY <3>1, ElemsHeadTail
      <3> QED
        BY <2>1, <2>2, <3>1, <3>2
    <2> QED
      BY <2>3, <2>4
  <1>20. ASSUME NEW p \in Procs, UnlockAdded(p), UNCHANGED decorator
         PROVE  Kept
    <2>1. CASE p # q
      BY <1>20, <2>1 DEF UnlockAdded, Goto, decorator, TypeOK, AdapterTypeOK
    <2>2. CASE p = q
      <3>1. \A t \in Elems(ReadTags[k]) : k \in registry[t]
        BY <1>20, <2>2, ElemsEmpty DEF UnlockAdded, Goto
      <3>2. \A r \in Procs : at[r] # "sweep"
        BY <1>20, <2>2 DEF UnlockAdded, Goto, LockOK
      <3> QED
        BY <1>20, <3>1, <3>2 DEF UnlockAdded, Goto, Findable, TypeOK, AdapterTypeOK
    <2> QED
      BY <2>1, <2>2
  <1>21. ASSUME NEW p \in Procs, LockToInvalidate(p), UNCHANGED decorator
         PROVE  Kept
    BY <1>21 DEF LockToInvalidate, Goto, decorator
  <1>22. ASSUME NEW p \in Procs, LoadRegistry(p), UNCHANGED decorator
         PROVE  Kept
    BY <1>22 DEF LoadRegistry, Goto, shared, decorator
  <1>23. ASSUME NEW p \in Procs, DropRegistry(p), UNCHANGED decorator
         PROVE  Kept
    <2>1. p # q /\ at[q] # "adding"
      BY <1>23 DEF DropRegistry, Goto, LockOK
    <2> QED
      BY <1>23, <2>1 DEF DropRegistry, Goto, decorator
  <1>24. ASSUME NEW p \in Procs, UnlockInvalidated(p), UNCHANGED decorator
         PROVE  Kept
    BY <1>24 DEF UnlockInvalidated, Goto, decorator
  <1>25. ASSUME NEW p \in Procs, NEW l \in Keys,
                SweepKey(p, l), UNCHANGED decorator
         PROVE  Kept
    BY <1>25 DEF SweepKey, decorator
  <1>26. ASSUME NEW p \in Procs, ScanKeys(p), UNCHANGED decorator
         PROVE  Kept
    BY <1>26 DEF ScanKeys, Goto, shared, decorator
  <1>27. ASSUME NEW p \in Procs, DeletedAll(p), UNCHANGED decorator
         PROVE  Kept
    BY <1>27 DEF DeletedAll, Goto, shared, decorator
  <1>28. ASSUME NEW p \in Procs, NEW l \in Keys,
                DeleteKey(p, l), UNCHANGED decorator
         PROVE  Kept
    BY <1>28 DEF DeleteKey, decorator
  <1>29. CASE UNCHANGED vars
    BY <1>29 DEF vars, shared, locals, decorator
  <1>30. ASSUME NEW p \in Procs, NEW w \in Writes, BaseWriteTx(p, w)
         PROVE  Kept
    BY <1>30 DEF BaseWriteTx, shared, locals
  <1>31. ASSUME NEW p \in Procs, FinishWriteTx(p)
         PROVE  Kept
    BY <1>31 DEF ControlOK, FinishWriteTx, Invalidated, Return, shared
  <1>32. ASSUME NEW p \in Procs, CommitTx(p)
         PROVE  Kept
    BY <1>32 DEF CommitTx, Commit, shared, locals
  <1>33. ASSUME NEW p \in Procs, RollbackTx(p)
         PROVE  Kept
    BY <1>33 DEF RollbackTx, shared, locals
  <1> QED
    BY <1>1, <1>2, <1>3, <1>4, <1>5, <1>6, <1>7, <1>8, <1>9, <1>10, <1>11,
      <1>12, <1>13, <1>14, <1>15, <1>16, <1>17, <1>18, <1>19, <1>20, <1>21,
      <1>22, <1>23, <1>24, <1>25, <1>26, <1>27, <1>28, <1>29, <1>30, <1>31,
      <1>32, <1>33 DEF NextTx, WriteTx, Next, Evict, Read, Write, Service,
      CallStep, GetOrFetchStep, AddTagsStep, InvalidateTagsStep, DeleteStep

(* TagCoverage is preserved.                                               *)
LEMMA CoverageStep ==
  ASSUME TypeOK, ControlOK, LockOK, AddingOK, TagCoverage, [NextTx]_vars
  PROVE  TagCoverage'
  <1> SUFFICES ASSUME HasTagRegistry, NEW k \in Keys, entries'[k] # None
               PROVE  k \in ReadingNow' \/ Findable(k)'
    BY DEF TagCoverage, HasTagRegistry
  <1>1. CASE entries[k] # None /\ Findable(k)
    BY <1>1, FindableStep
  <1>2. CASE k \in ReadingNow
    <2>1. PICK q \in Procs : InCare(q, k)
      BY <1>2 DEF ReadingNow, InCare, AddingOK
    <2>2. InCare(q, k)' => k \in ReadingNow'
      BY DEF ReadingNow, InCare
    <2> QED
      BY <2>1, <2>2, CareStep
  <1>3. CASE entries[k] = None
    <2>1. PICK p \in Procs : StoreFetched(p) /\ key[p] = k /\ entries'[k] = got[p]
      BY <1>3, ServiceEffects DEF EntryEffect
    <2>2. k \in ReadingNow
      BY <2>1 DEF StoreFetched, Goto, ReadingNow, Unregistered, HoldsFetched
    <2> QED
      BY <2>2, <1>2
  <1> QED
    BY <1>1, <1>2, <1>3 DEF TagCoverage

(* An entry that is no longer, or not yet, findable is excused: it was     *)
(* stored by a fetch that is, or exposed to every commit.                  *)
LEMMA UnfoundStep ==
  ASSUME TypeOK, ControlOK, HeldOK, TagCoverage, UnfoundOK, [NextTx]_vars
  PROVE  UnfoundOK'
  <1> SUFFICES ASSUME HasTagRegistry, NEW k \in Keys, entries'[k] # None,
                      ~Findable(k)', NEW n \in 1..committed', entries'[k] < n
               PROVE  k \in racers'[n]
    BY DEF UnfoundOK, Excused, HasTagRegistry
  <1>1. CASE entries'[k] = entries[k]
    <2>1. ~Findable(k)
      BY <1>1, FindableStep
    <2>2. Excused(k, entries[k])
      BY <1>1, <2>1 DEF UnfoundOK
    <2>3. k \in Exposed
      BY <1>1, <2>1 DEF TagCoverage, Exposed
    <2> QED
      BY <1>1, <2>2, <2>3, RacersStep DEF Excused
  <1>2. CASE entries'[k] # entries[k]
    <2>1. PICK p \in Procs : StoreFetched(p) /\ key[p] = k /\ entries'[k] = got[p]
      BY <1>2, ServiceEffects DEF EntryEffect
    <2>2. HoldsFetched(p)
      BY <2>1 DEF StoreFetched, Goto, HoldsFetched
    <2>3. k \in Exposed
      BY <2>1, <2>2 DEF Exposed
    <2> QED
      BY <2>1, <2>2, <2>3, RacersStep DEF HeldOK, Excused
  <1> QED
    BY <1>1, <1>2

-----------------------------------------------------------------------------
(* What a write has to invalidate stays pending until it is deleted.       *)
LEMMA PendingStep ==
  ASSUME TypeOK, ControlOK, [NextTx]_vars,
         NEW p \in Procs, op[p] = "write", op'[p] = "write",
         NEW k \in Keys, entries'[k] # None, HasTagRegistry => Findable(k),
         k \in reached'[p], k \in reached[p] => Pending(p, k)
  PROVE  Pending(p, k)'
  <1>1. ASSUME at'[p] = at[p], todo'[p] = todo[p], doomed'[p] = doomed[p],
               fallback'[p] = fallback[p], reached'[p] = reached[p]
        PROVE  Pending(p, k)'
    BY <1>1 DEF Pending, Marked
  <1> USE ElemsEmpty DEF TypeOK, AdapterTypeOK, ControlOK, Pending,
          Marked
  <1>2. ASSUME NEW l \in Keys, EvictEntry(l), UNCHANGED decorator
        PROVE  Pending(p, k)'
    BY <1>2, <1>1 DEF EvictEntry, decorator, locals
  <1>3. ASSUME NEW q \in Procs, NEW l \in Keys, StartRead(q, l)
        PROVE  Pending(p, k)'
    BY <1>3, <1>1 DEF StartRead, CallGetOrFetch, shared
  <1>4. ASSUME NEW q \in Procs, FetchBase(q) PROVE Pending(p, k)'
    BY <1>4, <1>1 DEF FetchBase, FetchReturns, Goto, shared, decorator
  <1>5. ASSUME NEW q \in Procs, RegisterTags(q) PROVE Pending(p, k)'
    BY <1>5, <1>1 DEF RegisterTags, CallAddTags, shared
  <1>6. ASSUME NEW q \in Procs, FinishRead(q) PROVE Pending(p, k)'
    BY <1>6, <1>1 DEF FinishRead, Return, shared
  <1>7. ASSUME NEW q \in Procs, NEW w \in Writes, BaseWrite(q, w)
         PROVE  Pending(p, k)'
    BY <1>7, <1>1 DEF BaseWrite, Commit, shared, locals
  <1>8. ASSUME NEW q \in Procs, InvalidateByTags(q) PROVE Pending(p, k)'
    <2>1. CASE p # q
      BY <1>1, <1>8, <2>1 DEF InvalidateByTags, CallInvalidateTags, shared,
        TypeOK, AdapterTypeOK
    <2>2. CASE p = q
      <3> DEFINE ts == Head(plan[p]).tags
      <3>1. ~Pending(p, k)
        BY <1>8, <2>2, ElemsEmpty DEF InvalidateByTags, CallInvalidateTags,
          Pending, Marked
      <3>2. Tagged(k, ts)
        BY <1>8, <2>2, <3>1 DEF InvalidateByTags, TypeOK
      <3>3. ts # <<>>
        BY <3>2, ElemsEmpty DEF Tagged
      <3>4. at'[p] = "invLock" /\ todo'[p] = ts
        BY <1>8, <2>2, <3>3 DEF InvalidateByTags, CallInvalidateTags, TypeOK,
          AdapterTypeOK
      <3> QED
        BY <3>2, <3>4 DEF Pending, Marked, Tagged
    <2> QED
      BY <2>1, <2>2
  <1>9. ASSUME NEW q \in Procs, FallBack(q) PROVE Pending(p, k)'
    <2>1. CASE p # q
      BY <1>1, <1>9, <2>1 DEF FallBack, shared, locals, TypeOK, AdapterTypeOK
    <2>2. CASE p = q
      <3>1. ~Pending(p, k)
        BY <1>9, <2>2, ElemsEmpty DEF FallBack, Pending, Marked
      <3>2. k \in UNION {d.keys : d \in Elems(Head(plan[p]).fallback)}
        BY <1>9, <2>2, <3>1 DEF FallBack, TypeOK
      <3>3. fallback'[p] = Head(plan[p]).fallback
        BY <1>9, <2>2 DEF FallBack, TypeOK
      <3> QED
        BY <3>2, <3>3 DEF Pending
    <2> QED
      BY <2>1, <2>2
  <1>10. ASSUME NEW q \in Procs, NextDeletion(q) PROVE Pending(p, k)'
    <2>1. CASE p # q
      BY <1>1, <1>10, <2>1, NextDeletionEffect
    <2>2. CASE p = q
      <3>1. PICK d \in Elems(fallback[p]) : k \in d.keys
        BY <1>10, <2>2, NextDeletionEffect DEF Pending, Marked
      <3>2. CASE d = Head(fallback[p])
        BY <1>10, <2>2, <3>1, <3>2, NextDeletionEffect DEF Pending
      <3>3. CASE d # Head(fallback[p])
        <4>1. d \in Elems(Tail(fallback[p]))
          BY <1>10, <2>2, <3>1, <3>3, ElemsHeadTail, NextDeletionEffect DEF TypeOK
        <4> QED
          BY <1>10, <2>2, <3>1, <4>1, NextDeletionEffect DEF Pending
      <3> QED
        BY <3>2, <3>3
    <2> QED
      BY <2>1, <2>2
  <1>11. ASSUME NEW q \in Procs, FinishWrite(q) PROVE Pending(p, k)'
    BY <1>11, <1>1 DEF FinishWrite, Invalidated, Return, shared
  <1>12. ASSUME NEW q \in Procs, LookupHit(q), UNCHANGED decorator
         PROVE  Pending(p, k)'
    BY <1>12, <1>1 DEF LookupHit, Goto, shared, decorator
  <1>13. ASSUME NEW q \in Procs, LookupMiss(q), UNCHANGED decorator
         PROVE  Pending(p, k)'
    BY <1>13, <1>1 DEF LookupMiss, Goto, shared, decorator
  <1>14. ASSUME NEW q \in Procs, LeadFlight(q), UNCHANGED decorator
         PROVE  Pending(p, k)'
    BY <1>14, <1>1 DEF LeadFlight, Goto, decorator
  <1>15. ASSUME NEW q \in Procs, JoinFlight(q), UNCHANGED decorator
         PROVE  Pending(p, k)'
    BY <1>15, <1>1 DEF JoinFlight, Goto, shared, decorator
  <1>16. ASSUME NEW q \in Procs, FetchFails(q), UNCHANGED decorator
         PROVE  Pending(p, k)'
    BY <1>16, <1>1 DEF FetchFails, Goto, shared, decorator
  <1>17. ASSUME NEW q \in Procs, StoreFetched(q), UNCHANGED decorator
         PROVE  Pending(p, k)'
    BY <1>17, <1>1 DEF StoreFetched, Goto, decorator
  <1>18. ASSUME NEW q \in Procs, LandFlight(q), UNCHANGED decorator
         PROVE  Pending(p, k)'
    BY <1>18, <1>1 DEF LandFlight, Aboard, decorator
  <1>19. ASSUME NEW q \in Procs, LockToAdd(q), UNCHANGED decorator
         PROVE  Pending(p, k)'
    BY <1>19, <1>1 DEF LockToAdd, Goto, decorator
  <1>20. ASSUME NEW q \in Procs, AddTag(q), UNCHANGED decorator
         PROVE  Pending(p, k)'
    BY <1>20, <1>1 DEF AddTag, decorator
  <1>21. ASSUME NEW q \in Procs, UnlockAdded(q), UNCHANGED decorator
         PROVE  Pending(p, k)'
    BY <1>21, <1>1 DEF UnlockAdded, Goto, decorator
  <1>22. ASSUME NEW q \in Procs, LockToInvalidate(q), UNCHANGED decorator
         PROVE  Pending(p, k)'
    BY <1>22, <1>1 DEF LockToInvalidate, Goto, decorator
  <1>23. ASSUME NEW q \in Procs, LoadRegistry(q), UNCHANGED decorator
         PROVE  Pending(p, k)'
    <2>1. CASE p # q
      BY <1>1, <1>23, <2>1 DEF LoadRegistry, Goto, shared, decorator, TypeOK,
        AdapterTypeOK
    <2>2. CASE p = q
      <3>1. SUFFICES ASSUME ~ \E d \in Elems(fallback[p]) : k \in d.keys
                     PROVE  Pending(p, k)'
        BY <1>23 DEF decorator, Pending
      <3>2. PICK t \in Elems(todo[p]) \cap Elems(ReadTags[k]) : TRUE
        BY <1>23, <2>2, <3>1 DEF LoadRegistry, Goto, decorator, Pending, Marked
      <3>3. Findable(k)
        <4>1. HasTagRegistry
          BY <1>23, <2>2 DEF LoadRegistry, Goto, ControlOK
        <4> QED
          BY <4>1
      <3>4. k \in registry[t]
        BY <3>3 DEF Findable
      <3>5. at'[p] = "sweep" /\ todo' = todo /\ doomed'[p] = registry[Head(todo[p])]
        BY <1>23, <2>2 DEF LoadRegistry, Goto, shared, TypeOK, AdapterTypeOK
      <3> QED
        BY <3>2, <3>4, <3>5 DEF Pending, Marked
    <2> QED
      BY <2>1, <2>2
  <1>24. ASSUME NEW q \in Procs, DropRegistry(q), UNCHANGED decorator
         PROVE  Pending(p, k)'
    <2>1. CASE p # q
      BY <1>1, <1>24, <2>1 DEF DropRegistry, Goto, decorator, TypeOK, AdapterTypeOK
    <2>2. CASE p = q
      <3>1. SUFFICES ASSUME ~ \E d \in Elems(fallback[p]) : k \in d.keys
                     PROVE  Pending(p, k)'
        BY <1>24 DEF decorator, Pending
      <3>2. PICK t \in Elems(todo[p]) \cap Elems(ReadTags[k]) : t # Head(todo[p])
        BY <1>24, <2>2, <3>1 DEF DropRegistry, Goto, decorator, Pending,
          Marked
      <3>3. t \in Elems(Tail(todo[p]))
        BY <1>24, <2>2, <3>2, ElemsHeadTail DEF DropRegistry, Goto, ControlOK,
          TypeOK, AdapterTypeOK
      <3>4. at'[p] = "invalidating" /\ todo'[p] = Tail(todo[p])
        BY <1>24, <2>2 DEF DropRegistry, Goto, TypeOK, AdapterTypeOK
      <3> QED
        BY <3>2, <3>3, <3>4 DEF Pending, Marked
    <2> QED
      BY <2>1, <2>2
  <1>25. ASSUME NEW q \in Procs, UnlockInvalidated(q), UNCHANGED decorator
         PROVE  Pending(p, k)'
    BY <1>25, <1>1 DEF UnlockInvalidated, Goto, decorator
  <1>26. ASSUME NEW q \in Procs, NEW l \in Keys,
                SweepKey(q, l), UNCHANGED decorator
         PROVE  Pending(p, k)'
    BY <1>26, <1>1 DEF SweepKey, decorator
  <1>27. ASSUME NEW q \in Procs, ScanKeys(q), UNCHANGED decorator
         PROVE  Pending(p, k)'
    BY <1>27, <1>1 DEF ScanKeys, Goto, shared, decorator
  <1>28. ASSUME NEW q \in Procs, DeletedAll(q), UNCHANGED decorator
         PROVE  Pending(p, k)'
    BY <1>28, <1>1 DEF DeletedAll, Goto, shared, decorator
  <1>29. ASSUME NEW q \in Procs, NEW l \in Keys,
                DeleteKey(q, l), UNCHANGED decorator
         PROVE  Pending(p, k)'
    BY <1>29, <1>1 DEF DeleteKey, decorator
  <1>30. CASE UNCHANGED vars
    BY <1>30, <1>1 DEF vars, shared, locals, decorator
  <1>31. ASSUME NEW q \in Procs, NEW w \in Writes, BaseWriteTx(q, w)
         PROVE  Pending(p, k)'
    BY <1>31, <1>1 DEF BaseWriteTx, shared, locals
  <1>32. ASSUME NEW q \in Procs, FinishWriteTx(q)
         PROVE  Pending(p, k)'
    BY <1>32, <1>1 DEF FinishWriteTx, Invalidated, Return, shared
  <1>33. ASSUME NEW q \in Procs, CommitTx(q)
         PROVE  Pending(p, k)'
    BY <1>33, <1>1 DEF CommitTx, Commit, shared, locals
  <1>34. ASSUME NEW q \in Procs, RollbackTx(q)
         PROVE  Pending(p, k)'
    BY <1>34, <1>1 DEF RollbackTx, shared, locals
  <1> QED
    BY <1>2, <1>3, <1>4, <1>5, <1>6, <1>7, <1>8, <1>9, <1>10, <1>11, <1>12,
      <1>13, <1>14, <1>15, <1>16, <1>17, <1>18, <1>19, <1>20, <1>21, <1>22,
      <1>23, <1>24, <1>25, <1>26, <1>27, <1>28, <1>29, <1>30, <1>31, <1>32,
      <1>33, <1>34 DEF NextTx, WriteTx, Next, Evict, Read, Write, Service,
      CallStep, GetOrFetchStep, AddTagsStep, InvalidateTagsStep, DeleteStep

(* So whatever is stale of what a write has reached is pending.            *)
LEMMA ProgressStep ==
  ASSUME TypeOK, ControlOK, WritesOK, HeldOK, UnfoundOK, ProgressOK, [Next]_vars
  PROVE  ProgressOK'
  <1> [NextTx]_vars
    BY DEF NextTx
  <1> SUFFICES ASSUME NEW p \in Procs, op'[p] = "write",
                      NEW k \in reached'[p], k \notin racers'[write'[p]],
                      entries'[k] # None, entries'[k] < write'[p]
               PROVE  Pending(p, k)'
    BY DEF ProgressOK
  <1>1. op[p] = "write" /\ write'[p] = write[p]
    <2> USE DEF TypeOK
    <2>1. ASSUME NEW q \in Procs, NEW l \in Keys, StartRead(q, l)
          PROVE  op[p] = "write" /\ write'[p] = write[p]
      BY <2>1 DEF StartRead, CallGetOrFetch, shared
    <2>2. ASSUME NEW q \in Procs, RegisterTags(q)
          PROVE  op[p] = "write" /\ write'[p] = write[p]
      BY <2>2 DEF RegisterTags, CallAddTags, shared
    <2>3. ASSUME NEW q \in Procs, FinishRead(q)
          PROVE  op[p] = "write" /\ write'[p] = write[p]
      BY <2>3 DEF FinishRead, Return, shared
    <2>4. ASSUME NEW q \in Procs, NEW w \in Writes, BaseWrite(q, w)
          PROVE  op[p] = "write" /\ write'[p] = write[p]
      BY <2>4 DEF WritesOK, BaseWrite, Commit, shared, locals
    <2>5. ASSUME NEW q \in Procs, InvalidateByTags(q)
          PROVE  op[p] = "write" /\ write'[p] = write[p]
      BY <2>5 DEF InvalidateByTags, CallInvalidateTags, shared
    <2>6. ASSUME NEW q \in Procs, FallBack(q)
          PROVE  op[p] = "write" /\ write'[p] = write[p]
      BY <2>6 DEF FallBack, shared, locals
    <2>7. ASSUME NEW q \in Procs, NextDeletion(q)
          PROVE  op[p] = "write" /\ write'[p] = write[p]
      BY <2>7 DEF NextDeletion, CallDeleteByPrefix, CallDelete, shared
    <2>8. ASSUME NEW q \in Procs, FinishWrite(q)
          PROVE  op[p] = "write" /\ write'[p] = write[p]
      BY <2>8 DEF FinishWrite, Invalidated, Return, shared
    <2>9. CASE UNCHANGED decorator
      BY <2>9 DEF decorator
    <2> QED
      BY <2>1, <2>2, <2>3, <2>4, <2>5, <2>6, <2>7, <2>8, <2>9 DEF Next, Evict,
        Read, Write, Service, FetchBase, vars
  <1>2. /\ write[p] \in 1..committed /\ k \notin racers[write[p]]
    <2>1. write[p] \in 1..committed
      BY <1>1 DEF WritesOK
    <2>2. committed \in Nat /\ committed' \in Nat /\ committed <= committed'
      BY CommitStep
    <2>3. write[p] \in 1..committed' /\ write[p] # committed + 1
      BY <2>1, <2>2
    <2> QED
      BY <2>1, <2>3, <1>1, RacersStep
  <1>3. k \in Keys /\ entries[k] # None /\ entries[k] < write[p]
    <2>1. k \in Keys
      BY TypeStep DEF TypeOK
    <2>2. CASE entries'[k] = entries[k]
      BY <2>1, <2>2, <1>1
    <2>3. CASE entries'[k] # entries[k]
      <3>1. PICK q \in Procs : StoreFetched(q) /\ key[q] = k /\ entries'[k] = got[q]
        BY <2>1, <2>3, ServiceEffects DEF EntryEffect
      <3>2. HoldsFetched(q)
        BY <3>1 DEF StoreFetched, Goto, HoldsFetched
      <3> QED
        BY <1>1, <1>2, <3>1, <3>2 DEF HeldOK, Excused
    <2> QED
      BY <2>2, <2>3
  <1>4. k \in reached[p] => Pending(p, k)
    BY <1>1, <1>2, <1>3 DEF ProgressOK
  <1>5. HasTagRegistry => Findable(k)
    BY <1>1, <1>2, <1>3 DEF UnfoundOK, Excused
  <1> QED
    BY <1>1, <1>3, <1>4, <1>5, PendingStep

(* A write that finishes has nothing pending, so it leaves nothing stale.  *)
LEMMA StaleStep ==
  ASSUME TypeOK, TypeOK', ControlOK, WritesOK, WritesOK', HeldOK, ProgressOK, StaleOnlyIfRaced,
         [Next]_vars
  PROVE  StaleOnlyIfRaced'
  <1> [NextTx]_vars
    BY DEF NextTx
  <1> SUFFICES ASSUME NEW n \in 1..MaxWrites, NEW k \in reach'[n],
                      k \notin racers'[n], entries'[k] # None, entries'[k] < n
               PROVE  FALSE
    <2>1. /\ reach' \in [1..MaxWrites -> SUBSET Keys]
          /\ entries' \in [Keys -> Values \cup {None}]
      BY DEF TypeOK, AdapterTypeOK
    <2>2. \A n \in 1..MaxWrites : \A k \in reach'[n] :
            entries'[k] # None => (entries'[k] >= n <=> ~(entries'[k] < n))
      BY <2>1, BoundAssumption, ValuesAssumption DEF BoundAssumption, ValuesAssumption, Versions
    <2> QED
      BY <2>2 DEF StaleOnlyIfRaced
  <1>1. n \in 1..committed
    <2>1. committed \in Nat /\ (committed' = committed \/ committed' = committed + 1)
      BY CommitStep
    <2>2. CASE reach'[n] = reach[n]
      BY <2>1, <2>2 DEF WritesOK
    <2>3. CASE reach'[n] # reach[n]
      <3>1. PICK p \in Procs : FinishWrite(p) /\ n = write[p]
        BY <2>3, ReachStep DEF CommitTx, WritesOK
      <3> QED
        BY <3>1 DEF FinishWrite, Invalidated, WritesOK
    <2> QED
      BY <2>2, <2>3
  <1>2. k \in Keys /\ k \notin racers[n]
    <2>1. n \in 1..committed' /\ n # committed + 1
      BY <1>1, CommitStep
    <2> QED
      BY <2>1, RacersStep DEF TypeOK
  <1>3. CASE entries'[k] # entries[k]
    <2>1. PICK p \in Procs : StoreFetched(p) /\ key[p] = k /\ entries'[k] = got[p]
      BY <1>2, <1>3, ServiceEffects DEF EntryEffect
    <2>2. HoldsFetched(p)
      BY <2>1 DEF StoreFetched, Goto, HoldsFetched
    <2> QED
      BY <1>1, <1>2, <2>1, <2>2 DEF HeldOK, Excused
  <1>4. CASE entries'[k] = entries[k] /\ k \in reach[n]
    BY <1>2, <1>4, BoundAssumption, ValuesAssumption
    DEF StaleOnlyIfRaced, TypeOK, AdapterTypeOK, BoundAssumption,
      ValuesAssumption, Versions
  <1>5. CASE entries'[k] = entries[k] /\ k \notin reach[n]
    <2>1. PICK p \in Procs : FinishWrite(p) /\ n = write[p]
      BY <1>5, ReachStep DEF CommitTx, WritesOK
    <2>2. k \in reached[p]
      BY <1>5, <2>1 DEF FinishWrite, TypeOK
    <2>3. ~Pending(p, k)
      BY <2>1, ElemsEmpty DEF FinishWrite, Invalidated, Pending, Marked
    <2> QED
      BY <1>2, <1>5, <2>1, <2>2, <2>3 DEF FinishWrite, Invalidated, ProgressOK
  <1> QED
    BY <1>3, <1>4, <1>5

(* A read's data comes from an entry, which is not stale, from a fetch of  *)
(* its own, which sees every write, or from a flight, whose data is        *)
(* excused.                                                                *)
LEMMA ReadsStep ==
  ASSUME TypeOK, TypeOK', ControlOK, WritesOK, HeldOK, StaleOnlyIfRaced,
         ReadsSeeFinishedWrites, [Next]_vars
  PROVE  ReadsSeeFinishedWrites'
  <1> [NextTx]_vars
    BY DEF NextTx
  <1> SUFFICES ASSUME NEW p \in Procs, op'[p] \in {"read", "register"},
                      got'[p] # None, NEW n \in before'[p],
                      key'[p] \in reach'[n], key'[p] \notin racers'[n]
               PROVE  got'[p] >= n
    BY DEF ReadsSeeFinishedWrites
  <1>1. /\ op[p] \in {"read", "register"}
        /\ before'[p] = before[p] /\ key'[p] = key[p]
    <2> USE DEF TypeOK, AdapterTypeOK
    <2>1. ASSUME NEW l \in Keys, EvictEntry(l), UNCHANGED decorator
          PROVE  /\ op[p] \in {"read", "register"}
               /\ before'[p] = before[p] /\ key'[p] = key[p]
      BY <2>1 DEF EvictEntry, decorator, locals
    <2>2. ASSUME NEW q \in Procs, NEW l \in Keys, StartRead(q, l)
          PROVE  /\ op[p] \in {"read", "register"}
               /\ before'[p] = before[p] /\ key'[p] = key[p]
      BY <2>2 DEF StartRead, CallGetOrFetch, shared
    <2>3. ASSUME NEW q \in Procs, FetchBase(q)
          PROVE  /\ op[p] \in {"read", "register"}
               /\ before'[p] = before[p] /\ key'[p] = key[p]
      BY <2>3 DEF FetchBase, FetchReturns, Goto, shared, decorator
    <2>4. ASSUME NEW q \in Procs, RegisterTags(q)
          PROVE  /\ op[p] \in {"read", "register"}
               /\ before'[p] = before[p] /\ key'[p] = key[p]
      BY <2>4 DEF ControlOK, RegisterTags, CallAddTags, shared
    <2>5. ASSUME NEW q \in Procs, FinishRead(q)
          PROVE  /\ op[p] \in {"read", "register"}
               /\ before'[p] = before[p] /\ key'[p] = key[p]
      BY <2>5 DEF FinishRead, Return, shared
    <2>6. ASSUME NEW q \in Procs, NEW w \in Writes, BaseWrite(q, w)
          PROVE  /\ op[p] \in {"read", "register"}
               /\ before'[p] = before[p] /\ key'[p] = key[p]
      BY <2>6 DEF BaseWrite, Commit, shared, locals
    <2>7. ASSUME NEW q \in Procs, InvalidateByTags(q)
          PROVE  /\ op[p] \in {"read", "register"}
               /\ before'[p] = before[p] /\ key'[p] = key[p]
      BY <2>7 DEF InvalidateByTags, CallInvalidateTags, shared
    <2>8. ASSUME NEW q \in Procs, FallBack(q)
          PROVE  /\ op[p] \in {"read", "register"}
               /\ before'[p] = before[p] /\ key'[p] = key[p]
      BY <2>8 DEF FallBack, shared, locals
    <2>9. ASSUME NEW q \in Procs, NextDeletion(q)
          PROVE  /\ op[p] \in {"read", "register"}
               /\ before'[p] = before[p] /\ key'[p] = key[p]
      BY <2>9, NextDeletionEffect DEF NextDeletion, CallDeleteByPrefix,
        CallDelete, shared
    <2>10. ASSUME NEW q \in Procs, FinishWrite(q)
           PROVE  /\ op[p] \in {"read", "register"}
               /\ before'[p] = before[p] /\ key'[p] = key[p]
      BY <2>10 DEF FinishWrite, Invalidated, Return, shared
    <2>11. ASSUME NEW q \in Procs, LookupHit(q), UNCHANGED decorator
           PROVE  /\ op[p] \in {"read", "register"}
               /\ before'[p] = before[p] /\ key'[p] = key[p]
      BY <2>11 DEF LookupHit, Goto, shared, decorator
    <2>12. ASSUME NEW q \in Procs, LookupMiss(q), UNCHANGED decorator
           PROVE  /\ op[p] \in {"read", "register"}
               /\ before'[p] = before[p] /\ key'[p] = key[p]
      BY <2>12 DEF LookupMiss, Goto, shared, decorator
    <2>13. ASSUME NEW q \in Procs, LeadFlight(q), UNCHANGED decorator
           PROVE  /\ op[p] \in {"read", "register"}
               /\ before'[p] = before[p] /\ key'[p] = key[p]
      BY <2>13 DEF LeadFlight, Goto, decorator
    <2>14. ASSUME NEW q \in Procs, JoinFlight(q), UNCHANGED decorator
           PROVE  /\ op[p] \in {"read", "register"}
               /\ before'[p] = before[p] /\ key'[p] = key[p]
      BY <2>14 DEF JoinFlight, Goto, shared, decorator
    <2>15. ASSUME NEW q \in Procs, FetchFails(q), UNCHANGED decorator
           PROVE  /\ op[p] \in {"read", "register"}
               /\ before'[p] = before[p] /\ key'[p] = key[p]
      BY <2>15 DEF FetchFails, Goto, shared, decorator
    <2>16. ASSUME NEW q \in Procs, StoreFetched(q), UNCHANGED decorator
           PROVE  /\ op[p] \in {"read", "register"}
               /\ before'[p] = before[p] /\ key'[p] = key[p]
      BY <2>16 DEF StoreFetched, Goto, decorator
    <2>17. ASSUME NEW q \in Procs, LandFlight(q), UNCHANGED decorator
           PROVE  /\ op[p] \in {"read", "register"}
               /\ before'[p] = before[p] /\ key'[p] = key[p]
      BY <2>17 DEF LandFlight, Aboard, decorator
    <2>18. ASSUME NEW q \in Procs, LockToAdd(q), UNCHANGED decorator
           PROVE  /\ op[p] \in {"read", "register"}
               /\ before'[p] = before[p] /\ key'[p] = key[p]
      BY <2>18 DEF LockToAdd, Goto, decorator
    <2>19. ASSUME NEW q \in Procs, AddTag(q), UNCHANGED decorator
           PROVE  /\ op[p] \in {"read", "register"}
               /\ before'[p] = before[p] /\ key'[p] = key[p]
      BY <2>19 DEF AddTag, decorator
    <2>20. ASSUME NEW q \in Procs, UnlockAdded(q), UNCHANGED decorator
           PROVE  /\ op[p] \in {"read", "register"}
               /\ before'[p] = before[p] /\ key'[p] = key[p]
      BY <2>20 DEF UnlockAdded, Goto, decorator
    <2>21. ASSUME NEW q \in Procs, LockToInvalidate(q), UNCHANGED decorator
           PROVE  /\ op[p] \in {"read", "register"}
               /\ before'[p] = before[p] /\ key'[p] = key[p]
      BY <2>21 DEF LockToInvalidate, Goto, decorator
    <2>22. ASSUME NEW q \in Procs, LoadRegistry(q), UNCHANGED decorator
           PROVE  /\ op[p] \in {"read", "register"}
               /\ before'[p] = before[p] /\ key'[p] = key[p]
      BY <2>22 DEF LoadRegistry, Goto, shared, decorator
    <2>23. ASSUME NEW q \in Procs, DropRegistry(q), UNCHANGED decorator
           PROVE  /\ op[p] \in {"read", "register"}
               /\ before'[p] = before[p] /\ key'[p] = key[p]
      BY <2>23 DEF DropRegistry, Goto, decorator
    <2>24. ASSUME NEW q \in Procs, UnlockInvalidated(q), UNCHANGED decorator
           PROVE  /\ op[p] \in {"read", "register"}
               /\ before'[p] = before[p] /\ key'[p] = key[p]
      BY <2>24 DEF UnlockInvalidated, Goto, decorator
    <2>25. ASSUME NEW q \in Procs, NEW l \in Keys,
                  SweepKey(q, l), UNCHANGED decorator
           PROVE  /\ op[p] \in {"read", "register"}
               /\ before'[p] = before[p] /\ key'[p] = key[p]
      BY <2>25 DEF SweepKey, decorator
    <2>26. ASSUME NEW q \in Procs, ScanKeys(q), UNCHANGED decorator
           PROVE  /\ op[p] \in {"read", "register"}
               /\ before'[p] = before[p] /\ key'[p] = key[p]
      BY <2>26 DEF ScanKeys, Goto, shared, decorator
    <2>27. ASSUME NEW q \in Procs, DeletedAll(q), UNCHANGED decorator
           PROVE  /\ op[p] \in {"read", "register"}
               /\ before'[p] = before[p] /\ key'[p] = key[p]
      BY <2>27 DEF DeletedAll, Goto, shared, decorator
    <2>28. ASSUME NEW q \in Procs, NEW l \in Keys,
                  DeleteKey(q, l), UNCHANGED decorator
           PROVE  /\ op[p] \in {"read", "register"}
               /\ before'[p] = before[p] /\ key'[p] = key[p]
      BY <2>28 DEF DeleteKey, decorator
    <2>29. CASE UNCHANGED vars
      BY <2>29 DEF vars, shared, locals, decorator
    <2> QED
      BY <2>1, <2>2, <2>3, <2>4, <2>5, <2>6, <2>7, <2>8, <2>9, <2>10, <2>11,
        <2>12, <2>13, <2>14, <2>15, <2>16, <2>17, <2>18, <2>19, <2>20, <2>21,
        <2>22, <2>23, <2>24, <2>25, <2>26, <2>27, <2>28, <2>29 DEF Next,
        Evict, Read, Write, Service, CallStep, GetOrFetchStep, AddTagsStep,
        InvalidateTagsStep, DeleteStep
  <1>2. n \in 1..committed /\ reach'[n] = reach[n] /\ racers'[n] = racers[n]
    <2>1. n \in 1..MaxWrites /\ reach[n] # {}
      BY <1>1 DEF WritesOK, TypeOK
    <2>2. n \in 1..committed
      BY <2>1, CommitStep DEF WritesOK
    <2>3. reach'[n] = reach[n]
      <3>1. \A q \in Procs : ~CommitTx(q)
        BY DEF CommitTx, WritesOK
      <3> QED
        BY <2>1, <3>1, ReachStep DEF WritesOK, FinishWrite, Invalidated
    <2> QED
      BY <2>2, <2>3, RacersStep, CommitStep
  <1>3. key[p] \in reach[n] \ racers[n] /\ n \in before[p]
    BY <1>1, <1>2
  <1>4. CASE got'[p] = got[p]
    BY <1>1, <1>3, <1>4 DEF ReadsSeeFinishedWrites
  <1>5. CASE LookupHit(p)
    <2>1. entries[key[p]] # None /\ got'[p] = entries[key[p]]
      BY <1>5 DEF LookupHit, TypeOK, AdapterTypeOK
    <2> QED
      BY <1>3, <2>1 DEF StaleOnlyIfRaced, WritesOK, TypeOK
  <1>6. CASE FetchBase(p)
    BY <1>2, <1>6, CommitStep DEF FetchBase, FetchReturns, TypeOK, AdapterTypeOK
  <1>7. ASSUME NEW r \in Procs, LandFlight(r), key[r] = key[p], got'[p] = got[r]
        PROVE  got'[p] >= n
    <2>1. HoldsFetched(r)
      BY <1>7 DEF LandFlight, HoldsFetched
    <2>2. ~(got[r] < n)
      BY <1>2, <1>3, <1>7, <2>1 DEF HeldOK, Excused
    <2>3. got'[p] \in Nat /\ n \in Nat
      BY <1>2, <1>7, BoundAssumption, ValuesAssumption
      DEF TypeOK, AdapterTypeOK, Versions, BoundAssumption, ValuesAssumption
    <2> QED
      BY <1>7, <2>2, <2>3
  <1> QED
    BY <1>4, <1>5, <1>6, <1>7, ServiceEffects DEF GotEffect

-----------------------------------------------------------------------------
(* The invariant holds at the start.                                       *)
LEMMA InitInvariant == Init => IInv
  <1> SUFFICES ASSUME Init PROVE IInv
    OBVIOUS
  <1> USE BoundAssumption, ValuesAssumption, NoneAssumption
      DEF Init, AdapterInit, BoundAssumption, ValuesAssumption, NoneAssumption, Versions
  <1>1. TypeOK
    BY DEF TypeOK, AdapterTypeOK, Locations, Ops
  <1>2. ControlOK
    BY DEF ControlOK
  <1>3. WritesOK
    BY DEF WritesOK
  <1>4. LockOK /\ AddingOK /\ FlightOK
    BY DEF LockOK, AddingOK, FlightOK
  <1>5. HeldOK
    BY DEF HeldOK, HoldsFetched
  <1>6. TagCoverage /\ UnfoundOK
    BY DEF TagCoverage, UnfoundOK
  <1>7. ProgressOK
    BY DEF ProgressOK
  <1>8. StaleOnlyIfRaced /\ ReadsSeeFinishedWrites
    BY DEF StaleOnlyIfRaced, ReadsSeeFinishedWrites
  <1> QED
    BY <1>1, <1>2, <1>3, <1>4, <1>5, <1>6, <1>7, <1>8 DEF IInv

(* Every step preserves it.                                                *)
LEMMA StepInvariant == IInv /\ [Next]_vars => IInv'
  <1> SUFFICES ASSUME IInv, [Next]_vars PROVE IInv'
    OBVIOUS
  <1> [NextTx]_vars
    BY DEF NextTx
  <1>1. TypeOK' /\ ControlOK' /\ WritesOK'
    BY TypeStep, ControlStep, WritesStep DEF IInv
  <1>2. LockOK' /\ AddingOK' /\ FlightOK'
    BY LockStep, AddingStep, FlightStep DEF IInv
  <1>3. HeldOK' /\ TagCoverage' /\ UnfoundOK'
    BY HeldStep, CoverageStep, UnfoundStep DEF IInv
  <1>4. ProgressOK' /\ StaleOnlyIfRaced'
    BY <1>1, ProgressStep, StaleStep DEF IInv
  <1>5. ReadsSeeFinishedWrites'
    BY <1>1, ReadsStep DEF IInv
  <1> QED
    BY <1>1, <1>2, <1>3, <1>4, <1>5 DEF IInv

(* With transactions TxInv is what is left of it.                          *)
LEMMA TxStepInvariant == TxInv /\ [NextTx]_vars => TxInv'
  <1> SUFFICES ASSUME TxInv, [NextTx]_vars PROVE TxInv'
    OBVIOUS
  <1>1. TypeOK' /\ ControlOK'
    BY TypeStep, ControlStep DEF TxInv
  <1>2. LockOK' /\ AddingOK' /\ FlightOK'
    BY LockStep, AddingStep, FlightStep DEF TxInv
  <1>3. HeldOK' /\ TagCoverage' /\ UnfoundOK'
    BY HeldStep, CoverageStep, UnfoundStep DEF TxInv
  <1> QED
    BY <1>1, <1>2, <1>3 DEF TxInv

(* IInv is an inductive invariant of the decorator over the default        *)
(* service, for any keys, tags, plans, goroutines and number of writes.    *)
THEOREM Invariance == Spec => []IInv
  <1>1. Init => IInv
    BY InitInvariant
  <1>2. IInv /\ [Next]_vars => IInv'
    BY StepInvariant
  <1> QED
    BY <1>1, <1>2, PTL DEF Spec

(* Every variable keeps its type.                                          *)
THEOREM TypeCorrect == Spec => []TypeOK
  <1>1. IInv => TypeOK
    BY DEF IInv
  <1> QED
    BY <1>1, Invariance, PTL

(* registerTags and InvalidateTags, which run in critical sections of one  *)
(* mutex while GetOrFetch stores results outside it, never leave a cached  *)
(* result that its tags do not list and that nobody is about to register.  *)
THEOREM TagsCoverCache == Spec => []TagCoverage
  <1>1. IInv => TagCoverage
    BY DEF IInv
  <1> QED
    BY <1>1, Invariance, PTL

(* After a write method returns, a result it covers and that is older than *)
(* it is in the cache only if a read of that key was under way, past its   *)
(* base query and not yet registered, when the write committed.            *)
THEOREM NoStaleUnlessRaced == Spec => []StaleOnlyIfRaced
  <1>1. IInv => StaleOnlyIfRaced
    BY DEF IInv
  <1> QED
    BY <1>1, Invariance, PTL

(* A read that begins after a write returned gets data at least as new,    *)
(* under the same exception.                                               *)
THEOREM ReadYourWrites == Spec => []ReadsSeeFinishedWrites
  <1>1. IInv => ReadsSeeFinishedWrites
    BY DEF IInv
  <1> QED
    BY <1>1, Invariance, PTL

(* At most one goroutine runs the base query of a key.                     *)
THEOREM OneFetchPerKey == Spec => []SingleFlight
  <1>1. IInv => SingleFlight
    BY DEF IInv, FlightOK, SingleFlight
  <1> QED
    BY <1>1, Invariance, PTL

(* Writes in transactions change neither the coverage of the cache nor the *)
(* stampede protection: what they break is the order of commits and        *)
(* invalidations, and nothing else.                                        *)
THEOREM TxInvariance == SpecTx => []TxInv
  <1>1. Init => TxInv
    BY InitInvariant DEF IInv, TxInv
  <1>2. TxInv /\ [NextTx]_vars => TxInv'
    BY TxStepInvariant
  <1> QED
    BY <1>1, <1>2, PTL DEF SpecTx

(* With transactions too a cached result is listed by all of its tags, or  *)
(* is about to be, so that the next invalidation of one of them finds it.  *)
THEOREM TxTagsCoverCache == SpecTx => [](TagCoverage /\ SingleFlight)
  <1>1. TxInv => TagCoverage /\ SingleFlight
    BY DEF TxInv, FlightOK, SingleFlight
  <1> QED
    BY <1>1, TxInvariance, PTL
=============================================================================
