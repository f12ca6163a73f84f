----------------------- MODULE UnreliableServiceProofs -----------------------
(***************************************************************************)
(* The properties of UnreliableService hold of SpecUnreliable, for every   *)
(* value of the constants.                                                 *)
(*                                                                         *)
(* A step is one of the decorator's, for which the lemmas about            *)
(* CachedRepository give most of what is needed, or one of six in which    *)
(* the service meddles.  Each part of UnreliableInv has a lemma of its     *)
(* own; before them come the kinds of steps, and what a step can do to an  *)
(* entry and to what is known of committed writes.                         *)
(***************************************************************************)
EXTENDS UnreliableServiceInvariant, CachedRepositoryProofs

USE DEF Outside, Leading, Fetching, AddingTags, Invalidating, Deleting

(* The steps in which the service does what it was not asked, or fails to  *)
(* do what it was.                                                         *)
Meddling ==
  \/ \E k \in Keys : RefreshStores(k)
  \/ \E t \in Tags : EvictRegistry(t)
  \/ \E p \in Procs : \/ AddTagsFails(p) \/ InvalidateTagsFails(p)
                      \/ DeletionFails(p) \/ DeletionFailsLater(p)

(* A step that is not one of those is a step of the decorator with         *)
(* transactions, or leaves its state alone.                                *)
LEMMA StepKinds ==
  ASSUME NextUnreliable
  PROVE  [NextTx]_vars \/ Meddling
  <1>1. ASSUME NEW p \in Procs, HitStartsRefresh(p) PROVE NextTx
    BY <1>1 DEF HitStartsRefresh, NextTx, Next, Service, CallStep, GetOrFetchStep
  <1>2. ASSUME NEW k \in Keys, Refresh(k) PROVE UNCHANGED vars \/ Meddling
    BY <1>2 DEF Refresh, RefreshFetches, RefreshFails, Meddling
  <1> QED
    BY <1>1, <1>2 DEF NextUnreliable, Meddling

(* Every step leaves its record.                                           *)
LEMMA StepObserved ==
  ASSUME NextUnreliable
  PROVE  \E lost : Observe(lost)
  BY DEF NextUnreliable, EvictRegistry, AddTagsFails, InvalidateTagsFails, DeletionFails,
    DeletionFailsLater

(* Meddling commits nothing, concludes no write and fetches no data.       *)
LEMMA MeddlingKeeps ==
  ASSUME TypeOK, Meddling
  PROVE  /\ UNCHANGED <<key, got, op, plan, committed, write, reach, racers>>
         /\ \A p \in Procs : at'[p] \in {at[p], "done"}
         /\ \A p \in Procs : at'[p] \in Invalidating => UNCHANGED <<at[p], todo[p], doomed[p]>>
  <1> USE DEF TypeOK, AdapterTypeOK
  <1> DEFINE Keeps ==
        /\ UNCHANGED <<key, got, op, plan, committed, write, reach, racers>>
        /\ \A p \in Procs : at'[p] \in {at[p], "done"}
        /\ \A p \in Procs : at'[p] \in Invalidating => UNCHANGED <<at[p], todo[p], doomed[p]>>
  <1>1. ASSUME NEW k \in Keys, RefreshStores(k) PROVE Keeps
    BY <1>1 DEF RefreshStores, locals, decorator
  <1>2. ASSUME NEW t \in Tags, EvictRegistry(t) PROVE Keeps
    BY <1>2 DEF EvictRegistry, locals, decorator
  <1>3. ASSUME NEW q \in Procs, AddTagsFails(q) PROVE Keeps
    BY <1>3 DEF AddTagsFails, decorator
  <1>4. ASSUME NEW q \in Procs, InvalidateTagsFails(q) PROVE Keeps
    BY <1>4 DEF InvalidateTagsFails, AbortInvalidation
  <1>5. ASSUME NEW q \in Procs, DeletionFails(q) PROVE Keeps
    BY <1>5 DEF DeletionFails, locals
  <1>6. ASSUME NEW q \in Procs, DeletionFailsLater(q) PROVE Keeps
    BY <1>6 DEF DeletionFailsLater, decorator
  <1> QED
    BY <1>1, <1>2, <1>3, <1>4, <1>5, <1>6 DEF Meddling

(* How the refresh of a key moves: it stores what it has fetched.          *)
LEMMA RefreshMoves ==
  ASSUME TypeOK, RefreshTypeOK, NextUnreliable
  PROVE  /\ RefreshTypeOK'
         /\ \A k \in Keys :
              /\ refreshing[k] = "store" /\ refreshing'[k] # "store" => RefreshStores(k)
              /\ refreshing'[k] = "store" =>
                   \/ RefreshFetches(k)
                   \/ refreshing[k] = "store" /\ refreshed'[k] = refreshed[k]
  <1> DEFINE Moves ==
        /\ RefreshTypeOK'
        /\ \A k \in Keys :
             /\ refreshing[k] = "store" /\ refreshing'[k] # "store" => RefreshStores(k)
             /\ refreshing'[k] = "store" =>
                  \/ RefreshFetches(k)
                  \/ refreshing[k] = "store" /\ refreshed'[k] = refreshed[k]
  <1> USE DEF RefreshTypeOK
  <1>1. CASE UNCHANGED refreshVars
    BY <1>1 DEF refreshVars
  <1>2. ASSUME NEW p \in Procs, HitStartsRefresh(p) PROVE Moves
    BY <1>2 DEF HitStartsRefresh
  <1>3. ASSUME NEW l \in Keys, RefreshFetches(l) PROVE Moves
    BY <1>3, ValuesAssumption DEF RefreshFetches, TypeOK, ValuesAssumption
  <1>4. ASSUME NEW l \in Keys, RefreshFails(l) PROVE Moves
    BY <1>4 DEF RefreshFails
  <1>5. ASSUME NEW l \in Keys, RefreshStores(l) PROVE Moves
    BY <1>5 DEF RefreshStores
  <1> QED
    BY <1>1, <1>2, <1>3, <1>4, <1>5
    DEF NextUnreliable, Refresh, EvictRegistry, AddTagsFails, InvalidateTagsFails,
      DeletionFails, DeletionFailsLater

-----------------------------------------------------------------------------
(* Meddling keeps the types, and each goroutine where its method can be.   *)
LEMMA MeddlingTypes ==
  ASSUME UnreliableTypeOK, ControlOK, RefreshedOK, Meddling
  PROVE  TypeOK'
  <1> USE DEF TypeOK, AdapterTypeOK, Locations
  <1>1. ASSUME NEW k \in Keys, RefreshStores(k) PROVE TypeOK'
    BY <1>1 DEF UnreliableTypeOK, RefreshTypeOK, RefreshStores, locals, decorator
  <1>2. ASSUME NEW t \in Tags, EvictRegistry(t) PROVE TypeOK'
    BY <1>2 DEF UnreliableTypeOK, EvictRegistry, locals, decorator
  <1>3. ASSUME NEW q \in Procs, AddTagsFails(q) PROVE TypeOK'
    BY <1>3 DEF UnreliableTypeOK, AddTagsFails, decorator
  <1>4. ASSUME NEW q \in Procs, InvalidateTagsFails(q) PROVE TypeOK'
    <2>1. attempt[q].fallback \in Seq(Deletion) /\ attempt[q].covered \subseteq Keys
      BY DEF UnreliableTypeOK, Attempts
    <2>2. UNION {d.keys : d \in Elems(attempt[q].fallback)} \subseteq Keys
      BY <2>1, ElemsIn, InvalidationParts
    <2>3. fallback' \in [Procs -> Seq(Deletion)] /\ reached' \in [Procs -> SUBSET Keys]
      BY <1>4, <2>1, <2>2 DEF UnreliableTypeOK, InvalidateTagsFails
    <2> QED
      BY <1>4, <2>3 DEF UnreliableTypeOK, InvalidateTagsFails, AbortInvalidation
  <1>5. ASSUME NEW q \in Procs, DeletionFails(q) PROVE TypeOK'
    <2>1. Tail(fallback[q]) \in Seq(Deletion)
      BY <1>5, ElemsHeadTail DEF UnreliableTypeOK, DeletionFails
    <2> QED
      BY <1>5, <2>1 DEF UnreliableTypeOK, DeletionFails, shared, locals
  <1>6. ASSUME NEW q \in Procs, DeletionFailsLater(q) PROVE TypeOK'
    BY <1>6 DEF UnreliableTypeOK, DeletionFailsLater, shared, decorator
  <1> QED
    BY <1>1, <1>2, <1>3, <1>4, <1>5, <1>6 DEF Meddling

(* Nor does it disturb the control of a method, tagMu, or fetched data.    *)
LEMMA MeddlingControl ==
  ASSUME TypeOK, ControlOK, LockOK, HeldOK, Meddling
  PROVE  ControlOK' /\ LockOK' /\ HeldOK'
  <1> DEFINE Kept == ControlOK' /\ LockOK'
  <1> USE NoneAssumption
      DEF TypeOK, AdapterTypeOK, Ops, ControlOK, LockOK, HasTagRegistry, NoneAssumption
  <1>1. ASSUME NEW k \in Keys, RefreshStores(k) PROVE Kept
    BY <1>1 DEF RefreshStores, locals, decorator
  <1>2. ASSUME NEW t \in Tags, EvictRegistry(t) PROVE Kept
    BY <1>2 DEF EvictRegistry, locals, decorator
  <1>3. ASSUME NEW q \in Procs, AddTagsFails(q) PROVE Kept
    BY <1>3 DEF AddTagsFails, decorator
  <1>4. ASSUME NEW q \in Procs, InvalidateTagsFails(q) PROVE Kept
    BY <1>4 DEF InvalidateTagsFails, AbortInvalidation
  <1>5. ASSUME NEW q \in Procs, DeletionFails(q) PROVE Kept
    BY <1>5 DEF DeletionFails, shared, locals
  <1>6. ASSUME NEW q \in Procs, DeletionFailsLater(q) PROVE Kept
    BY <1>6 DEF DeletionFailsLater, shared, decorator
  <1>7. HeldOK'
    BY MeddlingKeeps DEF HeldOK, HoldsFetched, Excused
  <1> QED
    BY <1>1, <1>2, <1>3, <1>4, <1>5, <1>6, <1>7 DEF Meddling
-----------------------------------------------------------------------------
(* What is known of a write that is committed is settled.  A commit spares *)
(* the keys that are exposed, those being refreshed with data fetched, and *)
(* the cached ones if it ends a transaction.                               *)
Found(k) ==
  \/ k \in Exposed
  \/ refreshing[k] = "store"
  \/ k \in Cached /\ \E p \in Procs : op[p] = "uncommitted" /\ op'[p] = "none"

LEMMA SparedStep ==
  ASSUME UnreliableTypeOK, NextUnreliable, NEW n \in 1..committed'
  PROVE  \/ n \in 1..committed /\ Spared(n)' = Spared(n)
         \/ n = committed + 1 /\ \A k \in Keys : Found(k) => k \in Spared(n)'
  <1>1. committed \in Nat /\ committed' \in Nat /\ MaxWrites \in Nat
    <2>1. committed \in Nat /\ MaxWrites \in Nat
      BY BoundAssumption DEF UnreliableTypeOK, TypeOK, Versions, BoundAssumption
    <2> QED
      BY <2>1, StepKinds, CommitStep, MeddlingKeeps DEF UnreliableTypeOK
  <1>2. PICK lost : Observe(lost)
    BY StepObserved
  <1>3. CASE committed' = committed
    <2>1. overtaken' = overtaken
      BY <1>2, <1>3 DEF Observe
    <2>2. racers'[n] = racers[n]
      BY <1>1, <1>3, StepKinds, RacersStep, MeddlingKeeps DEF UnreliableTypeOK
    <2> QED
      BY <1>3, <2>1, <2>2 DEF Spared
  <1>4. CASE committed' # committed
    <2>1. [NextTx]_vars /\ committed' = committed + 1
      BY <1>4, StepKinds, CommitStep, MeddlingKeeps DEF UnreliableTypeOK
    <2>2. committed' <= MaxWrites
      BY <1>1, <1>4, <2>1, HistoryEffects DEF CommitEffect, UnreliableTypeOK
    <2>3. overtaken' = [overtaken EXCEPT ![committed'] =
            {k \in Keys : refreshing[k] = "store"}
            \cup {k \in Cached : \E p \in Procs : op[p] = "uncommitted" /\ op'[p] = "none"}]
      BY <1>2, <1>4 DEF Observe
    <2>4. n \in 1..MaxWrites /\ overtaken \in [1..MaxWrites -> SUBSET Keys]
      BY <1>1, <2>2 DEF UnreliableTypeOK
    <2>5. CASE n = committed'
      <3>1. n = committed + 1 /\ racers'[n] = Exposed
        BY <1>1, <2>1, <2>5, RacersStep DEF UnreliableTypeOK
      <3>2. overtaken'[n] =
              {k \in Keys : refreshing[k] = "store"}
              \cup {k \in Cached : \E p \in Procs : op[p] = "uncommitted" /\ op'[p] = "none"}
        BY <2>3, <2>4, <2>5
      <3> QED
        BY <3>1, <3>2 DEF Found, Spared
    <2>6. CASE n # committed'
      <3>1. n \in 1..committed /\ racers'[n] = racers[n]
        BY <1>1, <2>1, <2>6, RacersStep DEF UnreliableTypeOK
      <3>2. overtaken'[n] = overtaken[n]
        BY <2>3, <2>4, <2>6
      <3> QED
        BY <3>1, <3>2 DEF Spared
    <2> QED
      BY <2>5, <2>6
  <1> QED
    BY <1>3, <1>4

(* What is accounted for stays so, unless a commit should have found it.   *)
LEMMA AccountedStep ==
  ASSUME UnreliableTypeOK, NextUnreliable, NEW k \in Keys, NEW v, Accounted(k, v),
         Found(k) \/ committed' = committed
  PROVE  Accounted(k, v)'
  <1> SUFFICES ASSUME NEW n \in 1..committed', v < n PROVE k \in Spared(n)'
    BY DEF Accounted
  <1>1. committed \in Nat
    BY BoundAssumption DEF UnreliableTypeOK, TypeOK, Versions, BoundAssumption
  <1> QED
    BY <1>1, SparedStep DEF Accounted

(* A cached result was cached before the step and is not stored anew, or   *)
(* the step has stored data that is accounted for.                         *)
LEMMA EntryStep ==
  ASSUME UnreliableTypeOK, ControlOK, HeldOK, RefreshedOK, NextUnreliable,
         NEW k \in Keys, entries'[k] # None
  PROVE  \/ k \in Renewed /\ Accounted(k, entries[k])'
         \/ k \notin Renewed /\ entries'[k] = entries[k]
  <1>1. TypeOK /\ RefreshTypeOK
    BY DEF UnreliableTypeOK
  <1>2. ASSUME RefreshStores(k)
        PROVE  k \in Renewed /\ Accounted(k, entries[k])'
    <2>1. entries'[k] = refreshed[k] /\ refreshing[k] = "store" /\ refreshing'[k] = "no"
      BY <1>1, <1>2 DEF RefreshStores, RefreshTypeOK, TypeOK, AdapterTypeOK
    <2>2. Accounted(k, refreshed[k])
      BY <2>1 DEF RefreshedOK
    <2>3. \A v : Accounted(k, v) => Accounted(k, v)'
      BY <2>1, AccountedStep DEF Found
    <2> QED
      BY <2>1, <2>2, <2>3 DEF Renewed, Accounted
  <1>3. ASSUME NEW p \in Procs, StoreFetched(p), key[p] = k, [NextTx]_vars
        PROVE  k \in Renewed /\ Accounted(k, entries[k])'
    <2>1. at[p] = "store" /\ at'[p] = "land" /\ entries'[k] = got[p] /\ HoldsFetched(p)
      BY <1>1, <1>3 DEF StoreFetched, Goto, HoldsFetched, TypeOK, AdapterTypeOK
    <2>2. k \in Exposed
      BY <1>3, <2>1 DEF Exposed
    <2>3. Accounted(k, got[p])
      BY <1>3, <2>1 DEF HeldOK, Excused, Accounted, Spared
    <2>4. \A v : Accounted(k, v) => Accounted(k, v)'
      BY <2>2, AccountedStep DEF Found
    <2> QED
      BY <1>3, <2>1, <2>3, <2>4 DEF Renewed, Accounted
  <1>4. CASE k \in Renewed
    <2>1. CASE refreshing[k] = "store" /\ refreshing'[k] = "no"
      BY <1>1, <1>2, <2>1, RefreshMoves
    <2>2. ASSUME NEW p \in Procs, key[p] = k, at[p] = "store", at'[p] = "land"
          PROVE  k \in Renewed /\ Accounted(k, entries[k])'
      <3>1. [NextTx]_vars
        BY <1>1, <2>2, StepKinds, MeddlingKeeps
      <3>2. StoreFetched(p)
        BY <1>1, <2>2, <3>1, ServiceEffects DEF MoveEffect
      <3> QED
        BY <1>3, <2>2, <3>1, <3>2
    <2> QED
      BY <1>4, <2>1, <2>2 DEF Renewed
  <1>5. CASE k \notin Renewed
    <2>1. CASE [NextTx]_vars
      <3>1. \/ entries'[k] \in {entries[k], None}
            \/ \E p \in Procs : StoreFetched(p) /\ key[p] = k
        BY <1>1, <2>1, ServiceEffects DEF EntryEffect
      <3> QED
        BY <1>3, <1>5, <2>1, <3>1
    <2>2. ASSUME NEW l \in Keys, RefreshStores(l) PROVE entries'[k] = entries[k]
      BY <1>1, <1>2, <1>5, <2>2 DEF RefreshStores, TypeOK, AdapterTypeOK
    <2>3. CASE UNCHANGED entries
      BY <1>5, <2>3
    <2> QED
      BY <1>5, <2>1, <2>2, <2>3, StepKinds
      DEF Meddling, EvictRegistry, AddTagsFails, InvalidateTagsFails, AbortInvalidation,
        DeletionFails, DeletionFailsLater, shared
  <1> QED
    BY <1>4, <1>5

(* An entry that has slipped does so until it is removed or stored anew,   *)
(* and an entry that comes out of reach slips.                             *)
LEMMA SlippedStep ==
  ASSUME NextUnreliable
  PROVE  /\ SlippedOK'
         /\ \A k \in Keys : entries'[k] # None /\ k \in slipped /\ k \notin Renewed
              => k \in slipped'
  <1>1. PICK lost : Observe(lost)
    BY StepObserved
  <1> QED
    BY <1>1 DEF Observe, SlippedOK, Cached

-----------------------------------------------------------------------------
(* Variables keep their types; the record of an InvalidateTags is taken    *)
(* from the invalidation that begins.                                      *)
LEMMA UnreliableTypeStep ==
  ASSUME UnreliableTypeOK, ControlOK, RefreshedOK, NextUnreliable
  PROVE  UnreliableTypeOK'
  <1>1. TypeOK /\ RefreshTypeOK
    BY DEF UnreliableTypeOK
  <1>2. TypeOK'
    BY <1>1, StepKinds, TypeStep, MeddlingTypes
  <1>3. RefreshTypeOK'
    BY <1>1, RefreshMoves
  <1>4. PICK lost : Observe(lost)
    BY StepObserved
  <1>5. ASSUME NEW p \in Procs, at[p] \notin Invalidating, at'[p] \in Invalidating
        PROVE  [fallback |-> Head(plan[p]).fallback, covered |-> reached[p]] \in Attempts
    <2>1. [NextTx]_vars
      BY <1>1, <1>5, StepKinds, MeddlingKeeps
    <2>2. InvalidateByTags(p)
      BY <1>1, <1>5, <2>1, ServiceEffects DEF MoveEffect
    <2>3. Head(plan[p]) \in Invalidation
      BY <1>1, <2>2, ElemsHeadTail DEF InvalidateByTags, TypeOK
    <2> QED
      BY <1>1, <2>3, InvalidationParts DEF Attempts, TypeOK
  <1>6. attempt' \in [Procs -> Attempts]
    <2>1. NoAttempt \in Attempts
      BY DEF NoAttempt, Attempts
    <2>2. attempt' = [p \in Procs |->
            IF at'[p] \notin Invalidating THEN NoAttempt
            ELSE IF at[p] \in Invalidating THEN attempt[p]
            ELSE [fallback |-> Head(plan[p]).fallback, covered |-> reached[p]]]
      BY <1>4 DEF Observe
    <2>3. \A p \in Procs : attempt[p] \in Attempts
      BY DEF UnreliableTypeOK
    <2> HIDE DEF Attempts, NoAttempt
    <2> QED
      BY <1>5, <2>1, <2>2, <2>3
  <1>7. slipped' \in SUBSET Keys
    BY <1>4 DEF Observe, Cached, Uncovered
  <1>8. overtaken' \in [1..MaxWrites -> SUBSET Keys]
    BY <1>4 DEF Observe, UnreliableTypeOK, Cached
  <1> QED
    BY <1>2, <1>3, <1>6, <1>7, <1>8 DEF UnreliableTypeOK

(* So do control, tagMu and fetched data.                                  *)
LEMMA UnreliableControlStep ==
  ASSUME TypeOK, ControlOK, LockOK, HeldOK, NextUnreliable
  PROVE  ControlOK' /\ LockOK' /\ HeldOK'
  BY StepKinds, ControlStep, LockStep, HeldStep, MeddlingControl

(* Numbers stay below the version, and outcomes appear with their number.  *)
LEMMA OutcomesStep ==
  ASSUME TypeOK, TypeOK', ControlOK, OutcomesOK, NextUnreliable
  PROVE  OutcomesOK'
  <1>1. committed \in Nat /\ MaxWrites \in Nat
    BY BoundAssumption DEF TypeOK, Versions, BoundAssumption
  <1> USE <1>1 DEF OutcomesOK, TypeOK, Versions, Ops
  <1>2. ASSUME NEW p \in Procs, NEW k \in Keys, StartRead(p, k) PROVE OutcomesOK'
    BY <1>2 DEF StartRead
  <1>3. ASSUME NEW p \in Procs, RegisterTags(p) PROVE OutcomesOK'
    BY <1>3 DEF RegisterTags
  <1>4. ASSUME NEW p \in Procs, FinishRead(p) PROVE OutcomesOK'
    BY <1>4 DEF FinishRead
  <1>5. ASSUME NEW p \in Procs, NEW w \in Writes, BaseWrite(p, w) PROVE OutcomesOK'
    BY <1>5 DEF BaseWrite, Commit
  <1>6. ASSUME NEW p \in Procs, InvalidateByTags(p) PROVE OutcomesOK'
    <2>1. op[p] = "write" /\ op' = op /\ UNCHANGED <<committed, write, reach>>
      BY <1>6 DEF InvalidateByTags
    <2>2. \A q \in Procs \ {p} : reached'[q] = reached[q]
      BY <1>6 DEF InvalidateByTags
    <2> QED
      BY <2>1, <2>2
  <1>7. ASSUME NEW p \in Procs, FallBack(p) PROVE OutcomesOK'
    BY <1>7 DEF FallBack
  <1>8. ASSUME NEW p \in Procs, NextDeletion(p) PROVE OutcomesOK'
    BY <1>8 DEF NextDeletion
  <1>9. ASSUME NEW p \in Procs, FinishWrite(p) PROVE OutcomesOK'
    BY <1>9 DEF FinishWrite, Invalidated
  <1>10. ASSUME NEW p \in Procs, NEW w \in Writes, BaseWriteTx(p, w) PROVE OutcomesOK'
    BY <1>10 DEF BaseWriteTx
  <1>11. ASSUME NEW p \in Procs, FinishWriteTx(p) PROVE OutcomesOK'
    BY <1>11 DEF FinishWriteTx, Invalidated
  <1>12. ASSUME NEW p \in Procs, CommitTx(p) PROVE OutcomesOK'
    BY <1>12 DEF CommitTx, Commit
  <1>13. ASSUME NEW p \in Procs, RollbackTx(p) PROVE OutcomesOK'
    BY <1>13 DEF RollbackTx
  <1>14. CASE UNCHANGED decorator
    BY <1>14 DEF decorator
  <1>15. CASE Meddling
    <2>1. ASSUME NEW q \in Procs, InvalidateTagsFails(q) PROVE OutcomesOK'
      <3>1. op[q] = "write"
        BY <2>1 DEF InvalidateTagsFails, AbortInvalidation, ControlOK
      <3>2. /\ \A p \in Procs \ {q} : reached'[p] = reached[p]
            /\ UNCHANGED <<op, committed, write, reach>>
        BY <2>1 DEF InvalidateTagsFails
      <3> QED
        BY <3>1, <3>2
    <2>2. CASE UNCHANGED <<op, committed, write, reached, reach>>
      BY <2>2
    <2> QED
      BY <1>15, <2>1, <2>2
      DEF Meddling, RefreshStores, EvictRegistry, AddTagsFails, DeletionFails,
        DeletionFailsLater, decorator
  <1> QED
    BY <1>2, <1>3, <1>4, <1>5, <1>6, <1>7, <1>8, <1>9, <1>10, <1>11, <1>12, <1>13,
      <1>14, <1>15, StepKinds
    DEF NextTx, WriteTx, Next, Evict, Read, Write, Service, FetchBase, vars

(* A refresh fetches the current version, and commits find what it has.    *)
LEMMA RefreshedStep ==
  ASSUME UnreliableTypeOK, RefreshedOK, NextUnreliable
  PROVE  RefreshedOK'
  <1> SUFFICES ASSUME NEW k \in Keys, refreshing'[k] = "store"
               PROVE  refreshed'[k] # None /\ Accounted(k, refreshed[k])'
    BY DEF RefreshedOK
  <1>1. TypeOK /\ RefreshTypeOK
    BY DEF UnreliableTypeOK
  <1>2. CASE RefreshFetches(k)
    <2>1. refreshed'[k] = committed /\ committed' = committed
      BY <1>1, <1>2 DEF RefreshFetches, RefreshTypeOK, vars, decorator
    <2>2. committed \in Nat /\ committed # None
      BY <1>1, BoundAssumption, ValuesAssumption, NoneAssumption
      DEF TypeOK, Versions, BoundAssumption, ValuesAssumption, NoneAssumption
    <2> QED
      BY <2>1, <2>2 DEF Accounted
  <1>3. CASE refreshing[k] = "store" /\ refreshed'[k] = refreshed[k]
    <2>1. refreshed[k] # None /\ Accounted(k, refreshed[k])
      BY <1>3 DEF RefreshedOK
    <2>2. \A v : Accounted(k, v) => Accounted(k, v)'
      BY <1>3, AccountedStep DEF Found
    <2> QED
      BY <1>3, <2>1, <2>2 DEF Accounted
  <1> QED
    BY <1>1, <1>2, <1>3, RefreshMoves

-----------------------------------------------------------------------------
(* A key that invalidations can find stays so while it is cached, unless a *)
(* registry that lists it is evicted.                                      *)
LEMMA MeddlingFindable ==
  ASSUME TypeOK, Meddling, NEW k \in Keys, Findable(k)
  PROVE  Findable(k)' \/ \E t \in Tags : EvictRegistry(t) /\ k \in registry[t]
  <1>1. Elems(ReadTags[k]) \subseteq Tags
    BY ElemsIn, TagsAssumption DEF TagsAssumption
  <1>2. \A q \in Procs : at'[q] = "sweep" =>
          at[q] = "sweep" /\ todo'[q] = todo[q] /\ doomed'[q] = doomed[q]
    BY MeddlingKeeps
  <1>3. ASSUME \A t \in Elems(ReadTags[k]) : registry'[t] = registry[t]
        PROVE  Findable(k)'
    BY <1>2, <1>3 DEF Findable
  <1>4. ASSUME NEW t \in Tags, EvictRegistry(t), k \notin registry[t]
        PROVE  Findable(k)'
    <2>1. \A u \in Tags \ {t} : registry'[u] = registry[u]
      BY <1>4 DEF EvictRegistry, TypeOK, AdapterTypeOK
    <2>2. t \notin Elems(ReadTags[k])
      BY <1>4 DEF Findable
    <2> QED
      BY <1>1, <1>3, <2>1, <2>2
  <1>5. CASE UNCHANGED registry
    BY <1>3, <1>5
  <1> QED
    BY <1>4, <1>5
    DEF Meddling, RefreshStores, AddTagsFails, InvalidateTagsFails, AbortInvalidation,
      DeletionFails, DeletionFailsLater, shared

LEMMA FindableKept ==
  ASSUME UnreliableTypeOK, ControlOK, NextUnreliable, NEW k \in Keys, Findable(k),
         entries'[k] # None, k \notin slipped'
  PROVE  Findable(k)'
  <1>1. TypeOK
    BY DEF UnreliableTypeOK
  <1>2. ASSUME NEW t \in Tags, EvictRegistry(t), k \in registry[t] PROVE FALSE
    BY <1>2 DEF EvictRegistry, Observe, Cached
  <1> QED
    BY <1>1, <1>2, StepKinds, FindableStep, MeddlingFindable

(* What invalidations cannot find is accounted for or has slipped: whoever *)
(* commits while nobody is about to make it findable finds it slipped.     *)
LEMMA StrayStep ==
  ASSUME UnreliableTypeOK, ControlOK, HeldOK, RefreshedOK, SlippedOK, StrayOK,
         NextUnreliable
  PROVE  StrayOK'
  <1> SUFFICES ASSUME HasTagRegistry, NEW k \in Keys, entries'[k] # None,
                      ~Findable(k)', k \notin slipped'
               PROVE  Accounted(k, entries[k])'
    BY DEF StrayOK, Cached, HasTagRegistry
  <1>1. CASE k \notin Renewed /\ entries'[k] = entries[k]
    <2>1. k \notin slipped
      BY <1>1, SlippedStep
    <2>2. ~Findable(k)
      BY FindableKept
    <2>3. Accounted(k, entries[k])
      BY <1>1, <2>1, <2>2 DEF StrayOK, Cached
    <2>4. k \in Exposed
      BY <1>1, <2>1, <2>2 DEF SlippedOK, Uncovered, Cached, Exposed
    <2>5. \A v : Accounted(k, v) => Accounted(k, v)'
      BY <2>4, AccountedStep DEF Found
    <2> QED
      BY <1>1, <2>3, <2>5 DEF Accounted
  <1> QED
    BY <1>1, EntryStep

-----------------------------------------------------------------------------
(* No step makes a result stale for a write that is committed already, nor *)
(* takes the reason away for which a stale one was not owed to it.         *)
LEMMA OwedStep ==
  ASSUME UnreliableTypeOK, ControlOK, HeldOK, RefreshedOK, NextUnreliable,
         NEW n \in 1..committed, NEW k \in Keys, entries'[k] # None, entries'[k] < n,
         k \notin Spared(n)', k \notin slipped'
  PROVE  entries'[k] = entries[k] /\ k \notin Spared(n) /\ k \notin slipped
  <1>1. committed \in Nat /\ (committed' = committed \/ committed' = committed + 1)
    BY BoundAssumption, StepKinds, CommitStep, MeddlingKeeps
    DEF UnreliableTypeOK, TypeOK, Versions, BoundAssumption
  <1>2. n \in 1..committed' /\ Spared(n)' = Spared(n)
    BY <1>1, SparedStep
  <1>3. ~Accounted(k, entries[k])'
    BY <1>2 DEF Accounted
  <1>4. k \notin Renewed /\ entries'[k] = entries[k]
    BY <1>3, EntryStep
  <1> QED
    BY <1>2, <1>4, SlippedStep

(* A goroutine in a write keeps its number while it is in it, and has      *)
(* reached nothing when it begins.                                         *)
LEMMA WriterStep ==
  ASSUME TypeOK, ControlOK, OutcomesOK, NextUnreliable, NEW p \in Procs, op'[p] = "write"
  PROVE  \/ op[p] = "write" /\ write'[p] = write[p]
         \/ op[p] = "none" /\ reached'[p] = {} /\ at'[p] = "idle"
  <1>1. CASE [NextTx]_vars
    BY <1>1, HistoryEffects DEF WriterEffect, OutcomesOK, ControlOK
  <1>2. CASE Meddling
    BY <1>2, MeddlingKeeps
  <1> QED
    BY <1>1, <1>2, StepKinds

(* The number of a write is committed.                                     *)
LEMMA NumberCommitted ==
  ASSUME TypeOK, OutcomesOK, NEW p \in Procs, write[p] # 0
  PROVE  write[p] \in 1..committed
  BY BoundAssumption DEF TypeOK, OutcomesOK, Versions, BoundAssumption

(* An InvalidateTags that fails leaves what had been covered before it as  *)
(* it was when it began: done, since invalidations are made one by one.    *)
LEMMA AttemptStep ==
  ASSUME UnreliableTypeOK, UnreliableTypeOK', ControlOK, HeldOK, OutcomesOK, RefreshedOK,
         AttemptOK, OwedOK, NextUnreliable
  PROVE  AttemptOK'
  <1> SUFFICES ASSUME NEW p \in Procs, op'[p] = "write", write'[p] # 0,
                      at'[p] \in Invalidating,
                      NEW k \in attempt'[p].covered, k \notin Spared(write[p])',
                      k \notin slipped', entries'[k] # None
               PROVE  entries'[k] >= write'[p]
    BY DEF AttemptOK, Owed
  <1>1. TypeOK /\ TypeOK' /\ k \in Keys
    BY DEF UnreliableTypeOK, Attempts
  <1>2. op[p] = "write" /\ write'[p] = write[p]
    BY <1>1, WriterStep
  <1>3. write[p] \in 1..committed /\ entries'[k] \in Nat /\ write'[p] \in Nat
    BY SMTT(30), <1>1, <1>2, NumberCommitted, BoundAssumption, ValuesAssumption
    DEF TypeOK, AdapterTypeOK, Versions, BoundAssumption, ValuesAssumption
  <1> SUFFICES ASSUME entries'[k] < write[p] PROVE FALSE
    BY <1>2, <1>3
  <1>4. entries'[k] = entries[k] /\ k \notin Spared(write[p]) /\ k \notin slipped
    <2>1. k \notin Spared(write[p])' <=> k \notin racers'[write[p]] \cup overtaken'[write[p]]
      BY <1>2 DEF Spared
    <2> QED
      BY <1>1, <1>3, <2>1, OwedStep DEF Spared
  <1>5. PICK lost : Observe(lost)
    BY StepObserved
  <1>6. CASE at[p] \in Invalidating
    <2>1. k \in Owed(p, attempt[p].covered)
      BY <1>4, <1>5, <1>6 DEF Observe, Owed
    <2> QED
      BY <1>2, <1>3, <1>4, <1>6, <2>1 DEF AttemptOK
  <1>7. CASE at[p] \notin Invalidating
    <2>1. [NextTx]_vars
      BY <1>1, <1>7, StepKinds, MeddlingKeeps
    <2>2. InvalidateByTags(p)
      BY <1>1, <1>7, <2>1, ServiceEffects DEF MoveEffect
    <2>3. ~Pending(p, k)
      BY <2>2, ElemsEmpty DEF InvalidateByTags, CallInvalidateTags, Pending, Marked
    <2>4. attempt'[p] = [fallback |-> Head(plan[p]).fallback, covered |-> reached[p]]
      BY <1>5, <1>7 DEF Observe
    <2>5. k \in Owed(p, reached[p])
      BY <1>4, <2>4 DEF Owed
    <2> QED
      BY <1>2, <1>3, <1>4, <2>3, <2>5 DEF OwedOK
  <1> QED
    BY <1>6, <1>7

(* A pending deletion stays pending when the service meddles, except for   *)
(* the keys that slip and for an InvalidateTags that fails: its fallback   *)
(* is pending instead, and the rest was covered before.                    *)
LEMMA MeddlingPending ==
  ASSUME TypeOK, ControlOK, Meddling, NEW p \in Procs, op[p] = "write",
         NEW k \in Keys, Pending(p, k), entries'[k] # None, k \notin slipped',
         ~InvalidateTagsFails(p)
  PROVE  Pending(p, k)'
  <1>1. ASSUME at'[p] = at[p], todo'[p] = todo[p], doomed'[p] = doomed[p],
               fallback'[p] = fallback[p]
        PROVE  Pending(p, k)'
    BY <1>1 DEF Pending, Marked
  <1> USE DEF TypeOK, AdapterTypeOK
  <1>2. ASSUME NEW l \in Keys, RefreshStores(l) PROVE Pending(p, k)'
    BY <1>1, <1>2 DEF RefreshStores, locals, decorator
  <1>3. ASSUME NEW t \in Tags, EvictRegistry(t) PROVE Pending(p, k)'
    BY <1>1, <1>3 DEF EvictRegistry, locals, decorator
  <1>4. ASSUME NEW q \in Procs, AddTagsFails(q) PROVE Pending(p, k)'
    BY <1>1, <1>4 DEF ControlOK, AddTagsFails, decorator
  <1>5. ASSUME NEW q \in Procs, InvalidateTagsFails(q) PROVE Pending(p, k)'
    BY <1>1, <1>5 DEF InvalidateTagsFails, AbortInvalidation
  <1>6. ASSUME NEW q \in Procs, DeletionFails(q) PROVE Pending(p, k)'
    <2>1. CASE q # p
      BY <1>1, <1>6, <2>1 DEF DeletionFails, locals
    <2>2. CASE q = p
      <3>1. k \notin Head(fallback[p]).keys
        BY <1>6, <2>2 DEF DeletionFails, Observe, Cached
      <3>2. at[p] \in Outside /\ fallback'[p] = Tail(fallback[p])
        BY <1>6, <2>2 DEF DeletionFails
      <3>3. Elems(fallback[p]) = {Head(fallback[p])} \cup Elems(Tail(fallback[p]))
        BY <1>6, <2>2, ElemsHeadTail DEF DeletionFails
      <3> QED
        BY <3>1, <3>2, <3>3 DEF Pending, Marked
    <2> QED
      BY <2>1, <2>2
  <1>7. ASSUME NEW q \in Procs, DeletionFailsLater(q) PROVE Pending(p, k)'
    <2>1. CASE q # p
      BY <1>1, <1>7, <2>1 DEF DeletionFailsLater, decorator
    <2>2. CASE q = p
      <3>1. k \notin doomed[p]
        BY <1>7, <2>2 DEF DeletionFailsLater, Observe, Cached
      <3> QED
        BY <1>7, <2>2, <3>1 DEF DeletionFailsLater, decorator, Pending, Marked
    <2> QED
      BY <2>1, <2>2
  <1> QED
    BY <1>2, <1>3, <1>4, <1>5, <1>6, <1>7 DEF Meddling

(* What a write has reached is deleted, pending, or not owed.              *)
LEMMA ReachedStep ==
  ASSUME UnreliableTypeOK, ControlOK, HeldOK, OutcomesOK, RefreshedOK, StrayOK,
         UnreliableTypeOK', AttemptOK, OwedOK, NextUnreliable
  PROVE  OwedOK'
  <1> SUFFICES ASSUME NEW p \in Procs, op'[p] = "write", write'[p] # 0,
                      NEW k \in reached'[p], k \notin Spared(write[p])',
                      k \notin slipped', entries'[k] # None, entries'[k] < write'[p]
               PROVE  Pending(p, k)'
    BY DEF OwedOK, Owed
  <1>1. TypeOK /\ TypeOK' /\ k \in Keys
    BY DEF UnreliableTypeOK, TypeOK
  <1>2. op[p] = "write" /\ write'[p] = write[p]
    BY <1>1, WriterStep
  <1>3. write[p] \in 1..committed
    BY <1>1, <1>2, NumberCommitted
  <1>4. entries'[k] = entries[k] /\ k \notin Spared(write[p]) /\ k \notin slipped
    <2>1. k \notin Spared(write[p])' <=> k \notin racers'[write[p]] \cup overtaken'[write[p]]
      BY <1>2 DEF Spared
    <2> QED
      BY <1>1, <1>2, <1>3, <2>1, OwedStep DEF Spared
  <1>5. k \in reached[p] => Pending(p, k)
    BY <1>2, <1>3, <1>4 DEF OwedOK, Owed
  <1>6. CASE [NextTx]_vars
    <2>1. HasTagRegistry => Findable(k)
      BY <1>1, <1>2, <1>3, <1>4 DEF StrayOK, Cached, Accounted
    <2> QED
      BY <1>1, <1>2, <1>5, <1>6, <2>1, PendingStep
  <1>7. CASE InvalidateTagsFails(p)
    <2>1. /\ at[p] \in Invalidating /\ fallback'[p] = attempt[p].fallback
          /\ reached'[p] =
               attempt[p].covered \cup UNION {d.keys : d \in Elems(attempt[p].fallback)}
      BY <1>1, <1>7 DEF InvalidateTagsFails, AbortInvalidation, TypeOK
    <2>2. CASE k \in attempt[p].covered
      <3>1. entries[k] >= write[p]
        BY <1>2, <1>3, <1>4, <2>1, <2>2 DEF AttemptOK, Owed
      <3>2. entries[k] \in Nat /\ write[p] \in Nat
        BY <1>1, <1>3, <1>4, BoundAssumption, ValuesAssumption
        DEF TypeOK, AdapterTypeOK, Versions, BoundAssumption, ValuesAssumption
      <3> QED
        BY <1>2, <1>4, <3>1, <3>2
    <2>3. CASE k \notin attempt[p].covered
      BY <2>1, <2>3 DEF Pending
    <2> QED
      BY <2>2, <2>3
  <1>8. CASE Meddling /\ ~InvalidateTagsFails(p)
    <2>1. reached'[p] = reached[p]
      BY <1>1, <1>8
      DEF Meddling, RefreshStores, EvictRegistry, AddTagsFails, InvalidateTagsFails,
        DeletionFails, DeletionFailsLater, decorator, TypeOK
    <2> QED
      BY <1>1, <1>2, <1>5, <1>8, <2>1, MeddlingPending
  <1> QED
    BY <1>6, <1>7, <1>8, StepKinds

(* A finished write leaves nothing stale: what it has reached was owed     *)
(* nothing more, and a commit that ends a transaction spares the cache.    *)
LEMMA UnreliableStaleStep ==
  ASSUME UnreliableTypeOK, UnreliableTypeOK', ControlOK, HeldOK, OutcomesOK, OutcomesOK',
         RefreshedOK, OwedOK, StaleOnlyIfSlipped, NextUnreliable
  PROVE  StaleOnlyIfSlipped'
  <1>1. TypeOK /\ TypeOK'
    BY DEF UnreliableTypeOK
  <1>2. \A k \in Keys : entries'[k] # None => entries'[k] \in Nat
    BY <1>1, BoundAssumption, ValuesAssumption
    DEF TypeOK, AdapterTypeOK, Versions, BoundAssumption, ValuesAssumption
  <1> SUFFICES ASSUME NEW n \in 1..MaxWrites, NEW k \in Keys, k \in reach'[n],
                      k \notin Spared(n)', k \notin slipped', entries'[k] # None,
                      entries'[k] < n
               PROVE  FALSE
    BY <1>1, <1>2 DEF StaleOnlyIfSlipped, Spared, TypeOK
  <1>3. committed \in Nat /\ (committed' = committed \/ committed' = committed + 1)
    BY <1>1, BoundAssumption, StepKinds, CommitStep, MeddlingKeeps
    DEF TypeOK, Versions, BoundAssumption
  <1>4. n \in 1..committed'
    BY <1>3 DEF OutcomesOK
  <1>5. CASE n \in 1..committed
    <2>1. entries'[k] = entries[k] /\ k \notin Spared(n) /\ k \notin slipped
      BY <1>5, OwedStep
    <2>2. CASE k \in reach[n]
      <3>1. entries[k] >= n
        BY <2>1, <2>2 DEF StaleOnlyIfSlipped, Spared
      <3> QED
        BY <1>2, <2>1, <3>1
    <2>3. CASE k \notin reach[n]
      <3>1. [NextTx]_vars
        BY <1>1, <2>3, StepKinds, MeddlingKeeps
      <3>2. PICK p \in Procs : FinishWrite(p) /\ n = write[p]
        BY <1>1, <1>3, <1>5, <2>3, <3>1, ReachStep DEF CommitTx
      <3>3. op[p] = "write" /\ write[p] # 0 /\ k \in reached[p]
        BY <1>1, <2>3, <3>2 DEF FinishWrite, Invalidated, TypeOK
      <3>4. ~Pending(p, k)
        BY <3>2, ElemsEmpty DEF FinishWrite, Invalidated, Pending, Marked
      <3> QED
        BY <2>1, <3>2, <3>3, <3>4 DEF OwedOK, Owed
    <2> QED
      BY <2>2, <2>3
  <1>6. CASE n \notin 1..committed
    <2>1. n = committed + 1 /\ reach[n] = {}
      BY <1>3, <1>4, <1>6 DEF OutcomesOK
    <2>2. [NextTx]_vars
      BY <1>1, <2>1, StepKinds, MeddlingKeeps
    <2>3. PICK p \in Procs : (FinishWrite(p) /\ n = write[p]) \/ CommitTx(p)
      BY <1>1, <2>1, <2>2, ReachStep
    <2>4. CommitTx(p)
      BY <1>1, <1>3, <2>1, <2>3 DEF FinishWrite, OutcomesOK, TypeOK, Versions
    <2>5. entries'[k] = entries[k] /\ op[p] = "uncommitted" /\ op'[p] = "none"
      BY <1>1, <2>4 DEF CommitTx, shared, TypeOK
    <2>6. Found(k)
      BY <2>5 DEF Found, Cached
    <2> QED
      BY <1>4, <1>6, <2>6, SparedStep
  <1> QED
    BY <1>5, <1>6

-----------------------------------------------------------------------------
(* The invariant holds at the start.                                       *)
LEMMA UnreliableInitInvariant == InitUnreliable => UnreliableInv
  <1> SUFFICES ASSUME InitUnreliable PROVE UnreliableInv
    OBVIOUS
  <1>1. Init /\ IInv
    BY InitInvariant DEF InitUnreliable, InitRefresh
  <1>2. committed = 0 /\ MaxWrites \in Nat
    BY <1>1, BoundAssumption DEF Init, BoundAssumption
  <1>3. UnreliableTypeOK
    <2>1. RefreshTypeOK
      BY DEF InitUnreliable, InitRefresh, RefreshTypeOK
    <2>2. NoAttempt \in Attempts
      BY DEF NoAttempt, Attempts
    <2> QED
      BY <1>1, <2>1, <2>2 DEF InitUnreliable, UnreliableTypeOK, IInv
  <1>4. ControlOK /\ LockOK /\ HeldOK
    BY <1>1 DEF IInv
  <1>5. OutcomesOK /\ StaleOnlyIfSlipped
    BY <1>1, <1>2 DEF Init, OutcomesOK, StaleOnlyIfSlipped
  <1>6. RefreshedOK
    BY DEF InitUnreliable, InitRefresh, RefreshedOK
  <1>7. SlippedOK /\ StrayOK
    BY <1>1 DEF Init, AdapterInit, SlippedOK, StrayOK, Uncovered, Cached
  <1>8. AttemptOK /\ OwedOK
    BY <1>1 DEF Init, AttemptOK, OwedOK
  <1> QED
    BY <1>3, <1>4, <1>5, <1>6, <1>7, <1>8 DEF UnreliableInv

(* Every step preserves it.                                                *)
LEMMA UnreliableStepInvariant ==
  UnreliableInv /\ [NextUnreliable]_unreliableVars => UnreliableInv'
  <1> SUFFICES ASSUME UnreliableInv, [NextUnreliable]_unreliableVars PROVE UnreliableInv'
    OBVIOUS
  <1>1. CASE NextUnreliable
    <2>1. TypeOK /\ UnreliableTypeOK' /\ TypeOK'
      BY <1>1, UnreliableTypeStep DEF UnreliableInv, UnreliableTypeOK
    <2>2. ControlOK' /\ LockOK' /\ HeldOK'
      BY <1>1, <2>1, UnreliableControlStep DEF UnreliableInv
    <2>3. OutcomesOK' /\ RefreshedOK' /\ SlippedOK' /\ StrayOK'
      BY <1>1, <2>1, OutcomesStep, RefreshedStep, SlippedStep, StrayStep DEF UnreliableInv
    <2>4. AttemptOK' /\ OwedOK' /\ StaleOnlyIfSlipped'
      BY <1>1, <2>1, <2>3, AttemptStep, ReachedStep, UnreliableStaleStep DEF UnreliableInv
    <2> QED
      BY <2>1, <2>2, <2>3, <2>4 DEF UnreliableInv
  <1>2. CASE UNCHANGED unreliableVars
    <2> USE <1>2 DEF unreliableVars, serviceVars, allVars, refreshVars, vars, shared, locals,
              decorator
    <2>1. UnreliableTypeOK'
      BY DEF UnreliableInv, UnreliableTypeOK, RefreshTypeOK, TypeOK, AdapterTypeOK
    <2>2. ControlOK' /\ LockOK' /\ HeldOK'
      BY DEF UnreliableInv, ControlOK, LockOK, HeldOK, HoldsFetched, Excused
    <2>3. OutcomesOK' /\ RefreshedOK' /\ StaleOnlyIfSlipped'
      BY DEF UnreliableInv, OutcomesOK, RefreshedOK, StaleOnlyIfSlipped, Accounted, Spared
    <2>4. SlippedOK' /\ StrayOK'
      BY DEF UnreliableInv, SlippedOK, StrayOK, Uncovered, Cached, ReadingNow, Unregistered,
        HoldsFetched, Findable, Accounted, Spared
    <2>5. AttemptOK' /\ OwedOK'
      BY DEF UnreliableInv, AttemptOK, OwedOK, Owed, Spared, Pending, Marked
    <2> QED
      BY <2>1, <2>2, <2>3, <2>4, <2>5 DEF UnreliableInv
  <1> QED
    BY <1>1, <1>2

(* A result comes to be lost in three ways only.  The decorator's own      *)
(* steps keep what can be found findable and what a reader has in its      *)
(* care; of the meddling, only that of the property concerns the key.      *)
LEMMA LostStep ==
  ASSUME UnreliableTypeOK, ControlOK, LockOK, NextUnreliable, NEW k \in Keys,
         k \in Lost' \ Lost
  PROVE  \/ \E t \in Tags : EvictRegistry(t)
         \/ \E p \in Procs : key[p] = k /\ AddTagsFails(p)
         \/ RefreshStores(k)
  <1> TypeOK
    BY DEF UnreliableTypeOK
  <1> SUFFICES ASSUME \A t \in Tags : ~EvictRegistry(t), ~RefreshStores(k),
                      \A p \in Procs : AddTagsFails(p) => key[p] # k
               PROVE  FALSE
    OBVIOUS
  <1>1. /\ HasTagRegistry /\ entries'[k] # None
        /\ ~Findable(k)' /\ \A p \in Procs : ~InCare(p, k)'
    BY DEF Lost, Cached, HasTagRegistry
  <1>2. \/ entries[k] = None
        \/ Findable(k)
        \/ \E p \in Procs : InCare(p, k)
    BY <1>1 DEF Lost, Cached
  <1>3. CASE [NextTx]_vars
    <2>1. CASE entries[k] = None
      <3>1. PICK p \in Procs : StoreFetched(p) /\ key[p] = k
        BY <1>1, <1>3, <2>1, ServiceEffects DEF EntryEffect
      <3>2. InCare(p, k)'
        BY <3>1 DEF StoreFetched, Goto, InCare, Unregistered, HoldsFetched, ControlOK,
          TypeOK, AdapterTypeOK
      <3> QED
        BY <1>1, <3>2
    <2>2. CASE Findable(k)
      BY <1>1, <1>3, <2>2, FindableStep
    <2>3. ASSUME NEW q \in Procs, InCare(q, k) PROVE FALSE
      BY <1>1, <1>3, <2>3, CareStep
    <2> QED
      BY <1>2, <2>1, <2>2, <2>3
  <1>4. CASE Meddling
    <2>1. ASSUME NEW q \in Procs, InCare(q, k) PROVE InCare(q, k)'
      <3> USE DEF TypeOK, AdapterTypeOK, InCare, Unregistered, HoldsFetched
      <3>1. ASSUME NEW l \in Keys, RefreshStores(l) PROVE InCare(q, k)'
        BY <2>1, <3>1 DEF RefreshStores, locals, decorator
      <3>2. ASSUME NEW p \in Procs, AddTagsFails(p) PROVE InCare(q, k)'
        BY <2>1, <3>2 DEF AddTagsFails, decorator
      <3>3. ASSUME NEW p \in Procs, InvalidateTagsFails(p) PROVE InCare(q, k)'
        BY <2>1, <3>3 DEF InvalidateTagsFails, AbortInvalidation
      <3>4. ASSUME NEW p \in Procs, DeletionFails(p) PROVE InCare(q, k)'
        BY <2>1, <3>4 DEF DeletionFails, shared, locals
      <3>5. ASSUME NEW p \in Procs, DeletionFailsLater(p) PROVE InCare(q, k)'
        BY <2>1, <3>5 DEF DeletionFailsLater, shared, decorator
      <3> QED
        BY <1>4, <3>1, <3>2, <3>3, <3>4, <3>5 DEF Meddling
    <2>2. entries'[k] = entries[k]
      BY <1>4
      DEF Meddling, RefreshStores, AddTagsFails, InvalidateTagsFails, AbortInvalidation,
        DeletionFails, DeletionFailsLater, shared, TypeOK, AdapterTypeOK
    <2> QED
      BY <1>1, <1>2, <1>4, <2>1, <2>2, MeddlingFindable
  <1> QED
    BY <1>3, <1>4, StepKinds

-----------------------------------------------------------------------------
(* UnreliableInv is an inductive invariant of the decorator over services  *)
(* that evict registries, refresh hits and fail calls, with writes in      *)
(* transactions among the others.                                          *)
THEOREM UnreliableInvariance == SpecUnreliable => []UnreliableInv
  BY UnreliableInitInvariant, UnreliableStepInvariant, PTL DEF SpecUnreliable

(* Variables keep their types whatever the service does.                   *)
THEOREM UnreliableTypeCorrect == SpecUnreliable => []UnreliableTypeOK
  <1>1. UnreliableInv => UnreliableTypeOK
    BY DEF UnreliableInv
  <1> QED
    BY <1>1, UnreliableInvariance, PTL

(* A finished write leaves an older result under a key it covers only if   *)
(* a reader raced it, a refresh overtook its commit, it was committed      *)
(* after its invalidation, or the entry had slipped.  That InvalidateTags  *)
(* fails, half-way or at once, is made good by the fallback.               *)
THEOREM StaleUnlessSlipped == SpecUnreliable => []StaleOnlyIfSlipped
  <1>1. UnreliableInv => StaleOnlyIfSlipped
    BY DEF UnreliableInv
  <1> QED
    BY <1>1, UnreliableInvariance, PTL

(* A cached result is lost to invalidations by an evicted registry, by an  *)
(* AddTags that fails or by a refresh, and by nothing else.                *)
THEOREM CoverageLoss == SpecUnreliable => CoverageLostOnlyBy
  <1>1. ASSUME UnreliableInv, [NextUnreliable]_unreliableVars
        PROVE  [\A k \in Lost' \ Lost :
                  \/ \E t \in Tags : EvictRegistry(t)
                  \/ \E p \in Procs : key[p] = k /\ AddTagsFails(p)
                  \/ RefreshStores(k)]_unreliableVars
    <2>1. Lost' \subseteq Keys
      BY DEF Lost, Cached
    <2> QED
      BY <1>1, <2>1, LostStep DEF UnreliableInv
  <1> QED
    BY <1>1, UnreliableInvariance, PTL DEF SpecUnreliable, CoverageLostOnlyBy
=============================================================================
