------------------ MODULE CachedRepositoryRefinementProofs ------------------
(***************************************************************************)
(* CachedRepository implements ReadThroughCache, for every value of the    *)
(* constants.                                                              *)
(*                                                                         *)
(* The obligations of a reader are those of ReadsSeeFinishedWrites, which  *)
(* IInv has; what is left is that the promises keep: once a write is       *)
(* settled, neither its reach nor its races change, so that what a read is *)
(* due stays the same while it runs.                                       *)
(***************************************************************************)
EXTENDS CachedRepositoryRefinement, CachedRepositoryProofs

USE DEF Outside, Leading, Fetching, AddingTags, Invalidating, Deleting

(* A write that has finished keeps its outcome.                            *)
LEMMA OutcomeKept ==
  ASSUME IInv, [Next]_vars, NEW n \in 1..MaxWrites, reach[n] # {}
  PROVE  reach'[n] = reach[n] /\ racers'[n] = racers[n]
  <1> [NextTx]_vars
    BY DEF NextTx
  <1>1. TypeOK /\ WritesOK
    BY DEF IInv
  <1>2. reach'[n] = reach[n]
    <2> SUFFICES ASSUME reach'[n] # reach[n] PROVE FALSE
      OBVIOUS
    <2>1. PICK p \in Procs : FinishWrite(p) /\ n = write[p]
      BY <1>1, ReachStep DEF CommitTx, WritesOK
    <2> QED
      BY <1>1, <2>1 DEF FinishWrite, Invalidated, WritesOK
  <1>3. racers'[n] = racers[n]
    <2>1. committed \in Nat /\ n # committed + 1
      BY <1>1, CommitStep DEF WritesOK
    <2> QED
      BY <1>1, <2>1, HistoryEffects DEF CommitEffect, TypeOK
  <1> QED
    BY <1>2, <1>3

(* What is settled changes only when a write finishes.                     *)
LEMMA SettledKept ==
  ASSUME IInv, [Next]_vars, UNCHANGED reach
  PROVE  Settled' = Settled
  <1>1. ASSUME NEW n \in 1..MaxWrites PROVE reach'[n] \ racers'[n] = reach[n] \ racers[n]
    BY OutcomeKept
  <1> QED
    BY <1>1 DEF Settled

(* What a read is due stays the same while it runs.                        *)
LEMMA DueKept ==
  ASSUME IInv, [Next]_vars, NEW p \in Procs, before'[p] = before[p], key'[p] = key[p]
  PROVE  Due'[p] = Due[p]
  <1>1. \A n \in before[p] : n \in 1..MaxWrites /\ reach[n] # {}
    BY DEF IInv, TypeOK, WritesOK
  <1>2. \A n \in before[p] : Settled'[n] = Settled[n]
    BY <1>1, OutcomeKept DEF Settled
  <1> QED
    BY <1>2 DEF Due

(* The data in the cache and on its way is data there has been.            *)
LEMMA VersionsStep ==
  ASSUME TypeOK, TypeOK', ControlOK, VersionsOK, [Next]_vars
  PROVE  VersionsOK'
  <1> [NextTx]_vars
    BY DEF NextTx
  <1>0. /\ committed \in Nat /\ committed' \in Nat /\ committed <= committed'
        /\ Values = Versions /\ None \notin Values
    BY CommitStep, ValuesAssumption, NoneAssumption DEF ValuesAssumption, NoneAssumption
  <1>1. ASSUME NEW k \in Keys, entries'[k] # None PROVE entries'[k] <= committed'
    <2>1. EntryEffect(k)
      BY ServiceEffects
    <2>2. CASE entries'[k] = entries[k]
      <3>1. entries[k] \in Nat /\ entries[k] <= committed
        BY <1>0, <1>1, <2>2 DEF VersionsOK, TypeOK, AdapterTypeOK, Versions
      <3> QED
        BY <1>0, <2>2, <3>1
    <2>3. ASSUME NEW p \in Procs, StoreFetched(p), key[p] = k, entries'[k] = got[p]
          PROVE  entries'[k] <= committed'
      <3>1. got[p] \in Nat /\ got[p] <= committed
        BY <1>0, <1>1, <2>3 DEF VersionsOK, TypeOK, AdapterTypeOK, Versions
      <3> QED
        BY <1>0, <2>3, <3>1
    <2> QED
      BY <1>1, <2>1, <2>2, <2>3 DEF EntryEffect
  <1>2. ASSUME NEW p \in Procs, got'[p] # None PROVE got'[p] <= committed'
    <2>1. GotEffect(p)
      BY ServiceEffects
    <2>2. CASE got'[p] = got[p]
      <3>1. got[p] \in Nat /\ got[p] <= committed
        BY <1>0, <1>2, <2>2 DEF VersionsOK, TypeOK, AdapterTypeOK, Versions
      <3> QED
        BY <1>0, <2>2, <3>1
    <2>3. CASE LookupHit(p)
      <3>1. /\ key[p] \in Keys /\ entries[key[p]] # None /\ got'[p] = entries[key[p]]
        BY <2>3 DEF LookupHit, Goto, TypeOK, AdapterTypeOK, ControlOK, Ops
      <3>2. entries[key[p]] \in Nat /\ entries[key[p]] <= committed
        BY <1>0, <3>1 DEF VersionsOK, TypeOK, AdapterTypeOK, Versions
      <3> QED
        BY <1>0, <3>1, <3>2
    <2>4. CASE FetchBase(p)
      <3>1. got'[p] = committed
        BY <2>4 DEF FetchBase, FetchReturns, TypeOK, AdapterTypeOK
      <3> QED
        BY <1>0, <3>1
    <2>5. ASSUME NEW q \in Procs, got'[p] = got[q] PROVE got'[p] <= committed'
      <3>1. got[q] \in Nat /\ got[q] <= committed
        BY <1>0, <1>2, <2>5 DEF VersionsOK, TypeOK, AdapterTypeOK, Versions
      <3> QED
        BY <1>0, <2>5, <3>1
    <2> QED
      BY <1>2, <2>1, <2>2, <2>3, <2>4, <2>5 DEF GotEffect
  <1>3. ASSUME NEW p \in Procs, op'[p] # "write" PROVE write'[p] = 0
    <2> USE <1>3 DEF VersionsOK, TypeOK, Ops
    <2>1. ASSUME NEW q \in Procs, NEW l \in Keys, StartRead(q, l) PROVE write'[p] = 0
      BY <2>1 DEF StartRead
    <2>2. ASSUME NEW q \in Procs, RegisterTags(q) PROVE write'[p] = 0
      BY <2>2 DEF RegisterTags
    <2>3. ASSUME NEW q \in Procs, FinishRead(q) PROVE write'[p] = 0
      BY <2>3 DEF FinishRead
    <2>4. ASSUME NEW q \in Procs, NEW w \in Writes, BaseWrite(q, w) PROVE write'[p] = 0
      BY <2>4 DEF BaseWrite
    <2>5. ASSUME NEW q \in Procs, InvalidateByTags(q) PROVE write'[p] = 0
      BY <2>5 DEF InvalidateByTags
    <2>6. ASSUME NEW q \in Procs, FallBack(q) PROVE write'[p] = 0
      BY <2>6 DEF FallBack
    <2>7. ASSUME NEW q \in Procs, NextDeletion(q) PROVE write'[p] = 0
      BY <2>7 DEF NextDeletion
    <2>8. ASSUME NEW q \in Procs, FinishWrite(q) PROVE write'[p] = 0
      BY <2>8 DEF FinishWrite
    <2>9. CASE UNCHANGED decorator
      BY <2>9 DEF decorator
    <2> QED
      BY <2>1, <2>2, <2>3, <2>4, <2>5, <2>6, <2>7, <2>8, <2>9
      DEF Next, Evict, Read, Write, Service, FetchBase, vars
  <1>4. ASSUME NEW p \in Procs, ~InRead(p)' PROVE before'[p] = {}
    <2> USE <1>4 DEF VersionsOK, TypeOK, InRead, Ops
    <2>1. ASSUME NEW q \in Procs, NEW l \in Keys, StartRead(q, l) PROVE before'[p] = {}
      BY <2>1 DEF StartRead
    <2>2. ASSUME NEW q \in Procs, RegisterTags(q) PROVE before'[p] = {}
      BY <2>2 DEF RegisterTags
    <2>3. ASSUME NEW q \in Procs, FinishRead(q) PROVE before'[p] = {}
      BY <2>3 DEF FinishRead
    <2>4. ASSUME NEW q \in Procs, NEW w \in Writes, BaseWrite(q, w) PROVE before'[p] = {}
      BY <2>4 DEF BaseWrite
    <2>5. ASSUME NEW q \in Procs, InvalidateByTags(q) PROVE before'[p] = {}
      BY <2>5 DEF InvalidateByTags
    <2>6. ASSUME NEW q \in Procs, FallBack(q) PROVE before'[p] = {}
      BY <2>6 DEF FallBack
    <2>7. ASSUME NEW q \in Procs, NextDeletion(q) PROVE before'[p] = {}
      BY <2>7 DEF NextDeletion
    <2>8. ASSUME NEW q \in Procs, FinishWrite(q) PROVE before'[p] = {}
      BY <2>8 DEF FinishWrite
    <2>9. CASE UNCHANGED decorator
      BY <2>9 DEF decorator
    <2> QED
      BY <2>1, <2>2, <2>3, <2>4, <2>5, <2>6, <2>7, <2>8, <2>9
      DEF Next, Evict, Read, Write, Service, FetchBase, vars
  <1> QED
    BY <1>1, <1>2, <1>3, <1>4 DEF VersionsOK

-----------------------------------------------------------------------------
(* What callers can tell does not change in a step that leaves these.      *)
LEMMA Unseen ==
  ASSUME IInv, [Next]_vars,
         UNCHANGED <<committed, write, reached, reach, racers, before, key, got>>,
         \A p \in Procs : InRead(p)' = InRead(p)
  PROVE  UNCHANGED Promised!vars
  <1>1. Settled' = Settled
    BY SettledKept
  <1>2. Reading' = Reading /\ Result' = Result
    BY DEF Reading, Result
  <1>3. Due' = Due
    BY <1>1 DEF Due
  <1> QED
    BY <1>1, <1>2, <1>3 DEF Promised!vars

(* A step in which some readers of one key get their data, all the same,   *)
(* delivers it: that it is new enough is ReadsSeeFinishedWrites.           *)
LEMMA Delivery ==
  ASSUME IInv, IInv', VersionsOK, VersionsOK', [Next]_vars,
         NEW readers \in SUBSET Procs, NEW v, v # None,
         UNCHANGED <<committed, write, reached, reach, racers, before, key, op>>,
         \A p \in readers : op[p] = "read" /\ got[p] \in {None, v},
         \A p, q \in readers : key[p] = key[q],
         readers # {},
         got' = [p \in Procs |-> IF p \in readers THEN v ELSE got[p]]
  PROVE  Promised!Next
  <1>1. Settled' = Settled
    BY SettledKept
  <1>2. Reading' = Reading /\ Due' = Due
    BY <1>1 DEF Reading, Due, InRead
  <1>3. ASSUME NEW p \in readers
        PROVE  /\ Reading[p] = key[p] /\ key[p] # None /\ Result[p] \in {None, v}
               /\ \A n \in Due[p] : n <= v
               /\ v \in 0..committed
    <2>1. key[p] \in Keys /\ None \notin Keys /\ TypeOK' /\ op[p] = "read" /\ TypeOK
      BY NoneAssumption DEF IInv, ControlOK, NoneAssumption
    <2>2. got'[p] = v /\ v \in Versions /\ v <= committed /\ committed \in Versions
      BY <2>1, ValuesAssumption DEF VersionsOK, TypeOK, AdapterTypeOK, ValuesAssumption
    <2>3. v \in 0..committed
      BY <2>2, BoundAssumption DEF Versions, BoundAssumption
    <2>4. ASSUME NEW n \in Due[p] PROVE n <= v
      <3>1. n \in before[p] /\ n \in 1..MaxWrites /\ key[p] \in reach[n] \ racers[n]
        BY <2>1 DEF Due, Settled, TypeOK
      <3>2. got'[p] >= n
        BY <2>1, <2>2, <3>1 DEF IInv, ReadsSeeFinishedWrites
      <3> QED
        BY <2>2, <3>1, <3>2, BoundAssumption DEF Versions, BoundAssumption
    <2> QED
      BY <2>1, <2>3, <2>4 DEF Reading, Result, InRead
  <1>4. Result' = [p \in Procs |-> IF p \in readers THEN v ELSE Result[p]]
    BY DEF Result, InRead
  <1>5. v \in 0..committed
    BY <1>3
  <1>6. Promised!Deliver(readers, v)
    BY <1>1, <1>2, <1>3, <1>4 DEF Promised!Deliver
  <1> QED
    BY <1>5, <1>6 DEF Promised!Next

(* The steps inside a call: a hit and the end of a flight deliver.         *)
LEMMA ServiceRefines ==
  ASSUME IInv, IInv', VersionsOK, VersionsOK', [Next]_vars, NEW p \in Procs, Service(p)
  PROVE  Promised!Next \/ UNCHANGED Promised!vars
  <1> USE DEF Service, decorator
  <1>0. TypeOK /\ ControlOK
    BY DEF IInv
  <1>1. CASE LookupHit(p)
    <2>1. /\ op[p] = "read" /\ got[p] = None /\ key[p] \in Keys
          /\ got' = [q \in Procs |-> IF q \in {p} THEN entries[key[p]] ELSE got[q]]
          /\ entries[key[p]] # None /\ key' = key
      BY <1>0, <1>1 DEF LookupHit, Goto, TypeOK, AdapterTypeOK, ControlOK, Ops
    <2>2. /\ {p} \in SUBSET Procs /\ {p} # {}
          /\ \A q \in {p} : op[q] = "read" /\ got[q] \in {None, entries[key[p]]}
          /\ \A q, r \in {p} : key[q] = key[r]
          /\ UNCHANGED <<committed, write, reached, reach, racers, before, key, op>>
      BY <2>1
    <2> HIDE DEF Service
    <2> QED
      BY <2>1, <2>2, Delivery
  <1>2. CASE LandFlight(p) /\ got[p] # None
    <2>1. op[p] = "read" /\ key' = key
      BY <1>0, <1>2 DEF LandFlight, TypeOK, ControlOK, Ops
    <2>2. \A q \in Aboard(p) : op[q] = "read" /\ got[q] \in {None, got[p]} /\ key[q] = key[p]
      BY <1>0, <2>1 DEF Aboard, TypeOK, ControlOK, Ops
    <2>3. /\ got' = [q \in Procs |-> IF q \in Aboard(p) THEN got[p] ELSE got[q]]
          /\ Aboard(p) \in SUBSET Procs /\ p \in Aboard(p)
      BY <1>2 DEF LandFlight, Aboard
    <2> QED
      BY <1>2, <2>1, <2>2, <2>3, Delivery
  <1>3. CASE LandFlight(p) /\ got[p] = None
    <2>1. got' = got /\ key' = key
      BY <1>0, <1>3 DEF LandFlight, Aboard, TypeOK, AdapterTypeOK, ControlOK
    <2> QED
      BY <2>1, Unseen DEF InRead
  <1>4. CASE \/ LookupMiss(p) \/ LeadFlight(p) \/ JoinFlight(p) \/ FetchFails(p)
             \/ StoreFetched(p) \/ AddTagsStep(p) \/ InvalidateTagsStep(p) \/ DeleteStep(p)
    <2>1. got' = got /\ key' = key
      BY <1>4 DEF LookupMiss, LeadFlight, JoinFlight, FetchFails, StoreFetched, AddTagsStep,
        InvalidateTagsStep, DeleteStep, LockToAdd, AddTag, UnlockAdded, LockToInvalidate,
        LoadRegistry, DropRegistry, UnlockInvalidated, SweepKey, ScanKeys, DeletedAll, DeleteKey
    <2> QED
      BY <2>1, Unseen DEF InRead
  <1> QED
    BY <1>1, <1>2, <1>3, <1>4 DEF CallStep, GetOrFetchStep

(* Each of the decorator's steps is the promised one of its name, or none. *)
LEMMA StepRefines ==
  ASSUME IInv, IInv', VersionsOK, VersionsOK', [Next]_vars
  PROVE  Promised!Next \/ UNCHANGED Promised!vars
  <1>0. /\ TypeOK /\ TypeOK' /\ ControlOK /\ ControlOK' /\ WritesOK
        /\ None \notin Keys /\ MaxWrites \in Nat
    BY NoneAssumption, BoundAssumption DEF IInv, NoneAssumption, BoundAssumption
  <1>1. ASSUME NEW k \in Keys, EvictEntry(k), UNCHANGED decorator
        PROVE  UNCHANGED Promised!vars
    BY <1>1, Unseen DEF EvictEntry, locals, decorator, InRead
  <1>2. ASSUME NEW p \in Procs, NEW k \in Keys, StartRead(p, k) PROVE Promised!Next
    <2> USE <1>0, <1>2 DEF StartRead, CallGetOrFetch, shared
    <2>1. Settled' = Settled
      BY SettledKept
    <2>2. /\ op[p] = "none" /\ write[p] = 0 /\ op' = [op EXCEPT ![p] = "read"]
          /\ key' = [key EXCEPT ![p] = k] /\ got' = [got EXCEPT ![p] = None]
          /\ before' = [before EXCEPT ![p] = {n \in 1..MaxWrites : reach[n] # {}}]
      BY DEF VersionsOK
    <2>3. /\ Reading[p] = None
          /\ Reading' = [Reading EXCEPT ![p] = k]
          /\ Result' = Result
      BY <2>2 DEF Reading, Result, InRead, TypeOK, AdapterTypeOK, Ops
    <2>4. \A q \in Procs \ {p} : Due'[q] = Due[q]
      BY <2>2, DueKept DEF TypeOK, AdapterTypeOK
    <2>5. Due'[p] = {n \in 1..MaxWrites : k \in Settled[n]}
      BY <2>1, <2>2 DEF Due, Settled, TypeOK, AdapterTypeOK
    <2>6. Due' = [Due EXCEPT ![p] = {n \in 1..MaxWrites : k \in Settled[n]}]
      BY <2>4, <2>5 DEF Due
    <2>7. Promised!BeginRead(p, k)
      BY <2>1, <2>2, <2>3, <2>6 DEF Promised!BeginRead, Promised!Idle
    <2> QED
      BY <2>7 DEF Promised!Next
  <1>3. ASSUME NEW p \in Procs, FetchBase(p) PROVE Promised!Next
    <2>1. /\ op[p] = "read" /\ got[p] = None
          /\ got' = [q \in Procs |-> IF q \in {p} THEN committed ELSE got[q]]
          /\ committed # None
          /\ UNCHANGED <<committed, write, reached, reach, racers, before, key, op>>
      BY <1>0, <1>3, NoneAssumption, ValuesAssumption
      DEF FetchBase, FetchReturns, Goto, shared, decorator, TypeOK, AdapterTypeOK, ControlOK, Ops,
        NoneAssumption, ValuesAssumption
    <2>2. /\ {p} \in SUBSET Procs /\ {p} # {}
          /\ \A q \in {p} : op[q] = "read" /\ got[q] \in {None, committed}
          /\ \A q, r \in {p} : key[q] = key[r]
      BY <2>1
    <2> QED
      BY <2>1, <2>2, Delivery
  <1>4. ASSUME NEW p \in Procs, RegisterTags(p) PROVE UNCHANGED Promised!vars
    <2>1. /\ UNCHANGED <<committed, write, reached, reach, racers, before, key, got>>
          /\ op[p] = "read" /\ op' = [op EXCEPT ![p] = "register"]
      BY <1>0, <1>4 DEF RegisterTags, CallAddTags, shared, TypeOK, AdapterTypeOK
    <2>2. \A q \in Procs : InRead(q)' = InRead(q)
      BY <1>0, <2>1 DEF InRead, TypeOK
    <2> QED
      BY <2>1, <2>2, Unseen
  <1>5. ASSUME NEW p \in Procs, FinishRead(p) PROVE Promised!Next
    <2> USE <1>0, <1>5 DEF FinishRead, Return, shared
    <2>1. Settled' = Settled
      BY SettledKept
    <2>2. /\ op[p] \in {"read", "register"} /\ key[p] \in Keys
          /\ op' = [op EXCEPT ![p] = "none"] /\ before' = [before EXCEPT ![p] = {}]
          /\ key' = [key EXCEPT ![p] = None] /\ got' = [got EXCEPT ![p] = None]
      BY DEF ControlOK
    <2>3. /\ Reading[p] # None
          /\ Reading' = [Reading EXCEPT ![p] = None]
          /\ Result' = [Result EXCEPT ![p] = None]
      BY <2>2 DEF Reading, Result, InRead, TypeOK, AdapterTypeOK, Ops
    <2>4. \A q \in Procs \ {p} : Due'[q] = Due[q]
      BY <2>2, DueKept DEF TypeOK, AdapterTypeOK
    <2>5. Due'[p] = {}
      BY <2>2 DEF Due, TypeOK
    <2>6. Due' = [Due EXCEPT ![p] = {}]
      BY <2>4, <2>5 DEF Due
    <2>7. Promised!EndRead(p)
      BY <2>1, <2>3, <2>6 DEF Promised!EndRead
    <2> QED
      BY <2>7 DEF Promised!Next
  <1>6. ASSUME NEW p \in Procs, NEW w \in Writes, BaseWrite(p, w) PROVE Promised!Next
    <2> USE <1>0, <1>6 DEF BaseWrite, Commit, shared, locals
    <2>1. Settled' = Settled
      BY SettledKept
    <2>2. op[p] = "none" /\ write[p] = 0 /\ op' = [op EXCEPT ![p] = "write"]
      BY DEF VersionsOK
    <2>3. Reading[p] = None /\ Reading' = Reading /\ Result' = Result
      BY <2>2 DEF Reading, Result, InRead, TypeOK, AdapterTypeOK, Ops
    <2>4. Due' = Due
      BY <2>1 DEF Due
    <2>5. Exposed \in SUBSET {k \in Keys : \E q \in Procs : Reading[q] = k}
      <3>1. ASSUME NEW q \in Procs, Unregistered(q) \/ HoldsFetched(q)
            PROVE  InRead(q)
        BY <3>1 DEF Unregistered, HoldsFetched, InRead, ControlOK, TypeOK, Ops
      <3> QED
        BY <3>1 DEF Exposed, ReadingNow, Reading
    <2>6. Promised!Commit(p)
      BY <2>1, <2>2, <2>3, <2>4, <2>5 DEF Promised!Commit, Promised!Idle
    <2> QED
      BY <2>6 DEF Promised!Next
  <1>7. ASSUME NEW p \in Procs, InvalidateByTags(p) \/ FallBack(p) PROVE Promised!Next
    <2>1. /\ op[p] = "write"
          /\ UNCHANGED <<committed, write, reach, racers, before, key, got, op>>
          /\ \E ks \in SUBSET Keys : reached' = [reached EXCEPT ![p] = @ \cup ks]
      <3>1. CASE InvalidateByTags(p)
        BY <3>1 DEF InvalidateByTags, CallInvalidateTags, shared
      <3>2. CASE FallBack(p)
        <4>1. reached' \in [Procs -> SUBSET Keys] /\ reached \in [Procs -> SUBSET Keys]
          BY <1>0 DEF TypeOK
        <4>2. reached' = [reached EXCEPT ![p] = @ \cup reached'[p]]
          BY <3>2, <4>1 DEF FallBack
        <4> QED
          BY <3>2, <4>1, <4>2 DEF FallBack, locals
      <3> QED
        BY <1>7, <3>1, <3>2
    <2>2. Settled' = Settled
      BY <2>1, SettledKept
    <2>3. Reading' = Reading /\ Result' = Result /\ Due' = Due
      BY <2>1, <2>2 DEF Reading, Result, Due, InRead
    <2>4. write[p] # 0
      BY <1>0, <2>1 DEF WritesOK
    <2>5. PICK ks \in SUBSET Keys : reached' = [reached EXCEPT ![p] = @ \cup ks]
      BY <2>1
    <2>6. Promised!Cover(p, ks)
      BY <2>1, <2>2, <2>3, <2>4, <2>5 DEF Promised!Cover
    <2> QED
      BY <2>6 DEF Promised!Next
  <1>8. ASSUME NEW p \in Procs, NextDeletion(p) PROVE UNCHANGED Promised!vars
    <2>1. UNCHANGED <<committed, write, reached, reach, racers, before, key, got, op>>
      BY <1>8 DEF NextDeletion, CallDeleteByPrefix, CallDelete, shared
    <2> QED
      BY <2>1, Unseen DEF InRead
  <1>9. ASSUME NEW p \in Procs, FinishWrite(p) PROVE Promised!Next
    <2> USE <1>0, <1>9 DEF FinishWrite, Invalidated, Return, shared
    <2>1. /\ op[p] = "write" /\ write[p] \in 1..MaxWrites
          /\ reach' = [reach EXCEPT ![write[p]] = reached[p]]
          /\ UNCHANGED <<committed, racers, before>>
          /\ op' = [op EXCEPT ![p] = "none"]
          /\ key' = [key EXCEPT ![p] = None] /\ got' = [got EXCEPT ![p] = None]
      BY DEF TypeOK, Versions
    <2>2. Settled' = [Settled EXCEPT ![write[p]] = reached[p] \ racers[write[p]]]
      BY <2>1 DEF Settled, TypeOK
    <2>3. Reading' = Reading /\ Result' = Result
      BY <2>1 DEF Reading, Result, InRead, TypeOK, AdapterTypeOK, Ops
    <2>4. \A q \in Procs \ {p} : Due'[q] = Due[q]
      BY <2>1, DueKept DEF TypeOK, AdapterTypeOK
    <2>5. Due'[p] = Due[p]
      BY <2>1 DEF Due, VersionsOK, InRead
    <2>6. Due' = Due
      BY <2>4, <2>5 DEF Due
    <2>7. Promised!Settle(p)
      BY <2>1, <2>2, <2>3, <2>6 DEF Promised!Settle
    <2> QED
      BY <2>7 DEF Promised!Next
  <1>10. ASSUME NEW p \in Procs, Service(p) PROVE Promised!Next \/ UNCHANGED Promised!vars
    BY <1>10, ServiceRefines
  <1>11. CASE UNCHANGED vars
    BY <1>11, Unseen DEF vars, shared, locals, decorator, InRead
  <1> QED
    BY <1>1, <1>2, <1>3, <1>4, <1>5, <1>6, <1>7, <1>8, <1>9, <1>10, <1>11
    DEF Next, Evict, Read, Write

(* The decorator over its service starts as promised.                      *)
LEMMA InitRefines == Init => Promised!Init /\ VersionsOK
  BY DEF Init, AdapterInit, VersionsOK, Promised!Init, Settled, Reading, Due, Result, InRead

-----------------------------------------------------------------------------
(* Every behaviour of the decorator over its service, seen by its callers, *)
(* is one of ReadThroughCache: whatever goroutines, keys, tags, plans and  *)
(* interleavings, a read that begins after a write returned is served      *)
(* data as new as the write, unless another read of the key was under way  *)
(* when the write committed.                                               *)
THEOREM Refinement == Spec => KeepsPromise
  <1>1. Init => Promised!Init /\ VersionsOK
    BY InitRefines
  <1>2. IInv /\ IInv' /\ VersionsOK /\ [Next]_vars => VersionsOK'
    BY VersionsStep DEF IInv
  <1>3. IInv /\ IInv' /\ VersionsOK /\ VersionsOK' /\ [Next]_vars
          => [Promised!Next]_(Promised!vars)
    BY StepRefines
  <1> QED
    BY <1>1, <1>2, <1>3, Invariance, PTL DEF Spec, KeepsPromise, Promised!Spec
=============================================================================
