-------------------------- MODULE CachedRepository --------------------------
(***************************************************************************)
(* The caching decorator, repositorycache/decorator.go, running on the     *)
(* cache service of SturdycAdapter over a base repository.                 *)
(*                                                                         *)
(* A cached read is GetOrFetch followed by AddTags; a write is a call of   *)
(* the base repository followed by one invalidation per invalidateAfter... *)
(* call: by tags where the service supports them, else key by key.         *)
(*                                                                         *)
(* The base repository (external) is its version: the number of writes     *)
(* committed so far.  A fetch returns the version it read, so an entry     *)
(* says how old its data is.  Which tags a read registers and which a      *)
(* write invalidates are parameters; RepositoryKeys derives them from the  *)
(* decorator's code.                                                       *)
(*                                                                         *)
(* Reads with criteria, *Tx reads, Raw and Handlers only call the base     *)
(* repository, and a failed write returns before it invalidates anything:  *)
(* none of them changes this state.                                        *)
(***************************************************************************)
EXTENDS SturdycAdapter

CONSTANTS
  ReadTags,    \* [Keys -> Seq(Tags)]: what a read of the key registers
  Writes,      \* the writes clients issue
  Plan,        \* [Writes -> Seq(Invalidation)]: one per invalidateAfter... call
  TagSupport,  \* does the service implement cache.TagRegistry: see below
  MaxWrites    \* bound: the number of committed writes

(* "full": sturdycService, whose InvalidateTags never returns an error;    *)
(* "failing": another service, whose InvalidateTags may return one;        *)
(* "none": a service without TagRegistry.                                  *)
HasTagRegistry == TagSupport \in {"full", "failing"}

(* A fallback is a list of deletions: deleteKey removes one key,           *)
(* deleteByPrefix scans for the keys that match.                           *)
KeyDeletion  == {[scan |-> FALSE, keys |-> {k}] : k \in Keys}
Deletion     == [scan : {TRUE}, keys : SUBSET Keys] \cup KeyDeletion
Invalidation == [tags : Seq(Tags), fallback : Seq(Deletion)]

Versions == 0..MaxWrites

ASSUME BoundAssumption   == MaxWrites \in Nat
ASSUME ValuesAssumption  == Values = Versions
(* Every read registers at least its scope tag.                            *)
ASSUME TagsAssumption    == /\ ReadTags \in [Keys -> Seq(Tags)]
                            /\ \A k \in Keys : ReadTags[k] # <<>>
ASSUME PlanAssumption    == Plan \in [Writes -> Seq(Invalidation)]
ASSUME SupportAssumption == TagSupport \in {"full", "failing", "none"}

VARIABLES
  op,         \* which method each goroutine is in
  plan,       \* the invalidations its write has still to make
  fallback,   \* the deletions left of the fallback it is in
  committed,  \* the base repository's version
  write,      \* the version its write committed, 0 outside a write
  reached,    \* history: the keys its write's invalidations so far cover
  reach,      \* history: the keys each finished write's invalidations cover
  racers,     \* history: the keys exposed to a race when each write committed
  before      \* history: the writes finished when its read began

decorator == <<op, plan, fallback, committed, write, reached, reach, racers, before>>
vars      == <<shared, locals, decorator>>

Ops == {"none", "read", "register", "write", "uncommitted"}

TypeOK ==
  /\ AdapterTypeOK
  /\ op \in [Procs -> Ops]
  /\ plan \in [Procs -> Seq(Invalidation)]
  /\ fallback \in [Procs -> Seq(Deletion)]
  /\ committed \in Versions
  /\ write \in [Procs -> Versions]
  /\ reached \in [Procs -> SUBSET Keys]
  /\ reach \in [1..MaxWrites -> SUBSET Keys]
  /\ racers \in [1..MaxWrites -> SUBSET Keys]
  /\ before \in [Procs -> SUBSET (1..MaxWrites)]

Init ==
  /\ AdapterInit
  /\ op        = [p \in Procs |-> "none"]
  /\ plan      = [p \in Procs |-> <<>>]
  /\ fallback  = [p \in Procs |-> <<>>]
  /\ committed = 0
  /\ write     = [p \in Procs |-> 0]
  /\ reached   = [p \in Procs |-> {}]
  /\ reach     = [n \in 1..MaxWrites |-> {}]
  /\ racers    = [n \in 1..MaxWrites |-> {}]
  /\ before    = [p \in Procs |-> {}]

Tagged(k, ts) == Elems(ReadTags[k]) \cap Elems(ts) # {}

(* A goroutine has fetched or been served the key and has not registered   *)
(* it yet.  One waiting on a flight counts through the flight's leader.    *)
HoldsFetched(p) == at[p] \in {"store", "land"} /\ got[p] # None
Unregistered(p) == \/ HoldsFetched(p)
                   \/ at[p] = "served" /\ op[p] = "read"
                   \/ at[p] \in AddingTags
ReadingNow == {k \in Keys : \E p \in Procs : key[p] = k /\ Unregistered(p)}

(* It has the key, and what it has registered of it is still there.        *)
InCare(p, k) ==
  /\ key[p] = k
  /\ Unregistered(p)
  /\ at[p] = "adding" =>
       \A t \in Elems(ReadTags[k]) : t \in Elems(todo[p]) \/ k \in registry[t]

(* Every tag of the key lists it, and no invalidation of the tag is past   *)
(* the key and about to drop the registry that lists it.                   *)
Findable(k) ==
  \A t \in Elems(ReadTags[k]) :
    /\ k \in registry[t]
    /\ ~ \E p \in Procs : at[p] = "sweep" /\ Head(todo[p]) = t /\ k \notin doomed[p]

(* The keys a write that commits now may fail to invalidate: a goroutine   *)
(* holds data fetched before it, or the goroutine that will make an entry  *)
(* findable has not done so.                                               *)
Exposed ==
  {k \in Keys : \E p \in Procs : key[p] = k /\ HoldsFetched(p)}
  \cup {k \in ReadingNow : HasTagRegistry /\ ~Findable(k)}

-----------------------------------------------------------------------------
(* Get, GetByID, List, Count and GetByIdentifier without criteria.         *)
StartRead(p, k) ==
  /\ op[p] = "none"
  /\ op' = [op EXCEPT ![p] = "read"]
  /\ before' = [before EXCEPT ![p] = {n \in 1..MaxWrites : reach[n] # {}}]
  /\ CallGetOrFetch(p, k, TRUE)
  /\ UNCHANGED <<plan, fallback, committed, write, reached, reach, racers>>

(* The fetch closure calls the base repository.                            *)
FetchBase(p) == FetchReturns(p, committed) /\ UNCHANGED decorator

RegisterTags(p) ==
  /\ op[p] = "read"
  /\ at[p] = "served"
  /\ HasTagRegistry
  /\ op' = [op EXCEPT ![p] = "register"]
  /\ CallAddTags(p, key[p], ReadTags[key[p]])
  /\ UNCHANGED <<plan, fallback, committed, write, reached, reach, racers, before>>

FinishRead(p) ==
  /\ \/ op[p] = "register" /\ at[p] = "done"
     \/ op[p] = "read" /\ at[p] = "failed"
     \/ op[p] = "read" /\ at[p] = "served" /\ ~HasTagRegistry
  /\ op' = [op EXCEPT ![p] = "none"]
  /\ before' = [before EXCEPT ![p] = {}]
  /\ Return(p)
  /\ UNCHANGED <<plan, fallback, committed, write, reached, reach, racers>>

-----------------------------------------------------------------------------
Commit(p) ==
  /\ committed < MaxWrites
  /\ committed' = committed + 1
  /\ racers' = [racers EXCEPT ![committed + 1] = Exposed]

(* A write outside a transaction: the base call commits it.                *)
BaseWrite(p, w) ==
  /\ op[p] = "none"
  /\ Commit(p)
  /\ op' = [op EXCEPT ![p] = "write"]
  /\ plan' = [plan EXCEPT ![p] = Plan[w]]
  /\ write' = [write EXCEPT ![p] = committed + 1]
  /\ UNCHANGED <<shared, locals, fallback, reached, reach, before>>

(* invalidateTags: true unless the service has no TagRegistry or fails.    *)
InvalidateByTags(p) ==
  /\ op[p] = "write"
  /\ plan[p] # <<>>
  /\ fallback[p] = <<>>
  /\ HasTagRegistry
  /\ CallInvalidateTags(p, Head(plan[p]).tags)
  /\ plan' = [plan EXCEPT ![p] = Tail(@)]
  /\ reached' = [reached EXCEPT ![p] = @ \cup {k \in Keys : Tagged(k, Head(plan[p]).tags)}]
  /\ UNCHANGED <<op, fallback, committed, write, reach, racers, before>>

FallBack(p) ==
  /\ op[p] = "write"
  /\ at[p] \in Outside
  /\ plan[p] # <<>>
  /\ fallback[p] = <<>>
  /\ TagSupport # "full"
  /\ fallback' = [fallback EXCEPT ![p] = Head(plan[p]).fallback]
  /\ plan' = [plan EXCEPT ![p] = Tail(@)]
  /\ reached' = [reached EXCEPT ![p] =
       @ \cup UNION {d.keys : d \in Elems(Head(plan[p]).fallback)}]
  /\ UNCHANGED <<shared, locals, op, committed, write, reach, racers, before>>

(* deleteByPrefix or deleteKey.                                            *)
NextDeletion(p) ==
  /\ op[p] = "write"
  /\ fallback[p] # <<>>
  /\ IF Head(fallback[p]).scan
       THEN CallDeleteByPrefix(p, Head(fallback[p]).keys)
       ELSE \E k \in Head(fallback[p]).keys : CallDelete(p, k)
  /\ fallback' = [fallback EXCEPT ![p] = Tail(@)]
  /\ UNCHANGED <<op, plan, committed, write, reached, reach, racers, before>>

Invalidated(p) ==
  /\ op[p] = "write"
  /\ at[p] \in Outside
  /\ plan[p] = <<>>
  /\ fallback[p] = <<>>

FinishWrite(p) ==
  /\ Invalidated(p)
  /\ write[p] # 0
  /\ reach' = [reach EXCEPT ![write[p]] = reached[p]]
  /\ reached' = [reached EXCEPT ![p] = {}]
  /\ write' = [write EXCEPT ![p] = 0]
  /\ op' = [op EXCEPT ![p] = "none"]
  /\ Return(p)
  /\ UNCHANGED <<plan, fallback, committed, racers, before>>

-----------------------------------------------------------------------------
(* The *Tx writes: the statement runs in the caller's transaction, the     *)
(* decorator invalidates at once, and the caller commits or rolls back     *)
(* after the method has returned.                                          *)
BaseWriteTx(p, w) ==
  /\ op[p] = "none"
  /\ op' = [op EXCEPT ![p] = "write"]
  /\ plan' = [plan EXCEPT ![p] = Plan[w]]
  /\ UNCHANGED <<shared, locals, fallback, committed, write, reached, reach, racers, before>>

FinishWriteTx(p) ==
  /\ Invalidated(p)
  /\ write[p] = 0
  /\ op' = [op EXCEPT ![p] = "uncommitted"]
  /\ Return(p)
  /\ UNCHANGED <<plan, fallback, committed, write, reached, reach, racers, before>>

CommitTx(p) ==
  /\ op[p] = "uncommitted"
  /\ Commit(p)
  /\ op' = [op EXCEPT ![p] = "none"]
  /\ reach' = [reach EXCEPT ![committed + 1] = reached[p]]
  /\ reached' = [reached EXCEPT ![p] = {}]
  /\ UNCHANGED <<shared, locals, plan, fallback, write, before>>

RollbackTx(p) ==
  /\ op[p] = "uncommitted"
  /\ op' = [op EXCEPT ![p] = "none"]
  /\ reached' = [reached EXCEPT ![p] = {}]
  /\ UNCHANGED <<shared, locals, plan, fallback, committed, write, reach, racers, before>>

-----------------------------------------------------------------------------
Read(p) ==
  \/ \E k \in Keys : StartRead(p, k)
  \/ FetchBase(p) \/ RegisterTags(p) \/ FinishRead(p)

Write(p) ==
  \/ \E w \in Writes : BaseWrite(p, w)
  \/ InvalidateByTags(p) \/ FallBack(p) \/ NextDeletion(p) \/ FinishWrite(p)

WriteTx(p) ==
  \/ \E w \in Writes : BaseWriteTx(p, w)
  \/ FinishWriteTx(p) \/ CommitTx(p) \/ RollbackTx(p)

Service(p) == CallStep(p) /\ UNCHANGED decorator

Evict == \E k \in Keys : EvictEntry(k) /\ UNCHANGED decorator

Next == Evict \/ \E p \in Procs : Read(p) \/ Write(p) \/ Service(p)

Spec == Init /\ [][Next]_vars

(* The same with transactions.                                             *)
NextTx == Next \/ \E p \in Procs : WriteTx(p)
SpecTx == Init /\ [][NextTx]_vars

-----------------------------------------------------------------------------
(* A cached result can be found again by every write that shares a tag     *)
(* with it: each of its tags lists its key, or a reader that has it is     *)
(* about to register it.  registerTags runs after GetOrFetch has stored    *)
(* the result, and InvalidateTags drops whole registries in between.       *)
TagCoverage ==
  HasTagRegistry =>
    \A k \in Keys : entries[k] # None =>
      \/ k \in ReadingNow
      \/ Findable(k)

(* Once a write has returned, no result older than it is left under a key  *)
(* its invalidations cover, unless that key was exposed when the write     *)
(* committed: a racing read is the only way a stale result survives.       *)
StaleOnlyIfRaced ==
  \A n \in 1..MaxWrites : \A k \in reach[n] \ racers[n] :
    entries[k] # None => entries[k] >= n

(* What a client sees of it: a read that began after a write returned gets *)
(* data at least as new, under the same exception, whether it is served    *)
(* from the cache, by its own fetch or by the fetch of another reader.     *)
ReadsSeeFinishedWrites ==
  \A p \in Procs : op[p] \in {"read", "register"} /\ got[p] # None =>
    \A n \in before[p] : key[p] \in reach[n] \ racers[n] => got[p] >= n

(* Concurrent misses of one key run one base query at a time, which is     *)
(* what the service's stampede protection promises.                        *)
SingleFlight ==
  \A p, q \in Procs : at[p] \in Leading /\ at[q] \in Leading /\ key[p] = key[q] => p = q

-----------------------------------------------------------------------------
(* Goroutines that are in a method keep running, base queries return, and  *)
(* sync.Mutex is starvation-free: a goroutine waiting for tagMu gets it if *)
(* it is released again and again.                                         *)
Continue(p) ==
  \/ FetchBase(p) \/ RegisterTags(p) \/ FinishRead(p)
  \/ InvalidateByTags(p) \/ FallBack(p) \/ NextDeletion(p) \/ FinishWrite(p)
  \/ Service(p)

Fairness ==
  \A p \in Procs :
    /\ WF_vars(Continue(p))
    /\ SF_vars((LockToAdd(p) \/ LockToInvalidate(p)) /\ UNCHANGED decorator)

FairSpec == Spec /\ Fairness

(* Every method returns: nobody waits forever on a flight or on tagMu.     *)
MethodsReturn == \A p \in Procs : op[p] # "none" ~> op[p] = "none"
=============================================================================
