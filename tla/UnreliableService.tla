-------------------------- MODULE UnreliableService --------------------------
(***************************************************************************)
(* CachedRepository over a service that does more behind the decorator's   *)
(* back, and less than it is asked: registries expire or are evicted like  *)
(* any entry of the client, hits are refreshed early, and calls fail whose *)
(* errors the decorator drops.  AddTags fails and the result stays cached; *)
(* Delete or DeleteByPrefix fails and the write reports success;           *)
(* InvalidateTags fails half-way and the write goes on with the fallback.  *)
(* Writes in transactions are included.                                    *)
(*                                                                         *)
(* Calls fail where TagSupport is "failing"; the default service returns   *)
(* no such error, and evicts and refreshes all the same.                   *)
(***************************************************************************)
EXTENDS EarlyRefresh

VARIABLES
  attempt,    \* the InvalidateTags each goroutine is in: the fallback of the
              \* same invalidation, and what its write had covered before
  slipped,    \* history: keys whose present entry some invalidation may have
              \* missed for another reason than a race of readers and writers
  overtaken   \* history: the keys each commit found being refreshed with data
              \* fetched, or, after a write in a transaction, cached

serviceVars == <<attempt, slipped, overtaken>>
unreliableVars == <<allVars, serviceVars>>

NoAttempt == [fallback |-> <<>>, covered |-> {}]
Attempts  == [fallback : Seq(Deletion), covered : SUBSET Keys]

UnreliableTypeOK ==
  /\ TypeOK
  /\ RefreshTypeOK
  /\ attempt \in [Procs -> Attempts]
  /\ slipped \in SUBSET Keys
  /\ overtaken \in [1..MaxWrites -> SUBSET Keys]

InitUnreliable ==
  /\ InitRefresh
  /\ attempt   = [p \in Procs |-> NoAttempt]
  /\ slipped   = {}
  /\ overtaken = [n \in 1..MaxWrites |-> {}]

Cached    == {k \in Keys : entries[k] # None}
Uncovered == {k \in Cached : HasTagRegistry /\ k \notin ReadingNow /\ ~Findable(k)}

(* The keys the step stores anew.                                          *)
Renewed ==
  {k \in Keys : \/ refreshing[k] = "store" /\ refreshing'[k] = "no"
                \/ \E p \in Procs : key[p] = k /\ at[p] = "store" /\ at'[p] = "land"}

(* What every step leaves on record; it made the entries under lost slip.  *)
Observe(lost) ==
  /\ attempt' = [p \in Procs |->
       IF at'[p] \notin Invalidating THEN NoAttempt
       ELSE IF at[p] \in Invalidating THEN attempt[p]
       ELSE [fallback |-> Head(plan[p]).fallback, covered |-> reached[p]]]
  /\ slipped' = (((slipped \ Renewed) \cup lost) \cap Cached') \cup Uncovered'
  /\ overtaken' =
       IF committed' = committed THEN overtaken
       ELSE [overtaken EXCEPT ![committed'] =
               {k \in Keys : refreshing[k] = "store"}
               \cup {k \in Cached : \E p \in Procs : op[p] = "uncommitted" /\ op'[p] = "none"}]

-----------------------------------------------------------------------------
(* The client evicts a registry, or it expires: a result lives by another  *)
(* clock, and one that is refreshed outlives what lists it.                *)
EvictRegistry(t) ==
  /\ registry[t] # {}
  /\ registry' = [registry EXCEPT ![t] = {}]
  /\ UNCHANGED <<entries, tagMu, flight, locals, decorator, refreshVars>>
  /\ Observe(registry[t])

(* registerTags drops the error of AddTags, which may have done a part.    *)
AddTagsFails(p) ==
  /\ TagSupport = "failing"
  /\ at[p] \in AddingTags
  /\ todo[p] # <<>>
  /\ at' = [at EXCEPT ![p] = "done"]
  /\ todo' = [todo EXCEPT ![p] = <<>>]
  /\ tagMu' = IF tagMu = p THEN None ELSE tagMu
  /\ UNCHANGED <<entries, registry, flight, key, got, doomed, decorator, refreshVars>>
  /\ Observe({})

(* InvalidateTags returns an error, having deleted some keys or none.      *)
AbortInvalidation(p) ==
  /\ TagSupport = "failing"
  /\ at[p] \in Invalidating
  /\ at' = [at EXCEPT ![p] = "done"]
  /\ todo' = [todo EXCEPT ![p] = <<>>]
  /\ doomed' = [doomed EXCEPT ![p] = {}]
  /\ tagMu' = IF tagMu = p THEN None ELSE tagMu
  /\ UNCHANGED <<entries, registry, flight, key, got>>

(* invalidateTags reports it and the caller falls back on deletions.  (The *)
(* first form, a slip, takes the invalidation for done.)                   *)
InvalidateTagsFailsUnnoticed(p) ==
  /\ AbortInvalidation(p)
  /\ UNCHANGED <<decorator, refreshVars>>
  /\ Observe({})

InvalidateTagsFails(p) ==
  /\ AbortInvalidation(p)
  /\ fallback' = [fallback EXCEPT ![p] = attempt[p].fallback]
  /\ reached' = [reached EXCEPT ![p] =
       attempt[p].covered \cup UNION {d.keys : d \in Elems(attempt[p].fallback)}]
  /\ UNCHANGED <<op, plan, committed, write, reach, racers, before, refreshVars>>
  /\ Observe({})

(* deleteKey and deleteByPrefix drop the errors of Delete and              *)
(* DeleteByPrefix, which may have deleted some of the keys.                *)
DeletionFails(p) ==
  /\ TagSupport = "failing"
  /\ op[p] = "write"
  /\ at[p] \in Outside
  /\ fallback[p] # <<>>
  /\ fallback' = [fallback EXCEPT ![p] = Tail(@)]
  /\ UNCHANGED <<shared, locals, op, plan, committed, write, reached, reach, racers, before,
                 refreshVars>>
  /\ Observe(Head(fallback[p]).keys)

DeletionFailsLater(p) ==
  /\ TagSupport = "failing"
  /\ at[p] \in Deleting
  /\ at' = [at EXCEPT ![p] = "done"]
  /\ doomed' = [doomed EXCEPT ![p] = {}]
  /\ UNCHANGED <<shared, key, got, todo, decorator, refreshVars>>
  /\ Observe(doomed[p])

NextUnreliable ==
  \/ NextTx /\ UNCHANGED refreshVars /\ Observe({})
  \/ (\E p \in Procs : HitStartsRefresh(p)) /\ Observe({})
  \/ (\E k \in Keys : Refresh(k)) /\ Observe({})
  \/ \E t \in Tags : EvictRegistry(t)
  \/ \E p \in Procs : \/ AddTagsFails(p) \/ InvalidateTagsFails(p)
                      \/ DeletionFails(p) \/ DeletionFailsLater(p)

SpecUnreliable == InitUnreliable /\ [][NextUnreliable]_unreliableVars

-----------------------------------------------------------------------------
(* A finished write leaves an older result under a key it covers for one   *)
(* of four reasons only: a reader's race, a refresh that overtook its      *)
(* commit, a commit after the invalidation, or an entry that has slipped:  *)
(* lost its registry, been stored outside every registry, or survived a    *)
(* failed deletion.  A failed InvalidateTags alone is none of them, nor is *)
(* what happened to an entry that has since been stored anew.              *)
StaleOnlyIfSlipped ==
  \A n \in 1..MaxWrites : \A k \in reach[n] \ (racers[n] \cup overtaken[n] \cup slipped) :
    entries[k] # None => entries[k] >= n

(* Neither findable nor in the care of a reader that will make it so.      *)
Lost == {k \in Cached : HasTagRegistry /\ ~Findable(k) /\ ~ \E p \in Procs : InCare(p, k)}

(* A cached result comes to be out of reach of the invalidations of a tag, *)
(* and of every reader that could change that, in three ways: a registry   *)
(* is evicted, AddTags fails, or a refresh stores the result after it was  *)
(* invalidated.  No order of the other calls, and no failure of theirs,    *)
(* does that.                                                              *)
CoverageLostOnlyBy ==
  [][\A k \in Lost' \ Lost :
       \/ \E t \in Tags : EvictRegistry(t)
       \/ \E p \in Procs : key[p] = k /\ AddTagsFails(p)
       \/ RefreshStores(k)]_unreliableVars
=============================================================================
