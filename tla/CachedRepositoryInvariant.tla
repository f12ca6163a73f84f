---------------------- MODULE CachedRepositoryInvariant ----------------------
(***************************************************************************)
(* The inductive invariant behind the safety properties of                 *)
(* CachedRepository.  It has one part for each thing the argument needs;   *)
(* CachedRepositoryProofs proves them in order, each from those before it, *)
(* and TLC checks them on the small instances.                             *)
(*                                                                         *)
(* A write in a transaction is committed after it has invalidated, so what *)
(* is said of numbered writes holds of Spec alone.  The parts that say     *)
(* nothing of them, TxInv, hold of SpecTx as well.                         *)
(***************************************************************************)
EXTENDS CachedRepository

(* Where a goroutine can be in each method, and what it has there.         *)
ControlOK ==
  \A p \in Procs :
    /\ op[p] = "none"     => at[p] = "idle"
    /\ op[p] = "read"     => at[p] \in Fetching \cup {"served", "failed"} /\ key[p] \in Keys
    /\ op[p] = "register" => at[p] \in AddingTags \cup {"done"} /\ key[p] \in Keys
    /\ op[p] = "write"    => at[p] \in {"idle", "done"} \cup Invalidating \cup Deleting
    /\ op[p] = "uncommitted" => at[p] = "idle"
    /\ at[p] \in {"lookup", "flight", "fetch", "wait"} => got[p] = None
    /\ at[p] \in {"store", "served"} => got[p] # None
    /\ at[p] = "sweep" => todo[p] # <<>>
    /\ at[p] = "addLock" => todo[p] = ReadTags[key[p]]
    /\ at[p] \in AddingTags \cup Invalidating => HasTagRegistry

(* A writer's number is its own, is committed, and has no outcome yet.     *)
WritesOK ==
  /\ \A p \in Procs :
       /\ op[p] # "uncommitted"
       /\ op[p] = "write" => write[p] \in 1..committed /\ reach[write[p]] = {}
       /\ op[p] # "write" => /\ reached[p] = {} 
                             /\ plan[p] = <<>>
                             /\ fallback[p] = <<>>
       /\ \A q \in Procs \ {p} :
            op[p] = "write" /\ op[q] = "write" => write[p] # write[q]
       /\ \A n \in before[p] : reach[n] # {}
  /\ \A n \in 1..MaxWrites : n > committed => reach[n] = {}

(* tagMu is held by whoever touches a registry.                            *)
LockOK ==
  \A p \in Procs : at[p] \in {"adding", "invalidating", "sweep"} => tagMu = p

(* AddTags leaves a tag only when the tag's registry lists the key.        *)
AddingOK ==
  \A p \in Procs : at[p] = "adding" =>
    \A t \in Elems(ReadTags[key[p]]) : t \in Elems(todo[p]) \/ key[p] \in registry[t]

FlightOK ==
  \A p \in Procs : at[p] \in Leading => flight[key[p]] = p

(* v is data of the key k that only raced writes have made stale.          *)
Excused(k, v) == \A n \in 1..committed : v < n => k \in racers[n]

HeldOK ==
  \A p \in Procs : HoldsFetched(p) => Excused(key[p], got[p])

(* An entry that an invalidation cannot find is excused.                   *)
UnfoundOK ==
  HasTagRegistry =>
    \A k \in Keys : entries[k] # None => Findable(k) \/ Excused(k, entries[k])

(* The invalidations under way will still delete the key.                  *)
Marked(p, k) ==
  /\ at[p] \in Invalidating
  /\ \E t \in Elems(todo[p]) \cap Elems(ReadTags[k]) :
       at[p] = "sweep" /\ t = Head(todo[p]) => k \in doomed[p]

Pending(p, k) ==
  \/ Marked(p, k)
  \/ at[p] \in Deleting /\ k \in doomed[p]
  \/ \E d \in Elems(fallback[p]) : k \in d.keys

(* Whatever is stale of what a write in progress has reached is pending.   *)
ProgressOK ==
  \A p \in Procs : op[p] = "write" =>
    \A k \in reached[p] \ racers[write[p]] :
      entries[k] # None /\ entries[k] < write[p] => Pending(p, k)

TxInv ==
  /\ TypeOK /\ ControlOK
  /\ LockOK /\ AddingOK /\ FlightOK
  /\ HeldOK /\ TagCoverage /\ UnfoundOK

IInv ==
  /\ TypeOK /\ ControlOK /\ WritesOK
  /\ LockOK /\ AddingOK /\ FlightOK
  /\ HeldOK /\ TagCoverage /\ UnfoundOK
  /\ ProgressOK /\ StaleOnlyIfRaced /\ ReadsSeeFinishedWrites
=============================================================================
