--------------------- MODULE CachedRepositoryRefinement ---------------------
(***************************************************************************)
(* CachedRepository implements ReadThroughCache: entries, registries,      *)
(* flights and locks go, and what callers can tell remains.                *)
(***************************************************************************)
EXTENDS CachedRepositoryInvariant

InRead(p) == op[p] \in {"read", "register"}

(* A finished write is settled for the keys it reached that were not       *)
(* exposed when it committed; a read must see those settled when it began. *)
Settled == [n \in 1..MaxWrites |-> reach[n] \ racers[n]]
Reading == [p \in Procs |-> IF InRead(p) THEN key[p] ELSE None]
Due     == [p \in Procs |-> {n \in before[p] : key[p] \in Settled[n]}]
Result  == [p \in Procs |-> IF InRead(p) THEN got[p] ELSE None]

Promised == INSTANCE ReadThroughCache WITH
  writing <- write,
  covered <- reached,
  missed  <- racers,
  settled <- Settled,
  reading <- Reading,
  due     <- Due,
  result  <- Result

(* Every behaviour of the decorator over its service is one its callers    *)
(* were promised: reads deliver only versions that are due, a write covers *)
(* keys and settles them in one go when it returns, and misses none but    *)
(* those that are being read.                                              *)
KeepsPromise == Promised!Spec

(* What the refinement needs besides IInv: nothing cached or held is newer *)
(* than the base repository, only a write has a version, and only a read   *)
(* is due any.                                                             *)
VersionsOK ==
  /\ \A k \in Keys : entries[k] # None => entries[k] <= committed
  /\ \A p \in Procs : got[p] # None => got[p] <= committed
  /\ \A p \in Procs : op[p] # "write" => write[p] = 0
  /\ \A p \in Procs : ~InRead(p) => before[p] = {}
=============================================================================
