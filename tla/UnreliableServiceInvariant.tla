---------------------- MODULE UnreliableServiceInvariant ----------------------
(***************************************************************************)
(* The inductive invariant behind the properties of UnreliableService.     *)
(* What it says of goroutines, of tagMu and of fetched data is what        *)
(* CachedRepositoryInvariant says of them.  What entries and writes owe to *)
(* each other has more exceptions here, and an entry that has slipped is   *)
(* owed nothing until it is stored anew.                                   *)
(***************************************************************************)
EXTENDS UnreliableService, CachedRepositoryInvariant

(* Numbers and outcomes of writes: a read has reached nothing, and nothing *)
(* is known of a write that is not committed.                              *)
OutcomesOK ==
  /\ \A p \in Procs :
       /\ write[p] <= committed
       /\ op[p] \in {"none", "read", "register"} => reached[p] = {}
  /\ \A n \in 1..MaxWrites : n > committed => reach[n] = {}

(* The keys the n-th write need not have deleted.                          *)
Spared(n) == racers[n] \cup overtaken[n]

(* v is data of the key k that only writes which spared it made stale.     *)
Accounted(k, v) == \A n \in 1..committed : v < n => k \in Spared(n)

(* What a refresh is about to store is accounted for.                      *)
RefreshedOK ==
  \A k \in Keys : refreshing[k] = "store" =>
    refreshed[k] # None /\ Accounted(k, refreshed[k])

(* An entry that invalidations cannot find is accounted for, or slipped.   *)
SlippedOK == Uncovered \subseteq slipped

StrayOK ==
  HasTagRegistry =>
    \A k \in Cached : Findable(k) \/ Accounted(k, entries[k]) \/ k \in slipped

(* The keys of ks that the write of p should find deleted or up to date.   *)
Owed(p, ks) == ks \ (Spared(write[p]) \cup slipped)

(* What a write had covered before the InvalidateTags it is in is done.    *)
AttemptOK ==
  \A p \in Procs : op[p] = "write" /\ write[p] # 0 /\ at[p] \in Invalidating =>
    \A k \in Owed(p, attempt[p].covered) : entries[k] # None => entries[k] >= write[p]

(* Whatever is stale of what a write in progress has reached is pending.   *)
OwedOK ==
  \A p \in Procs : op[p] = "write" /\ write[p] # 0 =>
    \A k \in Owed(p, reached[p]) :
      entries[k] # None /\ entries[k] < write[p] => Pending(p, k)

UnreliableInv ==
  /\ UnreliableTypeOK /\ ControlOK /\ LockOK /\ HeldOK
  /\ OutcomesOK /\ RefreshedOK /\ SlippedOK /\ StrayOK
  /\ AttemptOK /\ OwedOK /\ StaleOnlyIfSlipped
=============================================================================
