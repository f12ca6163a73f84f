-------------------------- MODULE ReadThroughCache --------------------------
(***************************************************************************)
(* What the cached repository promises its callers, with nothing said of   *)
(* caches: which versions of the data a read may return.                   *)
(*                                                                         *)
(* A write commits, then covers some keys, and is settled when its method  *)
(* returns.  A read that begins after that returns data at least as new,   *)
(* if the write covered its key and no read of the key was under way when  *)
(* it committed.  Any other read may return any version there has been.    *)
(***************************************************************************)
EXTENDS Naturals

CONSTANTS
  Procs,      \* the callers
  Keys,       \* what can be read: a method with its arguments and scopes
  None,       \* no key, no version
  MaxWrites   \* bound: the number of committed writes

VARIABLES
  committed,  \* the number of writes committed, the version of the data
  writing,    \* the write each caller is in, 0 outside one
  covered,    \* the keys that write has covered so far
  missed,     \* the keys each write may have missed
  settled,    \* the keys whose later readers must see the write
  reading,    \* the key each caller is reading, None outside a read
  due,        \* the writes that read must see
  result      \* the version it will return, None as long as there is none

vars == <<committed, writing, covered, missed, settled, reading, due, result>>

Init ==
  /\ committed = 0
  /\ writing = [p \in Procs |-> 0]
  /\ covered = [p \in Procs |-> {}]
  /\ missed  = [n \in 1..MaxWrites |-> {}]
  /\ settled = [n \in 1..MaxWrites |-> {}]
  /\ reading = [p \in Procs |-> None]
  /\ due     = [p \in Procs |-> {}]
  /\ result  = [p \in Procs |-> None]

Idle(p) == reading[p] = None /\ writing[p] = 0

BeginRead(p, k) ==
  /\ Idle(p)
  /\ reading' = [reading EXCEPT ![p] = k]
  /\ due' = [due EXCEPT ![p] = {n \in 1..MaxWrites : k \in settled[n]}]
  /\ UNCHANGED <<committed, writing, covered, missed, settled, result>>

(* One version serves several readers of a key, whenever they began.       *)
Deliver(readers, v) ==
  /\ \A p \in readers :
       /\ reading[p] # None
       /\ result[p] \in {None, v}
       /\ \A n \in due[p] : n <= v
  /\ \A p, q \in readers : reading[p] = reading[q]
  /\ result' = [p \in Procs |-> IF p \in readers THEN v ELSE result[p]]
  /\ UNCHANGED <<committed, writing, covered, missed, settled, reading, due>>

EndRead(p) ==
  /\ reading[p] # None
  /\ reading' = [reading EXCEPT ![p] = None]
  /\ due' = [due EXCEPT ![p] = {}]
  /\ result' = [result EXCEPT ![p] = None]
  /\ UNCHANGED <<committed, writing, covered, missed, settled>>

Commit(p) ==
  /\ Idle(p)
  /\ committed < MaxWrites
  /\ committed' = committed + 1
  /\ writing' = [writing EXCEPT ![p] = committed + 1]
  /\ \E ks \in SUBSET {k \in Keys : \E q \in Procs : reading[q] = k} :
       missed' = [missed EXCEPT ![committed + 1] = ks]
  /\ UNCHANGED <<covered, settled, reading, due, result>>

Cover(p, ks) ==
  /\ writing[p] # 0
  /\ covered' = [covered EXCEPT ![p] = @ \cup ks]
  /\ UNCHANGED <<committed, writing, missed, settled, reading, due, result>>

Settle(p) ==
  /\ writing[p] # 0
  /\ settled' = [settled EXCEPT ![writing[p]] = covered[p] \ missed[writing[p]]]
  /\ writing' = [writing EXCEPT ![p] = 0]
  /\ covered' = [covered EXCEPT ![p] = {}]
  /\ UNCHANGED <<committed, missed, reading, due, result>>

Next ==
  \/ \E p \in Procs :
       \/ \E k \in Keys : BeginRead(p, k)
       \/ \E ks \in SUBSET Keys : Cover(p, ks)
       \/ EndRead(p) \/ Commit(p) \/ Settle(p)
  \/ \E readers \in SUBSET Procs, v \in 0..committed : Deliver(readers, v)

Spec == Init /\ [][Next]_vars
=============================================================================
