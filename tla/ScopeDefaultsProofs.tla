------------------------ MODULE ScopeDefaultsProofs ------------------------
(***************************************************************************)
(* The two copies of the scope defaults part only while calls of          *)
(* SetScopeDefaults run or after two that crossed, and data is cached      *)
(* under the key of another scope only by a read that runs then, or by a   *)
(* refresh: proved for any goroutines and any scopes.                      *)
(***************************************************************************)
EXTENDS ScopeDefaults, TLAPS

(* A call of SetScopeDefaults that overlaps no other is the only one, and  *)
(* sets what the base already has; others have crossed.                    *)
SetterOK ==
  \A p \in Procs : at[p] = "set" =>
    IF p \in raced THEN crossed ELSE Setting = {p} /\ arg[p] = baseDefaults

(* A read that is not raced has the key of the scope it filters with.      *)
SettledReads ==
  \A p \in Procs : at[p] \in Reading /\ p \notin raced =>
    /\ Setting = {} /\ ~crossed
    /\ arg[p] = Resolve(ctx[p], baseDefaults)
    /\ at[p] = "store" => filter[p] = arg[p]

(* What such a read has stored by the defaults, a refresh will store again.*)
SettledResults == \A s \in byDefault : s = baseDefaults

IInv ==
  /\ ScopeTypeOK
  /\ SetterOK
  /\ DefaultsAgree
  /\ SettledReads
  /\ SettledResults
  /\ MisalignedOnlyIfRaced

-----------------------------------------------------------------------------
LEMMA InitInvariant == Init => IInv
BY ScopesAssumption
DEF Init, IInv, ScopeTypeOK, SetterOK, DefaultsAgree, SettledReads, SettledResults,
    MisalignedOnlyIfRaced, Aligned, Setting, Reading, Contexts

(* The steps of a goroutine, and removals, keep the state well-typed.      *)
LEMMA TypeStep == ScopeTypeOK /\ [Next]_vars => ScopeTypeOK'
<1> SUFFICES ASSUME ScopeTypeOK, [Next]_vars PROVE ScopeTypeOK'
  OBVIOUS
<1> USE ScopesAssumption DEF ScopeTypeOK, Reading, Contexts, copies, calls, cached
<1>1. ASSUME NEW p \in Procs, NEW d \in Scopes, SetBaseDefaults(p, d) PROVE ScopeTypeOK'
  BY <1>1 DEF SetBaseDefaults
<1>2. ASSUME NEW p \in Procs, SetBaseDefaultsFails(p) PROVE ScopeTypeOK'
  BY <1>2 DEF SetBaseDefaultsFails, vars
<1>3. ASSUME NEW p \in Procs, SetOwnDefaults(p) PROVE ScopeTypeOK'
  BY <1>3 DEF SetOwnDefaults, Return
<1>4. ASSUME NEW p \in Procs, NEW c \in Contexts, StartRead(p, c) PROVE ScopeTypeOK'
  BY <1>4 DEF StartRead, Resolve
<1>5. ASSUME NEW p \in Procs, Hit(p) PROVE ScopeTypeOK'
  BY <1>5 DEF Hit, Return
<1>6. ASSUME NEW p \in Procs, Miss(p) PROVE ScopeTypeOK'
  BY <1>6 DEF Miss
<1>7. ASSUME NEW p \in Procs, Fetch(p) PROVE ScopeTypeOK'
  BY <1>7 DEF Fetch, Resolve
<1>8. ASSUME NEW p \in Procs, Store(p) PROVE ScopeTypeOK'
  <2>1. arg[p] \in Scopes /\ filter[p] \in Scopes
    OBVIOUS
  <2>2. /\ entries' \in [Scopes -> Scopes \cup {None}] /\ tainted' \in SUBSET Scopes
        /\ byDefault' \in SUBSET Scopes /\ refreshed' \in SUBSET Scopes
    BY <1>8, <2>1 DEF Store
  <2>3. /\ at' \in [Procs -> {"idle", "set"} \cup {"lookup", "fetch", "store"}]
        /\ ctx' \in [Procs -> Scopes \cup {Defaulted}]
        /\ arg' \in [Procs -> Scopes] /\ filter' \in [Procs -> Scopes]
        /\ raced' \in SUBSET Procs
    BY <1>8 DEF Store, Return
  <2> QED
    BY <1>8, <2>2, <2>3 DEF Store
<1>9. ASSUME NEW s \in Scopes, Remove(s) PROVE ScopeTypeOK'
  BY <1>9 DEF Remove
<1>12. ASSUME NEW p \in Procs, FetchFails(p) PROVE ScopeTypeOK'
  BY <1>12 DEF FetchFails, Return
<1>11. ASSUME NEW s \in Scopes, Refresh(s) PROVE ScopeTypeOK'
  BY <1>11 DEF Refresh, Resolve
<1>10. ASSUME UNCHANGED vars PROVE ScopeTypeOK'
  BY <1>10 DEF vars
<1> QED
  BY <1>1, <1>2, <1>3, <1>4, <1>5, <1>6, <1>7, <1>8, <1>9, <1>10, <1>11, <1>12 DEF Next

(* One step per action, one conjunct of the invariant under each.          *)
LEMMA StepInvariant == IInv /\ [Next]_vars => IInv'
<1> SUFFICES ASSUME IInv, [Next]_vars PROVE IInv'
  OBVIOUS
<1> USE DEF copies, calls, cached
<1>0. ScopeTypeOK /\ ScopeTypeOK'
  BY TypeStep DEF IInv
<1>1. ASSUME NEW p \in Procs, NEW d \in Scopes, SetBaseDefaults(p, d) PROVE IInv'
  <2> USE <1>0, <1>1 DEF SetBaseDefaults, ScopeTypeOK, IInv
  <2>1. SetterOK'
    <3> SUFFICES ASSUME NEW q \in Procs, at'[q] = "set"
                 PROVE  IF q \in raced' THEN crossed' ELSE Setting' = {q} /\ arg'[q] = baseDefaults'
      BY DEF SetterOK
    <3>1. CASE Setting = {}
      <4>1. q = p /\ q \notin raced' /\ Setting' = {p}
        BY <3>1 DEF Setting
      <4> QED
        BY <4>1
    <3>2. CASE Setting # {}
      <4>1. crossed'
        BY <3>2
      <4>2. q \in raced'
        BY <3>2 DEF Setting
      <4> QED
        BY <4>1, <4>2
    <3> QED
      BY <3>1, <3>2
  <2>2. DefaultsAgree' BY DEF DefaultsAgree, Setting
  <2>3. SettledReads' BY DEF SettledReads, Setting, Reading
  <2>4. SettledResults' BY DEF SettledResults
  <2>5. MisalignedOnlyIfRaced' BY DEF MisalignedOnlyIfRaced, Aligned
  <2> QED BY <2>1, <2>2, <2>3, <2>4, <2>5
<1>2. ASSUME NEW p \in Procs, SetOwnDefaults(p) PROVE IInv'
  <2> USE <1>0, <1>2 DEF SetOwnDefaults, Return, ScopeTypeOK, IInv
  <2>1. SetterOK' BY DEF SetterOK, Setting
  <2>2. DefaultsAgree' BY DEF DefaultsAgree, SetterOK, Setting
  <2>3. SettledReads' BY DEF SettledReads, Setting, Reading
  <2>4. SettledResults' BY DEF SettledResults
  <2>5. MisalignedOnlyIfRaced' BY DEF MisalignedOnlyIfRaced, Aligned
  <2> QED BY <2>1, <2>2, <2>3, <2>4, <2>5
<1>3. ASSUME NEW p \in Procs, NEW c \in Contexts, StartRead(p, c) PROVE IInv'
  <2> USE <1>0, <1>3 DEF StartRead, ScopeTypeOK, IInv
  <2>1. SetterOK' BY DEF SetterOK, Setting
  <2>2. DefaultsAgree' BY DEF DefaultsAgree, Setting
  <2>3. SettledReads' BY DEF SettledReads, DefaultsAgree, Setting, Reading, Resolve
  <2>4. SettledResults' BY DEF SettledResults
  <2>5. MisalignedOnlyIfRaced' BY DEF MisalignedOnlyIfRaced, Aligned
  <2> QED BY <2>1, <2>2, <2>3, <2>4, <2>5
<1>4. ASSUME NEW p \in Procs, Hit(p) PROVE IInv'
  <2> USE <1>0, <1>4 DEF Hit, Return, ScopeTypeOK, IInv
  <2>1. SetterOK' BY DEF SetterOK, Setting
  <2>2. DefaultsAgree' BY DEF DefaultsAgree, Setting
  <2>3. SettledReads' BY DEF SettledReads, Setting, Reading, Resolve
  <2>4. SettledResults' BY DEF SettledResults
  <2>5. MisalignedOnlyIfRaced' BY DEF MisalignedOnlyIfRaced, Aligned
  <2> QED BY <2>1, <2>2, <2>3, <2>4, <2>5
<1>5. ASSUME NEW p \in Procs, Miss(p) PROVE IInv'
  <2> USE <1>0, <1>5 DEF Miss, ScopeTypeOK, IInv
  <2>1. SetterOK' BY DEF SetterOK, Setting
  <2>2. DefaultsAgree' BY DEF DefaultsAgree, Setting
  <2>3. SettledReads' BY DEF SettledReads, Setting, Reading, Resolve
  <2>4. SettledResults' BY DEF SettledResults
  <2>5. MisalignedOnlyIfRaced' BY DEF MisalignedOnlyIfRaced, Aligned
  <2> QED BY <2>1, <2>2, <2>3, <2>4, <2>5
<1>6. ASSUME NEW p \in Procs, Fetch(p) PROVE IInv'
  <2> USE <1>0, <1>6 DEF Fetch, ScopeTypeOK, IInv
  <2>1. SetterOK' BY DEF SetterOK, Setting
  <2>2. DefaultsAgree' BY DEF DefaultsAgree, Setting
  <2>3. SettledReads' BY DEF SettledReads, Setting, Reading, Resolve
  <2>4. SettledResults' BY DEF SettledResults
  <2>5. MisalignedOnlyIfRaced' BY DEF MisalignedOnlyIfRaced, Aligned
  <2> QED BY <2>1, <2>2, <2>3, <2>4, <2>5
<1>7. ASSUME NEW p \in Procs, Store(p) PROVE IInv'
  <2> USE <1>0, <1>7 DEF Store, Return, ScopeTypeOK, IInv
  <2>1. SetterOK' BY DEF SetterOK, Setting
  <2>2. DefaultsAgree' BY DEF DefaultsAgree, Setting
  <2>3. SettledReads' BY DEF SettledReads, Setting, Reading, Resolve
  <2>4. SettledResults' BY DEF SettledResults, SettledReads, Reading, Resolve
  <2>5. MisalignedOnlyIfRaced' BY DEF MisalignedOnlyIfRaced, SettledReads, Aligned, Reading
  <2> QED BY <2>1, <2>2, <2>3, <2>4, <2>5
<1>8. ASSUME NEW s \in Scopes, Remove(s) PROVE IInv'
  <2> USE <1>0, <1>8 DEF Remove, ScopeTypeOK, IInv
  <2>1. SetterOK' BY DEF SetterOK, Setting
  <2>2. DefaultsAgree' BY DEF DefaultsAgree, Setting
  <2>3. SettledReads' BY DEF SettledReads, Setting, Reading, Resolve
  <2>4. SettledResults' BY DEF SettledResults
  <2>5. MisalignedOnlyIfRaced' BY DEF MisalignedOnlyIfRaced, Aligned
  <2> QED BY <2>1, <2>2, <2>3, <2>4, <2>5
<1>12. ASSUME NEW p \in Procs, FetchFails(p) PROVE IInv'
  <2> USE <1>0, <1>12 DEF FetchFails, Return, ScopeTypeOK, IInv
  <2>1. SetterOK' BY DEF SetterOK, Setting
  <2>2. DefaultsAgree' BY DEF DefaultsAgree, Setting
  <2>3. SettledReads' BY DEF SettledReads, Setting, Reading, Resolve
  <2>4. SettledResults' BY DEF SettledResults
  <2>5. MisalignedOnlyIfRaced' BY DEF MisalignedOnlyIfRaced, Aligned
  <2> QED BY <2>1, <2>2, <2>3, <2>4, <2>5
<1>11. ASSUME NEW s \in Scopes, Refresh(s) PROVE IInv'
  <2> USE <1>0, <1>11 DEF Refresh, ScopeTypeOK, IInv
  <2>1. SetterOK' BY DEF SetterOK, Setting
  <2>2. DefaultsAgree' BY DEF DefaultsAgree, Setting
  <2>3. SettledReads' BY DEF SettledReads, Setting, Reading, Resolve
  <2>4. SettledResults' BY DEF SettledResults
  <2>5. MisalignedOnlyIfRaced' BY DEF MisalignedOnlyIfRaced, SettledResults, Aligned, Resolve
  <2> QED BY <2>1, <2>2, <2>3, <2>4, <2>5
<1>9. ASSUME UNCHANGED vars PROVE IInv'
  BY <1>0, <1>9
  DEF vars, IInv, SetterOK, DefaultsAgree, SettledReads, SettledResults, MisalignedOnlyIfRaced,
      Aligned, Setting, Reading, Resolve
<1>10. ASSUME NEW p \in Procs, SetBaseDefaultsFails(p) PROVE IInv'
  BY <1>9, <1>10 DEF SetBaseDefaultsFails
<1> QED
  BY <1>1, <1>2, <1>3, <1>4, <1>5, <1>6, <1>7, <1>8, <1>9, <1>10, <1>11, <1>12 DEF Next

-----------------------------------------------------------------------------
(* The invariant holds in every reachable state.                           *)
THEOREM Invariance == Spec => []IInv
BY InitInvariant, StepInvariant, PTL DEF Spec

(* The variables of the scope defaults keep their types: what is cached    *)
(* and what is fetched is always the filter of some scope.                 *)
THEOREM ScopesTyped == Spec => []ScopeTypeOK
<1>1. IInv => ScopeTypeOK
  BY DEF IInv
<1> QED
  BY <1>1, Invariance, PTL

(* SetScopeDefaults, base first and copy second, leaves the two copies of  *)
(* the defaults equal, unless calls overlapped and none has run by itself  *)
(* since.                                                                  *)
THEOREM CopiesAgree == Spec => []DefaultsAgree
<1>1. IInv => DefaultsAgree
  BY DEF IInv
<1> QED
  BY <1>1, Invariance, PTL

(* Data is filed under a wrong scope only by a read that overlaps a call   *)
(* of SetScopeDefaults or begins after two that crossed, before the next   *)
(* that overlaps none has returned, or by a refresh, and not by one of a   *)
(* result read by defaults that have not been set since.                   *)
THEOREM MisfiledOnlyIfRaced == Spec => []MisalignedOnlyIfRaced
<1>1. IInv => MisalignedOnlyIfRaced
  BY DEF IInv
<1> QED
  BY <1>1, Invariance, PTL
=============================================================================
