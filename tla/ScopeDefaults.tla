--------------------------- MODULE ScopeDefaults ---------------------------
(***************************************************************************)
(* The scope defaults, kept twice: by the base repository, which filters   *)
(* with them, and by the decorator, which makes cache keys of them         *)
(* (scopeDefaults in repositorycache/decorator.go).  SetScopeDefaults sets *)
(* the one and then the other.  A cached read resolves its signature with  *)
(* the decorator's copy; its fetch, later, filters with the base's.        *)
(*                                                                         *)
(* A signature, a filter and a setting of the defaults are all a resolved  *)
(* scope here.  A caller's context selects scopes itself or leaves them to *)
(* the defaults.  One method, Get; the other reads differ in arguments.    *)
(***************************************************************************)
EXTENDS Naturals

CONSTANTS
  Procs,     \* goroutines that use the repository
  Scopes,    \* resolved scopes
  Initial,   \* the base repository's defaults when it is decorated
  Defaulted, \* a context that leaves the scopes to the defaults
  Refreshes, \* does the client refresh results early: DefaultConfig's EarlyRefresh
  None       \* nothing

ASSUME RefreshAssumption == Refreshes \in BOOLEAN
ASSUME ScopesAssumption == Initial \in Scopes /\ Defaulted \notin Scopes /\ None \notin Scopes

VARIABLES
  baseDefaults,   \* the base repository's scope defaults (external)
  scopeDefaults,  \* the decorator's copy
  entries,        \* [Scopes -> Scopes or None]: under each key's signature,
                  \* the filter that was applied to the data cached
  at,             \* where each goroutine is
  ctx,            \* the context of its read
  arg,            \* the signature of its read, or the defaults it is setting
  filter,         \* the filter its fetch applied
  raced,          \* history: the calls that overlap another's SetScopeDefaults, and
                  \* the reads begun while the copies may differ
  crossed,        \* history: two SetScopeDefaults have overlapped, and none that
                  \* overlaps no other has returned since
  tainted,        \* history: the keys last stored by a raced read
  byDefault,      \* history: those stored by another, under the defaults' signature,
                  \* with the defaults not set since
  refreshed       \* history: the others whose data is a refresh's

copies == <<baseDefaults, scopeDefaults, crossed>>
calls  == <<at, ctx, arg, filter, raced>>
cached == <<entries, tainted, byDefault, refreshed>>
vars   == <<copies, calls, cached>>

Reading  == {"lookup", "fetch", "store"}
Contexts == Scopes \cup {Defaulted}

ScopeTypeOK ==
  /\ baseDefaults \in Scopes
  /\ scopeDefaults \in Scopes
  /\ entries \in [Scopes -> Scopes \cup {None}]
  /\ at \in [Procs -> {"idle", "set"} \cup Reading]
  /\ ctx \in [Procs -> Contexts]
  /\ arg \in [Procs -> Scopes]
  /\ filter \in [Procs -> Scopes]
  /\ raced \in SUBSET Procs
  /\ crossed \in BOOLEAN
  /\ tainted \in SUBSET Scopes
  /\ byDefault \in SUBSET Scopes
  /\ refreshed \in SUBSET Scopes

(* A goroutine leaves its method; what it held is of no more use.          *)
Return(p) ==
  /\ at' = [at EXCEPT ![p] = "idle"]
  /\ ctx' = [ctx EXCEPT ![p] = Defaulted]
  /\ arg' = [arg EXCEPT ![p] = Initial]
  /\ filter' = [filter EXCEPT ![p] = Initial]
  /\ raced' = raced \ {p}

Setting == {p \in Procs : at[p] = "set"}

(* Faulty forms: a decorator that starts without the base's defaults,      *)
(* SetScopeDefaults that ignores the base's error, and one that leaves its *)
(* own copy as it is.                                                      *)
InitUncopied ==
  /\ baseDefaults  = Initial
  /\ scopeDefaults = None
  /\ entries = [s \in Scopes |-> None]
  /\ at      = [p \in Procs |-> "idle"]
  /\ ctx     = [p \in Procs |-> Defaulted]
  /\ arg     = [p \in Procs |-> Initial]
  /\ filter  = [p \in Procs |-> Initial]
  /\ raced = {} /\ crossed = FALSE
  /\ tainted = {} /\ byDefault = {} /\ refreshed = {}

SetBaseDefaultsFailsUnnoticed(p) ==
  /\ at[p] = "idle"
  /\ \E d \in Scopes :
       /\ arg' = [arg EXCEPT ![p] = d]
       /\ at' = [at EXCEPT ![p] = "set"]
  /\ UNCHANGED <<copies, ctx, filter, raced, cached>>

SetOwnDefaultsSkipped(p) ==
  /\ at[p] = "set"
  /\ Return(p)
  /\ UNCHANGED <<copies, cached>>

-----------------------------------------------------------------------------
(* newCachedRepository copies the base repository's defaults.              *)
Init ==
  /\ baseDefaults  = Initial
  /\ scopeDefaults = baseDefaults
  /\ entries = [s \in Scopes |-> None]
  /\ at      = [p \in Procs |-> "idle"]
  /\ ctx     = [p \in Procs |-> Defaulted]
  /\ arg     = [p \in Procs |-> Initial]
  /\ filter  = [p \in Procs |-> Initial]
  /\ raced = {} /\ crossed = FALSE
  /\ tainted = {} /\ byDefault = {} /\ refreshed = {}

(* repository.ResolveScopeState (external).                                *)
Resolve(c, defaults) == IF c = Defaulted THEN defaults ELSE c

-----------------------------------------------------------------------------
(* SetScopeDefaults: the base repository first.                            *)
SetBaseDefaults(p, d) ==
  /\ at[p] = "idle"
  /\ at' = [at EXCEPT ![p] = "set"]
  /\ arg' = [arg EXCEPT ![p] = d]
  /\ baseDefaults' = d
  /\ raced' = {q \in Procs : at[q] # "idle"} \cup (IF Setting = {} THEN {} ELSE {p})
  /\ crossed' = (crossed \/ Setting # {})
  /\ byDefault' = {}
  /\ UNCHANGED <<scopeDefaults, ctx, filter, entries, tainted, refreshed>>

(* The base repository refuses the defaults: neither copy changes.         *)
SetBaseDefaultsFails(p) == at[p] = "idle" /\ UNCHANGED vars

(* setScopeDefaults, under the write lock.                                 *)
SetOwnDefaults(p) ==
  /\ at[p] = "set"
  /\ scopeDefaults' = arg[p]
  /\ crossed' = (crossed /\ p \in raced)
  /\ Return(p)
  /\ UNCHANGED <<baseDefaults, cached>>

-----------------------------------------------------------------------------
(* scopeSignature, under the read lock, and the key made of it.            *)
StartRead(p, c) ==
  /\ at[p] = "idle"
  /\ at' = [at EXCEPT ![p] = "lookup"]
  /\ ctx' = [ctx EXCEPT ![p] = c]
  /\ arg' = [arg EXCEPT ![p] = Resolve(c, scopeDefaults)]
  /\ raced' = IF Setting # {} \/ crossed THEN raced \cup {p} ELSE raced
  /\ UNCHANGED <<copies, filter, cached>>

Hit(p) ==
  /\ at[p] = "lookup"
  /\ entries[arg[p]] # None
  /\ Return(p)
  /\ UNCHANGED <<copies, cached>>

Miss(p) ==
  /\ at[p] = "lookup"
  /\ entries[arg[p]] = None
  /\ at' = [at EXCEPT ![p] = "fetch"]
  /\ UNCHANGED <<copies, ctx, arg, filter, raced, cached>>

(* The base repository resolves the caller's context with its own defaults *)
(* ...                                                                     *)
Fetch(p) ==
  /\ at[p] = "fetch"
  /\ at' = [at EXCEPT ![p] = "store"]
  /\ filter' = [filter EXCEPT ![p] = Resolve(ctx[p], baseDefaults)]
  /\ UNCHANGED <<copies, ctx, arg, raced, cached>>

(* ... or fails, and nothing is stored.                                    *)
FetchFails(p) == at[p] = "fetch" /\ Return(p) /\ UNCHANGED <<copies, cached>>

Store(p) ==
  LET s == arg[p]
  IN /\ at[p] = "store"
     /\ entries' = [entries EXCEPT ![s] = filter[p]]
     /\ tainted' = IF p \in raced THEN tainted \cup {s} ELSE tainted \ {s}
     /\ byDefault' = IF p \notin raced /\ ctx[p] = Defaulted THEN byDefault \cup {s}
                     ELSE byDefault \ {s}
     /\ refreshed' = refreshed \ {s}
     /\ Return(p)
     /\ UNCHANGED copies

(* A goroutine of the client (external) calls the fetch function of an     *)
(* earlier hit again, with a context of its own: it carries no scopes, so  *)
(* the base repository filters with its defaults.                          *)
Refresh(s) ==
  /\ Refreshes
  /\ entries[s] # None
  /\ entries' = [entries EXCEPT ![s] = Resolve(Defaulted, baseDefaults)]
  /\ tainted' = tainted \ {s}
  /\ refreshed' = refreshed \cup ({s} \ byDefault)
  /\ UNCHANGED <<copies, calls, byDefault>>

(* An invalidation, eviction or expiry.                                    *)
Remove(s) ==
  /\ entries[s] # None
  /\ entries' = [entries EXCEPT ![s] = None]
  /\ tainted' = tainted \ {s}
  /\ byDefault' = byDefault \ {s}
  /\ refreshed' = refreshed \ {s}
  /\ UNCHANGED <<copies, calls>>

Next ==
  \/ \E p \in Procs :
       \/ \E d \in Scopes : SetBaseDefaults(p, d)
       \/ SetBaseDefaultsFails(p) \/ SetOwnDefaults(p)
       \/ \E c \in Contexts : StartRead(p, c)
       \/ Hit(p) \/ Miss(p) \/ Fetch(p) \/ FetchFails(p) \/ Store(p)
  \/ \E s \in Scopes : Refresh(s) \/ Remove(s)

Spec == Init /\ [][Next]_vars

-----------------------------------------------------------------------------
Aligned(s) == entries[s] \in {None, s}

(* The two copies of the defaults agree whenever no SetScopeDefaults runs: *)
(* two that overlap may part them, and the next that overlaps none joins   *)
(* them again.                                                             *)
DefaultsAgree ==
  Setting = {} /\ ~crossed => scopeDefaults = baseDefaults

(* Data filtered for one scope is cached under the key of another only by  *)
(* a read that runs beside a SetScopeDefaults or while two that crossed    *)
(* have left the copies apart, or by a refresh, which lacks the scopes of  *)
(* its caller: of a result whose caller chose its scopes, or that is older *)
(* than the defaults.                                                      *)
MisalignedOnlyIfRaced ==
  \A s \in Scopes : ~Aligned(s) => s \in tainted \cup refreshed

(* README, on SetScopeDefaults: "This keeps cache keys aligned with        *)
(* whatever filters the base repository enforces".                         *)
KeysAligned == \A s \in Scopes : Aligned(s)
=============================================================================
