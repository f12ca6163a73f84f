# A TLA+ model of go-repository-cache

go-repository-cache puts a read-through cache in front of a repository of
database records. A decorator (`repositorycache/decorator.go`) serves reads from
a cache service and invalidates after writes; the default service
(`internal/cacheinfra/sturdyc_adapter.go`) wraps a sturdyc client. The question
the project answers is: **what can a client read after a write, and why not
something older?** The interesting part of the code is short and concurrent: a
read stores its result and registers it under tags in two unsynchronized calls,
and a write commits and invalidates in two others.

Line numbers in this file refer to the sources named above unless another file
is given. `PROJECT.json` maps every definition to the lines it models.

## The system

| Component | State | Operations | What makes it hard |
|---|---|---|---|
| sturdyc adapter, `sturdyc_adapter.go` | the client's entries; tag registries, kept in the same client under `tag::` keys; `tagMu` | `GetOrFetch`, `Delete`, `DeleteByPrefix`, `InvalidateKeys`, `AddTags`, `InvalidateTags` | only the registry methods take `tagMu`; fetches store between the steps of an invalidation; registries are evicted like results |
| decorator, concurrent behaviour, `decorator.go` 64-376 | none of its own | five cached reads, twenty write methods, their `*Tx` forms | get-then-register against commit-then-invalidate; fallback when the service has no tags or fails; invalidation before the caller's commit |
| decorator, keys and tags, `decorator.go` 435-879 | namespace, identifier fields | the pure functions that say what a read registers and what a write invalidates | scopes, changed identifiers, criteria without records, prefixes without separators |
| decorator, scope defaults, `decorator.go` 35-50, 418-432 | a copy of the base's scope defaults under an `RWMutex` | `SetScopeDefaults`, `GetScopeDefaults`, `scopeSignature` | two copies set in two steps; key and rows resolved at different times |
| early refreshes and configuration, `sturdyc_adapter.go` 15-150, `cache/config.go` | the client's options | `DefaultConfig`, `Validate`, `ToSturdycOptions` | a background fetch nobody waits for, on by default |
| key serializer, `cache/key_serializer.go` | none | `SerializeKey` | different arguments that serialize alike; maps read in random order |
| snake case, `repositorycache/case.go` | none | `toSnake` | two types with one namespace |
| context tags, `repositorycache/tags.go` | the context | `WithCacheTags` | tags that read like other texts in the service |
| typed wrapper, `cache/service.go` | none | `GetOrFetch[T]` | results of another type under one's key |
| container, `pkg/di/container.go` | the singletons | constructors | several repositories and clients share one service |
| test support, examples | | | |

Outside the repository, and modelled only as the code uses them: the sturdyc
client (atomic get, set, delete; snapshot of keys; one fetch per key with waiters;
expiry and eviction; background refreshes), the base repository and
`ResolveScopeState`.

How they interact: the decorator calls the service and, from inside
`GetOrFetch`, the service calls back the decorator's closure, which calls the
base repository. All goroutines share the service; none shares anything with
another but through it and the base repository. Nothing survives the process,
so there is no crash recovery to model.

## Modules

| Module | Models |
|---|---|
| `SturdycAdapter` | the adapter's methods, one action per access to shared state |
| `ListLemmas` | what the proofs of several modules need of sequences and of folds over them |
| `AdapterClients`, `AdapterClientsProofs`, `MCAdapterClients` | the adapter under arbitrary clients, and proofs |
| `CachedRepository` | the decorator's reads and writes on top of the adapter (EXTENDS) |
| `CachedRepositoryInvariant`, `CachedRepositoryProofs` | the inductive invariant and the proofs |
| `ReadThroughCache` | the abstract specification: what callers are promised |
| `CachedRepositoryRefinement`, `CachedRepositoryRefinementProofs` | the refinement mapping, and the proof that it is one |
| `RepositoryKeys` | keys, tags and invalidation plans as operators, keys being records |
| `MCCachedRepository` | a small decorator: `CachedRepository` with the tags and plans of `RepositoryKeys` |
| `EarlyRefresh`, `MCEarlyRefresh` | `CachedRepository` with background refreshes |
| `UnreliableService`, `MCUnreliableService` | on top of that: registries evicted, calls that fail |
| `UnreliableServiceInvariant`, `UnreliableServiceProofs` | its inductive invariant, and proofs |
| `RecordFreshness`, `RecordFreshnessProofs`, `MCRecordFreshness` | one caller, real records and identifiers: the reach of every write method, and proofs |
| `KeyTexts` | how the serializer puts the texts of structs, lists and maps together from those of their parts, and joins segments |
| `SnakeCase`, `KeySerializer`, `ServiceTexts` | the texts of names and of values of any depth |
| `SharedService`, `MCSharedService` | several repositories on one service, keys and tags as texts |
| `SharedServiceInvariant`, `SharedServiceProofs` | its inductive invariant, and proofs |
| `ScopeDefaults`, `ScopeDefaultsProofs` | the two copies of the scope defaults, and proofs |

### State and actions against the code

*SturdycAdapter.* `entries` and `registry` are the client's content (a registry
is the map stored under `tag::` + tag, an absent one the empty set), `tagMu` the
mutex, `flight` sturdyc's in-flight map. The other variables are the goroutines'
local variables: where they are (`at`), the arguments (`key`, `todo`), the
result (`got`), the keys still to delete (`doomed`). A `CallX` action is the entry
of a method up to its first access to shared state, with its early return; the
steps after it are named for what they do (`LockToAdd`, `LoadRegistry`,
`SweepKey`, ...). `AddTag` is the load, change and set of one registry: every other access
to registries takes `tagMu` as well, so the three are one step. Keys are not
empty and tags neither: the decorator never makes an empty one.

*CachedRepository.* The base repository is its version, `committed`, the number
of writes so far. A fetch returns the version it read, which makes the age of a
cached result visible. `op`, `plan`, `fallback`, `write` say what method a
goroutine is in and what it has still to do. Which tags a read registers
(`ReadTags`) and which invalidations a write makes (`Plan`) are constants, so
the proofs hold for any decorator of this shape; `MCCachedRepository` derives
them with `RepositoryKeys`. `TagSupport` is the type assertion on
`cache.TagRegistry` and the error of `InvalidateTags`: `"full"`, `"failing"`,
`"none"`. `InvalidateTags` of the default service never returns an error; with
`"failing"` each invalidation may go by tags or by the fallback. `reached`, `reach`, `racers`, `before` are history: what an
invalidation covers, and which keys were exposed to a race.

*ReadThroughCache* knows no cache: callers read versions of the data, a commit
makes a new one, and a write that has returned must be seen by later reads of
the keys it covered and did not miss. `CachedRepositoryRefinement` maps the
decorator to it: `settled` is what a finished write reached and no race exposed.
A flight that lands delivers one version to several readers in one step.

*UnreliableService* composes everything that may go wrong behind the decorator.
`EvictRegistry` is the eviction or expiry of a tag registry, an entry of the
client like any other (`sturdyc_adapter.go` 362), at any time: no clock is
needed to say that it may go before the results it lists. `AddTagsFails`,
`DeletionFails` and `DeletionFailsLater` are the errors that `registerTags`
(787), `deleteKey` (762) and `deleteByPrefix` (766) drop, after any part of
the work. `InvalidateTagsFails` is an `InvalidateTags` that stops half-way; its
caller falls back (799). The default service returns no such error, another
`cache.CacheService` may. `slipped`, `overtaken` are history: which entries
have one of these for an excuse.

*RecordFreshness* is sequential. A key's entry influences no other key, so one
key, any of them, is followed. `ChangeRecords` is `CreateMany`, `UpdateMany` and
`UpsertMany` of any set of records under any identifiers, two that swap theirs
included. `ExtractID` is `extractID` on a record whose id
is a value, is a pointer (formatted as an address, 443), or has another field name.

*SharedService* is sequential too. Its keys are texts, sequences of tokens:
results and registries are entries of one map, as in the client, and a map's
entries come in every order, as Go gives them. How a key is joined from segments and
how the data of a scope is sorted and spelled is in `KeyTexts`. The words in between are
constants: `Namespace` of a type, `Word` of a method or label, `ValueText` of
a value. For TLC they are `ServiceTexts`, that is `SnakeCase` and `KeySerializer` as
the code has them, whose recursion a proof cannot reach. A cached result is the read it answers. Scope
signatures have the fields the README names.

What the texts are assumed to be, which TLC evaluates for the code's own, is what
`toSnake` and the decorator's literals see to:

* `TextsAssumption`: namespaces, methods and labels hold no separator (`toSnake`
  drops punctuation). Ids, scope data and the tags of contexts may hold anything, and
  the serializer escapes nothing in them.
* `WordsAssumption`: the five methods have five words, and the labels four.

Nothing else keeps texts apart, so the properties name what they do not hold of:

* `Lookalikes`: two reads that may have one key. They have one method and types of
  one name, and either scopes that serialize alike (two points in time,
  `key_serializer.go` 192) or arguments of which one goes on after a separator where
  the other ends, as the id `a::b` does for `a`.
* `TakenForTag`, `KeptApart`: registries are kept under `tag::`, which is also how
  the keys of a type called `Tag` begin. A context's tag `list` has the registry
  `tag::list`, which is the key of `Tag`'s `List` as well: `AddTags` overwrites
  the cached list, whose readers then get `ErrInvalidResultType`, and the list stored
  again overwrites the registry. The run `keys` has such a type and such a tag.
* `OneOfAKind`, in `ReachesAsPlanned`: reads by an id that no other id goes on from.
  What a write removes is not said of the others, nor of tags that contexts use too.

*ScopeDefaults* keeps per key only which filter was applied to the cached rows.
`Refresh` is a refresh by the client, whose context leaves the scopes to the
defaults. `raced`, `crossed`, `tainted`, `byDefault`, `refreshed` are history: which calls
overlapped which, and what was cached how. One fetch per key at a time, which the
client sees to, is left out: more interleavings are possible than in the code, and
the properties hold of them too.

Actions not in a specification: reads with criteria, `*Tx` reads, `Raw`,
`Handlers` and `RegisterScope` go straight to the base repository and change
nothing modelled. A failed write returns before it invalidates.

The modules hold some operators described as faulty forms (a lock not taken, a
tag left out). No specification uses them: each can take the place of the
action it is named after, and then some property must fail. They show that the
properties depend on that line of the code.

## Properties

The central notion is a *race*. A key is `Exposed` when a write commits if some goroutine has data of it
fetched before (in `GetOrFetch`, not yet landed), or has got its result and has
not registered it while the registries do not list it. The code offers nothing
against such a race. The properties say that there is no other way:

* `TagCoverage`: every cached result is listed under each of its tags, by a
  registry that no running sweep is about to drop, or a reader is about to
  register it.
* `StaleOnlyIfRaced`: when a write has returned, no older result remains under a
  key its invalidations cover unless the key was exposed when it committed.
* `ReadsSeeFinishedWrites`: the same seen by a client: a read that began after
  the write returned, be it served by the cache, its own fetch or another reader's.
* `KeepsPromise`: every behaviour, step by step, is one of `ReadThroughCache`.
* `MethodsReturn`: every method returns.
* `StaleOnlyIfSlipped`, `CoverageLostOnlyBy`: with a service that refreshes,
  evicts and fails, the complete list of what leaves a stale result behind, or a
  result under no registry. A failed `InvalidateTags` is not on it.
* `RegistrationsKept`, `RemovalsDone`: the adapter's contract towards any clients.
* `WriterScopeFresh`, `TagsLeaveOnlyGone`, `FallbackLeavesOnlyGone`: what each write method
  reaches, and exactly what it leaves behind.
* `MixedUpOnlyByLookalikes`: whose result a read may be served, and when the wrapper
  reports an error instead. `CachedOnce`, `TaggedIsRegistered`: no read has
  two keys, and what is cached is listed under its tags.
* `ReachesAsPlanned`: prefixes and registries over texts remove exactly the keys
  that `RepositoryKeys` says; so what the other modules check of plans holds of
  the strings. (`methodPrefix` has no closing separator: the record `u1`
  takes `u12` with it, which `Extends` says.)
* `DefaultsAgree`: the two copies of the defaults agree when no `SetScopeDefaults`
  runs. Two that overlap may part them for good; then the next that
  overlaps none joins them again.
* `MisalignedOnlyIfRaced`: data is filed under a wrong scope only by a read that
  overlaps a `SetScopeDefaults`, by one that begins while two that
  overlapped have left the copies apart, or by a refresh of a result whose caller chose its
  scopes or that is older than the defaults.

## Runs

Passing:

| Run | Instance | Shows |
|---|---|---|
| `fallback` | 2 goroutines, 2 keys, 3 tags, 2 bulk updates of two invalidations each; `InvalidateTags` may fail | `TypeOK`, `TagCoverage`, `StaleOnlyIfRaced`, `IInv` |
| `liveness` | 2 goroutines, 1 key, 2 bulk updates, `InvalidateTags` may fail, fairness | `MethodsReturn`, `ReadsSeeFinishedWrites`, `KeepsPromise` |
| `degraded` | 2 goroutines, 1 key, a bulk update or transaction; refreshes, evicted registries, failing calls | `UnreliableTypeOK`, `StaleOnlyIfSlipped`, `UnreliableInv`, `CoverageLostOnlyBy` |
| `clients` | 3 clients, 2 keys, 2 tags | `ClientsTypeOK`, `RegistrationsKept`, `RemovalsDone`, `ClientsInvariant` |
| `reach` | 2 records, 2 identifiers, 2 scopes, 3 writes, with and without tags, with and without identifier fields, ids of three forms | `FreshnessTypeOK`, `WriterScopeFresh`, `TagsLeaveOnlyGone`, `FallbackLeavesOnlyGone`: what writes reach |
| `keys` | 3 types, two of one name and one called `Tag`, 3 read methods, 3 ids, 3 scopes, a context tag `list`, 3 calls, 2 cached results, with and without tags | `SharedTypeOK`, `MixedUpOnlyByLookalikes`, `CachedOnce`, `TaggedIsRegistered`, `ReachesAsPlanned`, `SharedInv` |
| `scope_defaults` | 3 goroutines, 2 scopes, refreshes | `ScopeTypeOK`, `DefaultsAgree`, `MisalignedOnlyIfRaced` |

Where the code does other than its documents say, a run has a counterexample:

| Run | What happens | Against |
|---|---|---|
| `tx` | a `*Tx` write invalidates before the commit; a read in between re-caches the old data for good | `repositorycache/doc.go` 63-67 |
| `early_refresh` | a refresh stores after an invalidation, outside the registries | `README.md` 254-256 |
| `reach_gone` | a record deleted by criteria is still read by id in another scope; the entry of a record's old identifier stays | `decorator.go` 517, 565-566 |
| `scope_race` | a read beside `SetScopeDefaults` files rows under the wrong key | `README.md` 179 |
| `keys_alike` | scopes whose data are different points in time share cached rows: `time.Time` has no exported field | `README.md` 153 |

The example of `README.md` 264-270, a `List` with criteria in a context with
tags, registers nothing: reads with criteria go past the cache.

`early_refresh` rests on what the external client does (a refresh of a hit that
nobody waits for).

The runs over `CachedRepository` have a service with tags. A service without them
(`TagSupport = "none"`) takes the fallback always, which `fallback` takes at
will; the proofs cover all three.

### Bounds

`MaxWrites` bounds the writes (2: one that leaves something behind and one after
it; a property about a write and a later read needs no third). The two keys
share the tag of their scope, so that their registrations and sweeps meet in one
registry, and differ in the other tag. The bulk updates are made in the scope and
sweep all registries. Two goroutines make every pairwise race, a writer that
afterwards joins the flight of a reader included; in `clients` the third is one
caller besides a holder of `tagMu` and a waiter. In `degraded` one committed write is
enough, since transactions that roll back invalidate as well (with two
there are 3.4 million states and the same result). `RecordFreshness`
starts from any table, so three writes cover rename, re-use of an
identifier and deletion in any order; two records are enough for bulk writes that take
some and leave some, or swap identifiers. In `keys`, three calls (`MaxCalls`) are two that fill
the cache, with at most two results (`MaxResults`), and one that reads it or removes from it, of any types, scopes and
arguments. `Get` and `Count` are left to the proofs, which are about all five methods: in
the texts they differ from `List` by their word, and from each other by the
registered tags. One id begins with another, one goes on from it with a separator and the text of
a scope, and two scopes serialize alike.
Its state space ends with the last call, which is why it does not check deadlock.
Goroutines are symmetric in the runs of safety that say so. The proofs have no bounds.

In `reach` the ids are no prefixes of each other
(`Extends` is empty); a longer id would only be invalidated more often. In `keys` they are.

### Fairness

`FairSpec` assumes weak fairness of a goroutine's next step inside a method (the
Go scheduler runs runnable goroutines; base queries return) and strong fairness
of taking `tagMu`, since `sync.Mutex` in starvation mode hands itself to the
longest waiter. No fairness is assumed of clients beginning reads or writes, nor
of evictions. Weak fairness does not suffice for the mutex: another goroutine may
take it again and again.

## Proofs

`CachedRepositoryProofs` proves, for any goroutines, keys, tags, plans and
number of writes, and for each `TagSupport`:

* `TypeCorrect`: `Spec => []TypeOK`
* `TagsCoverCache`: `Spec => []TagCoverage`
* `NoStaleUnlessRaced`: `Spec => []StaleOnlyIfRaced`
* `ReadYourWrites`: `Spec => []ReadsSeeFinishedWrites`
* `OneFetchPerKey`: `Spec => []SingleFlight` (assumed of the client, so a check of the model)

The assumptions are the named ones of the modules: `None` is no goroutine, key
or value; a read registers at least one tag; the constants have their types.

None of the properties is inductive. `StaleOnlyIfRaced` speaks of finished
writes; to reach it, one must know of an unfinished write that what it has not
deleted it is still going to delete. `IInv` adds:

* `ControlOK`, `WritesOK`: where a goroutine can be in which method, and that a
  write's number is its own;
* `LockOK`, `AddingOK`, `FlightOK`: a registry is touched by the holder of
  `tagMu` only, and what `AddTags` has done so far;
* `HeldOK`: data a goroutine holds and will store is older than a write only if
  the write found the key exposed;
* `UnfoundOK`: a result that the registries do not list is stale only if the
  write that made it so found it exposed;
* `ProgressOK`: a stale entry not excused is `Pending` with the writer: in its
  plan, its tags, its fallback or its keys still to delete.

Each part has its lemma, proved from those before it, with one step per action.

`CachedRepositoryRefinementProofs` proves `Refinement`: `Spec => KeepsPromise`.
Initial states map to initial states, and each action to the abstract step its
comment names or to a stutter. `IInv` does most of the work; `VersionsOK`
adds that nothing cached is newer than the base repository. Landing a flight is
the hard step: that the version is due to every reader aboard is
`ReadsSeeFinishedWrites` in the next state, with what `HeldOK` says of the leader.

`AdapterClientsProofs` proves `NoRegistrationLost` (`RegistrationsKept`),
`RemovalsRemove` (`RemovalsDone`) and `ClientsTyped` for any number of clients
with any lists of tags and sets of keys. `ClientsInvariant` adds where a call
finds each result it owes: in its keys still to delete, or under a tag it has
still to process, in the registrations kept. A goroutine's step touches another's
part of it only through the registries, which `tagMu` guards, and the results
present (`OthersStep`); so the parts are proved for the goroutine that
steps, and `OthersKeep` does the rest once.

`ScopeDefaultsProofs` proves `ScopesTyped` (`ScopeTypeOK`), `CopiesAgree` (`DefaultsAgree`) and
`MisfiledOnlyIfRaced` (`MisalignedOnlyIfRaced`) for any
goroutines and scopes, with refreshes or without. Its `IInv` adds `SetterOK` (a
`SetScopeDefaults` that overlaps no other is the only one, and the base already has
what it sets), `SettledReads` (a read that is not raced has the key of the scope its
base query resolves) and `SettledResults` (what such a read has stored by the defaults,
a refresh would store again).

`TxTagsCoverCache` and `TxInvariance` are about `SpecTx`, in which a write may
invalidate before it commits. `TxInv` is `IInv` without the parts that number
writes (a write in a transaction has no number until its commit): the tags still
cover the cache and one fetch per key runs at a time. What is lost is
`StaleOnlyIfRaced`, as the run `tx` shows.

`UnreliableServiceProofs` proves `UnreliableTypeCorrect`, `StaleUnlessSlipped` and
`CoverageLoss` of `SpecUnreliable`: transactions, refreshes, evicted
registries and failing calls together. `UnreliableInv` takes what `IInv` says of goroutines,
of `tagMu` and of fetched data, and says the rest anew, since an entry that has
slipped is owed nothing:

* `RefreshedOK`: what a refresh is about to store is older only than writes that
  found the key exposed or were overtaken by the refresh;
* `SlippedOK`, `StrayOK`: an entry that invalidations cannot find is so
  accounted for, or has slipped;
* `AttemptOK`: what `InvalidateTags` had covered when it fails is done, which is
  why its failure is no excuse: the fallback has only the rest to do;
* `OwedOK`: `ProgressOK` with these exceptions.

`CoverageLoss` is a property of steps: an entry gets out of reach of
invalidations in an eviction of a registry, a failed `AddTags` or a refresh that
stores, and in no other step; the last two put out of reach no other entry than
the one they are about.

`RecordFreshnessProofs` first is about the loops of `writeInvalidationTags` and of the
fallback, for lists of records of any length.
`WriteInvalidationTagsComplete`: the tags of a write are the list tag, its
scope's tag and the tags of each record, and none twice.
`CreateFallbackComplete`: the deletions of a create are those of the queries and
those of each record. The loops are folds of the community
modules, known to a proof by their equation once `FoldExists` (`ListLemmas`) has shown that
a function with this equation exists; `FoldUnfolds` and `StepsKeep` say what the fold is after
each step and `FoldCollects` what one whose steps add elements returns. The
library's theorems on induction take an operator as a
parameter, which no prover here instantiates, so `NumbersAll` does induction
over a set of numbers, from well-foundedness.

From these it proves `OwnScopeFresh`
(`WriterScopeFresh`), `TagsReachTheRest` (`TagsLeaveOnlyGone`),
`FallbackReachesTheRest` (`FallbackLeavesOnlyGone`) and `FreshnessTypeCorrect`, for any
finite table, any scopes and any number of writes. `FreshnessInv`, in the same module, is these with
`UniqueIdentifiers`: the database has no two records of one identifier
(unique constraints; a write that would make two fails in the base). Without it a
read by identifier could answer a record that a write did not touch. Given that, the three
reaches are one formula, `ShouldBeFresh => ~Stale`, and each kind
of write, of one record, of many, by criteria, either hits the followed
key or leaves its answer as it was (`OneRecordSpares`, `BulkSpares`,
`CriteriaSpares`). The type of a cached count rests on
`MatchesFinite`, and that on the assumption that `Order` is a list of the ids.

`SharedServiceProofs` proves `SharedTypeCorrect`, `ServedAsFetched`
(`MixedUpOnlyByLookalikes`), `ReadsCachedOnce` (`CachedOnce`), `ResultsStayRegistered`
(`TaggedIsRegistered`) and the action property `WritesReachAsPlanned`
(`ReachesAsPlanned`), for any types, methods, ids, scopes and tags of contexts, any
number of calls, and services with tags or without. The exceptions are in the properties, none in an assumption. The
argument has four parts:

* *A scope has one signature* (`SignaturesStable`): the entries of a map are
  sorted by the texts of their keys, these differ, and `Before` orders them; an order
  of a finite set that increases in its ranks is unique (`IncreasingUnique`).
* *Words are read one way.* A word ends at the first separator, so two texts that begin with a
  word and are equal have the same word and the same rest (`SplitAtSeparator`). Of the
  rest of a key, an id and perhaps a signature, no more follows than that one of two
  ids goes on from the other, or the scopes serialize alike. Hence reads with one key
  are `Lookalikes` (`KeysTell`), and a key is a registry's only if the read is `TakenForTag` (`RegistriesApart`).
* *The service's loops.* `AddTags`, `InvalidateTags` and `InvalidateQueries` are folds over the tags;
  what they add and remove follows from `ListLemmas`. A sweep of one tag leaves the
  registry of the next alone if that is `KeptApart`, which needs the second part.
* *`SharedInv` is inductive.* The properties alone are not: that what
  is cached under a key answers reads of that key needs `ResultsOK`, that every result is
  kept under the key of a request for it with all its tags, and that an invalidation removes no
  stranger's result needs `RegistriesOK`, that a registry lists only keys that bear its tag
  or that a context may have given it.

`ReachesAsPlanned` follows by cases: by tags, a result goes if its
registries meet the write's tags (`RegistriesOK` one way, `TaggedIsRegistered`
the other), and tags meet over texts where they do over records; by prefixes, whether one text
begins another is settled word by word, and the one prefix that is not closed by a
separator, a record's, is what `Extends` says.

No theorem states, and only TLC checks: `MethodsReturn` (liveness and
`ENABLED` are outside the prover's reach), that the texts of `KeySerializer` and
`SnakeCase` are as `SharedService` assumes (their operators are recursive), and the
counterexamples.

## Not modelled

* The synchronous refresh past `SyncRefreshTime` and the retries of refreshes:
  the client's, and without effect on what it stores.
* Clocks and capacity as numbers: results and registries can go at any time.
* `MissingRecordStorage`: no fetch of the decorator returns sturdyc's not-found error.
* `Config.Validate` and the conversions of `cache/config.go`: a chain of bounds
  that answer to the panics of the client's constructor, which are not in this
  repository, and a copy field by field.
* In the serializer, channels (an address) and the JSON fallback; in `toSnake`,
  letters beyond the Latin ones; in `deriveNamespace`, types without a name of their
  own (`[]User`, `map[string]any`), whose namespace is what follows the last dot of their text.
* Identifiers that are set but print as nothing, as a `Stringer` may: `RepositoryKeys` has
  no such value, for which `invalidateRecordCaches` (487-488) deletes nothing. Empty tags,
  which `AddTags` and `InvalidateTags` skip (353, 379): the decorator makes none, and
  `WithCacheTags` drops them.
* Results that are nil in the typed wrapper: no read of the decorator caches one.
* The accessors of the container, test support and examples.

## Plan

All modules above are done, and every safety and action property that a passing
run checks is a theorem. What could still be added:

1. The channels and the JSON fallback of the serializer, once something says what
   keys they should make.
2. `SharedService` under interleaved calls: `CachedRepository` has the
   interleavings with keys for which `RepositoryKeys` is enough, so this would
   repeat it with texts.
