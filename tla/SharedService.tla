---------------------------- MODULE SharedService ----------------------------
(***************************************************************************)
(* Several cached repositories, of several types, on one cache service, as *)
(* pkg/di/container.go makes them: results and tag registries share one    *)
(* space of keys, which are texts (KeyTexts, ServiceTexts).  The keys,     *)
(* tags and deletions are those of repositorycache/decorator.go spelled    *)
(* out; RepositoryKeys has them as records.                                *)
(*                                                                         *)
(* One call at a time: what interleaved calls do is CachedRepository's     *)
(* subject.  The base repositories (external) are not modelled: a result   *)
(* is the read it answers.                                                 *)
(***************************************************************************)
EXTENDS KeyTexts, FiniteSets

CONSTANTS
  Types,         \* record types
  Methods,       \* the read methods clients call
  Ids,           \* record ids, as texts; a record's identifier is spelled like its id
  Scopes,        \* scope data, [name of a scope -> its value], <<>> outside any
  TagLists,      \* the arguments of calls of WithCacheTags, lists of texts
  MaxCalls,      \* bound: the number of calls
  MaxResults,    \* bound: the number of results in the cache
  Runes,         \* the tokens words and values are spelled with
  Namespace(_),  \* the text of a type's name in keys and tags
  Word(_),       \* that of a method's name in keys, or of a label in tags
  ValueText(_)   \* that of a value of scope data

MethodNames == {"Get", "GetByID", "GetByIdentifier", "List", "Count"}
Labels      == {"list", "scope", "id", "identifier"}

TagWord == <<"t", "a", "g">>  \* the word the keys of registries begin with

Tokens == Runes \cup Range(TagWord) \cup {Separator}
Words  == Seq(Runes) \ {<<>>}  \* names have no separator
Texts  == Seq(Tokens)          \* ids, scope data and tags may have

NoArg == <<>>  \* the argument of a method that has none

VARIABLES
  cache,  \* the client's content: [some texts -> a result or a registry]
  last,   \* the last call, and whose result a read finds in the cache or fetches
  calls,  \* the number of calls
  hasTags \* does the service implement cache.TagRegistry

vars == <<cache, last, calls, hasTags>>

(* A read without criteria: the method, its argument, the scope it is in.  *)
Read(t, m, a, s) == [type |-> t, method |-> m, arg |-> a, scope |-> s]

ByArg == Methods \cap {"GetByID", "GetByIdentifier"}
Reads == {Read(t, m, NoArg, s) : t \in Types, m \in Methods \ ByArg, s \in Scopes}
         \cup {Read(t, m, a, s) : t \in Types, m \in ByArg, a \in Ids, s \in Scopes}

-----------------------------------------------------------------------------
(* Texts of keys and tags.                                                 *)
MethodKey(t, m) == Namespace(t) \o Segment(Word(m))

(* A scope signature, its data in the order a map is read in.              *)
DataText(s, order) ==
  IF s = <<>> THEN <<"map:nil">>
  ELSE MapText([i \in DOMAIN order |-> [keySort |-> MapKeyText("string", <<order[i]>>),
                                        text    |-> ValueText(s[order[i]])]])

Signature(s, order) ==
  LET names == SetToSeq(DOMAIN s)
      part(name, text) == [name |-> name, text |-> text]
  IN StructText(<<
       part("Operation", <<"select">>),
       part("UseDefaults", <<"false">>),
       part("Names", IF s = <<>> THEN <<"slice:nil">>
                     ELSE ElementsText("slice", [i \in DOMAIN names |-> <<names[i]>>])),
       part("Data", DataText(s, order))>>)

Signatures(s) == {Signature(s, order) : order \in SetToSeqs(DOMAIN s)}

(* The zero signature adds no segment to a key.                            *)
KeyText(r, signature) ==
  MethodKey(r.type, r.method)
  \o (IF r.arg = NoArg THEN <<>> ELSE Segment(r.arg))
  \o (IF r.scope = <<>> THEN <<>> ELSE Segment(signature))

TagLabel(t, label)       == Namespace(t) \o Segment(Word(label))
TagValue(t, label, text) == TagLabel(t, label) \o Segment(text)

ListTag(t)      == TagLabel(t, "list")
ScopeTags(t, s) == {TagValue(t, "scope", signature) : signature \in Signatures(s)}

(* The tags of a read, its scope's being scopeTag.                         *)
TagsOfRead(r, scopeTag) ==
  CASE r.method = "Get"              -> <<scopeTag>>
    [] r.method \in {"List", "Count"} -> <<ListTag(r.type), scopeTag>>
    [] r.method = "GetByID"          -> <<scopeTag, TagValue(r.type, "id", r.arg)>>
    [] r.method = "GetByIdentifier"  -> <<scopeTag, TagValue(r.type, "identifier", r.arg)>>

(* A read with a key and the tags its method may make of it, a write with  *)
(* its tags.  writeInvalidationTags is that of one record, whose           *)
(* identifier is known; a write by criteria has no record.                 *)
Requests ==
  UNION {{[read |-> r, key |-> KeyText(r, signature), tags |-> TagsOfRead(r, scopeTag)] :
            signature \in Signatures(r.scope), scopeTag \in ScopeTags(r.type, r.scope)} :
         r \in Reads}

WriteInvalidationTags(t, scopeTag, i) ==
  <<ListTag(t), scopeTag, TagValue(t, "id", i), TagValue(t, "identifier", i)>>

Updates ==
  UNION {{[call |-> "update", type |-> t, scope |-> s, arg |-> i,
           tags |-> WriteInvalidationTags(t, scopeTag, i)] :
            i \in Ids, scopeTag \in ScopeTags(t, s)} : t \in Types, s \in Scopes}

Deletions ==
  UNION {{[call |-> "delete", type |-> t, scope |-> s, tags |-> <<ListTag(t), scopeTag>>] :
            scopeTag \in ScopeTags(t, s)} : t \in Types, s \in Scopes}

DedupeStrings(values) ==
  FoldLeft(LAMBDA kept, v : IF v = <<>> \/ Contains(kept, v) THEN kept ELSE Append(kept, v),
           <<>>, values)

(* The tags a context carries after two calls of WithCacheTags.            *)
WithCacheTags(existing, tags) ==
  IF tags = <<>> THEN existing ELSE DedupeStrings(existing \o tags)

Contexts == {WithCacheTags(WithCacheTags(<<>>, ts), us) : ts, us \in TagLists}

-----------------------------------------------------------------------------
(* What the texts are.  toSnake leaves no separator in a name; ids, scope  *)
(* data and the tags of contexts are the application's, and the serializer *)
(* escapes nothing in them.                                                *)
ASSUME CallsAssumption == MaxCalls \in Nat
ASSUME MethodsAssumption == Methods \subseteq MethodNames

ASSUME ScopesAssumption ==
  \A s \in Scopes : IsFiniteSet(DOMAIN s) /\ DOMAIN s \subseteq Range(Alphabet)

ASSUME TextsAssumption ==
  /\ Separator \notin Runes
  /\ \A t \in Types : Namespace(t) \in Words
  /\ \A w \in MethodNames \cup Labels : Word(w) \in Words
  /\ \A s \in Scopes : Signatures(s) \subseteq Texts
  /\ Ids \subseteq Texts \ {<<>>}
  /\ TagLists \subseteq Seq(Texts)

ASSUME WordsAssumption ==
  /\ \A m, n \in MethodNames : Word(m) = Word(n) => m = n
  /\ \A l, k \in Labels : Word(l) = Word(k) => l = k

(* All tags there may be: those of contexts and those the decorator makes. *)
OwnTags == UNION {Range(context) : context \in Contexts}

TagValues == Ids \cup UNION {Signatures(s) : s \in Scopes}

DecoratorTags ==
  {ListTag(t) : t \in Types}
  \cup {TagValue(t, label, text) :
          t \in Types, label \in {"scope", "id", "identifier"}, text \in TagValues}

AllTags == OwnTags \cup DecoratorTags

-----------------------------------------------------------------------------
(* The service.                                                            *)
(* (Faulty: a registry is kept under its tag itself.)                      *)
TagRegistryKeyBare(tag) == tag

TagRegistryKey(tag) == TagWord \o Segment(tag)

(* A result is the read it is of; tags is history: those it was read with. *)
Result(r)      == [of |-> {r}, tags |-> {}, keys |-> {}]
Registry(keys) == [of |-> {}, tags |-> {}, keys |-> keys]

LoadTagRegistry(c, tag) ==
  IF TagRegistryKey(tag) \in DOMAIN c THEN c[TagRegistryKey(tag)].keys ELSE {}

Without(c, texts) == Restrict(c, DOMAIN c \ texts)
With(c, text, content) ==
  [t \in DOMAIN c \cup {text} |-> IF t = text THEN content ELSE c[t]]

(* (Faulty: key and tag swapped; a registry begun anew by each read.)      *)
AddTagsSwapped(c, key, tags) ==
  FoldLeft(LAMBDA d, tag :
             With(d, TagRegistryKey(key), Registry(LoadTagRegistry(d, key) \cup {tag})),
           c, tags)
AddTagsReplacing(c, key, tags) ==
  FoldLeft(LAMBDA d, tag : With(d, TagRegistryKey(tag), Registry({key})), c, tags)

AddTags(c, key, tags) ==
  FoldLeft(LAMBDA d, tag :
             With(d, TagRegistryKey(tag), Registry(LoadTagRegistry(d, tag) \cup {key})),
           c, tags)

InvalidateTags(c, tags) ==
  FoldLeft(LAMBDA d, tag : Without(d, LoadTagRegistry(d, tag) \cup {TagRegistryKey(tag)}),
           c, tags)

DeleteByPrefix(c, prefix) == Without(c, {text \in DOMAIN c : IsPrefix(prefix, text)})

-----------------------------------------------------------------------------
AllKeyTexts == {q.key : q \in Requests}

SharedTypeOK ==
  /\ \A text \in DOMAIN cache :
       \/ /\ cache[text].of \in SUBSET Reads /\ Cardinality(cache[text].of) = 1
          /\ cache[text].keys = {}
       \/ cache[text].of = {} /\ cache[text].keys \in (SUBSET AllKeyTexts) \ {{}}
  /\ last.call \in {"none", "read", "mistyped", "failed", "update", "delete", "tag"}
  /\ calls \in 0..MaxCalls
  /\ hasTags \in BOOLEAN

Init ==
  /\ cache = <<>>
  /\ last  = [call |-> "none"]
  /\ calls = 0
  /\ hasTags \in BOOLEAN

Called(call) ==
  /\ calls < MaxCalls
  /\ calls' = calls + 1
  /\ last' = call
  /\ UNCHANGED hasTags

IsResult(text) == cache[text].of # {}

(* registerTags: the read's tags and its context's, for a service that can.*)
RegisterTags(c, q, context) ==
  LET tags == DedupeStrings(q.tags \o context)
      read == With(c, q.key, [c[q.key] EXCEPT !.tags = @ \cup Range(tags)])
  IN IF hasTags THEN AddTags(read, q.key, tags) ELSE c

ReadMiss(q, context) ==
  /\ q.key \notin DOMAIN cache
  /\ Cardinality({text \in DOMAIN cache : IsResult(text)}) < MaxResults
  /\ Called([call |-> "read", read |-> q.read, of |-> {q.read}])
  /\ cache' = RegisterTags(With(cache, q.key, Result(q.read)), q, context)

(* A fetch, of whatever is not cached, that fails: nothing is stored or    *)
(* registered.                                                             *)
ReadFails ==
  /\ ~(AllKeyTexts \subseteq DOMAIN cache)
  /\ Called([call |-> "failed"])
  /\ UNCHANGED cache

(* The wrapper cache.GetOrFetch returns what is cached if it has the type  *)
(* the method returns ...                                                  *)
ResultType(r) ==
  CASE r.method = "Count" -> [kind |-> "int"]
    [] r.method = "List"  -> [kind |-> "listResult", type |-> r.type]
    [] OTHER              -> [kind |-> "record", type |-> r.type]

Assertable(content, r) == \E held \in content.of : ResultType(held) = ResultType(r)

ReadHit(q, context) ==
  /\ q.key \in DOMAIN cache
  /\ Assertable(cache[q.key], q.read)
  /\ Called([call |-> "read", read |-> q.read, of |-> cache[q.key].of])
  /\ cache' = RegisterTags(cache, q, context)

(* ... and ErrInvalidResultType otherwise.                                 *)
ReadMistyped(q) ==
  /\ q.key \in DOMAIN cache
  /\ ~Assertable(cache[q.key], q.read)
  /\ Called([call |-> "mistyped", read |-> q.read, of |-> cache[q.key].of])
  /\ UNCHANGED cache

-----------------------------------------------------------------------------
(* Fallbacks, deletion by deletion.                                        *)
(* (Faulty: closed by a separator.)                                        *)
MethodPrefixClosed(t, m, a) == MethodKey(t, m) \o Segment(a) \o Segment(<<>>)

MethodPrefix(t, m, a) == MethodKey(t, m) \o Segment(a)

MethodPrefixWithSeparator(t, m) == MethodKey(t, m) \o Segment(<<>>)

DeleteKey(c, t, m)   == Without(c, {MethodKey(t, m)})
DeleteMethod(c, t, m) == DeleteByPrefix(c, MethodPrefixWithSeparator(t, m))

InvalidateRecordCaches(c, t, i) ==
  DeleteByPrefix(DeleteByPrefix(c, MethodPrefix(t, "GetByID", i)),
                 MethodPrefix(t, "GetByIdentifier", i))

InvalidateQueries(c, t) ==
  FoldLeft(LAMBDA d, m : DeleteMethod(DeleteKey(d, t, m), t, m), c, <<"Get", "List", "Count">>)

(* A write of one record, and one by criteria.                             *)
UpdateRecord(w) ==
  /\ Called(w)
  /\ cache' = IF hasTags THEN InvalidateTags(cache, w.tags)
              ELSE InvalidateQueries(InvalidateRecordCaches(cache, w.type, w.arg), w.type)

DeleteWhere(w) ==
  /\ Called(w)
  /\ cache' = IF hasTags THEN InvalidateTags(cache, w.tags)
              ELSE InvalidateQueries(
                     DeleteMethod(DeleteMethod(cache, w.type, "GetByID"),
                                  w.type, "GetByIdentifier"), w.type)

(* The application invalidates a tag of its own.                           *)
InvalidateOwnTag(tag) ==
  /\ hasTags
  /\ Called([call |-> "tag", tag |-> tag])
  /\ cache' = InvalidateTags(cache, <<tag>>)

Next ==
  \/ \E q \in Requests :
       \/ \E context \in Contexts : ReadMiss(q, context) \/ ReadHit(q, context)
       \/ ReadMistyped(q)
  \/ ReadFails
  \/ \E w \in Updates : UpdateRecord(w)
  \/ \E w \in Deletions : DeleteWhere(w)
  \/ \E tag \in OwnTags : InvalidateOwnTag(tag)

Spec == Init /\ [][Next]_vars

-----------------------------------------------------------------------------
(* The text j is i, a separator, and more.                                 *)
Continues(i, j) == IsPrefix(i \o <<Separator>>, j)

(* What a key does not tell apart: types of one name in two packages, and, *)
(* nothing being escaped, scopes that serialize alike and an id that goes  *)
(* on after a separator, as if with a scope's text.                        *)
Lookalikes(r, s) ==
  /\ Namespace(r.type) = Namespace(s.type) /\ r.method = s.method
  /\ \/ r.arg = s.arg /\ Signatures(r.scope) \cap Signatures(s.scope) # {}
     \/ Continues(r.arg, s.arg) \/ Continues(s.arg, r.arg)

(* Registries are kept under texts that begin like the keys of a type      *)
(* called Tag, so a tag that begins with a method's word may meet one.     *)
TakenForTag(r) ==
  /\ Namespace(r.type) = TagWord
  /\ \E tag \in AllTags : tag = Word(r.method) \/ Continues(Word(r.method), tag)

(* A read is served what it would fetch, whatever other methods, ids,      *)
(* scopes, types and tags are in the service, with two exceptions.  It may *)
(* get the result of a lookalike, which the wrapper tells by its type      *)
(* only; and a registry may be in the place of its result, an error.       *)
MixedUpOnlyByLookalikes ==
  last.call \in {"read", "mistyped"} =>
    \/ last.call = "read" /\ last.of = {last.read}
    \/ \E r \in Reads \ {last.read} :
         /\ last.of = {r}
         /\ Lookalikes(r, last.read)
         /\ last.call = "read" <=> ResultType(r) = ResultType(last.read)
    \/ last.call = "mistyped" /\ last.of = {} /\ TakenForTag(last.read)

(* key_serializer.go: "It produces stable keys across runs", in whatever   *)
(* order maps are iterated: no read is cached twice.                       *)
CachedOnce ==
  \A a, b \in DOMAIN cache : IsResult(a) /\ cache[a].of = cache[b].of => a = b

(* Registries and results in one key space: what is cached is listed under *)
(* each tag it was read with, those of contexts too.  Not said of a tag    *)
(* whose registry has the key of a read, as a context's tag `list` has     *)
(* beside a type called Tag: the two take each other's place.              *)
KeptApart(tag) == TagRegistryKey(tag) \notin AllKeyTexts

TaggedIsRegistered ==
  \A text \in DOMAIN cache : IsResult(text) =>
    \A tag \in cache[text].tags : KeptApart(tag) => text \in LoadTagRegistry(cache, tag)

(* The deletions as RepositoryKeys has them, with keys and tags for        *)
(* records and scopes as they serialize: by tags, the keys that have one;  *)
(* else those that match.                                                  *)
Planned == INSTANCE RepositoryKeys WITH
  Identifiers <- Ids,
  Scopes      <- {Signatures(s) : s \in Scopes},
  NoScope     <- Signatures(<<>>),
  Extends     <- {e \in Ids \X Ids : e[1] # e[2] /\ IsPrefix(e[1], e[2])}

PlannedKeys ==
  [r \in Reads |-> Planned!Key(r.method, r.arg, Signatures(r.scope))]

Plans ==
  [w \in Updates \cup Deletions |->
     IF w.call = "update"
     THEN Planned!InvalidateAfterUpdate(Signatures(w.scope), Planned!Record(w.arg, <<w.arg>>))
     ELSE Planned!InvalidateAfterCriteriaOperation(Signatures(w.scope))]

Reached(w, r) ==
  LET key == PlannedKeys[r]
  IN /\ Namespace(r.type) = Namespace(w.type)
     /\ IF hasTags
        THEN Range(Plans[w].tags) \cap Range(Planned!TagsOfRead(key)) # {}
        ELSE \E d \in Range(Plans[w].fallback) : key \in d.keys

(* A write removes the results RepositoryKeys says, no more and no fewer:  *)
(* prefixes and registries reach the keys of the write's own repository,   *)
(* of all its scopes, and no key of another method or repository.  Not     *)
(* said of ids of which one continues another, which share keys, nor of    *)
(* tags that contexts use as well or whose registries are not kept apart.  *)
OneOfAKind == {r \in Reads : \A i \in Ids : ~Continues(i, r.arg) /\ ~Continues(r.arg, i)}

ReachesAsPlanned ==
  [][/\ last'.call \in {"update", "delete"}
     /\ hasTags => \A tag \in Range(last'.tags) : KeptApart(tag) /\ tag \notin OwnTags
     => \A text \in DOMAIN cache : \A r \in cache[text].of :
          r \in OneOfAKind => (text \notin DOMAIN cache' <=> Reached(last', r))]_vars

(* README, Scope Aware Keys: "Tenant/session specific contexts therefore   *)
(* never share cached rows".                                               *)
ScopesNeverShare ==
  last.call = "read" => \A held \in last.of : held.scope = last.read.scope
=============================================================================
