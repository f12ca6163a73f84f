-------------------------- MODULE MCSharedService --------------------------
(* For TLC: two types of one name and one called Tag, a tag of contexts    *)
(* that reads like a key of it, ids of which one begins with another and   *)
(* one goes on like a key, and scopes that serialize alike.                *)
EXTENDS SharedServiceInvariant, ServiceTexts

User == <<"U","s","e","r">>
MCTypes == {[package |-> "auth", name |-> User], [package |-> "crm", name |-> User],
            [package |-> "crm", name |-> <<"T","a","g">>]}

MCTagLists == {<<>>, <<Spelled["list"], <<>>, Spelled["list"]>>}

MCAlphabet == <<":", "role", "since", "string">>

MCRunes ==
  (Letters \cup Digits \cup {"_"}
   \cup UNION {UNION {Range(text) : text \in Signatures(s)} : s \in Scopes}) \ {Separator}

String(word) == Basic("string", <<word>>)

(* A point in time, as time.Time: none of its fields is exported.          *)
Time(n) == Struct(<<Private("wall", Basic("uint64", <<n>>)), Private("ext", Basic("int64", <<n>>)),
                    Private("loc", Nil)>>)

(* No scope, and two that differ in a time only.                           *)
At(n)    == [since |-> Time(n), role |-> String("b")]
MCScopes == {<<>>, At("1"), At("2")}

MCIds == {<<"u","1">>, <<"u","1","2">>}
         \cup {<<"u","1">> \o Segment(text) : text \in Signatures(At("1"))}

(* The words, spelled once.                                                *)
Namespaces == [t \in MCTypes |-> NamespaceText(t)]
WordTexts  == [w \in MethodNames \cup Labels |-> WordText(w)]

MCNamespace(t) == Namespaces[t]
MCWord(w)      == WordTexts[w]

Times    == {<<>>, [since |-> Time("1")], [since |-> Time("2")]}
TimesIds == {<<"u","1">>}
=============================================================================
