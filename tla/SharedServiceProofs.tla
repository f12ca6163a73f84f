------------------------- MODULE SharedServiceProofs -------------------------
(***************************************************************************)
(* The properties of SharedService hold of Spec, for every value of the    *)
(* constants: any types, methods, ids, scopes and tags of contexts, in     *)
(* whose texts separators may stand anywhere but in the names of types and *)
(* methods.                                                                *)
(*                                                                         *)
(* A scope has one signature, in whatever order its data is read.  Names   *)
(* are read one way, at the first separator, so keys and tags tell types,  *)
(* methods and labels; what follows tells arguments unless one continues   *)
(* another, and scopes unless their data serialize alike, and a registry   *)
(* has the key of a read only where a type is called Tag.  The service's   *)
(* operations are folds: what they add and remove follows from ListLemmas. *)
(* With that, each call keeps SharedInv, and what a write removes is what  *)
(* RepositoryKeys plans, prefixes matching word by word and tags meeting   *)
(* where labels and values do.                                             *)
(***************************************************************************)
EXTENDS SharedServiceInvariant, ListLemmas
-----------------------------------------------------------------------------
(* Scope data is serialized to one text, in whatever order its map is read.*)
LEMMA RankOrders ==
  ASSUME NEW x \in Range(Alphabet)
  PROVE  Rank(x) \in 1..Len(Alphabet) /\ Alphabet[Rank(x)] = x
  <1> DEFINE I == {i \in 1..Len(Alphabet) : Alphabet[i] = x}
  <1>1. Alphabet \in Seq(Range(Alphabet)) /\ Len(Alphabet) \in Nat /\ DOMAIN Alphabet = 1..Len(Alphabet)
    BY AlphabetAssumption
  <1>2. PICK i \in 1..Len(Alphabet) : Alphabet[i] = x
    BY <1>1 DEF Range
  <1>3. \A j \in 1..Len(Alphabet) : Alphabet[j] = x => j = i
    BY <1>1, <1>2, AlphabetAssumption DEF IsInjective
  <1>4. I = {i}
    BY <1>2, <1>3
  <1>5. Min({i}) = i
    <2>1. i \in Int
      BY <1>1
    <2> QED
      BY <2>1 DEF Min
  <1>6. Rank(x) = i
    <2>1. Rank(x) = IF I # {} THEN Min(I) ELSE 0
      BY DEF Rank, SelectInSeq
    <2> HIDE DEF I
    <2> QED
      BY <1>4, <1>5, <2>1
  <1> QED
    BY <1>2, <1>6

(* Keys of the data come in the order of the names of the scopes.          *)
LEMMA NamesOrdered ==
  ASSUME NEW x \in Range(Alphabet), NEW y \in Range(Alphabet)
  PROVE  /\ Before(MapKeyText("string", <<x>>), MapKeyText("string", <<y>>)) <=> Rank(x) < Rank(y)
         /\ MapKeyText("string", <<x>>) = MapKeyText("string", <<y>>) <=> x = y
  <1> DEFINE a == MapKeyText("string", <<x>>)
             b == MapKeyText("string", <<y>>)
  <1>1. /\ Len(a) = 3 /\ a[1] = "string" /\ a[2] = ":" /\ a[3] = x
        /\ Len(b) = 3 /\ b[1] = "string" /\ b[2] = ":" /\ b[3] = y
    BY DEF MapKeyText
  <1>2. \A t : Rank(t) \in Int
    <2> SUFFICES ASSUME NEW t PROVE Rank(t) \in Int
      OBVIOUS
    <2> DEFINE I == {i \in 1..Len(Alphabet) : Alphabet[i] = t}
    <2>1. Rank(t) = IF I # {} THEN Min(I) ELSE 0
      BY DEF Rank, SelectInSeq
    <2>2. CASE I = {}
      BY <2>1, <2>2
    <2>3. CASE I # {}
      <3>1. t \in Range(Alphabet)
        BY <2>3, AlphabetAssumption DEF Range
      <3> QED
        BY <3>1, RankOrders
    <2> QED
      BY <2>2, <2>3
  <1>3. a = b <=> x = y
    <2>1. x = y => a = b
      OBVIOUS
    <2> HIDE DEF a, b
    <2> QED
      BY <1>1, <2>1
  <1>4. Before(a, b) <=> Rank(x) < Rank(y)
    <2> HIDE DEF a, b
    <2>1. ASSUME Rank(x) < Rank(y) PROVE Before(a, b)
      <3>1. 3 \in 1..Len(b) /\ \A j \in 1..(3 - 1) : j <= Len(a) /\ a[j] = b[j]
        <4>1. 1..(3 - 1) = {1, 2}
          OBVIOUS
        <4> QED
          BY <1>1, <4>1
      <3>2. Rank(a[3]) < Rank(b[3])
        BY <1>1, <2>1
      <3> QED
        BY <3>1, <3>2 DEF Before
    <2>2. ASSUME Before(a, b) PROVE Rank(x) < Rank(y)
      <3>1. PICK i \in 1..Len(b) :
              /\ \A j \in 1..(i - 1) : j <= Len(a) /\ a[j] = b[j]
              /\ i <= Len(a) => Rank(a[i]) < Rank(b[i])
        BY <2>2 DEF Before
      <3>2. i \in {1, 2, 3} /\ Rank(a[i]) < Rank(b[i])
        BY <1>1, <3>1
      <3>3. i # 1 /\ i # 2
        BY <1>1, <1>2, <3>2
      <3> QED
        BY <1>1, <3>2, <3>3
    <2> QED
      BY <2>1, <2>2
  <1> QED
    BY <1>3, <1>4

(* The entries of the data, in the order it is read in.                    *)
Entries(s, order) ==
  [i \in DOMAIN order |-> [keySort |-> MapKeyText("string", <<order[i]>>),
                           text    |-> ValueText(s[order[i]])]]

LEMMA EntriesSorted ==
  ASSUME NEW s \in Scopes, NEW order \in SetToSeqs(DOMAIN s)
  PROVE  LET n == Cardinality(DOMAIN s)
             p == Order(Entries(s, order))
             rank == [x \in DOMAIN s |-> Rank(x)]
         IN /\ n \in Nat /\ p \in [1..n -> 1..n] /\ order \in [1..n -> DOMAIN s]
            /\ Increasing([i \in 1..n |-> order[p[i]]], DOMAIN s, rank)
  <1> DEFINE D == DOMAIN s
             n == Cardinality(D)
             e == Entries(s, order)
             rank == [x \in D |-> Rank(x)]
             Sorted(p) == \A i, j \in DOMAIN p : i < j =>
                            \/ Before(e[p[i]].keySort, e[p[j]].keySort)
                            \/ e[p[i]].keySort = e[p[j]].keySort /\ p[i] < p[j]
  <1>1. IsFiniteSet(D) /\ D \subseteq Range(Alphabet) /\ n \in Nat
    BY ScopesAssumption, FS_CardinalityType
  <1>2. rank \in Injection(D, Nat)
    <2>1. \A x \in D : Rank(x) \in Nat /\ Alphabet[Rank(x)] = x
      <3>1. Len(Alphabet) \in Nat
        BY AlphabetAssumption
      <3> QED
        BY <1>1, <3>1, RankOrders
    <2>2. rank \in [D -> Nat] /\ \A x, y \in D : rank[x] = rank[y] => x = y
      BY <2>1
    <2> HIDE DEF rank, D
    <2> QED
      BY <2>2 DEF Injection, IsInjective
  <1>3. order \in [1..n -> D] /\ \A i, j \in 1..n : i # j => order[i] # order[j]
    BY DEF SetToSeqs
  <1>4. n = Cardinality(1..n) /\ IsFiniteSet(1..n)
    <2> HIDE DEF n
    <2>1. 1 \in Int /\ n \in Int /\ (IF 1 > n THEN 0 ELSE n - 1 + 1) = n
      BY <1>1
    <2> QED
      BY <2>1, FS_Interval
  <1>5. DOMAIN e = 1..n /\ \A i \in 1..n : e[i].keySort = MapKeyText("string", <<order[i]>>)
    BY <1>3 DEF Entries
  <1>6. Order(e) = CHOOSE p \in SetToSeqs(1..n) : Sorted(p)
    <2> HIDE DEF e, n
    <2> QED
      BY <1>5 DEF Order
  <1>7. ASSUME NEW p \in [1..n -> 1..n], \A i, j \in 1..n : i # j => p[i] # p[j]
        PROVE  Sorted(p) <=> \A i, j \in 1..n : i < j => rank[order[p[i]]] < rank[order[p[j]]]
    <2> HIDE DEF e, n
    <2>1. DOMAIN p = 1..n
      OBVIOUS
    <2>2. ASSUME NEW i \in 1..n, NEW j \in 1..n, i < j
          PROVE  (\/ Before(e[p[i]].keySort, e[p[j]].keySort)
                  \/ e[p[i]].keySort = e[p[j]].keySort /\ p[i] < p[j])
                 <=> rank[order[p[i]]] < rank[order[p[j]]]
      <3>1. p[i] \in 1..n /\ p[j] \in 1..n /\ p[i] # p[j]
        BY <1>1, <1>7, <2>2
      <3>2. order[p[i]] \in D /\ order[p[j]] \in D /\ order[p[i]] # order[p[j]]
        BY <1>3, <3>1
      <3>3. /\ rank[order[p[i]]] = Rank(order[p[i]]) /\ rank[order[p[j]]] = Rank(order[p[j]])
            /\ order[p[i]] \in Range(Alphabet) /\ order[p[j]] \in Range(Alphabet)
        BY <1>1, <3>2
      <3>4. /\ e[p[i]].keySort = MapKeyText("string", <<order[p[i]]>>)
            /\ e[p[j]].keySort = MapKeyText("string", <<order[p[j]]>>)
        BY <1>5, <3>1
      <3>5. /\ e[p[i]].keySort # e[p[j]].keySort
            /\ Before(e[p[i]].keySort, e[p[j]].keySort) <=>
                 Rank(order[p[i]]) < Rank(order[p[j]])
        BY <3>2, <3>3, <3>4, NamesOrdered
      <3> QED
        BY <3>3, <3>5
    <2> HIDE DEF rank
    <2> QED
      BY <2>1, <2>2
  <1>8. \E p \in SetToSeqs(1..n) : Sorted(p)
    <2>1. PICK q : Increasing(q, D, rank)
      BY <1>1, <1>2, IncreasingExists
    <2>2. q \in [1..n -> D] /\ \A i, j \in 1..n : i < j => rank[q[i]] < rank[q[j]]
      BY <2>1 DEF Increasing
    <2> HIDE DEF Sorted
    <2>3. order \in Surjection(1..n, D)
      <3>1. order \in Injection(1..n, D)
        BY <1>3 DEF Injection, IsInjective
      <3> QED
        BY <1>1, <1>4, <3>1, FS_Injection
    <2> DEFINE p == [i \in 1..n |-> CHOOSE k \in 1..n : order[k] = q[i]]
    <2>4. ASSUME NEW i \in 1..n PROVE p[i] \in 1..n /\ order[p[i]] = q[i]
      <3>1. q[i] \in D
        BY <2>2
      <3>2. \E k \in 1..n : order[k] = q[i]
        BY <2>3, <3>1 DEF Surjection
      <3> QED
        BY <3>2
    <2> HIDE DEF p, rank
    <2>5. p \in [1..n -> 1..n]
      BY <2>4 DEF p
    <2>6. \A i, j \in 1..n : i < j => rank[order[p[i]]] < rank[order[p[j]]]
      BY <2>2, <2>4
    <2>7. ASSUME NEW i \in 1..n, NEW j \in 1..n, i # j PROVE p[i] # p[j]
      <3>1. i < j \/ j < i
        BY <1>1, <2>7
      <3>2. rank[q[i]] < rank[q[j]] \/ rank[q[j]] < rank[q[i]]
        BY <2>2, <3>1
      <3>3. q[i] \in D /\ q[j] \in D
        BY <2>2
      <3>4. rank[q[i]] \in Nat /\ rank[q[j]] \in Nat
        BY <1>2, <3>3 DEF Injection
      <3> QED
        BY <2>4, <3>2, <3>4
    <2>8. p \in SetToSeqs(1..n)
      BY <1>4, <2>5, <2>7 DEF SetToSeqs
    <2>9. Sorted(p)
      <3> HIDE DEF n, e
      <3> QED
        BY <1>7, <2>5, <2>6, <2>7
    <2> QED
      BY <2>8, <2>9
  <1>9. Order(e) \in SetToSeqs(1..n) /\ Sorted(Order(e))
    <2> HIDE DEF Sorted, e, n
    <2> QED
      BY <1>6, <1>8
  <1>10. Order(e) \in [1..n -> 1..n] /\ \A i, j \in 1..n : i # j => Order(e)[i] # Order(e)[j]
    BY <1>4, <1>9 DEF SetToSeqs
  <1>11. \A i, j \in 1..n : i < j => rank[order[Order(e)[i]]] < rank[order[Order(e)[j]]]
    <2> HIDE DEF Sorted, e, n, rank
    <2> QED
      BY <1>7, <1>9, <1>10
  <1> DEFINE q == [i \in 1..n |-> order[Order(e)[i]]]
  <1> HIDE DEF e
  <1>12. q \in [1..n -> D] /\ \A i, j \in 1..n : i < j => rank[q[i]] < rank[q[j]]
    <2> HIDE DEF rank, D
    <2> QED
      BY <1>3, <1>10, <1>11
  <1>13. Increasing(q, D, rank)
    <2> HIDE DEF rank, q
    <2> QED
      BY <1>12 DEF Increasing
  <1> QED
    BY <1>1, <1>3, <1>10, <1>13 DEF e

(* A scope has one signature: "stable keys across runs", whatever order    *)
(* the map of its data is iterated in.                                     *)
THEOREM SignaturesStable ==
  ASSUME NEW s \in Scopes, NEW a \in Signatures(s), NEW b \in Signatures(s)
  PROVE  a = b
  <1> DEFINE n == Cardinality(DOMAIN s)
             rank == [x \in DOMAIN s |-> Rank(x)]
             Names(order) == [i \in 1..n |-> order[Order(Entries(s, order))[i]]]
  <1>1. PICK o \in SetToSeqs(DOMAIN s), p \in SetToSeqs(DOMAIN s) :
          a = Signature(s, o) /\ b = Signature(s, p)
    BY DEF Signatures
  <1>2. Names(o) = Names(p)
    <2>1. Increasing(Names(o), DOMAIN s, rank) /\ Increasing(Names(p), DOMAIN s, rank)
      BY EntriesSorted
    <2>2. IsFiniteSet(DOMAIN s)
      BY ScopesAssumption
    <2>3. rank \in Injection(DOMAIN s, Nat)
      <3>1. \A x \in DOMAIN s : Rank(x) \in Nat /\ Alphabet[Rank(x)] = x
        <4>1. Len(Alphabet) \in Nat
          BY AlphabetAssumption
        <4> QED
          BY <4>1, ScopesAssumption, RankOrders
      <3>2. rank \in [DOMAIN s -> Nat] /\ \A x, y \in DOMAIN s : rank[x] = rank[y] => x = y
        BY <3>1
      <3> HIDE DEF rank
      <3> QED
        BY <3>2 DEF Injection, IsInjective
    <2> HIDE DEF rank, Names
    <2> QED
      BY <2>1, <2>2, <2>3, IncreasingUnique
  <1>3. ASSUME NEW order \in SetToSeqs(DOMAIN s)
        PROVE  MapText(Entries(s, order)) =
                 Braced("map", [i \in 1..n |->
                   PairText([keySort |-> MapKeyText("string", <<Names(order)[i]>>),
                             text    |-> ValueText(s[Names(order)[i]])])])
    <2>1. /\ n \in Nat /\ order \in [1..n -> DOMAIN s]
          /\ Order(Entries(s, order)) \in [1..n -> 1..n]
      BY EntriesSorted
    <2>2. DOMAIN Entries(s, order) = 1..n
      BY <2>1 DEF Entries
    <2>3. ASSUME NEW i \in 1..n
          PROVE  Entries(s, order)[Order(Entries(s, order))[i]] =
                   [keySort |-> MapKeyText("string", <<Names(order)[i]>>),
                    text    |-> ValueText(s[Names(order)[i]])]
      <3>1. PICK k \in 1..n : k = Order(Entries(s, order))[i]
        BY <2>1
      <3>2. k \in DOMAIN order /\ Names(order)[i] = order[k]
        BY <2>1, <3>1
      <3>3. Entries(s, order)[k] = [keySort |-> MapKeyText("string", <<order[k]>>),
                                    text    |-> ValueText(s[order[k]])]
        BY <3>2 DEF Entries
      <3> HIDE DEF Names
      <3> QED
        BY <3>1, <3>2, <3>3
    <2> HIDE DEF n, Names
    <2> QED
      BY <2>2, <2>3 DEF MapText
  <1>4. DataText(s, o) = DataText(s, p)
    <2>1. MapText(Entries(s, o)) = MapText(Entries(s, p))
      <3> HIDE DEF n, Names
      <3> QED
        BY <1>2, <1>3
    <2>2. \A order : DataText(s, order) =
            IF s = <<>> THEN <<"map:nil">> ELSE MapText(Entries(s, order))
      BY DEF DataText, Entries
    <2> QED
      BY <2>1, <2>2
  <1> QED
    BY <1>1, <1>4 DEF Signature
-----------------------------------------------------------------------------
(* Texts of keys and tags are read one way: words have no separator, and   *)
(* what follows a word is nothing or begins with one.                      *)
Plain  == {w \in Texts : \A i \in 1..Len(w) : w[i] # Separator}
Rests  == {x \in Texts : x # <<>> => x[1] = Separator}

LEMMA WordsPlain == Words \subseteq Plain \ {<<>>} /\ TagWord \in Plain
  <1>1. ASSUME NEW w \in Words PROVE w \in Plain \ {<<>>}
    <2>1. w \in Seq(Runes) /\ w # <<>>
      BY DEF Words
    <2>2. w \in Seq(Tokens) /\ \A i \in 1..Len(w) : w[i] \in Runes
      BY <2>1 DEF Tokens
    <2> QED
      BY <2>1, <2>2, TextsAssumption DEF Plain, Texts
  <1>2. TagWord \in Plain
    <2>1. Len(TagWord) = 3 /\ \A i \in 1..3 : TagWord[i] \in Range(TagWord) /\ TagWord[i] # Separator
      BY DEF TagWord, Separator, Range
    <2>2. TagWord \in Seq(Range(TagWord))
      BY <2>1 DEF TagWord
    <2>3. TagWord \in Seq(Tokens)
      BY <2>1, <2>2 DEF Tokens
    <2> QED
      BY <2>1, <2>3 DEF Plain, Texts
  <1> QED
    BY <1>1, <1>2

LEMMA SegmentRest ==
  ASSUME NEW t \in Texts
  PROVE  Segment(t) \in Rests \ {<<>>} /\ \A u \in Texts : Segment(t) = Segment(u) => t = u
  <1>1. Separator \in Tokens
    BY DEF Tokens
  <1>2. ASSUME NEW u \in Texts
        PROVE  /\ Segment(u) \in Texts /\ Len(Segment(u)) = Len(u) + 1
               /\ Segment(u)[1] = Separator /\ Tail(Segment(u)) = u
    BY <1>1 DEF Segment, Texts
  <1>3. Segment(t) # <<>>
    <2>1. Len(t) \in Nat
      BY DEF Texts
    <2> QED
      BY <1>2, <2>1
  <1>4. \A u \in Texts : Segment(t) = Segment(u) => t = u
    BY <1>2
  <1> QED
    BY <1>2, <1>3, <1>4 DEF Rests

LEMMA SegmentJoins ==
  ASSUME NEW s \in Texts, NEW t \in Texts
  PROVE  s \o t \in Texts /\ Segment(s) \o t = Segment(s \o t)
  <1>1. Separator \in Tokens
    BY DEF Tokens
  <1> QED
    BY <1>1 DEF Segment, Texts

LEMMA RestsJoin ==
  ASSUME NEW x \in Rests, NEW y \in Rests
  PROVE  x \o y \in Rests
  <1>1. x \in Seq(Tokens) /\ y \in Seq(Tokens) /\ x \o y \in Seq(Tokens)
    BY DEF Rests, Texts
  <1>2. CASE x = <<>>
    <2>1. x \o y = y
      BY <1>1, <1>2
    <2> QED
      BY <2>1
  <1>3. CASE x # <<>>
    <2>1. (x \o y)[1] = x[1]
      BY <1>1, <1>3
    <2> QED
      BY <1>1, <1>3, <2>1 DEF Rests, Texts
  <1> QED
    BY <1>2, <1>3

(* Texts that read the same are the same.                                  *)
LEMMA TextsSame ==
  ASSUME NEW s \in Texts, NEW t \in Texts, Len(s) = Len(t), \A i \in 1..Len(s) : s[i] = t[i]
  PROVE  s = t
  <1>1. /\ s \in [1..Len(s) -> Tokens] /\ t \in [1..Len(s) -> Tokens]
        /\ \A P : s \in [P -> Tokens] /\ t \in [P -> Tokens] /\ (\A i \in P : s[i] = t[i]) => s = t
    BY DEF Texts
  <1> QED
    BY <1>1, Zenon

(* Where the first word ends.                                              *)
Followed(w, x) == w \o x

LEMMA SplitAtSeparator ==
  ASSUME NEW v \in Plain, NEW w \in Plain, NEW x \in Rests, NEW y \in Rests,
         Followed(v, x) = Followed(w, y)
  PROVE  v = w /\ x = y
  <1>0. v \o x = w \o y
    BY DEF Followed
  <1>1. /\ v \in Seq(Tokens) /\ w \in Seq(Tokens) /\ x \in Seq(Tokens) /\ y \in Seq(Tokens)
        /\ \A i \in 1..Len(v) : v[i] # Separator
        /\ \A i \in 1..Len(w) : w[i] # Separator
        /\ x # <<>> => x[1] = Separator
        /\ y # <<>> => y[1] = Separator
    BY DEF Plain, Rests, Texts
  <1>2. Len(v) = Len(w)
    <2>1. ASSUME NEW a \in Seq(Tokens), NEW b \in Seq(Tokens),
                 NEW c \in Seq(Tokens), NEW d \in Seq(Tokens),
                 a \o b = c \o d, Len(a) < Len(c), b # <<>> => b[1] = Separator
          PROVE  \E i \in 1..Len(c) : c[i] = Separator
      <3>1. Len(a \o b) = Len(a) + Len(b) /\ Len(c \o d) = Len(c) + Len(d)
        OBVIOUS
      <3>2. Len(b) > 0 /\ Len(a) + 1 \in 1..Len(c)
        BY <2>1, <3>1
      <3>3. (a \o b)[Len(a) + 1] = b[1] /\ (c \o d)[Len(a) + 1] = c[Len(a) + 1]
        BY <3>2
      <3> QED
        BY <2>1, <3>2, <3>3
    <2>2. ~ Len(v) < Len(w)
      BY <1>0, <1>1, <2>1
    <2>3. ~ Len(w) < Len(v)
      BY <1>0, <1>1, <2>1
    <2> QED
      BY <1>1, <2>2, <2>3
  <1>3. v = w
    <2>1. \A i \in 1..Len(v) : (v \o x)[i] = v[i] /\ (w \o y)[i] = w[i]
      BY <1>1, <1>2
    <2>2. \A i \in 1..Len(v) : v[i] = w[i]
      BY <1>0, <2>1
    <2> QED
      BY <1>1, <1>2, <2>2, TextsSame DEF Texts
  <1>4. x = y
    <2>1. Len(v \o x) = Len(v) + Len(x) /\ Len(v \o y) = Len(v) + Len(y)
      BY <1>1
    <2>2. Len(x) = Len(y)
      BY <1>0, <1>1, <1>3, <2>1
    <2>3. \A i \in 1..Len(x) : (v \o x)[Len(v) + i] = x[i]
      BY <1>1
    <2>4. \A i \in 1..Len(y) : (v \o y)[Len(v) + i] = y[i]
      BY <1>1
    <2>5. \A i \in 1..Len(x) : x[i] = y[i]
      BY <1>0, <1>3, <2>2, <2>3, <2>4
    <2> QED
      BY <1>1, <2>2, <2>5, TextsSame DEF Texts
  <1> QED
    BY <1>3, <1>4

-----------------------------------------------------------------------------
(* Prefixes of texts, word by word.                                        *)
LEMMA PrefixPlaces ==
  ASSUME NEW s \in Texts, NEW t \in Texts
  PROVE  IsPrefix(s, t) <=> Len(s) <= Len(t) /\ \A i \in 1..Len(s) : t[i] = s[i]
  <1> SUFFICES ASSUME Len(s) <= Len(t)
               PROVE  SubSeq(s, 1, Len(s)) = SubSeq(t, 1, Len(s)) <=> \A i \in 1..Len(s) : t[i] = s[i]
    BY DEF IsPrefix
  <1>1. /\ SubSeq(s, 1, Len(s)) \in Texts /\ Len(SubSeq(s, 1, Len(s))) = Len(s)
        /\ SubSeq(t, 1, Len(s)) \in Texts /\ Len(SubSeq(t, 1, Len(s))) = Len(s)
        /\ \A i \in 1..Len(s) : SubSeq(s, 1, Len(s))[i] = s[i] /\ SubSeq(t, 1, Len(s))[i] = t[i]
    BY DEF Texts
  <1> DEFINE a == SubSeq(s, 1, Len(s))
             b == SubSeq(t, 1, Len(s))
  <1> HIDE DEF a, b
  <1>2. (\A i \in 1..Len(a) : a[i] = b[i]) => a = b
    BY <1>1, TextsSame DEF a, b
  <1> QED
    BY <1>1, <1>2 DEF a, b

LEMMA PrefixFollows ==
  ASSUME NEW s \in Texts, NEW t \in Texts
  PROVE  IsPrefix(s, t) <=> \E r \in Texts : t = Followed(s, r)
  <1>1. s \in Seq(Tokens) /\ t \in Seq(Tokens) /\ Len(s) \in Nat /\ Len(t) \in Nat
    BY DEF Texts
  <1>2. ASSUME IsPrefix(s, t) PROVE \E r \in Texts : t = Followed(s, r)
    <2>1. Len(s) <= Len(t) /\ \A i \in 1..Len(s) : t[i] = s[i]
      BY <1>2, PrefixPlaces
    <2> DEFINE r == SubSeq(t, Len(s) + 1, Len(t))
    <2>2. /\ r \in Seq(Tokens) /\ Len(r) = Len(t) - Len(s)
          /\ \A i \in 1..Len(r) : r[i] = t[Len(s) + i]
      BY <1>1, <2>1
    <2> HIDE DEF r
    <2>3. s \o r \in Texts /\ Len(s \o r) = Len(t)
      BY <1>1, <2>2 DEF Texts
    <2>4. ASSUME NEW i \in 1..Len(t) PROVE t[i] = (s \o r)[i]
      <3>1. CASE i <= Len(s)
        BY <1>1, <2>1, <2>2, <3>1
      <3>2. CASE i > Len(s)
        <4>1. i - Len(s) \in 1..Len(r) /\ Len(s) + (i - Len(s)) = i
          BY <1>1, <2>2, <3>2
        <4>2. (s \o r)[i] = r[i - Len(s)]
          BY <1>1, <2>2, <3>2
        <4> QED
          BY <2>2, <4>1, <4>2
      <3>3. i <= Len(s) \/ i > Len(s)
        BY <1>1
      <3> QED
        BY <3>1, <3>2, <3>3
    <2>5. t = s \o r
      BY <2>3, <2>4, TextsSame
    <2> QED
      BY <2>2, <2>5 DEF Followed, Texts
  <1>3. ASSUME NEW r \in Texts, t = Followed(s, r) PROVE IsPrefix(s, t)
    <2>1. r \in Seq(Tokens) /\ t = s \o r
      BY <1>3 DEF Followed, Texts
    <2>2. Len(s) <= Len(t) /\ \A i \in 1..Len(s) : t[i] = s[i]
      BY <1>1, <2>1
    <2> QED
      BY <2>2, PrefixPlaces
  <1> QED
    BY <1>2, <1>3

LEMMA FollowedJoins ==
  ASSUME NEW s \in Texts, NEW t \in Texts, NEW u \in Texts
  PROVE  /\ Followed(s, t) \in Texts
         /\ Followed(Followed(s, t), u) = Followed(s, Followed(t, u))
         /\ Followed(Segment(s), t) = Segment(Followed(s, t))
         /\ Followed(s, <<>>) = s
  <1>1. Segment(s) \o t = Segment(s \o t)
    BY SegmentJoins
  <1>2. s \o t \in Texts /\ (s \o t) \o u = s \o (t \o u) /\ s \o <<>> = s
    BY DEF Texts
  <1> QED
    BY <1>1, <1>2 DEF Followed

(* A prefix that goes on after its first word matches no longer word.      *)
LEMMA PrefixOfWord ==
  ASSUME NEW v \in Plain, NEW w \in Plain, NEW x \in Rests \ {<<>>}, NEW y \in Rests
  PROVE  IsPrefix(Followed(v, x), Followed(w, y)) <=> v = w /\ IsPrefix(x, y)
  <1>1. v \in Texts /\ w \in Texts /\ x \in Texts /\ y \in Texts
    BY DEF Plain, Rests
  <1>2. Followed(v, x) \in Texts /\ Followed(w, y) \in Texts
    BY <1>1, FollowedJoins
  <1>3. ASSUME IsPrefix(Followed(v, x), Followed(w, y))
        PROVE  v = w /\ IsPrefix(x, y)
    <2>1. PICK r \in Texts : Followed(w, y) = Followed(Followed(v, x), r)
      BY <1>2, <1>3, PrefixFollows
    <2>2. Followed(Followed(v, x), r) = Followed(v, Followed(x, r)) /\ Followed(x, r) \in Texts
      BY <1>1, FollowedJoins
    <2>3. Followed(x, r) \in Rests
      <3>1. x \in Seq(Tokens) /\ r \in Seq(Tokens) /\ x # <<>> /\ x[1] = Separator
        BY DEF Rests, Texts
      <3>2. (x \o r)[1] = x[1]
        BY <3>1
      <3> QED
        BY <2>2, <3>1, <3>2 DEF Rests, Followed
    <2>4. v = w /\ Followed(x, r) = y
      BY <2>1, <2>2, <2>3, SplitAtSeparator
    <2> QED
      BY <1>1, <2>4, PrefixFollows
  <1>4. ASSUME v = w, IsPrefix(x, y)
        PROVE  IsPrefix(Followed(v, x), Followed(w, y))
    <2>1. PICK r \in Texts : y = Followed(x, r)
      BY <1>1, <1>4, PrefixFollows
    <2>2. Followed(w, y) = Followed(Followed(v, x), r)
      BY <1>1, <1>4, <2>1, FollowedJoins
    <2> QED
      BY <1>2, <2>2, PrefixFollows
  <1> QED
    BY <1>3, <1>4

LEMMA PrefixOfSegment ==
  ASSUME NEW s \in Texts, NEW t \in Texts
  PROVE  /\ IsPrefix(Segment(s), Segment(t)) <=> IsPrefix(s, t)
         /\ ~IsPrefix(Segment(s), <<>>)
         /\ IsPrefix(<<>>, t)
  <1>1. Segment(s) \in Texts /\ Segment(t) \in Texts /\ <<>> \in Texts
    BY SegmentRest DEF Rests, Texts
  <1>2. IsPrefix(Segment(s), Segment(t)) <=> IsPrefix(s, t)
    <2>1. \A r \in Texts : Segment(t) = Followed(Segment(s), r) <=> t = Followed(s, r)
      <3> SUFFICES ASSUME NEW r \in Texts PROVE Segment(t) = Followed(Segment(s), r) <=> t = Followed(s, r)
        OBVIOUS
      <3>1. Followed(Segment(s), r) = Segment(Followed(s, r)) /\ Followed(s, r) \in Texts
        BY FollowedJoins
      <3> QED
        BY <3>1, SegmentRest
    <2> QED
      BY <1>1, <2>1, PrefixFollows
  <1>3. ~IsPrefix(Segment(s), <<>>)
    <2>1. Len(Segment(s)) > 0
      BY <1>1, SegmentRest DEF Texts
    <2> QED
      BY <2>1 DEF IsPrefix
  <1>4. IsPrefix(<<>>, t)
    <2>1. t = Followed(<<>>, t)
      BY DEF Followed, Texts
    <2> QED
      BY <1>1, <2>1, PrefixFollows
  <1> QED
    BY <1>2, <1>3, <1>4
LEMMA SeparatorPrefix == ASSUME NEW x \in Rests PROVE IsPrefix(Segment(<<>>), x) <=> x # <<>>
  <1>1. <<>> \in Texts /\ x \in Texts
    BY DEF Rests, Texts
  <1>2. CASE x = <<>>
    BY <1>1, <1>2, PrefixOfSegment
  <1>3. CASE x # <<>>
    <2>1. x \in Seq(Tokens) /\ x[1] = Separator /\ Len(x) > 0 /\ Len(x) \in Nat
      BY <1>3 DEF Rests, Texts
    <2>2. /\ Segment(<<>>) = <<Separator>> /\ Segment(<<>>) \in Texts
          /\ Len(Segment(<<>>)) = 1 /\ Segment(<<>>)[1] = Separator
      <3>1. <<Separator>> \o <<>> = <<Separator>> /\ <<Separator>> \in Texts
        <4>1. Separator \in Tokens
          BY DEF Tokens
        <4> QED
          BY <4>1 DEF Texts
      <3> QED
        BY <3>1 DEF Segment
    <2>3. Len(Segment(<<>>)) <= Len(x) /\ \A i \in 1..Len(Segment(<<>>)) : x[i] = Segment(<<>>)[i]
      BY <2>1, <2>2
    <2> QED
      BY <1>1, <1>3, <2>2, <2>3, PrefixPlaces
  <1> QED
    BY <1>2, <1>3

-----------------------------------------------------------------------------
(* Two ways to split a text before a separator: one way, or the longer     *)
(* part continues the other.                                               *)
LEMMA ContinuesPlaces ==
  ASSUME NEW v \in Texts, NEW w \in Texts
  PROVE  Continues(v, w) <=> /\ Len(v) < Len(w) /\ w[Len(v) + 1] = Separator
                             /\ \A i \in 1..Len(v) : w[i] = v[i]
  <1> DEFINE s == v \o <<Separator>>
  <1>1. v \in Seq(Tokens) /\ w \in Seq(Tokens) /\ Len(v) \in Nat /\ Len(w) \in Nat
    BY DEF Texts
  <1>2. /\ s \in Texts /\ Len(s) = Len(v) + 1 /\ s[Len(v) + 1] = Separator
        /\ \A i \in 1..Len(v) : s[i] = v[i]
    <2>1. Separator \in Tokens
      BY DEF Tokens
    <2> QED
      BY <1>1, <2>1 DEF Texts
  <1>3. Continues(v, w) <=> IsPrefix(s, w)
    BY DEF Continues
  <1> HIDE DEF s
  <1>4. IsPrefix(s, w) <=> Len(s) <= Len(w) /\ \A i \in 1..Len(s) : w[i] = s[i]
    BY <1>2, PrefixPlaces
  <1> QED
    BY <1>1, <1>2, <1>3, <1>4

LEMMA LongerContinues ==
  ASSUME NEW v \in Texts, NEW w \in Texts, NEW x \in Rests, NEW y \in Rests,
         Followed(v, x) = Followed(w, y), Len(v) < Len(w)
  PROVE  Continues(v, w)
  <1>1. /\ v \in Seq(Tokens) /\ w \in Seq(Tokens) /\ x \in Seq(Tokens) /\ y \in Seq(Tokens)
        /\ Len(v) \in Nat /\ Len(w) \in Nat /\ Len(x) \in Nat /\ Len(y) \in Nat
        /\ x # <<>> => x[1] = Separator
    BY DEF Rests, Texts
  <1>2. v \o x = w \o y
    BY DEF Followed
  <1>3. Len(v \o x) = Len(v) + Len(x) /\ Len(w \o y) = Len(w) + Len(y)
    BY <1>1
  <1>4. Len(x) > 0
    BY <1>1, <1>2, <1>3
  <1>5. x # <<>> /\ x[1] = Separator
    BY <1>1, <1>4
  <1>6. /\ (v \o x)[Len(v) + 1] = x[1] /\ (w \o y)[Len(v) + 1] = w[Len(v) + 1]
        /\ \A i \in 1..Len(v) : (v \o x)[i] = v[i] /\ (w \o y)[i] = w[i]
    BY <1>1, <1>4
  <1> QED
    BY <1>2, <1>5, <1>6, ContinuesPlaces

LEMMA SplitOrContinues ==
  ASSUME NEW v \in Texts, NEW w \in Texts, NEW x \in Rests, NEW y \in Rests,
         Followed(v, x) = Followed(w, y)
  PROVE  (v = w /\ x = y) \/ Continues(v, w) \/ Continues(w, v)
  <1>1. /\ v \in Seq(Tokens) /\ w \in Seq(Tokens) /\ x \in Seq(Tokens) /\ y \in Seq(Tokens)
        /\ Len(v) \in Nat /\ Len(w) \in Nat /\ Len(x) \in Nat /\ Len(y) \in Nat
    BY DEF Rests, Texts
  <1>2. CASE Len(v) < Len(w)
    BY <1>2, LongerContinues
  <1>3. CASE Len(w) < Len(v)
    BY <1>3, LongerContinues
  <1>4. CASE Len(v) = Len(w)
    <2>1. v \o x = w \o y
      BY DEF Followed
    <2>2. \A i \in 1..Len(v) : (v \o x)[i] = v[i] /\ (w \o y)[i] = w[i]
      BY <1>1, <1>4
    <2>3. v = w
      BY <1>4, <2>1, <2>2, TextsSame
    <2>4. Len(v \o x) = Len(v) + Len(x) /\ Len(v \o y) = Len(v) + Len(y)
      BY <1>1
    <2>5. Len(x) = Len(y)
      BY <1>1, <2>1, <2>3, <2>4
    <2>6. /\ \A i \in 1..Len(x) : (v \o x)[Len(v) + i] = x[i]
          /\ \A i \in 1..Len(y) : (v \o y)[Len(v) + i] = y[i]
      BY <1>1
    <2>7. \A i \in 1..Len(x) : x[i] = y[i]
      BY <2>1, <2>3, <2>5, <2>6
    <2>8. x = y
      BY <1>1, <2>5, <2>7, TextsSame DEF Texts
    <2> QED
      BY <2>3, <2>8
  <1> QED
    BY <1>1, <1>2, <1>3, <1>4

-----------------------------------------------------------------------------
(* What a read is.                                                         *)
LEMMA ReadsAre ==
  ASSUME NEW r \in Reads
  PROVE  /\ r.type \in Types /\ r.method \in Methods /\ r.scope \in Scopes
         /\ r.method \in ByArg => r.arg \in Ids
         /\ r.method \notin ByArg => r.arg = NoArg
         /\ r = Read(r.type, r.method, r.arg, r.scope)
  BY DEF Reads, Read, ByArg

(* What follows the method in a key.                                       *)
KeyTail(r, signature) ==
  (IF r.arg = NoArg THEN <<>> ELSE Segment(r.arg))
  \o (IF r.scope = <<>> THEN <<>> ELSE Segment(signature))

LEMMA KeyParts ==
  ASSUME NEW r \in Reads, NEW signature \in Signatures(r.scope)
  PROVE  /\ KeyText(r, signature) = Namespace(r.type) \o Segment(Word(r.method) \o KeyTail(r, signature))
         /\ Namespace(r.type) \in Plain /\ Word(r.method) \in Plain
         /\ KeyTail(r, signature) \in Rests
         /\ Segment(Word(r.method) \o KeyTail(r, signature)) \in Rests
  <1> DEFINE ns == Namespace(r.type)
             w  == Word(r.method)
             a  == IF r.arg = NoArg THEN <<>> ELSE Segment(r.arg)
             s  == IF r.scope = <<>> THEN <<>> ELSE Segment(signature)
  <1>1. /\ ns \in Plain /\ w \in Plain /\ signature \in Texts
        /\ r.arg = NoArg \/ r.arg \in Texts
    BY ReadsAre, MethodsAssumption, TextsAssumption, WordsPlain DEF Plain
  <1>2. a \in Rests /\ s \in Rests
    <2>1. <<>> \in Rests
      BY DEF Rests, Texts
    <2> QED
      BY <1>1, <2>1, SegmentRest
  <1>3. KeyText(r, signature) = ((ns \o Segment(w)) \o a) \o s /\ KeyTail(r, signature) = a \o s
    BY DEF KeyText, MethodKey, KeyTail
  <1>4. a \o s \in Rests
    BY <1>2, RestsJoin
  <1> HIDE DEF ns, w, a, s
  <1>5. /\ ns \in Seq(Tokens) /\ w \in Seq(Tokens) /\ a \in Seq(Tokens) /\ s \in Seq(Tokens)
        /\ <<Separator>> \in Seq(Tokens)
    BY <1>1, <1>2 DEF Plain, Rests, Texts, Tokens
  <1>6. ((ns \o Segment(w)) \o a) \o s = ns \o Segment(w \o (a \o s))
    <2> DEFINE bar == <<Separator>>
    <2>1. Segment(w) = bar \o w /\ Segment(w \o (a \o s)) = bar \o (w \o (a \o s)) /\ bar \in Seq(Tokens)
      BY <1>5 DEF Segment
    <2> HIDE DEF bar
    <2>2. (bar \o w) \o (a \o s) = bar \o (w \o (a \o s))
      BY <1>5, <2>1, SMTT(30)
    <2> DEFINE v == bar \o w
    <2>3. v \in Seq(Tokens)
      BY <1>5, <2>1
    <2> HIDE DEF v
    <2>4. ((ns \o v) \o a) \o s = ns \o (v \o (a \o s))
      BY <1>5, <2>3, SMTT(30)
    <2> QED
      BY <2>1, <2>2, <2>4 DEF v
  <1>7. Segment(w \o (a \o s)) \in Rests
    <2>1. w \o (a \o s) \in Texts
      BY <1>5 DEF Texts
    <2> QED
      BY <2>1, SegmentRest
  <1> QED
    BY <1>1, <1>3, <1>4, <1>6, <1>7 DEF ns, w

(* Reads with one key are lookalikes: SerializeKey's texts, joined by a    *)
(* separator and escaped in no way, tell types by their names, methods,    *)
(* arguments of which neither continues the other, and scopes as far as    *)
(* their data serialize apart.                                             *)
THEOREM KeysTell ==
  ASSUME NEW r \in Reads, NEW a \in Signatures(r.scope),
         NEW s \in Reads, NEW b \in Signatures(s.scope), KeyText(r, a) = KeyText(s, b)
  PROVE  Lookalikes(r, s)
  <1>1. /\ Namespace(r.type) = Namespace(s.type)
        /\ Segment(Word(r.method) \o KeyTail(r, a)) = Segment(Word(s.method) \o KeyTail(s, b))
    <2> DEFINE v == Namespace(r.type)
               w == Namespace(s.type)
               x == Segment(Word(r.method) \o KeyTail(r, a))
               y == Segment(Word(s.method) \o KeyTail(s, b))
    <2>1. /\ v \in Plain /\ w \in Plain /\ x \in Rests /\ y \in Rests
          /\ Followed(v, x) = Followed(w, y)
      BY KeyParts DEF Followed
    <2> HIDE DEF v, w, x, y
    <2>2. v = w /\ x = y
      BY <2>1, SplitAtSeparator
    <2> QED
      BY <2>2 DEF v, w, x, y
  <1>2. Word(r.method) \o KeyTail(r, a) = Word(s.method) \o KeyTail(s, b)
    <2>1. /\ Word(r.method) \o KeyTail(r, a) \in Texts
          /\ Word(s.method) \o KeyTail(s, b) \in Texts
      BY KeyParts DEF Plain, Rests, Texts
    <2> QED
      BY <1>1, <2>1, SegmentRest
  <1>3. Word(r.method) = Word(s.method) /\ KeyTail(r, a) = KeyTail(s, b)
    <2> DEFINE v == Word(r.method)
               w == Word(s.method)
               x == KeyTail(r, a)
               y == KeyTail(s, b)
    <2>1. /\ v \in Plain /\ w \in Plain /\ x \in Rests /\ y \in Rests
          /\ Followed(v, x) = Followed(w, y)
      BY <1>2, KeyParts DEF Followed
    <2> HIDE DEF v, w, x, y
    <2>2. v = w /\ x = y
      BY <2>1, SplitAtSeparator
    <2> QED
      BY <2>2 DEF v, w, x, y
  <1>4. r.method = s.method
    BY <1>3, ReadsAre, MethodsAssumption, WordsAssumption
  <1> DEFINE S(q, sig) == IF q.scope = <<>> THEN <<>> ELSE Segment(sig)
  <1>5. /\ a \in Texts /\ b \in Texts /\ <<>> \in Texts
        /\ r.method \in ByArg => r.arg \in Texts /\ r.arg # NoArg
        /\ s.method \in ByArg => s.arg \in Texts /\ s.arg # NoArg
    BY ReadsAre, MethodsAssumption, TextsAssumption DEF NoArg, Texts
  <1>6. S(r, a) \in Rests /\ S(s, b) \in Rests
    <2>1. <<>> \in Rests
      BY DEF Rests, Texts
    <2> QED
      BY <1>5, <2>1, SegmentRest
  <1>7. \/ r.arg = s.arg /\ S(r, a) = S(s, b)
        \/ Continues(r.arg, s.arg) \/ Continues(s.arg, r.arg)
    <2>1. CASE r.method \in ByArg
      <3>1. r.arg \in Texts /\ s.arg \in Texts /\ r.arg # NoArg /\ s.arg # NoArg
        BY <1>4, <1>5, <2>1
      <3>2. KeyTail(r, a) = Segment(r.arg) \o S(r, a) /\ KeyTail(s, b) = Segment(s.arg) \o S(s, b)
        BY <3>1 DEF KeyTail
      <3> HIDE DEF S
      <3>3. /\ Segment(r.arg) \o S(r, a) = Segment(r.arg \o S(r, a))
            /\ Segment(s.arg) \o S(s, b) = Segment(s.arg \o S(s, b))
            /\ r.arg \o S(r, a) \in Texts /\ s.arg \o S(s, b) \in Texts
        <4>1. S(r, a) \in Texts /\ S(s, b) \in Texts
          BY <1>6 DEF Rests
        <4> QED
          BY <3>1, <4>1, SegmentJoins
      <3>4. r.arg \o S(r, a) = s.arg \o S(s, b)
        BY <1>3, <3>2, <3>3, SegmentRest
      <3>5. Followed(r.arg, S(r, a)) = Followed(s.arg, S(s, b))
        BY <3>4 DEF Followed
      <3> QED
        BY <1>6, <3>1, <3>5, SplitOrContinues
    <2>2. CASE r.method \notin ByArg
      <3>1. r.arg = NoArg /\ s.arg = NoArg
        BY <1>4, <2>2, ReadsAre
      <3>2. KeyTail(r, a) = <<>> \o S(r, a) /\ KeyTail(s, b) = <<>> \o S(s, b)
        BY <3>1 DEF KeyTail
      <3> HIDE DEF S
      <3>3. S(r, a) \in Seq(Tokens) /\ S(s, b) \in Seq(Tokens)
        BY <1>6 DEF Rests, Texts
      <3>4. <<>> \o S(r, a) = S(r, a) /\ <<>> \o S(s, b) = S(s, b)
        BY <3>3
      <3> QED
        BY <1>3, <3>1, <3>2, <3>4
    <2> QED
      BY <2>1, <2>2
  <1>8. S(r, a) = S(s, b) => Signatures(r.scope) \cap Signatures(s.scope) # {}
    <2>1. Segment(a) # <<>> /\ Segment(b) # <<>> /\ (Segment(a) = Segment(b) => a = b)
      BY <1>5, SegmentRest
    <2>2. S(r, a) = S(s, b) => r.scope = s.scope \/ a = b
      BY <2>1
    <2> QED
      BY <2>2
  <1> QED
    BY <1>1, <1>4, <1>7, <1>8 DEF Lookalikes
-----------------------------------------------------------------------------
(* Tags of the decorator, word by word.                                    *)
LEMMA FollowedRest ==
  ASSUME NEW w \in Plain, NEW x \in Rests
  PROVE  Followed(w, x) \in Texts /\ Segment(Followed(w, x)) \in Rests
  <1>1. w \o x \in Texts
    BY DEF Plain, Rests, Texts
  <1> QED
    BY <1>1, SegmentRest DEF Followed

LEMMA NothingRest == <<>> \in Rests
  BY DEF Rests, Texts

LEMMA TagParts ==
  ASSUME NEW t \in Types, NEW l \in Labels, NEW v \in Texts
  PROVE  /\ Namespace(t) \in Plain /\ Word(l) \in Plain /\ Segment(v) \in Rests
         /\ TagLabel(t, l) = Followed(Namespace(t), Segment(Followed(Word(l), <<>>)))
         /\ TagValue(t, l, v) = Followed(Namespace(t), Segment(Followed(Word(l), Segment(v))))
         /\ TagLabel(t, l) \in Texts /\ TagValue(t, l, v) \in Texts
  <1>1. Namespace(t) \in Plain /\ Word(l) \in Plain /\ Segment(v) \in Rests
    BY TextsAssumption, WordsPlain, SegmentRest
  <1>2. Namespace(t) \in Texts /\ Word(l) \in Texts /\ Segment(v) \in Texts /\ Segment(Word(l)) \in Texts
    <2>1. Namespace(t) \in Texts /\ Word(l) \in Texts
      BY <1>1 DEF Plain
    <2> QED
      BY <1>1, <2>1, SegmentRest DEF Rests
  <1>3. TagLabel(t, l) = Followed(Namespace(t), Segment(Followed(Word(l), <<>>)))
    <2>1. Word(l) \o <<>> = Word(l)
      BY <1>2 DEF Texts
    <2> QED
      BY <2>1 DEF TagLabel, Followed
  <1>4. TagValue(t, l, v) = Followed(Namespace(t), Segment(Followed(Word(l), Segment(v))))
    <2>1. (Namespace(t) \o Segment(Word(l))) \o Segment(v) = Namespace(t) \o (Segment(Word(l)) \o Segment(v))
      BY <1>2 DEF Texts
    <2>2. Segment(Word(l)) \o Segment(v) = Segment(Word(l) \o Segment(v))
      BY <1>2, SegmentJoins
    <2> QED
      BY <2>1, <2>2 DEF TagValue, TagLabel, Followed
  <1>5. TagLabel(t, l) \in Texts /\ TagValue(t, l, v) \in Texts
    BY <1>1, <1>3, <1>4, FollowedRest, NothingRest
  <1> QED
    BY <1>1, <1>3, <1>4, <1>5

LEMMA TagsTell ==
  ASSUME NEW t \in Types, NEW l \in Labels, NEW v \in Texts,
         NEW u \in Types, NEW k \in Labels, NEW w \in Texts
  PROVE  /\ TagValue(t, l, v) = TagValue(u, k, w) <=>
              Namespace(t) = Namespace(u) /\ l = k /\ v = w
         /\ TagLabel(t, l) = TagLabel(u, l) <=> Namespace(t) = Namespace(u)
         /\ TagValue(t, l, v) # TagLabel(u, k)
  <1>1. /\ Namespace(t) \in Plain /\ Word(l) \in Plain /\ Segment(v) \in Rests
        /\ Namespace(u) \in Plain /\ Word(k) \in Plain /\ Segment(w) \in Rests
    BY TagParts
  <1>2. ASSUME NEW x \in Rests, NEW y \in Rests,
               Followed(Namespace(t), Segment(Followed(Word(l), x))) =
                 Followed(Namespace(u), Segment(Followed(Word(k), y)))
        PROVE  Namespace(t) = Namespace(u) /\ l = k /\ x = y
    <2>1. /\ Segment(Followed(Word(l), x)) \in Rests /\ Followed(Word(l), x) \in Texts
          /\ Segment(Followed(Word(k), y)) \in Rests /\ Followed(Word(k), y) \in Texts
      BY <1>1, FollowedRest
    <2>2. /\ Namespace(t) = Namespace(u)
          /\ Segment(Followed(Word(l), x)) = Segment(Followed(Word(k), y))
      BY <1>1, <1>2, <2>1, SplitAtSeparator
    <2>3. Followed(Word(l), x) = Followed(Word(k), y)
      BY <2>1, <2>2, SegmentRest
    <2>4. Word(l) = Word(k) /\ x = y
      BY <1>1, <2>3, SplitAtSeparator
    <2> QED
      BY <2>2, <2>4, WordsAssumption
  <1>3. Segment(v) # <<>> /\ (Segment(v) = Segment(w) => v = w)
    BY SegmentRest
  <1>4. TagValue(t, l, v) = TagValue(u, k, w) =>
          Namespace(t) = Namespace(u) /\ l = k /\ v = w
    BY <1>1, <1>2, <1>3, TagParts
  <1>5. TagLabel(t, l) = TagLabel(u, l) <=> Namespace(t) = Namespace(u)
    <2>1. TagLabel(t, l) = TagLabel(u, l) => Namespace(t) = Namespace(u)
      <3> DEFINE a == Segment(Followed(Word(l), <<>>))
      <3>1. a \in Rests
        BY <1>1, FollowedRest, NothingRest
      <3>2. TagLabel(t, l) = Followed(Namespace(t), a) /\ TagLabel(u, l) = Followed(Namespace(u), a)
        BY TagParts
      <3>3. Namespace(t) \in Plain /\ Namespace(u) \in Plain
        BY <1>1
      <3> HIDE DEF a
      <3>4. Followed(Namespace(t), a) = Followed(Namespace(u), a) => Namespace(t) = Namespace(u)
        BY <3>1, <3>3, SplitAtSeparator
      <3> QED
        BY <3>2, <3>4
    <2> QED
      BY <2>1 DEF TagLabel
  <1>6. TagValue(t, l, v) # TagLabel(u, k)
    BY <1>1, <1>2, <1>3, TagParts, NothingRest
  <1>7. Namespace(t) = Namespace(u) /\ l = k /\ v = w => TagValue(t, l, v) = TagValue(u, k, w)
    BY DEF TagValue, TagLabel
  <1> QED
    BY <1>4, <1>5, <1>6, <1>7

LEMMA TagValuesTexts == TagValues \subseteq Texts
  BY TextsAssumption DEF TagValues

(* A tag of the decorator has a label after its type's name.               *)
LEMMA DecoratorTagsLabelled ==
  ASSUME NEW tag \in DecoratorTags
  PROVE  \E t \in Types, l \in Labels, x \in Rests :
           tag = Followed(Namespace(t), Segment(Followed(Word(l), x)))
  <1>1. CASE \E t \in Types : tag = ListTag(t)
    <2>1. PICK t \in Types : tag = TagLabel(t, "list")
      BY <1>1 DEF ListTag
    <2>2. "list" \in Labels /\ <<>> \in Texts
      BY DEF Labels, Texts
    <2> QED
      BY <2>1, <2>2, TagParts, NothingRest
  <1>2. CASE \E t \in Types, l \in {"scope", "id", "identifier"}, v \in TagValues : tag = TagValue(t, l, v)
    <2>1. PICK t \in Types, l \in Labels, v \in Texts : tag = TagValue(t, l, v)
      BY <1>2, TagValuesTexts DEF Labels
    <2> QED
      BY <2>1, TagParts
  <1> QED
    BY <1>1, <1>2 DEF DecoratorTags

-----------------------------------------------------------------------------
(* dedupeStrings leaves out empty texts and what it has already.           *)
LEMMA DedupeAll ==
  ASSUME NEW S, NEW values \in Seq(S)
  PROVE  /\ DedupeStrings(values) \in Seq(S)
         /\ Range(DedupeStrings(values)) = Range(values) \ {<<>>}
  <1> DEFINE Keep(kept, v) == IF v = <<>> \/ Contains(kept, v) THEN kept ELSE Append(kept, v)
             step     == [kept \in Seq(S) |-> [v \in S |-> Keep(kept, v)]]
             elements == [v \in S |-> {v} \ {<<>>}]
             Fold(f)  == f = [s \in SUBSET DOMAIN values |->
                                IF s = {} THEN <<>> ELSE Keep(f[s \ {Max(s)}], values[Max(s)])]
             g        == CHOOSE f : Fold(f)
  <1>1. ASSUME NEW kept \in Seq(S), NEW v \in S
        PROVE  Keep(kept, v) \in Seq(S) /\ Range(Keep(kept, v)) = Range(kept) \cup ({v} \ {<<>>})
    <2>1. kept \in Seq(S) /\ DOMAIN kept = 1..Len(kept) /\ Len(kept) \in Nat
      OBVIOUS
    <2>2. CASE v = <<>>
      BY <2>2
    <2>3. CASE v # <<>> /\ Contains(kept, v)
      <3>1. v \in Range(kept)
        BY <2>1, <2>3 DEF Contains, Range
      <3> QED
        BY <2>3, <3>1
    <2>4. CASE v # <<>> /\ ~Contains(kept, v)
      <3>1. /\ Append(kept, v) \in Seq(S) /\ DOMAIN Append(kept, v) = 1..(Len(kept) + 1)
            /\ Append(kept, v)[Len(kept) + 1] = v
            /\ \A i \in 1..Len(kept) : Append(kept, v)[i] = kept[i]
        BY <2>1
      <3>2. Range(Append(kept, v)) = Range(kept) \cup {v}
        BY <2>1, <3>1 DEF Range
      <3> QED
        BY <2>4, <3>1, <3>2
    <2> QED
      BY <2>2, <2>3, <2>4
  <1>2. step \in [Seq(S) -> [S -> Seq(S)]] /\ <<>> \in Seq(S)
    BY <1>1
  <1>3. ASSUME NEW s \in SUBSET DOMAIN values, s # {} PROVE values[Max(s)] \in S
    <2>1. s \in SUBSET (1..Len(values)) /\ Len(values) \in Nat
      OBVIOUS
    <2>2. Max(s) \in 1..Len(values)
      BY <1>3, <2>1, LastPosition
    <2> QED
      BY <2>2
  <1> HIDE DEF Keep
  <1>4. \E f : Fold(f)
    <2>1. PICK f \in [SUBSET DOMAIN values -> Seq(S)] : IsFold(f, step, <<>>, values)
      BY <1>2, FoldExists
    <2>2. ASSUME NEW s \in SUBSET DOMAIN values, s # {}
          PROVE  step[f[s \ {Max(s)}]][values[Max(s)]] = Keep(f[s \ {Max(s)}], values[Max(s)])
      BY <1>3, <2>2
    <2> QED
      BY <2>1, <2>2, ZenonT(30) DEF IsFold
  <1>5. Fold(g)
    BY <1>4
  <1>6. DedupeStrings(values) = g[DOMAIN values]
    BY DEF DedupeStrings, FoldLeft, MapThenFoldSet, Keep
  <1>7. PICK h \in [0..Len(values) -> Seq(S)] :
          /\ h[0] = <<>> /\ h[Len(values)] = g[DOMAIN values]
          /\ \A n \in 1..Len(values) : h[n] = step[h[n - 1]][values[n]]
    <2>1. g[{}] = <<>>
      BY <1>5
    <2>2. ASSUME NEW s \in SUBSET DOMAIN values, s # {}, g[s \ {Max(s)}] \in Seq(S)
          PROVE  g[s] = step[g[s \ {Max(s)}]][values[Max(s)]]
      <3>1. g[s] = Keep(g[s \ {Max(s)}], values[Max(s)])
        BY <1>5, <2>2
      <3> HIDE DEF g
      <3> QED
        BY <1>3, <2>2, <3>1
    <2> HIDE DEF g, step
    <2>3. Folding(g, Seq(S), S, step, <<>>, values)
      BY <1>2, <2>1, <2>2 DEF Folding
    <2> QED
      BY <2>3, FoldUnfolds
  <1>8. CollectingFold(h, Seq(S), S, step, <<>>, values, elements)
    <2>1. \A v \in Seq(S), d \in S : Range(step[v][d]) = Range(v) \cup elements[d]
      BY <1>1
    <2> HIDE DEF step, elements
    <2> QED
      BY <1>2, <1>7, <2>1 DEF CollectingFold
  <1>9. /\ h[Len(values)] \in Seq(S)
        /\ \A x : x \in Range(h[Len(values)]) <=>
                    x \in Range(<<>>) \/ \E i \in DOMAIN values : x \in elements[values[i]]
    <2> HIDE DEF step, elements
    <2> QED
      BY <1>8, FoldCollects
  <1>10. \A x : x \in Range(values) \ {<<>>} <=> \E i \in DOMAIN values : x \in elements[values[i]]
    <2>1. \A i \in DOMAIN values : elements[values[i]] = {values[i]} \ {<<>>}
      OBVIOUS
    <2> HIDE DEF elements
    <2> QED
      BY <2>1 DEF Range
  <1>11. Range(<<>>) = {}
    BY DEF Range
  <1> HIDE DEF g, elements
  <1> QED
    BY <1>6, <1>7, <1>9, <1>10, <1>11

(* A tag of a context is a text, not empty, that the application gave.     *)
LEMMA ContextsAre ==
  ASSUME NEW context \in Contexts
  PROVE  /\ context \in Seq(OwnTags) /\ Range(context) \subseteq OwnTags
         /\ Range(context) \subseteq Texts \ {<<>>}
  <1> DEFINE S == Texts
  <1>1. PICK ts \in TagLists, us \in TagLists : context = WithCacheTags(WithCacheTags(<<>>, ts), us)
    BY DEF Contexts
  <1>2. ts \in Seq(S) /\ us \in Seq(S) /\ <<>> \in Seq(S) /\ Range(<<>>) = {}
    BY TextsAssumption DEF Range, Texts
  <1>3. ASSUME NEW e \in Seq(S), NEW a \in Seq(S), \A x \in Range(e) : x # <<>>
        PROVE  /\ WithCacheTags(e, a) \in Seq(S)
               /\ Range(WithCacheTags(e, a)) \subseteq (Range(e) \cup Range(a)) \ {<<>>}
    <2> HIDE DEF S
    <2>1. CASE a = <<>>
      BY <1>3, <2>1 DEF WithCacheTags
    <2>2. CASE a # <<>>
      <3>1. e \o a \in Seq(S) /\ Range(e \o a) = Range(e) \cup Range(a)
        BY RangeConcat
      <3>2. DedupeStrings(e \o a) \in Seq(S) /\ Range(DedupeStrings(e \o a)) = Range(e \o a) \ {<<>>}
        BY <3>1, DedupeAll
      <3> QED
        BY <2>2, <3>1, <3>2 DEF WithCacheTags
    <2> QED
      BY <2>1, <2>2
  <1>4. /\ WithCacheTags(<<>>, ts) \in Seq(S)
        /\ Range(WithCacheTags(<<>>, ts)) \subseteq Range(ts) \ {<<>>}
    <2> HIDE DEF S
    <2> QED
      BY <1>2, <1>3
  <1>5. context \in Seq(S) /\ Range(context) \subseteq (Range(ts) \cup Range(us)) \ {<<>>}
    <2>1. \A x \in Range(WithCacheTags(<<>>, ts)) : x # <<>>
      BY <1>4
    <2> HIDE DEF S
    <2> QED
      BY <1>1, <1>2, <1>3, <1>4, <2>1
  <1>6. Range(ts) \subseteq S /\ Range(us) \subseteq S
    BY <1>2 DEF Range
  <1>7. Range(context) \subseteq OwnTags
    BY DEF OwnTags
  <1>8. context \in Seq(OwnTags)
    <2>1. \A i \in 1..Len(context) : context[i] \in OwnTags
      BY <1>5, <1>7 DEF Range
    <2> HIDE DEF S
    <2> QED
      BY <1>5, <2>1
  <1> QED
    BY <1>5, <1>6, <1>7, <1>8

LEMMA OwnTagsAre ==
  ASSUME NEW tag \in OwnTags
  PROVE  tag \in Texts \ {<<>>}
  BY ContextsAre DEF OwnTags
-----------------------------------------------------------------------------
(* Registries and results in one key space.                                *)
LEMMA TagsTexts == AllTags \subseteq Texts
  <1>1. ASSUME NEW tag \in OwnTags PROVE tag \in Texts
    BY OwnTagsAre
  <1>2. ASSUME NEW tag \in DecoratorTags PROVE tag \in Texts
    <2>1. PICK t \in Types, l \in Labels, x \in Rests :
            tag = Followed(Namespace(t), Segment(Followed(Word(l), x)))
      BY DecoratorTagsLabelled
    <2>2. Namespace(t) \in Plain /\ Word(l) \in Plain
      BY TextsAssumption, WordsPlain
    <2> QED
      BY <2>1, <2>2, FollowedRest
  <1> QED
    BY <1>1, <1>2 DEF AllTags

LEMMA RegistryKeysTell ==
  ASSUME NEW a \in Texts, NEW b \in Texts
  PROVE  TagRegistryKey(a) = TagRegistryKey(b) <=> a = b
  <1>1. /\ TagRegistryKey(a) = Followed(TagWord, Segment(a))
        /\ TagRegistryKey(b) = Followed(TagWord, Segment(b))
    BY DEF TagRegistryKey, Followed
  <1>2. Segment(a) \in Rests /\ Segment(b) \in Rests /\ (Segment(a) = Segment(b) => a = b)
    BY SegmentRest
  <1>3. Segment(a) = Segment(b) <=> TagRegistryKey(a) = TagRegistryKey(b)
    BY <1>1, <1>2, WordsPlain, SplitAtSeparator
  <1> QED
    BY <1>2, <1>3

(* Results and registries share a space of keys and meet in it only where  *)
(* a type called Tag meets a tag that begins with a method's word.         *)
THEOREM RegistriesApart ==
  ASSUME NEW r \in Reads, NEW signature \in Signatures(r.scope), NEW tag \in AllTags,
         KeyText(r, signature) = TagRegistryKey(tag)
  PROVE  TakenForTag(r)
  <1> DEFINE ns  == Namespace(r.type)
             m   == Word(r.method)
             end == KeyTail(r, signature)
  <1>1. /\ ns \in Plain /\ m \in Plain /\ end \in Rests
        /\ KeyText(r, signature) = Followed(ns, Segment(Followed(m, end)))
        /\ Segment(Followed(m, end)) \in Rests /\ Followed(m, end) \in Texts
    BY KeyParts, FollowedRest DEF Followed
  <1>2. /\ tag \in Texts /\ Segment(tag) \in Rests
        /\ TagRegistryKey(tag) = Followed(TagWord, Segment(tag)) /\ TagWord \in Plain
    BY TagsTexts, SegmentRest, WordsPlain DEF TagRegistryKey, Followed
  <1> HIDE DEF ns, m, end
  <1>3. ns = TagWord /\ Segment(Followed(m, end)) = Segment(tag)
    <2> DEFINE x == Segment(Followed(m, end))
               y == Segment(tag)
    <2>1. x \in Rests /\ y \in Rests /\ Followed(ns, x) = Followed(TagWord, y)
      BY <1>1, <1>2
    <2> HIDE DEF x, y
    <2>2. ns = TagWord /\ x = y
      BY <1>1, <1>2, <2>1, SplitAtSeparator
    <2> QED
      BY <2>2 DEF x, y
  <1>4. tag = Followed(m, end)
    BY <1>1, <1>2, <1>3, SegmentRest
  <1>5. tag = m \/ Continues(m, tag)
    <2>1. m \in Texts /\ end \in Texts
      BY <1>1 DEF Plain, Rests
    <2>2. CASE end = <<>>
      BY <1>4, <2>1, <2>2, FollowedJoins
    <2>3. CASE end # <<>>
      <3>1. IsPrefix(Segment(<<>>), end)
        BY <1>1, <2>3, SeparatorPrefix
      <3>2. <<>> \in Texts /\ Segment(<<>>) \in Rests \ {<<>>}
        <4>1. <<>> \in Texts
          BY DEF Texts
        <4> QED
          BY <4>1, SegmentRest
      <3>3. IsPrefix(Followed(m, Segment(<<>>)), Followed(m, end))
        BY <1>1, <3>1, <3>2, PrefixOfWord
      <3>4. Segment(<<>>) = <<Separator>>
        <4>1. Separator \in Tokens
          BY DEF Tokens
        <4> QED
          BY <4>1 DEF Segment
      <3> QED
        BY <1>4, <3>3, <3>4 DEF Continues, Followed
    <2> QED
      BY <2>2, <2>3
  <1> QED
    BY <1>3, <1>5 DEF TakenForTag, ns, m
-----------------------------------------------------------------------------
(* What the service's operations do to its content.                        *)
Space  == Texts \cup AllKeyTexts
Caches == UNION {[D -> Contents] : D \in SUBSET Space}

LEMMA CachesAre ==
  ASSUME NEW c
  PROVE  c \in Caches <=> /\ c \in [DOMAIN c -> Contents] /\ DOMAIN c \subseteq Space
  <1>1. ASSUME NEW D \in SUBSET Space, c \in [D -> Contents]
        PROVE  c \in [DOMAIN c -> Contents] /\ DOMAIN c \subseteq Space
    BY <1>1
  <1>2. ASSUME c \in [DOMAIN c -> Contents], DOMAIN c \subseteq Space
        PROVE  c \in Caches
    BY <1>2 DEF Caches
  <1> QED
    BY <1>1, <1>2 DEF Caches

LEMMA RegistryKeysIn ==
  ASSUME NEW tag \in AllTags PROVE TagRegistryKey(tag) \in Space
  <1>1. tag \in Texts /\ TagWord \in Texts /\ Segment(tag) \in Texts
    <2>1. tag \in Texts /\ TagWord \in Texts
      BY TagsTexts, WordsPlain DEF Plain
    <2> QED
      BY <2>1, SegmentRest DEF Rests
  <1> QED
    BY <1>1, SegmentJoins DEF TagRegistryKey, Space

LEMMA LoadTyped ==
  ASSUME NEW c \in Caches, NEW tag
  PROVE  LoadTagRegistry(c, tag) \subseteq AllKeyTexts
  BY CachesAre DEF LoadTagRegistry, Contents

LEMMA WithHas ==
  ASSUME NEW c \in Caches, NEW text \in Space, NEW content \in Contents
  PROVE  /\ With(c, text, content) \in Caches
         /\ DOMAIN With(c, text, content) = DOMAIN c \cup {text}
         /\ With(c, text, content)[text] = content
         /\ \A t \in DOMAIN c \ {text} : With(c, text, content)[t] = c[t]
  BY CachesAre DEF With

LEMMA WithoutHas ==
  ASSUME NEW c \in Caches, NEW texts
  PROVE  /\ Without(c, texts) \in Caches
         /\ DOMAIN Without(c, texts) = DOMAIN c \ texts
         /\ \A t \in DOMAIN c \ texts : Without(c, texts)[t] = c[t]
  BY CachesAre DEF Without, Restrict

(* AddTags: the key is listed under each of the tags, and nothing else     *)
(* changes.                                                                *)
LEMMA AddTagsAdds ==
  ASSUME NEW c \in Caches, NEW key \in AllKeyTexts, NEW tags \in Seq(AllTags)
  PROVE  LET d == AddTags(c, key, tags)
         IN /\ d \in Caches
            /\ DOMAIN d = DOMAIN c \cup {TagRegistryKey(tag) : tag \in Range(tags)}
            /\ \A tag \in Range(tags) :
                 d[TagRegistryKey(tag)] = Registry(LoadTagRegistry(c, tag) \cup {key})
            /\ \A text \in DOMAIN c :
                 (\A tag \in Range(tags) : text # TagRegistryKey(tag)) => d[text] = c[text]
  <1> DEFINE Put(d, tag) == With(d, TagRegistryKey(tag), Registry(LoadTagRegistry(d, tag) \cup {key}))
             step    == [d \in Caches |-> [tag \in AllTags |-> Put(d, tag)]]
             Fold(f) == f = [s \in SUBSET DOMAIN tags |->
                               IF s = {} THEN c ELSE Put(f[s \ {Max(s)}], tags[Max(s)])]
             g       == CHOOSE f : Fold(f)
             Done(d, n) ==
               /\ DOMAIN d = DOMAIN c \cup {TagRegistryKey(tags[i]) : i \in 1..n}
               /\ \A i \in 1..n :
                    d[TagRegistryKey(tags[i])] = Registry(LoadTagRegistry(c, tags[i]) \cup {key})
               /\ \A text \in DOMAIN c :
                    (\A i \in 1..n : text # TagRegistryKey(tags[i])) => d[text] = c[text]
  <1>1. ASSUME NEW d \in Caches, NEW tag \in AllTags
        PROVE  /\ Put(d, tag) \in Caches
               /\ DOMAIN Put(d, tag) = DOMAIN d \cup {TagRegistryKey(tag)}
               /\ Put(d, tag)[TagRegistryKey(tag)] = Registry(LoadTagRegistry(d, tag) \cup {key})
               /\ \A text \in DOMAIN d \ {TagRegistryKey(tag)} : Put(d, tag)[text] = d[text]
    <2>1. Registry(LoadTagRegistry(d, tag) \cup {key}) \in Contents
      BY LoadTyped DEF Registry, Contents
    <2> QED
      BY <2>1, RegistryKeysIn, WithHas
  <1>2. step \in [Caches -> [AllTags -> Caches]]
    BY <1>1
  <1>3. ASSUME NEW s \in SUBSET DOMAIN tags, s # {} PROVE tags[Max(s)] \in AllTags
    <2>1. s \in SUBSET (1..Len(tags)) /\ Len(tags) \in Nat
      OBVIOUS
    <2>2. Max(s) \in 1..Len(tags)
      BY <1>3, <2>1, LastPosition
    <2> QED
      BY <2>2
  <1> HIDE DEF Put
  <1>4. \E f : Fold(f)
    <2>1. PICK f \in [SUBSET DOMAIN tags -> Caches] : IsFold(f, step, c, tags)
      BY <1>2, FoldExists
    <2>2. ASSUME NEW s \in SUBSET DOMAIN tags, s # {}
          PROVE  step[f[s \ {Max(s)}]][tags[Max(s)]] = Put(f[s \ {Max(s)}], tags[Max(s)])
      BY <1>3, <2>2
    <2> QED
      BY <2>1, <2>2, ZenonT(30) DEF IsFold
  <1>5. Fold(g)
    BY <1>4
  <1>6. AddTags(c, key, tags) = g[DOMAIN tags]
    BY DEF AddTags, FoldLeft, MapThenFoldSet, Put
  <1>7. PICK h \in [0..Len(tags) -> Caches] :
          /\ h[0] = c /\ h[Len(tags)] = g[DOMAIN tags]
          /\ \A n \in 1..Len(tags) : h[n] = step[h[n - 1]][tags[n]]
    <2>1. g[{}] = c
      BY <1>5
    <2>2. ASSUME NEW s \in SUBSET DOMAIN tags, s # {}, g[s \ {Max(s)}] \in Caches
          PROVE  g[s] = step[g[s \ {Max(s)}]][tags[Max(s)]]
      <3>1. g[s] = Put(g[s \ {Max(s)}], tags[Max(s)])
        BY <1>5, <2>2
      <3> HIDE DEF g
      <3> QED
        BY <1>3, <2>2, <3>1
    <2> HIDE DEF g, step
    <2>3. Folding(g, Caches, AllTags, step, c, tags)
      BY <1>2, <2>1, <2>2 DEF Folding
    <2> QED
      BY <2>3, FoldUnfolds
  <1> HIDE DEF g
  <1>8. Done(h[0], 0)
    <2>1. 1..0 = {}
      OBVIOUS
    <2> QED
      BY <1>7, <2>1
  <1>9. ASSUME NEW n \in 1..Len(tags), Done(h[n - 1], n - 1) PROVE Done(h[n], n)
    <2>1. Len(tags) \in Nat /\ n - 1 \in 0..Len(tags) /\ n \in 0..Len(tags) /\ tags[n] \in AllTags
      OBVIOUS
    <2>2. PICK d \in Caches : d = h[n - 1]
      BY <1>7, <2>1
    <2>3. h[n] = Put(d, tags[n])
      BY <1>7, <2>1, <2>2
    <2>4. \A i : i \in 1..n <=> i \in 1..(n - 1) \/ i = n
      BY <2>1
    <2>5. \A i \in 1..n : tags[i] \in AllTags /\ tags[i] \in Texts
      BY <2>1, TagsTexts
    <2>6. LoadTagRegistry(d, tags[n]) \cup {key} = LoadTagRegistry(c, tags[n]) \cup {key}
      <3>1. CASE \E i \in 1..(n - 1) : TagRegistryKey(tags[n]) = TagRegistryKey(tags[i])
        <4>1. PICK i \in 1..(n - 1) : TagRegistryKey(tags[n]) = TagRegistryKey(tags[i])
          BY <3>1
        <4>2. tags[n] = tags[i]
          BY <2>1, <2>4, <2>5, <4>1, RegistryKeysTell
        <4>3. /\ TagRegistryKey(tags[i]) \in DOMAIN d
              /\ d[TagRegistryKey(tags[i])] = Registry(LoadTagRegistry(c, tags[i]) \cup {key})
          BY <1>9, <2>2, <4>1
        <4>4. LoadTagRegistry(d, tags[i]) = LoadTagRegistry(c, tags[i]) \cup {key}
          <5>1. LoadTagRegistry(d, tags[i]) = d[TagRegistryKey(tags[i])].keys
            BY <4>3 DEF LoadTagRegistry
          <5> QED
            BY <4>3, <5>1 DEF Registry
        <4> QED
          BY <4>2, <4>4
      <3>2. CASE \A i \in 1..(n - 1) : TagRegistryKey(tags[n]) # TagRegistryKey(tags[i])
        <4>1. TagRegistryKey(tags[n]) \in DOMAIN d <=> TagRegistryKey(tags[n]) \in DOMAIN c
          BY <1>9, <2>2, <3>2
        <4>2. TagRegistryKey(tags[n]) \in DOMAIN c =>
                d[TagRegistryKey(tags[n])] = c[TagRegistryKey(tags[n])]
          BY <1>9, <2>2, <3>2
        <4> QED
          BY <4>1, <4>2 DEF LoadTagRegistry
      <3> QED
        BY <3>1, <3>2
    <2>7. /\ DOMAIN h[n] = DOMAIN d \cup {TagRegistryKey(tags[n])}
          /\ h[n][TagRegistryKey(tags[n])] = Registry(LoadTagRegistry(c, tags[n]) \cup {key})
          /\ \A text \in DOMAIN d \ {TagRegistryKey(tags[n])} : h[n][text] = d[text]
      BY <1>1, <2>1, <2>3, <2>6
    <2>8. DOMAIN h[n] = DOMAIN c \cup {TagRegistryKey(tags[i]) : i \in 1..n}
      BY <1>9, <2>2, <2>4, <2>7
    <2>9. ASSUME NEW i \in 1..n
          PROVE  h[n][TagRegistryKey(tags[i])] = Registry(LoadTagRegistry(c, tags[i]) \cup {key})
      <3>1. CASE TagRegistryKey(tags[i]) = TagRegistryKey(tags[n])
        <4>1. tags[i] = tags[n]
          BY <2>1, <2>5, <3>1, RegistryKeysTell
        <4> QED
          BY <2>7, <4>1
      <3>2. CASE TagRegistryKey(tags[i]) # TagRegistryKey(tags[n])
        <4>1. i \in 1..(n - 1)
          BY <2>4, <3>2
        <4> QED
          BY <1>9, <2>2, <2>7, <3>2, <4>1
      <3> QED
        BY <3>1, <3>2
    <2>10. ASSUME NEW text \in DOMAIN c, \A i \in 1..n : text # TagRegistryKey(tags[i])
           PROVE  h[n][text] = c[text]
      <3>1. d[text] = c[text] /\ text \in DOMAIN d /\ text # TagRegistryKey(tags[n])
        BY <1>9, <2>2, <2>4, <2>10
      <3> QED
        BY <2>7, <3>1
    <2> QED
      BY <2>8, <2>9, <2>10
  <1>10. Done(h[Len(tags)], Len(tags))
    <2> DEFINE T == {n \in 0..Len(tags) : Done(h[n], n)}
    <2> HIDE DEF Done
    <2>1. 0 \in T /\ Len(tags) \in Nat
      BY <1>8
    <2>2. ASSUME NEW n \in 1..Len(tags), n - 1 \in T PROVE n \in T
      BY <1>9, <2>2
    <2> HIDE DEF T
    <2>3. T \in SUBSET (0..Len(tags))
      BY DEF T
    <2>4. Len(tags) \in T
      BY <2>1, <2>2, <2>3, StepsKeep
    <2> QED
      BY <2>4 DEF T
  <1>11. h[Len(tags)] \in Caches /\ AddTags(c, key, tags) = h[Len(tags)]
    BY <1>6, <1>7
  <1>12. \A tag : tag \in Range(tags) <=> \E i \in 1..Len(tags) : tag = tags[i]
    BY DEF Range
  <1> QED
    BY <1>10, <1>11, <1>12

(* InvalidateTags: only what the tags' registries list is removed, and the *)
(* registries themselves; all of it for a tag whose registry is kept apart *)
(* from results, so that none of the other tags has removed it before.     *)
Gone(c, tag) == LoadTagRegistry(c, tag) \cup {TagRegistryKey(tag)}

LEMMA InvalidateTagsRemoves ==
  ASSUME NEW c \in Caches, NEW tags \in Seq(AllTags)
  PROVE  LET d == InvalidateTags(c, tags)
         IN /\ d \in Caches /\ DOMAIN d \subseteq DOMAIN c
            /\ \A text \in DOMAIN c : (\A tag \in Range(tags) : text \notin Gone(c, tag)) => text \in DOMAIN d
            /\ \A text \in DOMAIN d : d[text] = c[text]
            /\ \A tag \in Range(tags) :
                 /\ TagRegistryKey(tag) \notin DOMAIN d
                 /\ KeptApart(tag) => LoadTagRegistry(c, tag) \cap DOMAIN d = {}
  <1> DEFINE Drop(d, tag) == Without(d, LoadTagRegistry(d, tag) \cup {TagRegistryKey(tag)})
             step    == [d \in Caches |-> [tag \in AllTags |-> Drop(d, tag)]]
             Fold(f) == f = [s \in SUBSET DOMAIN tags |->
                               IF s = {} THEN c ELSE Drop(f[s \ {Max(s)}], tags[Max(s)])]
             g       == CHOOSE f : Fold(f)
             Done(d, n) ==
               /\ DOMAIN d \subseteq DOMAIN c
               /\ \A text \in DOMAIN c : (\A i \in 1..n : text \notin Gone(c, tags[i])) => text \in DOMAIN d
               /\ \A text \in DOMAIN d : d[text] = c[text]
               /\ \A i \in 1..n :
                    /\ TagRegistryKey(tags[i]) \notin DOMAIN d
                    /\ KeptApart(tags[i]) => LoadTagRegistry(c, tags[i]) \cap DOMAIN d = {}
  <1>1. ASSUME NEW d \in Caches, NEW tag \in AllTags
        PROVE  /\ Drop(d, tag) \in Caches
               /\ DOMAIN Drop(d, tag) = DOMAIN d \ Gone(d, tag)
               /\ \A text \in DOMAIN d \ Gone(d, tag) : Drop(d, tag)[text] = d[text]
    BY WithoutHas DEF Gone
  <1>2. step \in [Caches -> [AllTags -> Caches]]
    BY <1>1
  <1>3. ASSUME NEW s \in SUBSET DOMAIN tags, s # {} PROVE tags[Max(s)] \in AllTags
    <2>1. s \in SUBSET (1..Len(tags)) /\ Len(tags) \in Nat
      OBVIOUS
    <2>2. Max(s) \in 1..Len(tags)
      BY <1>3, <2>1, LastPosition
    <2> QED
      BY <2>2
  <1> HIDE DEF Drop
  <1>4. \E f : Fold(f)
    <2>1. PICK f \in [SUBSET DOMAIN tags -> Caches] : IsFold(f, step, c, tags)
      BY <1>2, FoldExists
    <2>2. ASSUME NEW s \in SUBSET DOMAIN tags, s # {}
          PROVE  step[f[s \ {Max(s)}]][tags[Max(s)]] = Drop(f[s \ {Max(s)}], tags[Max(s)])
      BY <1>3, <2>2
    <2> QED
      BY <2>1, <2>2, ZenonT(30) DEF IsFold
  <1>5. Fold(g)
    BY <1>4
  <1>6. InvalidateTags(c, tags) = g[DOMAIN tags]
    BY DEF InvalidateTags, FoldLeft, MapThenFoldSet, Drop
  <1>7. PICK h \in [0..Len(tags) -> Caches] :
          /\ h[0] = c /\ h[Len(tags)] = g[DOMAIN tags]
          /\ \A n \in 1..Len(tags) : h[n] = step[h[n - 1]][tags[n]]
    <2>1. g[{}] = c
      BY <1>5
    <2>2. ASSUME NEW s \in SUBSET DOMAIN tags, s # {}, g[s \ {Max(s)}] \in Caches
          PROVE  g[s] = step[g[s \ {Max(s)}]][tags[Max(s)]]
      <3>1. g[s] = Drop(g[s \ {Max(s)}], tags[Max(s)])
        BY <1>5, <2>2
      <3> HIDE DEF g
      <3> QED
        BY <1>3, <2>2, <3>1
    <2> HIDE DEF g, step
    <2>3. Folding(g, Caches, AllTags, step, c, tags)
      BY <1>2, <2>1, <2>2 DEF Folding
    <2> QED
      BY <2>3, FoldUnfolds
  <1> HIDE DEF g
  <1>8. Done(h[0], 0)
    <2>1. 1..0 = {}
      OBVIOUS
    <2> QED
      BY <1>7, <2>1
  <1>9. ASSUME NEW n \in 1..Len(tags), Done(h[n - 1], n - 1) PROVE Done(h[n], n)
    <2>1. Len(tags) \in Nat /\ n - 1 \in 0..Len(tags) /\ n \in 0..Len(tags) /\ tags[n] \in AllTags
      OBVIOUS
    <2>2. PICK d \in Caches : d = h[n - 1]
      BY <1>7, <2>1
    <2>3. h[n] = Drop(d, tags[n])
      BY <1>7, <2>1, <2>2
    <2>4. \A i : i \in 1..n <=> i \in 1..(n - 1) \/ i = n
      BY <2>1
    <2>5. \A i \in 1..n : tags[i] \in AllTags /\ tags[i] \in Texts
      BY <2>1, TagsTexts
    <2>6. LoadTagRegistry(d, tags[n]) \subseteq LoadTagRegistry(c, tags[n])
      BY <1>9, <2>2 DEF LoadTagRegistry
    <2>7. Gone(d, tags[n]) \subseteq Gone(c, tags[n])
      BY <2>6 DEF Gone
    <2>8. /\ DOMAIN h[n] = DOMAIN d \ Gone(d, tags[n])
          /\ \A text \in DOMAIN h[n] : h[n][text] = d[text]
      BY <1>1, <2>1, <2>3, SMTT(30)
    <2>9. KeptApart(tags[n]) => LoadTagRegistry(c, tags[n]) \cap DOMAIN h[n] = {}
      <3> SUFFICES ASSUME KeptApart(tags[n]) PROVE LoadTagRegistry(c, tags[n]) \cap DOMAIN h[n] = {}
        OBVIOUS
      <3>1. CASE TagRegistryKey(tags[n]) \in DOMAIN d
        <4>1. TagRegistryKey(tags[n]) \in DOMAIN c /\ d[TagRegistryKey(tags[n])] = c[TagRegistryKey(tags[n])]
          BY <1>9, <2>2, <3>1
        <4>2. LoadTagRegistry(d, tags[n]) = LoadTagRegistry(c, tags[n])
          BY <3>1, <4>1 DEF LoadTagRegistry
        <4> QED
          BY <2>8, <4>2 DEF Gone
      <3>2. CASE TagRegistryKey(tags[n]) \notin DOMAIN c
        BY <3>2 DEF LoadTagRegistry
      <3>3. CASE TagRegistryKey(tags[n]) \in DOMAIN c /\ TagRegistryKey(tags[n]) \notin DOMAIN d
        <4>1. PICK i \in 1..(n - 1) : TagRegistryKey(tags[n]) \in Gone(c, tags[i])
          BY <1>9, <2>2, <3>3
        <4>2. TagRegistryKey(tags[n]) \notin LoadTagRegistry(c, tags[i])
          BY LoadTyped DEF KeptApart
        <4>3. tags[n] = tags[i]
          BY <2>1, <2>4, <2>5, <4>1, <4>2, RegistryKeysTell DEF Gone
        <4>4. LoadTagRegistry(c, tags[n]) \cap DOMAIN d = {}
          BY <1>9, <2>2, <4>1, <4>3
        <4> QED
          BY <2>8, <4>4
      <3> QED
        BY <3>1, <3>2, <3>3
    <2>10. TagRegistryKey(tags[n]) \notin DOMAIN h[n]
      BY <2>8 DEF Gone
    <2>11. ASSUME NEW text \in DOMAIN c, \A i \in 1..n : text \notin Gone(c, tags[i])
           PROVE  text \in DOMAIN h[n]
      <3>1. text \in DOMAIN d
        BY <1>9, <2>2, <2>4, <2>11
      <3> QED
        BY <2>1, <2>4, <2>7, <2>8, <2>11, <3>1
    <2>12. DOMAIN h[n] \subseteq DOMAIN c /\ \A text \in DOMAIN h[n] : h[n][text] = c[text]
      BY <1>9, <2>2, <2>8
    <2>13. ASSUME NEW i \in 1..n
           PROVE  /\ TagRegistryKey(tags[i]) \notin DOMAIN h[n]
                  /\ KeptApart(tags[i]) => LoadTagRegistry(c, tags[i]) \cap DOMAIN h[n] = {}
      BY <1>9, <2>2, <2>4, <2>8, <2>9, <2>10
    <2> QED
      BY <2>11, <2>12, <2>13
  <1>10. Done(h[Len(tags)], Len(tags))
    <2> DEFINE T == {n \in 0..Len(tags) : Done(h[n], n)}
    <2> HIDE DEF Done
    <2>1. 0 \in T /\ Len(tags) \in Nat
      BY <1>8
    <2>2. ASSUME NEW n \in 1..Len(tags), n - 1 \in T PROVE n \in T
      BY <1>9, <2>2
    <2> HIDE DEF T
    <2>3. T \in SUBSET (0..Len(tags))
      BY DEF T
    <2>4. Len(tags) \in T
      BY <2>1, <2>2, <2>3, StepsKeep
    <2> QED
      BY <2>4 DEF T
  <1>11. h[Len(tags)] \in Caches /\ InvalidateTags(c, tags) = h[Len(tags)]
    BY <1>6, <1>7
  <1>12. \A tag : tag \in Range(tags) <=> \E i \in 1..Len(tags) : tag = tags[i]
    BY DEF Range
  <1> QED
    BY <1>10, <1>11, <1>12

(* DeleteMethod and its like: what a prefix matches is removed.            *)
LEMMA DeleteByPrefixRemoves ==
  ASSUME NEW c \in Caches, NEW prefix
  PROVE  /\ DeleteByPrefix(c, prefix) \in Caches
         /\ \A text : text \in DOMAIN DeleteByPrefix(c, prefix) <=>
                        text \in DOMAIN c /\ ~IsPrefix(prefix, text)
         /\ \A text \in DOMAIN DeleteByPrefix(c, prefix) : DeleteByPrefix(c, prefix)[text] = c[text]
  <1> DEFINE S == {text \in DOMAIN c : IsPrefix(prefix, text)}
  <1>1. DeleteByPrefix(c, prefix) = Without(c, S)
    BY DEF DeleteByPrefix
  <1>2. \A text : text \in DOMAIN c \ S <=> text \in DOMAIN c /\ ~IsPrefix(prefix, text)
    OBVIOUS
  <1> HIDE DEF S
  <1>3. /\ Without(c, S) \in Caches /\ DOMAIN Without(c, S) = DOMAIN c \ S
        /\ \A t \in DOMAIN c \ S : Without(c, S)[t] = c[t]
    BY WithoutHas
  <1> QED
    BY <1>1, <1>2, <1>3

(* invalidateQueries: List, Count and Get, each by key and by prefix.      *)
QueryMethods == {"Get", "List", "Count"}

OfMethod(t, m, text) ==
  text = MethodKey(t, m) \/ IsPrefix(MethodPrefixWithSeparator(t, m), text)

LEMMA InvalidateQueriesRemoves ==
  ASSUME NEW c \in Caches, NEW t \in Types
  PROVE  LET d == InvalidateQueries(c, t)
         IN /\ d \in Caches
            /\ \A text : text \in DOMAIN d <=>
                 text \in DOMAIN c /\ \A m \in QueryMethods : ~OfMethod(t, m, text)
            /\ \A text \in DOMAIN d : d[text] = c[text]
  <1> DEFINE Drop(d, m) == DeleteMethod(DeleteKey(d, t, m), t, m)
             seq     == <<"Get", "List", "Count">>
             step    == [d \in Caches |-> [m \in QueryMethods |-> Drop(d, m)]]
             Fold(f) == f = [s \in SUBSET DOMAIN seq |->
                               IF s = {} THEN c ELSE Drop(f[s \ {Max(s)}], seq[Max(s)])]
             g       == CHOOSE f : Fold(f)
  <1>1. ASSUME NEW d \in Caches, NEW m \in QueryMethods
        PROVE  /\ Drop(d, m) \in Caches
               /\ \A text : text \in DOMAIN Drop(d, m) <=> text \in DOMAIN d /\ ~OfMethod(t, m, text)
               /\ \A text \in DOMAIN Drop(d, m) : Drop(d, m)[text] = d[text]
    <2>1. /\ DeleteKey(d, t, m) \in Caches
          /\ DOMAIN DeleteKey(d, t, m) = DOMAIN d \ {MethodKey(t, m)}
          /\ \A text \in DOMAIN d \ {MethodKey(t, m)} : DeleteKey(d, t, m)[text] = d[text]
      BY WithoutHas DEF DeleteKey
    <2> QED
      BY <2>1, DeleteByPrefixRemoves DEF DeleteMethod, OfMethod
  <1>2. step \in [Caches -> [QueryMethods -> Caches]]
    BY <1>1
  <1>3. seq \in Seq(QueryMethods) /\ Len(seq) = 3 /\ seq[1] = "Get" /\ seq[2] = "List" /\ seq[3] = "Count"
    BY DEF QueryMethods
  <1>4. ASSUME NEW s \in SUBSET DOMAIN seq, s # {} PROVE seq[Max(s)] \in QueryMethods
    <2>1. s \in SUBSET (1..Len(seq)) /\ Len(seq) \in Nat
      BY <1>3
    <2>2. Max(s) \in 1..Len(seq)
      BY <1>4, <2>1, LastPosition
    <2> QED
      BY <1>3, <2>2
  <1> HIDE DEF Drop, seq
  <1>5. \E f : Fold(f)
    <2>1. PICK f \in [SUBSET DOMAIN seq -> Caches] : IsFold(f, step, c, seq)
      BY <1>2, <1>3, FoldExists
    <2>2. ASSUME NEW s \in SUBSET DOMAIN seq, s # {}
          PROVE  step[f[s \ {Max(s)}]][seq[Max(s)]] = Drop(f[s \ {Max(s)}], seq[Max(s)])
      BY <1>4, <2>2
    <2> QED
      BY <2>1, <2>2, ZenonT(30) DEF IsFold
  <1>6. Fold(g)
    BY <1>5
  <1>7. InvalidateQueries(c, t) = g[DOMAIN seq]
    BY DEF InvalidateQueries, FoldLeft, MapThenFoldSet, Drop, seq
  <1>8. PICK h \in [0..Len(seq) -> Caches] :
          /\ h[0] = c /\ h[Len(seq)] = g[DOMAIN seq]
          /\ \A n \in 1..Len(seq) : h[n] = step[h[n - 1]][seq[n]]
    <2>1. g[{}] = c
      BY <1>6
    <2>2. ASSUME NEW s \in SUBSET DOMAIN seq, s # {}, g[s \ {Max(s)}] \in Caches
          PROVE  g[s] = step[g[s \ {Max(s)}]][seq[Max(s)]]
      <3>1. g[s] = Drop(g[s \ {Max(s)}], seq[Max(s)])
        BY <1>6, <2>2
      <3> HIDE DEF g
      <3> QED
        BY <1>4, <2>2, <3>1
    <2> HIDE DEF g, step
    <2>3. Folding(g, Caches, QueryMethods, step, c, seq)
      BY <1>2, <1>3, <2>1, <2>2 DEF Folding
    <2> QED
      BY <2>3, FoldUnfolds
  <1>9. /\ h[1] = Drop(c, "Get") /\ h[2] = Drop(h[1], "List") /\ h[3] = Drop(h[2], "Count")
        /\ h[1] \in Caches /\ h[2] \in Caches /\ h[3] \in Caches
    <2>1. h[1] \in Caches /\ h[2] \in Caches /\ h[3] \in Caches /\ h[0] = c
      BY <1>3, <1>8
    <2>2. h[1] = step[h[0]]["Get"] /\ h[2] = step[h[1]]["List"] /\ h[3] = step[h[2]]["Count"]
      BY <1>3, <1>8
    <2> QED
      BY <2>1, <2>2 DEF QueryMethods
  <1>10. InvalidateQueries(c, t) = h[3]
    BY <1>3, <1>7, <1>8
  <1>11. ASSUME NEW text
         PROVE  text \in DOMAIN h[3] <=>
                  /\ text \in DOMAIN c
                  /\ ~OfMethod(t, "Get", text) /\ ~OfMethod(t, "List", text) /\ ~OfMethod(t, "Count", text)
    BY <1>1, <1>9 DEF QueryMethods
  <1>12. \A text \in DOMAIN h[3] : h[3][text] = c[text]
    <2>1. \A text \in DOMAIN h[3] : text \in DOMAIN h[2] /\ h[3][text] = h[2][text]
      BY <1>1, <1>9 DEF QueryMethods
    <2>2. \A text \in DOMAIN h[2] : text \in DOMAIN h[1] /\ h[2][text] = h[1][text]
      BY <1>1, <1>9 DEF QueryMethods
    <2>3. \A text \in DOMAIN h[1] : text \in DOMAIN c /\ h[1][text] = c[text]
      BY <1>1, <1>9 DEF QueryMethods
    <2> QED
      BY <2>1, <2>2, <2>3
  <1> QED
    BY <1>9, <1>10, <1>11, <1>12 DEF QueryMethods
-----------------------------------------------------------------------------
(* Requests and writes.                                                    *)
LEMMA TagsOfReadAre ==
  ASSUME NEW r \in Reads, NEW scopeTag \in ScopeTags(r.type, r.scope)
  PROVE  /\ TagsOfRead(r, scopeTag) \in Seq(DecoratorTags)
         /\ Range(TagsOfRead(r, scopeTag)) =
              {scopeTag}
              \cup (IF r.method \in {"List", "Count"} THEN {ListTag(r.type)} ELSE {})
              \cup (IF r.method = "GetByID" THEN {TagValue(r.type, "id", r.arg)} ELSE {})
              \cup (IF r.method = "GetByIdentifier" THEN {TagValue(r.type, "identifier", r.arg)}
                    ELSE {})
  <1>1. r.method \in {"Get", "GetByID", "GetByIdentifier", "List", "Count"} /\ r.method \in Methods
    BY ReadsAre, MethodsAssumption DEF MethodNames
  <1>2. scopeTag \in DecoratorTags /\ ListTag(r.type) \in DecoratorTags
    BY ReadsAre DEF ScopeTags, DecoratorTags, TagValues
  <1>3. /\ r.method = "GetByID" => TagValue(r.type, "id", r.arg) \in DecoratorTags
        /\ r.method = "GetByIdentifier" => TagValue(r.type, "identifier", r.arg) \in DecoratorTags
    BY <1>1, ReadsAre DEF ByArg, DecoratorTags, TagValues
  <1>4. CASE r.method = "Get"
    <2>1. TagsOfRead(r, scopeTag) = <<scopeTag>>
      BY <1>4 DEF TagsOfRead
    <2>2. Range(<<scopeTag>>) = {scopeTag}
      BY DEF Range
    <2> QED
      BY <1>2, <1>4, <2>1, <2>2
  <1>5. CASE r.method \in {"List", "Count"}
    <2>1. TagsOfRead(r, scopeTag) = <<ListTag(r.type), scopeTag>>
      BY <1>5 DEF TagsOfRead
    <2>2. Range(<<ListTag(r.type), scopeTag>>) = {ListTag(r.type), scopeTag}
      BY PairHas
    <2> QED
      BY <1>2, <1>5, <2>1, <2>2
  <1>6. CASE r.method = "GetByID"
    <2> DEFINE tag == TagValue(r.type, "id", r.arg)
    <2>1. TagsOfRead(r, scopeTag) = <<scopeTag, tag>>
      BY <1>6 DEF TagsOfRead
    <2> HIDE DEF tag
    <2>2. Range(<<scopeTag, tag>>) = {scopeTag, tag}
      BY PairHas
    <2> QED
      BY <1>2, <1>3, <1>6, <2>1, <2>2 DEF tag
  <1>7. CASE r.method = "GetByIdentifier"
    <2> DEFINE tag == TagValue(r.type, "identifier", r.arg)
    <2>1. TagsOfRead(r, scopeTag) = <<scopeTag, tag>>
      BY <1>7 DEF TagsOfRead
    <2> HIDE DEF tag
    <2>2. Range(<<scopeTag, tag>>) = {scopeTag, tag}
      BY PairHas
    <2> QED
      BY <1>2, <1>3, <1>7, <2>1, <2>2 DEF tag
  <1> QED
    BY <1>1, <1>4, <1>5, <1>6, <1>7

LEMMA RequestsAre ==
  ASSUME NEW q \in Requests
  PROVE  /\ q.read \in Reads /\ q.key \in AllKeyTexts
         /\ \E signature \in Signatures(q.read.scope) : q.key = KeyText(q.read, signature)
         /\ \E scopeTag \in ScopeTags(q.read.type, q.read.scope) : q.tags = TagsOfRead(q.read, scopeTag)
         /\ q.tags \in Seq(DecoratorTags)
  <1>1. PICK r \in Reads :
          \E signature \in Signatures(r.scope), scopeTag \in ScopeTags(r.type, r.scope) :
            q = [read |-> r, key |-> KeyText(r, signature), tags |-> TagsOfRead(r, scopeTag)]
    BY DEF Requests
  <1>2. q.key \in AllKeyTexts
    BY DEF AllKeyTexts
  <1> QED
    BY <1>1, <1>2, TagsOfReadAre

(* One read has one key and one list of tags.                              *)
LEMMA ScopeTagStable ==
  ASSUME NEW t \in Types, NEW s \in Scopes, NEW a \in ScopeTags(t, s), NEW b \in ScopeTags(t, s)
  PROVE  a = b
  BY SignaturesStable DEF ScopeTags

LEMMA RequestsSame ==
  ASSUME NEW p \in Requests, NEW q \in Requests, p.read = q.read
  PROVE  p.key = q.key /\ p.tags = q.tags
  <1>1. p.read.type \in Types /\ p.read.scope \in Scopes
    BY RequestsAre, ReadsAre
  <1>2. p.key = q.key
    <2>1. PICK a \in Signatures(p.read.scope) : p.key = KeyText(p.read, a)
      BY RequestsAre
    <2>2. PICK b \in Signatures(p.read.scope) : q.key = KeyText(p.read, b)
      BY RequestsAre
    <2> QED
      BY <1>1, <2>1, <2>2, SignaturesStable
  <1>3. p.tags = q.tags
    <2>1. PICK a \in ScopeTags(p.read.type, p.read.scope) : p.tags = TagsOfRead(p.read, a)
      BY RequestsAre
    <2>2. PICK b \in ScopeTags(p.read.type, p.read.scope) : q.tags = TagsOfRead(p.read, b)
      BY RequestsAre
    <2> QED
      BY <1>1, <2>1, <2>2, ScopeTagStable
  <1> QED
    BY <1>2, <1>3

(* Requests with one key are of lookalikes.                                *)
LEMMA RequestsTell ==
  ASSUME NEW p \in Requests, NEW q \in Requests, p.key = q.key
  PROVE  Lookalikes(p.read, q.read)
  <1>1. PICK a \in Signatures(p.read.scope) : p.key = KeyText(p.read, a)
    BY RequestsAre
  <1>2. PICK b \in Signatures(q.read.scope) : q.key = KeyText(q.read, b)
    BY RequestsAre
  <1>3. p.read \in Reads /\ q.read \in Reads
    BY RequestsAre
  <1> QED
    BY <1>1, <1>2, <1>3, KeysTell

LEMMA WriteTagsAre ==
  /\ \A w \in Updates : w.call = "update" /\ w.tags \in Seq(DecoratorTags)
  /\ \A w \in Deletions : w.call = "delete" /\ w.tags \in Seq(DecoratorTags)
  <1>1. ASSUME NEW w \in Updates PROVE w.call = "update" /\ w.tags \in Seq(DecoratorTags)
    <2>1. PICK t \in Types, s \in Scopes, i \in Ids :
            \E scopeTag \in ScopeTags(t, s) :
              w = [call |-> "update", type |-> t, scope |-> s, arg |-> i,
                   tags |-> WriteInvalidationTags(t, scopeTag, i)]
      BY DEF Updates
    <2>2. PICK scopeTag \in ScopeTags(t, s) :
              w = [call |-> "update", type |-> t, scope |-> s, arg |-> i,
                   tags |-> WriteInvalidationTags(t, scopeTag, i)]
      BY <2>1
    <2>3. /\ ListTag(t) \in DecoratorTags /\ scopeTag \in DecoratorTags
          /\ TagValue(t, "id", i) \in DecoratorTags /\ TagValue(t, "identifier", i) \in DecoratorTags
      BY DEF ScopeTags, DecoratorTags, TagValues
    <2> QED
      BY <2>2, <2>3 DEF WriteInvalidationTags
  <1>2. ASSUME NEW w \in Deletions PROVE w.call = "delete" /\ w.tags \in Seq(DecoratorTags)
    <2>1. PICK t \in Types, s \in Scopes :
            \E scopeTag \in ScopeTags(t, s) :
              w = [call |-> "delete", type |-> t, scope |-> s, tags |-> <<ListTag(t), scopeTag>>]
      BY DEF Deletions
    <2>2. PICK scopeTag \in ScopeTags(t, s) :
              w = [call |-> "delete", type |-> t, scope |-> s, tags |-> <<ListTag(t), scopeTag>>]
      BY <2>1
    <2>3. ListTag(t) \in DecoratorTags /\ scopeTag \in DecoratorTags
      BY DEF ScopeTags, DecoratorTags, TagValues
    <2> QED
      BY <2>2, <2>3
  <1> QED
    BY <1>1, <1>2

(* No tag of the decorator is empty.                                       *)
LEMMA DecoratorTagsFull == <<>> \notin DecoratorTags
  <1> SUFFICES ASSUME <<>> \in DecoratorTags PROVE FALSE
    OBVIOUS
  <1>1. PICK t \in Types, l \in Labels, x \in Rests :
          <<>> = Followed(Namespace(t), Segment(Followed(Word(l), x)))
    BY DecoratorTagsLabelled
  <1>2. Namespace(t) \in Plain /\ Namespace(t) # <<>> /\ Word(l) \in Plain
    BY TextsAssumption, WordsPlain
  <1>3. Namespace(t) \in Seq(Tokens) /\ Segment(Followed(Word(l), x)) \in Seq(Tokens)
    BY <1>2, FollowedRest DEF Plain, Rests, Texts
  <1> QED
    BY <1>1, <1>2, <1>3 DEF Followed

(* The tags registerTags makes of a request's and its context's.           *)
LEMMA TagsTogether ==
  ASSUME NEW q \in Requests, NEW context \in Contexts
  PROVE  /\ DedupeStrings(q.tags \o context) \in Seq(AllTags)
         /\ Range(DedupeStrings(q.tags \o context)) = Range(q.tags) \cup Range(context)
         /\ Range(q.tags) \subseteq DecoratorTags /\ Range(context) \subseteq OwnTags
  <1>1. q.tags \in Seq(AllTags) /\ context \in Seq(AllTags)
    BY RequestsAre, ContextsAre DEF AllTags
  <1>2. q.tags \o context \in Seq(AllTags) /\ Range(q.tags \o context) = Range(q.tags) \cup Range(context)
    BY <1>1, RangeConcat
  <1>3. Range(q.tags) \subseteq DecoratorTags
    BY RequestsAre DEF Range
  <1>4. /\ DedupeStrings(q.tags \o context) \in Seq(AllTags)
        /\ Range(DedupeStrings(q.tags \o context)) = (Range(q.tags) \cup Range(context)) \ {<<>>}
    BY <1>2, DedupeAll
  <1>5. <<>> \notin Range(q.tags) /\ <<>> \notin Range(context)
    BY <1>3, DecoratorTagsFull, ContextsAre
  <1> QED
    BY <1>3, <1>4, <1>5, ContextsAre
-----------------------------------------------------------------------------
(* SharedInv of any content c of the cache.                                *)
Kept(c, text) == c[text].of # {}

ResultIn(c, text) ==
  /\ c[text].keys = {}
  /\ \E q \in Requests : text = q.key /\ c[text].of = {q.read}

RegistryIn(c, text) ==
  /\ hasTags
  /\ c[text].keys # {}
  /\ \E tag \in AllTags :
       /\ text = TagRegistryKey(tag)
       /\ \A key \in c[text].keys : \E q \in Requests : q.key = key /\ tag \in OwnTags \cup Range(q.tags)

ListedIn(c, text) ==
  \A tag \in c[text].tags : KeptApart(tag) => text \in LoadTagRegistry(c, tag)

Sound(c) ==
  /\ c \in Caches
  /\ \A text \in DOMAIN c : IF Kept(c, text) THEN ResultIn(c, text) /\ ListedIn(c, text)
                            ELSE RegistryIn(c, text)

(* A result has been read with the tags of the requests for its read.      *)
TaggedIn(c, text) ==
  Kept(c, text) => \A q \in Requests : c[text].of = {q.read} =>
    IF hasTags THEN Range(q.tags) \subseteq c[text].tags ELSE c[text].tags = {}

(* What is listed under a tag bears it, or a context may have given it.    *)
LEMMA RegistryLists ==
  ASSUME NEW c, Sound(c), NEW tag \in AllTags, NEW key \in LoadTagRegistry(c, tag)
  PROVE  \E q \in Requests : q.key = key /\ tag \in OwnTags \cup Range(q.tags)
  <1> DEFINE text == TagRegistryKey(tag)
  <1>1. text \in DOMAIN c /\ key \in c[text].keys
    BY DEF LoadTagRegistry
  <1>2. RegistryIn(c, text)
    BY <1>1 DEF Sound, ResultIn
  <1>3. PICK t \in AllTags :
          /\ text = TagRegistryKey(t)
          /\ \A k \in c[text].keys : \E q \in Requests : q.key = k /\ t \in OwnTags \cup Range(q.tags)
    BY <1>2 DEF RegistryIn
  <1>4. t = tag
    BY <1>3, TagsTexts, RegistryKeysTell
  <1> QED
    BY <1>1, <1>3, <1>4

(* registerTags keeps the service sound, and gives the result its tags.    *)
LEMMA RegisterTagsHas ==
  ASSUME hasTags, NEW c \in Caches, NEW q \in Requests, q.key \in DOMAIN c,
         NEW context \in Contexts, c[q.key] \in Contents
  PROVE  LET d == RegisterTags(c, q, context)
             tags == Range(q.tags) \cup Range(context)
         IN /\ d \in Caches
            /\ DOMAIN d = DOMAIN c \cup {TagRegistryKey(tag) : tag \in tags}
            /\ (\A tag \in tags : TagRegistryKey(tag) # q.key) =>
                 d[q.key] = [c[q.key] EXCEPT !.tags = @ \cup tags]
            /\ \A tag \in tags :
                 d[TagRegistryKey(tag)] = Registry(LoadTagRegistry(c, tag) \cup {q.key})
            /\ \A text \in DOMAIN c :
                 text # q.key /\ (\A tag \in tags : text # TagRegistryKey(tag)) => d[text] = c[text]
  <1> DEFINE list == DedupeStrings(q.tags \o context)
             tags == Range(q.tags) \cup Range(context)
             content == [c[q.key] EXCEPT !.tags = @ \cup Range(list)]
             read == With(c, q.key, content)
             d == AddTags(read, q.key, list)
  <1>1. list \in Seq(AllTags) /\ Range(list) = tags /\ tags \subseteq AllTags
    BY TagsTogether DEF AllTags
  <1>2. RegisterTags(c, q, context) = d
    BY DEF RegisterTags
  <1>3. q.key \in AllKeyTexts /\ q.key \in Space
    BY RequestsAre DEF Space
  <1>4. content \in Contents /\ content = [c[q.key] EXCEPT !.tags = @ \cup tags]
    <2> HIDE DEF list, tags
    <2> QED
      BY <1>1 DEF Contents
  <1> HIDE DEF list, tags, content
  <1>5. /\ read \in Caches /\ DOMAIN read = DOMAIN c /\ read[q.key] = content
        /\ \A t \in DOMAIN c \ {q.key} : read[t] = c[t]
    <2>1. PICK key \in Space, new \in Contents : key = q.key /\ new = content
      BY <1>3, <1>4
    <2>2. /\ With(c, key, new) \in Caches
          /\ DOMAIN With(c, key, new) = DOMAIN c \cup {key}
          /\ With(c, key, new)[key] = new
          /\ \A t \in DOMAIN c \ {key} : With(c, key, new)[t] = c[t]
      BY WithHas
    <2>3. With(c, key, new) = read
      BY <2>1 DEF read
    <2> HIDE DEF read
    <2> QED
      BY <2>1, <2>2, <2>3, SMTT(30)
  <1> HIDE DEF read
  <1>6. /\ d \in Caches
        /\ DOMAIN d = DOMAIN read \cup {TagRegistryKey(tag) : tag \in Range(list)}
        /\ \A tag \in Range(list) : d[TagRegistryKey(tag)] = Registry(LoadTagRegistry(read, tag) \cup {q.key})
        /\ \A text \in DOMAIN read :
             (\A tag \in Range(list) : text # TagRegistryKey(tag)) => d[text] = read[text]
    BY <1>1, <1>3, <1>5, AddTagsAdds
  <1> HIDE DEF d
  <1>7. content.keys = c[q.key].keys
    BY <1>4 DEF Contents
  <1>8. \A tag \in tags : LoadTagRegistry(read, tag) = LoadTagRegistry(c, tag)
    BY <1>5, <1>7 DEF LoadTagRegistry
  <1>9. (\A tag \in tags : TagRegistryKey(tag) # q.key) => d[q.key] = content
    BY <1>1, <1>5, <1>6
  <1>10. DOMAIN d = DOMAIN c \cup {TagRegistryKey(tag) : tag \in tags}
    BY <1>1, <1>5, <1>6
  <1>11. \A tag \in tags : d[TagRegistryKey(tag)] = Registry(LoadTagRegistry(c, tag) \cup {q.key})
    BY <1>1, <1>6, <1>8
  <1>12. ASSUME NEW text \in DOMAIN c, text # q.key, \A tag \in tags : text # TagRegistryKey(tag)
         PROVE  d[text] = c[text]
    BY <1>1, <1>5, <1>6, <1>12
  <1> QED
    BY <1>2, <1>4, <1>6, <1>9, <1>10, <1>11, <1>12 DEF tags

LEMMA RegisterTagsSound ==
  ASSUME NEW c, Sound(c), NEW q \in Requests, q.key \in DOMAIN c, Kept(c, q.key),
         NEW context \in Contexts,
         \A text \in DOMAIN c :
           TaggedIn(c, text) \/ (hasTags /\ text = q.key /\ c[q.key].of = {q.read})
  PROVE  LET d == RegisterTags(c, q, context)
         IN Sound(d) /\ \A text \in DOMAIN d : TaggedIn(d, text)
  <1>1. CASE ~hasTags
    BY <1>1 DEF RegisterTags
  <1>2. CASE hasTags
    <2> DEFINE d    == RegisterTags(c, q, context)
               tags == Range(q.tags) \cup Range(context)
    <2>1. /\ c \in Caches /\ q.key \in AllKeyTexts /\ c[q.key] \in Contents
          /\ \A text \in DOMAIN c : c[text] \in Contents
      BY CachesAre, RequestsAre DEF Sound
    <2>2. tags \subseteq AllTags /\ Range(context) \subseteq OwnTags /\ Range(q.tags) \subseteq tags
      BY TagsTogether DEF AllTags
    <2>3. /\ d \in Caches
          /\ DOMAIN d = DOMAIN c \cup {TagRegistryKey(tag) : tag \in tags}
          /\ (\A tag \in tags : TagRegistryKey(tag) # q.key) =>
               d[q.key] = [c[q.key] EXCEPT !.tags = @ \cup tags]
          /\ \A tag \in tags : d[TagRegistryKey(tag)] = Registry(LoadTagRegistry(c, tag) \cup {q.key})
          /\ \A text \in DOMAIN c :
               text # q.key /\ (\A tag \in tags : text # TagRegistryKey(tag)) => d[text] = c[text]
      BY <1>2, <2>1, RegisterTagsHas, ZenonT(30)
    <2> DEFINE New(text) == \E tag \in tags : text = TagRegistryKey(tag)
    <2>5. ~New(q.key) => /\ d[q.key].of = c[q.key].of /\ d[q.key].keys = c[q.key].keys
                         /\ d[q.key].tags = c[q.key].tags \cup tags
      BY <2>1, <2>3 DEF Contents
    <2> HIDE DEF d, tags
    <2>6. ASSUME NEW tag \in AllTags, KeptApart(tag)
          PROVE  LoadTagRegistry(d, tag) =
                   IF tag \in tags THEN LoadTagRegistry(c, tag) \cup {q.key} ELSE LoadTagRegistry(c, tag)
      <3>1. CASE tag \in tags
        <4>1. TagRegistryKey(tag) \in DOMAIN d
          BY <2>3, <3>1
        <4>2. d[TagRegistryKey(tag)] = Registry(LoadTagRegistry(c, tag) \cup {q.key})
          BY <2>3, <3>1
        <4>3. d[TagRegistryKey(tag)].keys = LoadTagRegistry(c, tag) \cup {q.key}
          BY <4>2 DEF Registry
        <4> QED
          BY <3>1, <4>1, <4>3 DEF LoadTagRegistry
      <3>2. CASE tag \notin tags
        <4>1. \A t \in tags : TagRegistryKey(tag) # TagRegistryKey(t)
          BY <2>2, <3>2, TagsTexts, RegistryKeysTell
        <4>2. TagRegistryKey(tag) # q.key
          BY <2>1, <2>6 DEF KeptApart
        <4>3. /\ TagRegistryKey(tag) \in DOMAIN d <=> TagRegistryKey(tag) \in DOMAIN c
              /\ TagRegistryKey(tag) \in DOMAIN c => d[TagRegistryKey(tag)] = c[TagRegistryKey(tag)]
          BY <2>3, <4>1, <4>2
        <4> QED
          BY <3>2, <4>3 DEF LoadTagRegistry
      <3> QED
        BY <3>1, <3>2
    <2>7. ResultIn(c, q.key) /\ ListedIn(c, q.key)
      BY DEF Sound
    <2>8. ASSUME NEW text \in DOMAIN d, New(text)
          PROVE  ~Kept(d, text) /\ RegistryIn(d, text) /\ TaggedIn(d, text)
      <3>1. PICK tag \in tags : text = TagRegistryKey(tag)
        BY <2>8
      <3>2. d[text].of = {} /\ d[text].keys = LoadTagRegistry(c, tag) \cup {q.key}
        <4>1. d[text] = Registry(LoadTagRegistry(c, tag) \cup {q.key})
          BY <2>3, <3>1
        <4> QED
          BY <4>1 DEF Registry
      <3>3. ASSUME NEW key \in LoadTagRegistry(c, tag)
            PROVE  \E p \in Requests : p.key = key /\ tag \in OwnTags \cup Range(p.tags)
        BY <2>2, <3>3, RegistryLists
      <3>4. tag \in OwnTags \cup Range(q.tags)
        BY <2>2 DEF tags
      <3> QED
        BY <1>2, <2>2, <3>1, <3>2, <3>3, <3>4 DEF Kept, RegistryIn, TaggedIn
    <2>9. ASSUME ~New(q.key) PROVE TaggedIn(d, q.key)
      <3>1. SUFFICES ASSUME NEW p \in Requests, d[q.key].of = {p.read}
                     PROVE  Range(p.tags) \subseteq d[q.key].tags
        BY <1>2 DEF TaggedIn
      <3>2. c[q.key].of = {p.read} /\ d[q.key].tags = c[q.key].tags \cup tags
        BY <2>5, <2>9, <3>1
      <3>3. CASE TaggedIn(c, q.key)
        BY <1>2, <3>2, <3>3 DEF TaggedIn
      <3>4. CASE c[q.key].of = {q.read}
        <4>1. p.read = q.read
          BY <3>2, <3>4
        <4>2. p.tags = q.tags
          BY <4>1, RequestsSame
        <4> QED
          BY <2>2, <3>2, <4>2
      <3> QED
        BY <3>3, <3>4
    <2>10. ASSUME ~New(q.key) PROVE Kept(d, q.key) /\ ResultIn(d, q.key) /\ ListedIn(d, q.key)
      <3>1. Kept(d, q.key) /\ ResultIn(d, q.key)
        BY <2>5, <2>7, <2>10 DEF Kept, ResultIn
      <3>2. ASSUME NEW tag \in d[q.key].tags, KeptApart(tag) PROVE q.key \in LoadTagRegistry(d, tag)
        <4>1. tag \in AllTags /\ (tag \in tags \/ tag \in c[q.key].tags)
          BY <2>1, <2>2, <2>5, <2>10, <3>2 DEF Contents
        <4>2. tag \in c[q.key].tags => q.key \in LoadTagRegistry(c, tag)
          BY <2>7, <3>2 DEF ListedIn
        <4> QED
          BY <2>6, <3>2, <4>1, <4>2
      <3> QED
        BY <3>1, <3>2 DEF ListedIn
    <2>11. ASSUME NEW text \in DOMAIN d, ~New(text), text # q.key
           PROVE  /\ IF Kept(d, text) THEN ResultIn(d, text) /\ ListedIn(d, text)
                     ELSE RegistryIn(d, text)
                  /\ TaggedIn(d, text)
      <3>1. text \in DOMAIN c /\ d[text] = c[text]
        BY <2>3, <2>11
      <3>2. TaggedIn(d, text)
        BY <2>11, <3>1 DEF TaggedIn, Kept
      <3>3. CASE Kept(c, text)
        <4>1. ResultIn(c, text) /\ ListedIn(c, text)
          BY <3>1, <3>3 DEF Sound
        <4>2. ResultIn(d, text) /\ Kept(d, text)
          BY <3>1, <3>3, <4>1 DEF ResultIn, Kept
        <4>3. \A tag \in c[text].tags :
                tag \in AllTags /\ (KeptApart(tag) => text \in LoadTagRegistry(c, tag))
          BY <2>1, <3>1, <4>1 DEF ListedIn, Contents
        <4>4. ListedIn(d, text)
          BY <2>6, <3>1, <4>3 DEF ListedIn
        <4> QED
          BY <3>2, <4>2, <4>4
      <3>4. CASE ~Kept(c, text)
        <4>1. RegistryIn(c, text)
          BY <3>1, <3>4 DEF Sound
        <4> QED
          BY <3>1, <3>2, <3>4, <4>1 DEF RegistryIn, Kept
      <3> QED
        BY <3>3, <3>4
    <2>12. Sound(d)
      BY <2>3, <2>8, <2>10, <2>11 DEF Sound
    <2>13. \A text \in DOMAIN d : TaggedIn(d, text)
      BY <2>8, <2>9, <2>11
    <2> QED
      BY <2>12, <2>13 DEF d
  <1> QED
    BY <1>1, <1>2

(* Invalidating tags keeps it sound: what is removed is unlisted with its  *)
(* registry, what is left keeps its own.                                   *)
LEMMA InvalidateTagsSound ==
  ASSUME NEW c, Sound(c), hasTags, NEW tags \in Seq(AllTags), \A text \in DOMAIN c : TaggedIn(c, text)
  PROVE  LET d == InvalidateTags(c, tags)
         IN Sound(d) /\ \A text \in DOMAIN d : TaggedIn(d, text)
  <1> DEFINE d == InvalidateTags(c, tags)
  <1>1. /\ d \in Caches /\ DOMAIN d \subseteq DOMAIN c
        /\ \A text \in DOMAIN c : (\A tag \in Range(tags) : text \notin Gone(c, tag)) => text \in DOMAIN d
        /\ \A text \in DOMAIN d : d[text] = c[text]
        /\ \A tag \in Range(tags) : KeptApart(tag) => LoadTagRegistry(c, tag) \cap DOMAIN d = {}
    <2>1. c \in Caches
      BY DEF Sound
    <2> QED
      BY <2>1, InvalidateTagsRemoves
  <1> HIDE DEF d
  <1>2. Range(tags) \subseteq AllTags /\ \A text \in DOMAIN c : c[text] \in Contents
    BY CachesAre DEF Range, Sound
  <1>3. \A text \in DOMAIN d : TaggedIn(d, text)
    BY <1>1 DEF TaggedIn, Kept
  <1>4. ASSUME NEW text \in DOMAIN d, Kept(d, text)
        PROVE  ResultIn(d, text) /\ ListedIn(d, text)
    <2>1. text \in DOMAIN c /\ d[text] = c[text] /\ Kept(c, text)
      BY <1>1, <1>4 DEF Kept
    <2>2. ResultIn(c, text) /\ ListedIn(c, text)
      BY <2>1 DEF Sound
    <2>3. ResultIn(d, text)
      BY <2>1, <2>2 DEF ResultIn
    <2>4. ASSUME NEW tag \in d[text].tags, KeptApart(tag) PROVE text \in LoadTagRegistry(d, tag)
      <3>1. tag \in AllTags /\ text \in LoadTagRegistry(c, tag)
        BY <1>2, <2>1, <2>2, <2>4 DEF ListedIn, Contents
      <3>2. TagRegistryKey(tag) \in DOMAIN c
        BY <3>1 DEF LoadTagRegistry
      <3>3. ASSUME NEW t \in Range(tags) PROVE TagRegistryKey(tag) \notin Gone(c, t)
        <4>1. TagRegistryKey(tag) \notin LoadTagRegistry(c, t)
          <5>1. c \in Caches
            BY DEF Sound
          <5> QED
            BY <2>4, <5>1, LoadTyped DEF KeptApart
        <4>2. t # tag
          BY <1>1, <2>4, <3>1
        <4>3. TagRegistryKey(tag) # TagRegistryKey(t)
          BY <1>2, <3>1, <4>2, TagsTexts, RegistryKeysTell
        <4> QED
          BY <4>1, <4>3 DEF Gone
      <3>4. TagRegistryKey(tag) \in DOMAIN d
        BY <1>1, <3>2, <3>3
      <3> QED
        BY <1>1, <3>1, <3>2, <3>4 DEF LoadTagRegistry
    <2> QED
      BY <2>3, <2>4 DEF ListedIn
  <1>5. ASSUME NEW text \in DOMAIN d, ~Kept(d, text) PROVE RegistryIn(d, text)
    <2>1. text \in DOMAIN c /\ d[text] = c[text] /\ ~Kept(c, text)
      BY <1>1, <1>5 DEF Kept
    <2>2. RegistryIn(c, text)
      BY <2>1 DEF Sound
    <2> QED
      BY <2>1, <2>2 DEF RegistryIn
  <1>6. Sound(d)
    BY <1>1, <1>4, <1>5 DEF Sound
  <1> QED
    BY <1>3, <1>6 DEF d

(* Without registries, so does removing anything.                          *)
LEMMA RemovalSound ==
  ASSUME NEW c, Sound(c), ~hasTags, \A text \in DOMAIN c : TaggedIn(c, text),
         NEW d \in Caches, DOMAIN d \subseteq DOMAIN c, \A text \in DOMAIN d : d[text] = c[text]
  PROVE  Sound(d) /\ \A text \in DOMAIN d : TaggedIn(d, text)
  <1>1. \A text \in DOMAIN d : TaggedIn(d, text)
    BY DEF TaggedIn, Kept
  <1>2. ASSUME NEW text \in DOMAIN d PROVE Kept(d, text) /\ ResultIn(d, text) /\ ListedIn(d, text)
    <2>1. text \in DOMAIN c /\ d[text] = c[text]
      OBVIOUS
    <2>2. Kept(c, text) /\ ResultIn(c, text)
      BY <2>1 DEF Sound, RegistryIn
    <2>3. d[text].tags = {}
      <3>1. PICK q \in Requests : text = q.key /\ c[text].of = {q.read}
        BY <2>2 DEF ResultIn
      <3> QED
        BY <2>1, <2>2, <3>1 DEF TaggedIn
    <2> QED
      BY <2>1, <2>2, <2>3 DEF Kept, ResultIn, ListedIn
  <1> QED
    BY <1>1, <1>2 DEF Sound
-----------------------------------------------------------------------------
(* From one state to the next.                                             *)
LEMMA InvSound ==
  SharedInv => Sound(cache) /\ \A text \in DOMAIN cache : TaggedIn(cache, text)
  <1> SUFFICES ASSUME SharedInv
               PROVE  Sound(cache) /\ \A text \in DOMAIN cache : TaggedIn(cache, text)
    OBVIOUS
  <1> USE DEF SharedInv
  <1>1. ASSUME NEW text \in DOMAIN cache, Kept(cache, text)
        PROVE  ResultIn(cache, text) /\ ListedIn(cache, text) /\ text \in Space /\ TaggedIn(cache, text)
    <2>1. PICK q \in Requests :
            /\ text = q.key /\ cache[text].of = {q.read}
            /\ IF hasTags THEN Range(q.tags) \subseteq cache[text].tags ELSE cache[text].tags = {}
      BY <1>1 DEF ResultsOK, IsResult, Kept
    <2>2. cache[text].keys = {}
      BY <1>1 DEF SharedTypeOK, Kept
    <2>3. \A tag \in cache[text].tags : KeptApart(tag) => text \in LoadTagRegistry(cache, tag)
      BY <1>1 DEF TaggedIsRegistered, IsResult, Kept
    <2>4. text \in Space
      BY <2>1, RequestsAre DEF Space
    <2>5. ASSUME NEW p \in Requests, cache[text].of = {p.read}
          PROVE  IF hasTags THEN Range(p.tags) \subseteq cache[text].tags ELSE cache[text].tags = {}
      <3>1. p.read = q.read
        BY <2>1, <2>5
      <3> QED
        BY <2>1, <3>1, RequestsSame
    <2> QED
      BY <2>1, <2>2, <2>3, <2>4, <2>5 DEF ResultIn, ListedIn, TaggedIn
  <1>2. ASSUME NEW text \in DOMAIN cache, ~Kept(cache, text)
        PROVE  RegistryIn(cache, text) /\ text \in Space
    <2>1. /\ hasTags
          /\ \E tag \in AllTags :
               /\ text = TagRegistryKey(tag)
               /\ \A key \in cache[text].keys :
                    \E q \in Requests : q.key = key /\ tag \in OwnTags \cup Range(q.tags)
      BY <1>2 DEF RegistriesOK, IsResult, Kept
    <2>2. cache[text].keys # {}
      <3>1. Cardinality({}) # 1
        BY FS_EmptySet
      <3> QED
        BY <1>2, <3>1 DEF SharedTypeOK, Kept
    <2> QED
      BY <2>1, <2>2, RegistryKeysIn DEF RegistryIn
  <1>3. cache \in Caches
    <2>1. DOMAIN cache \subseteq Space
      BY <1>1, <1>2
    <2>2. cache \in [DOMAIN cache -> Contents]
      BY DEF ContentsOK
    <2> HIDE DEF SharedInv
    <2> QED
      BY <2>1, <2>2, CachesAre
  <1> HIDE DEF SharedInv
  <1>4. \A text \in DOMAIN cache : TaggedIn(cache, text)
    BY <1>1 DEF TaggedIn
  <1> QED
    BY <1>1, <1>2, <1>3, <1>4 DEF Sound

LEMMA SoundStep ==
  ASSUME Sound(cache'), \A text \in DOMAIN cache' : TaggedIn(cache', text),
         hasTags' = hasTags, hasTags \in BOOLEAN, calls' \in 0..MaxCalls,
         last'.call \in {"none", "read", "mistyped", "failed", "update", "delete", "tag"}, MixedUpOnlyByLookalikes'
  PROVE  SharedInv'
  <1>1. cache' \in [DOMAIN cache' -> Contents]
    BY CachesAre DEF Sound
  <1>2. ASSUME NEW text \in DOMAIN cache', cache'[text].of # {}
        PROVE  /\ cache'[text].keys = {}
               /\ \E q \in Requests :
                    /\ text = q.key /\ cache'[text].of = {q.read}
                    /\ IF hasTags THEN Range(q.tags) \subseteq cache'[text].tags
                       ELSE cache'[text].tags = {}
               /\ \A tag \in cache'[text].tags : KeptApart(tag) => text \in LoadTagRegistry(cache', tag)
    <2>1. Kept(cache', text) /\ ResultIn(cache', text) /\ ListedIn(cache', text) /\ TaggedIn(cache', text)
      BY <1>2 DEF Sound, Kept
    <2>2. PICK q \in Requests : text = q.key /\ cache'[text].of = {q.read}
      BY <2>1 DEF ResultIn
    <2>3. IF hasTags THEN Range(q.tags) \subseteq cache'[text].tags ELSE cache'[text].tags = {}
      BY <2>1, <2>2 DEF TaggedIn
    <2> QED
      BY <2>1, <2>2, <2>3 DEF ResultIn, ListedIn
  <1>3. ASSUME NEW text \in DOMAIN cache', cache'[text].of = {}
        PROVE  /\ hasTags /\ cache'[text].keys # {}
               /\ \E tag \in AllTags :
                    /\ text = TagRegistryKey(tag)
                    /\ \A key \in cache'[text].keys :
                         \E q \in Requests : q.key = key /\ tag \in OwnTags \cup Range(q.tags)
    <2>1. RegistryIn(cache', text)
      BY <1>3 DEF Sound, Kept
    <2> QED
      BY <2>1 DEF RegistryIn
  <1>4. SharedTypeOK'
    <2>1. ASSUME NEW text \in DOMAIN cache'
          PROVE  \/ /\ cache'[text].of \in SUBSET Reads /\ Cardinality(cache'[text].of) = 1
                    /\ cache'[text].keys = {}
                 \/ cache'[text].of = {} /\ cache'[text].keys \in (SUBSET AllKeyTexts) \ {{}}
      <3>1. cache'[text].keys \in SUBSET AllKeyTexts
        BY <1>1 DEF Contents
      <3>2. CASE cache'[text].of # {}
        <4>1. PICK q \in Requests : cache'[text].of = {q.read}
          BY <1>2, <3>2
        <4>2. q.read \in Reads /\ Cardinality({q.read}) = 1
          BY RequestsAre, FS_Singleton
        <4> QED
          BY <1>2, <3>2, <4>1, <4>2
      <3> QED
        BY <1>3, <3>1, <3>2
    <2> QED
      BY <2>1 DEF SharedTypeOK
  <1>5. ContentsOK'
    BY <1>1 DEF ContentsOK
  <1>6. ResultsOK'
    BY <1>2 DEF ResultsOK, IsResult
  <1>7. RegistriesOK'
    BY <1>3 DEF RegistriesOK, IsResult
  <1>8. TaggedIsRegistered'
    BY <1>2 DEF TaggedIsRegistered, IsResult, LoadTagRegistry
  <1>9. CachedOnce'
    <2>1. SUFFICES ASSUME NEW a \in DOMAIN cache', NEW b \in DOMAIN cache',
                          cache'[a].of # {}, cache'[a].of = cache'[b].of
                   PROVE  a = b
      BY DEF CachedOnce, IsResult
    <2>2. PICK q \in Requests : a = q.key /\ cache'[a].of = {q.read}
      BY <1>2, <2>1
    <2>3. PICK p \in Requests : b = p.key /\ cache'[b].of = {p.read}
      BY <1>2, <2>1
    <2>4. q.read = p.read
      BY <2>1, <2>2, <2>3
    <2>5. PICK s \in Signatures(q.read.scope) : a = KeyText(q.read, s)
      BY <2>2, RequestsAre
    <2>6. PICK u \in Signatures(q.read.scope) : b = KeyText(q.read, u)
      BY <2>3, <2>4, RequestsAre
    <2>7. q.read.scope \in Scopes
      BY RequestsAre, ReadsAre
    <2> QED
      BY <2>5, <2>6, <2>7, SignaturesStable
  <1> QED
    BY <1>4, <1>5, <1>6, <1>7, <1>8, <1>9 DEF SharedInv

LEMMA InitInv == Init => SharedInv
  <1> SUFFICES ASSUME Init PROVE SharedInv
    OBVIOUS
  <1> USE DEF Init
  <1>1. cache = <<>> /\ DOMAIN cache = {}
    OBVIOUS
  <1>2. SharedTypeOK
    BY <1>1, CallsAssumption DEF SharedTypeOK
  <1>3. ContentsOK
    BY <1>1 DEF ContentsOK
  <1>4. ResultsOK /\ RegistriesOK /\ TaggedIsRegistered /\ CachedOnce
    BY <1>1 DEF ResultsOK, RegistriesOK, TaggedIsRegistered, CachedOnce
  <1>5. MixedUpOnlyByLookalikes
    BY DEF MixedUpOnlyByLookalikes
  <1> QED
    BY <1>2, <1>3, <1>4, <1>5 DEF SharedInv

(* The steps.                                                              *)
LEMMA ReadMissInv ==
  ASSUME SharedInv, NEW q \in Requests, NEW context \in Contexts, ReadMiss(q, context)
  PROVE  SharedInv'
  <1> DEFINE c == With(cache, q.key, Result(q.read))
  <1>1. Sound(cache) /\ \A text \in DOMAIN cache : TaggedIn(cache, text)
    BY InvSound
  <1>2. q.read \in Reads /\ q.key \in Space /\ q.key \in AllKeyTexts /\ q.key \notin DOMAIN cache
    BY RequestsAre DEF ReadMiss, Space
  <1>3. /\ c \in Caches /\ DOMAIN c = DOMAIN cache \cup {q.key} /\ c[q.key] = Result(q.read)
        /\ \A text \in DOMAIN cache : c[text] = cache[text]
    <2>1. PICK key \in Space, new \in Contents : key = q.key /\ new = Result(q.read)
      BY <1>2 DEF Result, Contents
    <2>2. cache \in Caches
      BY <1>1 DEF Sound
    <2>3. /\ With(cache, key, new) \in Caches
          /\ DOMAIN With(cache, key, new) = DOMAIN cache \cup {key}
          /\ With(cache, key, new)[key] = new
          /\ \A t \in DOMAIN cache \ {key} : With(cache, key, new)[t] = cache[t]
      BY <2>2, WithHas
    <2> QED
      BY <1>2, <2>1, <2>3
  <1>4. cache' = RegisterTags(c, q, context)
    BY DEF ReadMiss
  <1> HIDE DEF c
  <1>5. ASSUME NEW text \in DOMAIN cache
        PROVE  /\ IF Kept(c, text) THEN ResultIn(c, text) /\ ListedIn(c, text) ELSE RegistryIn(c, text)
               /\ TaggedIn(c, text)
    <2>1. c[text] = cache[text]
      BY <1>3
    <2>2. \A tag : LoadTagRegistry(cache, tag) \subseteq LoadTagRegistry(c, tag)
      BY <1>3 DEF LoadTagRegistry
    <2>3. /\ IF Kept(cache, text) THEN ResultIn(cache, text) /\ ListedIn(cache, text)
             ELSE RegistryIn(cache, text)
          /\ TaggedIn(cache, text)
      BY <1>1 DEF Sound
    <2>4. /\ Kept(c, text) <=> Kept(cache, text)
          /\ ResultIn(c, text) <=> ResultIn(cache, text)
          /\ RegistryIn(c, text) <=> RegistryIn(cache, text)
          /\ TaggedIn(c, text) <=> TaggedIn(cache, text)
      BY <2>1 DEF Kept, ResultIn, RegistryIn, TaggedIn
    <2>5. ListedIn(cache, text) => ListedIn(c, text)
      BY <2>1, <2>2 DEF ListedIn
    <2> QED
      BY <2>3, <2>4, <2>5
  <1>6. /\ Kept(c, q.key) /\ ResultIn(c, q.key) /\ ListedIn(c, q.key)
        /\ ~hasTags => TaggedIn(c, q.key)
        /\ c[q.key].of = {q.read}
    <2>1. c[q.key].of = {q.read} /\ c[q.key].tags = {} /\ c[q.key].keys = {}
      BY <1>3 DEF Result
    <2> QED
      BY <2>1 DEF Kept, ResultIn, ListedIn, TaggedIn
  <1>7. Sound(c)
    BY <1>3, <1>5, <1>6 DEF Sound
  <1>8. \A text \in DOMAIN c :
          TaggedIn(c, text) \/ (hasTags /\ text = q.key /\ c[q.key].of = {q.read})
    BY <1>3, <1>5, <1>6
  <1>9. q.key \in DOMAIN c
    BY <1>3
  <1>10. Sound(cache') /\ \A text \in DOMAIN cache' : TaggedIn(cache', text)
    BY <1>4, <1>6, <1>7, <1>8, <1>9, RegisterTagsSound
  <1>11. /\ hasTags' = hasTags /\ hasTags \in BOOLEAN /\ calls' \in 0..MaxCalls
         /\ last' = [call |-> "read", read |-> q.read, of |-> {q.read}]
    BY CallsAssumption DEF ReadMiss, Called, SharedInv, SharedTypeOK
  <1>12. MixedUpOnlyByLookalikes'
    BY <1>11 DEF MixedUpOnlyByLookalikes
  <1> QED
    BY <1>10, <1>11, <1>12, SoundStep

(* A result cached under the key of a read is the answer to a lookalike.   *)
LEMMA CachedAlike ==
  ASSUME Sound(cache), NEW q \in Requests, q.key \in DOMAIN cache, Kept(cache, q.key)
  PROVE  \E r \in Reads : cache[q.key].of = {r} /\ Lookalikes(r, q.read)
  <1>1. ResultIn(cache, q.key)
    BY DEF Sound
  <1>2. PICK p \in Requests : q.key = p.key /\ cache[q.key].of = {p.read}
    BY <1>1 DEF ResultIn
  <1>3. Lookalikes(p.read, q.read) /\ p.read \in Reads
    BY <1>2, RequestsTell, RequestsAre
  <1> QED
    BY <1>2, <1>3

LEMMA ReadHitInv ==
  ASSUME SharedInv, NEW q \in Requests, NEW context \in Contexts, ReadHit(q, context)
  PROVE  SharedInv'
  <1>1. Sound(cache) /\ \A text \in DOMAIN cache : TaggedIn(cache, text)
    BY InvSound
  <1>2. q.key \in DOMAIN cache /\ cache' = RegisterTags(cache, q, context) /\ Assertable(cache[q.key], q.read)
    BY DEF ReadHit
  <1>3. Kept(cache, q.key)
    BY <1>2 DEF Kept, Assertable
  <1>4. Sound(cache') /\ \A text \in DOMAIN cache' : TaggedIn(cache', text)
    BY <1>1, <1>2, <1>3, RegisterTagsSound
  <1>5. /\ hasTags' = hasTags /\ hasTags \in BOOLEAN /\ calls' \in 0..MaxCalls
        /\ last' = [call |-> "read", read |-> q.read, of |-> cache[q.key].of]
    BY CallsAssumption DEF ReadHit, Called, SharedInv, SharedTypeOK
  <1>6. PICK r \in Reads : cache[q.key].of = {r} /\ Lookalikes(r, q.read)
    BY <1>1, <1>2, <1>3, CachedAlike
  <1>7. ResultType(r) = ResultType(q.read)
    BY <1>2, <1>6 DEF Assertable
  <1>8. MixedUpOnlyByLookalikes'
    <2>1. r = q.read \/ r \in Reads \ {q.read}
      OBVIOUS
    <2> QED
      BY <1>5, <1>6, <1>7, <2>1 DEF MixedUpOnlyByLookalikes
  <1> QED
    BY <1>4, <1>5, <1>8, SoundStep

LEMMA ReadMistypedInv ==
  ASSUME SharedInv, NEW q \in Requests, ReadMistyped(q)
  PROVE  SharedInv'
  <1>1. Sound(cache) /\ \A text \in DOMAIN cache : TaggedIn(cache, text)
    BY InvSound
  <1>2. q.key \in DOMAIN cache /\ cache' = cache /\ ~Assertable(cache[q.key], q.read)
    BY DEF ReadMistyped
  <1>3. /\ hasTags' = hasTags /\ hasTags \in BOOLEAN /\ calls' \in 0..MaxCalls
        /\ last' = [call |-> "mistyped", read |-> q.read, of |-> cache[q.key].of]
    BY CallsAssumption DEF ReadMistyped, Called, SharedInv, SharedTypeOK
  <1>4. CASE Kept(cache, q.key)
    <2>1. PICK r \in Reads : cache[q.key].of = {r} /\ Lookalikes(r, q.read)
      BY <1>1, <1>2, <1>4, CachedAlike
    <2>2. ResultType(r) # ResultType(q.read)
      BY <1>2, <2>1 DEF Assertable
    <2>3. r \in Reads \ {q.read}
      BY <2>2
    <2>4. MixedUpOnlyByLookalikes'
      BY <1>3, <2>1, <2>2, <2>3 DEF MixedUpOnlyByLookalikes
    <2> QED
      BY <1>1, <1>2, <1>3, <2>4, SoundStep
  <1>5. CASE ~Kept(cache, q.key)
    <2>1. PICK tag \in AllTags : q.key = TagRegistryKey(tag)
      BY <1>1, <1>2, <1>5 DEF Sound, RegistryIn
    <2>2. TakenForTag(q.read)
      BY <2>1, RequestsAre, RegistriesApart
    <2>3. MixedUpOnlyByLookalikes'
      BY <1>3, <1>5, <2>2 DEF MixedUpOnlyByLookalikes, Kept
    <2> QED
      BY <1>1, <1>2, <1>3, <2>3, SoundStep
  <1> QED
    BY <1>4, <1>5

LEMMA ReadFailsInv ==
  ASSUME SharedInv, ReadFails
  PROVE  SharedInv'
  <1>1. Sound(cache) /\ \A text \in DOMAIN cache : TaggedIn(cache, text)
    BY InvSound
  <1>2. /\ hasTags' = hasTags /\ hasTags \in BOOLEAN /\ calls' \in 0..MaxCalls
        /\ last' = [call |-> "failed"] /\ cache' = cache
    BY CallsAssumption DEF ReadFails, Called, SharedInv, SharedTypeOK
  <1>3. MixedUpOnlyByLookalikes'
    BY <1>2 DEF MixedUpOnlyByLookalikes
  <1> QED
    BY <1>1, <1>2, <1>3, SoundStep
-----------------------------------------------------------------------------
(* Writes: what they leave is part of what there was.                      *)
UpdateFallback(w) == InvalidateQueries(InvalidateRecordCaches(cache, w.type, w.arg), w.type)

DeletionFallback(w) ==
  InvalidateQueries(
    DeleteMethod(DeleteMethod(cache, w.type, "GetByID"), w.type, "GetByIdentifier"), w.type)

LEMMA WritesAre ==
  /\ \A w \in Updates : /\ w.call = "update" /\ w.type \in Types /\ w.scope \in Scopes /\ w.arg \in Ids
                        /\ \E scopeTag \in ScopeTags(w.type, w.scope) :
                             w.tags = WriteInvalidationTags(w.type, scopeTag, w.arg)
                        /\ w.tags \in Seq(AllTags)
  /\ \A w \in Deletions : /\ w.call = "delete" /\ w.type \in Types /\ w.scope \in Scopes
                          /\ \E scopeTag \in ScopeTags(w.type, w.scope) :
                               w.tags = <<ListTag(w.type), scopeTag>>
                          /\ w.tags \in Seq(AllTags)
  <1>1. \A tags \in Seq(DecoratorTags) : tags \in Seq(AllTags)
    BY DEF AllTags
  <1>2. ASSUME NEW w \in Updates
        PROVE  /\ w.call = "update" /\ w.type \in Types /\ w.scope \in Scopes /\ w.arg \in Ids
               /\ \E scopeTag \in ScopeTags(w.type, w.scope) :
                    w.tags = WriteInvalidationTags(w.type, scopeTag, w.arg)
    BY DEF Updates
  <1>3. ASSUME NEW w \in Deletions
        PROVE  /\ w.call = "delete" /\ w.type \in Types /\ w.scope \in Scopes
               /\ \E scopeTag \in ScopeTags(w.type, w.scope) : w.tags = <<ListTag(w.type), scopeTag>>
    BY DEF Deletions
  <1> QED
    BY <1>1, <1>2, <1>3, WriteTagsAre

LEMMA UpdateFallbackRemoves ==
  ASSUME cache \in Caches, NEW w \in Updates
  PROVE  /\ UpdateFallback(w) \in Caches
         /\ \A text : text \in DOMAIN UpdateFallback(w) <=>
              /\ text \in DOMAIN cache
              /\ ~IsPrefix(MethodPrefix(w.type, "GetByID", w.arg), text)
              /\ ~IsPrefix(MethodPrefix(w.type, "GetByIdentifier", w.arg), text)
              /\ \A m \in QueryMethods : ~OfMethod(w.type, m, text)
         /\ \A text \in DOMAIN UpdateFallback(w) : UpdateFallback(w)[text] = cache[text]
  <1> DEFINE P == MethodPrefix(w.type, "GetByID", w.arg)
             Q == MethodPrefix(w.type, "GetByIdentifier", w.arg)
             c == DeleteByPrefix(cache, P)
             d == DeleteByPrefix(c, Q)
  <1>1. UpdateFallback(w) = InvalidateQueries(d, w.type) /\ w.type \in Types
    BY WritesAre DEF UpdateFallback, InvalidateRecordCaches
  <1> HIDE DEF P, Q
  <1>2. /\ c \in Caches
        /\ \A text : text \in DOMAIN c <=> text \in DOMAIN cache /\ ~IsPrefix(P, text)
        /\ \A text \in DOMAIN c : c[text] = cache[text]
    BY DeleteByPrefixRemoves
  <1> HIDE DEF c
  <1>3. /\ d \in Caches
        /\ \A text : text \in DOMAIN d <=> text \in DOMAIN c /\ ~IsPrefix(Q, text)
        /\ \A text \in DOMAIN d : d[text] = c[text]
    BY <1>2, DeleteByPrefixRemoves
  <1> HIDE DEF d
  <1> DEFINE e == InvalidateQueries(d, w.type)
  <1>4. /\ e \in Caches
        /\ \A text : text \in DOMAIN e <=>
             text \in DOMAIN d /\ \A m \in QueryMethods : ~OfMethod(w.type, m, text)
        /\ \A text \in DOMAIN e : e[text] = d[text]
    BY <1>1, <1>3, InvalidateQueriesRemoves
  <1> HIDE DEF e
  <1>5. \A text : text \in DOMAIN e <=>
          /\ text \in DOMAIN cache /\ ~IsPrefix(P, text) /\ ~IsPrefix(Q, text)
          /\ \A m \in QueryMethods : ~OfMethod(w.type, m, text)
    BY <1>2, <1>3, <1>4
  <1>6. \A text \in DOMAIN e : e[text] = cache[text]
    BY <1>2, <1>3, <1>4
  <1>7. UpdateFallback(w) = e
    BY <1>1 DEF e
  <1> QED
    BY <1>4, <1>5, <1>6, <1>7 DEF P, Q

LEMMA DeletionFallbackRemoves ==
  ASSUME cache \in Caches, NEW w \in Deletions
  PROVE  /\ DeletionFallback(w) \in Caches
         /\ \A text : text \in DOMAIN DeletionFallback(w) <=>
              /\ text \in DOMAIN cache
              /\ ~IsPrefix(MethodPrefixWithSeparator(w.type, "GetByID"), text)
              /\ ~IsPrefix(MethodPrefixWithSeparator(w.type, "GetByIdentifier"), text)
              /\ \A m \in QueryMethods : ~OfMethod(w.type, m, text)
         /\ \A text \in DOMAIN DeletionFallback(w) : DeletionFallback(w)[text] = cache[text]
  <1> DEFINE P == MethodPrefixWithSeparator(w.type, "GetByID")
             Q == MethodPrefixWithSeparator(w.type, "GetByIdentifier")
             c == DeleteByPrefix(cache, P)
             d == DeleteByPrefix(c, Q)
  <1>1. DeletionFallback(w) = InvalidateQueries(d, w.type) /\ w.type \in Types
    BY WritesAre DEF DeletionFallback, DeleteMethod
  <1> HIDE DEF P, Q
  <1>2. /\ c \in Caches
        /\ \A text : text \in DOMAIN c <=> text \in DOMAIN cache /\ ~IsPrefix(P, text)
        /\ \A text \in DOMAIN c : c[text] = cache[text]
    BY DeleteByPrefixRemoves
  <1> HIDE DEF c
  <1>3. /\ d \in Caches
        /\ \A text : text \in DOMAIN d <=> text \in DOMAIN c /\ ~IsPrefix(Q, text)
        /\ \A text \in DOMAIN d : d[text] = c[text]
    BY <1>2, DeleteByPrefixRemoves
  <1> HIDE DEF d
  <1> DEFINE e == InvalidateQueries(d, w.type)
  <1>4. /\ e \in Caches
        /\ \A text : text \in DOMAIN e <=>
             text \in DOMAIN d /\ \A m \in QueryMethods : ~OfMethod(w.type, m, text)
        /\ \A text \in DOMAIN e : e[text] = d[text]
    BY <1>1, <1>3, InvalidateQueriesRemoves
  <1> HIDE DEF e
  <1>5. \A text : text \in DOMAIN e <=>
          /\ text \in DOMAIN cache /\ ~IsPrefix(P, text) /\ ~IsPrefix(Q, text)
          /\ \A m \in QueryMethods : ~OfMethod(w.type, m, text)
    BY <1>2, <1>3, <1>4
  <1>6. \A text \in DOMAIN e : e[text] = cache[text]
    BY <1>2, <1>3, <1>4
  <1>7. DeletionFallback(w) = e
    BY <1>1 DEF e
  <1> QED
    BY <1>4, <1>5, <1>6, <1>7 DEF P, Q

LEMMA UpdateInv ==
  ASSUME SharedInv, NEW w \in Updates, UpdateRecord(w)
  PROVE  SharedInv'
  <1>1. Sound(cache) /\ \A text \in DOMAIN cache : TaggedIn(cache, text)
    BY InvSound
  <1>2. w.call = "update" /\ w.tags \in Seq(AllTags)
    BY WritesAre
  <1>3. /\ hasTags' = hasTags /\ hasTags \in BOOLEAN /\ calls' \in 0..MaxCalls /\ last' = w
        /\ cache' = IF hasTags THEN InvalidateTags(cache, w.tags) ELSE UpdateFallback(w)
    BY CallsAssumption DEF UpdateRecord, Called, SharedInv, SharedTypeOK, UpdateFallback
  <1>4. Sound(cache') /\ \A text \in DOMAIN cache' : TaggedIn(cache', text)
    <2>1. CASE hasTags
      BY <1>1, <1>2, <1>3, <2>1, InvalidateTagsSound
    <2>2. CASE ~hasTags
      <3>1. cache \in Caches /\ cache' = UpdateFallback(w)
        BY <1>1, <1>3, <2>2 DEF Sound
      <3>2. /\ cache' \in Caches /\ DOMAIN cache' \subseteq DOMAIN cache
            /\ \A text \in DOMAIN cache' : cache'[text] = cache[text]
        BY <3>1, UpdateFallbackRemoves
      <3> QED
        BY <1>1, <2>2, <3>2, RemovalSound
    <2> QED
      BY <2>1, <2>2
  <1>5. MixedUpOnlyByLookalikes'
    BY <1>2, <1>3 DEF MixedUpOnlyByLookalikes
  <1> QED
    BY <1>2, <1>3, <1>4, <1>5, SoundStep

LEMMA DeletionInv ==
  ASSUME SharedInv, NEW w \in Deletions, DeleteWhere(w)
  PROVE  SharedInv'
  <1>1. Sound(cache) /\ \A text \in DOMAIN cache : TaggedIn(cache, text)
    BY InvSound
  <1>2. w.call = "delete" /\ w.tags \in Seq(AllTags)
    BY WritesAre
  <1>3. /\ hasTags' = hasTags /\ hasTags \in BOOLEAN /\ calls' \in 0..MaxCalls /\ last' = w
        /\ cache' = IF hasTags THEN InvalidateTags(cache, w.tags) ELSE DeletionFallback(w)
    BY CallsAssumption DEF DeleteWhere, Called, SharedInv, SharedTypeOK, DeletionFallback
  <1>4. Sound(cache') /\ \A text \in DOMAIN cache' : TaggedIn(cache', text)
    <2>1. CASE hasTags
      BY <1>1, <1>2, <1>3, <2>1, InvalidateTagsSound
    <2>2. CASE ~hasTags
      <3>1. cache \in Caches /\ cache' = DeletionFallback(w)
        BY <1>1, <1>3, <2>2 DEF Sound
      <3>2. /\ cache' \in Caches /\ DOMAIN cache' \subseteq DOMAIN cache
            /\ \A text \in DOMAIN cache' : cache'[text] = cache[text]
        BY <3>1, DeletionFallbackRemoves
      <3> QED
        BY <1>1, <2>2, <3>2, RemovalSound
    <2> QED
      BY <2>1, <2>2
  <1>5. MixedUpOnlyByLookalikes'
    BY <1>2, <1>3 DEF MixedUpOnlyByLookalikes
  <1> QED
    BY <1>2, <1>3, <1>4, <1>5, SoundStep

LEMMA OwnTagInv ==
  ASSUME SharedInv, NEW tag \in OwnTags, InvalidateOwnTag(tag)
  PROVE  SharedInv'
  <1>1. Sound(cache) /\ \A text \in DOMAIN cache : TaggedIn(cache, text)
    BY InvSound
  <1>2. <<tag>> \in Seq(AllTags)
    BY DEF AllTags
  <1>3. /\ hasTags' = hasTags /\ hasTags /\ calls' \in 0..MaxCalls
        /\ last' = [call |-> "tag", tag |-> tag] /\ cache' = InvalidateTags(cache, <<tag>>)
    BY CallsAssumption DEF InvalidateOwnTag, Called, SharedInv, SharedTypeOK
  <1>4. Sound(cache') /\ \A text \in DOMAIN cache' : TaggedIn(cache', text)
    BY <1>1, <1>2, <1>3, InvalidateTagsSound
  <1>5. MixedUpOnlyByLookalikes'
    BY <1>3 DEF MixedUpOnlyByLookalikes
  <1> QED
    BY <1>3, <1>4, <1>5, SoundStep

LEMMA UnchangedInv ==
  ASSUME SharedInv, UNCHANGED vars
  PROVE  SharedInv'
  <1>1. cache' = cache /\ last' = last /\ calls' = calls /\ hasTags' = hasTags
    BY DEF vars
  <1>2. Sound(cache) /\ \A text \in DOMAIN cache : TaggedIn(cache, text)
    BY InvSound
  <1>3. /\ hasTags \in BOOLEAN /\ calls \in 0..MaxCalls
        /\ last.call \in {"none", "read", "mistyped", "failed", "update", "delete", "tag"}
        /\ MixedUpOnlyByLookalikes
    BY DEF SharedInv, SharedTypeOK
  <1>4. MixedUpOnlyByLookalikes'
    BY <1>1, <1>3 DEF MixedUpOnlyByLookalikes
  <1> QED
    BY <1>1, <1>2, <1>3, <1>4, SoundStep

LEMMA NextInv == SharedInv /\ [Next]_vars => SharedInv'
  <1> SUFFICES ASSUME SharedInv, [Next]_vars PROVE SharedInv'
    OBVIOUS
  <1>1. ASSUME NEW q \in Requests, NEW context \in Contexts, ReadMiss(q, context) \/ ReadHit(q, context)
        PROVE  SharedInv'
    BY <1>1, ReadMissInv, ReadHitInv
  <1>2. ASSUME NEW q \in Requests, ReadMistyped(q) PROVE SharedInv'
    BY <1>2, ReadMistypedInv
  <1>3. ASSUME NEW w \in Updates, UpdateRecord(w) PROVE SharedInv'
    BY <1>3, UpdateInv
  <1>4. ASSUME NEW w \in Deletions, DeleteWhere(w) PROVE SharedInv'
    BY <1>4, DeletionInv
  <1>5. ASSUME NEW tag \in OwnTags, InvalidateOwnTag(tag) PROVE SharedInv'
    BY <1>5, OwnTagInv
  <1>6. CASE ReadFails
    BY <1>6, ReadFailsInv
  <1>7. CASE UNCHANGED vars
    BY <1>7, UnchangedInv
  <1> QED
    BY <1>1, <1>2, <1>3, <1>4, <1>5, <1>6, <1>7 DEF Next

-----------------------------------------------------------------------------
(* SharedInv is an inductive invariant of several repositories on one      *)
(* service: every text it holds is the key of a read whose result is under *)
(* it, or that of a tag whose registry is.                                 *)
THEOREM SharedInvariant == Spec => []SharedInv
  BY InitInv, NextInv, PTL DEF Spec

(* What is cached is a result of one read or a registry of some keys, and  *)
(* a registry never is empty.                                              *)
THEOREM SharedTypeCorrect == Spec => []SharedTypeOK
  <1>1. SharedInv => SharedTypeOK
    BY DEF SharedInv
  <1> QED
    BY <1>1, SharedInvariant, PTL

(* GetOrFetch serves a read what the read would fetch, with the exceptions *)
(* the property has: the result of a read whose key does not tell it apart *)
(* (a type of the same name, a scope that serializes alike, an id that     *)
(* goes on after a separator), and the error a registry in its place is,   *)
(* for a type called Tag.                                                  *)
THEOREM ServedAsFetched == Spec => []MixedUpOnlyByLookalikes
  <1>1. SharedInv => MixedUpOnlyByLookalikes
    BY DEF SharedInv
  <1> QED
    BY <1>1, SharedInvariant, PTL

(* No read is cached under two keys.                                       *)
THEOREM ReadsCachedOnce == Spec => []CachedOnce
  <1>1. SharedInv => CachedOnce
    BY DEF SharedInv
  <1> QED
    BY <1>1, SharedInvariant, PTL

(* What is cached is in the registry of each tag it was read with, but for *)
(* a tag whose registry is under the key of a read: calls on any           *)
(* repository, and InvalidateTags, leave both or neither.                  *)
THEOREM ResultsStayRegistered == Spec => []TaggedIsRegistered
  <1>1. SharedInv => TaggedIsRegistered
    BY DEF SharedInv
  <1> QED
    BY <1>1, SharedInvariant, PTL

-----------------------------------------------------------------------------
(* A prefix is one of the first part of a text, where it does not continue *)
(* that part.                                                              *)
LEMMA PrefixOrContinues ==
  ASSUME NEW a \in Texts, NEW v \in Texts, NEW y \in Rests, ~Continues(v, a)
  PROVE  IsPrefix(a, Followed(v, y)) <=> IsPrefix(a, v)
  <1>1. y \in Texts /\ Followed(v, y) \in Texts
    <2>1. y \in Texts
      BY DEF Rests
    <2> QED
      BY <2>1, FollowedJoins
  <1>2. ASSUME IsPrefix(a, v) PROVE IsPrefix(a, Followed(v, y))
    <2>1. PICK r \in Texts : v = Followed(a, r)
      BY <1>2, PrefixFollows
    <2>2. Followed(v, y) = Followed(a, Followed(r, y)) /\ Followed(r, y) \in Texts
      BY <1>1, <2>1, FollowedJoins
    <2> QED
      BY <1>1, <2>2, PrefixFollows
  <1>3. ASSUME IsPrefix(a, Followed(v, y)) PROVE IsPrefix(a, v)
    <2>1. /\ a \in Seq(Tokens) /\ v \in Seq(Tokens) /\ y \in Seq(Tokens)
          /\ Len(a) \in Nat /\ Len(v) \in Nat /\ Len(y) \in Nat
          /\ y # <<>> => y[1] = Separator
      BY DEF Rests, Texts
    <2>2. Len(a) <= Len(v \o y) /\ \A i \in 1..Len(a) : (v \o y)[i] = a[i]
      BY <1>1, <1>3, PrefixPlaces DEF Followed
    <2>3. \A i \in 1..Len(v) : (v \o y)[i] = v[i]
      BY <2>1
    <2>4. Len(a) <= Len(v)
      <3>1. SUFFICES ASSUME Len(v) < Len(a) PROVE FALSE
        BY <2>1
      <3>2. Len(v \o y) = Len(v) + Len(y) /\ Len(y) > 0
        BY <2>1, <2>2, <3>1
      <3>3. (v \o y)[Len(v) + 1] = y[1] /\ y # <<>>
        BY <2>1, <3>2
      <3>4. Len(v) + 1 \in 1..Len(a) /\ \A i \in 1..Len(v) : i \in 1..Len(a)
        BY <2>1, <3>1
      <3>5. a[Len(v) + 1] = Separator /\ \A i \in 1..Len(v) : a[i] = v[i]
        BY <2>1, <2>2, <2>3, <3>3, <3>4
      <3> QED
        BY <3>1, <3>5, ContinuesPlaces
    <2>5. \A i \in 1..Len(a) : v[i] = a[i]
      BY <2>1, <2>2, <2>3, <2>4
    <2> QED
      BY <2>4, <2>5, PrefixPlaces
  <1> QED
    BY <1>2, <1>3

(* The keys of reads a prefix matches.                                     *)
LEMMA MethodTexts ==
  ASSUME NEW t \in Types, NEW m \in MethodNames, NEW x \in Rests
  PROVE  /\ MethodKey(t, m) \o x = Followed(Namespace(t), Segment(Followed(Word(m), x)))
         /\ MethodKey(t, m) = Followed(Namespace(t), Segment(Followed(Word(m), <<>>)))
         /\ Namespace(t) \in Plain /\ Word(m) \in Plain
         /\ Segment(Followed(Word(m), x)) \in Rests \ {<<>>} /\ Followed(Word(m), x) \in Texts
  <1>1. Namespace(t) \in Plain /\ Word(m) \in Plain
    BY TextsAssumption, WordsPlain
  <1>2. Namespace(t) \in Texts /\ Word(m) \in Texts /\ x \in Texts /\ Segment(Word(m)) \in Texts
    <2>1. Namespace(t) \in Texts /\ Word(m) \in Texts /\ x \in Texts
      BY <1>1 DEF Plain, Rests
    <2> QED
      BY <2>1, SegmentRest DEF Rests
  <1>3. MethodKey(t, m) = Followed(Namespace(t), Segment(Word(m))) /\ Followed(Word(m), <<>>) = Word(m)
    BY <1>2, FollowedJoins DEF MethodKey, Followed
  <1>4. Followed(Followed(Namespace(t), Segment(Word(m))), x) =
          Followed(Namespace(t), Segment(Followed(Word(m), x)))
    BY <1>2, FollowedJoins
  <1>5. MethodKey(t, m) \o x = Followed(MethodKey(t, m), x)
    BY DEF Followed
  <1>6. Followed(Word(m), x) \in Texts /\ Segment(Followed(Word(m), x)) \in Rests \ {<<>>}
    BY <1>1, FollowedRest, SegmentRest
  <1> QED
    BY <1>1, <1>3, <1>4, <1>5, <1>6

LEMMA KeysOfMethod ==
  ASSUME NEW t \in Types, NEW m \in MethodNames, NEW x \in Rests,
         NEW r \in Reads, NEW signature \in Signatures(r.scope)
  PROVE  /\ x # <<>> =>
              (IsPrefix(MethodKey(t, m) \o x, KeyText(r, signature)) <=>
                 /\ Namespace(r.type) = Namespace(t) /\ r.method = m
                 /\ IsPrefix(x, KeyTail(r, signature)))
         /\ KeyText(r, signature) = MethodKey(t, m) <=>
              /\ Namespace(r.type) = Namespace(t) /\ r.method = m
              /\ KeyTail(r, signature) = <<>>
  <1> DEFINE v == Namespace(t)
             w == Namespace(r.type)
             p == Word(m)
             q == Word(r.method)
             z == KeyTail(r, signature)
  <1>1. /\ MethodKey(t, m) \o x = Followed(v, Segment(Followed(p, x)))
        /\ MethodKey(t, m) = Followed(v, Segment(Followed(p, <<>>)))
        /\ v \in Plain /\ p \in Plain
        /\ Segment(Followed(p, x)) \in Rests \ {<<>>} /\ Followed(p, x) \in Texts
        /\ Segment(Followed(p, <<>>)) \in Rests \ {<<>>} /\ Followed(p, <<>>) \in Texts
    BY MethodTexts, NothingRest
  <1>2. /\ KeyText(r, signature) = Followed(w, Segment(Followed(q, z)))
        /\ w \in Plain /\ q \in Plain /\ z \in Rests
        /\ Segment(Followed(q, z)) \in Rests /\ Followed(q, z) \in Texts
    <2>1. Followed(q, z) \in Texts
      BY KeyParts, FollowedRest
    <2> QED
      BY <2>1, KeyParts DEF Followed
  <1>3. p = q <=> m = r.method
    BY ReadsAre, MethodsAssumption, WordsAssumption
  <1> HIDE DEF v, w, p, q, z
  <1>4. ASSUME x # <<>>
        PROVE  IsPrefix(MethodKey(t, m) \o x, KeyText(r, signature)) <=> v = w /\ p = q /\ IsPrefix(x, z)
    <2> DEFINE a == Segment(Followed(p, x))
               b == Segment(Followed(q, z))
    <2>1. IsPrefix(a, b) <=> IsPrefix(Followed(p, x), Followed(q, z))
      BY <1>1, <1>2, PrefixOfSegment
    <2>2. IsPrefix(Followed(p, x), Followed(q, z)) <=> p = q /\ IsPrefix(x, z)
      BY <1>1, <1>2, <1>4, PrefixOfWord
    <2>3. a \in Rests \ {<<>>} /\ b \in Rests
      BY <1>1, <1>2
    <2> HIDE DEF a, b
    <2>4. IsPrefix(Followed(v, a), Followed(w, b)) <=> v = w /\ IsPrefix(a, b)
      BY <1>1, <1>2, <2>3, PrefixOfWord
    <2>5. MethodKey(t, m) \o x = Followed(v, a) /\ KeyText(r, signature) = Followed(w, b)
      BY <1>1, <1>2 DEF a, b
    <2> QED
      BY <2>1, <2>2, <2>4, <2>5 DEF a, b
  <1>5. ASSUME KeyText(r, signature) = MethodKey(t, m) PROVE v = w /\ p = q /\ z = <<>>
    <2> DEFINE a == Segment(Followed(p, <<>>))
               b == Segment(Followed(q, z))
    <2>1. a \in Rests /\ b \in Rests /\ Followed(w, b) = Followed(v, a)
      BY <1>1, <1>2, <1>5
    <2> HIDE DEF a, b
    <2>2. v = w /\ a = b
      BY <1>1, <1>2, <2>1, SplitAtSeparator
    <2>3. Followed(q, z) = Followed(p, <<>>)
      BY <1>1, <1>2, <2>2, SegmentRest DEF a, b
    <2>4. p = q /\ z = <<>>
      BY <1>1, <1>2, <2>3, NothingRest, SplitAtSeparator
    <2> QED
      BY <2>2, <2>4
  <1>6. v = w /\ p = q /\ z = <<>> => KeyText(r, signature) = MethodKey(t, m)
    BY <1>1, <1>2
  <1> QED
    BY <1>3, <1>4, <1>5, <1>6 DEF v, w, z

(* What follows the method begins with the argument where there is one.    *)
LEMMA TailIs ==
  ASSUME NEW r \in Reads, NEW signature \in Signatures(r.scope)
  PROVE  /\ KeyTail(r, signature) \in Rests
         /\ r.method \in ByArg => /\ KeyTail(r, signature) # <<>> /\ r.arg \in Ids
                                  /\ r \in OneOfAKind =>
                                       \A a \in Ids : IsPrefix(Segment(a), KeyTail(r, signature))
                                                         <=> IsPrefix(a, r.arg)
         /\ r.method \notin ByArg => (KeyTail(r, signature) = <<>> <=> r.scope = <<>>)
  <1> DEFINE s == IF r.scope = <<>> THEN <<>> ELSE Segment(signature)
  <1>1. signature \in Texts
    BY ReadsAre, TextsAssumption
  <1>2. s \in Rests /\ s \in Texts /\ (s = <<>> <=> r.scope = <<>>)
    <2>1. Segment(signature) \in Rests \ {<<>>}
      BY <1>1, SegmentRest
    <2> QED
      BY <2>1, NothingRest DEF Rests
  <1>3. KeyTail(r, signature) = (IF r.arg = NoArg THEN <<>> ELSE Segment(r.arg)) \o s
    BY DEF KeyTail
  <1> HIDE DEF s
  <1>4. CASE r.method \in ByArg
    <2>1. r.arg \in Ids /\ r.arg # NoArg /\ \A a \in Ids : a \in Texts
      BY <1>4, ReadsAre, TextsAssumption DEF NoArg
    <2>2. Followed(Segment(r.arg), s) = Segment(Followed(r.arg, s)) /\ Followed(r.arg, s) \in Texts
      BY <1>2, <2>1, FollowedJoins
    <2>3. KeyTail(r, signature) = Segment(Followed(r.arg, s))
      BY <1>3, <2>1, <2>2 DEF Followed
    <2>4. KeyTail(r, signature) \in Rests \ {<<>>}
      BY <2>2, <2>3, SegmentRest
    <2>5. ASSUME NEW a \in Ids, r \in OneOfAKind
          PROVE  IsPrefix(Segment(a), KeyTail(r, signature)) <=> IsPrefix(a, r.arg)
      <3>1. IsPrefix(Segment(a), Segment(Followed(r.arg, s))) <=> IsPrefix(a, Followed(r.arg, s))
        BY <2>1, <2>2, PrefixOfSegment
      <3>2. IsPrefix(a, Followed(r.arg, s)) <=> IsPrefix(a, r.arg)
        BY <1>2, <2>1, <2>5, PrefixOrContinues DEF OneOfAKind
      <3> QED
        BY <2>3, <3>1, <3>2
    <2> QED
      BY <1>4, <2>1, <2>4, <2>5
  <1>5. CASE r.method \notin ByArg
    <2>1. KeyTail(r, signature) = Followed(<<>>, s)
      BY <1>3, <1>5, ReadsAre DEF Followed
    <2>2. Followed(<<>>, s) = s
      BY <1>2 DEF Followed, Texts
    <2> QED
      BY <1>2, <1>5, <2>1, <2>2
  <1> QED
    BY <1>4, <1>5

LEMMA PrefixesReach ==
  ASSUME NEW t \in Types, NEW r \in Reads, NEW signature \in Signatures(r.scope)
  PROVE  /\ r \in OneOfAKind => \A m \in {"GetByID", "GetByIdentifier"}, a \in Ids :
              IsPrefix(MethodPrefix(t, m, a), KeyText(r, signature)) <=>
                Namespace(r.type) = Namespace(t) /\ r.method = m /\ IsPrefix(a, r.arg)
         /\ \A m \in {"GetByID", "GetByIdentifier"} :
              IsPrefix(MethodPrefixWithSeparator(t, m), KeyText(r, signature)) <=>
                Namespace(r.type) = Namespace(t) /\ r.method = m
         /\ \A m \in QueryMethods :
              OfMethod(t, m, KeyText(r, signature)) <=>
                Namespace(r.type) = Namespace(t) /\ r.method = m
  <1>1. r.method \in Methods /\ QueryMethods \subseteq MethodNames
    BY ReadsAre DEF QueryMethods, MethodNames
  <1>2. \A m \in {"GetByID", "GetByIdentifier"} :
          m \in MethodNames /\ (r.method = m => r.method \in ByArg)
    BY <1>1 DEF MethodNames, ByArg
  <1>3. ASSUME r \in OneOfAKind, NEW m \in {"GetByID", "GetByIdentifier"}, NEW a \in Ids
        PROVE  IsPrefix(MethodPrefix(t, m, a), KeyText(r, signature)) <=>
                 Namespace(r.type) = Namespace(t) /\ r.method = m /\ IsPrefix(a, r.arg)
    <2>1. Segment(a) \in Rests \ {<<>>}
      <3>1. a \in Texts
        BY TextsAssumption
      <3> QED
        BY <3>1, SegmentRest
    <2>2. IsPrefix(MethodKey(t, m) \o Segment(a), KeyText(r, signature)) <=>
            /\ Namespace(r.type) = Namespace(t) /\ r.method = m
            /\ IsPrefix(Segment(a), KeyTail(r, signature))
      BY <1>2, <2>1, KeysOfMethod
    <2> QED
      BY <1>2, <1>3, <2>2, TailIs DEF MethodPrefix
  <1>4. ASSUME NEW m \in MethodNames
        PROVE  IsPrefix(MethodPrefixWithSeparator(t, m), KeyText(r, signature)) <=>
                 /\ Namespace(r.type) = Namespace(t) /\ r.method = m
                 /\ KeyTail(r, signature) # <<>>
    <2>1. <<>> \in Texts /\ Segment(<<>>) \in Rests \ {<<>>}
      <3>1. <<>> \in Texts
        BY DEF Texts
      <3> QED
        BY <3>1, SegmentRest
    <2>2. IsPrefix(MethodKey(t, m) \o Segment(<<>>), KeyText(r, signature)) <=>
            /\ Namespace(r.type) = Namespace(t) /\ r.method = m
            /\ IsPrefix(Segment(<<>>), KeyTail(r, signature))
      BY <2>1, KeysOfMethod
    <2> QED
      BY <2>2, TailIs, SeparatorPrefix DEF MethodPrefixWithSeparator
  <1>5. ASSUME NEW m \in {"GetByID", "GetByIdentifier"}
        PROVE  IsPrefix(MethodPrefixWithSeparator(t, m), KeyText(r, signature)) <=>
                 Namespace(r.type) = Namespace(t) /\ r.method = m
    BY <1>2, <1>4, TailIs
  <1>6. ASSUME NEW m \in QueryMethods
        PROVE  OfMethod(t, m, KeyText(r, signature)) <=> Namespace(r.type) = Namespace(t) /\ r.method = m
    <2>1. KeyText(r, signature) = MethodKey(t, m) <=>
            /\ Namespace(r.type) = Namespace(t) /\ r.method = m
            /\ KeyTail(r, signature) = <<>>
      BY <1>1, NothingRest, KeysOfMethod
    <2>2. m \in MethodNames
      BY <1>1
    <2> QED
      BY <1>4, <2>1, <2>2 DEF OfMethod
  <1> QED
    BY <1>3, <1>5, <1>6
-----------------------------------------------------------------------------
(* What RepositoryKeys plans.                                              *)
PlannedTags == {Planned!ListTag} \cup {Planned!ScopeTag(Signatures(s)) : s \in Scopes}
               \cup {Planned!IdTag(i) : i \in Ids} \cup {Planned!IdentifierTag(i) : i \in Ids}

LEMMA PlannedAppendTagAdds ==
  ASSUME NEW ts \in Seq(PlannedTags), NEW t \in PlannedTags
  PROVE  /\ Planned!AppendTag(ts, t) \in Seq(PlannedTags)
         /\ Range(Planned!AppendTag(ts, t)) = Range(ts) \cup {t}
  <1>1. ts \in Seq(PlannedTags) /\ DOMAIN ts = 1..Len(ts) /\ Len(ts) \in Nat
    OBVIOUS
  <1>2. CASE \E i \in 1..Len(ts) : ts[i] = t
    <2>1. Planned!AppendTag(ts, t) = ts /\ t \in Range(ts)
      BY <1>1, <1>2 DEF Planned!AppendTag, Planned!Contains, Range
    <2> QED
      BY <2>1
  <1>3. CASE ~\E i \in 1..Len(ts) : ts[i] = t
    <2>1. Planned!AppendTag(ts, t) = Append(ts, t)
      BY <1>1, <1>3 DEF Planned!AppendTag, Planned!Contains
    <2>2. /\ Append(ts, t) \in Seq(PlannedTags) /\ DOMAIN Append(ts, t) = 1..(Len(ts) + 1)
          /\ Append(ts, t)[Len(ts) + 1] = t
          /\ \A i \in 1..Len(ts) : Append(ts, t)[i] = ts[i]
      BY <1>1
    <2>3. Range(Append(ts, t)) = Range(ts) \cup {t}
      BY <1>1, <2>2 DEF Range
    <2> QED
      BY <2>1, <2>2, <2>3
  <1> QED
    BY <1>2, <1>3

LEMMA PlannedAppendTagsAdds ==
  ASSUME NEW ts \in Seq(PlannedTags), NEW us \in Seq(PlannedTags)
  PROVE  /\ Planned!AppendTags(ts, us) \in Seq(PlannedTags)
         /\ Range(Planned!AppendTags(ts, us)) = Range(ts) \cup Range(us)
  <1> DEFINE V        == Seq(PlannedTags)
             step     == [v \in V |-> [t \in PlannedTags |-> Planned!AppendTag(v, t)]]
             elements == [t \in PlannedTags |-> {t}]
             Fold(f)  == f = [s \in SUBSET DOMAIN us |->
                                IF s = {} THEN ts
                                ELSE Planned!AppendTag(f[s \ {Max(s)}], us[Max(s)])]
             g        == CHOOSE f : Fold(f)
  <1>1. step \in [V -> [PlannedTags -> V]]
    BY PlannedAppendTagAdds
  <1>2. ASSUME NEW s \in SUBSET DOMAIN us, s # {} PROVE us[Max(s)] \in PlannedTags
    <2>1. s \in SUBSET (1..Len(us)) /\ Len(us) \in Nat
      OBVIOUS
    <2>2. Max(s) \in 1..Len(us)
      BY <1>2, <2>1, LastPosition
    <2> QED
      BY <2>2
  <1>3. \E f : Fold(f)
    <2>1. PICK f \in [SUBSET DOMAIN us -> V] : IsFold(f, step, ts, us)
      BY <1>1, FoldExists
    <2>2. ASSUME NEW s \in SUBSET DOMAIN us, s # {}
          PROVE  step[f[s \ {Max(s)}]][us[Max(s)]] = Planned!AppendTag(f[s \ {Max(s)}], us[Max(s)])
      BY <1>2, <2>2
    <2> QED
      BY <2>1, <2>2, ZenonT(30) DEF IsFold
  <1>4. Fold(g)
    BY <1>3
  <1>5. Planned!AppendTags(ts, us) = g[DOMAIN us]
    BY DEF Planned!AppendTags, Planned!FoldLeft, Planned!MapThenFoldSet, Planned!Max, Max
  <1>6. PICK h \in [0..Len(us) -> V] :
          /\ h[0] = ts /\ h[Len(us)] = g[DOMAIN us]
          /\ \A n \in 1..Len(us) : h[n] = step[h[n - 1]][us[n]]
    <2>1. g[{}] = ts
      BY <1>4
    <2>2. ASSUME NEW s \in SUBSET DOMAIN us, s # {}, g[s \ {Max(s)}] \in V
          PROVE  g[s] = step[g[s \ {Max(s)}]][us[Max(s)]]
      <3>1. g[s] = Planned!AppendTag(g[s \ {Max(s)}], us[Max(s)])
        BY <1>4, <2>2
      <3> HIDE DEF g
      <3> QED
        BY <1>2, <2>2, <3>1
    <2> HIDE DEF g, step
    <2>3. Folding(g, V, PlannedTags, step, ts, us)
      BY <1>1, <2>1, <2>2 DEF Folding
    <2> QED
      BY <2>3, FoldUnfolds
  <1>7. CollectingFold(h, V, PlannedTags, step, ts, us, elements)
    <2>1. \A v \in V, t \in PlannedTags : Range(step[v][t]) = Range(v) \cup elements[t]
      BY PlannedAppendTagAdds
    <2> HIDE DEF step, elements
    <2> QED
      BY <1>1, <1>6, <2>1 DEF CollectingFold
  <1>8. /\ h[Len(us)] \in V
        /\ \A x : x \in Range(h[Len(us)]) <=> x \in Range(ts) \/ \E i \in DOMAIN us : x \in elements[us[i]]
    <2> HIDE DEF step, elements
    <2> QED
      BY <1>7, FoldCollects
  <1>9. \A x : x \in Range(us) <=> \E i \in DOMAIN us : x \in elements[us[i]]
    <2>1. \A i \in DOMAIN us : elements[us[i]] = {us[i]}
      OBVIOUS
    <2> HIDE DEF elements
    <2> QED
      BY <2>1 DEF Range
  <1> HIDE DEF g, elements
  <1> QED
    BY <1>5, <1>6, <1>8, <1>9

LEMMA PlannedWriteTags ==
  ASSUME NEW scope \in Scopes, NEW i \in Ids, NEW s, s = Signatures(scope)
  PROVE  Range(Planned!InvalidateAfterUpdate(s, Planned!Record(i, <<i>>)).tags) =
           {Planned!ListTag, Planned!ScopeTag(s), Planned!IdTag(i), Planned!IdentifierTag(i)}
  <1> DEFINE r    == Planned!Record(i, <<i>>)
             base == <<Planned!ListTag, Planned!ScopeTag(s)>>
             tags == Planned!RecordTags(r)
             Fold(f) == f = [q \in SUBSET DOMAIN <<r>> |->
                               IF q = {} THEN base
                               ELSE Planned!AppendTags(f[q \ {Max(q)}], Planned!RecordTags(<<r>>[Max(q)]))]
             g    == CHOOSE f : Fold(f)
  <1>1. tags = <<Planned!IdTag(i), Planned!IdentifierTag(i)>>
    <2>1. r.id = i /\ r.identifiers = <<i>> /\ i # NoArg
      BY TextsAssumption DEF Planned!Record, NoArg
    <2>2. [j \in DOMAIN <<i>> |-> Planned!IdentifierTag(<<i>>[j])] = <<Planned!IdentifierTag(i)>>
      OBVIOUS
    <2>3. tags = <<Planned!IdTag(i)>> \o [j \in DOMAIN <<i>> |-> Planned!IdentifierTag(<<i>>[j])]
      BY <2>1 DEF Planned!RecordTags
    <2> QED
      BY <2>2, <2>3
  <1>2. /\ base \in Seq(PlannedTags) /\ Range(base) = {Planned!ListTag, Planned!ScopeTag(s)}
        /\ tags \in Seq(PlannedTags) /\ Range(tags) = {Planned!IdTag(i), Planned!IdentifierTag(i)}
    <2> DEFINE a == Planned!ListTag
               b == Planned!ScopeTag(s)
               c == Planned!IdTag(i)
               d == Planned!IdentifierTag(i)
    <2>1. a \in PlannedTags /\ b \in PlannedTags /\ c \in PlannedTags /\ d \in PlannedTags
      BY DEF PlannedTags
    <2>2. base = <<a, b>> /\ tags = <<c, d>>
      BY <1>1
    <2> HIDE DEF a, b, c, d, base, tags
    <2>3. Range(<<a, b>>) = {a, b} /\ Range(<<c, d>>) = {c, d}
      BY PairHas
    <2>4. <<a, b>> \in Seq(PlannedTags) /\ <<c, d>> \in Seq(PlannedTags)
      BY <2>1
    <2> QED
      BY <2>2, <2>3, <2>4 DEF a, b, c, d
  <1>3. Planned!InvalidateAfterUpdate(s, r).tags = g[DOMAIN <<r>>]
    BY DEF Planned!InvalidateAfterUpdate, Planned!WriteInvalidationTags, Planned!FoldLeft,
           Planned!MapThenFoldSet, Planned!Max, Max
  <1> HIDE DEF r, base, tags
  <1>4. DOMAIN <<r>> = {1} /\ SUBSET {1} = {{}, {1}} /\ {1} \ {1} = {} /\ Max({1}) = 1 /\ <<r>>[1] = r
    <2>1. DOMAIN <<r>> = {1} /\ <<r>>[1] = r
      OBVIOUS
    <2>2. SUBSET {1} = {{}, {1}} /\ {1} \ {1} = {}
      OBVIOUS
    <2>3. Max({1}) = 1
      <3>1. PICK n \in Nat : n = 1 /\ n > 0 /\ 1..n = {1}
        OBVIOUS
      <3>2. Max(1..n) = n
        BY <3>1, LastOfPrefix
      <3> QED
        BY <3>1, <3>2
    <2> QED
      BY <2>1, <2>2, <2>3
  <1>5. \E f : Fold(f)
    <2> DEFINE f == [q \in SUBSET {1} |-> IF q = {} THEN base ELSE Planned!AppendTags(base, tags)]
    <2>1. f[{}] = base /\ f[{1}] = Planned!AppendTags(base, tags)
      BY <1>4
    <2>2. ASSUME NEW q \in SUBSET DOMAIN <<r>>
          PROVE  f[q] = IF q = {} THEN base
                        ELSE Planned!AppendTags(f[q \ {Max(q)}], Planned!RecordTags(<<r>>[Max(q)]))
      <3> HIDE DEF f
      <3>1. q = {} \/ q = {1}
        <4>1. q \in SUBSET {1}
          BY <1>4
        <4> QED
          BY <4>1
      <3>2. CASE q = {}
        BY <2>1, <3>2
      <3>3. CASE q = {1}
        <4>1. q \ {Max(q)} = {} /\ <<r>>[Max(q)] = r /\ q # {}
          BY <1>4, <3>3
        <4> QED
          BY <2>1, <3>3, <4>1 DEF tags
      <3> QED
        BY <3>1, <3>2, <3>3
    <2>3. f = [q \in SUBSET DOMAIN <<r>> |-> f[q]]
      BY <1>4
    <2> HIDE DEF f
    <2>4. Fold(f)
      BY <2>2, <2>3, Zenon
    <2> QED
      BY <2>4
  <1>6. Fold(g)
    BY <1>5
  <1>7. g[{}] = base /\ g[{1}] = Planned!AppendTags(base, tags)
    <2>1. g[{}] = base
      BY <1>4, <1>6
    <2>2. ASSUME NEW q \in SUBSET DOMAIN <<r>>, q # {}
          PROVE  g[q] = Planned!AppendTags(g[q \ {Max(q)}], Planned!RecordTags(<<r>>[Max(q)]))
      <3> HIDE DEF g
      <3> QED
        BY <1>6, <2>2, ZenonT(30)
    <2>3. g[{1}] = Planned!AppendTags(g[{1} \ {Max({1})}], Planned!RecordTags(<<r>>[Max({1})]))
      <3>1. {1} \in SUBSET DOMAIN <<r>> /\ {1} # {}
        BY <1>4
      <3> HIDE DEF g, Fold
      <3> QED
        BY <3>1, <2>2
    <2> HIDE DEF g
    <2> QED
      BY <1>4, <2>1, <2>3 DEF tags
  <1> HIDE DEF g
  <1> QED
    BY <1>2, <1>3, <1>4, <1>7, PlannedAppendTagsAdds DEF r

(* A read's tags meet those of a write where they have a label and a value *)
(* in common.                                                              *)
Meets(s, r) == r.method \in {"List", "Count"} \/ Signatures(r.scope) = s

LEMMA PlannedReadTags ==
  ASSUME NEW r \in Reads
  PROVE  Range(Planned!TagsOfRead(PlannedKeys[r])) =
           {Planned!ScopeTag(Signatures(r.scope))}
           \cup (IF r.method \in {"List", "Count"} THEN {Planned!ListTag} ELSE {})
           \cup (IF r.method = "GetByID" THEN {Planned!IdTag(r.arg)} ELSE {})
           \cup (IF r.method = "GetByIdentifier" THEN {Planned!IdentifierTag(r.arg)} ELSE {})
  <1>1. r.method \in {"Get", "GetByID", "GetByIdentifier", "List", "Count"}
    BY ReadsAre, MethodsAssumption DEF MethodNames
  <1> DEFINE k == PlannedKeys[r]
  <1>2. k.method = r.method /\ k.arg = r.arg /\ k.scope = Signatures(r.scope)
    BY DEF PlannedKeys, Planned!Key
  <1> HIDE DEF k
  <1> DEFINE a == Planned!ScopeTag(Signatures(r.scope))
             b == Planned!ListTag
             c == Planned!IdTag(r.arg)
             d == Planned!IdentifierTag(r.arg)
             tags == Planned!TagsOfRead(k)
  <1>3. /\ r.method = "Get" => tags = <<a>>
        /\ r.method \in {"List", "Count"} => tags = <<b, a>>
        /\ r.method = "GetByID" => tags = <<a, c>>
        /\ r.method = "GetByIdentifier" => tags = <<a, d>>
    BY <1>2 DEF Planned!TagsOfRead
  <1> HIDE DEF a, b, c, d, tags
  <1>4. Range(<<a>>) = {a}
    BY DEF Range
  <1>5. Range(<<b, a>>) = {b, a} /\ Range(<<a, c>>) = {a, c} /\ Range(<<a, d>>) = {a, d}
    BY PairHas
  <1>6. Range(tags) = {a} \cup (IF r.method \in {"List", "Count"} THEN {b} ELSE {})
                      \cup (IF r.method = "GetByID" THEN {c} ELSE {})
                      \cup (IF r.method = "GetByIdentifier" THEN {d} ELSE {})
    BY <1>1, <1>3, <1>4, <1>5
  <1> QED
    BY <1>6 DEF a, b, c, d, tags, k

LEMMA PlannedTagsTell ==
  /\ \A x, y : /\ Planned!ScopeTag(x) = Planned!ScopeTag(y) <=> x = y
               /\ Planned!IdTag(x) = Planned!IdTag(y) <=> x = y
               /\ Planned!IdentifierTag(x) = Planned!IdentifierTag(y) <=> x = y
               /\ Planned!ScopeTag(x) # Planned!IdTag(y)
               /\ Planned!ScopeTag(x) # Planned!IdentifierTag(y)
               /\ Planned!IdTag(x) # Planned!IdentifierTag(y)
  /\ \A x : /\ Planned!ListTag # Planned!ScopeTag(x) /\ Planned!ListTag # Planned!IdTag(x)
            /\ Planned!ListTag # Planned!IdentifierTag(x)
  BY DEF Planned!ScopeTag, Planned!IdTag, Planned!IdentifierTag, Planned!ListTag, Planned!Tag

LEMMA PlannedTagsMeet ==
  ASSUME NEW r \in Reads, NEW scope \in Scopes, NEW s, s = Signatures(scope)
  PROVE  /\ \A i \in Ids :
              Range(Planned!InvalidateAfterUpdate(s, Planned!Record(i, <<i>>)).tags)
                \cap Range(Planned!TagsOfRead(PlannedKeys[r])) # {} <=>
                Meets(s, r) \/ (r.method \in ByArg /\ r.arg = i)
         /\ Range(Planned!InvalidateAfterCriteriaOperation(s).tags)
              \cap Range(Planned!TagsOfRead(PlannedKeys[r])) # {} <=> Meets(s, r)
  <1> DEFINE T    == Range(Planned!TagsOfRead(PlannedKeys[r]))
             U(i) == Range(Planned!InvalidateAfterUpdate(s, Planned!Record(i, <<i>>)).tags)
             V    == Range(Planned!InvalidateAfterCriteriaOperation(s).tags)
  <1>1. r.method \in Methods
    BY ReadsAre
  <1>2. T = {Planned!ScopeTag(Signatures(r.scope))}
            \cup (IF r.method \in {"List", "Count"} THEN {Planned!ListTag} ELSE {})
            \cup (IF r.method = "GetByID" THEN {Planned!IdTag(r.arg)} ELSE {})
            \cup (IF r.method = "GetByIdentifier" THEN {Planned!IdentifierTag(r.arg)} ELSE {})
    BY PlannedReadTags
  <1>3. \A i \in Ids : U(i) = {Planned!ListTag, Planned!ScopeTag(s), Planned!IdTag(i),
                              Planned!IdentifierTag(i)}
    BY PlannedWriteTags
  <1>4. V = {Planned!ListTag, Planned!ScopeTag(s)}
    <2> DEFINE a == Planned!ListTag
               b == Planned!ScopeTag(s)
    <2>1. Planned!InvalidateAfterCriteriaOperation(s).tags = <<a, b>>
      BY DEF Planned!InvalidateAfterCriteriaOperation
    <2> HIDE DEF a, b
    <2>2. Range(<<a, b>>) = {a, b}
      BY PairHas
    <2> QED
      BY <2>1, <2>2 DEF a, b
  <1> HIDE DEF T, U, V
  <1>5. /\ Planned!ListTag \in T <=> r.method \in {"List", "Count"}
        /\ Planned!ScopeTag(s) \in T <=> Signatures(r.scope) = s
    BY <1>2, PlannedTagsTell
  <1>6. ASSUME NEW i \in Ids
        PROVE  U(i) \cap T # {} <=> Meets(s, r) \/ (r.method \in ByArg /\ r.arg = i)
    <2>1. /\ Planned!IdTag(i) \in T <=> r.method = "GetByID" /\ r.arg = i
          /\ Planned!IdentifierTag(i) \in T <=> r.method = "GetByIdentifier" /\ r.arg = i
      BY <1>2, PlannedTagsTell
    <2> QED
      BY <1>1, <1>3, <1>5, <2>1 DEF Meets, ByArg
  <1>7. V \cap T # {} <=> Meets(s, r)
    BY <1>4, <1>5 DEF Meets
  <1> QED
    BY <1>6, <1>7 DEF T, U, V

-----------------------------------------------------------------------------
(* The tags the decorator makes meet where RepositoryKeys has them meet.   *)
LEMMA SignaturesTell ==
  ASSUME NEW r \in Scopes, NEW s \in Scopes, NEW a \in Signatures(r), NEW b \in Signatures(s)
  PROVE  a = b <=> Signatures(r) = Signatures(s)
  <1>1. Signatures(r) = {a} /\ Signatures(s) = {b}
    BY SignaturesStable
  <1> QED
    BY <1>1

LEMMA TagsMeet ==
  ASSUME NEW q \in Requests
  PROVE  /\ \A w \in Updates :
              Range(w.tags) \cap Range(q.tags) # {} <=>
                /\ Namespace(q.read.type) = Namespace(w.type)
                /\ Meets(Signatures(w.scope), q.read) \/ (q.read.method \in ByArg /\ q.read.arg = w.arg)
         /\ \A w \in Deletions :
              Range(w.tags) \cap Range(q.tags) # {} <=>
                Namespace(q.read.type) = Namespace(w.type) /\ Meets(Signatures(w.scope), q.read)
  <1> DEFINE r == q.read
             T == Range(q.tags)
             Same(t) == Namespace(r.type) = Namespace(t)
  <1>1. r \in Reads /\ r.type \in Types /\ r.method \in Methods /\ r.scope \in Scopes
    BY RequestsAre, ReadsAre
  <1>2. PICK x \in ScopeTags(r.type, r.scope) : q.tags = TagsOfRead(r, x)
    BY RequestsAre
  <1>3. PICK a \in Signatures(r.scope) : x = TagValue(r.type, "scope", a)
    BY DEF ScopeTags
  <1>4. T = {x} \cup (IF r.method \in {"List", "Count"} THEN {ListTag(r.type)} ELSE {})
                \cup (IF r.method = "GetByID" THEN {TagValue(r.type, "id", r.arg)} ELSE {})
                \cup (IF r.method = "GetByIdentifier" THEN {TagValue(r.type, "identifier", r.arg)}
                      ELSE {})
    BY <1>1, <1>2, TagsOfReadAre
  <1>5. /\ {"list", "scope", "id", "identifier"} = Labels
        /\ \A s \in Scopes : \A b \in Signatures(s) : b \in Texts
        /\ \A i \in Ids : i \in Texts
        /\ (r.method = "GetByID" \/ r.method = "GetByIdentifier" => r.arg \in Ids /\ r.method \in ByArg)
        /\ r.method \in ByArg => r.method = "GetByID" \/ r.method = "GetByIdentifier"
    <2>3. r.method = "GetByID" \/ r.method = "GetByIdentifier" => r.arg \in Ids /\ r.method \in ByArg
      BY <1>1, ReadsAre DEF ByArg
    <2> QED
      BY <2>3, TextsAssumption DEF Labels, ByArg
  <1> HIDE DEF r, T
  <1>6. ASSUME NEW t \in Types, NEW s \in Scopes, NEW b \in Signatures(s)
        PROVE  /\ ListTag(t) \in T <=> Same(t) /\ r.method \in {"List", "Count"}
               /\ TagValue(t, "scope", b) \in T <=> Same(t) /\ Signatures(r.scope) = Signatures(s)
               /\ \A i \in Ids : TagValue(t, "id", i) \in T <=>
                                   Same(t) /\ r.method = "GetByID" /\ r.arg = i
               /\ \A i \in Ids : TagValue(t, "identifier", i) \in T <=>
                                   Same(t) /\ r.method = "GetByIdentifier" /\ r.arg = i
    <2>1. /\ a \in Texts /\ b \in Texts /\ (a = b <=> Signatures(r.scope) = Signatures(s))
          /\ "list" \in Labels /\ "scope" \in Labels /\ "id" \in Labels /\ "identifier" \in Labels
      BY <1>1, <1>3, <1>5, SignaturesTell
    <2>2. ListTag(t) \in T <=> Same(t) /\ r.method \in {"List", "Count"}
      <3>1. ListTag(t) # x
        BY <1>1, <1>3, <2>1, TagsTell DEF ListTag
      <3>2. ListTag(t) = ListTag(r.type) <=> Same(t)
        BY <1>1, <2>1, TagsTell DEF ListTag
      <3>3. r.method = "GetByID" => ListTag(t) # TagValue(r.type, "id", r.arg)
        BY <1>1, <1>5, <2>1, TagsTell DEF ListTag
      <3>4. r.method = "GetByIdentifier" => ListTag(t) # TagValue(r.type, "identifier", r.arg)
        BY <1>1, <1>5, <2>1, TagsTell DEF ListTag
      <3> QED
        BY <1>4, <3>1, <3>2, <3>3, <3>4
    <2>3. ASSUME NEW l \in {"scope", "id", "identifier"}, NEW v \in Texts
          PROVE  TagValue(t, l, v) \in T <=>
                   /\ Same(t)
                   /\ \/ l = "scope" /\ v = a
                      \/ l = "id" /\ r.method = "GetByID" /\ r.arg = v
                      \/ l = "identifier" /\ r.method = "GetByIdentifier" /\ r.arg = v
      <3>0. l \in Labels
        BY <1>5
      <3>1. TagValue(t, l, v) = x <=> Same(t) /\ l = "scope" /\ v = a
        BY <1>1, <1>3, <2>1, <3>0, TagsTell
      <3>2. TagValue(t, l, v) # ListTag(r.type)
        BY <1>1, <2>1, <3>0, TagsTell DEF ListTag
      <3>3. r.method = "GetByID" =>
              (TagValue(t, l, v) = TagValue(r.type, "id", r.arg) <=> Same(t) /\ l = "id" /\ v = r.arg)
        BY <1>1, <1>5, <2>1, <3>0, TagsTell
      <3>4. r.method = "GetByIdentifier" =>
              (TagValue(t, l, v) = TagValue(r.type, "identifier", r.arg) <=>
                 Same(t) /\ l = "identifier" /\ v = r.arg)
        BY <1>1, <1>5, <2>1, <3>0, TagsTell
      <3> QED
        BY <1>4, <3>1, <3>2, <3>3, <3>4
    <2> QED
      BY <1>5, <2>1, <2>2, <2>3
  <1>7. ASSUME NEW w \in Updates
        PROVE  Range(w.tags) \cap T # {} <=>
                 Same(w.type) /\ (Meets(Signatures(w.scope), r) \/ (r.method \in ByArg /\ r.arg = w.arg))
    <2>1. w.type \in Types /\ w.scope \in Scopes /\ w.arg \in Ids
      BY WritesAre
    <2>2. PICK y \in ScopeTags(w.type, w.scope) : w.tags = WriteInvalidationTags(w.type, y, w.arg)
      BY WritesAre
    <2>3. PICK b \in Signatures(w.scope) : y = TagValue(w.type, "scope", b)
      BY DEF ScopeTags
    <2>4. Range(w.tags) = {ListTag(w.type), y, TagValue(w.type, "id", w.arg),
                           TagValue(w.type, "identifier", w.arg)}
      <3> DEFINE c == ListTag(w.type)
                 d == TagValue(w.type, "id", w.arg)
                 e == TagValue(w.type, "identifier", w.arg)
      <3>1. w.tags = <<c, y, d, e>>
        BY <2>2 DEF WriteInvalidationTags
      <3> HIDE DEF c, d, e
      <3>2. DOMAIN <<c, y, d, e>> = 1..4
        OBVIOUS
      <3>3. Range(<<c, y, d, e>>) = {c, y, d, e}
        BY <3>2 DEF Range
      <3> QED
        BY <3>1, <3>3 DEF c, d, e
    <2> QED
      BY <1>5, <1>6, <2>1, <2>3, <2>4 DEF Meets
  <1>8. ASSUME NEW w \in Deletions
        PROVE  Range(w.tags) \cap T # {} <=> Same(w.type) /\ Meets(Signatures(w.scope), r)
    <2>1. w.type \in Types /\ w.scope \in Scopes
      BY WritesAre
    <2>2. PICK y \in ScopeTags(w.type, w.scope) : w.tags = <<ListTag(w.type), y>>
      BY WritesAre
    <2>3. PICK b \in Signatures(w.scope) : y = TagValue(w.type, "scope", b)
      BY DEF ScopeTags
    <2>4. Range(w.tags) = {ListTag(w.type), y}
      BY <2>2, PairHas
    <2> QED
      BY <1>6, <2>1, <2>3, <2>4 DEF Meets
  <1> QED
    BY <1>7, <1>8 DEF r, T
(* The deletions RepositoryKeys plans without tags.                        *)
PlannedDeletions ==
  {Planned!DeleteKeyOf(m) : m \in MethodNames}
  \cup {Planned!DeletePrefixWithSeparator(m) : m \in MethodNames}
  \cup {Planned!DeletePrefix(m, i) : m \in MethodNames, i \in Ids}

Matches(deletions, r) == \E d \in Range(deletions) : PlannedKeys[r] \in d.keys

LEMMA MatchesJoin ==
  ASSUME NEW a \in Seq(PlannedDeletions), NEW b \in Seq(PlannedDeletions), NEW r
  PROVE  /\ a \o b \in Seq(PlannedDeletions)
         /\ Matches(a \o b, r) <=> Matches(a, r) \/ Matches(b, r)
  <1>1. a \o b \in Seq(PlannedDeletions) /\ Range(a \o b) = Range(a) \cup Range(b)
    BY RangeConcat
  <1> QED
    BY <1>1 DEF Matches

LEMMA PlannedDeletionsMatch ==
  ASSUME NEW r \in Reads
  PROVE  /\ \A m \in MethodNames :
              PlannedKeys[r] \in Planned!DeleteKeyOf(m).keys <=>
                r.method = m /\ r.arg = NoArg /\ Signatures(r.scope) = Signatures(<<>>)
         /\ \A m \in MethodNames :
              PlannedKeys[r] \in Planned!DeletePrefixWithSeparator(m).keys <=>
                r.method = m /\ (r.arg # NoArg \/ Signatures(r.scope) # Signatures(<<>>))
         /\ \A m \in {"GetByID", "GetByIdentifier"}, i \in Ids :
              PlannedKeys[r] \in Planned!DeletePrefix(m, i).keys <=>
                r.method = m /\ IsPrefix(i, r.arg)
  <1> DEFINE k == PlannedKeys[r]
  <1>1. /\ k = [method |-> r.method, arg |-> r.arg, scope |-> Signatures(r.scope)]
        /\ k.method = r.method /\ k.arg = r.arg /\ k.scope = Signatures(r.scope)
    BY DEF PlannedKeys, Planned!Key
  <1>2. /\ r.method \in MethodNames /\ Signatures(r.scope) \in {Signatures(s) : s \in Scopes}
        /\ r.method \in {"GetByID", "GetByIdentifier"} => r.arg \in Ids
        /\ r.method \notin {"GetByID", "GetByIdentifier"} => r.arg = NoArg
    BY ReadsAre, MethodsAssumption DEF ByArg
  <1>3. k \in Planned!AllKeys
    <2>1. CASE r.method \in {"Get", "List", "Count"}
      <3>1. k = Planned!Key(r.method, NoArg, Signatures(r.scope))
        BY <1>1, <1>2, <2>1 DEF Planned!Key
      <3> QED
        BY <1>2, <2>1, <3>1 DEF Planned!AllKeys, Planned!QueryMethods
    <2>2. CASE r.method \in {"GetByID", "GetByIdentifier"}
      <3>1. k = Planned!Key(r.method, r.arg, Signatures(r.scope))
        BY <1>1 DEF Planned!Key
      <3> QED
        BY <1>2, <2>2, <3>1 DEF Planned!AllKeys
    <2> QED
      BY <1>2, <2>1, <2>2 DEF MethodNames
  <1> HIDE DEF k
  <1>4. ASSUME NEW m \in MethodNames
        PROVE  k \in Planned!DeleteKeyOf(m).keys <=>
                 r.method = m /\ r.arg = NoArg /\ Signatures(r.scope) = Signatures(<<>>)
    BY <1>1 DEF Planned!DeleteKeyOf, Planned!Key
  <1>5. ASSUME NEW m \in MethodNames
        PROVE  k \in Planned!DeletePrefixWithSeparator(m).keys <=>
                 r.method = m /\ (r.arg # NoArg \/ Signatures(r.scope) # Signatures(<<>>))
    BY <1>1, <1>3 DEF Planned!DeletePrefixWithSeparator
  <1>6. ASSUME NEW m \in {"GetByID", "GetByIdentifier"}, NEW i \in Ids
        PROVE  k \in Planned!DeletePrefix(m, i).keys <=> r.method = m /\ IsPrefix(i, r.arg)
    <2>1. k \in Planned!DeletePrefix(m, i).keys <=>
            /\ k.method = m
            /\ k.arg = i \/ <<i, k.arg>> \in {e \in Ids \X Ids : e[1] # e[2] /\ IsPrefix(e[1], e[2])}
      BY <1>3 DEF Planned!DeletePrefix
    <2>2. r.method = m => r.arg \in Ids
      BY <1>2
    <2>3. IsPrefix(i, i)
      <3>1. i \in Seq(Tokens)
        BY TextsAssumption DEF Texts
      <3> QED
        BY <3>1 DEF IsPrefix
    <2> QED
      BY <1>1, <2>1, <2>2, <2>3
  <1> QED
    BY <1>4, <1>5, <1>6 DEF k

LEMMA PlannedQueriesMatch ==
  ASSUME NEW r \in Reads
  PROVE  /\ \A m \in QueryMethods : /\ Planned!InvalidateMethod(m) \in Seq(PlannedDeletions)
                                    /\ Matches(Planned!InvalidateMethod(m), r) <=> r.method = m
         /\ Planned!InvalidateQueries \in Seq(PlannedDeletions)
         /\ Matches(Planned!InvalidateQueries, r) <=> r.method \in QueryMethods
  <1>1. ASSUME NEW m \in QueryMethods
        PROVE  /\ Planned!InvalidateMethod(m) \in Seq(PlannedDeletions)
               /\ Matches(Planned!InvalidateMethod(m), r) <=> r.method = m
    <2> DEFINE a == Planned!DeleteKeyOf(m)
               b == Planned!DeletePrefixWithSeparator(m)
    <2>1. m \in MethodNames /\ (r.method = m => r.arg = NoArg)
      BY ReadsAre DEF QueryMethods, MethodNames, ByArg
    <2>2. a \in PlannedDeletions /\ b \in PlannedDeletions
      BY <2>1 DEF PlannedDeletions
    <2>3. Planned!InvalidateMethod(m) = <<a, b>>
      BY DEF Planned!InvalidateMethod
    <2>4. /\ PlannedKeys[r] \in a.keys <=>
               r.method = m /\ r.arg = NoArg /\ Signatures(r.scope) = Signatures(<<>>)
          /\ PlannedKeys[r] \in b.keys <=>
               r.method = m /\ (r.arg # NoArg \/ Signatures(r.scope) # Signatures(<<>>))
      BY <2>1, PlannedDeletionsMatch
    <2> HIDE DEF a, b
    <2>5. <<a, b>> \in Seq(PlannedDeletions) /\ Range(<<a, b>>) = {a, b}
      BY <2>2, PairHas
    <2> QED
      BY <2>1, <2>3, <2>4, <2>5 DEF Matches
  <1> DEFINE a == Planned!InvalidateMethod("Get")
             b == Planned!InvalidateMethod("List")
             c == Planned!InvalidateMethod("Count")
  <1>2. /\ a \in Seq(PlannedDeletions) /\ (Matches(a, r) <=> r.method = "Get")
        /\ b \in Seq(PlannedDeletions) /\ (Matches(b, r) <=> r.method = "List")
        /\ c \in Seq(PlannedDeletions) /\ (Matches(c, r) <=> r.method = "Count")
    BY <1>1 DEF QueryMethods
  <1>3. Planned!InvalidateQueries = (a \o b) \o c
    BY DEF Planned!InvalidateQueries
  <1> HIDE DEF a, b, c
  <1> DEFINE ab == a \o b
  <1>4. ab \in Seq(PlannedDeletions) /\ (Matches(ab, r) <=> Matches(a, r) \/ Matches(b, r))
    BY <1>2, MatchesJoin
  <1>5. Planned!InvalidateQueries = ab \o c
    BY <1>3
  <1> HIDE DEF ab
  <1>6. /\ ab \o c \in Seq(PlannedDeletions)
        /\ Matches(ab \o c, r) <=> Matches(ab, r) \/ Matches(c, r)
    BY <1>2, <1>4, MatchesJoin
  <1>7. Matches(ab \o c, r) <=> r.method \in QueryMethods
    BY <1>2, <1>4, <1>6 DEF QueryMethods
  <1> QED
    BY <1>1, <1>5, <1>6, <1>7

LEMMA PlannedUpdateMatches ==
  ASSUME NEW r \in Reads, NEW s, NEW i \in Ids
  PROVE  Matches(Planned!InvalidateAfterUpdate(s, Planned!Record(i, <<i>>)).fallback, r) <=>
           \/ r.method \in QueryMethods
           \/ r.method \in {"GetByID", "GetByIdentifier"} /\ IsPrefix(i, r.arg)
  <1> DEFINE a == Planned!DeletePrefix("GetByID", i)
             b == Planned!DeletePrefix("GetByIdentifier", i)
             q == Planned!InvalidateQueries
             U == Planned!InvalidateAfterUpdate(s, Planned!Record(i, <<i>>)).fallback
  <1>1. a \in PlannedDeletions /\ b \in PlannedDeletions
    BY DEF PlannedDeletions, MethodNames
  <1>2. /\ PlannedKeys[r] \in a.keys <=> r.method = "GetByID" /\ IsPrefix(i, r.arg)
        /\ PlannedKeys[r] \in b.keys <=> r.method = "GetByIdentifier" /\ IsPrefix(i, r.arg)
    BY PlannedDeletionsMatch
  <1>3. q \in Seq(PlannedDeletions) /\ (Matches(q, r) <=> r.method \in QueryMethods)
    BY PlannedQueriesMatch
  <1>4. U = (<<a>> \o <<b>>) \o q
    <2> DEFINE rec == Planned!Record(i, <<i>>)
    <2>1. rec.id = i /\ rec.identifiers = <<i>> /\ i # NoArg /\ <<i>> # <<>>
      BY TextsAssumption DEF Planned!Record, NoArg
    <2>2. [j \in DOMAIN <<i>> |-> Planned!DeletePrefix("GetByIdentifier", <<i>>[j])] = <<b>>
      OBVIOUS
    <2>3. U = Planned!InvalidateRecordCaches(rec) \o q
      BY DEF Planned!InvalidateAfterUpdate
    <2> HIDE DEF rec
    <2>4. Planned!InvalidateRecordCaches(rec) =
            <<a>> \o [j \in DOMAIN <<i>> |-> Planned!DeletePrefix("GetByIdentifier", <<i>>[j])]
      BY <2>1 DEF Planned!InvalidateRecordCaches
    <2> QED
      BY <2>2, <2>3, <2>4
  <1> HIDE DEF a, b, q, U
  <1>5. /\ <<a>> \in Seq(PlannedDeletions) /\ Range(<<a>>) = {a}
        /\ <<b>> \in Seq(PlannedDeletions) /\ Range(<<b>>) = {b}
    <2>1. Range(<<a>>) = {a}
      BY DEF Range
    <2>2. Range(<<b>>) = {b}
      BY DEF Range
    <2> QED
      BY <1>1, <2>1, <2>2
  <1>6. /\ <<a>> \o <<b>> \in Seq(PlannedDeletions)
        /\ Matches(<<a>> \o <<b>>, r) <=> Matches(<<a>>, r) \/ Matches(<<b>>, r)
    BY <1>5, MatchesJoin
  <1>7. Matches(<<a>> \o <<b>>, r) <=> r.method \in {"GetByID", "GetByIdentifier"} /\ IsPrefix(i, r.arg)
    BY <1>2, <1>5, <1>6 DEF Matches
  <1>8. Matches((<<a>> \o <<b>>) \o q, r) <=> Matches(<<a>> \o <<b>>, r) \/ Matches(q, r)
    BY <1>3, <1>6, MatchesJoin
  <1>9. Matches(U, r) <=> \/ r.method \in QueryMethods
                          \/ r.method \in {"GetByID", "GetByIdentifier"} /\ IsPrefix(i, r.arg)
    BY <1>3, <1>4, <1>7, <1>8
  <1> QED
    BY <1>9 DEF U

LEMMA PlannedDeletionMatches ==
  ASSUME NEW r \in Reads, NEW s
  PROVE  Matches(Planned!InvalidateAfterCriteriaOperation(s).fallback, r)
  <1> DEFINE a == Planned!DeletePrefixWithSeparator("GetByID")
             b == Planned!DeletePrefixWithSeparator("GetByIdentifier")
             c == Planned!InvalidateMethod("List")
             d == Planned!InvalidateMethod("Count")
             e == Planned!InvalidateMethod("Get")
             U == Planned!InvalidateAfterCriteriaOperation(s).fallback
  <1>1. /\ r.method \in {"GetByID", "GetByIdentifier", "List", "Count", "Get"}
        /\ r.method \in {"GetByID", "GetByIdentifier"} => r.arg # NoArg
    BY ReadsAre, MethodsAssumption, TextsAssumption DEF MethodNames, ByArg, NoArg
  <1>2. a \in PlannedDeletions /\ b \in PlannedDeletions
    BY DEF PlannedDeletions, MethodNames
  <1>3. /\ PlannedKeys[r] \in a.keys <=>
             /\ r.method = "GetByID"
             /\ r.arg # NoArg \/ Signatures(r.scope) # Signatures(<<>>)
        /\ PlannedKeys[r] \in b.keys <=>
             /\ r.method = "GetByIdentifier"
             /\ r.arg # NoArg \/ Signatures(r.scope) # Signatures(<<>>)
    BY PlannedDeletionsMatch DEF MethodNames
  <1>4. /\ c \in Seq(PlannedDeletions) /\ (Matches(c, r) <=> r.method = "List")
        /\ d \in Seq(PlannedDeletions) /\ (Matches(d, r) <=> r.method = "Count")
        /\ e \in Seq(PlannedDeletions) /\ (Matches(e, r) <=> r.method = "Get")
    <2>1. "List" \in QueryMethods /\ "Count" \in QueryMethods /\ "Get" \in QueryMethods
      BY DEF QueryMethods
    <2> QED
      BY <2>1, PlannedQueriesMatch
  <1>5. U = ((<<a, b>> \o c) \o d) \o e
    BY DEF Planned!InvalidateAfterCriteriaOperation
  <1> HIDE DEF a, b, c, d, e, U
  <1>6. <<a, b>> \in Seq(PlannedDeletions) /\ Range(<<a, b>>) = {a, b}
    <2>1. Range(<<a, b>>) = {a, b}
      BY PairHas
    <2> QED
      BY <1>2, <2>1
  <1>7. Matches(<<a, b>>, r) <=> r.method \in {"GetByID", "GetByIdentifier"}
    BY <1>1, <1>3, <1>6 DEF Matches
  <1> DEFINE x == <<a, b>> \o c
             y == x \o d
             z == y \o e
  <1>8. x \in Seq(PlannedDeletions) /\ (Matches(x, r) <=> Matches(<<a, b>>, r) \/ Matches(c, r))
    BY <1>4, <1>6, MatchesJoin
  <1> HIDE DEF x
  <1>9. y \in Seq(PlannedDeletions) /\ (Matches(y, r) <=> Matches(x, r) \/ Matches(d, r))
    BY <1>4, <1>8, MatchesJoin
  <1> HIDE DEF y
  <1>10. Matches(z, r) <=> Matches(y, r) \/ Matches(e, r)
    BY <1>4, <1>9, MatchesJoin
  <1>11. U = z
    BY <1>5 DEF x, y
  <1> HIDE DEF z
  <1>12. Matches(U, r)
    BY <1>1, <1>4, <1>7, <1>8, <1>9, <1>10, <1>11
  <1> QED
    BY <1>12 DEF U
-----------------------------------------------------------------------------
-----------------------------------------------------------------------------
(* What writes remove.                                                     *)
LEMMA KeyTags ==
  ASSUME NEW p \in Requests, NEW q \in Requests, p.key = q.key, q.read \in OneOfAKind
  PROVE  Range(p.tags) = Range(q.tags)
  <1>1. /\ p.read \in Reads /\ p.read.type \in Types /\ p.read.scope \in Scopes
        /\ q.read \in Reads /\ q.read.type \in Types /\ q.read.scope \in Scopes
    BY RequestsAre, ReadsAre
  <1>2. /\ Namespace(p.read.type) = Namespace(q.read.type) /\ p.read.method = q.read.method
        /\ p.read.arg = q.read.arg /\ Signatures(p.read.scope) \cap Signatures(q.read.scope) # {}
    <2>1. Lookalikes(p.read, q.read)
      BY RequestsTell
    <2>2. ~Continues(p.read.arg, q.read.arg) /\ ~Continues(q.read.arg, p.read.arg)
      <3>1. CASE p.read.method \in ByArg
        BY <1>1, <3>1, ReadsAre DEF OneOfAKind
      <3>2. CASE p.read.method \notin ByArg
        <4>1. p.read.arg = <<>> /\ q.read.arg = <<>>
          BY <1>1, <2>1, <3>2, ReadsAre DEF Lookalikes, NoArg
        <4>2. <<>> \in Texts /\ ~(Len(<<>>) < Len(<<>>))
          BY DEF Texts
        <4> QED
          BY <4>1, <4>2, ContinuesPlaces
      <3> QED
        BY <3>1, <3>2
    <2> QED
      BY <2>1, <2>2 DEF Lookalikes
  <1>3. PICK x \in ScopeTags(p.read.type, p.read.scope) : p.tags = TagsOfRead(p.read, x)
    BY RequestsAre
  <1>4. PICK y \in ScopeTags(q.read.type, q.read.scope) : q.tags = TagsOfRead(q.read, y)
    BY RequestsAre
  <1>5. \A l, v : TagValue(p.read.type, l, v) = TagValue(q.read.type, l, v)
    BY <1>2 DEF TagValue, TagLabel
  <1>6. ListTag(p.read.type) = ListTag(q.read.type)
    BY <1>2 DEF ListTag, TagLabel
  <1>7. x = y
    <2>1. PICK a \in Signatures(p.read.scope) : x = TagValue(p.read.type, "scope", a)
      BY DEF ScopeTags
    <2>2. PICK b \in Signatures(q.read.scope) : y = TagValue(q.read.type, "scope", b)
      BY DEF ScopeTags
    <2>3. a = b
      BY <1>1, <1>2, SignaturesStable
    <2> QED
      BY <1>5, <2>1, <2>2, <2>3
  <1> DEFINE Has(r, tag) ==
               {tag}
               \cup (IF r.method \in {"List", "Count"} THEN {ListTag(r.type)} ELSE {})
               \cup (IF r.method = "GetByID" THEN {TagValue(r.type, "id", r.arg)} ELSE {})
               \cup (IF r.method = "GetByIdentifier" THEN {TagValue(r.type, "identifier", r.arg)}
                     ELSE {})
  <1>8. Range(p.tags) = Has(p.read, x) /\ Range(q.tags) = Has(q.read, y)
    BY <1>1, <1>3, <1>4, TagsOfReadAre
  <1>9. Has(p.read, x) = Has(q.read, y)
    BY <1>2, <1>5, <1>6, <1>7
  <1> HIDE DEF Has
  <1> QED
    BY <1>8, <1>9

(* The exceptions of ReachesAsPlanned.                                     *)
Apart(tags) == \A tag \in Range(tags) : KeptApart(tag) /\ tag \notin OwnTags

LEMMA TagsRemove ==
  ASSUME Sound(cache), \A text \in DOMAIN cache : TaggedIn(cache, text), hasTags,
         NEW tags \in Seq(DecoratorTags), Apart(tags),
         NEW q \in Requests, q.key \in DOMAIN cache, cache[q.key].of = {q.read},
         q.read \in OneOfAKind
  PROVE  q.key \notin DOMAIN InvalidateTags(cache, tags) <=> Range(tags) \cap Range(q.tags) # {}
  <1>1. tags \in Seq(AllTags) /\ Range(tags) \subseteq AllTags /\ q.key \in AllKeyTexts
    BY RequestsAre DEF AllTags, Range
  <1> DEFINE d == InvalidateTags(cache, tags)
  <1>2. /\ (\A tag \in Range(tags) : q.key \notin Gone(cache, tag)) => q.key \in DOMAIN d
        /\ \A tag \in Range(tags) :
             KeptApart(tag) => LoadTagRegistry(cache, tag) \cap DOMAIN d = {}
    BY <1>1, InvalidateTagsRemoves DEF Sound
  <1> HIDE DEF d
  <1>3. ListedIn(cache, q.key) /\ Range(q.tags) \subseteq cache[q.key].tags
    <2>1. Kept(cache, q.key)
      BY DEF Kept
    <2> QED
      BY <2>1 DEF Sound, TaggedIn
  <1>4. ASSUME NEW tag \in Range(tags), q.key \in Gone(cache, tag) PROVE tag \in Range(q.tags)
    <2>1. tag \in AllTags /\ KeptApart(tag) /\ tag \notin OwnTags
      BY <1>1 DEF Apart
    <2>2. q.key \in LoadTagRegistry(cache, tag)
      BY <1>1, <1>4, <2>1 DEF Gone, KeptApart
    <2> DEFINE key == q.key
    <2>3. key \in LoadTagRegistry(cache, tag)
      BY <2>2
    <2> HIDE DEF key
    <2>4. PICK p \in Requests : p.key = key /\ tag \in OwnTags \cup Range(p.tags)
      BY <2>1, <2>3, RegistryLists
    <2>5. p.key = q.key /\ tag \in Range(p.tags)
      BY <2>1, <2>4 DEF key
    <2> QED
      BY <2>5, KeyTags
  <1>5. ASSUME NEW tag \in Range(tags), tag \in Range(q.tags) PROVE q.key \notin DOMAIN d
    <2>1. KeptApart(tag) /\ tag \in cache[q.key].tags
      BY <1>3, <1>5 DEF Apart
    <2>2. q.key \in LoadTagRegistry(cache, tag)
      BY <1>3, <2>1 DEF ListedIn
    <2> QED
      BY <1>2, <1>5, <2>1, <2>2
  <1>6. q.key \notin DOMAIN d <=> Range(tags) \cap Range(q.tags) # {}
    BY <1>2, <1>4, <1>5
  <1> QED
    BY <1>6 DEF d

LEMMA ResultKept ==
  ASSUME Sound(cache), NEW text \in DOMAIN cache, NEW r \in cache[text].of
  PROVE  \E q \in Requests : text = q.key /\ r = q.read /\ cache[text].of = {q.read}
  BY DEF Sound, Kept, ResultIn

LEMMA UpdateReaches ==
  ASSUME SharedInv, NEW w \in Updates, UpdateRecord(w), hasTags => Apart(w.tags),
         NEW text \in DOMAIN cache, NEW r \in cache[text].of, r \in OneOfAKind
  PROVE  text \notin DOMAIN cache' <=> Reached(w, r)
  <1>1. Sound(cache) /\ \A t \in DOMAIN cache : TaggedIn(cache, t)
    BY InvSound
  <1>2. PICK q \in Requests : text = q.key /\ r = q.read /\ cache[text].of = {q.read}
    BY <1>1, ResultKept
  <1> DEFINE Same == Namespace(r.type) = Namespace(w.type)
             s    == Signatures(w.scope)
             plan == Planned!InvalidateAfterUpdate(s, Planned!Record(w.arg, <<w.arg>>))
  <1>3. /\ w.call = "update" /\ w.type \in Types /\ w.scope \in Scopes /\ w.arg \in Ids
        /\ w.tags \in Seq(DecoratorTags) /\ r \in Reads /\ r.method \in MethodNames
    BY <1>2, WritesAre, WriteTagsAre, RequestsAre, ReadsAre, MethodsAssumption
  <1>4. Plans[w] = plan
    BY <1>3 DEF Plans
  <1> HIDE DEF plan
  <1>5. CASE hasTags
    <2>1. cache' = InvalidateTags(cache, w.tags)
      BY <1>5 DEF UpdateRecord
    <2>2. text \notin DOMAIN cache' <=> Range(w.tags) \cap Range(q.tags) # {}
      BY <1>1, <1>2, <1>3, <1>5, <2>1, TagsRemove
    <2>3. Range(w.tags) \cap Range(q.tags) # {} <=>
            Same /\ (Meets(s, r) \/ (r.method \in ByArg /\ r.arg = w.arg))
      BY <1>2, TagsMeet
    <2>4. Range(plan.tags) \cap Range(Planned!TagsOfRead(PlannedKeys[r])) # {} <=>
            Meets(s, r) \/ (r.method \in ByArg /\ r.arg = w.arg)
      BY <1>3, PlannedTagsMeet DEF plan
    <2>5. Reached(w, r) <=> Same /\ Range(plan.tags) \cap Range(Planned!TagsOfRead(PlannedKeys[r])) # {}
      BY <1>4, <1>5 DEF Reached
    <2> QED
      BY <2>2, <2>3, <2>4, <2>5
  <1>6. CASE ~hasTags
    <2>1. cache' = UpdateFallback(w)
      BY <1>6 DEF UpdateRecord, UpdateFallback
    <2>2. PICK signature \in Signatures(r.scope) : text = KeyText(r, signature)
      BY <1>2, RequestsAre
    <2>3. text \notin DOMAIN cache' <=>
            \/ IsPrefix(MethodPrefix(w.type, "GetByID", w.arg), text)
            \/ IsPrefix(MethodPrefix(w.type, "GetByIdentifier", w.arg), text)
            \/ \E m \in QueryMethods : OfMethod(w.type, m, text)
      BY <1>1, <2>1, UpdateFallbackRemoves DEF Sound
    <2>4. text \notin DOMAIN cache' <=>
            /\ Same
            /\ \/ r.method \in QueryMethods
               \/ r.method \in {"GetByID", "GetByIdentifier"} /\ IsPrefix(w.arg, r.arg)
      <3>1. /\ IsPrefix(MethodPrefix(w.type, "GetByID", w.arg), text) <=>
                 Same /\ r.method = "GetByID" /\ IsPrefix(w.arg, r.arg)
            /\ IsPrefix(MethodPrefix(w.type, "GetByIdentifier", w.arg), text) <=>
                 Same /\ r.method = "GetByIdentifier" /\ IsPrefix(w.arg, r.arg)
        BY <1>3, <2>2, PrefixesReach
      <3>2. (\E m \in QueryMethods : OfMethod(w.type, m, text)) <=> Same /\ r.method \in QueryMethods
        BY <1>3, <2>2, PrefixesReach
      <3> QED
        BY <2>3, <3>1, <3>2
    <2>5. Matches(plan.fallback, r) <=>
            \/ r.method \in QueryMethods
            \/ r.method \in {"GetByID", "GetByIdentifier"} /\ IsPrefix(w.arg, r.arg)
      BY <1>3, PlannedUpdateMatches DEF plan
    <2>6. Reached(w, r) <=> Same /\ Matches(plan.fallback, r)
      BY <1>4, <1>6 DEF Reached, Matches
    <2> QED
      BY <2>4, <2>5, <2>6
  <1> QED
    BY <1>5, <1>6

LEMMA DeletionReaches ==
  ASSUME SharedInv, NEW w \in Deletions, DeleteWhere(w), hasTags => Apart(w.tags),
         NEW text \in DOMAIN cache, NEW r \in cache[text].of, r \in OneOfAKind
  PROVE  text \notin DOMAIN cache' <=> Reached(w, r)
  <1>1. Sound(cache) /\ \A t \in DOMAIN cache : TaggedIn(cache, t)
    BY InvSound
  <1>2. PICK q \in Requests : text = q.key /\ r = q.read /\ cache[text].of = {q.read}
    BY <1>1, ResultKept
  <1> DEFINE Same == Namespace(r.type) = Namespace(w.type)
             s    == Signatures(w.scope)
             plan == Planned!InvalidateAfterCriteriaOperation(s)
  <1>3. /\ w.call = "delete" /\ w.type \in Types /\ w.scope \in Scopes
        /\ w.tags \in Seq(DecoratorTags) /\ r \in Reads
        /\ r.method \in {"GetByID", "GetByIdentifier"} \cup QueryMethods
    <2>1. r \in Reads /\ r.method \in MethodNames
      BY <1>2, RequestsAre, ReadsAre, MethodsAssumption
    <2> QED
      BY <2>1, WritesAre, WriteTagsAre DEF MethodNames, QueryMethods
  <1>4. Plans[w] = plan
    BY <1>3 DEF Plans
  <1> HIDE DEF plan
  <1>5. CASE hasTags
    <2>1. cache' = InvalidateTags(cache, w.tags)
      BY <1>5 DEF DeleteWhere
    <2>2. text \notin DOMAIN cache' <=> Range(w.tags) \cap Range(q.tags) # {}
      BY <1>1, <1>2, <1>3, <1>5, <2>1, TagsRemove
    <2>3. Range(w.tags) \cap Range(q.tags) # {} <=> Same /\ Meets(s, r)
      BY <1>2, TagsMeet
    <2>4. Range(plan.tags) \cap Range(Planned!TagsOfRead(PlannedKeys[r])) # {} <=> Meets(s, r)
      BY <1>3, PlannedTagsMeet DEF plan
    <2>5. Reached(w, r) <=> Same /\ Range(plan.tags) \cap Range(Planned!TagsOfRead(PlannedKeys[r])) # {}
      BY <1>4, <1>5 DEF Reached
    <2> QED
      BY <2>2, <2>3, <2>4, <2>5
  <1>6. CASE ~hasTags
    <2>1. cache' = DeletionFallback(w)
      BY <1>6 DEF DeleteWhere, DeletionFallback
    <2>2. PICK signature \in Signatures(r.scope) : text = KeyText(r, signature)
      BY <1>2, RequestsAre
    <2>3. text \notin DOMAIN cache' <=>
            \/ IsPrefix(MethodPrefixWithSeparator(w.type, "GetByID"), text)
            \/ IsPrefix(MethodPrefixWithSeparator(w.type, "GetByIdentifier"), text)
            \/ \E m \in QueryMethods : OfMethod(w.type, m, text)
      BY <1>1, <2>1, DeletionFallbackRemoves DEF Sound
    <2>4. text \notin DOMAIN cache' <=> Same
      <3>1. /\ IsPrefix(MethodPrefixWithSeparator(w.type, "GetByID"), text) <=>
                 Same /\ r.method = "GetByID"
            /\ IsPrefix(MethodPrefixWithSeparator(w.type, "GetByIdentifier"), text) <=>
                 Same /\ r.method = "GetByIdentifier"
        BY <1>3, <2>2, PrefixesReach
      <3>2. (\E m \in QueryMethods : OfMethod(w.type, m, text)) <=> Same /\ r.method \in QueryMethods
        BY <1>3, <2>2, PrefixesReach
      <3> QED
        BY <1>3, <2>3, <3>1, <3>2
    <2>5. Matches(plan.fallback, r)
      BY <1>3, PlannedDeletionMatches DEF plan
    <2>6. Reached(w, r) <=> Same /\ Matches(plan.fallback, r)
      BY <1>4, <1>6 DEF Reached, Matches
    <2> QED
      BY <2>4, <2>5, <2>6
  <1> QED
    BY <1>5, <1>6

Reaching ==
  /\ last'.call \in {"update", "delete"}
  /\ hasTags => \A tag \in Range(last'.tags) : KeptApart(tag) /\ tag \notin OwnTags
  => \A text \in DOMAIN cache : \A r \in cache[text].of :
       r \in OneOfAKind => (text \notin DOMAIN cache' <=> Reached(last', r))

LEMMA NextReaches == SharedInv /\ [Next]_vars => [Reaching]_vars
  <1> SUFFICES ASSUME SharedInv, Next, last'.call \in {"update", "delete"},
                      hasTags => Apart(last'.tags),
                      NEW text \in DOMAIN cache, NEW r \in cache[text].of, r \in OneOfAKind
               PROVE  text \notin DOMAIN cache' <=> Reached(last', r)
    BY DEF Reaching, Apart
  <1>1. ASSUME NEW q \in Requests, NEW context \in Contexts, ReadMiss(q, context) \/ ReadHit(q, context)
        PROVE  FALSE
    <2>1. last'.call = "read"
      BY <1>1 DEF ReadMiss, ReadHit, Called
    <2> QED
      BY <2>1
  <1>2. ASSUME NEW q \in Requests, ReadMistyped(q) PROVE FALSE
    BY <1>2 DEF ReadMistyped, Called
  <1>3. ASSUME ReadFails PROVE FALSE
    BY <1>3 DEF ReadFails, Called
  <1>4. ASSUME NEW w \in Updates, UpdateRecord(w)
        PROVE  text \notin DOMAIN cache' <=> Reached(last', r)
    <2>1. last' = w
      BY <1>4 DEF UpdateRecord, Called
    <2>2. text \notin DOMAIN cache' <=> Reached(w, r)
      BY <1>4, <2>1, UpdateReaches
    <2> QED
      BY <2>1, <2>2
  <1>5. ASSUME NEW w \in Deletions, DeleteWhere(w)
        PROVE  text \notin DOMAIN cache' <=> Reached(last', r)
    <2>1. last' = w
      BY <1>5 DEF DeleteWhere, Called
    <2>2. text \notin DOMAIN cache' <=> Reached(w, r)
      BY <1>5, <2>1, DeletionReaches
    <2> QED
      BY <2>1, <2>2
  <1>6. ASSUME NEW tag \in OwnTags, InvalidateOwnTag(tag) PROVE FALSE
    BY <1>6 DEF InvalidateOwnTag, Called
  <1> QED
    BY <1>1, <1>2, <1>3, <1>4, <1>5, <1>6 DEF Next

(* A write removes the results RepositoryKeys says it does, no more and no *)
(* fewer, by tags as by the fallback's prefixes: of ids of which none      *)
(* continues another, and by tags no context carries and no result's key   *)
(* meets the registry of.                                                  *)
THEOREM WritesReachAsPlanned == Spec => ReachesAsPlanned
  <1>1. SharedInv /\ [Next]_vars => [Reaching]_vars
    BY NextReaches
  <1> QED
    BY <1>1, SharedInvariant, PTL DEF Spec, ReachesAsPlanned, Reaching
=============================================================================
