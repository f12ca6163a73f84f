------------------------------ MODULE ListLemmas ------------------------------
(***************************************************************************)
(* What the proofs of several modules need of sequences: the elements of a *)
(* sequence taken apart, or of two put together, what a fold over one adds *)
(* up to, and that a finite set can be put in order in one way.            *)
(*                                                                         *)
(* The induction theorems of the library take an operator as a parameter,  *)
(* which the provers cannot instantiate; the inductions here are over sets *)
(* of numbers instead (NumbersAll).                                        *)
(***************************************************************************)
EXTENDS SequencesExt, FiniteSetTheorems, WellFoundedInduction, TLAPS

-----------------------------------------------------------------------------
(* What a sequence has is its head and what its tail has.                  *)
LEMMA RangeHeadTail ==
  ASSUME NEW S, NEW s \in Seq(S), s # <<>>
  PROVE  /\ Head(s) \in S /\ Tail(s) \in Seq(S)
         /\ Range(s) = {Head(s)} \cup Range(Tail(s))
  <1>1. /\ Head(s) \in S /\ Tail(s) \in Seq(S) /\ Len(s) \in Nat \ {0}
        /\ Len(Tail(s)) = Len(s) - 1 /\ Head(s) = s[1]
        /\ DOMAIN s = 1..Len(s) /\ DOMAIN Tail(s) = 1..Len(Tail(s))
        /\ \A i \in 1..Len(Tail(s)) : Tail(s)[i] = s[i + 1]
    OBVIOUS
  <1>2. ASSUME NEW i \in 1..Len(s) PROVE s[i] \in {Head(s)} \cup Range(Tail(s))
    <2>1. CASE i = 1
      BY <1>1, <2>1
    <2>2. CASE i # 1
      <3>1. i - 1 \in 1..Len(Tail(s)) /\ s[i] = Tail(s)[i - 1]
        BY <1>1, <2>2
      <3> QED
        BY <1>1, <3>1 DEF Range
    <2> QED
      BY <2>1, <2>2
  <1>3. ASSUME NEW i \in 1..Len(Tail(s)) PROVE Tail(s)[i] \in Range(s)
    <2>1. i + 1 \in 1..Len(s) /\ Tail(s)[i] = s[i + 1]
      BY <1>1
    <2> QED
      BY <2>1 DEF Range
  <1>4. Head(s) \in Range(s)
    <2>1. 1 \in 1..Len(s) /\ Head(s) = s[1]
      BY <1>1
    <2> QED
      BY <2>1 DEF Range
  <1> QED
    BY <1>1, <1>2, <1>3, <1>4 DEF Range

(* What two sequences have together.                                       *)
LEMMA RangeConcat ==
  ASSUME NEW S, NEW s \in Seq(S), NEW t \in Seq(S)
  PROVE  s \o t \in Seq(S) /\ Range(s \o t) = Range(s) \cup Range(t)
  <1>1. /\ s \o t \in Seq(S) /\ Len(s) \in Nat /\ Len(t) \in Nat
        /\ DOMAIN s = 1..Len(s) /\ DOMAIN t = 1..Len(t) /\ DOMAIN (s \o t) = 1..(Len(s) + Len(t))
        /\ \A i \in 1..Len(s) : (s \o t)[i] = s[i]
        /\ \A i \in 1..Len(t) : (s \o t)[Len(s) + i] = t[i]
    OBVIOUS
  <1>2. ASSUME NEW i \in DOMAIN (s \o t) PROVE (s \o t)[i] \in Range(s) \cup Range(t)
    <2>1. CASE i \in 1..Len(s)
      BY <1>1, <2>1 DEF Range
    <2>2. CASE i \notin 1..Len(s)
      <3>1. i - Len(s) \in 1..Len(t) /\ i = Len(s) + (i - Len(s))
        BY <1>1, <2>2
      <3> QED
        BY <1>1, <3>1 DEF Range
    <2> QED
      BY <2>1, <2>2
  <1>3. ASSUME NEW i \in DOMAIN s PROVE s[i] \in Range(s \o t)
    <2>1. i \in DOMAIN (s \o t) /\ (s \o t)[i] = s[i]
      BY <1>1
    <2> QED
      BY <2>1 DEF Range
  <1>4. ASSUME NEW i \in DOMAIN t PROVE t[i] \in Range(s \o t)
    <2>1. Len(s) + i \in DOMAIN (s \o t) /\ (s \o t)[Len(s) + i] = t[i]
      BY <1>1
    <2> QED
      BY <2>1 DEF Range
  <1> QED
    BY <1>1, <1>2, <1>3, <1>4 DEF Range

(* What two elements are together.                                         *)
LEMMA PairHas == ASSUME NEW a, NEW b PROVE <<a, b>> \in Seq({a, b}) /\ Range(<<a, b>>) = {a, b}
  <1>1. <<a, b>> \in Seq({a, b}) /\ DOMAIN <<a, b>> = {1, 2}
        /\ <<a, b>>[1] = a /\ <<a, b>>[2] = b
    OBVIOUS
  <1> QED
    BY <1>1 DEF Range

-----------------------------------------------------------------------------
(* A set of numbers with 0 and every successor of a member has them all.   *)
LEMMA NumbersAll ==
  ASSUME NEW T \in SUBSET Nat, 0 \in T, \A n \in T : n + 1 \in T
  PROVE  T = Nat
  <1>1. SUFFICES ASSUME Nat \ T # {} PROVE FALSE
    OBVIOUS
  <1>2. PICK m \in Nat \ T : \A n \in Nat \ T : ~ (<<n, m>> \in OpToRel(<, Nat))
    <2>1. IsWellFoundedOn(OpToRel(<, Nat), Nat) /\ Nat \ T \subseteq Nat
      BY NatLessThanWellFounded
    <2> QED
      BY <1>1, <2>1, WFMin
  <1>3. m # 0 /\ m \in Nat
    BY <1>2
  <1>4. m - 1 \in Nat /\ <<m - 1, m>> \in OpToRel(<, Nat)
    BY <1>3 DEF OpToRel
  <1>5. m - 1 \in T
    BY <1>2, <1>4
  <1>6. (m - 1) + 1 \in T /\ (m - 1) + 1 = m
    BY <1>3, <1>5
  <1> QED
    BY <1>2, <1>6

(* A nonempty set of positions has a last one.                             *)
LEMMA LastPosition ==
  ASSUME NEW n \in Nat, NEW s \in SUBSET (1..n), s # {}
  PROVE  Max(s) \in s /\ \A i \in s : i <= Max(s)
  <1> DEFINE Has(m) == \A t \in SUBSET (1..m) : t # {} => \E x \in t : \A y \in t : x >= y
             T == {m \in Nat : Has(m)}
  <1> HIDE DEF Has
  <1>1. 0 \in T
    <2>1. 1..0 = {}
      OBVIOUS
    <2> QED
      BY <2>1 DEF Has
  <1>2. ASSUME NEW m \in T PROVE m + 1 \in T
    <2>1. SUFFICES ASSUME NEW t \in SUBSET (1..(m + 1)), t # {}
                   PROVE  \E x \in t : \A y \in t : x >= y
      BY DEF Has
    <2>2. CASE m + 1 \in t
      BY <2>2
    <2>3. CASE m + 1 \notin t
      <3>1. t \in SUBSET (1..m)
        BY <2>3
      <3> QED
        BY <2>1, <3>1 DEF Has
    <2> QED
      BY <2>2, <2>3
  <1>3. T = Nat
    BY <1>1, <1>2, NumbersAll
  <1>4. \E x \in s : \A y \in s : x >= y
    BY <1>3 DEF Has
  <1>5. Max(s) \in s /\ \A y \in s : Max(s) >= y
    BY <1>4 DEF Max
  <1> QED
    BY <1>5

(* The last of the first n positions, and the positions before it.         *)
LEMMA LastOfPrefix ==
  ASSUME NEW n \in Nat, n > 0
  PROVE  Max(1..n) = n /\ (1..n) \ {n} = 1..(n - 1) /\ 1..n # {}
  <1>1. 1..n # {} /\ n \in 1..n
    OBVIOUS
  <1>2. Max(1..n) \in 1..n /\ n <= Max(1..n)
    BY <1>1, LastPosition
  <1>3. (1..n) \ {n} = 1..(n - 1)
    OBVIOUS
  <1> QED
    BY <1>1, <1>2, <1>3

(* A left fold whose step is given as a function: what the recursive       *)
(* function that FoldLeft stands for is, on the sets of positions of a     *)
(* sequence.                                                               *)
IsFold(f, step, base, seq) ==
  f = [s \in SUBSET DOMAIN seq |->
         IF s = {} THEN base ELSE step[f[s \ {Max(s)}]][seq[Max(s)]]]

LEMMA FoldExists ==
  ASSUME NEW V, NEW D, NEW step \in [V -> [D -> V]], NEW base \in V, NEW seq \in Seq(D)
  PROVE  \E f \in [SUBSET DOMAIN seq -> V] : IsFold(f, step, base, seq)
  <1> DEFINE Fold(m, f) ==
               f = [s \in SUBSET (1..m) |->
                      IF s = {} THEN base ELSE step[f[s \ {Max(s)}]][seq[Max(s)]]]
             Has(m) == \E f \in [SUBSET (1..m) -> V] : Fold(m, f)
             T == {m \in Nat : m <= Len(seq) => Has(m)}
  <1> HIDE DEF Fold, Has
  <1>1. 0 \in T
    <2> DEFINE f == [s \in SUBSET (1..0) |-> base]
    <2>1. SUBSET (1..0) = {{}}
      OBVIOUS
    <2>2. f \in [SUBSET (1..0) -> V] /\ Fold(0, f)
      BY <2>1 DEF Fold
    <2> QED
      BY <2>2 DEF Has
  <1>2. ASSUME NEW m \in T PROVE m + 1 \in T
    <2>0. m \in Nat /\ m + 1 \in Nat /\ Len(seq) \in Nat /\ (m <= Len(seq) => Has(m))
      OBVIOUS
    <2> HIDE DEF T
    <2>1. SUFFICES ASSUME m + 1 <= Len(seq) PROVE Has(m + 1)
      BY <2>0 DEF T
    <2>2. PICK f \in [SUBSET (1..m) -> V] : Fold(m, f)
      <3>1. Has(m)
        BY <2>0, <2>1
      <3> QED
        BY <3>1, Zenon DEF Has
    <2> DEFINE n == m + 1
               g == [s \in SUBSET (1..n) |->
                       IF n \in s THEN step[f[s \ {n}]][seq[n]] ELSE f[s]]
    <2>3. seq[n] \in D /\ n \in Nat
      BY <2>0, <2>1
    <2>4. ASSUME NEW s \in SUBSET (1..n)
          PROVE  /\ g[s] \in V
                 /\ g[s] = IF s = {} THEN base ELSE step[g[s \ {Max(s)}]][seq[Max(s)]]
      <3>1. CASE n \in s
        <4>1. s \ {n} \in SUBSET (1..m)
          BY <2>0
        <4>2. f[s \ {n}] \in V /\ g[s] = step[f[s \ {n}]][seq[n]]
          BY <3>1, <4>1
        <4>3. Max(s) = n
          <5>1. Max(s) \in s /\ n <= Max(s)
            BY <3>1, <2>3, LastPosition
          <5>2. Max(s) \in 1..n
            BY <5>1
          <5> HIDE DEF n
          <5> QED
            BY <2>3, <5>1, <5>2
        <4>4. s \ {n} \in SUBSET (1..n) /\ n \notin s \ {n}
          OBVIOUS
        <4>5. g[s \ {n}] = f[s \ {n}]
          BY <4>4
        <4>6. step[f[s \ {n}]][seq[n]] \in V
          BY <2>3, <4>2, SMTT(30)
        <4> HIDE DEF g, n
        <4> QED
          BY <3>1, <4>2, <4>3, <4>5, <4>6
      <3>2. CASE n \notin s
        <4>1. s \in SUBSET (1..m)
          BY <2>0, <3>2
        <4>2. g[s] = f[s] /\ f[s] \in V
          BY <3>2, <4>1
        <4>3. f[s] = IF s = {} THEN base ELSE step[f[s \ {Max(s)}]][seq[Max(s)]]
          BY <2>2, <4>1 DEF Fold
        <4>4. s # {} => g[s \ {Max(s)}] = f[s \ {Max(s)}]
          <5>1. s \ {Max(s)} \in SUBSET (1..n) /\ n \notin s \ {Max(s)}
            BY <3>2
          <5> QED
            BY <5>1
        <4> QED
          BY <4>2, <4>3, <4>4
      <3> QED
        BY <3>1, <3>2
    <2>5. g \in [SUBSET (1..n) -> V]
      BY <2>4
    <2>6. Fold(n, g)
      BY <2>4 DEF Fold
    <2> QED
      BY <2>5, <2>6 DEF Has
  <1>3. T = Nat
    BY <1>1, <1>2, NumbersAll
  <1>4. Has(Len(seq)) /\ Len(seq) \in Nat /\ DOMAIN seq = 1..Len(seq)
    BY <1>3
  <1>5. PICK f \in [SUBSET (1..Len(seq)) -> V] : Fold(Len(seq), f)
    BY <1>4, Zenon DEF Has
  <1>6. IsFold(f, step, base, seq)
    BY <1>4, <1>5 DEF IsFold, Fold
  <1> QED
    BY <1>4, <1>6

(* The values a fold goes through, from its equation alone, which is known *)
(* only while they have the right type.                                    *)
Folding(g, V, D, step, base, seq) ==
  /\ step \in [V -> [D -> V]] /\ base \in V /\ seq \in Seq(D)
  /\ g[{}] = base
  /\ \A s \in SUBSET DOMAIN seq : s # {} /\ g[s \ {Max(s)}] \in V =>
       g[s] = step[g[s \ {Max(s)}]][seq[Max(s)]]

LEMMA FoldUnfolds ==
  ASSUME NEW g, NEW V, NEW D, NEW step, NEW base, NEW seq, Folding(g, V, D, step, base, seq)
  PROVE  \E h \in [0..Len(seq) -> V] :
           /\ h[0] = base /\ h[Len(seq)] = g[DOMAIN seq]
           /\ \A n \in 1..Len(seq) : h[n] = step[h[n - 1]][seq[n]]
  <1> DEFINE Good(n) == g[1..n] \in V /\ (n > 0 => g[1..n] = step[g[1..(n - 1)]][seq[n]])
             T == {n \in Nat : n <= Len(seq) => Good(n)}
             h == [n \in 0..Len(seq) |-> g[1..n]]
  <1>0. step \in [V -> [D -> V]] /\ base \in V /\ seq \in Seq(D) /\ g[{}] = base
    BY DEF Folding
  <1>1. Len(seq) \in Nat /\ DOMAIN seq = 1..Len(seq) /\ 1..0 = {}
    BY <1>0
  <1>2. 0 \in T
    BY <1>0, <1>1
  <1>3. ASSUME NEW n \in T PROVE n + 1 \in T
    <2>0. n \in Nat /\ n + 1 \in Nat /\ (n <= Len(seq) => Good(n))
      OBVIOUS
    <2>1. SUFFICES ASSUME n + 1 <= Len(seq) PROVE Good(n + 1)
      BY <2>0
    <2>2. PICK m \in 1..Len(seq) : m = n + 1 /\ m - 1 = n
      BY <1>1, <2>0, <2>1
    <2>3. Max(1..m) = m /\ (1..m) \ {m} = 1..n /\ 1..m # {} /\ 1..m \in SUBSET DOMAIN seq
      <3>1. m \in Nat /\ m > 0
        BY <2>2
      <3>2. 1..m \in SUBSET DOMAIN seq
        BY <1>0, <1>1
      <3> QED
        BY <2>2, <3>1, <3>2, LastOfPrefix
    <2>4. g[1..n] \in V /\ seq[m] \in D
      BY <1>0, <1>1, <2>0, <2>1
    <2>5. g[1..m] = step[g[1..n]][seq[m]]
      BY <2>3, <2>4 DEF Folding
    <2>6. step[g[1..n]][seq[m]] \in V
      BY <1>0, <2>4, SMTT(30)
    <2> QED
      BY <2>2, <2>5, <2>6
  <1>4. T = Nat
    <2> HIDE DEF T
    <2>1. T \in SUBSET Nat
      BY DEF T
    <2> QED
      BY <1>2, <1>3, <2>1, NumbersAll
  <1>5. ASSUME NEW n \in 0..Len(seq) PROVE Good(n)
    <2>1. n \in Nat /\ n <= Len(seq)
      BY <1>1
    <2> HIDE DEF Good
    <2> QED
      BY <1>4, <2>1
  <1>6. h \in [0..Len(seq) -> V] /\ h[0] = base /\ h[Len(seq)] = g[DOMAIN seq]
    BY <1>0, <1>1, <1>5
  <1>7. ASSUME NEW n \in 1..Len(seq) PROVE h[n] = step[h[n - 1]][seq[n]]
    <2>1. n \in 0..Len(seq) /\ n - 1 \in 0..Len(seq) /\ n > 0
      BY <1>1
    <2>2. h[n] = g[1..n] /\ h[n - 1] = g[1..(n - 1)]
      BY <2>1
    <2> HIDE DEF h
    <2> QED
      BY <1>5, <2>1, <2>2
  <1> QED
    BY <1>6, <1>7

(* What holds at first and is kept by each of n steps holds at the end.    *)
LEMMA StepsKeep ==
  ASSUME NEW m \in Nat, NEW T \in SUBSET (0..m), 0 \in T, \A n \in 1..m : n - 1 \in T => n \in T
  PROVE  m \in T
  <1> DEFINE U == {n \in Nat : n <= m => n \in T}
  <1>1. 0 \in U
    OBVIOUS
  <1>2. ASSUME NEW n \in U PROVE n + 1 \in U
    <2>1. SUFFICES ASSUME n + 1 <= m PROVE n + 1 \in T
      OBVIOUS
    <2>2. n + 1 \in 1..m /\ (n + 1) - 1 = n /\ n <= m
      BY <2>1
    <2> QED
      BY <2>2
  <1>3. U = Nat
    <2> HIDE DEF U
    <2>1. U \in SUBSET Nat
      BY DEF U
    <2> QED
      BY <1>1, <1>2, <2>1, NumbersAll
  <1> QED
    BY <1>3

(* A fold whose steps add the elements of each item, f[n] being that of    *)
(* the first n items.  It is known by its equation alone, and that only    *)
(* while its values have the right type.                                   *)
CollectingFold(f, V, D, step, base, seq, elements) ==
  /\ step \in [V -> [D -> V]] /\ base \in V /\ seq \in Seq(D)
  /\ \A v \in V, d \in D : Range(step[v][d]) = Range(v) \cup elements[d]
  /\ f[0] = base
  /\ \A n \in 1..Len(seq) : f[n - 1] \in V => f[n] = step[f[n - 1]][seq[n]]

(* The result has what the base had and what the items add.                *)
LEMMA FoldCollects ==
  ASSUME NEW f, NEW V, NEW D, NEW step, NEW base, NEW seq, NEW elements,
         CollectingFold(f, V, D, step, base, seq, elements)
  PROVE  /\ f[Len(seq)] \in V
         /\ \A x : x \in Range(f[Len(seq)]) <=>
                     x \in Range(base) \/ \E i \in DOMAIN seq : x \in elements[seq[i]]
  <1> DEFINE Good(n) ==
               /\ f[n] \in V
               /\ \A x : x \in Range(f[n]) <=>
                           x \in Range(base) \/ \E i \in 1..n : x \in elements[seq[i]]
             T == {n \in Nat : n <= Len(seq) => Good(n)}
  <1> HIDE DEF Good
  <1>1. /\ step \in [V -> [D -> V]] /\ base \in V /\ seq \in Seq(D)
        /\ Len(seq) \in Nat /\ DOMAIN seq = 1..Len(seq)
    BY DEF CollectingFold
  <1>2. 0 \in T
    <2>1. 1..0 = {}
      OBVIOUS
    <2>2. Good(0)
      BY <1>1, <2>1 DEF Good, CollectingFold
    <2> QED
      BY <2>2
  <1>3. ASSUME NEW n \in T PROVE n + 1 \in T
    <2>1. n \in Nat /\ n + 1 \in Nat /\ (n <= Len(seq) => Good(n))
      OBVIOUS
    <2> HIDE DEF T
    <2>2. SUFFICES ASSUME n + 1 <= Len(seq) PROVE Good(n + 1)
      BY <2>1 DEF T
    <2>3. PICK m \in 1..Len(seq) : m = n + 1 /\ m - 1 = n
      BY <1>1, <2>1, <2>2
    <2>4. Good(n) /\ f[n] \in V
      BY <1>1, <2>1, <2>2 DEF Good
    <2>5. seq[m] \in D /\ step[f[n]][seq[m]] \in V
      BY <1>1, <2>3, <2>4
    <2>6. f[m] = step[f[n]][seq[m]]
      BY <2>3, <2>4 DEF CollectingFold
    <2>7. f[m] \in V /\ Range(f[m]) = Range(f[n]) \cup elements[seq[m]]
      BY <2>4, <2>5, <2>6, SMTT(30) DEF CollectingFold
    <2>8. \A i : i \in 1..m <=> i \in 1..n \/ i = m
      BY <2>1, <2>3
    <2>9. ASSUME NEW x
          PROVE  x \in Range(f[m]) <=>
                   x \in Range(base) \/ \E i \in 1..m : x \in elements[seq[i]]
      BY <2>4, <2>7, <2>8 DEF Good
    <2> QED
      BY <2>3, <2>7, <2>9 DEF Good
  <1>4. T = Nat
    BY <1>2, <1>3, NumbersAll
  <1>5. Good(Len(seq))
    BY <1>1, <1>4, SMTT(30)
  <1> QED
    BY <1>1, <1>5 DEF Good

-----------------------------------------------------------------------------
(* An enumeration of D in the order of a rank, which no two of its members *)
(* share.                                                                  *)
Increasing(q, D, rank) ==
  /\ q \in [1..Cardinality(D) -> D]
  /\ \A i, j \in 1..Cardinality(D) : i < j => rank[q[i]] < rank[q[j]]

UpTo(D, rank, x) == {y \in D : rank[y] <= rank[x]}

(* The place of a member is the number of those up to it.                  *)
LEMMA PlaceCounts ==
  ASSUME NEW D, IsFiniteSet(D), NEW rank \in Injection(D, Nat)
  PROVE  /\ \A x \in D : Cardinality(UpTo(D, rank, x)) \in 1..Cardinality(D)
         /\ \A x, y \in D : rank[x] < rank[y] =>
              Cardinality(UpTo(D, rank, x)) < Cardinality(UpTo(D, rank, y))
  <1>1. rank \in [D -> Nat]
    BY DEF Injection
  <1>2. ASSUME NEW x \in D
        PROVE  /\ UpTo(D, rank, x) \in SUBSET D /\ x \in UpTo(D, rank, x)
               /\ IsFiniteSet(UpTo(D, rank, x))
               /\ Cardinality(UpTo(D, rank, x)) \in 1..Cardinality(D)
    <2>1. UpTo(D, rank, x) \in SUBSET D /\ x \in UpTo(D, rank, x)
      BY <1>1 DEF UpTo
    <2>2. IsFiniteSet(UpTo(D, rank, x)) /\ Cardinality(UpTo(D, rank, x)) <= Cardinality(D)
      BY <2>1, FS_Subset
    <2>3. Cardinality(UpTo(D, rank, x)) \in Nat /\ Cardinality(D) \in Nat
      BY <2>2, FS_CardinalityType
    <2>4. Cardinality(UpTo(D, rank, x)) # 0
      BY <2>1, <2>2, FS_EmptySet
    <2> QED
      BY <2>1, <2>2, <2>3, <2>4
  <1>3. ASSUME NEW x \in D, NEW y \in D, rank[x] < rank[y]
        PROVE  Cardinality(UpTo(D, rank, x)) < Cardinality(UpTo(D, rank, y))
    <2>1. rank[x] \in Nat /\ rank[y] \in Nat
      BY <1>1
    <2>2. UpTo(D, rank, x) \in SUBSET UpTo(D, rank, y)
      BY <1>1, <1>3, <2>1 DEF UpTo
    <2>3. y \in UpTo(D, rank, y) /\ y \notin UpTo(D, rank, x)
      BY <1>3, <2>1 DEF UpTo
    <2>4. /\ Cardinality(UpTo(D, rank, x)) <= Cardinality(UpTo(D, rank, y))
          /\ Cardinality(UpTo(D, rank, x)) # Cardinality(UpTo(D, rank, y))
      BY <1>2, <2>2, <2>3, FS_Subset
    <2>5. Cardinality(UpTo(D, rank, x)) \in Nat /\ Cardinality(UpTo(D, rank, y)) \in Nat
      BY <1>2, FS_CardinalityType
    <2> QED
      BY <2>4, <2>5
  <1> QED
    BY <1>2, <1>3

(* A finite set can be put in order.                                       *)
LEMMA IncreasingExists ==
  ASSUME NEW D, IsFiniteSet(D), NEW rank \in Injection(D, Nat)
  PROVE  \E q : Increasing(q, D, rank)
  <1> DEFINE n     == Cardinality(D)
             place == [x \in D |-> Cardinality(UpTo(D, rank, x))]
             q     == [i \in 1..n |-> CHOOSE x \in D : place[x] = i]
  <1>1. rank \in [D -> Nat] /\ \A x, y \in D : x # y => rank[x] # rank[y]
    BY DEF Injection, IsInjective
  <1>2. n \in Nat /\ IsFiniteSet(1..n) /\ Cardinality(1..n) = n
    <2>1. n \in Nat
      BY FS_CardinalityType
    <2> HIDE DEF n
    <2>2. 1 \in Int /\ n \in Int /\ (IF 1 > n THEN 0 ELSE n - 1 + 1) = n
      BY <2>1
    <2> QED
      BY <2>1, <2>2, FS_Interval
  <1>3. place \in [D -> 1..n]
    BY PlaceCounts
  <1>4. \A x, y \in D : x # y => place[x] # place[y]
    <2>1. SUFFICES ASSUME NEW x \in D, NEW y \in D, x # y PROVE place[x] # place[y]
      OBVIOUS
    <2>2. rank[x] < rank[y] \/ rank[y] < rank[x]
      <3>1. rank[x] \in Nat /\ rank[y] \in Nat /\ rank[x] # rank[y]
        BY <1>1, <2>1
      <3> QED
        BY <3>1
    <2>3. place[x] < place[y] \/ place[y] < place[x]
      BY <2>2, PlaceCounts
    <2>4. place[x] \in Int /\ place[y] \in Int
      BY <1>3
    <2> QED
      BY <2>3, <2>4
  <1>5. place \in Surjection(D, 1..n)
    <2> HIDE DEF place, n
    <2>1. place \in Injection(D, 1..n)
      BY <1>3, <1>4 DEF Injection, IsInjective
    <2>2. Cardinality(D) = Cardinality(1..n)
      BY <1>2 DEF n
    <2> QED
      BY <1>2, <2>1, <2>2, FS_Injection
  <1>6. ASSUME NEW i \in 1..n PROVE q[i] \in D /\ place[q[i]] = i
    <2>1. \E x \in D : place[x] = i
      BY <1>5 DEF Surjection
    <2> HIDE DEF place
    <2> QED
      BY <2>1
  <1>7. ASSUME NEW i \in 1..n, NEW j \in 1..n, i < j PROVE rank[q[i]] < rank[q[j]]
    <2>1. PICK x \in D, y \in D : x = q[i] /\ y = q[j] /\ place[x] = i /\ place[y] = j
      BY <1>6
    <2>2. rank[x] \in Nat /\ rank[y] \in Nat /\ x # y /\ i \in Int /\ j \in Int
      BY <1>1, <1>7, <2>1
    <2>3. ~ rank[y] < rank[x]
      <3>1. rank[y] < rank[x] => place[y] < place[x]
        BY PlaceCounts
      <3> QED
        BY <1>7, <2>1, <2>2, <3>1
    <2>4. rank[x] # rank[y]
      BY <1>1, <2>2
    <2> QED
      BY <2>1, <2>2, <2>3, <2>4
  <1> HIDE DEF q
  <1>8. q \in [1..n -> D]
    BY <1>6 DEF q
  <1> QED
    BY <1>7, <1>8 DEF Increasing

(* There is one way to.                                                    *)
LEMMA IncreasingUnique ==
  ASSUME NEW D, IsFiniteSet(D), NEW rank \in Injection(D, Nat),
         NEW q, Increasing(q, D, rank), NEW r, Increasing(r, D, rank)
  PROVE  q = r
  <1> DEFINE n == Cardinality(D)
  <1>1. rank \in [D -> Nat] /\ \A x, y \in D : x # y => rank[x] # rank[y]
    BY DEF Injection, IsInjective
  <1>2. n \in Nat /\ IsFiniteSet(1..n) /\ Cardinality(1..n) = n
    <2>1. n \in Nat
      BY FS_CardinalityType
    <2> HIDE DEF n
    <2>2. 1 \in Int /\ n \in Int /\ (IF 1 > n THEN 0 ELSE n - 1 + 1) = n
      BY <2>1
    <2> QED
      BY <2>1, <2>2, FS_Interval
  <1>3. ASSUME NEW f, Increasing(f, D, rank), NEW i \in 1..n
        PROVE  f[i] \in D /\ Cardinality(UpTo(D, rank, f[i])) = i
    <2>1. f \in [1..n -> D] /\ \A k, j \in 1..n : k < j => rank[f[k]] < rank[f[j]]
      BY <1>3 DEF Increasing
    <2>2. \A k, j \in 1..n : k # j => f[k] # f[j]
      <3>1. SUFFICES ASSUME NEW k \in 1..n, NEW j \in 1..n, k # j PROVE f[k] # f[j]
        OBVIOUS
      <3>2. k < j \/ j < k
        BY <1>2, <3>1
      <3>3. rank[f[k]] < rank[f[j]] \/ rank[f[j]] < rank[f[k]]
        BY <2>1, <3>2
      <3>4. rank[f[k]] \in Nat /\ rank[f[j]] \in Nat
        BY <1>1, <2>1
      <3> QED
        BY <3>3, <3>4
    <2>3. f \in Surjection(1..n, D)
      <3>1. f \in Injection(1..n, D)
        BY <2>1, <2>2 DEF Injection, IsInjective
      <3> QED
        BY <1>2, <3>1, FS_Injection
    <2>4. UpTo(D, rank, f[i]) = {f[k] : k \in 1..i}
      <3>1. ASSUME NEW k \in 1..n PROVE rank[f[k]] <= rank[f[i]] <=> k <= i
        <4>1. rank[f[k]] \in Nat /\ rank[f[i]] \in Nat /\ k \in Int /\ i \in Int
          BY <1>1, <2>1
        <4>2. /\ k < i => rank[f[k]] < rank[f[i]]
              /\ i < k => rank[f[i]] < rank[f[k]]
          BY <2>1
        <4>3. k < i \/ i < k \/ k = i
          BY <4>1
        <4> QED
          BY <4>1, <4>2, <4>3
      <3>2. \A y \in D : \E k \in 1..n : f[k] = y
        BY <2>3 DEF Surjection
      <3>3. 1..i \subseteq 1..n /\ \A k \in 1..n : k <= i <=> k \in 1..i
        BY <1>2
      <3> HIDE DEF n
      <3>4. ASSUME NEW y \in UpTo(D, rank, f[i]) PROVE y \in {f[k] : k \in 1..i}
        <4>1. y \in D /\ rank[y] <= rank[f[i]]
          BY DEF UpTo
        <4>2. PICK k \in 1..n : f[k] = y
          BY <3>2, <4>1
        <4> QED
          BY <3>1, <3>3, <4>1, <4>2
      <3>5. ASSUME NEW k \in 1..i PROVE f[k] \in UpTo(D, rank, f[i])
        BY <2>1, <3>1, <3>3 DEF UpTo
      <3> QED
        BY <3>4, <3>5
    <2>5. Cardinality({f[k] : k \in 1..i}) = i
      <3> DEFINE h == [k \in 1..i |-> f[k]]
      <3>1. i \in Nat /\ 1..i \subseteq 1..n
        BY <1>2
      <3> HIDE DEF n
      <3>2. ExistsBijection(1..i, {f[k] : k \in 1..i})
        <4>1. h \in [1..i -> {f[k] : k \in 1..i}]
          OBVIOUS
        <4>2. \A k, j \in 1..i : k # j => h[k] # h[j]
          BY <2>2, <3>1
        <4>3. \A y \in {f[k] : k \in 1..i} : \E k \in 1..i : h[k] = y
          OBVIOUS
        <4> HIDE DEF h
        <4> QED
          BY <4>1, <4>2, <4>3 DEF ExistsBijection, Bijection, Injection, Surjection, IsInjective
      <3> QED
        BY <3>1, <3>2, FS_CountingElements
    <2>6. f[i] \in D
      BY <2>1
    <2> QED
      BY <2>4, <2>5, <2>6
  <1>4. ASSUME NEW i \in 1..n PROVE q[i] = r[i]
    <2>1. PICK x \in D, y \in D : x = q[i] /\ y = r[i]
      BY <1>3
    <2>2. /\ Cardinality(UpTo(D, rank, x)) = i /\ Cardinality(UpTo(D, rank, y)) = i
          /\ i \in Int
      BY <1>2, <1>3, <2>1
    <2>3. rank[x] \in Nat /\ rank[y] \in Nat /\ (x # y => rank[x] # rank[y])
      BY <1>1
    <2>4. ~ rank[x] < rank[y] /\ ~ rank[y] < rank[x]
      <3>1. /\ rank[x] < rank[y] => i < i
            /\ rank[y] < rank[x] => i < i
        BY <2>2, PlaceCounts
      <3> QED
        BY <2>2, <3>1
    <2> QED
      BY <2>1, <2>3, <2>4
  <1>5. q \in [1..n -> D] /\ r \in [1..n -> D]
    BY DEF Increasing
  <1>6. \A P : q \in [P -> D] /\ r \in [P -> D] /\ (\A i \in P : q[i] = r[i]) => q = r
    OBVIOUS
  <1> QED
    BY <1>4, <1>5, <1>6, Zenon
=============================================================================
