----------------------- MODULE RecordFreshnessProofs -----------------------
(***************************************************************************)
(* Proofs about RepositoryKeys and RecordFreshness, for any table, scopes  *)
(* and number of writes.                                                   *)
(*                                                                         *)
(* First, what the loops of writeInvalidationTags and                      *)
(* invalidateAfterCreate add up to, for any list of records: the folds and *)
(* the concatenation that RepositoryKeys has for them lose no tag and no   *)
(* deletion.  Then how far the invalidations of each write reach, and that *)
(* what they leave cached is no more than the decorator's tags and         *)
(* prefixes cannot name.                                                   *)
(***************************************************************************)
EXTENDS RecordFreshness, ListLemmas

(* The inductive invariant: the three reaches are inductive together once  *)
(* no two records have an identifier in common, which the database sees    *)
(* to.  A record that took over the identifier of another would answer     *)
(* reads the other is cached for.                                          *)
UniqueIdentifiers == Unique(rows)

FreshnessInv ==
  /\ FreshnessTypeOK
  /\ UniqueIdentifiers
  /\ WriterScopeFresh
  /\ TagsLeaveOnlyGone
  /\ FallbackLeavesOnlyGone

-----------------------------------------------------------------------------
(* Lists in which no tag is twice: what appendTag makes of one.            *)
Lists(S) == {ts \in Seq(S) : IsInjective(ts)}

LEMMA AppendTagAdds ==
  ASSUME NEW S, NEW ts \in Lists(S), NEW t \in S
  PROVE  /\ AppendTag(ts, t) \in Lists(S)
         /\ Range(AppendTag(ts, t)) = Range(ts) \cup {t}
  <1>1. ts \in Seq(S) /\ Len(ts) \in Nat /\ DOMAIN ts = 1..Len(ts) /\ IsInjective(ts)
    BY DEF Lists
  <1>2. CASE Contains(ts, t)
    <2>1. t \in Range(ts)
      BY <1>1, <1>2 DEF Contains, Range
    <2> QED
      BY <1>2, <2>1 DEF AppendTag
  <1>3. CASE ~Contains(ts, t)
    <2> DEFINE us == Append(ts, t)
    <2>1. /\ us \in Seq(S) /\ Len(us) = Len(ts) + 1 /\ DOMAIN us = 1..(Len(ts) + 1)
          /\ us[Len(ts) + 1] = t /\ \A i \in 1..Len(ts) : us[i] = ts[i] /\ us[i] # t
      BY <1>1, <1>3 DEF Contains
    <2>2. IsInjective(us)
      BY <1>1, <2>1 DEF IsInjective
    <2>3. Range(us) = Range(ts) \cup {t}
      BY <1>1, <2>1 DEF Range
    <2> QED
      BY <1>3, <2>1, <2>2, <2>3 DEF AppendTag, Lists
  <1> QED
    BY <1>2, <1>3

(* appendTags adds all the tags it is given.                               *)
LEMMA AppendTagsAdds ==
  ASSUME NEW S, NEW ts \in Lists(S), NEW us \in Seq(S)
  PROVE  /\ AppendTags(ts, us) \in Lists(S)
         /\ Range(AppendTags(ts, us)) = Range(ts) \cup Range(us)
  <1> DEFINE step     == [v \in Lists(S) |-> [t \in S |-> AppendTag(v, t)]]
             elements == [t \in S |-> {t}]
             Fold(f)  == f = [s \in SUBSET DOMAIN us |->
                                IF s = {} THEN ts ELSE AppendTag(f[s \ {Max(s)}], us[Max(s)])]
             g        == CHOOSE f : Fold(f)
  <1>1. step \in [Lists(S) -> [S -> Lists(S)]]
    BY AppendTagAdds
  <1>2. ASSUME NEW s \in SUBSET DOMAIN us, s # {} PROVE us[Max(s)] \in S
    <2>1. s \in SUBSET (1..Len(us)) /\ Len(us) \in Nat
      OBVIOUS
    <2>2. Max(s) \in 1..Len(us)
      BY <1>2, <2>1, LastPosition
    <2> QED
      BY <2>2
  <1>3. \E f : Fold(f)
    <2>1. PICK f \in [SUBSET DOMAIN us -> Lists(S)] : IsFold(f, step, ts, us)
      BY <1>1, FoldExists
    <2>2. ASSUME NEW s \in SUBSET DOMAIN us, s # {}
          PROVE  step[f[s \ {Max(s)}]][us[Max(s)]] = AppendTag(f[s \ {Max(s)}], us[Max(s)])
      BY <1>2, <2>2
    <2> QED
      BY <2>1, <2>2, ZenonT(30) DEF IsFold
  <1>4. Fold(g)
    BY <1>3
  <1>5. AppendTags(ts, us) = g[DOMAIN us]
    BY DEF AppendTags, FoldLeft, MapThenFoldSet
  <1> DEFINE h == [n \in 0..Len(us) |-> g[1..n]]
  <1>6. h[0] = ts
    <2>1. 1..0 = {}
      OBVIOUS
    <2> QED
      BY <1>4, <2>1
  <1>7. ASSUME NEW n \in 1..Len(us), h[n - 1] \in Lists(S)
        PROVE  h[n] = step[h[n - 1]][us[n]]
    <2>1. us[n] \in S /\ 1..n \in SUBSET DOMAIN us
      OBVIOUS
    <2>2. g[1..n] = AppendTag(g[1..(n - 1)], us[n])
      <3>1. n \in Nat /\ n > 0
        OBVIOUS
      <3>2. Max(1..n) = n /\ (1..n) \ {n} = 1..(n - 1) /\ 1..n # {}
        BY <3>1, LastOfPrefix
      <3> HIDE DEF g
      <3> QED
        BY <1>4, <2>1, <3>2
    <2>3. h[n] = g[1..n] /\ h[n - 1] = g[1..(n - 1)]
      OBVIOUS
    <2> QED
      BY <1>7, <2>1, <2>2, <2>3
  <1>8. \A v \in Lists(S), t \in S : Range(step[v][t]) = Range(v) \cup elements[t]
    BY AppendTagAdds
  <1>9. h[Len(us)] = AppendTags(ts, us) /\ DOMAIN us = 1..Len(us)
    BY <1>5
  <1>10. \A x : x \in Range(us) <=> \E i \in DOMAIN us : x \in elements[us[i]]
    <2>1. \A i \in DOMAIN us : elements[us[i]] = {us[i]}
      OBVIOUS
    <2> QED
      BY <2>1 DEF Range
  <1> HIDE DEF step, elements, h
  <1>11. CollectingFold(h, Lists(S), S, step, ts, us, elements)
    BY <1>1, <1>6, <1>7, <1>8 DEF CollectingFold
  <1> QED
    BY <1>9, <1>10, <1>11, FoldCollects

-----------------------------------------------------------------------------
(* The tags of a record: its id's and its identifiers'.                    *)
LEMMA RecordTagsHas ==
  ASSUME NEW X, NEW r, r.identifiers \in Seq(X)
  PROVE  /\ RecordTags(r) \in Seq(Range(RecordTags(r)))
         /\ \A t : t \in Range(RecordTags(r)) <=>
                     \/ r.id # NoArg /\ t = IdTag(r.id)
                     \/ \E x \in Range(r.identifiers) : t = IdentifierTag(x)
  <1> DEFINE ids == IF r.id = NoArg THEN <<>> ELSE <<IdTag(r.id)>>
             xs  == [j \in DOMAIN r.identifiers |-> IdentifierTag(r.identifiers[j])]
             S   == {IdTag(r.id)} \cup {IdentifierTag(x) : x \in Range(r.identifiers)}
  <1>1. ids \in Seq(S) /\ \A t : t \in Range(ids) <=> r.id # NoArg /\ t = IdTag(r.id)
    <2>1. CASE r.id = NoArg
      BY <2>1 DEF Range
    <2>2. CASE r.id # NoArg
      <3>1. ids = <<IdTag(r.id)>> /\ DOMAIN ids = {1} /\ ids[1] = IdTag(r.id)
        BY <2>2
      <3>2. Range(ids) = {IdTag(r.id)}
        BY <3>1 DEF Range
      <3> QED
        BY <2>2, <3>1, <3>2
    <2> QED
      BY <2>1, <2>2
  <1>2. DOMAIN r.identifiers = 1..Len(r.identifiers) /\ Len(r.identifiers) \in Nat
    OBVIOUS
  <1>3. xs \in Seq(S)
    BY <1>2 DEF Range
  <1>4. \A t : t \in Range(xs) <=> \E x \in Range(r.identifiers) : t = IdentifierTag(x)
    BY DEF Range
  <1>5. RecordTags(r) = ids \o xs
    BY DEF RecordTags
  <1> HIDE DEF ids, xs, S
  <1>6. RecordTags(r) \in Seq(S) /\ Range(RecordTags(r)) = Range(ids) \cup Range(xs)
    BY <1>1, <1>3, <1>5, RangeConcat
  <1>7. RecordTags(r) \in Seq(Range(RecordTags(r)))
    BY <1>6 DEF Range
  <1> QED
    BY <1>1, <1>4, <1>6, <1>7

(* The tags of a write are the list tag, the tag of its scope and the tags *)
(* of its records, for any number of records: none is lost on the way      *)
(* through the loops of writeInvalidationTags, and none is there twice.    *)
THEOREM WriteInvalidationTagsComplete ==
  ASSUME NEW s, NEW R, NEW X, NEW rs \in Seq(R), \A r \in R : r.identifiers \in Seq(X)
  PROVE  /\ IsInjective(WriteInvalidationTags(s, rs))
         /\ \A t : t \in Range(WriteInvalidationTags(s, rs)) <=>
                     \/ t \in {ListTag, ScopeTag(s)}
                     \/ \E i \in DOMAIN rs : t \in Range(RecordTags(rs[i]))
  <1> DEFINE S        == {ListTag, ScopeTag(s)} \cup UNION {Range(RecordTags(r)) : r \in R}
             base     == <<ListTag, ScopeTag(s)>>
             step     == [v \in Lists(S) |-> [r \in R |-> AppendTags(v, RecordTags(r))]]
             elements == [r \in R |-> Range(RecordTags(r))]
             Fold(f)  == f = [q \in SUBSET DOMAIN rs |->
                                IF q = {} THEN base
                                ELSE AppendTags(f[q \ {Max(q)}], RecordTags(rs[Max(q)]))]
             g        == CHOOSE f : Fold(f)
             h        == [n \in 0..Len(rs) |-> g[1..n]]
  <1>1. ASSUME NEW r \in R PROVE RecordTags(r) \in Seq(S)
    <2>1. RecordTags(r) \in Seq(Range(RecordTags(r)))
      BY RecordTagsHas
    <2>2. Range(RecordTags(r)) \subseteq S
      OBVIOUS
    <2> QED
      BY <2>1, <2>2
  <1>2. base \in Lists(S)
    BY DEF Lists, IsInjective, ListTag, ScopeTag, Tag
  <1> HIDE DEF S
  <1>3. ASSUME NEW v \in Lists(S), NEW r \in R
        PROVE  /\ AppendTags(v, RecordTags(r)) \in Lists(S)
               /\ Range(AppendTags(v, RecordTags(r))) = Range(v) \cup elements[r]
    BY <1>1, AppendTagsAdds
  <1>4. step \in [Lists(S) -> [R -> Lists(S)]]
    BY <1>3
  <1>5. \E f : Fold(f)
    <2>1. PICK f \in [SUBSET DOMAIN rs -> Lists(S)] : IsFold(f, step, base, rs)
      BY <1>2, <1>4, FoldExists
    <2>2. ASSUME NEW q \in SUBSET DOMAIN rs, q # {}
          PROVE  step[f[q \ {Max(q)}]][rs[Max(q)]]
                   = AppendTags(f[q \ {Max(q)}], RecordTags(rs[Max(q)]))
      <3>1. q \in SUBSET (1..Len(rs)) /\ Len(rs) \in Nat
        OBVIOUS
      <3>2. Max(q) \in 1..Len(rs)
        BY <2>2, <3>1, LastPosition
      <3>3. rs[Max(q)] \in R /\ f[q \ {Max(q)}] \in Lists(S)
        BY <3>2
      <3> QED
        BY <3>3
    <2> QED
      BY <2>1, <2>2, ZenonT(30) DEF IsFold
  <1>6. Fold(g)
    BY <1>5
  <1>7. WriteInvalidationTags(s, rs) = g[DOMAIN rs]
    BY DEF WriteInvalidationTags, FoldLeft, MapThenFoldSet
  <1> HIDE DEF base
  <1>8. h[0] = base
    <2>1. 1..0 = {} /\ 0 \in 0..Len(rs)
      OBVIOUS
    <2>2. g[{}] = base
      <3> HIDE DEF g
      <3> QED
        BY <1>6
    <2> QED
      BY <2>1, <2>2
  <1>9. ASSUME NEW n \in 1..Len(rs), h[n - 1] \in Lists(S)
        PROVE  h[n] = step[h[n - 1]][rs[n]]
    <2>1. rs[n] \in R /\ 1..n \in SUBSET DOMAIN rs /\ n \in Nat /\ n > 0
      OBVIOUS
    <2>2. Max(1..n) = n /\ (1..n) \ {n} = 1..(n - 1) /\ 1..n # {}
      BY <2>1, LastOfPrefix
    <2>3. g[1..n] = AppendTags(g[1..(n - 1)], RecordTags(rs[n]))
      <3> HIDE DEF g
      <3> QED
        BY <1>6, <2>1, <2>2
    <2>4. h[n] = g[1..n] /\ h[n - 1] = g[1..(n - 1)]
      OBVIOUS
    <2> QED
      BY <1>9, <2>1, <2>3, <2>4
  <1>10. h[Len(rs)] = WriteInvalidationTags(s, rs) /\ DOMAIN rs = 1..Len(rs)
    BY <1>7
  <1>11. /\ \A i \in DOMAIN rs : elements[rs[i]] = Range(RecordTags(rs[i]))
         /\ \A v \in Lists(S), r \in R : Range(step[v][r]) = Range(v) \cup elements[r]
    BY <1>3
  <1>12. \A t : t \in Range(base) <=> t \in {ListTag, ScopeTag(s)}
    BY DEF base, Range
  <1> HIDE DEF step, elements, h
  <1>13. CollectingFold(h, Lists(S), R, step, base, rs, elements)
    BY <1>2, <1>4, <1>8, <1>9, <1>11 DEF CollectingFold
  <1>14. /\ WriteInvalidationTags(s, rs) \in Lists(S)
         /\ \A t : t \in Range(WriteInvalidationTags(s, rs)) <=>
                     t \in Range(base) \/ \E i \in DOMAIN rs : t \in elements[rs[i]]
    BY <1>10, <1>13, FoldCollects
  <1> QED
    BY <1>11, <1>12, <1>14 DEF Lists

-----------------------------------------------------------------------------
(* What a concatenation of sequences has is what one of them has.          *)
LEMMA FlattenSeqHas ==
  ASSUME NEW S, NEW ss \in Seq(Seq(S))
  PROVE  /\ FlattenSeq(ss) \in Seq(S)
         /\ \A x : x \in Range(FlattenSeq(ss)) <=> \E i \in DOMAIN ss : x \in Range(ss[i])
  <1>1. CASE Len(ss) = 0
    <2>1. FlattenSeq(ss) = ss /\ ss = <<>> /\ DOMAIN ss = {} /\ ss \in Seq(S)
      BY <1>1 DEF FlattenSeq
    <2>2. Range(ss) = {}
      BY <2>1 DEF Range
    <2> QED
      BY <2>1, <2>2
  <1>2. CASE Len(ss) # 0
    <2> DEFINE step     == [v \in Seq(S) |-> [d \in Seq(S) |-> v \o d]]
               elements == [d \in Seq(S) |-> Range(d)]
               Flat(f)  == f = [i \in 1..Len(ss) |->
                                  IF i = 1 THEN ss[i] ELSE f[i - 1] \o ss[i]]
               g        == CHOOSE f : Flat(f)
               h        == [n \in 0..Len(ss) |-> IF n = 0 THEN <<>> ELSE g[n]]
    <2>1. Len(ss) \in Nat /\ Len(ss) > 0 /\ DOMAIN ss = 1..Len(ss) /\ <<>> \in Seq(S)
      BY <1>2
    <2>2. step \in [Seq(S) -> [Seq(S) -> Seq(S)]]
      BY RangeConcat
    <2>3. ASSUME NEW d \in Seq(S) PROVE <<>> \o d = d
      OBVIOUS
    <2>4. \E f : Flat(f)
      <3>1. PICK f \in [SUBSET DOMAIN ss -> Seq(S)] : IsFold(f, step, <<>>, ss)
        BY <2>1, <2>2, FoldExists
      <3> DEFINE flat == [i \in 1..Len(ss) |-> f[1..i]]
      <3>2. ASSUME NEW i \in 1..Len(ss)
            PROVE  flat[i] = IF i = 1 THEN ss[i] ELSE flat[i - 1] \o ss[i]
        <4>1. ss[i] \in Seq(S) /\ 1..i \in SUBSET DOMAIN ss /\ i \in Nat /\ i > 0
          BY <2>1
        <4>2. Max(1..i) = i /\ (1..i) \ {i} = 1..(i - 1) /\ 1..i # {}
          BY <4>1, LastOfPrefix
        <4>3. f[1..(i - 1)] \in Seq(S)
          <5>1. 1..(i - 1) \in SUBSET DOMAIN ss
            BY <2>1
          <5> QED
            BY <5>1
        <4>4. f[1..i] = step[f[1..(i - 1)]][ss[i]]
          <5> HIDE DEF step
          <5> QED
            BY <3>1, <4>1, <4>2, ZenonT(30) DEF IsFold
        <4>5. f[1..i] = f[1..(i - 1)] \o ss[i]
          BY <4>1, <4>3, <4>4
        <4>6. CASE i = 1
          <5>1. 1..(i - 1) = {} /\ {} \in SUBSET DOMAIN ss
            BY <4>6
          <5>2. f[1..(i - 1)] = <<>>
            BY <3>1, <5>1 DEF IsFold
          <5> QED
            BY <2>3, <4>1, <4>5, <4>6, <5>2
        <4>7. CASE i # 1
          <5>1. i - 1 \in 1..Len(ss)
            BY <2>1, <4>7
          <5> QED
            BY <4>5, <4>7, <5>1
        <4> QED
          BY <4>6, <4>7
      <3>3. Flat(flat)
        <4>1. flat = [i \in 1..Len(ss) |-> flat[i]]
          OBVIOUS
        <4> HIDE DEF flat
        <4> QED
          BY <3>2, <4>1
      <3> QED
        BY <3>3
    <2>5. Flat(g)
      BY <2>4
    <2>6. FlattenSeq(ss) = g[Len(ss)]
      BY <1>2 DEF FlattenSeq
    <2>7. h[0] = <<>> /\ h[Len(ss)] = FlattenSeq(ss)
      <3> HIDE DEF g
      <3> QED
        BY <2>1, <2>6
    <2>8. ASSUME NEW n \in 1..Len(ss), h[n - 1] \in Seq(S)
          PROVE  h[n] = step[h[n - 1]][ss[n]]
      <3> HIDE DEF g
      <3>1. ss[n] \in Seq(S) /\ h[n] = g[n]
        BY <2>1
      <3>2. h[n] = h[n - 1] \o ss[n]
        <4>1. CASE n = 1
          <5>1. h[n - 1] = <<>>
            BY <2>1, <4>1
          <5>2. g[n] = ss[n]
            BY <2>5, <4>1
          <5> HIDE DEF h
          <5> QED
            BY <2>3, <3>1, <5>1, <5>2
        <4>2. CASE n # 1
          <5>1. h[n - 1] = g[n - 1]
            BY <4>2
          <5> QED
            BY <2>5, <3>1, <4>2, <5>1
        <4> QED
          BY <4>1, <4>2
      <3> HIDE DEF h
      <3> QED
        BY <2>8, <3>1, <3>2
    <2>9. \A v, d \in Seq(S) : Range(step[v][d]) = Range(v) \cup elements[d]
      BY RangeConcat
    <2>10. \A i \in DOMAIN ss : elements[ss[i]] = Range(ss[i])
      OBVIOUS
    <2>11. Range(<<>>) = {}
      BY DEF Range
    <2> HIDE DEF step, elements, h
    <2>12. CollectingFold(h, Seq(S), Seq(S), step, <<>>, ss, elements)
      BY <2>1, <2>2, <2>7, <2>8, <2>9 DEF CollectingFold
    <2>13. /\ FlattenSeq(ss) \in Seq(S)
           /\ \A x : x \in Range(FlattenSeq(ss)) <=>
                       x \in Range(<<>>) \/ \E i \in DOMAIN ss : x \in elements[ss[i]]
      BY <2>7, <2>12, FoldCollects, SMTT(30)
    <2> QED
      BY <2>10, <2>11, <2>13
  <1> QED
    BY <1>1, <1>2

(* The deletions for a record: by its id, and by its identifiers or, when  *)
(* none is known, all that GetByIdentifier cached with an argument.        *)
LEMMA RecordCachesHas ==
  ASSUME NEW X, NEW r, r.identifiers \in Seq(X)
  PROVE  /\ InvalidateRecordCaches(r) \in Seq(Range(InvalidateRecordCaches(r)))
         /\ \A d : d \in Range(InvalidateRecordCaches(r)) <=>
                     \/ r.id # NoArg /\ d = DeletePrefix("GetByID", r.id)
                     \/ r.identifiers = <<>> /\ d = DeletePrefixWithSeparator("GetByIdentifier")
                     \/ \E x \in Range(r.identifiers) : d = DeletePrefix("GetByIdentifier", x)
  <1> DEFINE byId  == DeletePrefix("GetByID", r.id)
             by(x) == DeletePrefix("GetByIdentifier", x)
             all   == DeletePrefixWithSeparator("GetByIdentifier")
             ids   == IF r.id = NoArg THEN <<>> ELSE <<byId>>
             xs    == IF r.identifiers = <<>> THEN <<all>>
                      ELSE [j \in DOMAIN r.identifiers |-> by(r.identifiers[j])]
             S     == {byId, all} \cup {by(x) : x \in Range(r.identifiers)}
  <1>1. InvalidateRecordCaches(r) = ids \o xs
    BY DEF InvalidateRecordCaches
  <1> HIDE DEF byId, by, all
  <1>2. ids \in Seq(S) /\ \A d : d \in Range(ids) <=> r.id # NoArg /\ d = byId
    <2>1. CASE r.id = NoArg
      BY <2>1 DEF Range
    <2>2. CASE r.id # NoArg
      <3>1. ids = <<byId>> /\ DOMAIN ids = {1} /\ ids[1] = byId
        BY <2>2
      <3>2. Range(ids) = {byId}
        BY <3>1 DEF Range
      <3> QED
        BY <2>2, <3>1, <3>2
    <2> QED
      BY <2>1, <2>2
  <1>3. /\ xs \in Seq(S)
        /\ \A d : d \in Range(xs) <=> \/ r.identifiers = <<>> /\ d = all
                                      \/ \E x \in Range(r.identifiers) : d = by(x)
    <2>1. CASE r.identifiers = <<>>
      <3>1. xs = <<all>> /\ DOMAIN xs = {1} /\ xs[1] = all /\ xs \in Seq(S)
        BY <2>1
      <3>2. Range(xs) = {all} /\ Range(r.identifiers) = {}
        BY <2>1, <3>1 DEF Range
      <3> QED
        BY <2>1, <3>1, <3>2
    <2>2. CASE r.identifiers # <<>>
      <3>1. DOMAIN r.identifiers = 1..Len(r.identifiers) /\ Len(r.identifiers) \in Nat
        OBVIOUS
      <3>2. xs = [j \in DOMAIN r.identifiers |-> by(r.identifiers[j])]
        BY <2>2
      <3> HIDE DEF xs
      <3>3. xs \in Seq(S)
        BY <3>1, <3>2 DEF Range
      <3>4. \A d : d \in Range(xs) <=> \E x \in Range(r.identifiers) : d = by(x)
        BY <3>2 DEF Range
      <3> QED
        BY <2>2, <3>3, <3>4
    <2> QED
      BY <2>1, <2>2
  <1> HIDE DEF ids, xs, S
  <1>4. /\ InvalidateRecordCaches(r) \in Seq(S)
        /\ Range(InvalidateRecordCaches(r)) = Range(ids) \cup Range(xs)
    BY <1>1, <1>2, <1>3, RangeConcat
  <1>5. InvalidateRecordCaches(r) \in Seq(Range(InvalidateRecordCaches(r)))
    BY <1>4 DEF Range
  <1> QED
    BY <1>2, <1>3, <1>4, <1>5 DEF byId, by, all

(* Every write without tags deletes all that the reads without arguments   *)
(* cached, in every scope.                                                 *)
QueryDeletions == {DeleteKeyOf(m) : m \in QueryMethods}
                  \cup {DeletePrefixWithSeparator(m) : m \in QueryMethods}

LEMMA MethodDeletions ==
  ASSUME NEW m \in QueryMethods
  PROVE  /\ InvalidateMethod(m) \in Seq(QueryDeletions)
         /\ Range(InvalidateMethod(m)) = {DeleteKeyOf(m), DeletePrefixWithSeparator(m)}
  <1> DEFINE a == DeleteKeyOf(m)
             b == DeletePrefixWithSeparator(m)
  <1>1. {a, b} \subseteq QueryDeletions /\ InvalidateMethod(m) = <<a, b>>
    BY DEF InvalidateMethod, QueryDeletions
  <1> HIDE DEF a, b
  <1>2. <<a, b>> \in Seq({a, b}) /\ Range(<<a, b>>) = {a, b}
    BY PairHas
  <1>3. <<a, b>> \in Seq(QueryDeletions)
    BY <1>1, <1>2
  <1> QED
    BY <1>1, <1>2, <1>3 DEF a, b

LEMMA QueriesHave ==
  InvalidateQueries \in Seq(QueryDeletions) /\ Range(InvalidateQueries) = QueryDeletions
  <1> DEFINE get == InvalidateMethod("Get")
             list == InvalidateMethod("List")
             count == InvalidateMethod("Count")
  <1>1. /\ get \in Seq(QueryDeletions) /\ list \in Seq(QueryDeletions)
        /\ count \in Seq(QueryDeletions)
        /\ Range(get) \cup Range(list) \cup Range(count) = QueryDeletions
    BY MethodDeletions DEF QueryMethods, QueryDeletions
  <1> DEFINE both == get \o list
  <1>2. InvalidateQueries = both \o count
    BY DEF InvalidateQueries
  <1> HIDE DEF get, list, count
  <1>3. both \in Seq(QueryDeletions) /\ Range(both) = Range(get) \cup Range(list)
    BY <1>1, RangeConcat
  <1> HIDE DEF both
  <1>4. /\ both \o count \in Seq(QueryDeletions)
        /\ Range(both \o count) = Range(both) \cup Range(count)
    BY <1>1, <1>3, RangeConcat
  <1> QED
    BY <1>1, <1>2, <1>3, <1>4

(* The deletions of a write of any number of records are those for each of *)
(* its records, and those for the reads without arguments.                 *)
THEOREM CreateFallbackComplete ==
  ASSUME NEW s, NEW R, NEW X, NEW rs \in Seq(R), \A r \in R : r.identifiers \in Seq(X)
  PROVE  \A d : d \in Range(InvalidateAfterCreate(s, rs).fallback) <=>
                  \/ d \in QueryDeletions
                  \/ \E i \in DOMAIN rs : d \in Range(InvalidateRecordCaches(rs[i]))
  <1> DEFINE each == [j \in DOMAIN rs |-> InvalidateRecordCaches(rs[j])]
             S    == QueryDeletions \cup UNION {Range(InvalidateRecordCaches(r)) : r \in R}
  <1>1. ASSUME NEW r \in R PROVE InvalidateRecordCaches(r) \in Seq(S)
    <2>1. InvalidateRecordCaches(r) \in Seq(Range(InvalidateRecordCaches(r)))
      BY RecordCachesHas
    <2>2. Range(InvalidateRecordCaches(r)) \subseteq S
      OBVIOUS
    <2> QED
      BY <2>1, <2>2
  <1>2. InvalidateQueries \in Seq(S)
    <2>1. QueryDeletions \subseteq S
      OBVIOUS
    <2> QED
      BY <2>1, QueriesHave
  <1> HIDE DEF S
  <1>3. Len(rs) \in Nat /\ DOMAIN rs = 1..Len(rs)
    OBVIOUS
  <1>4. each \in Seq(Seq(S)) /\ DOMAIN each = DOMAIN rs
        /\ \A i \in DOMAIN rs : each[i] = InvalidateRecordCaches(rs[i])
    BY <1>1, <1>3
  <1>5. InvalidateAfterCreate(s, rs).fallback = FlattenSeq(each) \o InvalidateQueries
    BY DEF InvalidateAfterCreate
  <1> HIDE DEF each
  <1>6. /\ FlattenSeq(each) \in Seq(S)
        /\ \A d : d \in Range(FlattenSeq(each)) <=> \E i \in DOMAIN each : d \in Range(each[i])
    BY <1>4, FlattenSeqHas
  <1>7. Range(InvalidateAfterCreate(s, rs).fallback) = Range(FlattenSeq(each)) \cup QueryDeletions
    BY <1>2, <1>5, <1>6, RangeConcat, QueriesHave
  <1> QED
    BY <1>4, <1>6, <1>7

(* The invalidation of an update is that of its record.                    *)
LEMMA UpdateHas ==
  ASSUME NEW s, NEW X, NEW r, r.identifiers \in Seq(X)
  PROVE  /\ \A t : t \in Range(InvalidateAfterUpdate(s, r).tags) <=>
                     t \in {ListTag, ScopeTag(s)} \/ t \in Range(RecordTags(r))
         /\ \A d : d \in Range(InvalidateAfterUpdate(s, r).fallback) <=>
                     d \in QueryDeletions \/ d \in Range(InvalidateRecordCaches(r))
  <1> DEFINE deletions == InvalidateRecordCaches(r)
             S         == QueryDeletions \cup Range(deletions)
             rs        == <<r>>
  <1>1. rs \in Seq({r}) /\ DOMAIN rs = {1} /\ rs[1] = r
    OBVIOUS
  <1>2. deletions \in Seq(Range(deletions))
    BY RecordCachesHas
  <1>3. /\ InvalidateAfterUpdate(s, r).tags = WriteInvalidationTags(s, rs)
        /\ InvalidateAfterUpdate(s, r).fallback = deletions \o InvalidateQueries
    BY DEF InvalidateAfterUpdate
  <1> HIDE DEF deletions, rs
  <1>4. deletions \in Seq(S) /\ InvalidateQueries \in Seq(S)
    BY <1>2, QueriesHave
  <1> HIDE DEF S
  <1>5. Range(deletions \o InvalidateQueries) = Range(deletions) \cup QueryDeletions
    BY <1>4, RangeConcat, QueriesHave
  <1>6. \A t : t \in Range(WriteInvalidationTags(s, rs)) <=>
                 \/ t \in {ListTag, ScopeTag(s)}
                 \/ \E i \in DOMAIN rs : t \in Range(RecordTags(rs[i]))
    <2>1. \A q \in {r} : q.identifiers \in Seq(X)
      OBVIOUS
    <2> QED
      BY <1>1, <2>1, WriteInvalidationTagsComplete
  <1> QED
    BY <1>1, <1>3, <1>5, <1>6 DEF deletions

(* A deletion by criteria has no record: it deletes all that any read      *)
(* cached, but by its tags reaches lists, counts and the write's scope.    *)
LEMMA CriteriaHas ==
  ASSUME NEW s
  PROVE  /\ Range(InvalidateAfterCriteriaOperation(s).tags) = {ListTag, ScopeTag(s)}
         /\ Range(InvalidateAfterCriteriaOperation(s).fallback) =
              {DeletePrefixWithSeparator("GetByID"), DeletePrefixWithSeparator("GetByIdentifier")}
                \cup QueryDeletions
  <1> DEFINE a == DeletePrefixWithSeparator("GetByID")
             b == DeletePrefixWithSeparator("GetByIdentifier")
             S == {a, b} \cup QueryDeletions
             get   == InvalidateMethod("Get")
             list  == InvalidateMethod("List")
             count == InvalidateMethod("Count")
             ab    == <<a, b>>
  <1>1. /\ InvalidateAfterCriteriaOperation(s).tags = <<ListTag, ScopeTag(s)>>
        /\ InvalidateAfterCriteriaOperation(s).fallback = ((ab \o list) \o count) \o get
    BY DEF InvalidateAfterCriteriaOperation
  <1> HIDE DEF a, b
  <1>2. ab \in Seq(S) /\ Range(ab) = {a, b}
    <2>1. ab \in Seq({a, b}) /\ Range(ab) = {a, b}
      BY PairHas
    <2> QED
      BY <2>1
  <1>3. /\ get \in Seq(S) /\ list \in Seq(S) /\ count \in Seq(S)
        /\ Range(get) \cup Range(list) \cup Range(count) = QueryDeletions
    <2>1. /\ get \in Seq(QueryDeletions) /\ list \in Seq(QueryDeletions)
          /\ count \in Seq(QueryDeletions)
      BY MethodDeletions DEF QueryMethods
    <2>2. Range(get) \cup Range(list) \cup Range(count) = QueryDeletions
      BY MethodDeletions DEF QueryMethods, QueryDeletions
    <2> HIDE DEF get, list, count
    <2> QED
      BY <2>1, <2>2
  <1> DEFINE lists == ab \o list
             plain == lists \o count
  <1> HIDE DEF get, list, count, ab, S
  <1>4. lists \in Seq(S) /\ Range(lists) = Range(ab) \cup Range(list)
    BY <1>2, <1>3, RangeConcat
  <1> HIDE DEF lists
  <1>5. plain \in Seq(S) /\ Range(plain) = Range(lists) \cup Range(count)
    BY <1>3, <1>4, RangeConcat
  <1> HIDE DEF plain
  <1>6. Range(plain \o get) = Range(plain) \cup Range(get)
    BY <1>3, <1>5, RangeConcat
  <1>7. InvalidateAfterCriteriaOperation(s).fallback = plain \o get
    BY <1>1 DEF plain, lists
  <1>8. Range(<<ListTag, ScopeTag(s)>>) = {ListTag, ScopeTag(s)}
    BY PairHas
  <1> QED
    BY <1>1, <1>2, <1>3, <1>4, <1>5, <1>6, <1>7, <1>8 DEF a, b

USE NoScopeAssumption, NoArgAssumption

-----------------------------------------------------------------------------
(* The keys, their tags and the deletions that match them.                 *)
LEMMA KeyKinds ==
  ASSUME NEW k \in AllKeys
  PROVE  /\ k.method \in QueryMethods \cup {"GetByID", "GetByIdentifier"}
         /\ k.scope \in Scopes
         /\ k.method \in QueryMethods => k.arg = NoArg
         /\ k.method = "GetByID" => k.arg \in Ids
         /\ k.method = "GetByIdentifier" => k.arg \in Identifiers
         /\ k = Key(k.method, k.arg, k.scope)
  BY DEF AllKeys, Key, QueryMethods

LEMMA TagsOfReadHave ==
  ASSUME NEW k \in AllKeys
  PROVE  /\ ScopeTag(k.scope) \in Range(TagsOfRead(k))
         /\ k.method \in {"List", "Count"} => ListTag \in Range(TagsOfRead(k))
         /\ k.method = "GetByID" => IdTag(k.arg) \in Range(TagsOfRead(k))
         /\ k.method = "GetByIdentifier" => IdentifierTag(k.arg) \in Range(TagsOfRead(k))
  <1>1. CASE k.method = "Get"
    <2>1. TagsOfRead(k) = <<ScopeTag(k.scope)>>
      BY <1>1 DEF TagsOfRead
    <2>2. DOMAIN <<ScopeTag(k.scope)>> = {1} /\ <<ScopeTag(k.scope)>>[1] = ScopeTag(k.scope)
      OBVIOUS
    <2> QED
      BY <1>1, <2>1, <2>2 DEF Range
  <1>2. CASE k.method \in {"List", "Count"}
    <2>1. TagsOfRead(k) = <<ListTag, ScopeTag(k.scope)>>
      BY <1>2 DEF TagsOfRead
    <2> QED
      BY <1>2, <2>1, PairHas
  <1>3. CASE k.method = "GetByID"
    <2>1. TagsOfRead(k) = <<ScopeTag(k.scope), IdTag(k.arg)>>
      BY <1>3 DEF TagsOfRead
    <2> QED
      BY <1>3, <2>1, PairHas
  <1>4. CASE k.method = "GetByIdentifier"
    <2>1. TagsOfRead(k) = <<ScopeTag(k.scope), IdentifierTag(k.arg)>>
      BY <1>4 DEF TagsOfRead
    <2> QED
      BY <1>4, <2>1, PairHas
  <1> QED
    BY <1>1, <1>2, <1>3, <1>4, KeyKinds DEF QueryMethods

(* What a read without arguments cached is deleted, in whatever scope.     *)
LEMMA QueryDeleted ==
  ASSUME NEW k \in AllKeys, k.method \in QueryMethods
  PROVE  \E d \in QueryDeletions : k \in d.keys
  <1>1. k = Key(k.method, NoArg, k.scope)
    BY KeyKinds
  <1>2. CASE k.scope = NoScope
    <2>1. k \in DeleteKeyOf(k.method).keys
      BY <1>1, <1>2 DEF DeleteKeyOf
    <2> QED
      BY <2>1 DEF QueryDeletions
  <1>3. CASE k.scope # NoScope
    <2>1. k \in DeletePrefixWithSeparator(k.method).keys
      BY <1>3 DEF DeletePrefixWithSeparator
    <2> QED
      BY <2>1 DEF QueryDeletions
  <1> QED
    BY <1>2, <1>3

LEMMA ArgumentDeleted ==
  ASSUME NEW k \in AllKeys, k.method \in {"GetByID", "GetByIdentifier"}
  PROVE  /\ k \in DeletePrefix(k.method, k.arg).keys
         /\ k \in DeletePrefixWithSeparator(k.method).keys
  <1>1. k.arg # NoArg
    BY KeyKinds
  <1> QED
    BY <1>1 DEF DeletePrefix, DeletePrefixWithSeparator

-----------------------------------------------------------------------------
(* A write in scope s whose invalidation is for record r hits the key      *)
(* followed.                                                               *)
Hit(s, r) ==
  IF hasTags
  THEN \/ key.scope = s
       \/ key.method \in {"List", "Count"}
       \/ key.method = "GetByID" /\ r.id = key.arg
       \/ key.method = "GetByIdentifier" /\ key.arg \in Range(r.identifiers)
  ELSE \/ key.method \in QueryMethods
       \/ key.method = "GetByID" /\ r.id = key.arg
       \/ key.method = "GetByIdentifier"
            /\ (r.identifiers = <<>> \/ key.arg \in Range(r.identifiers))

(* An invalidation has the tags and the deletions for one record, be it    *)
(* alone or among others.                                                  *)
ForRecord(n, s, r) ==
  /\ \A t : t \in {ListTag, ScopeTag(s)} \/ t \in Range(RecordTags(r)) => t \in Range(n.tags)
  /\ \A d : d \in QueryDeletions \/ d \in Range(InvalidateRecordCaches(r)) =>
              d \in Range(n.fallback)

LEMMA RecordReached ==
  ASSUME key \in AllKeys, NEW n, NEW s, NEW X, NEW r, r.identifiers \in Seq(X),
         ForRecord(n, s, r), Hit(s, r)
  PROVE  Reaches(n)
  <1>1. CASE hasTags
    <2>1. SUFFICES \E t \in Range(TagsOfRead(key)) : t \in Range(n.tags)
      BY <1>1 DEF Reaches
    <2>2. CASE key.scope = s
      BY <2>2, TagsOfReadHave DEF ForRecord
    <2>3. CASE key.method \in {"List", "Count"}
      BY <2>3, TagsOfReadHave DEF ForRecord
    <2>4. CASE key.method = "GetByID" /\ r.id = key.arg
      <3>1. IdTag(r.id) \in Range(RecordTags(r))
        BY <2>4, KeyKinds, RecordTagsHas
      <3> QED
        BY <2>4, <3>1, TagsOfReadHave DEF ForRecord
    <2>5. CASE key.method = "GetByIdentifier" /\ key.arg \in Range(r.identifiers)
      <3>1. IdentifierTag(key.arg) \in Range(RecordTags(r))
        BY <2>5, RecordTagsHas
      <3> QED
        BY <2>5, <3>1, TagsOfReadHave DEF ForRecord
    <2> QED
      BY <1>1, <2>2, <2>3, <2>4, <2>5 DEF Hit
  <1>2. CASE ~hasTags
    <2>1. SUFFICES \E d \in Range(n.fallback) : key \in d.keys
      BY <1>2 DEF Reaches
    <2>2. CASE key.method \in QueryMethods
      BY <2>2, QueryDeleted DEF ForRecord
    <2>3. CASE key.method = "GetByID" /\ r.id = key.arg
      <3>1. DeletePrefix("GetByID", r.id) \in Range(InvalidateRecordCaches(r))
        BY <2>3, KeyKinds, RecordCachesHas
      <3>2. key \in DeletePrefix("GetByID", r.id).keys
        BY <2>3, ArgumentDeleted
      <3> QED
        BY <3>1, <3>2 DEF ForRecord
    <2>4. CASE key.method = "GetByIdentifier" /\ r.identifiers = <<>>
      <3>1. DeletePrefixWithSeparator("GetByIdentifier") \in Range(InvalidateRecordCaches(r))
        BY <2>4, RecordCachesHas
      <3>2. key \in DeletePrefixWithSeparator("GetByIdentifier").keys
        BY <2>4, ArgumentDeleted
      <3> QED
        BY <3>1, <3>2 DEF ForRecord
    <2>5. CASE key.method = "GetByIdentifier" /\ key.arg \in Range(r.identifiers)
      <3>1. DeletePrefix("GetByIdentifier", key.arg) \in Range(InvalidateRecordCaches(r))
        BY <2>5, RecordCachesHas
      <3>2. key \in DeletePrefix("GetByIdentifier", key.arg).keys
        BY <2>5, ArgumentDeleted
      <3> QED
        BY <3>1, <3>2 DEF ForRecord
    <2> QED
      BY <1>2, <2>2, <2>3, <2>4, <2>5 DEF Hit
  <1> QED
    BY <1>1, <1>2

(* Which invalidation a write method calls.                                *)
LEMMA PlanOf ==
  ASSUME NEW method, NEW s, NEW rs
  PROVE  /\ method \in CreateMethods => PlanOfWrite(method, s, rs) = <<InvalidateAfterCreate(s, rs)>>
         /\ method \in UpdateMethods =>
              PlanOfWrite(method, s, rs) = [j \in DOMAIN rs |-> InvalidateAfterUpdate(s, rs[j])]
         /\ method \in CriteriaMethods =>
              PlanOfWrite(method, s, rs) = <<InvalidateAfterCriteriaOperation(s)>>
  <1>1. /\ method \in CreateMethods => method \notin UpdateMethods \cup CriteriaMethods
        /\ method \in UpdateMethods => method \notin CriteriaMethods
    BY DEF CreateMethods, UpdateMethods, CriteriaMethods
  <1> QED
    BY <1>1 DEF PlanOfWrite

(* The plan of a write of records hits what one of them hits.              *)
LEMMA RecordWriteReaches ==
  ASSUME key \in AllKeys, NEW s, NEW X, NEW R, NEW rs \in Seq(R),
         \A r \in R : r.identifiers \in Seq(X),
         NEW j \in DOMAIN rs, Hit(s, rs[j]),
         NEW method \in CreateMethods \cup UpdateMethods
  PROVE  \E n \in Range(PlanOfWrite(method, s, rs)) : Reaches(n)
  <1> DEFINE r    == rs[j]
             plan == PlanOfWrite(method, s, rs)
  <1>1. r.identifiers \in Seq(X)
    OBVIOUS
  <1>2. CASE method \in CreateMethods
    <2> DEFINE n == InvalidateAfterCreate(s, rs)
    <2>1. plan = <<n>>
      BY <1>2, PlanOf
    <2>2. n.tags = WriteInvalidationTags(s, rs)
      BY DEF InvalidateAfterCreate
    <2>3. \A d : d \in Range(n.fallback) <=>
                   \/ d \in QueryDeletions
                   \/ \E i \in DOMAIN rs : d \in Range(InvalidateRecordCaches(rs[i]))
      BY CreateFallbackComplete
    <2>4. \A t : t \in Range(WriteInvalidationTags(s, rs)) <=>
                   \/ t \in {ListTag, ScopeTag(s)}
                   \/ \E i \in DOMAIN rs : t \in Range(RecordTags(rs[i]))
      BY WriteInvalidationTagsComplete
    <2>5. ForRecord(n, s, r)
      BY <2>2, <2>3, <2>4 DEF ForRecord
    <2> HIDE DEF n, plan, r
    <2>6. Reaches(n)
      BY <1>1, <2>5, RecordReached DEF r
    <2>7. n \in Range(plan)
      BY <2>1 DEF Range
    <2> QED
      BY <2>6, <2>7 DEF plan
  <1>3. CASE method \in UpdateMethods
    <2> DEFINE n == InvalidateAfterUpdate(s, r)
    <2>1. plan = [i \in DOMAIN rs |-> InvalidateAfterUpdate(s, rs[i])]
      BY <1>3, PlanOf
    <2>2. ForRecord(n, s, r)
      BY <1>1, UpdateHas DEF ForRecord
    <2>3. n \in Range(plan)
      BY <2>1 DEF Range
    <2> HIDE DEF n, plan, r
    <2>4. Reaches(n)
      BY <1>1, <2>2, RecordReached DEF r
    <2> QED
      BY <2>3, <2>4 DEF plan
  <1> QED
    BY <1>2, <1>3

(* That of a deletion by criteria hits its scope, lists and counts when    *)
(* the service has tags, and everything when it has not.                   *)
LEMMA CriteriaWriteReaches ==
  ASSUME key \in AllKeys, NEW s, NEW rs,
         hasTags => key.scope = s \/ key.method \in {"List", "Count"}
  PROVE  \E n \in Range(PlanOfWrite("DeleteWhere", s, rs)) : Reaches(n)
  <1> DEFINE n    == InvalidateAfterCriteriaOperation(s)
             plan == PlanOfWrite("DeleteWhere", s, rs)
  <1>1. plan = <<n>>
    BY PlanOf DEF CriteriaMethods
  <1> HIDE DEF plan
  <1>2. n \in Range(plan)
    <2> HIDE DEF n
    <2> QED
      BY <1>1 DEF Range
  <1>3. Reaches(n)
    <2>1. CASE hasTags
      <3>1. \E t \in Range(TagsOfRead(key)) : t \in Range(n.tags)
        BY <2>1, CriteriaHas, TagsOfReadHave
      <3> QED
        BY <2>1, <3>1 DEF Reaches
    <2>2. CASE ~hasTags
      <3>1. \E d \in Range(n.fallback) : key \in d.keys
        <4>1. CASE key.method \in QueryMethods
          BY <4>1, CriteriaHas, QueryDeleted
        <4>2. CASE key.method \in {"GetByID", "GetByIdentifier"}
          BY <4>2, CriteriaHas, ArgumentDeleted
        <4> QED
          BY <4>1, <4>2, KeyKinds
      <3> QED
        BY <2>2, <3>1 DEF Reaches
    <2> QED
      BY <2>1, <2>2
  <1> QED
    BY <1>2, <1>3 DEF plan

-----------------------------------------------------------------------------
(* What a read answers.                                                    *)
LEMMA MatchesIn ==
  ASSUME FreshnessTypeOK
  PROVE  /\ Matches \subseteq Shows[key.scope] /\ Shows[key.scope] \subseteq Ids
         /\ \A i \in Matches : rows[i] # None /\ rows[i] \in Rows
  <1>1. key.scope \in Scopes
    BY KeyKinds DEF FreshnessTypeOK
  <1>2. Shows[key.scope] \subseteq Ids
    BY <1>1, ShowsAssumption
  <1>3. Matches \subseteq Visible
    BY DEF Matches
  <1>4. \A i \in Visible : i \in Shows[key.scope] /\ rows[i] # None
    BY DEF Visible
  <1>5. \A i \in Ids : rows[i] \in Rows \cup {None}
    BY DEF FreshnessTypeOK, Table
  <1> QED
    BY <1>2, <1>3, <1>4, <1>5

(* The database has finitely many records.                                 *)
LEMMA IdsFinite == IsFiniteSet(Ids)
  <1>1. Order \in Seq(Ids) /\ Range(Order) = Ids
    BY OrderAssumption
  <1>2. Len(Order) \in Nat /\ DOMAIN Order = 1..Len(Order)
    BY <1>1
  <1>3. Order \in [1..Len(Order) -> Ids] /\ \A i \in Ids : \E n \in 1..Len(Order) : Order[n] = i
    BY <1>1, <1>2 DEF Range
  <1>4. Order \in Surjection(1..Len(Order), Ids)
    BY <1>3 DEF Surjection
  <1>5. IsFiniteSet(1..Len(Order))
    BY <1>2, FS_Interval
  <1> QED
    BY <1>4, <1>5, FS_Surjection

LEMMA MatchesFinite ==
  ASSUME FreshnessTypeOK
  PROVE  /\ IsFiniteSet(Matches) /\ Cardinality(Matches) \in 0..Cardinality(Shows[key.scope])
         /\ Cardinality(Shows[key.scope]) \in Nat
  <1>1. Matches \subseteq Shows[key.scope] /\ Shows[key.scope] \subseteq Ids
    BY MatchesIn
  <1>2. IsFiniteSet(Shows[key.scope])
    BY <1>1, IdsFinite, FS_Subset
  <1>3. IsFiniteSet(Matches) /\ Cardinality(Matches) <= Cardinality(Shows[key.scope])
    BY <1>1, <1>2, FS_Subset
  <1>4. Cardinality(Matches) \in Nat /\ Cardinality(Shows[key.scope]) \in Nat
    BY <1>2, <1>3, FS_CardinalityType
  <1> QED
    BY <1>3, <1>4

(* The least of a set of positions.                                        *)
LEMMA LeastPosition ==
  ASSUME NEW S \in SUBSET Nat, S # {}
  PROVE  Min(S) \in S
  <1>1. IsWellFoundedOn(OpToRel(<, Nat), Nat)
    BY NatLessThanWellFounded
  <1>2. PICK x \in S : \A y \in S : ~ (<<y, x>> \in OpToRel(<, Nat))
    BY <1>1, WFMin
  <1>3. ASSUME NEW y \in S PROVE x <= y
    <2>1. x \in Nat /\ y \in Nat
      OBVIOUS
    <2>2. y < x => <<y, x>> \in OpToRel(<, Nat)
      BY <2>1 DEF OpToRel
    <2>3. ~ (y < x)
      BY <1>2, <2>2, Zenon
    <2> QED
      BY <2>1, <2>3
  <1> QED
    BY <1>3 DEF Min

(* Get returns one of the records it finds, if there are any.              *)
LEMMA FirstOne ==
  ASSUME FreshnessTypeOK, Matches # {}
  PROVE  \E i \in Matches : First = {i}
  <1> DEFINE I == {n \in 1..Len(Order) : Order[n] \in Matches}
  <1>1. Order \in Seq(Ids) /\ Range(Order) = Ids /\ Len(Order) \in Nat
        /\ DOMAIN Order = 1..Len(Order)
    BY OrderAssumption
  <1>2. I # {} /\ I \in SUBSET Nat /\ 0 \notin I
    <2>1. PICK i \in Matches : i \in Ids
      BY MatchesIn
    <2>2. PICK n \in DOMAIN Order : Order[n] = i
      BY <1>1, <2>1 DEF Range
    <2> QED
      BY <1>1, <2>1, <2>2
  <1>3. SelectInSeq(Order, LAMBDA i : i \in Matches) = Min(I)
    BY <1>2 DEF SelectInSeq
  <1> HIDE DEF I
  <1>4. Min(I) \in I /\ Min(I) # 0
    BY <1>2, LeastPosition
  <1>5. First = {Order[Min(I)]}
    BY <1>3, <1>4 DEF First
  <1> QED
    BY <1>4, <1>5 DEF I

(* A read by id or by identifier finds at most one record.                 *)
LEMMA OneMatch ==
  ASSUME FreshnessTypeOK, UniqueIdentifiers,
         key.method \in {"GetByID", "GetByIdentifier"}, NEW i \in Matches, NEW j \in Matches
  PROVE  i = j
  <1>1. CASE key.method = "GetByID"
    BY <1>1 DEF Matches
  <1>2. CASE key.method = "GetByIdentifier"
    <2>1. rows[i].nick = key.arg /\ rows[j].nick = key.arg
      BY <1>2 DEF Matches
    <2>2. i \in Ids /\ j \in Ids /\ rows[i] # None /\ rows[j] # None
      BY MatchesIn
    <2> QED
      BY <2>1, <2>2 DEF UniqueIdentifiers, Unique
  <1> QED
    BY <1>1, <1>2

(* An answer that is found is of the type of the entries.                  *)
LEMMA AnswerType ==
  ASSUME FreshnessTypeOK, UniqueIdentifiers, Found
  PROVE  IF key.method = "Count" THEN Answer \in 0..Cardinality(Shows[key.scope])
         ELSE /\ \E ids \in SUBSET Shows[key.scope] : Answer \in [ids -> Rows]
              /\ key.method # "List" => Cardinality(DOMAIN Answer) = 1
  <1>0. key \in AllKeys
    BY DEF FreshnessTypeOK
  <1>1. CASE key.method = "Count"
    BY <1>1, MatchesFinite DEF Answer
  <1>2. CASE key.method = "Get"
    <2>1. Matches # {}
      BY <1>2 DEF Found
    <2>2. PICK i \in Matches : First = {i}
      BY <2>1, FirstOne
    <2>3. Answer = [j \in First |-> rows[j]]
      BY <1>2 DEF Answer
    <2>4. Answer \in [{i} -> Rows] /\ {i} \in SUBSET Shows[key.scope] /\ DOMAIN Answer = {i}
      BY <2>2, <2>3, MatchesIn
    <2>5. Cardinality({i}) = 1
      BY FS_Singleton
    <2> QED
      BY <1>2, <2>4, <2>5
  <1>3. CASE key.method \notin {"Count", "Get"}
    <2>1. Answer = [i \in Matches |-> rows[i]]
      BY <1>3 DEF Answer
    <2>2. Answer \in [Matches -> Rows] /\ DOMAIN Answer = Matches
      BY <2>1, MatchesIn
    <2>3. Matches \in SUBSET Shows[key.scope]
      BY MatchesIn
    <2>4. ASSUME key.method # "List" PROVE Cardinality(Matches) = 1
      <3>1. key.method \in {"GetByID", "GetByIdentifier"} /\ Matches # {}
        BY <1>0, <1>3, <2>4, KeyKinds DEF Found, QueryMethods
      <3>2. PICK i \in Matches : TRUE
        BY <3>1
      <3>3. Matches = {i}
        BY <3>1, <3>2, OneMatch
      <3> QED
        BY <3>3, FS_Singleton
    <2> QED
      BY <1>3, <2>2, <2>3, <2>4
  <1> QED
    BY <1>1, <1>2, <1>3

-----------------------------------------------------------------------------
(* The writes, by what they do to the table and whom they hit.  A write    *)
(* that spares the entry followed hit nothing.                             *)
Spared == entry' # None

(* A write of one record changes its row alone, and its tags have its id   *)
(* and the identifier it has now, unless it is deleted.                    *)
OneRecordWrite(s, i, xs) ==
  /\ i \in Ids /\ xs \in Seq(Identifiers)
  /\ rows' \in Table /\ \A j \in Ids \ {i} : rows'[j] = rows[j]
  /\ \/ rows' = rows
     \/ rows'[i] = None
     \/ xs = Given(rows'[i].nick)
  /\ xs # <<>> => hasIdentifiers
  /\ Spared => ~Hit(s, Extracted(i, xs))

(* A write of many changes their rows, and its tags have the ids and the   *)
(* identifiers they have now.                                              *)
BulkWrite(s) ==
  \E ids \in SUBSET Ids :
    /\ ids # {}
    /\ \A i \in Ids \ ids : rows'[i] = rows[i]
    /\ Spared => \A i \in ids : ~Hit(s, Extracted(i, Given(rows'[i].nick)))

(* One by criteria deletes some records.                                   *)
CriteriaWrite(s) ==
  /\ \A i \in Ids : rows'[i] \in {rows[i], None}
  /\ Spared => hasTags /\ key.scope # s /\ key.method \notin {"List", "Count"}

Written(s) ==
  /\ writer' = s /\ s \in Scopes
  /\ writes' \in 0..MaxWrites
  /\ rows' \in Table
  /\ Spared => entry' = entry
  /\ UNCHANGED chosen
  /\ \/ \E i \in Ids, xs \in Seq(Identifiers) : OneRecordWrite(s, i, xs)
     \/ BulkWrite(s)
     \/ CriteriaWrite(s)

(* What Write does, whatever it writes.                                    *)
LEMMA WriteDoes ==
  ASSUME FreshnessTypeOK, NEW method, NEW s \in Scopes, NEW newRows \in Table, NEW records,
         Write(method, s, newRows, records)
  PROVE  /\ writer' = s /\ writes < MaxWrites /\ writes' \in 0..MaxWrites
         /\ rows' = newRows
         /\ UNCHANGED chosen
         /\ Spared => /\ entry' = entry
                      /\ ~ \E n \in Range(PlanOfWrite(method, s, records)) : Reaches(n)
  <1>1. writes' \in 0..MaxWrites
    BY WritesAssumption DEF Write, FreshnessTypeOK
  <1>2. writes \in 0..MaxWrites /\ writes < MaxWrites
    BY DEF Write, FreshnessTypeOK
  <1> QED
    BY <1>1, <1>2 DEF Write, Spared

LEMMA RowIsRow ==
  ASSUME FreshnessTypeOK, writes < MaxWrites, NEW x \in Identifiers
  PROVE  Row(x) \in Rows /\ Row(x).nick = x
  <1>1. writes + 1 \in 0..MaxWrites
    BY WritesAssumption DEF FreshnessTypeOK
  <1> QED
    BY <1>1 DEF Row, Rows

LEMMA GivenIsGiven ==
  ASSUME FreshnessTypeOK, NEW x \in Identifiers
  PROVE  Given(x) \in Seq(Identifiers) /\ (Given(x) # <<>> => hasIdentifiers)
  BY DEF Given

LEMMA ExtractedHas ==
  ASSUME NEW i, NEW xs
  PROVE  /\ Extracted(i, xs).identifiers = xs
         /\ idField = "value" => Extracted(i, xs).id = i
  BY DEF Extracted, Record, ExtractID

(* A write of one record that spares the entry did not hit it.             *)
LEMMA SparedByOne ==
  ASSUME FreshnessTypeOK, NEW s \in Scopes, NEW i, NEW xs \in Seq(Identifiers),
         NEW newRows \in Table,
         NEW method \in {"Create", "GetOrCreate", "Upsert", "Update", "Delete"},
         Write(method, s, newRows, <<Extracted(i, xs)>>)
  PROVE  Spared => ~Hit(s, Extracted(i, xs))
  <1> DEFINE r == Extracted(i, xs)
  <1>1. SUFFICES ASSUME Spared, Hit(s, r) PROVE FALSE
    OBVIOUS
  <1>2. r.identifiers \in Seq(Identifiers)
    BY ExtractedHas
  <1> DEFINE rs == <<r>>
  <1>3. key \in AllKeys /\ method \in CreateMethods \cup UpdateMethods
    BY DEF FreshnessTypeOK, CreateMethods, UpdateMethods
  <1>4. \E n \in Range(PlanOfWrite(method, s, rs)) : Reaches(n)
    <2>1. rs \in Seq({r}) /\ 1 \in DOMAIN rs /\ rs[1] = r
      OBVIOUS
    <2>2. \A q \in {r} : q.identifiers \in Seq(Identifiers)
      BY <1>2
    <2> HIDE DEF r, rs
    <2> QED
      BY <1>1, <1>3, <2>1, <2>2, RecordWriteReaches
  <1>5. Write(method, s, newRows, rs)
    OBVIOUS
  <1> HIDE DEF rs
  <1> QED
    BY <1>1, <1>4, <1>5, WriteDoes

(* Create, GetOrCreate of a new record and Upsert of one.                  *)
LEMMA CreateWrites ==
  ASSUME FreshnessTypeOK, NEW s \in Scopes, NEW i \in Ids, NEW x \in Identifiers,
         CreateRecord(s, i, x)
  PROVE  /\ Written(s)
         /\ rows' = [rows EXCEPT ![i] = Row(x)] /\ Row(x).nick = x /\ ~Taken(x, Ids)
  <1>1. PICK method \in {"Create", "GetOrCreate", "Upsert"} :
          Write(method, s, [rows EXCEPT ![i] = Row(x)], <<Extracted(i, Given(x))>>)
    BY DEF CreateRecord
  <1> DEFINE newRows == [rows EXCEPT ![i] = Row(x)]
  <1>2. writes < MaxWrites
    BY <1>1 DEF Write
  <1>3. Row(x) \in Rows /\ Row(x).nick = x
    BY <1>2, RowIsRow
  <1>4. newRows \in Table /\ newRows[i] = Row(x) /\ \A j \in Ids \ {i} : newRows[j] = rows[j]
    BY <1>3 DEF FreshnessTypeOK, Table
  <1> HIDE DEF newRows
  <1>5. Write(method, s, newRows, <<Extracted(i, Given(x))>>)
    BY <1>1 DEF newRows
  <1>6. Given(x) \in Seq(Identifiers) /\ (Given(x) # <<>> => hasIdentifiers)
    BY GivenIsGiven
  <1>7. Spared => ~Hit(s, Extracted(i, Given(x)))
    BY <1>4, <1>5, <1>6, SparedByOne
  <1>8. /\ writer' = s /\ writes' \in 0..MaxWrites /\ rows' = newRows
        /\ UNCHANGED chosen /\ (Spared => entry' = entry)
    BY <1>4, <1>5, WriteDoes
  <1>9. OneRecordWrite(s, i, Given(x))
    BY <1>3, <1>4, <1>6, <1>7, <1>8 DEF OneRecordWrite
  <1>10. Written(s)
    BY <1>4, <1>6, <1>8, <1>9 DEF Written
  <1> QED
    BY <1>3, <1>8, <1>10 DEF CreateRecord, newRows

(* Update of one record: its identifier may be another from now on.        *)
LEMMA UpdateWrites ==
  ASSUME FreshnessTypeOK, NEW s \in Scopes, NEW i \in Ids, NEW x \in Identifiers,
         UpdateRecord(s, i, x)
  PROVE  /\ Written(s)
         /\ rows' = [rows EXCEPT ![i] = Row(x)] /\ Row(x).nick = x /\ ~Taken(x, Ids \ {i})
  <1> DEFINE newRows == [rows EXCEPT ![i] = Row(x)]
  <1>1. Write("Update", s, newRows, <<Extracted(i, Given(x))>>)
    BY DEF UpdateRecord
  <1>2. writes < MaxWrites
    BY <1>1 DEF Write
  <1>3. Row(x) \in Rows /\ Row(x).nick = x
    BY <1>2, RowIsRow
  <1>4. newRows \in Table /\ newRows[i] = Row(x) /\ \A j \in Ids \ {i} : newRows[j] = rows[j]
    BY <1>3 DEF FreshnessTypeOK, Table
  <1> HIDE DEF newRows
  <1>5. Given(x) \in Seq(Identifiers) /\ (Given(x) # <<>> => hasIdentifiers)
    BY GivenIsGiven
  <1>6. Spared => ~Hit(s, Extracted(i, Given(x)))
    BY <1>1, <1>4, <1>5, SparedByOne
  <1>7. /\ writer' = s /\ writes' \in 0..MaxWrites /\ rows' = newRows
        /\ UNCHANGED chosen /\ (Spared => entry' = entry)
    BY <1>1, <1>4, WriteDoes
  <1>8. OneRecordWrite(s, i, Given(x))
    BY <1>3, <1>4, <1>5, <1>6, <1>7 DEF OneRecordWrite
  <1>9. Written(s)
    BY <1>4, <1>5, <1>7, <1>8 DEF Written
  <1> QED
    BY <1>3, <1>7, <1>9 DEF UpdateRecord, newRows

(* GetOrCreate of a record that is there.                                  *)
LEMMA GetWrites ==
  ASSUME FreshnessTypeOK, NEW s \in Scopes, NEW i \in Ids, GetExisting(s, i)
  PROVE  Written(s) /\ rows' = rows
  <1> DEFINE x == rows[i].nick
  <1>1. rows[i] \in Rows /\ rows \in Table
    BY DEF GetExisting, FreshnessTypeOK, Table
  <1>2. x \in Identifiers
    BY <1>1 DEF Rows
  <1>3. Write("GetOrCreate", s, rows, <<Extracted(i, Given(x))>>)
    BY DEF GetExisting
  <1> HIDE DEF x
  <1>4. Given(x) \in Seq(Identifiers) /\ (Given(x) # <<>> => hasIdentifiers)
    BY <1>2, GivenIsGiven
  <1>5. Spared => ~Hit(s, Extracted(i, Given(x)))
    BY <1>1, <1>3, <1>4, SparedByOne
  <1>6. /\ writer' = s /\ writes' \in 0..MaxWrites /\ rows' = rows
        /\ UNCHANGED chosen /\ (Spared => entry' = entry)
    BY <1>1, <1>3, WriteDoes
  <1>7. OneRecordWrite(s, i, Given(x))
    BY <1>1, <1>4, <1>5, <1>6 DEF OneRecordWrite
  <1> QED
    BY <1>1, <1>4, <1>6, <1>7 DEF Written

(* Delete and ForceDelete, of a record given with its identifier or not.   *)
LEMMA DeleteWrites ==
  ASSUME FreshnessTypeOK, NEW s \in Scopes, NEW i \in Ids, DeleteRecord(s, i)
  PROVE  Written(s) /\ rows' = [rows EXCEPT ![i] = None]
  <1> DEFINE newRows == [rows EXCEPT ![i] = None]
  <1>1. rows[i] \in Rows
    BY DEF DeleteRecord, FreshnessTypeOK, Table
  <1>2. rows[i].nick \in Identifiers
    BY <1>1 DEF Rows
  <1>3. PICK xs \in {<<>>, Given(rows[i].nick)} :
          Write("Delete", s, newRows, <<Extracted(i, xs)>>)
    BY DEF DeleteRecord
  <1>4. newRows \in Table /\ newRows[i] = None /\ \A j \in Ids \ {i} : newRows[j] = rows[j]
    BY DEF FreshnessTypeOK, Table
  <1> HIDE DEF newRows
  <1>5. xs \in Seq(Identifiers) /\ (xs # <<>> => hasIdentifiers)
    <2>1. CASE xs = <<>>
      BY <2>1
    <2>2. CASE xs = Given(rows[i].nick)
      BY <1>2, <2>2, GivenIsGiven
    <2> QED
      BY <1>3, <2>1, <2>2
  <1>6. Spared => ~Hit(s, Extracted(i, xs))
    BY <1>3, <1>4, <1>5, SparedByOne
  <1>7. /\ writer' = s /\ writes' \in 0..MaxWrites /\ rows' = newRows
        /\ UNCHANGED chosen /\ (Spared => entry' = entry)
    BY <1>3, <1>4, WriteDoes
  <1>8. OneRecordWrite(s, i, xs)
    BY <1>4, <1>5, <1>6, <1>7 DEF OneRecordWrite
  <1> QED
    BY <1>4, <1>5, <1>7, <1>8 DEF Written, newRows

(* SetToSeq lists all the elements of a finite set.                        *)
LEMMA SetToSeqLists ==
  ASSUME NEW S, IsFiniteSet(S)
  PROVE  /\ SetToSeq(S) \in [1..Cardinality(S) -> S]
         /\ \A x \in S : \E n \in 1..Cardinality(S) : SetToSeq(S)[n] = x
  <1> DEFINE D == 1..Cardinality(S)
             l == SetToSeq(S)
  <1>1. Cardinality(S) \in Nat /\ ExistsBijection(D, S)
    BY FS_CardinalityType
  <1>2. \E f \in [D -> S] : IsInjective(f)
    <2>1. PICK f : f \in Bijection(D, S)
      BY <1>1 DEF ExistsBijection
    <2>2. f \in [D -> S] /\ IsInjective(f)
      BY <2>1 DEF Bijection, Injection
    <2> QED
      BY <2>2
  <1>3. l \in [D -> S] /\ IsInjective(l)
    BY <1>2 DEF SetToSeq
  <1>4. l \in Injection(D, S)
    BY <1>3 DEF Injection
  <1>5. IsFiniteSet(D) /\ Cardinality(D) = Cardinality(S)
    BY <1>1, FS_Interval
  <1> HIDE DEF l, D
  <1>6. l \in Surjection(D, S)
    BY <1>4, <1>5, FS_Injection
  <1> QED
    BY <1>3, <1>6 DEF Surjection, l, D

(* CreateMany, UpdateMany and UpsertMany.                                  *)
LEMMA ChangesWrite ==
  ASSUME FreshnessTypeOK, NEW s \in Scopes, NEW ids \in SUBSET Ids,
         NEW names \in [ids -> Identifiers], ChangeRecords(s, ids, names)
  PROVE  Written(s) /\ Unique(rows')
  <1> DEFINE list    == SetToSeq(ids)
             records == [j \in DOMAIN list |-> Extracted(list[j], Given(names[list[j]]))]
             newRows == [i \in Ids |-> IF i \in ids THEN Row(names[i]) ELSE rows[i]]
  <1>1. PICK method \in {"CreateMany", "UpdateMany", "UpsertMany"} :
          Write(method, s, newRows, records)
    BY DEF ChangeRecords
  <1>2. ids # {} /\ Unique(newRows)
    BY DEF ChangeRecords
  <1>3. writes < MaxWrites
    BY <1>1 DEF Write
  <1>4. ASSUME NEW i \in ids
        PROVE  Row(names[i]) \in Rows /\ Row(names[i]).nick = names[i]
    BY <1>3, RowIsRow
  <1>5. /\ newRows \in Table
        /\ \A i \in ids : newRows[i] \in Rows /\ newRows[i].nick = names[i]
        /\ \A i \in Ids \ ids : newRows[i] = rows[i]
    BY <1>4 DEF FreshnessTypeOK, Table
  <1>6. /\ list \in [1..Cardinality(ids) -> ids] /\ Cardinality(ids) \in Nat
        /\ \A i \in ids : \E n \in 1..Cardinality(ids) : list[n] = i
    <2>1. IsFiniteSet(ids)
      BY IdsFinite, FS_Subset
    <2> QED
      BY <2>1, SetToSeqLists, FS_CardinalityType
  <1> HIDE DEF list, newRows
  <1>7. ASSUME Spared, NEW i \in ids PROVE ~Hit(s, Extracted(i, Given(names[i])))
    <2>1. PICK n \in DOMAIN list : list[n] = i
      BY <1>6
    <2>2. n \in DOMAIN records /\ records[n] = Extracted(i, Given(names[i]))
      BY <2>1
    <2> DEFINE R == {Extracted(h, Given(names[h])) : h \in ids}
    <2>3. \A r \in R : r.identifiers \in Seq(Identifiers)
      BY ExtractedHas, GivenIsGiven
    <2>4. records \in Seq(R)
      <3> DEFINE size == Cardinality(ids)
      <3>1. records \in [1..size -> R] /\ size \in Nat
        BY <1>6
      <3> HIDE DEF records, R, size
      <3> QED
        BY <3>1
    <2>5. key \in AllKeys /\ method \in CreateMethods \cup UpdateMethods
      BY DEF FreshnessTypeOK, CreateMethods, UpdateMethods
    <2> HIDE DEF records, R
    <2>6. ~ \E m \in Range(PlanOfWrite(method, s, records)) : Reaches(m)
      BY <1>1, <1>5, <1>7, WriteDoes
    <2> QED
      BY <2>2, <2>3, <2>4, <2>5, <2>6, RecordWriteReaches
  <1> HIDE DEF records
  <1>8. /\ writer' = s /\ writes' \in 0..MaxWrites /\ rows' = newRows
        /\ UNCHANGED chosen /\ (Spared => entry' = entry)
    BY <1>1, <1>5, WriteDoes
  <1>9. BulkWrite(s)
    <2>1. \A i \in ids : rows'[i].nick = names[i]
      BY <1>5, <1>8
    <2> QED
      BY <1>2, <1>5, <1>7, <1>8, <2>1 DEF BulkWrite
  <1> QED
    BY <1>2, <1>5, <1>8, <1>9 DEF Written

(* DeleteMany and DeleteWhere.                                             *)
LEMMA DeletesWrite ==
  ASSUME FreshnessTypeOK, NEW s \in Scopes, NEW ids \in SUBSET Ids, DeleteRecords(s, ids)
  PROVE  Written(s) /\ \A i \in Ids : rows'[i] \in {rows[i], None}
  <1> DEFINE newRows == [i \in Ids |-> IF i \in ids THEN None ELSE rows[i]]
  <1>1. Write("DeleteWhere", s, newRows, <<>>)
    BY DEF DeleteRecords
  <1>2. newRows \in Table /\ \A i \in Ids : newRows[i] \in {rows[i], None}
    BY DEF FreshnessTypeOK, Table
  <1> HIDE DEF newRows
  <1>3. /\ writer' = s /\ writes' \in 0..MaxWrites /\ rows' = newRows
        /\ UNCHANGED chosen
        /\ Spared => /\ entry' = entry
                     /\ ~ \E n \in Range(PlanOfWrite("DeleteWhere", s, <<>>)) : Reaches(n)
    BY <1>1, <1>2, WriteDoes
  <1>4. key \in AllKeys
    BY DEF FreshnessTypeOK
  <1>5. Spared => hasTags /\ key.scope # s /\ key.method \notin {"List", "Count"}
    BY <1>3, <1>4, CriteriaWriteReaches
  <1>6. CriteriaWrite(s)
    BY <1>2, <1>3, <1>5 DEF CriteriaWrite
  <1> QED
    BY <1>2, <1>3, <1>6 DEF Written

-----------------------------------------------------------------------------
(* The steps: a write in some scope, a read that caches its answer, or     *)
(* nothing.                                                                *)
Reads ==
  /\ entry = None /\ Found /\ entry' = Answer
  /\ UNCHANGED <<rows, writes, writer, chosen>>

LEMMA StepKinds ==
  ASSUME FreshnessTypeOK, [Next]_vars
  PROVE  UNCHANGED vars \/ Reads \/ \E s \in Scopes : Written(s)
  <1>1. CASE UNCHANGED vars
    BY <1>1
  <1>2. CASE ReadMiss
    BY <1>2 DEF ReadMiss, Reads
  <1>3. CASE ReadFails \/ ReadHit
    BY <1>3 DEF ReadFails, ReadHit
  <1>4. CASE \E s \in Scopes, i \in Ids, x \in Identifiers :
               CreateRecord(s, i, x) \/ UpdateRecord(s, i, x)
    BY <1>4, CreateWrites, UpdateWrites
  <1>5. CASE \E s \in Scopes, i \in Ids : GetExisting(s, i) \/ DeleteRecord(s, i)
    BY <1>5, GetWrites, DeleteWrites
  <1>6. CASE \E s \in Scopes, ids \in SUBSET Ids :
               \E names \in [ids -> Identifiers] : ChangeRecords(s, ids, names)
    BY <1>6, ChangesWrite
  <1>7. CASE \E s \in Scopes, ids \in SUBSET Ids : DeleteRecords(s, ids)
    BY <1>7, DeletesWrite
  <1> QED
    BY <1>1, <1>2, <1>3, <1>4, <1>5, <1>6, <1>7 DEF Next

(* The base repository keeps identifiers apart.                            *)
LEMMA UniqueStep ==
  ASSUME FreshnessTypeOK, UniqueIdentifiers, [Next]_vars
  PROVE  UniqueIdentifiers'
  <1>0. rows \in [Ids -> Rows \cup {None}]
    BY DEF FreshnessTypeOK, Table
  <1>1. CASE rows' = rows
    BY <1>1 DEF UniqueIdentifiers, Unique
  <1>2. ASSUME NEW s \in Scopes, NEW i \in Ids, NEW x \in Identifiers,
               CreateRecord(s, i, x) \/ UpdateRecord(s, i, x)
        PROVE  UniqueIdentifiers'
    <2>1. /\ rows' = [rows EXCEPT ![i] = Row(x)] /\ Row(x).nick = x
          /\ \A j \in Ids \ {i} : rows[j] # None => rows[j].nick # x
      BY <1>2, CreateWrites, UpdateWrites DEF Taken
    <2>2. rows'[i].nick = x /\ \A j \in Ids \ {i} : rows'[j] = rows[j]
      BY <1>0, <2>1
    <2> QED
      BY <2>1, <2>2 DEF UniqueIdentifiers, Unique
  <1>3. ASSUME NEW s \in Scopes, NEW i \in Ids, DeleteRecord(s, i)
        PROVE  UniqueIdentifiers'
    <2>1. rows' = [rows EXCEPT ![i] = None]
      BY <1>3, DeleteWrites
    <2>2. rows'[i] = None /\ \A j \in Ids \ {i} : rows'[j] = rows[j]
      BY <1>0, <2>1
    <2> QED
      BY <2>2 DEF UniqueIdentifiers, Unique
  <1>4. ASSUME NEW s \in Scopes, NEW ids \in SUBSET Ids, NEW names \in [ids -> Identifiers],
               ChangeRecords(s, ids, names)
        PROVE  UniqueIdentifiers'
    BY <1>4, ChangesWrite DEF UniqueIdentifiers
  <1>5. ASSUME NEW s \in Scopes, NEW ids \in SUBSET Ids, DeleteRecords(s, ids)
        PROVE  UniqueIdentifiers'
    <2>1. \A i \in Ids : rows'[i] \in {rows[i], None}
      BY <1>5, DeletesWrite
    <2>2. \A i \in Ids : rows'[i] # None => rows'[i] = rows[i]
      BY <2>1
    <2> QED
      BY <2>2 DEF UniqueIdentifiers, Unique
  <1>6. CASE UNCHANGED vars \/ ReadMiss \/ ReadFails \/ ReadHit
    BY <1>1, <1>6 DEF ReadMiss, ReadFails, ReadHit, vars
  <1>7. ASSUME NEW s \in Scopes, NEW i \in Ids, GetExisting(s, i) PROVE UniqueIdentifiers'
    BY <1>1, <1>7, GetWrites
  <1> QED
    BY <1>2, <1>3, <1>4, <1>5, <1>6, <1>7 DEF Next

(* The state stays of its type.                                            *)
LEMMA TypeStep ==
  ASSUME FreshnessTypeOK, UniqueIdentifiers, [Next]_vars
  PROVE  FreshnessTypeOK'
  <1>1. CASE UNCHANGED vars
    BY <1>1 DEF FreshnessTypeOK, vars, chosen
  <1>2. CASE Reads
    <2>1. IF key.method = "Count" THEN Answer \in 0..Cardinality(Shows[key.scope])
          ELSE /\ \E ids \in SUBSET Shows[key.scope] : Answer \in [ids -> Rows]
               /\ key.method # "List" => Cardinality(DOMAIN Answer) = 1
      BY <1>2, AnswerType DEF Reads
    <2>2. entry' = Answer /\ UNCHANGED <<rows, writes, writer, chosen>>
      BY <1>2 DEF Reads
    <2> QED
      BY <2>1, <2>2 DEF FreshnessTypeOK, chosen
  <1>3. ASSUME NEW s \in Scopes, Written(s) PROVE FreshnessTypeOK'
    <2>1. /\ writer' \in Scopes \cup {None} /\ writes' \in 0..MaxWrites /\ rows' \in Table
          /\ UNCHANGED chosen /\ (entry' # None => entry' = entry)
      BY <1>3 DEF Written, Spared
    <2> QED
      BY <2>1 DEF FreshnessTypeOK, chosen
  <1> QED
    BY <1>1, <1>2, <1>3, StepKinds

-----------------------------------------------------------------------------
(* The reads of which the three reaches say that they are never stale.     *)
ShouldBeFresh ==
  IF hasTags
  THEN \/ key.scope = writer
       \/ key.method \in {"List", "Count"}
       \/ key.method = "GetByID" /\ idField = "value" /\ Matches # {}
       \/ key.method = "GetByIdentifier" /\ hasIdentifiers /\ Matches # {}
  ELSE \/ key.method \in QueryMethods
       \/ key.method = "GetByID" /\ idField = "value"
       \/ key.method = "GetByIdentifier" /\ (~hasIdentifiers \/ Matches # {})

LEMMA ReachesAre ==
  ASSUME key \in AllKeys
  PROVE  (WriterScopeFresh /\ TagsLeaveOnlyGone /\ FallbackLeavesOnlyGone)
           <=> (ShouldBeFresh => ~Stale)
  <1>1. key.method \in {"Get", "List", "Count", "GetByID", "GetByIdentifier"}
    BY KeyKinds DEF QueryMethods
  <1>2. hasTags => ((WriterScopeFresh /\ TagsLeaveOnlyGone) <=> (ShouldBeFresh => ~Stale))
    BY <1>1 DEF WriterScopeFresh, TagsLeaveOnlyGone, ShouldBeFresh
  <1>3. ~hasTags => (FallbackLeavesOnlyGone <=> (ShouldBeFresh => ~Stale))
    BY <1>1 DEF FallbackLeavesOnlyGone, ShouldBeFresh, QueryMethods
  <1>4. (hasTags => FallbackLeavesOnlyGone)
        /\ (~hasTags => WriterScopeFresh /\ TagsLeaveOnlyGone)
    BY DEF FallbackLeavesOnlyGone, WriterScopeFresh, TagsLeaveOnlyGone
  <1> QED
    BY <1>2, <1>3, <1>4

(* A read by id answers the same as long as its row is the same.           *)
LEMMA SameById ==
  ASSUME UNCHANGED chosen, key.method = "GetByID", rows'[key.arg] = rows[key.arg]
  PROVE  Matches' = Matches /\ Answer' = Answer
  <1>1. key' = key
    BY DEF chosen
  <1>2. Matches' = {i \in Visible' : i = key.arg} /\ Matches = {i \in Visible : i = key.arg}
    BY <1>1 DEF Matches
  <1>3. /\ Visible = {i \in Shows[key.scope] : rows[i] # None}
        /\ Visible' = {i \in Shows[key.scope] : rows'[i] # None}
    BY <1>1 DEF Visible
  <1>4. \A i : i \in Matches' <=> i \in Matches
    BY <1>2, <1>3
  <1>5. Matches' = Matches /\ \A i \in Matches : rows'[i] = rows[i]
    BY <1>2, <1>4
  <1>6. Answer = [i \in Matches |-> rows[i]] /\ Answer' = [i \in Matches' |-> rows'[i]]
    BY <1>1 DEF Answer
  <1> QED
    BY <1>5, <1>6

(* A read by identifier that still finds a record answers the same when no *)
(* row that changed has that identifier: it was and is the only one.       *)
LEMMA SameByIdentifier ==
  ASSUME FreshnessTypeOK, UniqueIdentifiers, UNCHANGED chosen, key.method = "GetByIdentifier",
         \A i \in Ids : rows'[i] = rows[i] \/ rows'[i] = None \/ rows'[i].nick # key.arg,
         Matches' # {}
  PROVE  Matches # {} /\ Answer' = Answer
  <1>1. key' = key
    BY DEF chosen
  <1>2. /\ Matches = {i \in Visible : rows[i].nick = key.arg}
        /\ Matches' = {i \in Visible' : rows'[i].nick = key.arg}
    BY <1>1 DEF Matches
  <1>3. /\ Visible = {i \in Shows[key.scope] : rows[i] # None}
        /\ Visible' = {i \in Shows[key.scope] : rows'[i] # None}
    BY <1>1 DEF Visible
  <1>4. ASSUME NEW i \in Matches' PROVE i \in Matches /\ rows'[i] = rows[i]
    <2>1. i \in Shows[key.scope] /\ rows'[i] # None /\ rows'[i].nick = key.arg
      BY <1>2, <1>3
    <2>2. i \in Ids
      BY <2>1, MatchesIn
    <2>3. rows'[i] = rows[i]
      BY <2>1, <2>2
    <2> QED
      BY <1>2, <1>3, <2>1, <2>3
  <1>5. PICK i \in Matches' : TRUE
    OBVIOUS
  <1>6. i \in Matches /\ rows'[i] = rows[i]
    BY <1>4
  <1>7. Matches = {i}
    BY <1>6, OneMatch
  <1>8. Matches' = {i}
    BY <1>4, <1>5, <1>7
  <1>9. Answer = [j \in Matches |-> rows[j]] /\ Answer' = [j \in Matches' |-> rows'[j]]
    BY <1>1 DEF Answer
  <1> QED
    BY <1>6, <1>7, <1>8, <1>9

(* A write that spares an entry which should be fresh after it leaves its  *)
(* answer, and the entry should have been fresh before.                    *)
LEMMA OneRecordSpares ==
  ASSUME FreshnessTypeOK, UniqueIdentifiers, NEW s \in Scopes, Written(s), Spared,
         ShouldBeFresh', NEW i \in Ids, NEW xs \in Seq(Identifiers), OneRecordWrite(s, i, xs)
  PROVE  ShouldBeFresh /\ Answer' = Answer
  <1> DEFINE r == Extracted(i, xs)
  <1>1. r.identifiers = xs /\ (idField = "value" => r.id = i)
    BY ExtractedHas
  <1>2. ~Hit(s, r)
    BY DEF OneRecordWrite
  <1> HIDE DEF r
  <1>3. writer' = s /\ UNCHANGED chosen /\ key \in AllKeys
    BY DEF Written, FreshnessTypeOK
  <1>4. UNCHANGED <<key, idField, hasIdentifiers, hasTags>>
    BY <1>3 DEF chosen
  <1>5. ~hasIdentifiers => xs = <<>>
    BY DEF OneRecordWrite
  <1>6. CASE key.method = "GetByID" /\ idField = "value"
    <2>1. key.arg # i /\ key.arg \in Ids
      BY <1>1, <1>2, <1>3, <1>6, KeyKinds DEF Hit
    <2>2. rows'[key.arg] = rows[key.arg]
      BY <2>1 DEF OneRecordWrite
    <2>3. Matches' = Matches /\ Answer' = Answer
      BY <1>3, <1>6, <2>2, SameById
    <2>4. hasTags => key.scope # s
      BY <1>2 DEF Hit
    <2> QED
      BY <1>3, <1>4, <1>6, <2>3, <2>4 DEF ShouldBeFresh
  <1>7. CASE key.method = "GetByIdentifier" /\ hasIdentifiers /\ Matches' # {}
    <2>1. key.arg \notin Range(xs)
      BY <1>1, <1>2, <1>7 DEF Hit
    <2>2. rows'[i] = rows[i] \/ rows'[i] = None \/ rows'[i].nick # key.arg
      <3>1. CASE xs = Given(rows'[i].nick)
        <4>1. xs = <<rows'[i].nick>>
          BY <1>7, <3>1 DEF Given
        <4>2. DOMAIN xs = {1} /\ xs[1] = rows'[i].nick
          BY <4>1
        <4>3. rows'[i].nick \in Range(xs)
          BY <4>2 DEF Range
        <4> QED
          BY <2>1, <4>3
      <3> QED
        BY <3>1 DEF OneRecordWrite
    <2>3. \A j \in Ids : rows'[j] = rows[j] \/ rows'[j] = None \/ rows'[j].nick # key.arg
      BY <2>2 DEF OneRecordWrite
    <2>4. Matches # {} /\ Answer' = Answer
      BY <1>3, <1>7, <2>3, SameByIdentifier
    <2> QED
      BY <1>7, <2>4 DEF ShouldBeFresh
  <1>8. CASE ~ (key.method = "GetByID" /\ idField = "value")
             /\ ~ (key.method = "GetByIdentifier" /\ hasIdentifiers /\ Matches' # {})
    <2>1. Hit(s, r)
      <3>1. CASE hasTags
        BY <1>3, <1>4, <1>8, <3>1 DEF ShouldBeFresh, Hit
      <3>2. CASE ~hasTags
        BY <1>1, <1>3, <1>4, <1>5, <1>8, <3>2 DEF ShouldBeFresh, Hit
      <3> QED
        BY <3>1, <3>2
    <2> QED
      BY <1>2, <2>1
  <1> QED
    BY <1>6, <1>7, <1>8

LEMMA BulkSpares ==
  ASSUME FreshnessTypeOK, UniqueIdentifiers, NEW s \in Scopes, Written(s), Spared,
         ShouldBeFresh', BulkWrite(s)
  PROVE  ShouldBeFresh /\ Answer' = Answer
  <1> DEFINE r(i) == Extracted(i, Given(rows'[i].nick))
  <1>1. \A i : /\ r(i).identifiers = Given(rows'[i].nick)
               /\ idField = "value" => r(i).id = i
    BY ExtractedHas
  <1>2. PICK ids \in SUBSET Ids :
          /\ ids # {}
          /\ \A i \in Ids \ ids : rows'[i] = rows[i]
          /\ Spared => \A i \in ids : ~Hit(s, Extracted(i, Given(rows'[i].nick)))
    BY DEF BulkWrite
  <1>3. \A i \in ids : ~Hit(s, r(i))
    BY <1>2
  <1> HIDE DEF r
  <1>4. writer' = s /\ UNCHANGED chosen /\ key \in AllKeys
    BY DEF Written, FreshnessTypeOK
  <1>5. UNCHANGED <<key, idField, hasIdentifiers, hasTags>>
    BY <1>4 DEF chosen
  <1>6. PICK some \in ids : TRUE
    BY <1>2
  <1>7. ~Hit(s, r(some))
    BY <1>3, <1>6
  <1>8. CASE key.method = "GetByID" /\ idField = "value"
    <2>1. key.arg \in Ids
      BY <1>4, <1>8, KeyKinds
    <2>2. key.arg \notin ids
      BY <1>1, <1>3, <1>8 DEF Hit
    <2>3. rows'[key.arg] = rows[key.arg]
      BY <1>2, <2>1, <2>2
    <2>4. Matches' = Matches /\ Answer' = Answer
      BY <1>4, <1>8, <2>3, SameById
    <2>5. hasTags => key.scope # s
      BY <1>7 DEF Hit
    <2> QED
      BY <1>4, <1>5, <1>8, <2>4, <2>5 DEF ShouldBeFresh
  <1>9. CASE key.method = "GetByIdentifier" /\ hasIdentifiers /\ Matches' # {}
    <2>1. ASSUME NEW i \in ids PROVE rows'[i].nick # key.arg
      <3>1. SUFFICES ASSUME rows'[i].nick = key.arg PROVE FALSE
        OBVIOUS
      <3>2. r(i).identifiers = <<key.arg>>
        BY <1>1, <1>9, <3>1 DEF Given
      <3>3. DOMAIN <<key.arg>> = {1} /\ <<key.arg>>[1] = key.arg
        OBVIOUS
      <3>4. key.arg \in Range(r(i).identifiers)
        BY <3>2, <3>3 DEF Range
      <3> QED
        BY <1>3, <1>9, <3>4 DEF Hit
    <2>2. \A j \in Ids : rows'[j] = rows[j] \/ rows'[j] = None \/ rows'[j].nick # key.arg
      BY <1>2, <2>1
    <2>3. Matches # {} /\ Answer' = Answer
      BY <1>4, <1>9, <2>2, SameByIdentifier
    <2> QED
      <3>1. hasTags => key.scope # s
        BY <1>7 DEF Hit
      <3> QED
        BY <1>9, <2>3, <3>1 DEF ShouldBeFresh
  <1>10. CASE ~ (key.method = "GetByID" /\ idField = "value")
             /\ ~ (key.method = "GetByIdentifier" /\ hasIdentifiers /\ Matches' # {})
    <2>1. ~hasIdentifiers => r(some).identifiers = <<>>
      BY <1>1 DEF Given
    <2>2. Hit(s, r(some))
      <3>1. CASE hasTags
        BY <1>4, <1>5, <1>10, <3>1 DEF ShouldBeFresh, Hit
      <3>2. CASE ~hasTags
        BY <1>4, <1>5, <1>10, <2>1, <3>2 DEF ShouldBeFresh, Hit
      <3> QED
        BY <3>1, <3>2
    <2> QED
      BY <1>7, <2>2
  <1> QED
    BY <1>8, <1>9, <1>10

LEMMA CriteriaSpares ==
  ASSUME FreshnessTypeOK, UniqueIdentifiers, NEW s \in Scopes, Written(s), Spared,
         ShouldBeFresh', CriteriaWrite(s)
  PROVE  ShouldBeFresh /\ Answer' = Answer
  <1>1. hasTags /\ key.scope # s /\ key.method \notin {"List", "Count"}
    BY DEF CriteriaWrite
  <1>2. \A i \in Ids : rows'[i] = rows[i] \/ rows'[i] = None
    BY DEF CriteriaWrite
  <1>3. writer' = s /\ UNCHANGED chosen /\ key \in AllKeys
    BY DEF Written, FreshnessTypeOK
  <1>4. UNCHANGED <<key, idField, hasIdentifiers, hasTags>>
    BY <1>3 DEF chosen
  <1>5. /\ Matches' # {}
        /\ \/ key.method = "GetByID" /\ idField = "value"
           \/ key.method = "GetByIdentifier" /\ hasIdentifiers
    BY <1>1, <1>3, <1>4 DEF ShouldBeFresh
  <1>6. CASE key.method = "GetByID"
    <2>1. key.arg \in Visible'
      BY <1>4, <1>5, <1>6 DEF Matches
    <2>2. rows'[key.arg] # None
      BY <1>4, <2>1 DEF Visible
    <2>3. rows'[key.arg] = rows[key.arg]
      BY <1>2, <1>3, <1>6, <2>2, KeyKinds
    <2>4. Matches' = Matches /\ Answer' = Answer
      BY <1>3, <1>6, <2>3, SameById
    <2> QED
      BY <1>1, <1>5, <1>6, <2>4 DEF ShouldBeFresh
  <1>7. CASE key.method = "GetByIdentifier"
    <2>1. Matches # {} /\ Answer' = Answer
      BY <1>2, <1>3, <1>5, <1>7, SameByIdentifier
    <2> QED
      BY <1>1, <1>5, <1>7, <2>1 DEF ShouldBeFresh
  <1> QED
    BY <1>5, <1>6, <1>7

(* Every step keeps fresh what should be.                                  *)
LEMMA FreshStep ==
  ASSUME FreshnessTypeOK, UniqueIdentifiers, [Next]_vars, ShouldBeFresh => ~Stale
  PROVE  ShouldBeFresh' => ~Stale'
  <1>1. CASE UNCHANGED vars
    <2>1. ShouldBeFresh' <=> ShouldBeFresh
      BY <1>1 DEF vars, chosen, ShouldBeFresh, Matches, Visible
    <2>2. Answer' = Answer
      BY <1>1 DEF vars, chosen, Answer, Matches, Visible, First
    <2>3. entry' = entry
      BY <1>1 DEF vars
    <2> QED
      BY <2>1, <2>2, <2>3 DEF Stale
  <1>2. CASE Reads
    <2>1. entry' = Answer /\ UNCHANGED <<rows, writes, writer, chosen>>
      BY <1>2 DEF Reads
    <2>2. Answer' = Answer
      BY <2>1 DEF chosen, Answer, Matches, Visible, First
    <2> QED
      BY <2>1, <2>2 DEF Stale
  <1>3. ASSUME NEW s \in Scopes, Written(s), ShouldBeFresh', Stale' PROVE FALSE
    <2>1. Spared /\ entry' # Answer'
      BY <1>3 DEF Stale, Spared
    <2>2. entry' = entry
      BY <1>3, <2>1 DEF Written
    <2>3. ShouldBeFresh /\ Answer' = Answer
      BY <1>3, <2>1, OneRecordSpares, BulkSpares, CriteriaSpares DEF Written
    <2> QED
      BY <2>1, <2>2, <2>3 DEF Stale, Spared
  <1> QED
    BY <1>1, <1>2, <1>3, StepKinds

-----------------------------------------------------------------------------
LEMMA FreshnessInit == Init => FreshnessInv
  <1> SUFFICES ASSUME Init PROVE FreshnessInv
    OBVIOUS
  <1>1. FreshnessTypeOK
    BY WritesAssumption DEF Init, FreshnessTypeOK
  <1>2. UniqueIdentifiers
    <2>1. SUFFICES ASSUME NEW i \in Ids, NEW j \in Ids, rows[i] # None, rows[j] # None,
                          rows[i].nick = rows[j].nick, i # j
                   PROVE  FALSE
      BY DEF UniqueIdentifiers, Unique
    <2>2. rows[i] \in Rows /\ rows[j] \in Rows
      BY <1>1, <2>1 DEF FreshnessTypeOK, Table
    <2>3. rows[i].revision = 0 /\ rows[j].revision = 0 /\ rows[j] # rows[i]
      BY <2>1 DEF Init
    <2> QED
      BY <2>1, <2>2, <2>3 DEF Rows
  <1>3. ~Stale
    BY DEF Init, Stale
  <1> QED
    BY <1>1, <1>2, <1>3
    DEF FreshnessInv, WriterScopeFresh, TagsLeaveOnlyGone, FallbackLeavesOnlyGone

LEMMA FreshnessStep == FreshnessInv /\ [Next]_vars => FreshnessInv'
  <1> SUFFICES ASSUME FreshnessInv, [Next]_vars PROVE FreshnessInv'
    OBVIOUS
  <1>1. FreshnessTypeOK /\ UniqueIdentifiers
        /\ WriterScopeFresh /\ TagsLeaveOnlyGone /\ FallbackLeavesOnlyGone
    BY DEF FreshnessInv
  <1>2. FreshnessTypeOK' /\ UniqueIdentifiers'
    BY <1>1, TypeStep, UniqueStep
  <1>3. key \in AllKeys /\ key' \in AllKeys
    BY <1>1, <1>2 DEF FreshnessTypeOK
  <1>4. ShouldBeFresh => ~Stale
    BY <1>1, <1>3, ReachesAre
  <1>5. ShouldBeFresh' => ~Stale'
    BY <1>1, <1>4, FreshStep
  <1>6. (WriterScopeFresh /\ TagsLeaveOnlyGone /\ FallbackLeavesOnlyGone)'
    <2>1. (key \in AllKeys
           => ((WriterScopeFresh /\ TagsLeaveOnlyGone /\ FallbackLeavesOnlyGone)
               <=> (ShouldBeFresh => ~Stale)))'
      BY ReachesAre, PTL
    <2>2. key' \in AllKeys => (key \in AllKeys)'
      BY DEF AllKeys
    <2> QED
      BY <1>3, <1>5, <2>1, <2>2
  <1> QED
    BY <1>2, <1>6 DEF FreshnessInv

(* The types of the reads' entries, the uniqueness of identifiers and the  *)
(* three reaches below hold together in every reachable state.             *)
THEOREM FreshnessInvariance == Spec => []FreshnessInv
  BY FreshnessInit, FreshnessStep, PTL DEF Spec

(* A cached count is no more than the scope shows, and what a read of one  *)
(* record caches is one record.                                            *)
THEOREM FreshnessTypeCorrect == Spec => []FreshnessTypeOK
  <1>1. FreshnessInv => FreshnessTypeOK
    BY DEF FreshnessInv
  <1> QED
    BY <1>1, FreshnessInvariance, PTL

(* With tags, a caller that reads in the scope it wrote in sees its write: *)
(* every invalidation has the tag of its scope, under which every read in  *)
(* the scope is registered.                                                *)
THEOREM OwnScopeFresh == Spec => []WriterScopeFresh
  <1>1. FreshnessInv => WriterScopeFresh
    BY DEF FreshnessInv
  <1> QED
    BY <1>1, FreshnessInvariance, PTL

(* With tags, what a write leaves stale in other scopes is what Get cached *)
(* and reads of records that are gone or whose id or identifiers the       *)
(* decorator cannot extract.                                               *)
THEOREM TagsReachTheRest == Spec => []TagsLeaveOnlyGone
  <1>1. FreshnessInv => TagsLeaveOnlyGone
    BY DEF FreshnessInv
  <1> QED
    BY <1>1, FreshnessInvariance, PTL

(* Without tags, in every scope, it is what GetByIdentifier cached under   *)
(* an identifier no record has any more, and reads by ids the decorator    *)
(* cannot extract.                                                         *)
THEOREM FallbackReachesTheRest == Spec => []FallbackLeavesOnlyGone
  <1>1. FreshnessInv => FallbackLeavesOnlyGone
    BY DEF FreshnessInv
  <1> QED
    BY <1>1, FreshnessInvariance, PTL
=============================================================================
