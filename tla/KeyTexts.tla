------------------------------ MODULE KeyTexts ------------------------------
(***************************************************************************)
(* How defaultKeySerializer, cache/key_serializer.go, puts the texts of    *)
(* composite values together from the texts of their parts, and how keys   *)
(* and tags are joined from segments.                                      *)
(*                                                                         *)
(* A text is a sequence of tokens: words are spelled rune by rune, what    *)
(* the serializer puts around them are tokens of their own.  Texts are the *)
(* same tokens exactly when they are the same strings as long as no word   *)
(* contains such a token.                                                  *)
(***************************************************************************)
EXTENDS SequencesExt, Integers

CONSTANT Alphabet  \* the tokens of map keys, a sequence in the order of their bytes

ASSUME AlphabetAssumption == Alphabet \in Seq(Range(Alphabet)) /\ IsInjective(Alphabet)

Separator     == "::"
Segment(text) == <<Separator>> \o text

Join(texts, separator) ==
  IF texts = <<>> THEN <<>>
  ELSE FoldLeft(LAMBDA text, next : text \o <<separator>> \o next, Head(texts), Tail(texts))

Braced(kind, texts) ==
  <<kind, "[", ToString(Len(texts)), "]:{">> \o Join(texts, ",") \o <<"}">>

(* A slice or an array, from the texts of its elements.                    *)
ElementsText(kind, texts) == Braced(kind, texts)

(* A struct, from the names and the texts of its exported fields.          *)
StructText(fields) ==
  <<"struct:{">>
  \o Join([i \in DOMAIN fields |-> <<fields[i].name, ":">> \o fields[i].text], ",") \o <<"}">>

(* The order of strings, byte by byte.                                     *)
Rank(token) == SelectInSeq(Alphabet, LAMBDA t : t = token)

Before(a, b) ==
  \/ \E i \in 1..Len(b) :
       /\ \A j \in 1..(i - 1) : j <= Len(a) /\ a[j] = b[j]
       /\ i <= Len(a) => Rank(a[i]) < Rank(b[i])

(* A map, from its entries in the order MapKeys gives them: sorted by the  *)
(* texts of their keys; entries with one text stay as they came.           *)
Order(entries) ==
  CHOOSE p \in SetToSeqs(DOMAIN entries) :
    \A i, j \in DOMAIN p : i < j =>
      \/ Before(entries[p[i]].keySort, entries[p[j]].keySort)
      \/ entries[p[i]].keySort = entries[p[j]].keySort /\ p[i] < p[j]

MapKeyText(type, text) == <<type, ":">> \o text

PairText(entry) == entry.keySort \o <<"=">> \o entry.text

(* (Faulty: the entries as MapKeys gives them.)                            *)
MapTextUnsorted(entries) == Braced("map", [i \in DOMAIN entries |-> PairText(entries[i])])

MapText(entries) ==
  Braced("map", [i \in DOMAIN entries |-> PairText(entries[Order(entries)[i]])])
=============================================================================
