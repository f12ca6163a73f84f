------------------------------ MODULE SnakeCase ------------------------------
(***************************************************************************)
(* The names in cache keys: toSnake of repositorycache/case.go, on         *)
(* sequences of runes.                                                     *)
(***************************************************************************)
EXTENDS SequencesExt

ToLower ==
  [A |-> "a", B |-> "b", C |-> "c", D |-> "d", E |-> "e", F |-> "f", G |-> "g",
   H |-> "h", I |-> "i", J |-> "j", K |-> "k", L |-> "l", M |-> "m", N |-> "n",
   O |-> "o", P |-> "p", Q |-> "q", R |-> "r", S |-> "s", T |-> "t", U |-> "u",
   V |-> "v", W |-> "w", X |-> "x", Y |-> "y", Z |-> "z"]
Letters == Range(ToLower)
Digits  == {"0", "1", "2", "3", "4", "5", "6", "7", "8", "9"}

IsUpper(r) == r \in DOMAIN ToLower
IsLower(r) == r \in Letters
IsDigit(r) == r \in Digits

(* The i-th rune asks for an underscore before it: an upper-case letter    *)
(* that begins a word, a digit that begins a number, and any punctuation,  *)
(* which the underscore replaces.                                          *)
BeginsWord(name, i) ==
  LET r == name[i]
      prev == name[i - 1]
      nextLower == i < Len(name) /\ IsLower(name[i + 1])
  IN \/ IsUpper(r) /\ (IsLower(prev) \/ IsDigit(prev) \/ nextLower)
     \/ IsDigit(r) /\ ~IsDigit(prev)
     \/ ~IsUpper(r) /\ ~IsLower(r) /\ ~IsDigit(r)

(* No underscore is written at the beginning or after another.             *)
InWord(text) == text # <<>> /\ Last(text) # "_"

Written(r) ==
  IF IsUpper(r) THEN <<ToLower[r]>> ELSE IF IsLower(r) \/ IsDigit(r) THEN <<r>> ELSE <<>>

ToSnake(name) ==
  LET write(text, i) ==
        (IF InWord(text) /\ BeginsWord(name, i) THEN Append(text, "_") ELSE text)
        \o Written(name[i])
      text == FoldLeft(write, <<>>, [i \in 1..Len(name) |-> i])
  IN IF text = <<>> \/ InWord(text) THEN text ELSE Front(text)
=============================================================================
