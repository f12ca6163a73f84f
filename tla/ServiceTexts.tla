---------------------------- MODULE ServiceTexts ----------------------------
(***************************************************************************)
(* The words of keys and tags as the code spells them, and the texts of    *)
(* scope data: what the constants of SharedService stand for.              *)
(***************************************************************************)
EXTENDS KeySerializer, SnakeCase

Spelled ==
  [Get |-> <<"G","e","t">>, GetByID |-> <<"G","e","t","B","y","I","D">>,
   List |-> <<"L","i","s","t">>, Count |-> <<"C","o","u","n","t">>,
   GetByIdentifier |-> <<"G","e","t","B","y","I","d","e","n","t","i","f","i","e","r">>,
   list |-> <<"l","i","s","t">>, scope |-> <<"s","c","o","p","e">>, id |-> <<"i","d">>,
   identifier |-> <<"i","d","e","n","t","i","f","i","e","r">>]

(* A namespace is the name of the type alone: its package has no part in   *)
(* it.  Methods are written in snake case, labels as they are.             *)
NamespaceText(t) == ToSnake(t.name)

WordText(w) ==
  IF w \in {"list", "scope", "id", "identifier"} THEN Spelled[w] ELSE ToSnake(Spelled[w])
=============================================================================
