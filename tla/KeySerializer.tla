---------------------------- MODULE KeySerializer ----------------------------
(***************************************************************************)
(* defaultKeySerializer, cache/key_serializer.go, on values of any depth.  *)
(* A Go value is a record of its kind and its parts; what texts are made   *)
(* of, KeyTexts says.                                                      *)
(***************************************************************************)
EXTENDS KeyTexts

Nil             == [kind |-> "nil"]        \* nil, a nil pointer or interface
NilSlice        == [kind |-> "slice:nil"]
NilMap          == [kind |-> "map:nil"]
Basic(type, text) == [kind |-> "basic", type |-> type, text |-> text]  \* text: what %v prints
Pointer(v)      == [kind |-> "pointer", to |-> v]
Slice(vs)       == [kind |-> "slice", elements |-> vs]
Array(vs)       == [kind |-> "array", elements |-> vs]
Func(type)      == [kind |-> "func", type |-> type]
Field(name, v)  == [name |-> name, value |-> v, exported |-> TRUE]
Private(name, v) == [name |-> name, value |-> v, exported |-> FALSE]
Struct(fields)  == [kind |-> "struct", fields |-> fields]
(* A map as MapKeys gives it: its entries, <<key, value>>, in any order.   *)
MapOf(entries)  == [kind |-> "map", entries |-> entries]

RECURSIVE SerializeValue(_)

SerializeElements(v) ==
  ElementsText(v.kind, [i \in DOMAIN v.elements |-> SerializeValue(v.elements[i])])

(* Keys of basic types; the type's token has its package path, if any.     *)
SerializeMapKey(k) == MapKeyText(k.type, SerializeValue(k))

SerializeMap(v) ==
  MapText([i \in DOMAIN v.entries |-> [keySort |-> SerializeMapKey(v.entries[i][1]),
                                       text    |-> SerializeValue(v.entries[i][2])]])

SerializeStruct(v) ==
  LET exported == SelectSeq(v.fields, LAMBDA f : f.exported)
  IN StructText([i \in DOMAIN exported |->
                   [name |-> exported[i].name, text |-> SerializeValue(exported[i].value)]])

SerializeValue(v) ==
  CASE v.kind \in {"nil", "slice:nil", "map:nil"} -> <<v.kind>>
    [] v.kind = "func"               -> <<"func:opaque:", v.type>>
    [] v.kind = "pointer"            -> SerializeValue(v.to)
    [] v.kind \in {"slice", "array"} -> SerializeElements(v)
    [] v.kind = "map"                -> SerializeMap(v)
    [] v.kind = "struct"             -> SerializeStruct(v)
    [] v.kind = "basic"              -> v.text
=============================================================================
