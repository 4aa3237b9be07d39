---------------------------- MODULE MCDecodeValue ----------------------------
(* Types and documents for DecodeValue: a struct with a field of each type,  *)
(* decoded into twice; two goroutines; and every small graph of embedding.   *)
EXTENDS DecodeValue

MCLower(key) == IF key = "A" THEN "a" ELSE key

Type(kind, elem) == [kind |-> kind, elem |-> elem, len |-> 2, key |-> "string", fields |-> <<>>]
MapOf(elem, key) == [Type("map", elem) EXCEPT !.key = key]
StructOf(fields) == [Type("struct", "") EXCEPT !.fields = fields]
Field(name, type) == [name |-> name, json |-> "", jsonc |-> "", opts |-> {}, type |-> type, embedded |-> FALSE, exported |-> TRUE]
With(field, opts) == [field EXCEPT !.opts = opts]
Tag(field, json, jsonc) == [field EXCEPT !.json = json, !.jsonc = jsonc]
Embed(type, exported) == [Field(type, type) EXCEPT !.embedded = TRUE, !.exported = exported]

-----------------------------------------------------------------------------
(* Documents. *)

Leaf(kind) == [kind |-> kind, keys |-> <<>>, kids |-> <<>>]
Arr(kids) == [kind |-> "array", keys |-> <<>>, kids |-> kids]
Obj(keys, kids) == [kind |-> "object", keys |-> keys, kids |-> kids]
Num == Leaf("number")
Str == Leaf("string")
Values ==
  {Leaf(kind) : kind \in {"null", "number", "large", "huge", "string"}}
    \cup {Arr(<<Num, Str>>), Arr(<<Num, Leaf("large")>>), Arr(<<>>)}
    \cup {Obj(<<"a", "b">>, <<Num, Leaf("large")>>), Obj(<<"1", "a">>, <<Num, Str>>), Obj(<<"A">>, <<Num>>)}

FirstDocs ==
  {Obj(<<"a", "b">>, <<v, w>>) : v \in Values, w \in {Num, Str}}
    \cup {Obj(<<"b", "A">>, <<w, v>>) : v \in Values, w \in {Num, Str}}
    \cup {Obj(<<"b", "a", "A">>, <<Num, v, Arr(<<Num>>)>>) : v \in {Arr(<<Num, Num>>), Obj(<<"1">>, <<Num>>)}}
SecondDocs == {Obj(<<>>, <<>>), Obj(<<"A">>, <<Leaf("null")>>), Obj(<<"b", "x", "a">>, <<Num, Num, Obj(<<"a">>, <<Num>>)>>)}

-----------------------------------------------------------------------------
(* A struct with a field of each type. *)

Common(field) ==
  "int" :> Type("int", "") @@ "float" :> Type("float", "") @@ "string" :> Type("string", "")
  @@ "time" :> Type("time", "") @@ "raw" :> Type("raw", "") @@ "any" :> Type("any", "")
  @@ "pint" :> Type("ptr", "int") @@ "ppint" :> Type("ptr", "pint")
  @@ "slice" :> Type("slice", "int") @@ "array" :> Type("array", "pint")
  @@ "map" :> MapOf("slice", "string") @@ "intmap" :> MapOf("int", "int") @@ "badmap" :> MapOf("int", "unsupported")
  @@ "custom" :> Type("custom", "pint") @@ "lenient" :> Type("lenient", "slice") @@ "customs" :> MapOf("custom", "string")
  @@ "inner" :> StructOf(<<With(Field("a", "int"), {"required"}), With(Field("b", "int"), {"default"})>>)
  @@ "pinner" :> Type("ptr", "inner") @@ "inners" :> Type("slice", "inner")
  @@ "root" :> StructOf(<<Field("a", field), With(Field("b", "int"), {"required"}), With(Field("c", "string"), {"default"})>>)
FieldTypes == {"int", "float", "time", "raw", "any", "ppint", "slice", "array", "map", "intmap", "badmap",
               "custom", "lenient", "customs", "inner", "pinner", "inners"}

MCInput(types, strict, work) ==
  [types |-> types, root |-> "root", strict |-> strict, numerals |-> {"1"}, work |-> work]

FieldInputs ==
  {MCInput(Common(field), FALSE, <<<<first, second>>>>) : field \in FieldTypes, first \in FirstDocs, second \in SecondDocs}
    \cup {MCInput(Common("int"), TRUE, <<<<first>>>>) : first \in SecondDocs}
    \cup {MCInput([Common("int") EXCEPT !["root"].fields[1].opts = {"bad default"}], FALSE, <<<<first>>>>) :
             first \in {Obj(<<>>, <<>>), Obj(<<"b">>, <<Num>>), Obj(<<"b", "A">>, <<Num, Num>>)}}

\* A method between two members of other types.
MethodTypes == [Common("int") EXCEPT !["root"] = StructOf(<<Field("a", "int"), Field("b", "custom"), Field("c", "lenient"), Field("d", "int")>>)]
MethodInputs ==
  {MCInput(MethodTypes, FALSE, <<<<Obj(<<"a", "b", "c", "d">>, <<v, w, x, Num>>)>>>>) :
     v \in {Num, Str}, w \in {Num, Str, Leaf("large")}, x \in {Arr(<<Num>>), Arr(<<Str, Leaf("large")>>), Str}}

\* Embedded pointers, one of them to an unexported struct.
EmbedTypes(exported) ==
  [Common("int") EXCEPT !["root"] = StructOf(<<Embed("pinner", exported), Field("d", "int")>>),
                        !["inner"] = StructOf(<<Field("a", "slice"), With(Field("b", "int"), {"default"})>>)]
EmbedInputs ==
  {MCInput(EmbedTypes(exported), FALSE, <<<<doc, Obj(<<"d">>, <<Num>>)>>>>) : exported \in BOOLEAN,
     doc \in {Obj(<<"d", "a", "b">>, <<Num, v, Num>>) : v \in {Arr(<<Num>>), Str, Arr(<<Leaf("large")>>)}} \cup {Obj(<<"d", "b">>, <<Num, Num>>)}}

\* Two goroutines and a struct in a struct.
SharedInputs ==
  {MCInput(Common("inner"), FALSE, <<<<Obj(<<"a", "b">>, <<v, Num>>)>>, <<Obj(<<"b", "a">>, <<Num, Obj(<<"a">>, <<w>>)>>)>>>>) :
     v \in {Obj(<<"a">>, <<Num>>), Str}, w \in {Num, Leaf("large")}}

-----------------------------------------------------------------------------
(* Every small graph of embedding: three structs, the root with two fields,  *)
(* the first the second struct.                                               *)

Structs == <<"root", "S", "T">>
Pointers == <<"*root", "*S", "*T">>
FieldChoices(i) ==
  {Field("a", "int"), Tag(Field("B", "int"), "", "a"), Tag(Field("C", "int"), "a", "-"), [Field("a", "int") EXCEPT !.exported = FALSE]}
    \cup {Embed(Pointers[j], TRUE) : j \in 1..3} \cup {Embed(Structs[j], TRUE) : j \in (i + 1)..3}
    \cup {Embed(Pointers[3], FALSE), Tag(Embed(Pointers[3], TRUE), "a", "")}
\* Go refuses two fields of one name; an embedded one has its type's.
NameOf(f) == CHOOSE j \in 0..3 : (j = 0 /\ ~f.embedded) \/ (j > 0 /\ f.type \in {Structs[j], Pointers[j]})
Pairs(S) == {p \in S \X S : IF p[1].embedded THEN NameOf(p[1]) # NameOf(p[2]) ELSE p[1].name # p[2].name}
Graph(r, s, t) ==
  "int" :> Type("int", "") @@ "root" :> StructOf(r) @@ "S" :> StructOf(s) @@ "T" :> StructOf(t)
  @@ "*root" :> Type("ptr", "root") @@ "*S" :> Type("ptr", "S") @@ "*T" :> Type("ptr", "T")
GraphInputs ==
  {MCInput(Graph(r, s, t), FALSE, <<<<Obj(<<"a">>, <<Num>>)>>>>) :
     r \in {p \in Pairs(FieldChoices(1)) : p[1] \in {Embed("S", TRUE), Embed("*S", TRUE)}}, s \in Pairs(FieldChoices(2)),
     t \in {<<f>> : f \in {Field("a", "int"), Tag(Field("B", "int"), "", "a"), Embed("*root", TRUE), Embed("*S", TRUE)}}}

AllInputs == FieldInputs \cup MethodInputs \cup EmbedInputs \cup SharedInputs \cup GraphInputs
=============================================================================
