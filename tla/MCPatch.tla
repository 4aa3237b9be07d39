------------------------------- MODULE MCPatch -------------------------------
(* A document, operands and operations for Patch. *)
EXTENDS Patch

\* 10: {"a": [1, {"b": 2}], "b": {}}, with comments; 14: {"b": 1.0, "a": []}.
MCHeap ==
  <<Number("1", "c1"), Number("2", None), Member("b", 2, "c2"), Object(<<3>>, "c3"),
    Array(<<1, 4>>, "c4"), Member("a", 5, "c5"),
    Object(<<>>, "c6"), Member("b", 7, "c7"), Object(<<6, 8>>, None),
    Number("2", "v1"), Number("1.0", None), Member("b", 11, None), Array(<<>>, None),
    Member("a", 13, None), Object(<<12, 14>>, "v2")>>
MCDocs == {9, 0}

Paths ==
  {<<>>, <<"a">>, <<"b">>, <<"1">>, <<"a", "0">>, <<"a", "1">>, <<"a", "2">>, <<"a", "-">>,
   <<"a", "01">>, <<"a", "1", "b">>, <<"b", "a">>, <<"b", "a", "0">>, <<BadToken>>}
Op(o, path, from, value) == [op |-> o, path |-> path, from |-> from, value |-> value]
AllOps ==
  {Op(o, p, <<>>, v) : o \in {"add", "replace"}, p \in Paths, v \in {0, 10, 11, 15}}
  \cup {Op("test", p, <<>>, v) : p \in Paths, v \in {0, 11, 15}}
  \cup {Op("remove", p, <<>>, 0) : p \in Paths}
  \cup {Op(o, p, f, 0) : o \in {"move", "copy"}, p \in Paths, f \in Paths}
  \cup {Op("swap", <<>>, <<>>, 0)}
=============================================================================
