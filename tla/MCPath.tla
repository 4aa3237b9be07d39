-------------------------------- MODULE MCPath --------------------------------
(* A tree, values and queries for Path. *)
EXTENDS Path

\* 12: {"a": [1, {"a": 2}], "b": {"a": {"b": 1}}}; the caller has 2 and {"a": 1}.
MCHeap ==
  <<Number("1", "c1"), Number("2", None), Member("a", 2, "c2"), Object(<<3>>, None),
    Array(<<1, 4>>, "c3"), Member("a", 5, None),
    Number("1", None), Member("b", 7, "c4"), Object(<<8>>, None), Member("a", 9, None),
    Object(<<10>>, "c5"), Member("b", 11, None), Object(<<6, 12>>, "c6"),
    Number("2", None), Number("1", None), Member("a", 15, "v1"), Object(<<16>>, "v2")>>
MCRoot == 13
MCValues == {14, 16, 17}
MCParts == {4, 6, 11}
MCPaths ==
  {<<>>, <<Child("a")>>, <<Child("a"), Child("1")>>, <<Child("a"), Index(0)>>, <<Child("a"), Index(2)>>,
   <<Wildcard>>, <<Wildcard, Wildcard>>, <<Recursive("a")>>, <<Recursive("a"), Recursive("b")>>,
   <<Recursive("a"), Wildcard>>, <<Recursive("a"), Recursive("a")>>, <<Child("b"), Recursive("b")>>}
=============================================================================
