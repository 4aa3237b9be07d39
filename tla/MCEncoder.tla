------------------------------ MODULE MCEncoder ------------------------------
(* Values for Encoder: every graph of three nodes, and two trees with every  *)
(* small set of comments.                                                    *)
EXTENDS Encoder

Value(kind, kids) == [kind |-> kind, kids |-> kids, tags |-> [i \in DOMAIN kids |-> "none"]]
Tagged(kids, tags) == [kind |-> "struct", kids |-> kids, tags |-> tags]

MCOptions(indent, arrayMultiline, trailingComma, strict, omitEmpty) ==
  [indent |-> indent, arrayMultiline |-> arrayMultiline, trailingComma |-> trailingComma,
   strict |-> strict, omitEmpty |-> omitEmpty]
Plain == MCOptions(FALSE, FALSE, FALSE, FALSE, FALSE)

MCInput(nodes, addr, comments, o) ==
  [nodes |-> nodes, root |-> 1, addr |-> addr, comments |-> comments,
   indent |-> o.indent, arrayMultiline |-> o.arrayMultiline, trailingComma |-> o.trailingComma,
   strict |-> o.strict, omitEmpty |-> o.omitEmpty]
OwnAddress(nodes) == [n \in DOMAIN nodes |-> n]

-----------------------------------------------------------------------------
(* Graphs: every value leads to any of three, and none holds itself in place. *)

Three == 1..3
NodeChoices ==
  {Value("scalar", <<>>), Value("unsupported", <<>>), Value("badmap", <<1>>)}
    \cup {Value(kind, <<n>>) : kind \in {"pointer", "interface", "map"}, n \in Three}
    \cup {Value(kind, kids) : kind \in {"slice", "struct"}, kids \in {<<n>> : n \in Three} \cup (Three \X Three)}

HoldsInPlace(node) == IF node.kind \in {"struct", "interface"} THEN ToSet(node.kids) ELSE {}
Leads(g, n, in) ==
  LET Next1(S) == S \cup UNION {IF in THEN HoldsInPlace(g[m]) ELSE ToSet(g[m].kids) : m \in S}
  IN  Next1(Next1(Next1(IF in THEN HoldsInPlace(g[n]) ELSE {n})))
\* Node 2 is met before node 3, which only renames.
FirstMet(g, n) == Min({i \in 1..6 : i = 6 \/ (\E m \in 1..2, j \in 1..2 : i = 2 * m + j - 2 /\ j \in DOMAIN g[m].kids /\ g[m].kids[j] = n)})
InGraph == {g \in [Three -> NodeChoices] :
              /\ FirstMet(g, 2) < FirstMet(g, 3)
              /\ Leads(g, 1, FALSE) = Three
              /\ \A n \in Three : n \notin Leads(g, n, TRUE)}
Aliases(g) ==
  {OwnAddress(g)}
    \cup {[OwnAddress(g) EXCEPT ![g[n].kids[1]] = n] : n \in {m \in Three : g[m].kind = "struct"}}
GraphInputs == UNION {{MCInput(g, a, <<>>, Plain) : a \in Aliases(g)} : g \in InGraph}

-----------------------------------------------------------------------------
(* Trees with comments. *)

TagChoices == {"none", "comment", "commented"}
TagPairs == {<<"none", "none">>, <<"none", "commented">>, <<"commented", "none">>,
             <<"commented", "commented">>, <<"comment", "commented">>}
Trees ==
  {<<Tagged(<<2, 3>>, tags), Value("scalar", <<>>), Value("slice", <<4, 2>>), Value("map", <<>>)>> : tags \in TagPairs}
  \cup {<<Value("array", <<2, 3>>), Tagged(<<4, 3>>, <<tag, "none">>), Value("nil", <<>>), Value("mapslice", <<3>>)>> :
          tag \in TagChoices}
Paths == {<<1>>, <<2>>, <<2, 1>>, <<2, 2>>, <<1, 1>>}
CommentOf(paths, positions, texts) == [path : paths, pos : positions, text : texts]
AnyComment == CommentOf(Paths, {"head", "line", "foot"}, {"single", "multi", "blank"})
CommentSets ==
  {<<>>} \cup {<<c>> : c \in AnyComment}
    \cup {<<c, d>> : c \in CommentOf(Paths, {"head", "line", "foot"}, {"single"}),
                     d \in CommentOf({<<2>>, <<2, 2>>}, {"head", "line", "foot"}, {"single", "multi"})}
Pretty == {MCOptions(TRUE, FALSE, comma, FALSE, FALSE) : comma \in BOOLEAN}
OtherOptions == {MCOptions(TRUE, FALSE, TRUE, TRUE, FALSE), MCOptions(FALSE, TRUE, TRUE, FALSE, FALSE),
                 MCOptions(TRUE, FALSE, TRUE, FALSE, TRUE)}
OneComment == {c \in CommentSets : Len(c) = 1}
TreeInputs ==
  {MCInput(t, OwnAddress(t), c, o) : t \in Trees, c \in CommentSets, o \in Pretty}
    \cup {MCInput(t, OwnAddress(t), c, o) : t \in Trees, c \in OneComment, o \in OtherOptions}

\* A commented member between two others, and after its first neighbour's.
ThreeMembers ==
  {<<Tagged(<<2, 2, 3>>, tags), Value("scalar", <<>>), Value("nil", <<>>)>> :
     tags \in {<<"none", "commented", "none">>, <<"none", "commented", "commented">>}}
ThreeInputs == {MCInput(t, OwnAddress(t), c, o) : t \in ThreeMembers, c \in OneComment, o \in Pretty}

\* A pointer to a struct with a pointer to the struct's own first field.
FirstField ==
  LET nodes == <<Value("pointer", <<2>>), Value("struct", <<3, 4>>), Value("scalar", <<>>), Value("pointer", <<3>>)>>
  IN  MCInput(nodes, [OwnAddress(nodes) EXCEPT ![3] = 2], <<>>, Plain)

AllInputs == GraphInputs \cup TreeInputs \cup ThreeInputs \cup {FirstField}

-----------------------------------------------------------------------------
(* What the violation runs need. *)

OneStruct == <<Tagged(<<2, 2>>, <<"none", "none">>), Value("scalar", <<>>)>>
LineInputs ==
  {MCInput(OneStruct, OwnAddress(OneStruct), c, MCOptions(TRUE, FALSE, FALSE, FALSE, FALSE)) :
     c \in {<<d, e>> : d, e \in CommentOf({<<1>>, <<2>>}, {"head", "line", "foot"}, {"single", "multi", "blank"})}}
FieldInputs == GraphInputs \cup {FirstField}
=============================================================================
