------------------------------ MODULE Document ------------------------------
(***************************************************************************)
(* parse: one document, one root value.  parseRoot collects the comments    *)
(* before the value, runs parseValue and gives the rest of the input to     *)
(* consumeTrailing.                                                         *)
(***************************************************************************)
EXTENDS Parser, JWCC

VARIABLE lead   \* parseRoot's leadHead

vars == <<pvars, lead>>

Root == 1   \* the first node allocated

BeginRoot ==
  /\ pc = "lead" /\ have
  /\ Look.k \notin Comments \cup {"nl", "eof"}
  /\ lead' = NonBlank(acc)
  /\ acc' = <<>>
  /\ pc' = "value"
  /\ UNCHANGED <<input, have, stack, heap, val, depth, keys, nodes, warnings, result>>

NoRoot ==
  /\ pc = "lead" /\ Sees({"eof"})
  /\ Fail("syntax", At)
  /\ UNCHANGED <<input, have, heap, acc, val, keys, nodes, warnings, lead>>

ReturnRoot ==
  /\ pc = "return" /\ stack = <<>>
  /\ heap' = [heap EXCEPT ![val].headComment = lead \o @]
  /\ pc' = IF heap[val].comment = <<>> THEN "rootInline" ELSE "trail"
  /\ UNCHANGED <<input, have, stack, acc, val, depth, keys, nodes, warnings, result, lead>>

RootInline ==
  /\ pc = "rootInline" /\ have
  /\ heap' = [heap EXCEPT ![val].comment = Inline]
  /\ TakeInline
  /\ pc' = "trail"
  /\ UNCHANGED <<input, stack, acc, val, depth, keys, nodes, warnings, result, lead>>

\* consumeTrailing: comments and line breaks, then the end of the input or an error.
ConsumeTrailing ==
  /\ pc = "trail" /\ Sees(Comments \cup {"nl"})
  /\ acc' = IF Look.k = "nl" THEN acc ELSE Append(acc, At)
  /\ Bump
  /\ UNCHANGED <<input, pc, stack, heap, val, depth, keys, nodes, warnings, result, lead>>

Finish ==
  /\ pc = "trail" /\ Sees({"eof"})
  /\ heap' = [heap EXCEPT ![val].trailComment = @ \o NonBlank(acc)]
  /\ pc' = "done"
  /\ result' = [kind |-> "ok", at |-> At]
  /\ UNCHANGED <<input, have, stack, acc, val, depth, keys, nodes, warnings, lead>>

ExtraData ==
  /\ pc = "trail" /\ have
  /\ Look.k \notin Comments \cup {"nl", "eof"}
  /\ Fail("syntax", At)
  /\ UNCHANGED <<input, have, heap, acc, val, keys, nodes, warnings, lead>>

Init == ParserInit /\ lead = <<>>

Next ==
  \/ ParseValue /\ UNCHANGED lead
  \/ BeginRoot \/ NoRoot \/ ReturnRoot \/ RootInline
  \/ ConsumeTrailing \/ Finish \/ ExtraData

Spec == Init /\ [][Next]_vars

-----------------------------------------------------------------------------
TypeOK == ParserTypeOK /\ lead \in Text

Consumed == IF have THEN At - 1 ELSE At
Accepted == pc = "done"
ValueStarts == {i \in 1..At : IsValueStart(input, i)}
KeyPlaces == {i \in 1..At : IsKey(input, i)}

\* The parser consumes nothing that cannot begin a text of the language, in
\* whatever order containers, commas and comments come, accepts only complete
\* texts, and reports a syntax error at the first token no text of the
\* language could have there: it never gives up early and never reads on (the
\* switches of parseObject, parseArray and parseMember).
LanguageExact ==
  /\ Viable(input, Consumed, StrictJSON)
  /\ Accepted => Viable(input, At, StrictJSON) /\ Look.k = "eof"
  /\ pc = "error" /\ result.kind \in {"syntax", "strict", "scan"} =>
       result.at = At /\ ~Allowed(input, At, StrictJSON)

-----------------------------------------------------------------------------
(* The tree. *)

NodesAt(i) == {n \in DOMAIN heap : heap[n].pos = i}
PosOf(children) == [c \in DOMAIN children |-> heap[children[c]].pos]
\* The children a container at p has in the text, before duplicates are dropped.
ChildPlaces(p) == {ChildOf(input, i) : i \in {j \in ValueStarts : Around(input, j) = p}}
\* A member is superseded by a later one of the same key in the same object.
Superseded(i) ==
  /\ IsKey(input, i)
  /\ \E j \in KeyPlaces : /\ j > i /\ Around(input, j) = Around(input, i)
                          /\ input[j].v = input[i].v

\* When parse succeeds the tree is the text's: one node per value and per
\* member, each container's children in source order (a superseded member
\* gone, the last of its key in its place), each container's rawBytes from
\* its opening delimiter to the matching closing one.
TreeMatchesText ==
  Accepted =>
    /\ \A i \in ValueStarts \cup KeyPlaces : Cardinality(NodesAt(i)) = 1
    /\ Len(heap) = Cardinality(ValueStarts \cup KeyPlaces)
    /\ \A n \in DOMAIN heap :
         LET node == heap[n]
             places == PosOf(node.children)
         IN  /\ node.kind \in {"object", "array"} =>
                  /\ OpenerOf(input, node.rawBytes[2]) = node.pos
                  /\ Closes(input[node.rawBytes[2]]) /\ node.rawBytes[1] = node.pos
                  /\ \A i, j \in DOMAIN places : i < j => places[i] < places[j]
                  /\ Range(places) = {i \in ChildPlaces(node.pos) : ~Superseded(i)}
             /\ node.kind = "member" =>
                  /\ Len(places) = 1
                  /\ \E i \in ValueStarts : places[1] = i /\ ChildOf(input, i) = node.pos

\* At every moment, for every object still open, the map of memberIndex finds
\* the member a scan of the children would, and no key has two live members.
MemberIndexAgrees ==
  \A f \in Range(stack) : heap[f.node].kind = "object" =>
    \A k \in Keys :
      LET hits == PlacesOf(heap[f.node].children, k)
      IN  /\ Cardinality(hits) <= 1
          /\ f.indexed /\ pc # "closed" => f.byKey[k] = (IF hits = {} THEN 0 ELSE Max(hits))

-----------------------------------------------------------------------------
(* Comments. *)

Slots == {"headComment", "comment", "footComment", "trailComment"}
IsText(i) == IsComment(input[i]) /\ input[i].v = "text"
TextComments == {i \in 1..At : IsText(i)}
\* The places in the tree that hold comment i: a node, known by its token, and a slot of it.
Held(i) == {<<heap[h[1]].pos, h[2]>> :
              h \in {x \in (DOMAIN heap) \X Slots : i \in Range(heap[x[1]][x[2]])}}

BetweenKeyAndValue(i) ==
  LET p == Before(input, i) IN p # 0 /\ (input[p].k = ":" \/ IsKey(input, p))

\* The container element whose own comment is at i loses it when a second
\* comment stands on the same line before the comma: parseArray assigns it
\* to the element and parseArray's own return value already held the first.
Overwritten(i) ==
  LET p == Before(input, i)
  IN  /\ p # 0 /\ p = i - 1 /\ Closes(input[p]) /\ Within(input, i, "[")
      /\ IsText(i + 1)

\* Where a comment belongs, from the significant tokens around it alone.
Owner(p) == ChildOf(input, StartOf(input, p))
Places(i) ==
  LET p == Before(input, i)
      q == After(input, i)
      around == Around(input, i)
      inlineOfOwner ==
        \/ ~Closes(input[p]) /\ i = p + 1
        \/ /\ Closes(input[p]) /\ i = p + 2 /\ IsComment(input[p + 1])
           /\ around # 0 \/ ~IsText(p + 1)
  IN  IF p = 0 THEN {<<q, "headComment">>}
      ELSE CASE BetweenKeyAndValue(i) -> {}
        [] input[p].k = "," /\ i = p + 1 ->
             LET owner == Owner(Before(input, p))
             IN  {<<owner, "comment">>, <<owner, "footComment">>}
        [] Opens(input[p]) \/ (input[p].k = "," /\ i # p + 1) ->
             IF Closes(input[q]) THEN {<<around, "footComment">>} ELSE {<<q, "headComment">>}
        [] EndsValue(input, p) ->
             IF Closes(input[p]) /\ i = p + 1 THEN {<<StartOf(input, p), "comment">>}
             ELSE IF inlineOfOwner THEN {<<Owner(p), "comment">>}
             ELSE IF around = 0 THEN {<<Owner(p), "trailComment">>}
             ELSE IF Closes(input[q]) THEN {<<around, "footComment">>}
             ELSE {<<Owner(p), "footComment">>}

\* Every comment with text ends up in exactly one slot of one node, the one
\* the association rules name (parser.go:13-25), except those between a key
\* and its value and the overwritten ones, which are in none; and comments
\* joined in one slot keep their order in the text, at every moment.
CommentsWhereRulesSay ==
  /\ Accepted => \A i \in TextComments :
       /\ Held(i) \subseteq Places(i)
       /\ Cardinality(Held(i)) = IF BetweenKeyAndValue(i) \/ Overwritten(i) THEN 0 ELSE 1
  /\ \A n \in DOMAIN heap : \A slot \in Slots : LET text == heap[n][slot] IN
       \A i, j \in DOMAIN text : i < j => text[i] < text[j]

\* Each comment dropped between a key and its value is reported once, each
\* superseded member once, and nothing else is (skipDroppedComments, warnf).
WarningsExact ==
  Accepted =>
    LET dropped == {i \in 1..At : IsComment(input[i]) /\ BetweenKeyAndValue(i)}
        duplicates == {i \in KeyPlaces : \E j \in KeyPlaces :
                         j < i /\ Around(input, j) = Around(input, i) /\ input[j].v = input[i].v}
    IN  /\ Len(warnings) = Cardinality(dropped) + Cardinality(duplicates)
        /\ Range(warnings) = [kind : {"dropped"}, at : dropped]
                               \cup [kind : {"duplicate"}, at : duplicates]

-----------------------------------------------------------------------------
(* Limits. *)

\* A limit error is raised exactly when the text passes the limit, and not before.
LimitsExact ==
  LET starts == Cardinality({i \in ValueStarts : i <= Consumed})
      deepest(n) == \E i \in 1..n : Depth(input, i) > MaxDepth
  IN  /\ Accepted =>
           /\ MaxNodes > 0 => starts + Cardinality(KeyPlaces) <= MaxNodes
           /\ MaxKeys > 0 => Cardinality(KeyPlaces) <= MaxKeys
           /\ MaxDepth > 0 => ~deepest(At)
      /\ pc = "error" =>
           CASE result.kind = "nodes" -> starts + Cardinality(KeyPlaces) > MaxNodes
             [] result.kind = "keys" -> Cardinality(KeyPlaces) > MaxKeys
             [] result.kind = "depth" -> deepest(At) /\ ~deepest(At - 1)
             [] result.kind = "duplicate" -> \E i, j \in KeyPlaces :
                  i < j /\ Around(input, i) = Around(input, j) /\ input[i].v = input[j].v
             [] OTHER -> TRUE
=============================================================================
