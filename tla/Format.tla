-------------------------------- MODULE Format --------------------------------
(***************************************************************************)
(* Format, Minimize and ToJSON: parse a text, write the tree out with the    *)
(* node encoder of encode.go, and, as a reader of the output does, parse     *)
(* what was written.  writeEmbedded uses the same parser and encoder for the *)
(* output of a Marshaler, or writes it token by token (relayout).            *)
(*                                                                         *)
(* The first parse scans any text; the second scans the script, the tokens   *)
(* written.  Each piece of the script says which tokens of the first text it *)
(* stands for, so that a comment can be followed through both parses.        *)
(***************************************************************************)
EXTENDS Document

CONSTANTS
  SourceBounds,  \* bound: the first texts explored, as sets of tokens with a length
  Options        \* the encoder options: indent, arrayMultiline, trailingComma, strict

ASSUME FormatAssumption ==
  /\ \A b \in SourceBounds : b.tokens \subseteq Alphabet /\ b.length \in Nat
  /\ Options \subseteq [indent : BOOLEAN, arrayMultiline : BOOLEAN,
                        trailingComma : BOOLEAN, strict : BOOLEAN]

VARIABLES
  opts,    \* the options the encoder was given
  script,  \* the pieces it wrote; <<>> during the first parse
  source,  \* history: the first text
  kept     \* history: the comments with text in the first tree

fvars == <<vars, opts, script, source, kept>>

-----------------------------------------------------------------------------
(* What a piece of the tree stands for in the first text. *)

Rewritten == script # <<>>
SourceOf(i) == IF Rewritten THEN script[i].of ELSE <<i>>
Lines(text) == FlattenSeq([i \in DOMAIN text |-> SourceOf(text[i])])
TextOfSource == IF Rewritten THEN source ELSE input
IsBlankLine(line) == TextOfSource[line].v = "blank"

Piece(t, of) == [t |-> t, of |-> of]
Mark(kind) == Piece(Tok(kind), <<>>)
Break == <<Mark("nl")>>

-----------------------------------------------------------------------------
(* Comments. *)

\* multiline and nodeComments.
NodeComments(o) == o.indent /\ ~o.strict
IsContainer(n) == heap[n].kind \in {"object", "array"}
IsMember(n) == heap[n].kind = "member"
Value(n) == heap[n].children[1]

\* writeCommentBlock: one line each, without the blank ones at the start.
CommentBlock(text) ==
  LET lines == Lines(text)
      solid == {i \in DOMAIN lines : ~IsBlankLine(lines[i])}
      shown == IF solid = {} THEN <<>> ELSE SubSeq(lines, Min(solid), Len(lines))
      Line(a) == Piece(CommentTok("line", IF IsBlankLine(a) THEN "blank" ELSE "text"), <<a>>)
  IN  FlattenSeq([i \in DOMAIN shown |-> <<Line(shown[i])>> \o Break])

HeadComments(n) ==
  CommentBlock(heap[n].headComment \o IF IsMember(n) THEN heap[Value(n)].headComment ELSE <<>>)

\* writeInlineComment and writeInlineBlockComment.
InlineBlock(text) == <<Piece(CommentTok("block", "text"), Lines(text))>>
InlineLine(text) ==
  IF Len(Lines(text)) > 1 THEN InlineBlock(text)
  ELSE <<Piece(CommentTok("line", "text"), Lines(text))>>

OnLine(n) ==
  SelectSeq((IF IsMember(n) THEN <<heap[Value(n)].comment>> ELSE <<>>) \o <<heap[n].comment>>,
            LAMBDA text : text # <<>>)

\* Mutant: the first of two comments hides the second.
LineCommentsOpen(n) == FlattenSeq([i \in DOMAIN OnLine(n) |-> InlineLine(OnLine(n)[i])])

\* writeLineComments: all but the last as a block comment.
LineComments(n) ==
  FlattenSeq([i \in DOMAIN OnLine(n) |->
                IF i < Len(OnLine(n)) THEN InlineBlock(OnLine(n)[i]) ELSE InlineLine(OnLine(n)[i])])

\* Mutants: an element's own foot comment is left out; a container's foot
\* comment is written after it too.
AfterWithoutFoot(n) == (IF IsMember(n) THEN heap[Value(n)].trailComment ELSE <<>>) \o heap[n].trailComment
AfterWithAnyFoot(n) == heap[n].footComment \o heap[n].trailComment

AfterComments(n) ==
  (IF IsContainer(n) THEN <<>> ELSE heap[n].footComment)
    \o (IF IsMember(n) THEN heap[Value(n)].trailComment ELSE <<>>)
    \o heap[n].trailComment

-----------------------------------------------------------------------------
(* Values. *)

CommaAfter(o, i, n) == i < Len(heap[n].children) \/ (o.trailingComma /\ ~o.strict)

IsMultiline(o, n) == o.indent \/ (heap[n].kind = "array" /\ o.arrayMultiline)

\* writeValue, writeChildren and what they call: the pieces of each node.
Written(o) ==
  LET written[n \in DOMAIN heap] ==
        LET node == heap[n]
            open == <<Piece(input[node.pos], SourceOf(node.pos))>>
            close == <<Mark(IF node.kind = "object" THEN "}" ELSE "]")>>
            Child(i) ==
              LET c == node.children[i]
                  comments == NodeComments(o)
              IN  (IF comments THEN HeadComments(c) ELSE <<>>)
                    \o written[c]
                    \o (IF CommaAfter(o, i, n) THEN <<Mark(",")>> ELSE <<>>)
                    \o (IF comments THEN LineComments(c) ELSE <<>>)
                    \o Break
                    \o (IF comments THEN CommentBlock(AfterComments(c)) ELSE <<>>)
            Compact(i) == written[node.children[i]] \o IF i < Len(node.children) THEN <<Mark(",")>> ELSE <<>>
        IN  CASE node.kind = "scalar" -> open
              [] node.kind = "member" -> open \o <<Mark(":")>> \o written[Value(n)]
              [] IsContainer(n) /\ ~IsMultiline(o, n) ->
                   open \o FlattenSeq([i \in DOMAIN node.children |-> Compact(i)]) \o close
              [] OTHER ->
                   IF node.children = <<>> /\ node.footComment = <<>> THEN open \o close
                   ELSE open \o Break
                          \o FlattenSeq([i \in DOMAIN node.children |-> Child(i)])
                          \o (IF o.strict THEN <<>> ELSE CommentBlock(node.footComment))
                          \o close
  IN  written

\* encodeNode.
Encoded(o) ==
  LET after == CommentBlock(AfterComments(Root))
      comments == NodeComments(o)
  IN  (IF comments THEN HeadComments(Root) ELSE <<>>)
        \o Written(o)[Root]
        \o (IF comments THEN LineComments(Root) ELSE <<>>)
        \o (IF comments /\ after # <<>> THEN Break \o after ELSE <<>>)
        \o <<Mark("eof")>>

-----------------------------------------------------------------------------
(* relayout: what a Marshaler returned, written from its tokens, without a  *)
(* tree.  It gives up on anything but plain JSON.                           *)

\* relayoutFrame, and the locals of relayoutTokens.
Opened(o, t) ==
  [object |-> t.k = "{", multiline |-> o.indent \/ (t.k = "[" /\ o.arrayMultiline),
   children |-> 0, keys |-> <<>>]
RelayoutStart == [want |-> "value", afterComma |-> FALSE, stack |-> <<>>, out |-> <<>>]
GiveUp(r) == [r EXCEPT !.want = "failed"]

Inner(r) == Last(r.stack)
Outer(r) == Front(r.stack)
InList(r) == r.stack # <<>> /\ ~Inner(r).object

\* relayoutChild, for an element and for a member.
RelayoutChild(r) ==
  LET comma == IF Inner(r).children > 0 THEN <<Mark(",")>> ELSE <<>>
  IN  [r EXCEPT !.out = @ \o comma \o (IF Inner(r).multiline THEN Break ELSE <<>>),
                !.stack = Append(Outer(r), [Inner(r) EXCEPT !.children = @ + 1])]

\* Mutant: an object of two members is not looked at.
DistinctFromThree(f) == Len(f.keys) > 2 => \A i, j \in DOMAIN f.keys : f.keys[i] = f.keys[j] => i = j

\* relayoutClose, and the pop after it.
DistinctKeys(f) == \A i, j \in DOMAIN f.keys : f.keys[i] = f.keys[j] => i = j
RelayoutClose(o, r) ==
  LET f == Inner(r)
      comma == IF o.trailingComma /\ ~o.strict THEN <<Mark(",")>> ELSE <<>>
  IN  IF ~DistinctKeys(f) THEN GiveUp(r)
      ELSE [want |-> "next", afterComma |-> FALSE, stack |-> Outer(r),
            out |-> r.out \o (IF f.children > 0 /\ f.multiline THEN comma \o Break ELSE <<>>)
                      \o <<Mark(IF f.object THEN "}" ELSE "]")>>]

\* The cases that call relayoutClose.
EndsAt(r, t) ==
  CASE r.want = "key" -> t.k = "}" /\ ~r.afterComma
    [] r.want = "value" -> t.k = "]" /\ InList(r) /\ ~r.afterComma
    [] r.want = "next" -> r.stack # <<>> /\ t.k = (IF Inner(r).object THEN "}" ELSE "]")
    [] OTHER -> FALSE

RelayoutKey(r, t, i) ==
  IF t.k # "str" THEN GiveUp(r)
  ELSE LET child == RelayoutChild(r)
       IN  [child EXCEPT !.want = "colon", !.out = Append(@, Piece(t, <<i>>)),
                         !.stack = Append(Outer(child), [Inner(child) EXCEPT !.keys = Append(@, t.v)])]

RelayoutValue(o, r, t, i) ==
  LET child == IF InList(r) THEN RelayoutChild(r) ELSE r
      written == [child EXCEPT !.out = Append(@, Piece(t, <<i>>))]
  IN  CASE t.k \in {"{", "["} /\ Len(r.stack) < MaxDepth ->
             [written EXCEPT !.want = IF t.k = "{" THEN "key" ELSE "value",
                             !.afterComma = FALSE, !.stack = Append(@, Opened(o, t))]
        [] t.k \in {"str", "scalar"} -> [written EXCEPT !.want = "next"]
        [] OTHER -> GiveUp(r)

\* One turn of the loop of relayoutTokens, with token i; relayoutScalar is the
\* same on a text of one token.
RelayoutStep(o, r, t, i) ==
  CASE r.want \in {"failed", "done"} \/ t.k = "nl" -> r
    [] t.k = "eof" -> IF r.want = "next" /\ r.stack = <<>> THEN [r EXCEPT !.want = "done"] ELSE GiveUp(r)
    [] EndsAt(r, t) -> RelayoutClose(o, r)
    [] r.want = "key" -> RelayoutKey(r, t, i)
    [] r.want = "colon" /\ t.k = ":" ->
         [r EXCEPT !.want = "value", !.afterComma = FALSE, !.out = Append(@, Mark(":"))]
    [] r.want = "value" -> RelayoutValue(o, r, t, i)
    [] r.want = "next" /\ r.stack # <<>> /\ t.k = "," ->
         [r EXCEPT !.want = IF Inner(r).object THEN "key" ELSE "value", !.afterComma = TRUE]
    [] OTHER -> GiveUp(r)

Relayout(o) ==
  LET after[i \in 0..At] ==
        IF i = 0 THEN RelayoutStart ELSE RelayoutStep(o, after[i - 1], input[i], i)
  IN  after[At]

-----------------------------------------------------------------------------
FormatInit ==
  /\ Init
  /\ opts \in Options /\ script = <<>> /\ source = <<>> /\ kept = {}

\* A parse takes a step; what it scans is any token of the first text, or
\* the next one written.
Parse ==
  /\ Next
  /\ Len(input') > At =>
       IF Rewritten THEN Last(input') = script[At + 1].t
       ELSE Last(input').k = "eof" \/ Explored(SourceBounds, Last(input'))
  /\ UNCHANGED <<opts, script, source, kept>>

TextsIn(slot) == UNION {Range(Lines(heap[n][slot])) : n \in DOMAIN heap}

\* newParser, for the text written.
Restart ==
  /\ input' = <<>> /\ have' = FALSE
  /\ pc' = "lead" /\ stack' = <<>>
  /\ heap' = <<>> /\ acc' = <<>> /\ val' = 0
  /\ depth' = 0 /\ keys' = 0 /\ nodes' = 0
  /\ warnings' = <<>>
  /\ result' = [kind |-> "none", at |-> 0]
  /\ lead' = <<>>

Encode ==
  /\ pc = "done" /\ ~Rewritten
  /\ script' = Encoded(opts)
  /\ source' = input
  /\ kept' = {a \in UNION {TextsIn(slot) : slot \in Slots} : ~IsBlankLine(a)}
  /\ Restart
  /\ UNCHANGED opts

FormatNext == Parse \/ Encode

FormatSpec == FormatInit /\ [][FormatNext]_fvars

-----------------------------------------------------------------------------
WrittenTokens == [i \in DOMAIN script |-> script[i].t]
Significant(s) == SelectSeq(s, LAMBDA t : ~IsBlankSpace(t) /\ t.k # ",")

RepeatsKey(s) ==
  \E i, j \in DOMAIN s : /\ i < j /\ IsKey(s, i) /\ IsKey(s, j)
                         /\ Around(s, i) = Around(s, j) /\ s[i].v = s[j].v

\* What the encoder writes is a text of the language, of strict JSON if it
\* is asked for, with the values and members of the first text in their
\* order; no line comment hides what comes after it.
OutputSound ==
  Rewritten =>
    /\ pc # "error"
    /\ input = <<>> =>
         /\ Viable(WrittenTokens, Len(script), opts.strict)
         /\ opts.strict => \A i \in DOMAIN script : ~IsComment(script[i].t)
         /\ \A i \in DOMAIN script : script[i].t.k = "line" => script[i + 1].t.k \in {"nl", "eof"}
         /\ ~RepeatsKey(source) => Significant(WrittenTokens) = Significant(source)

\* writeEmbedded has two ways to write what a Marshaler returned: relayout,
\* from the tokens, and the tree.  relayout takes exactly the plain JSON, gives
\* up on any other text no later than the parser refuses it, and writes what
\* the tree gives: "which writes the same output or reports the error".
RelayoutAgrees ==
  ~Rewritten /\ pc \in {"done", "error"} =>
    LET r == Relayout(opts)
        plain == /\ Viable(input, At, TRUE) /\ ~RepeatsKey(input)
                 /\ \A i \in DOMAIN input : ~IsComment(input[i])
    IN  /\ r.want = IF pc = "done" /\ plain THEN "done" ELSE "failed"
        /\ r.want = "done" => r.out = Written(opts)[Root]

\* A comment that is in the first tree is in the tree of the output, once
\* and in one place: what FuzzFormat expects, and that none is doubled.
CommentsKept ==
  Rewritten /\ pc = "done" /\ NodeComments(opts) =>
    \A a \in kept :
      Cardinality({x \in (DOMAIN heap) \X Slots : a \in Range(Lines(heap[x[1]][x[2]]))}) = 1

\* In the output, two comments stand after one value: the member's and its value's.
TwoOnALine == \E i \in 1..Len(script) - 1 : script[i].t.k = "block" /\ script[i + 1].t.k = "line"

\* Formatting the output again changes nothing, unless a member has a
\* comment and its value another, or the options drop comments: an empty
\* array that held only a comment is then written on two lines once.
StableElse ==
  Rewritten /\ pc = "done" /\ NodeComments(opts) /\ ~TwoOnALine => Encoded(opts) = script

=============================================================================
