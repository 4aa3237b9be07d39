------------------------------- MODULE Parser -------------------------------
(***************************************************************************)
(* The recursive-descent parser of parser.go, over the tokens the scanner  *)
(* hands out one at a time.                                                 *)
(*                                                                         *)
(* The Go call stack is the variable stack (one frame per open container,  *)
(* holding parseObject's and parseArray's locals) and pc, the place where  *)
(* the innermost call stands.  The *node tree is a heap of records indexed *)
(* by allocation order; 0 is the nil pointer.  A token is identified by    *)
(* its index in input, which also stands for its Position; the text of a   *)
(* comment is the sequence of the indexes of the comment tokens joined.    *)
(*                                                                         *)
(* The module has the actions of parseValue and of what it calls.          *)
(* Document (a one-shot parse) and Decoder (a stream of values) add their  *)
(* own entry points and state Init, Next and Spec.                         *)
(***************************************************************************)
EXTENDS Integers, Sequences, FiniteSets, SequencesExt

CONSTANTS
  Keys,                \* the keys that may occur, after unquoting
  Alphabet,            \* the tokens the scanner may return
  Bounds,              \* bound: the inputs explored, as sets of tokens with a length
  StrictJSON,          \* decoderOptions.strictJSON
  AllowDuplicateKeys,  \* decoderOptions.allowDuplicateKeys
  MaxDepth,            \* decoderOptions.maxDepth, 0 for no limit
  MaxKeys,             \* decoderOptions.maxKeys, 0 for no limit
  MaxNodes,            \* decoderOptions.maxNodes, 0 for no limit
  MemberIndexMin       \* the constant memberIndexMin (16 in the code)

NoText == "-"
Comments == {"line", "block"}
Openers == {"{", "["}
Closers == {"}", "]"}
Scalars == {"str", "scalar"}
Kinds == Comments \cup Openers \cup Closers \cup Scalars
           \cup {":", ",", "nl", "eof", "err"}

Token == [k : Kinds, v : Keys \cup {"text", "blank", NoText}]
Tok(kind) == [k |-> kind, v |-> NoText]
StrTok(key) == [k |-> "str", v |-> key]
CommentTok(kind, text) == [k |-> kind, v |-> text]

ASSUME AlphabetAssumption ==
  /\ Alphabet \subseteq Token
  /\ Tok("eof") \in Alphabet
  /\ \A t \in Alphabet : t.k = "str" => t.v \in Keys
  /\ \A t \in Alphabet : t.k \in Comments => t.v \in {"text", "blank"}
  /\ {"text", "blank", NoText} \cap Keys = {}
ASSUME OptionsAssumption ==
  /\ MaxDepth \in Nat /\ MaxKeys \in Nat /\ MaxNodes \in Nat
  /\ \A b \in Bounds : b.tokens \subseteq Alphabet /\ b.length \in Nat
  /\ MemberIndexMin \in Nat \ {0}
  /\ StrictJSON \in BOOLEAN /\ AllowDuplicateKeys \in BOOLEAN

VARIABLES
  input,     \* the tokens scanned so far
  have,      \* the last of them is the lookahead, not yet consumed
  pc,        \* where the innermost call stands
  stack,     \* one frame per container being parsed
  heap,      \* the nodes allocated so far
  acc,       \* the comments collectHeadComments has joined so far
  val,       \* the node a finished call returns to its caller
  depth, keys, nodes,  \* the counters behind the limits
  warnings,  \* the non-fatal messages
  result     \* how the parse ended

pvars == <<input, have, pc, stack, heap, acc, val, depth, keys, nodes, warnings, result>>

-----------------------------------------------------------------------------
(* The lookahead token. *)

At == Len(input)
Look == input[At]
Sees(kinds) == have /\ Look.k \in kinds
Bump == have' = FALSE

Peeks == pc \in {"lead", "value", "loop", "colon", "keyValue", "inline", "between",
                 "afterComma", "closed", "overNodes", "rootInline", "trail"}

\* The input with one more token is within the bounds.
Explored(bounds, t) == \E b \in bounds : At < b.length /\ Range(input) \cup {t} \subseteq b.tokens

\* The scanner's contract: a line comment ends at a line break or at the end
\* of the input, comments are errors in strict mode, and nothing follows the
\* end of the input or an error.
CanFollow(t) ==
  /\ t.k \notin {"eof", "err"} => Explored(Bounds, t)
  /\ At > 0 /\ Look.k = "line" => t.k \in {"nl", "eof"}
  /\ StrictJSON => t.k \notin Comments

\* peek, when no lookahead is held: the scanner produces the next token.
Scan == \E t \in Alphabet :
  /\ ~have /\ Peeks
  /\ CanFollow(t)
  /\ input' = Append(input, t)
  /\ have' = TRUE
  /\ UNCHANGED <<pc, stack, heap, acc, val, depth, keys, nodes, warnings, result>>

\* A comment of blanks only carries nothing: its text is dropped.
NonBlank(text) == IF \E i \in DOMAIN text : input[text[i]].v # "blank" THEN text ELSE <<>>

-----------------------------------------------------------------------------
(* Nodes and frames. *)

NewNode(kind, key, pos) ==
  [kind |-> kind, key |-> key, pos |-> pos, children |-> <<>>, rawBytes |-> <<0, 0>>,
   headComment |-> <<>>, comment |-> <<>>, footComment |-> <<>>, trailComment |-> <<>>]

NewFrame(container) ==
  [node |-> container, pendingHead |-> <<>>, justConsumedComma |-> FALSE, removed |-> 0,
   indexed |-> FALSE, byKey |-> [k \in Keys |-> 0], key |-> NoText, keyPos |-> 0]

Top == stack[Len(stack)]
Container == heap[Top.node]
InObject == stack # <<>> /\ Container.kind = "object"
InArray == stack # <<>> /\ Container.kind = "array"
Current == Last(Container.children)   \* the member or element parsed last
SetTop(frame) == stack' = [stack EXCEPT ![Len(stack)] = frame]

\* slices.DeleteFunc over the children: the nil ones go, the others keep their order.
RemoveNil(children) ==
  LET live[i \in 0..Len(children)] ==
        IF i = 0 THEN <<>>
        ELSE IF children[i] = 0 THEN live[i - 1]
        ELSE Append(live[i - 1], children[i])
  IN  live[Len(children)]

\* Mutants: one off the limit, either way.
ExceedsEarly(n, limit) == limit > 0 /\ n >= limit
ExceedsLate(n, limit) == limit > 0 /\ n > limit + 1

Exceeds(n, limit) == limit > 0 /\ n > limit

\* An error return. A lookahead the scanner failed on takes over as the reason.
Stop(reason, at) ==
  /\ pc' = "error"
  /\ result' = IF Sees({"err"}) THEN [kind |-> "scan", at |-> At]
                                ELSE [kind |-> reason, at |-> at]
  /\ stack' = <<>>

\* enterDepth within the limit, and exitDepth.
EnterDepth == depth' = depth + 1
ExitDepth == depth' = depth - 1

\* An error return, with the deferred exitDepth of every open container.
Fail(reason, at) == Stop(reason, at) /\ depth' = depth - Len(stack)

\* bumpNodeCount: the call goes on at next, or is over the limit and reads
\* the lookahead for its error's position.
BumpNodeCount(next) ==
  /\ nodes' = nodes + 1
  /\ pc' = IF Exceeds(nodes + 1, MaxNodes) THEN "overNodes" ELSE next

OverNodes ==
  /\ pc = "overNodes" /\ have
  /\ Fail("nodes", At)
  /\ UNCHANGED <<input, have, heap, acc, val, keys, nodes, warnings>>

-----------------------------------------------------------------------------
(* Comments. *)

\* Mutant: a warning carries the position of the token before.
WarnedBefore(kind, at) == Append(warnings, [kind |-> kind, at |-> at - 1])

\* warnf.
Warned(kind, at) == Append(warnings, [kind |-> kind, at |-> at])

\* collectHeadComments: one comment or line break.
CollectHeadComments ==
  /\ pc \in {"lead", "loop", "between"}
  /\ Sees(Comments \cup {"nl"})
  /\ acc' = IF Look.k = "nl" THEN acc ELSE Append(acc, At)
  /\ Bump
  /\ UNCHANGED <<input, pc, stack, heap, val, depth, keys, nodes, warnings, result>>

\* skipDroppedComments: between a key and its ':' or its value.
SkipDroppedComments ==
  /\ pc \in {"colon", "keyValue"}
  /\ Sees(Comments \cup {"nl"})
  /\ warnings' = IF Look.k = "nl" THEN warnings ELSE Warned("dropped", At)
  /\ Bump
  /\ UNCHANGED <<input, pc, stack, heap, acc, val, depth, keys, nodes, result>>

\* Mutant: a blank comment is kept.
InlineEvenBlank == IF Look.k \in Comments THEN <<At>> ELSE <<>>

\* collectTrailingInlineComment: what it returns, and whether it consumes.
Inline == IF Look.k \in Comments THEN NonBlank(<<At>>) ELSE <<>>
TakeInline == have' = (Look.k \notin Comments)

\* attachAfterComma.
Attach(h, n, text) ==
  IF h[n].comment = <<>> THEN [h EXCEPT ![n].comment = text]
  ELSE [h EXCEPT ![n].footComment = @ \o text]

-----------------------------------------------------------------------------
(* parseValue. *)

ExpectsValue ==
  /\ \/ pc \in {"value", "keyValue"}
     \/ pc = "loop" /\ InArray
  /\ have /\ Look.k \notin Comments \cup {"nl"}

\* The head comment collected before an array element waits in the frame.
HoldHead ==
  IF pc = "loop" THEN [stack EXCEPT ![Len(stack)].pendingHead = NonBlank(acc)] ELSE stack

ParseScalar ==
  /\ ExpectsValue /\ Look.k \in Scalars
  /\ heap' = Append(heap, NewNode("scalar", NoText, At))
  /\ val' = Len(heap) + 1
  /\ stack' = HoldHead
  /\ acc' = <<>>
  /\ Bump
  /\ BumpNodeCount("return")
  /\ UNCHANGED <<input, depth, keys, warnings, result>>

\* parseObject and parseArray up to their loop.
OpenContainer ==
  /\ ExpectsValue /\ Look.k \in Openers
  /\ ~Exceeds(depth + 1, MaxDepth)
  /\ EnterDepth
  /\ heap' = Append(heap, NewNode(IF Look.k = "{" THEN "object" ELSE "array", NoText, At))
  /\ stack' = Append(HoldHead, NewFrame(Len(heap) + 1))
  /\ acc' = <<>>
  /\ Bump
  /\ BumpNodeCount("loop")
  /\ UNCHANGED <<input, val, keys, warnings, result>>

\* enterDepth over the limit: it has counted the container it refuses.
TooDeep ==
  /\ ExpectsValue /\ Look.k \in Openers
  /\ Exceeds(depth + 1, MaxDepth)
  /\ Stop("depth", At)
  /\ depth' = depth + 1 - Len(stack)
  /\ UNCHANGED <<input, have, heap, acc, val, keys, nodes, warnings>>

\* parseArray looks for the closing bracket before it parses an element.
ClosesInstead == pc = "loop" /\ Look.k = "]"

NotAValue ==
  /\ ExpectsValue
  /\ Look.k \notin Scalars \cup Openers
  /\ ~ClosesInstead
  /\ Fail("syntax", At)
  /\ UNCHANGED <<input, have, heap, acc, val, keys, nodes, warnings>>

-----------------------------------------------------------------------------
(* The closing delimiter. *)

\* Mutant: either delimiter closes either container.
SeesAnyClose == Sees(Closers)

SeesClose == (InObject /\ Sees({"}"})) \/ (InArray /\ Sees({"]"}))

AtClose == pc = "loop" /\ SeesClose

\* Mutant: strict mode also refuses an empty container.
TrailingCommaOrEmpty == StrictJSON /\ (Top.justConsumedComma \/ Container.children = <<>>)

TrailingComma == StrictJSON /\ Top.justConsumedComma

StrictTrailingComma ==
  /\ AtClose /\ TrailingComma
  /\ Fail("strict", At)
  /\ UNCHANGED <<input, have, heap, acc, val, keys, nodes, warnings>>

\* Mutant: rawBytes stops before the closing delimiter.
ShortSpan == <<Container.pos, At - 1>>

Span == <<Container.pos, At>>

CloseContainer ==
  /\ AtClose /\ ~TrailingComma
  /\ heap' = [heap EXCEPT ![Top.node].children =
                             IF Top.removed > 0 THEN RemoveNil(@) ELSE @,
                          ![Top.node].footComment = @ \o NonBlank(acc),
                          ![Top.node].rawBytes = Span]
  /\ acc' = <<>>
  /\ pc' = "closed"
  /\ Bump
  /\ UNCHANGED <<input, stack, val, depth, keys, nodes, warnings, result>>

\* The container's own same-line comment; the call returns.
ReturnContainer ==
  /\ pc = "closed" /\ have
  /\ heap' = [heap EXCEPT ![Top.node].comment = Inline]
  /\ TakeInline
  /\ val' = Top.node
  /\ stack' = Front(stack)
  /\ ExitDepth
  /\ pc' = "return"
  /\ UNCHANGED <<input, acc, keys, nodes, warnings, result>>

-----------------------------------------------------------------------------
(* Array elements. *)

AppendElement ==
  /\ pc = "return" /\ InArray
  /\ heap' = [heap EXCEPT ![val].headComment = @ \o Top.pendingHead,
                          ![Top.node].children = Append(@, val)]
  /\ SetTop([Top EXCEPT !.pendingHead = <<>>, !.justConsumedComma = FALSE])
  /\ pc' = "inline"
  /\ UNCHANGED <<input, have, acc, val, depth, keys, nodes, warnings, result>>

-----------------------------------------------------------------------------
(* Object members. *)

ParseKey ==
  /\ pc = "loop" /\ InObject /\ Sees({"str"})
  /\ SetTop([Top EXCEPT !.pendingHead = NonBlank(acc), !.key = Look.v, !.keyPos = At])
  /\ acc' = <<>>
  /\ pc' = "colon"
  /\ Bump
  /\ UNCHANGED <<input, heap, val, depth, keys, nodes, warnings, result>>

NotAKey ==
  /\ pc = "loop" /\ InObject /\ have
  /\ Look.k \notin Comments \cup {"nl", "str", "}"}
  /\ Fail("syntax", At)
  /\ UNCHANGED <<input, have, heap, acc, val, keys, nodes, warnings>>

ParseColon ==
  /\ pc = "colon" /\ Sees({":"})
  /\ pc' = "keyValue"
  /\ Bump
  /\ UNCHANGED <<input, stack, heap, acc, val, depth, keys, nodes, warnings, result>>

NotAColon ==
  /\ pc = "colon" /\ have
  /\ Look.k \notin Comments \cup {"nl", ":"}
  /\ Fail("syntax", At)
  /\ UNCHANGED <<input, have, heap, acc, val, keys, nodes, warnings>>

Member == [NewNode("member", Top.key, Top.keyPos) EXCEPT
             !.headComment = Top.pendingHead, !.children = <<val>>]

\* parseMember returns: the value is in val, its member node is allocated.
MakeMember ==
  /\ pc = "return" /\ InObject
  /\ heap' = Append(heap, Member)
  /\ val' = Len(heap) + 1
  /\ BumpNodeCount("insert")
  /\ UNCHANGED <<input, have, stack, acc, depth, keys, warnings, result>>

\* The places of the live members named key among children.
PlacesOf(children, key) == {i \in DOMAIN children : children[i] # 0 /\ heap[children[i]].key = key}
FirstOf(S) == IF \E i \in S : \A j \in S : i <= j THEN CHOOSE i \in S : \A j \in S : i <= j ELSE 0
LastOf(S) == IF \E i \in S : \A j \in S : j <= i THEN CHOOSE i \in S : \A j \in S : j <= i ELSE 0

\* memberIndex.find: the place of the member named key among children, or 0.
Find(children, frame, key) ==
  IF frame.indexed THEN frame.byKey[key] ELSE FirstOf(PlacesOf(children, key))

\* Mutant: the index holds the place before the member's.
AddToIndexShort(children, frame) ==
  IF frame.indexed THEN [frame EXCEPT !.byKey[heap[val].key] = Len(children) - 1]
  ELSE IF Len(children) < MemberIndexMin THEN frame
  ELSE [frame EXCEPT !.indexed = TRUE,
                     !.byKey = [k \in Keys |-> LastOf(PlacesOf(children, k))]]

\* memberIndex.add: frame once the member val is the last of children.
AddToIndex(children, frame) ==
  IF frame.indexed THEN [frame EXCEPT !.byKey[heap[val].key] = Len(children)]
  ELSE IF Len(children) < MemberIndexMin THEN frame
  ELSE [frame EXCEPT !.indexed = TRUE,
                     !.byKey = [k \in Keys |-> LastOf(PlacesOf(children, k))]]

Duplicate == Find(Container.children, Top, heap[val].key)

RefuseDuplicate ==
  /\ pc = "insert" /\ Duplicate > 0 /\ ~AllowDuplicateKeys
  /\ Fail("duplicate", Top.keyPos)
  /\ UNCHANGED <<input, have, heap, acc, val, keys, nodes, warnings>>

\* The earlier member of the same key becomes nil; the new one goes last.
Superseding(children, i) ==
  Append(IF i = 0 THEN children ELSE [children EXCEPT ![i] = 0], val)

InsertMember ==
  /\ pc = "insert" /\ (Duplicate > 0 => AllowDuplicateKeys)
  /\ LET i == Duplicate
         children == Superseding(Container.children, i)
         found == [Top EXCEPT !.removed = IF i = 0 THEN @ ELSE @ + 1,
                              !.pendingHead = <<>>, !.justConsumedComma = FALSE]
     IN  /\ heap' = [heap EXCEPT ![Top.node].children = children]
         /\ warnings' = IF i = 0 THEN warnings ELSE Warned("duplicate", Top.keyPos)
         /\ keys' = keys + 1
         /\ IF Exceeds(keys + 1, MaxKeys)
            THEN Fail("keys", Top.keyPos)
            ELSE /\ SetTop(AddToIndex(children, found))
                 /\ pc' = "inline"
                 /\ UNCHANGED <<depth, result>>
  /\ UNCHANGED <<input, have, acc, val, nodes>>

-----------------------------------------------------------------------------
(* After a member or an element. *)

\* Its same-line comment replaces the one it has.
InlineComment ==
  /\ pc = "inline" /\ have
  /\ heap' = IF Inline = <<>> THEN heap ELSE [heap EXCEPT ![Current].comment = Inline]
  /\ TakeInline
  /\ pc' = "between"
  /\ UNCHANGED <<input, stack, acc, val, depth, keys, nodes, warnings, result>>

Separator ==
  /\ pc = "between" /\ Sees({","})
  /\ heap' = [heap EXCEPT ![Current].footComment = @ \o NonBlank(acc)]
  /\ SetTop([Top EXCEPT !.justConsumedComma = TRUE])
  /\ acc' = <<>>
  /\ pc' = "afterComma"
  /\ Bump
  /\ UNCHANGED <<input, val, depth, keys, nodes, warnings, result>>

CloseAhead ==
  /\ pc = "between" /\ SeesClose
  /\ heap' = [heap EXCEPT ![Top.node].footComment = @ \o NonBlank(acc)]
  /\ acc' = <<>>
  /\ pc' = "loop"
  /\ UNCHANGED <<input, have, stack, val, depth, keys, nodes, warnings, result>>

NotASeparator ==
  /\ pc = "between" /\ have
  /\ Look.k \notin Comments \cup {"nl", ",", IF InObject THEN "}" ELSE "]"}
  /\ Fail("syntax", At)
  /\ UNCHANGED <<input, have, heap, acc, val, keys, nodes, warnings>>

AttachAfterComma ==
  /\ pc = "afterComma" /\ have
  /\ heap' = Attach(heap, Current, Inline)
  /\ TakeInline
  /\ pc' = "loop"
  /\ UNCHANGED <<input, stack, acc, val, depth, keys, nodes, warnings, result>>

-----------------------------------------------------------------------------
ParseValue ==
  \/ Scan \/ OverNodes
  \/ ParseScalar \/ OpenContainer \/ TooDeep \/ NotAValue
  \/ CollectHeadComments \/ SkipDroppedComments
  \/ StrictTrailingComma \/ CloseContainer \/ ReturnContainer
  \/ AppendElement
  \/ ParseKey \/ NotAKey \/ ParseColon \/ NotAColon
  \/ MakeMember \/ RefuseDuplicate \/ InsertMember
  \/ InlineComment \/ Separator \/ CloseAhead \/ NotASeparator \/ AttachAfterComma

ParserInit ==
  /\ input = <<>> /\ have = FALSE
  /\ pc = "lead" /\ stack = <<>>
  /\ heap = <<>> /\ acc = <<>> /\ val = 0
  /\ depth = 0 /\ keys = 0 /\ nodes = 0
  /\ warnings = <<>>
  /\ result = [kind |-> "none", at |-> 0]

Text == Seq(Nat)
PcValues == {"lead", "value", "loop", "colon", "keyValue", "return", "insert", "inline",
             "between", "afterComma", "closed", "overNodes", "rootInline", "trail",
             "idle", "error", "done"}
Node == [kind : {"object", "array", "member", "scalar"}, key : Keys \cup {NoText},
         pos : Nat, children : Seq(Nat), rawBytes : Nat \X Nat,
         headComment : Text, comment : Text, footComment : Text, trailComment : Text]
Frame == [node : Nat, pendingHead : Text, justConsumedComma : BOOLEAN, removed : Nat,
          indexed : BOOLEAN, byKey : [Keys -> Nat], key : Keys \cup {NoText}, keyPos : Nat]

Warning == [kind : {"dropped", "duplicate"}, at : Nat]
Outcome == [kind : {"none", "ok", "scan", "syntax", "strict", "duplicate",
                    "depth", "nodes", "keys"}, at : Nat]

\* Every variable has its type: the heap holds nodes, the stack frames.
ParserTypeOK ==
  /\ input \in Seq(Alphabet) /\ have \in BOOLEAN
  /\ pc \in PcValues
  /\ heap \in Seq(Node) /\ stack \in Seq(Frame)
  /\ acc \in Text /\ val \in 0..Len(heap)
  /\ depth \in Nat /\ keys \in Nat /\ nodes \in Nat
  /\ warnings \in Seq(Warning)
  /\ result \in Outcome

\* p.depth follows the open containers through every early return, p.nodes
\* the nodes allocated, and no work is done past any of the limits
\* (enterDepth, exitDepth, bumpNodeCount and parseObject's key count).
LimitsHold ==
  /\ pc # "error" => depth = Len(stack)
  /\ nodes = Len(heap)
  /\ MaxDepth > 0 => Len(stack) <= MaxDepth
  /\ MaxNodes > 0 /\ pc \notin {"overNodes", "error"} => nodes <= MaxNodes
  /\ MaxKeys > 0 /\ pc # "error" => keys <= MaxKeys
=============================================================================
