------------------------------- MODULE Encoder -------------------------------
(***************************************************************************)
(* The reflection encoder of encode.go: one call of encode, which walks a    *)
(* graph of Go values and writes it as JSONC.                                *)
(*                                                                         *)
(* A node of the graph is a Go value with the values it leads to.  The Go    *)
(* call stack is the variable stack: one frame for each pointer, map, slice, *)
(* array and struct being encoded.  A path is the sequence of the children   *)
(* taken, which stands for the names and indexes of currentPath.             *)
(***************************************************************************)
EXTENDS JWCC, SequencesExt

CONSTANTS
  Inputs,           \* the values, options and comments a call is given
  CycleCheckDepth   \* the constant cycleCheckDepth (1000 in the code)

\* Kinds of values: what has no children, what refers to others by reference,
\* and the structs and arrays that hold their children in place.
Leaves == {"nil", "scalar", "unsupported"}
Lists == {"slice", "array"}
Objects == {"map", "mapslice", "badmap", "struct"}
Containers == Lists \cup Objects

Kinds == Leaves \cup Containers \cup {"pointer", "interface"}

ASSUME InputsAssumption ==
  /\ CycleCheckDepth \in Nat
  /\ \A g \in Inputs :
       /\ g.root \in DOMAIN g.nodes
       /\ \A n \in DOMAIN g.nodes : LET node == g.nodes[n] IN
            /\ node.kind \in Kinds /\ ToSet(node.kids) \subseteq DOMAIN g.nodes
            /\ node.kind \in {"pointer", "interface"} => Len(node.kids) = 1
            /\ node.kind \in Leaves => node.kids = <<>>

VARIABLES
  go,       \* the input: nodes, root, comments and the encoder options
  pc,       \* where the innermost call stands
  val,      \* the value encodeValue was called with
  stack,    \* one frame per pointer and container being encoded
  visited,  \* the pointers on the stack, and the maps and slices below CycleCheckDepth
  nesting,  \* the maps and slices on the stack
  path,     \* the child of each container that is being encoded
  out       \* what has been written

vars == <<go, pc, val, stack, visited, nesting, path, out>>

Node(n) == go.nodes[n]
Top == Last(stack)
Outer == Front(stack)

-----------------------------------------------------------------------------
(* Output: pieces, each with its path and the role it plays there. *)

Piece(kind, at, role) == [k |-> kind, at |-> at, role |-> role, n |-> 0]
Break == <<Piece("nl", <<>>, "mark")>>
Comment(kind, at, role, n) == [k |-> kind, at |-> at, role |-> role, n |-> n]

\* multi: multiline, or the arrayMultiline option for lists.
Multi(n) == go.indent \/ (Node(n).kind \in Lists /\ go.arrayMultiline)
\* Where commentsAt and the callers that write comments let one through.
WritesComments == go.indent /\ ~go.strict

\* commentsAt: the comments of a path and a position, in their order.
CommentsAt(at, pos) ==
  IF ~WritesComments THEN <<>>
  ELSE SelectSeq([i \in DOMAIN go.comments |-> i],
                 LAMBDA i : go.comments[i].path = at /\ go.comments[i].pos = pos)

\* writeCommentBlock: each line a comment and a line break; blank lines first are left out.
CommentBlock(at, pos) ==
  FlattenSeq([j \in DOMAIN CommentsAt(at, pos) |->
    LET n == CommentsAt(at, pos)[j]
        line == <<Comment("line", at, pos, n)>> \o Break
    IN  CASE go.comments[n].text = "blank" -> <<>>
          [] go.comments[n].text = "single" -> line
          [] go.comments[n].text = "multi" -> line \o line])

\* emitInlineComments: each by writeInlineComment.
InlineComments(at) ==
  [j \in DOMAIN CommentsAt(at, "line") |->
    LET n == CommentsAt(at, "line")[j]
    IN  Comment(IF go.comments[n].text = "multi" THEN "block" ELSE "line", at, "line", n)]

-----------------------------------------------------------------------------
(* Containers. *)

IsEmpty(n) == Node(n).kind = "nil" \/ (Node(n).kind \in {"slice", "array", "map", "mapslice"} /\ Node(n).kids = <<>>)

\* The children written: of a struct, those shouldOmit keeps.
Emits(n) ==
  SelectSeq([i \in DOMAIN Node(n).kids |-> i],
            LAMBDA i : Node(n).kind = "struct" => ~(go.omitEmpty /\ IsEmpty(Node(n).kids[i])))

CommentedOut(n, i) == Node(n).kind = "struct" /\ Node(n).tags[i] = "commented" /\ WritesComments

\* lastActive, as a place among the children written.
LastActive(n) == Largest({j \in DOMAIN Emits(n) : ~CommentedOut(n, Emits(n)[j])})

NoKey == [kind |-> "none", ptr |-> 0, len |-> 0]
KeyOf(n) ==
  CASE Node(n).kind = "pointer" -> [kind |-> "pointer", ptr |-> go.addr[Node(n).kids[1]], len |-> 0]
    [] Node(n).kind \in {"slice", "mapslice"} -> [kind |-> "slice", ptr |-> n, len |-> Len(Node(n).kids)]
    [] OTHER -> [kind |-> "map", ptr |-> n, len |-> 0]

\* The containers that go through enterContainer.
Entered(n) == Node(n).kind \in {"slice", "map", "mapslice", "badmap"}
ChecksEntry(n) == Entered(n) /\ nesting + 1 > CycleCheckDepth

\* The key a container's frame holds: the zero key where nothing was recorded.
EntryKey(n) == IF ChecksEntry(n) THEN KeyOf(n) ELSE NoKey

Frame(n, key) == [node |-> n, key |-> key, next |-> 1, start |-> 0, foot |-> FALSE]

-----------------------------------------------------------------------------
(* encodeValue. *)

\* What is written at once: null, a scalar, an empty container.
WriteLeaf ==
  LET kind == Node(val).kind
  IN  /\ pc = "value"
      /\ kind # "badmap"
      /\ kind \in {"nil", "scalar"} \/ (kind \in Containers /\ Emits(val) = <<>>)
      /\ out' = out \o
           CASE kind \in Lists -> <<Piece("[", path, "value"), Piece("]", path, "mark")>>
             [] kind \in Objects -> <<Piece("{", path, "value"), Piece("}", path, "mark")>>
             [] OTHER -> <<Piece("scalar", path, "value")>>
      /\ pc' = "return"
      /\ UNCHANGED <<go, val, stack, visited, nesting, path>>

\* Channels and functions; a map whose keys have no text; a cycle.
Refused ==
  \/ Node(val).kind \in {"unsupported", "badmap"}
  \/ Node(val).kind = "pointer" /\ KeyOf(val) \in visited
  \/ ChecksEntry(val) /\ KeyOf(val) \in visited

\* Every function on the stack returns the error.
Refuse ==
  /\ pc = "value" /\ Refused
  /\ pc' = "failing"
  /\ UNCHANGED <<go, val, stack, visited, nesting, path, out>>

EncodePointer ==
  /\ pc = "value" /\ Node(val).kind = "pointer" /\ ~Refused
  /\ visited' = visited \cup {KeyOf(val)}
  /\ stack' = Append(stack, Frame(val, KeyOf(val)))
  /\ val' = Node(val).kids[1]
  /\ UNCHANGED <<go, pc, nesting, path, out>>

EncodeInterface ==
  /\ pc = "value" /\ Node(val).kind = "interface"
  /\ val' = Node(val).kids[1]
  /\ UNCHANGED <<go, pc, stack, visited, nesting, path, out>>

\* encodeMap, encodeMapSlice, encodeStruct and encodeListLike, up to the loop.
OpenContainer ==
  /\ pc = "value" /\ Node(val).kind \in Containers /\ Emits(val) # <<>> /\ ~Refused
  /\ nesting' = IF Entered(val) THEN nesting + 1 ELSE nesting
  /\ visited' = IF ChecksEntry(val) THEN visited \cup {KeyOf(val)} ELSE visited
  /\ stack' = Append(stack, Frame(val, EntryKey(val)))
  /\ out' = out \o <<Piece(IF Node(val).kind \in Lists THEN "[" ELSE "{", path, "value")>>
                \o (IF Multi(val) THEN Break ELSE <<>>)
  /\ pc' = "child"
  /\ UNCHANGED <<go, val, path>>

-----------------------------------------------------------------------------
(* The loop over the children. *)

Child == Emits(Top.node)[Top.next]
IsLast == Top.next = Len(Emits(Top.node))

\* Up to the child's own encodeValue: comments, the key, and the start of a
\* member that is commented out.
StartChild ==
  LET n == Top.node
      at == Append(path, Child)
      tag == IF Node(n).kind = "struct" /\ Node(n).tags[Child] = "comment" /\ WritesComments
             THEN <<Comment("line", at, "tag", 0)>> \o Break ELSE <<>>
      before == out \o CommentBlock(at, "head") \o tag
      name == IF Node(n).kind \in Lists THEN <<>> ELSE <<Piece("str", at, "key"), Piece(":", at, "mark")>>
  IN  /\ pc = "child"
      /\ path' = at
      /\ out' = before \o name
      /\ stack' = Append(Outer, [Top EXCEPT !.start = Len(before)])
      /\ val' = Node(n).kids[Child]
      /\ pc' = "value"
      /\ UNCHANGED <<go, visited, nesting>>

\* Mutant: the comma is left out before a commented member.
CommaBeforeActive(f) ==
  IF f.next < Len(Emits(f.node)) /\ ~CommentedOut(f.node, Emits(f.node)[f.next + 1])
  THEN <<Piece(",", path, "mark")>> ELSE <<>>

\* After the last active child a comma only as the option asks.
Comma(f) ==
  IF f.next < LastActive(f.node) \/ (Multi(f.node) /\ go.trailingComma /\ ~go.strict)
  THEN <<Piece(",", path, "mark")>> ELSE <<>>

\* Mutant: the line comments of a commented member are written too.
LineAlways(f) ==
  IF CommentedOut(f.node, Emits(f.node)[f.next])
  THEN SubSeq(out, 1, f.start) \o <<Comment("block", path, "member", 0)>> \o InlineComments(path)
  ELSE out \o Comma(f) \o InlineComments(path)

\* The child with what follows it on its line: a commented member becomes one comment.
Line(f) ==
  IF CommentedOut(f.node, Emits(f.node)[f.next])
  THEN SubSeq(out, 1, f.start) \o <<Comment("block", path, "member", 0)>>
  ELSE out \o Comma(f) \o InlineComments(path)

\* Mutant: the path keeps the child when there are no foot comments.
PathAfterFeet == IF CommentsAt(path, "foot") = <<>> /\ Len(path) > 1 THEN path ELSE Front(path)

\* popPath.
PathAfter == Front(path)

EndChild ==
  LET feet == CommentsAt(path, "foot")
      ends == Multi(Top.node) /\ (~IsLast \/ feet # <<>>)
  IN  /\ pc = "return" /\ stack # <<>> /\ Node(Top.node).kind \in Containers
      /\ out' = Line(Top) \o (IF ends THEN Break ELSE <<>>) \o CommentBlock(path, "foot")
      /\ path' = PathAfter
      /\ stack' = Append(Outer, [node |-> Top.node, key |-> Top.key, start |-> Top.start,
                                next |-> IF IsLast THEN Top.next ELSE Top.next + 1,
                                foot |-> IsLast /\ feet # <<>>])
      /\ pc' = IF IsLast THEN "close" ELSE "child"
      /\ UNCHANGED <<go, val, visited, nesting>>

\* Mutant: the key of a pointer stays.
LeftContainers(f) == IF f.key.kind = "pointer" THEN visited ELSE visited \ {f.key}

\* leaveContainer, and the deferred delete of encodePointer.
Left(f) == visited \ {f.key}

CloseContainer ==
  LET n == Top.node
  IN  /\ pc = "close"
      /\ out' = out \o (IF Multi(n) /\ ~Top.foot THEN Break ELSE <<>>)
                    \o <<Piece(IF Node(n).kind \in Lists THEN "]" ELSE "}", path, "mark")>>
      /\ visited' = Left(Top)
      /\ nesting' = IF Entered(n) THEN nesting - 1 ELSE nesting
      /\ stack' = Outer
      /\ pc' = "return"
      /\ UNCHANGED <<go, val, path>>

ReturnPointer ==
  /\ pc = "return" /\ stack # <<>> /\ Node(Top.node).kind = "pointer"
  /\ visited' = Left(Top)
  /\ stack' = Outer
  /\ UNCHANGED <<go, pc, val, nesting, path, out>>

\* An error takes every frame with it: popPath and the deferred calls.
Unwind ==
  /\ pc = "failing" /\ stack # <<>>
  /\ visited' = Left(Top)
  /\ nesting' = IF Entered(Top.node) THEN nesting - 1 ELSE nesting
  /\ path' = IF Node(Top.node).kind = "pointer" THEN path ELSE Front(path)
  /\ stack' = Outer
  /\ UNCHANGED <<go, pc, val, out>>

Finish ==
  /\ pc \in {"return", "failing"} /\ stack = <<>>
  /\ pc' = IF pc = "return" THEN "done" ELSE "failed"
  /\ UNCHANGED <<go, val, stack, visited, nesting, path, out>>

Init ==
  /\ go \in Inputs
  /\ pc = "value" /\ val = go.root /\ stack = <<>>
  /\ visited = {} /\ nesting = 0 /\ path = <<>> /\ out = <<>>

Next ==
  \/ WriteLeaf \/ Refuse \/ EncodePointer \/ EncodeInterface \/ OpenContainer
  \/ StartChild \/ EndChild \/ CloseContainer \/ ReturnPointer \/ Unwind \/ Finish

Spec == Init /\ [][Next]_vars

\* encode is one sequential call: it keeps taking steps until it returns.
FairSpec == Spec /\ WF_vars(Next)

-----------------------------------------------------------------------------
(* What the graph says, without an encoder. *)

LeadsTo(n) == {Node(n).kids[Emits(n)[j]] : j \in DOMAIN Emits(n)}
Reached(from) ==
  LET within[i \in 0..Cardinality(DOMAIN go.nodes)] ==
        IF i = 0 THEN from
        ELSE LET nearer == within[i - 1] IN nearer \cup UNION {LeadsTo(n) : n \in nearer}
  IN  within[Cardinality(DOMAIN go.nodes)]
Below(n) == Reached(LeadsTo(n))
Cyclic == \E n \in Reached({go.root}) : n \in Below(n)
Encodable == ~Cyclic /\ \A n \in Reached({go.root}) : Node(n).kind \notin {"unsupported", "badmap"}

\* A struct and its first field share an address.
Aliased == \E n \in DOMAIN go.addr : go.addr[n] # n

\* Every call returns, also for a value that leads back to itself; with an
\* error if and only if the value cannot be encoded (encodePointer and
\* enterContainer, whose check begins late).  A struct and its first field
\* share an address, and may be taken for a cycle.
EncodeReturns ==
  <>((pc = "done" /\ Encodable) \/ (pc = "failed" /\ (Encodable => Aliased)))

\* The sets that guard against cycles and the path hold what the stack holds,
\* at every step and whatever returned early: a value met again beside its
\* first place is no cycle, and no comment is looked up at a stale path.
StackBalanced ==
  LET open == {i \in DOMAIN stack : Node(stack[i].node).kind \in Containers}
      taken == IF pc \in {"child", "close"} THEN open \ {Len(stack)} ELSE open
  IN  /\ visited = {stack[i].key : i \in DOMAIN stack} \ {NoKey}
      /\ nesting = Cardinality({i \in DOMAIN stack : Entered(stack[i].node)})
      /\ Len(path) = Cardinality(taken)
      /\ pc \in {"done", "failed"} => visited = {} /\ nesting = 0 /\ path = <<>>

\* The values in order, as the graph gives them: members that are commented
\* out are no part of the text.
Rendered ==
  LET of[n \in DOMAIN go.nodes] ==
        LET active == SelectSeq(Emits(n), LAMBDA i : ~CommentedOut(n, i))
            list == Node(n).kind \in Lists
        IN  CASE Node(n).kind \in {"pointer", "interface"} -> of[Node(n).kids[1]]
              [] Node(n).kind \in Leaves -> <<"scalar">>
              [] OTHER ->
                   <<IF list THEN "[" ELSE "{">>
                     \o FlattenSeq([j \in DOMAIN active |->
                          (IF list THEN <<>> ELSE <<"str", ":">>) \o of[Node(n).kids[active[j]]]])
                     \o <<IF list THEN "]" ELSE "}">>
  IN  of[go.root]

Significant(s) == SelectSeq([i \in DOMAIN s |-> s[i].k], LAMBDA k : k \notin {"line", "block", "nl", ","})

\* A line comment hides what follows it on its line.
Hidden(i) == out[i].k = "line" /\ i < Len(out) /\ out[i + 1].k # "nl"

\* The comment of one line before a comment of several, after one value.
HidesBlock(i) == Hidden(i) /\ out[i + 1].k = "block"

\* What is written is a text of the language, of strict JSON if it is asked
\* for, with the values of the graph in order: whatever comments, commented
\* members and options meet, no line comment hides a token (encodeStruct,
\* encodeListLike, encodeMap).  It may hide another comment: NothingHidden.
OutputIsValue ==
  pc = "done" =>
    LET text == Append(SelectSeq(out, LAMBDA t : ~IsBlankSpace(t)), Piece("eof", <<>>, "mark"))
    IN  /\ Viable(text, Len(text), go.strict)
        /\ go.strict => \A i \in DOMAIN out : ~IsComment(out[i])
        /\ Significant(out) = Rendered
        /\ \A i \in DOMAIN out : Hidden(i) => out[i + 1].k \in {"line", "block"}

\* The comment is above its value or member, on its line, or on the lines below it.
IsBeside(i) ==
  LET c == out[i]
      p == Before(out, i)
      after == {j \in i..Len(out) : out[j].role \notin {"head", "tag"} /\ out[j].k # "nl"}
      isMember(j) == out[j].role = "member" /\ out[j].at = c.at
      follows == IsPrefix(c.at, out[p].at) \/ \E j \in p..i : isMember(j)
      sameLine == \A j \in p..i : out[j].k # "nl"
  IN  CASE c.role \in {"head", "tag"} -> out[Min(after)].at = c.at /\ out[Min(after)].role \in {"key", "value", "member"}
        [] c.role = "line" -> follows /\ sameLine
        [] c.role = "foot" -> follows /\ ~sameLine

\* Each comment registered for a path is written once if the value there is,
\* where its position says: above the value, after it on its line, or below
\* it, also after the last child and next to a commented member.
CommentsBeside ==
  pc = "done" /\ WritesComments =>
    /\ \A i \in DOMAIN out : IsComment(out[i]) /\ out[i].role # "member" => IsBeside(i)
    /\ \A n \in DOMAIN go.comments :
         LET c == go.comments[n]
             written == {i \in DOMAIN out : out[i].n = n}
             at == {i \in DOMAIN out : out[i].at = c.path /\ out[i].role \in {"value", "key", "member"}}
             lines == IF c.pos = "line" THEN 1
                      ELSE CASE c.text = "blank" -> 0 [] c.text = "single" -> 1 [] c.text = "multi" -> 2
             active == \E i \in at : out[i].role # "member"
         IN  Cardinality(written) = IF at = {} \/ (c.pos = "line" /\ ~active) THEN 0 ELSE lines

-----------------------------------------------------------------------------
(* Said of the code, and not so. *)

\* encode.go:620: "embedded line terminators do not leak past the value".
NothingHidden == pc = "done" => \A i \in DOMAIN out : ~HidesBlock(i)

\* errors.go:257: the values that cannot be encoded are "Inf/NaN, channels,
\* functions, complex numbers, cyclic data, or an unsupported map key type".
RefusedOnlyIfCyclic == pc = "failed" => ~Encodable
=============================================================================
