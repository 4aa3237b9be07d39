--------------------------------- MODULE Path ---------------------------------
(***************************************************************************)
(* The queries of path.go on a heap of nodes, and the calls that change the  *)
(* tree they match: Replace, Append and Delete, one step per call.  A value  *)
(* may be the caller's own or a node of the tree itself, also one that an    *)
(* earlier call took out of it.                                              *)
(***************************************************************************)
EXTENDS Nodes

CONSTANTS
  Heap,      \* the nodes at the start: the tree and the caller's values
  Root,      \* the root of the tree
  Values,    \* the caller's values
  Parts,     \* nodes of the tree that the caller gives to the calls as values
  Paths,     \* the queries: sequences of segments
  MaxCalls   \* bound: calls made

Child(name) == [kind |-> "child", name |-> name, index |-> -1]
Index(index) == [kind |-> "index", name |-> None, index |-> index]
Wildcard == [kind |-> "wildcard", name |-> None, index |-> -1]
Recursive(name) == [kind |-> "recursive", name |-> name, index |-> -1]

ASSUME PathAssumption ==
  /\ Root \in DOMAIN Heap /\ Values \cup Parts \subseteq DOMAIN Heap
  /\ \A n \in DOMAIN Heap : \A c \in Kids(Heap, n) : c < n
  /\ MaxCalls \in Nat

VARIABLES
  heap,   \* the nodes
  call,   \* history: the last call, its arguments and its result
  count   \* calls made

vars == <<heap, call, count>>

-----------------------------------------------------------------------------
(* Queries. *)

\* The value of a member; any other node itself.
Unwrapped(h, n) == IF h[n].kind = "member" THEN h[n].kids[1] ELSE n

\* The element at a place counted from 0, if there is one.
Element(h, n, i) == IF i \in 0..Len(h[n].kids) - 1 THEN <<h[n].kids[i + 1]>> ELSE <<>>

\* childByName, and the array index of a JSON Pointer.
ChildByName(h, n, name) ==
  CASE h[n].kind = "object" /\ MemberNode(h, n, name) # 0 -> <<h[MemberNode(h, n, name)].kids[1]>>
    [] h[n].kind = "array" -> Element(h, n, ArrayIndex(name))
    [] OTHER -> <<>>

ValueChildren(h, n) == [i \in DOMAIN h[n].kids |-> Unwrapped(h, h[n].kids[i])]

\* Mutant: the search does not look below a member it has found.
CollectTopmost(h, n, name) ==
  LET found == SelectSeq(Walk(h, n), LAMBDA m : h[m].kind = "member" /\ h[m].key = name)
      top == SelectSeq(found, LAMBDA m : \A o \in ToSet(found) : o = m \/ m \notin Under(h, o))
  IN  [i \in DOMAIN top |-> h[top[i]].kids[1]]

\* collectRecursive: the values of the objects' members with this name below
\* n.  It does not look into a member that is an array's element.
CollectRecursive(h, n, name) ==
  LET OfObjects(m) == IF h[m].kind = "array" THEN SelectSeq(h[m].kids, LAMBDA c : h[c].kind # "member")
                      ELSE h[m].kids
      seen == [m \in DOMAIN h |-> [h[m] EXCEPT !.kids = OfObjects(m)]]
      walk == IF h[n].kind = "member" THEN <<>> ELSE Walk(seen, n)
      found == SelectSeq(walk, LAMBDA m : h[m].kind = "member" /\ h[m].key = name)
  IN  [i \in DOMAIN found |-> h[found[i]].kids[1]]

Select(h, n, seg) ==
  CASE seg.kind = "child" -> ChildByName(h, n, seg.name)
    [] seg.kind = "index" -> IF h[n].kind = "array" THEN Element(h, n, seg.index) ELSE <<>>
    [] seg.kind = "wildcard" -> ValueChildren(h, n)
    [] seg.kind = "recursive" -> CollectRecursive(h, n, seg.name)

ApplySegment(h, cur, seg) == FlattenSeq([i \in DOMAIN cur |-> Select(h, cur[i], seg)])

\* Path.Read: the nodes matched, in the order found and as often as found.
Read(h, path) ==
  LET read[i \in 0..Len(path)] == IF i = 0 THEN <<Root>> ELSE ApplySegment(h, read[i - 1], path[i])
  IN  read[Len(path)]

-----------------------------------------------------------------------------
(* Changes. *)

\* *n = *replacementNode(n, value); a member, matched as an array's element,
\* keeps its key.
Overwrite(h, n, value) ==
  LET replaced == Replacement(h, n, value)
  IN  IF h[n].kind = "member" THEN [Clone(h, value) EXCEPT ![n].kids = <<CloneOf(h, value)>>]
      ELSE [replaced EXCEPT ![n] = replaced[CloneOf(h, value)]]

OverwriteAll(h, matches, value) ==
  LET after[i \in 0..Len(matches)] == IF i = 0 THEN h ELSE Overwrite(after[i - 1], matches[i], value)
  IN  after[Len(matches)]

FitsInto(h, n, value) ==
  \/ h[n].kind = "object" /\ h[value].kind = "member"
  \/ h[n].kind = "array"

\* Mutant: the new child comes first.
AppendFirst(h, n, value) ==
  [Clone(h, value) EXCEPT ![n].kids = <<CloneOf(h, value)>> \o @]

AppendTo(h, n, value) ==
  [Clone(h, value) EXCEPT ![n].kids = Append(@, CloneOf(h, value))]

\* The matches before the first that value does not fit.
Fitting(h, matches, value) ==
  LET bad == {i \in DOMAIN matches : ~FitsInto(h, matches[i], value)}
  IN  IF bad = {} THEN matches ELSE SubSeq(matches, 1, FirstOf(bad) - 1)

AppendToAll(h, matches, value) ==
  LET after[i \in 0..Len(matches)] == IF i = 0 THEN h ELSE AppendTo(after[i - 1], matches[i], value)
  IN  after[Len(matches)]

\* mapNodeParents: the parent of each node of the tree, before any change.
ParentOf(h, n) == CHOOSE p \in Under(h, Root) : n \in Kids(h, p)

\* What goes for a match: a member with its value, an element by itself.
Doomed(h, n) ==
  IF h[ParentOf(h, n)].kind = "member" THEN ParentOf(h, n) ELSE n

\* findChild and the removal: n leaves the parent it had, if it is still there.
Take(h, old, n) == [h EXCEPT ![ParentOf(old, n)].kids = SelectSeq(@, LAMBDA c : c # n)]

\* Mutant: each goes from the place it had at the start, the first one first.
TakeAllByPlace(h, matches) ==
  LET after[i \in 0..Len(matches)] ==
        IF i = 0 THEN h
        ELSE LET n == Doomed(h, matches[i])
                 p == ParentOf(h, n)
                 place == IndexIn(h[p].kids, n)
                 now == after[i - 1]
             IN  IF place > Len(now[p].kids) THEN now ELSE [now EXCEPT ![p].kids = RemoveAt(@, place)]
  IN  after[Len(matches)]

\* The matches from the last to the first.
TakeAll(h, matches) ==
  LET after[i \in 1..Len(matches) + 1] ==
        IF i > Len(matches) THEN h ELSE Take(after[i + 1], h, Doomed(h, matches[i]))
  IN  after[1]

-----------------------------------------------------------------------------
NoCall == [name |-> "none", path |-> <<>>, value |-> 0, result |-> "ok"]
Called(name, path, value, result) ==
  /\ count < MaxCalls
  /\ count' = count + 1
  /\ call' = [name |-> name, path |-> path, value |-> value, result |-> result]

Init == heap = Heap /\ call = NoCall /\ count = 0

NotFound(name, path, value) ==
  /\ Read(heap, path) = <<>>
  /\ Called(name, path, value, "not found")
  /\ UNCHANGED heap

Replace(path, value) ==
  /\ Read(heap, path) # <<>>
  /\ Called("replace", path, value, "ok")
  /\ heap' = OverwriteAll(heap, Read(heap, path), value)

AppendValue(path, value) ==
  LET matches == Read(heap, path)
      fitting == Fitting(heap, matches, value)
  IN  /\ matches # <<>>
      /\ Called("append", path, value, IF fitting = matches THEN "ok" ELSE "refused")
      /\ heap' = AppendToAll(heap, fitting, value)

Delete(path) ==
  LET matches == Read(heap, path)
      refused == Root \in ToSet(matches)
  IN  /\ matches # <<>>
      /\ Called("delete", path, 0, IF refused THEN "refused" ELSE "ok")
      /\ heap' = IF refused THEN heap ELSE TakeAll(heap, matches)

\* A value given to Replace is no member, one given to Append may be.
Given == Values \cup Parts

Next ==
  \E path \in Paths :
    \/ \E value \in Given :
         \/ heap[value].kind # "member" /\ (Replace(path, value) \/ NotFound("replace", path, value))
         \/ AppendValue(path, value) \/ NotFound("append", path, value)
    \/ Delete(path) \/ NotFound("delete", path, 0)

Spec == Init /\ [][Next]_vars

-----------------------------------------------------------------------------
\* Whatever is put where, also a part of the tree into itself, the tree stays
\* a tree, of objects whose children are members of one value each; none of
\* its nodes is the caller's, and no call writes to those.
TreesApart ==
  /\ IsTree(heap, Root)
  /\ \A n \in Under(heap, Root) :
       /\ heap[n].kind = "object" => \A c \in Kids(heap, n) : heap[c].kind = "member"
       /\ heap[n].kind = "member" => Len(heap[n].kids) = 1
  /\ \A v \in Values : /\ Under(heap, Root) \cap Under(heap, v) = {}
                       /\ \A n \in Under(Heap, v) : heap[n] = Heap[n]

\* How the tree leads to a node: the keys and places from the root to it.
StepInto(h, p, c) ==
  IF h[p].kind = "object" THEN Child(h[c].key) ELSE Index(IndexIn(h[p].kids, c) - 1)
WayTo(h, n) ==
  LET up[m \in DOMAIN h] ==
        IF m = Root THEN <<>>
        ELSE LET p == ParentOf(h, m)
             IN  IF h[p].kind = "member" THEN up[p] ELSE Append(up[p], StepInto(h, p, m))
  IN  up[n]
OneStep(seg, step) ==
  CASE seg.kind = "child" -> step = seg \/ (step.kind = "index" /\ step.index = ArrayIndex(seg.name))
    [] seg.kind = "index" -> step = seg
    [] seg.kind = "wildcard" -> TRUE
    [] seg.kind = "recursive" -> step = Child(seg.name)
\* A way matches a path if it can be cut into one piece for each segment: of
\* any length for a recursive one, of one step for another.
WayMatches(way, path) ==
  \E cuts \in [0..Len(path) -> 0..Len(way)] :
    /\ cuts[0] = 0 /\ cuts[Len(path)] = Len(way)
    /\ \A i \in 1..Len(path) :
         /\ cuts[i] > cuts[i - 1]
         /\ path[i].kind # "recursive" => cuts[i] = cuts[i - 1] + 1
         /\ OneStep(path[i], way[cuts[i]])

\* Read finds the nodes whose way matches the path, and no others (with
\* members of one name, a name finds the first).
ReadFindsMatches ==
  LET nodes == {n \in Under(heap, Root) : heap[n].kind # "member"}
  IN  KeysUnique(heap, Root) /\ WellFormed(heap, Root) =>
        \A path \in Paths :
          ToSet(Read(heap, path)) = {n \in nodes : WayMatches(WayTo(heap, n), path)}

Matched(path) == ToSet(Read(heap, path))
Within(S) == UNION {Under(heap, n) : n \in S}
Succeeded(name) == call'.name = name /\ call'.result = "ok" /\ count' # count

\* Delete takes out every match, a member with its value, and nothing else:
\* nested matches, several in one container and matches found twice included.
DeleteExact ==
  [][Succeeded("delete") =>
       LET gone == Within({Doomed(heap, n) : n \in Matched(call'.path)})
       IN  /\ Under(heap', Root) = Under(heap, Root) \ gone
           /\ \A n \in Under(heap', Root) :
                heap'[n] = [heap[n] EXCEPT !.kids = SelectSeq(@, LAMBDA c : c \notin gone)]]_vars

\* Replace gives every match the value, in place, and changes nothing around
\* them; a match inside another goes with it.  The value is the one given if
\* no match lies inside it.
ReplacesExactly ==
  LET matched == Matched(call'.path)
      value == call'.value
      outer == {m \in matched : \A o \in matched : o = m \/ m \notin Under(heap, o)}
  IN  /\ \A n \in Under(heap, Root) \ Within(matched) : heap'[n] = heap[n]
      /\ matched \cap Under(heap, value) \subseteq {value} =>
           \A m \in outer : /\ Value(heap', m) = Value(heap, value)
                            /\ heap'[m].cmt = IF HasComments(heap, value) /\ heap[m].kind # "member"
                                              THEN heap[value].cmt ELSE heap[m].cmt

\* Append adds children at the end of matched containers, one for each time
\* the path finds the container, and changes nothing else, also when it
\* fails on the way; the children are copies of value if no match is inside it.
AppendsExactly ==
  \A n \in Under(heap, Root) :
    LET new == SubSeq(heap'[n].kids, Len(heap[n].kids) + 1, Len(heap'[n].kids))
        found == {i \in DOMAIN Read(heap, call'.path) : Read(heap, call'.path)[i] = n}
    IN  /\ heap[n] = [heap'[n] EXCEPT !.kids = SubSeq(@, 1, Len(heap[n].kids))]
        /\ Len(new) <= Cardinality(found)
        /\ call'.result = "ok" => Len(new) = Cardinality(found)
        /\ Matched(call'.path) \cap Under(heap, call'.value) = {} =>
             \A c \in ToSet(new) : Value(heap', c) = Value(heap, call'.value)

\* What Replace and Append put into the tree is where the path says, is a copy
\* of the value, and leaves all else alone (Path.Replace, Path.Append).
PutsExact ==
  [][/\ Succeeded("replace") => ReplacesExactly
     /\ call'.name = "append" /\ count' # count => AppendsExactly]_vars
=============================================================================
