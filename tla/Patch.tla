-------------------------------- MODULE Patch --------------------------------
(***************************************************************************)
(* Patch.Apply of patch.go on a heap of nodes: one step per operation.  A    *)
(* pointer is the sequence of its decoded tokens; BadToken stands for one    *)
(* that decodePointerToken refuses.  The operations of a patch are chosen    *)
(* one by one, so that every patch of MaxOps operations is applied.          *)
(***************************************************************************)
EXTENDS Nodes

CONSTANTS
  Heap,      \* the nodes of the caller: documents and operands
  Docs,      \* the roots to patch; 0 is nil
  PatchOps,  \* the operations: op, path, from and value, 0 for no value
  MaxOps     \* bound: operations of a patch

BadToken == "~"

ASSUME PatchAssumption ==
  /\ Docs \subseteq DOMAIN Heap \cup {0}
  /\ \A n \in DOMAIN Heap : n > 0 /\ \A c \in Kids(Heap, n) : c < n
  /\ \A o \in PatchOps : o.value \in DOMAIN Heap \cup {0}
  /\ MaxOps \in Nat

VARIABLES
  heap,    \* the nodes
  out,     \* Apply's out; 0 is nil
  status,  \* "applying", or "failed" once Apply has returned an error
  op,      \* history: the last operation
  count    \* operations applied

vars == <<heap, out, status, op, count>>

NoOp == [op |-> "none", path |-> <<>>, from |-> <<>>, value |-> 0]

-----------------------------------------------------------------------------
(* Pointers. *)

Malformed(path) == BadToken \in ToSet(path)

\* descend: the node one token below n, or 0 where the code has an error.
Descend(h, n, token) ==
  IF n = 0 THEN 0
  ELSE CASE h[n].kind = "object" /\ MemberNode(h, n, token) # 0 -> h[MemberNode(h, n, token)].kids[1]
         [] h[n].kind = "array" /\ ArrayIndex(token) \in 0..Len(h[n].kids) - 1 ->
              h[n].kids[ArrayIndex(token) + 1]
         [] OTHER -> 0

\* resolveTarget and resolveParent.
ResolveTarget(h, root, path) == FoldLeft(LAMBDA n, token : Descend(h, n, token), root, path)
ResolveParent(h, root, path) == IF path = <<>> THEN 0 ELSE ResolveTarget(h, root, Front(path))

-----------------------------------------------------------------------------
(* Operations: the heap and the root they leave, or an error. *)

Done(h, root) == [ok |-> TRUE, heap |-> h, root |-> root]
Refused(h) == [ok |-> FALSE, heap |-> h, root |-> 0]

SetKids(h, n, kids) == [h EXCEPT ![n].kids = kids]

\* Mutant: the members already there are not looked at.
AddMemberAgain(h, parent, key, value) ==
  SetKids(Append(Clone(h, value), Member(key, CloneOf(h, value), None)),
          parent, Append(h[parent].kids, Len(Clone(h, value)) + 1))

\* An object member gets the value; a new member comes last.
AddMember(h, parent, key, value) ==
  LET cloned == Clone(h, value)
      member == MemberNode(h, parent, key)
  IN  IF member # 0 THEN SetKids(cloned, member, <<CloneOf(h, value)>>)
      ELSE SetKids(Append(cloned, Member(key, CloneOf(h, value), None)),
                   parent, Append(h[parent].kids, Len(cloned) + 1))

\* Mutant: an index one past the end is refused.
FitsWithin(h, parent, token) == token = "-" \/ ArrayIndex(token) \in 0..Len(h[parent].kids) - 1

Fits(h, parent, token) == token = "-" \/ ArrayIndex(token) \in 0..Len(h[parent].kids)

\* Mutant: the value itself goes in, not a copy.
AddElementUncloned(h, parent, token, value) ==
  SetKids(h, parent, Append(h[parent].kids, value))

\* An array element goes where the token says; what was there moves up.
AddElement(h, parent, token, value) ==
  LET place == IF token = "-" THEN Len(h[parent].kids) + 1 ELSE ArrayIndex(token) + 1
  IN  SetKids(Clone(h, value), parent, InsertAt(h[parent].kids, place, CloneOf(h, value)))

OpAdd(h, root, path, value) ==
  LET parent == ResolveParent(h, root, path)
  IN  CASE value = 0 \/ Malformed(path) -> Refused(h)
        [] value # 0 /\ path = <<>> -> Done(Clone(h, value), CloneOf(h, value))
        [] OTHER ->
             IF parent = 0 THEN Refused(h)
             ELSE CASE h[parent].kind = "object" -> Done(AddMember(h, parent, Last(path), value), root)
                    [] h[parent].kind = "array" /\ Fits(h, parent, Last(path)) ->
                         Done(AddElement(h, parent, Last(path), value), root)
                    [] OTHER -> Refused(h)

\* The place of the child a token names in a container, or 0.
PlaceOf(h, parent, token) ==
  CASE h[parent].kind = "object" /\ MembersAt(h, parent, token) # {} -> FirstOf(MembersAt(h, parent, token))
    [] h[parent].kind = "array" /\ ArrayIndex(token) \in 0..Len(h[parent].kids) - 1 -> ArrayIndex(token) + 1
    [] OTHER -> 0

OpRemove(h, root, path) ==
  LET parent == ResolveParent(h, root, path)
      place == PlaceOf(h, parent, Last(path))
  IN  IF path = <<>> \/ Malformed(path) THEN Refused(h)
      ELSE IF parent = 0 THEN Refused(h)
      ELSE IF place = 0 THEN Refused(h)
      ELSE Done(SetKids(h, parent, RemoveAt(h[parent].kids, place)), root)

OpReplace(h, root, path, value) ==
  LET parent == ResolveParent(h, root, path)
      place == PlaceOf(h, parent, Last(path))
      child == h[parent].kids[place]
      new == CloneOf(h, value)
  IN  IF value = 0 \/ Malformed(path) THEN Refused(h)
      ELSE IF path = <<>> THEN Done(Clone(h, value), new)
      ELSE IF parent = 0 THEN Refused(h)
      ELSE IF place = 0 THEN Refused(h)
      ELSE IF h[parent].kind = "object" THEN Done(SetKids(Clone(h, value), child, <<new>>), root)
      ELSE Done([Replacement(h, child, value) EXCEPT ![parent].kids[place] = new], root)

\* The member a pointer names, or 0.
MemberAt(h, root, path) ==
  LET parent == ResolveParent(h, root, path)
  IN  IF parent = 0 THEN 0
      ELSE IF h[parent].kind = "object" THEN MemberNode(h, parent, Last(path)) ELSE 0

\* A member moved to a member without comments brings its own along.
CarryComments(h, from, to) ==
  IF from = 0 \/ to = 0 THEN h
  ELSE IF HasComments(h, to) THEN h ELSE [h EXCEPT ![to].cmt = h[from].cmt]

\* strings.HasPrefix(path, from+"/").
IsBelow(path, from) == IsStrictPrefix(from, path)

OpMove(h, root, from, path) ==
  LET target == ResolveTarget(h, root, from)
      member == MemberAt(h, root, from)
      removed == OpRemove(Clone(h, target), root, from)
      added == OpAdd(removed.heap, removed.root, path, CloneOf(h, target))
  IN  IF Malformed(from) \/ Malformed(path) \/ (target = 0 /\ from # <<>>) THEN Refused(h)
      ELSE IF from = path THEN Done(h, root)
      ELSE IF IsBelow(path, from) THEN Refused(h)
      ELSE IF ~removed.ok THEN Refused(h)
      ELSE IF ~added.ok THEN Refused(h)
      ELSE Done(CarryComments(added.heap, member, MemberAt(added.heap, added.root, path)), added.root)

OpCopy(h, root, from, path) ==
  LET target == ResolveTarget(h, root, from)
  IN  IF Malformed(from) \/ target = 0 THEN Refused(h)
      ELSE OpAdd(Clone(h, target), root, path, CloneOf(h, target))

OpTest(h, root, path, value) ==
  IF value = 0 \/ Malformed(path) THEN Refused(h)
  ELSE IF NodeEqual(h, ResolveTarget(h, root, path), value) THEN Done(h, root)
  ELSE Refused(h)

\* applyOp.
ApplyOp(h, root, o) ==
  CASE o.op = "add" -> OpAdd(h, root, o.path, o.value)
    [] o.op = "remove" -> OpRemove(h, root, o.path)
    [] o.op = "replace" -> OpReplace(h, root, o.path, o.value)
    [] o.op = "move" -> OpMove(h, root, o.from, o.path)
    [] o.op = "copy" -> OpCopy(h, root, o.from, o.path)
    [] o.op = "test" -> OpTest(h, root, o.path, o.value)
    [] OTHER -> Refused(h)

-----------------------------------------------------------------------------
(* Apply. *)

Init ==
  \E root \in Docs :
    /\ heap = IF root = 0 THEN Heap ELSE Clone(Heap, root)
    /\ out = CloneOf(Heap, root)
    /\ status = "applying"
    /\ op = NoOp
    /\ count = 0

Apply(o) ==
  LET result == ApplyOp(heap, out, o)
  IN  /\ status = "applying" /\ count < MaxOps
      /\ op' = o
      /\ count' = count + 1
      /\ heap' = result.heap
      /\ out' = result.root
      /\ status' = IF result.ok THEN "applying" ELSE "failed"

Next == \E o \in PatchOps : Apply(o)

Spec == Init /\ [][Next]_vars

-----------------------------------------------------------------------------
\* Every variable has its type, and out is a document: a member has one value,
\* an object's children are members, and no sequence of operations makes an
\* object with two members of one name.
TypeOK ==
  /\ status \in {"applying", "failed"} /\ count \in 0..MaxOps
  /\ out \in DOMAIN heap \cup {0} /\ (status = "failed" => out = 0)
  /\ op \in PatchOps \/ op = NoOp
  /\ \A n \in DOMAIN heap : Kids(heap, n) \subseteq DOMAIN heap
  /\ WellFormed(heap, out)
  /\ KeysUnique(heap, out)

\* Apply works on a copy: however operations move and copy, none writes to the
\* caller's document or to the values of the patch, and the result shares no
\* node with them or with itself, so that no operation changes two places.
NothingShared ==
  /\ \A n \in DOMAIN Heap : heap[n] = Heap[n]
  /\ IsTree(heap, out) /\ Under(heap, out) \cap DOMAIN Heap = {}

\* The operations give the values RFC 6902 gives, and fail where it fails.
GivenValue == [n \in DOMAIN Heap \cup {0} |-> Value(Heap, n)]
ValueOfOp(o) == [o EXCEPT !.value = GivenValue[@]]
DocValues == {GivenValue[root] : root \in Docs}
OpValues == {ValueOfOp(o) : o \in PatchOps}
Abstract ==
  INSTANCE RFC6902 WITH
    Documents <- DocValues,
    Operations <- OpValues,
    Nothing <- Absent, IndexOf <- ArrayIndex,
    doc <- Value(heap, out),
    op <- IF op = NoOp THEN Absent ELSE ValueOfOp(op)
ImplementsRFC == Abstract!Spec

\* The nodes at a pointer: the member that names it, if one does, and its value.
At(h, root, path) == {MemberAt(h, root, path), ResolveTarget(h, root, path)} \ {0}
CommentsAt(h, root, path) == {h[n].cmt : n \in At(h, root, path)} \ {None}

\* An operation drops no comment but those inside what it removes or
\* overwrites; of these, the comments on a replaced member or element itself
\* stay unless the new value has its own, and those of a moved member stay
\* unless the member in whose place it comes has its own.
Inside(h, root, path) == Comments(h, ResolveTarget(h, root, path))
Named(h, root, path) == LET m == MemberAt(h, root, path) IN IF m = 0 THEN {} ELSE {h[m].cmt}
MayDrop(o) ==
  LET there == Inside(heap, out, o.path)
      array == o.path # <<>> /\ MemberAt(heap, out, o.path) = 0
  IN  CASE o.op = "remove" -> there \cup Named(heap, out, o.path)
        [] o.op = "replace" ->
             IF array /\ ~HasComments(heap, o.value) THEN there \ CommentsAt(heap, out, o.path)
             ELSE there
        [] o.op \in {"add", "copy"} -> there
        [] o.op = "move" ->
             there \cup (IF MemberAt(heap', out', o.path) = 0
                            \/ Named(heap, out, o.path) \notin {{}, {None}}
                         THEN Named(heap, out, o.from) ELSE {})
        [] OTHER -> {}
CommentsFollow ==
  [][status' = "applying" =>
       Comments(heap, out) \subseteq Comments(heap', out') \cup MayDrop(op')]_vars

=============================================================================
