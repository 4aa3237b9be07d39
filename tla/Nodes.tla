-------------------------------- MODULE Nodes --------------------------------
(***************************************************************************)
(* The trees of node.go that Patch and Path change.  A heap is the sequence *)
(* of the nodes made so far and a pointer a place in it, so that sharing,   *)
(* stale pointers and writes to another's node can be told apart; 0 is nil. *)
(*                                                                         *)
(* The four comment fields of a node are one, cmt: the operations keep,     *)
(* copy and drop them together.                                            *)
(***************************************************************************)
EXTENDS Integers, Sequences, FiniteSets, SequencesExt

None == "none"

\* The texts of numbers, and the numbers they denote (canonicalNumber).
NumberOf == [t \in {"1", "1.0", "2"} |-> IF t = "2" THEN 2 ELSE 1]

Object(kids, cmt) == [kind |-> "object", key |-> None, val |-> None, kids |-> kids, cmt |-> cmt]
Array(kids, cmt) == [kind |-> "array", key |-> None, val |-> None, kids |-> kids, cmt |-> cmt]
Member(key, kid, cmt) == [kind |-> "member", key |-> key, val |-> None, kids |-> <<kid>>, cmt |-> cmt]
Number(val, cmt) == [kind |-> "number", key |-> None, val |-> val, kids |-> <<>>, cmt |-> cmt]

Kids(h, n) == ToSet(h[n].kids)

\* Walk: the nodes of the tree at n, each before its children.
Walk(h, n) ==
  LET walk[todo \in Seq(1..Len(h))] ==
        IF todo = <<>> THEN <<>> ELSE <<Head(todo)>> \o walk[h[Head(todo)].kids \o Tail(todo)]
  IN  IF n = 0 THEN <<>> ELSE walk[<<n>>]
Under(h, n) == ToSet(Walk(h, n))

IndexIn(s, x) == CHOOSE i \in DOMAIN s : s[i] = x

\* Mutant: the copy shares the children.
CloneShallow(h, n) == IF n = 0 THEN h ELSE Append(h, h[n])

\* cloneNode: the heap with a deep copy of n at CloneOf(h, n).
Clone(h, n) ==
  LET walk == Walk(h, n)
      Copied(m) == Len(h) + IndexIn(walk, m)
  IN  h \o [i \in DOMAIN walk |->
              [h[walk[i]] EXCEPT !.kids = [k \in DOMAIN @ |-> Copied(@[k])]]]
CloneOf(h, n) == IF n = 0 THEN 0 ELSE Len(h) + 1

HasComments(h, n) == h[n].cmt # None

\* Mutant: the old comments go with the old node.
ReplacementBare(h, old, value) == Clone(h, value)

\* replacementNode: the copy of value takes old's comments if it has none.
Replacement(h, old, value) ==
  IF HasComments(h, value) THEN Clone(h, value)
  ELSE [Clone(h, value) EXCEPT ![CloneOf(h, value)].cmt = h[old].cmt]

\* The places of the members of n with this key.
MembersAt(h, n, key) == {i \in DOMAIN h[n].kids : h[h[n].kids[i]].kind = "member" /\ h[h[n].kids[i]].key = key}
FirstOf(S) == CHOOSE i \in S : \A j \in S : i <= j

\* memberNode, and the loops like it: the first member with this key, or nil.
MemberNode(h, n, key) ==
  IF MembersAt(h, n, key) = {} THEN 0 ELSE h[n].kids[FirstOf(MembersAt(h, n, key))]

\* parseArrayIndex.
ArrayIndex(token) ==
  CASE token = "0" -> 0 [] token = "1" -> 1 [] token = "2" -> 2 [] token = "3" -> 3
    [] OTHER -> -1

\* objectMembers: the last member of a key counts.
ObjectMembers(h, n) ==
  LET keys == {h[m].key : m \in Kids(h, n)}
      LastAt(key) == CHOOSE i \in MembersAt(h, n, key) : \A j \in MembersAt(h, n, key) : j <= i
  IN  [key \in keys |-> h[h[n].kids[LastAt(key)]].kids[1]]

\* nodeEqual.
NodeEqual(h, x, y) ==
  LET eq[p, q \in DOMAIN h] ==
        LET a == h[p] b == h[q]
            am == ObjectMembers(h, p) bm == ObjectMembers(h, q)
        IN  /\ a.kind = b.kind
            /\ CASE a.kind = "number" -> NumberOf[a.val] = NumberOf[b.val]
                 [] a.kind = "array" -> /\ Len(a.kids) = Len(b.kids)
                                        /\ \A i \in DOMAIN a.kids : eq[a.kids[i], b.kids[i]]
                 [] a.kind = "object" -> /\ DOMAIN am = DOMAIN bm
                                         /\ \A k \in DOMAIN am : eq[am[k], bm[k]]
                 [] OTHER -> FALSE
  IN  x # 0 /\ y # 0 /\ eq[x, y]

-----------------------------------------------------------------------------
(* What a tree means, and when it is one. *)

\* The JSON value of the tree at n: comments, member order and number texts
\* do not matter.
Absent == <<"absent">>
Value(h, n) ==
  LET value[m \in DOMAIN h] ==
        CASE h[m].kind = "number" -> <<"number", NumberOf[h[m].val]>>
          [] h[m].kind = "array" -> <<"array", [i \in DOMAIN h[m].kids |-> value[h[m].kids[i]]]>>
          [] h[m].kind = "object" -> LET of == ObjectMembers(h, m)
                                     IN  <<"object", [k \in DOMAIN of |-> value[of[k]]]>>
          [] h[m].kind = "member" -> value[h[m].kids[1]]
  IN  IF n = 0 THEN Absent ELSE value[n]

Comments(h, n) == {h[m].cmt : m \in Under(h, n)} \ {None}

\* Every node below n has one place in the tree: there is one place for each.
IsTree(h, n) ==
  LET places == UNION {{m} \X DOMAIN h[m].kids : m \in Under(h, n)}
  IN  n # 0 => Cardinality(places) = Cardinality(Under(h, n)) - 1

\* An object's children are members with one value each, and keys are unique.
WellFormed(h, n) ==
  \A m \in Under(h, n) :
    /\ h[m].kind = "object" => \A c \in Kids(h, m) : h[c].kind = "member"
    /\ h[m].kind = "array" => \A c \in Kids(h, m) : h[c].kind # "member"
    /\ h[m].kind = "member" => Len(h[m].kids) = 1 /\ h[h[m].kids[1]].kind # "member"
KeysUnique(h, n) ==
  \A m \in Under(h, n) : h[m].kind = "object" =>
    \A c, d \in Kids(h, m) : c # d => h[c].key # h[d].key
=============================================================================
