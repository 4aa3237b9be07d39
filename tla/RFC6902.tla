------------------------------- MODULE RFC6902 -------------------------------
(***************************************************************************)
(* JSON Patch on values, as RFC 6902 has it and doc.go promises it: the     *)
(* operations of a patch in order, all of them or none.  A value is         *)
(* <<"number", n>>, <<"array", sequence>> or <<"object", function>>, and    *)
(* Nothing where there is no document.                                     *)
(***************************************************************************)
EXTENDS Integers, Sequences, SequencesExt

CONSTANTS
  Documents,    \* the values a patch may start from
  Operations,   \* the operations, each with the value it carries
  Nothing,      \* no value
  BadToken,     \* what an escape that RFC 6901 does not know leaves of a token
  IndexOf(_)    \* the array index a token spells, or -1

VARIABLES
  doc,     \* the document, or Nothing
  status,  \* "applying" or "failed"
  op       \* the last operation

vars == <<doc, status, op>>

IsIn(v, token) ==
  \/ v[1] = "object" /\ token \in DOMAIN v[2]
  \/ v[1] = "array" /\ IndexOf(token) \in 0..Len(v[2]) - 1
At(v, token) == IF v[1] = "object" THEN v[2][token] ELSE v[2][IndexOf(token) + 1]

\* v with w in the place of what token names.
With(v, token, w) ==
  LET place == IF v[1] = "object" THEN token ELSE IndexOf(token) + 1
  IN  <<v[1], [p \in DOMAIN v[2] |-> IF p = place THEN w ELSE v[2][p]]>>

\* The value at a pointer, or Nothing.
Step(v, token) == IF IsIn(v, token) THEN At(v, token) ELSE Nothing
Find(v, path) ==
  LET find[i \in 0..Len(path)] == IF i = 0 THEN v ELSE Step(find[i - 1], path[i])
  IN  find[Len(path)]

\* v with w in the place of what path leads to, which is there.
Put(v, path, w) ==
  LET put[i \in 1..Len(path) + 1] ==
        IF i > Len(path) THEN w ELSE With(Find(v, SubSeq(path, 1, i - 1)), path[i], put[i + 1])
  IN  put[1]

Parent(v, path) == Find(v, Front(path))

CanAdd(v, path) ==
  \/ path = <<>>
  \/ LET parent == Parent(v, path)
     IN  \/ parent[1] = "object"
         \/ parent[1] = "array" /\ (Last(path) = "-" \/ IndexOf(Last(path)) \in 0..Len(parent[2]))

Insert(parent, token, w) ==
  CASE parent[1] = "object" ->
         <<"object", [k \in DOMAIN parent[2] \cup {token} |-> IF k = token THEN w ELSE parent[2][k]]>>
    [] parent[1] = "array" /\ token = "-" -> <<"array", Append(parent[2], w)>>
    [] OTHER -> <<"array", InsertAt(parent[2], IndexOf(token) + 1, w)>>

Added(v, path, w) ==
  IF path = <<>> THEN w
  ELSE Put(v, Front(path), Insert(Parent(v, path), Last(path), w))

Take(parent, token) ==
  IF parent[1] = "object" THEN <<"object", [k \in DOMAIN parent[2] \ {token} |-> parent[2][k]]>>
  ELSE <<"array", RemoveAt(parent[2], IndexOf(token) + 1)>>
Removed(v, path) == Put(v, Front(path), Take(Parent(v, path), Last(path)))

Exists(v, path) == Find(v, path) # Nothing

Spelled(o) == BadToken \notin ToSet(o.path) \cup ToSet(o.from)

\* When an operation succeeds, and the document it leaves then.
Succeeds(v, o) ==
  CASE o.op = "add" -> o.value # Nothing /\ CanAdd(v, o.path)
    [] o.op = "remove" -> o.path # <<>> /\ Exists(v, o.path)
    [] o.op = "replace" -> o.value # Nothing /\ (o.path = <<>> \/ Exists(v, o.path))
    [] o.op = "move" -> \/ o.from = o.path /\ (o.from = <<>> \/ Exists(v, o.from))
                        \/ /\ o.from # <<>> /\ Exists(v, o.from)
                           /\ ~IsPrefix(o.from, o.path)
                           /\ CanAdd(Removed(v, o.from), o.path)
    [] o.op = "copy" -> Exists(v, o.from) /\ CanAdd(v, o.path)
    [] o.op = "test" -> o.value # Nothing /\ Find(v, o.path) = o.value
    [] OTHER -> FALSE

Result(v, o) ==
  CASE o.op = "add" -> Added(v, o.path, o.value)
    [] o.op = "remove" -> Removed(v, o.path)
    [] o.op = "replace" -> Put(v, o.path, o.value)
    [] o.op = "move" -> IF o.from = o.path THEN v
                        ELSE Added(Removed(v, o.from), o.path, Find(v, o.from))
    [] o.op = "copy" -> Added(v, o.path, Find(v, o.from))
    [] OTHER -> v

Init == doc \in Documents /\ status = "applying" /\ op = Nothing

Perform(o) ==
  /\ status = "applying"
  /\ op' = o
  /\ IF Spelled(o) /\ Succeeds(doc, o) THEN doc' = Result(doc, o) /\ UNCHANGED status
     ELSE doc' = Nothing /\ status' = "failed"

Next == \E o \in Operations : Perform(o)

Spec == Init /\ [][Next]_vars
=============================================================================
