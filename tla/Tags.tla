-------------------------------- MODULE Tags --------------------------------
(***************************************************************************)
(* Which fields of a struct type are encoded and decoded: collectFields of   *)
(* tags.go, which inlines embedded structs and settles names that several    *)
(* fields share.                                                             *)
(*                                                                         *)
(* A type is a name into a table of records: its kind, the type of its       *)
(* elements, and for a struct its declared fields in order.  The two tags of *)
(* a field are their names and the options of the jsonc tag.                 *)
(***************************************************************************)
EXTENDS Integers, FiniteSets, SequencesExt

\* The type itself, or what an embedded pointer points to.
Struct(types, t) == IF types[t].kind = "ptr" THEN types[t].elem ELSE t
IsStruct(types, t) == types[Struct(types, t)].kind = "struct"

\* parseTagPair: the jsonc tag's name before the json tag's.
TagName(f) == IF f.jsonc # "" THEN f.jsonc ELSE f.json

\* Fields that take no part: "-" in either tag; unexported ones, but for
\* embedded structs, and of these the named ones.
Skipped(types, f) ==
  \/ f.json = "-" \/ f.jsonc = "-"
  \/ ~f.exported /\ ~(f.embedded /\ IsStruct(types, f.type))
  \/ ~f.exported /\ TagName(f) # ""

Inlined(types, f) == f.embedded /\ IsStruct(types, f.type) /\ TagName(f) = ""

FieldInfo(f, index) ==
  [name |-> IF TagName(f) = "" THEN f.name ELSE TagName(f), index |-> index, tagged |-> TagName(f) # "",
   required |-> "required" \in f.opts, hasDefault |-> f.opts \cap {"default", "bad default"} # {},
   badDefault |-> "bad default" \in f.opts, type |-> f.type]

\* collectCandidates: every field in struct order; a type that is being
\* walked is not walked again.
RECURSIVE Candidates(_, _, _, _)
Candidates(types, t, index, onPath) ==
  LET at(i) == types[t].fields[i]
      inner(i) == Struct(types, at(i).type)
  IN  FlattenSeq([i \in DOMAIN types[t].fields |->
        IF Skipped(types, at(i)) THEN <<>>
        ELSE IF ~Inlined(types, at(i)) THEN <<FieldInfo(at(i), Append(index, i))>>
        ELSE IF inner(i) \in onPath THEN <<>>
        ELSE Candidates(types, inner(i), Append(index, i), onPath \cup {inner(i)})])

\* dominantField: the only one at the least depth, or the only tagged one there.
Dominant(all, group) ==
  LET minDepth == Min({Len(all[i].index) : i \in group})
      shallow == {i \in group : Len(all[i].index) = minDepth}
      tagged == {i \in shallow : all[i].tagged}
  IN  IF Cardinality(shallow) = 1 THEN shallow
      ELSE IF Cardinality(tagged) = 1 THEN tagged ELSE {}

\* collectFields.
Collected(types, t) ==
  LET all == Candidates(types, t, <<>>, {t})
      keep == UNION {Dominant(all, {i \in DOMAIN all : all[i].name = all[j].name}) : j \in DOMAIN all}
  IN  [j \in 1..Cardinality(keep) |-> all[SetToSortSeq(keep, <)[j]]]

-----------------------------------------------------------------------------
(* The rule of Go, and of encoding/json, over all routes of embedding. *)

\* Every way from a struct to one inlined in it, however often it meets a type.
Routes(types, t) ==
  LET bound == Cardinality(DOMAIN types)
      of[k \in 0..bound] ==
        IF k = 0 THEN {[index |-> <<>>, type |-> t]}
        ELSE UNION {{[index |-> Append(r.index, i), type |-> Struct(types, types[r.type].fields[i].type)] :
                       i \in {j \in DOMAIN types[r.type].fields :
                                /\ ~Skipped(types, types[r.type].fields[j])
                                /\ Inlined(types, types[r.type].fields[j])}} : r \in of[k - 1]}
  IN  UNION {of[k] : k \in 0..bound}

Selectable(types, t) ==
  UNION {{FieldInfo(types[r.type].fields[i], Append(r.index, i)) :
            i \in {j \in DOMAIN types[r.type].fields :
                     /\ ~Skipped(types, types[r.type].fields[j])
                     /\ ~Inlined(types, types[r.type].fields[j])}} : r \in Routes(types, t)}

\* A field yields to none: each other of its name is deeper, or as deep and
\* named by no tag where this one is.
Wins(f, all) ==
  \A g \in all \ {f} : g.name = f.name =>
    Len(g.index) > Len(f.index) \/ (Len(g.index) = Len(f.index) /\ f.tagged /\ ~g.tagged)

\* The order of paths in a struct or a document.
Earlier(p, q) ==
  \/ IsStrictPrefix(p, q)
  \/ \E k \in 1..Min({Len(p), Len(q)}) : p[k] < q[k] /\ \A j \in 1..(k - 1) : p[j] = q[j]

Winners(all) == SetToSortSeq({f \in all : Wins(f, all)}, LAMBDA f, g : Earlier(f.index, g.index))
RightFields(types, t) == Winners(Selectable(types, t))
=============================================================================
