----------------------------- MODULE DecodeValue -----------------------------
(***************************************************************************)
(* Decoding into Go values: decode.go with the field cache of tags.go.       *)
(* Goroutines each decode documents, one after another, into a variable of   *)
(* their own; they share the cache.                                          *)
(*                                                                         *)
(* A Go value is its state and the values it holds: a struct its fields, a   *)
(* pointer what it points to, a list its elements, a map its entries.  A     *)
(* leaf says where it is from.  The variables being written are cells: the   *)
(* caller's, and above it those made on the way, for a new slice, the value  *)
(* of a map entry, or what an Unmarshaler decodes into.                      *)
(***************************************************************************)
EXTENDS Tags

CONSTANTS
  Inputs,    \* types, root type, options and the documents of each goroutine
  Lower(_)   \* a name without its case

VARIABLES input, cache, st

vars == <<input, cache, st>>

Types == input.types
Goroutines == DOMAIN input.work

-----------------------------------------------------------------------------
(* Values and documents. *)

Val(is, kids) == [is |-> is, kids |-> kids, from |-> <<>>]
Nil == Val("nil", <<>>)
NoValue == Val("zero", <<>>)
Set(call, path) == [is |-> "set", kids |-> <<>>, from |-> <<call, path>>]
Default == Val("default", <<>>)

RECURSIVE Zero(_)
Zero(t) ==
  LET T == Types[t]
  IN  CASE T.kind \in {"ptr", "slice", "map", "any"} -> Nil
        [] T.kind = "array" -> Val("held", [i \in 1..T.len |-> Zero(T.elem)])
        [] T.kind = "struct" -> Val("held", [i \in DOMAIN T.fields |-> Zero(T.fields[i].type)])
        [] T.kind \in {"custom", "lenient"} -> Zero(T.elem)
        [] OTHER -> NoValue

NodeAt(doc, path) == FoldLeft(LAMBDA n, i : n.kids[i], doc, path)
At(v, addr) == FoldLeft(LAMBDA u, i : u.kids[i], v, addr)

RECURSIVE Put(_, _, _)
Put(v, addr, x) ==
  CASE Len(addr) = 0 -> x
    [] Len(addr) = 1 -> [v EXCEPT !.kids = (addr[1] :> x) @@ @]
    [] OTHER -> [v EXCEPT !.kids[addr[1]] = Put(@, Tail(addr), x)]

\* nodeToInterface, for arrays and objects too, refuses a number past float64's range.
RECURSIVE HasHuge(_)
HasHuge(n) == n.kind = "huge" \/ \E i \in DOMAIN n.kids : HasHuge(n.kids[i])

\* What decodeNull and the decoders of scalars do with a node.  A large
\* number is past the int's range, a huge one past float64's.
Verdict(n, T) ==
  CASE T.kind = "raw" -> "fits"
    [] T.kind = "time" -> IF n.kind = "string" THEN "fits" ELSE "mismatch"
    [] n.kind = "null" -> "fits"
    [] T.kind = "any" -> IF HasHuge(n) THEN "overflow" ELSE "fits"
    [] T.kind = "int" /\ n.kind = "large" -> "overflow"
    [] T.kind = "float" /\ n.kind = "huge" -> "overflow"
    [] T.kind = "int" /\ n.kind = "number" -> "fits"
    [] T.kind = "float" /\ n.kind \in {"number", "fraction", "large"} -> "fits"
    [] T.kind \in {"bool", "string"} /\ n.kind = T.kind -> "fits"
    [] OTHER -> "mismatch"

\* What decodeArray and decodeObject do.
Opens(n, T) ==
  \/ n.kind = "array" /\ (T.kind = "slice" \/ (T.kind = "array" /\ T.len = Len(n.kids)))
  \/ n.kind = "object" /\ (T.kind = "struct" \/ (T.kind = "map" /\ T.key # "unsupported"))

IsKey(T, key) == T.key = "string" \/ key \in input.numerals

\* The place after all that a value holds.
End == 99

NoFailure == [why |-> "", at |-> <<>>]
Frame(s, what, fields) ==
  [what |-> what, node |-> s.node, type |-> s.type, addr |-> s.addr, depth |-> Len(s.cells),
   next |-> 1, fields |-> fields, assigned |-> {}]

-----------------------------------------------------------------------------
(* One step of a goroutine's call: s is its state. *)

Cur(s) == NodeAt(s.doc, s.node)
Target(s) == At(Last(s.cells), s.addr)
Written(s, v) == [s.cells EXCEPT ![Len(s.cells)] = Put(@, s.addr, v)]

Do(g, s) == st' = [st EXCEPT ![g] = s] /\ UNCHANGED <<input, cache>>
Fail(g, s, why, path) == Do(g, [s EXCEPT !.pc = "fail", !.failure = [why |-> why, at |-> path]])

\* Unmarshal: a new decoder for each call.
Begin(g) ==
  LET s == st[g]
  IN  /\ s.pc = "idle" /\ s.left # <<>>
      /\ Do(g, [s EXCEPT !.pc = "value", !.doc = Head(s.left), !.left = Tail(s.left), !.call = @ + 1,
                         !.node = <<>>, !.type = input.root, !.addr = <<>>,
                         !.errs = <<>>, !.failure = NoFailure, !.before = s.cells[1]])

\* decodeValue's loop: null sets the outermost pointer to nil.
Point(g) ==
  LET s == st[g]
      T == Types[s.type]
  IN  /\ s.pc = "value" /\ T.kind = "ptr"
      /\ IF Cur(s).kind = "null"
         THEN Do(g, [s EXCEPT !.pc = "return", !.cells = Written(s, Nil)])
         ELSE Do(g, [s EXCEPT !.type = T.elem, !.addr = Append(@, 1),
                              !.cells = IF Target(s) = Nil THEN Written(s, Val("held", <<Zero(T.elem)>>)) ELSE @])

\* decodeViaInterface: the type's own method decodes into a value of another
\* type and takes it over, or ignores its errors.
CallBack(g) ==
  LET s == st[g]
      T == Types[s.type]
  IN  /\ s.pc = "value" /\ T.kind \in {"custom", "lenient"}
      /\ Do(g, [s EXCEPT !.frames = Append(@, Frame(s, T.kind, <<>>)),
                         !.cells = Append(@, Zero(T.elem)), !.type = T.elem, !.addr = <<>>])

IsPlain(s) == s.pc = "value" /\ Types[s.type].kind \notin {"ptr", "custom", "lenient"} /\ ~Opens(Cur(s), Types[s.type])

\* A value is set; null sets the zero value.
Assign(g) ==
  LET s == st[g]
  IN  /\ IsPlain(s) /\ Verdict(Cur(s), Types[s.type]) = "fits"
      /\ Do(g, [s EXCEPT !.pc = "return",
                         !.cells = Written(s, IF Cur(s).kind = "null" /\ Types[s.type].kind # "raw" THEN Zero(s.type)
                                              ELSE Set(s.call, s.node))])

\* typeErrorf: the error is noted and decoding goes on.  A map is made before
\* its type of keys is looked at.
Mismatch(g) ==
  LET s == st[g]
      T == Types[s.type]
  IN  /\ IsPlain(s) /\ Verdict(Cur(s), T) = "mismatch"
      /\ Do(g, [s EXCEPT !.pc = "return", !.errs = Append(@, s.node),
                         !.cells = IF Cur(s).kind = "object" /\ T.kind = "map" /\ Target(s) = Nil
                                   THEN Written(s, Val("held", <<>>)) ELSE @])

Overflow(g) ==
  LET s == st[g]
  IN  IsPlain(s) /\ Verdict(Cur(s), Types[s.type]) = "overflow" /\ Fail(g, s, "overflow", s.node)

Opening(s, kind) == s.pc = "value" /\ Types[s.type].kind = kind /\ Opens(Cur(s), Types[s.type])

\* Mutant: the slice is set before its elements are decoded.
OpenSliceInPlace(g) ==
  LET s == st[g]
      new == Val("held", [i \in DOMAIN Cur(s).kids |-> Zero(Types[s.type].elem)])
  IN  /\ Opening(s, "slice")
      /\ Do(g, [s EXCEPT !.pc = "child", !.frames = Append(@, Frame(s, "array", <<>>)), !.cells = Written(s, new)])

\* decodeArray: a new slice, set when its elements are decoded.
OpenSlice(g) ==
  LET s == st[g]
      new == Val("held", [i \in DOMAIN Cur(s).kids |-> Zero(Types[s.type].elem)])
  IN  /\ Opening(s, "slice")
      /\ Do(g, [s EXCEPT !.pc = "child", !.frames = Append(@, Frame(s, "slice", <<>>)), !.cells = Append(@, new)])

OpenArray(g) ==
  LET s == st[g]
  IN  Opening(s, "array") /\ Do(g, [s EXCEPT !.pc = "child", !.frames = Append(@, Frame(s, "array", <<>>))])

\* Mutant: a new map each time.
OpenMapAnew(g) ==
  LET s == st[g]
  IN  /\ Opening(s, "map")
      /\ Do(g, [s EXCEPT !.pc = "child", !.frames = Append(@, Frame(s, "map", <<>>)), !.cells = Written(s, Val("held", <<>>))])

\* decodeObjectToMap, up to the loop: the entries there are stay.
OpenMap(g) ==
  LET s == st[g]
  IN  /\ Opening(s, "map")
      /\ Do(g, [s EXCEPT !.pc = "child", !.frames = Append(@, Frame(s, "map", <<>>)),
                         !.cells = IF Target(s) = Nil THEN Written(s, Val("held", <<>>)) ELSE @])

-----------------------------------------------------------------------------
(* getStructFields. *)

OpenStruct(s, fields) == [s EXCEPT !.pc = "child", !.frames = Append(@, Frame(s, "struct", fields))]

Load(g) ==
  LET s == st[g]
  IN  /\ Opening(s, "struct")
      /\ Do(g, IF s.type \in DOMAIN cache THEN OpenStruct(s, cache[s.type]) ELSE [s EXCEPT !.pc = "collect"])

\* Mutant: the entry is stored first and filled in after.
CollectStored(g) ==
  LET s == st[g]
  IN  /\ s.pc = "collect"
      /\ cache' = [t \in DOMAIN cache \cup {s.type} |-> IF t = s.type THEN <<>> ELSE cache[t]]
      /\ st' = [st EXCEPT ![g] = [s EXCEPT !.pc = "store", !.collected = Collected(Types, s.type)]]
      /\ UNCHANGED input

Collect(g) ==
  LET s == st[g]
  IN  s.pc = "collect" /\ Do(g, [s EXCEPT !.pc = "store", !.collected = Collected(Types, s.type)])

Store(g) ==
  LET s == st[g]
  IN  /\ s.pc = "store"
      /\ cache' = [t \in DOMAIN cache \cup {s.type} |-> IF t = s.type THEN s.collected ELSE cache[t]]
      /\ st' = [st EXCEPT ![g] = [OpenStruct(s, s.collected) EXCEPT !.collected = <<>>]]
      /\ UNCHANGED input

-----------------------------------------------------------------------------
(* The loops over elements, entries and members. *)

Top(s) == Last(s.frames)
Container(s) == NodeAt(s.doc, Top(s).node)
Onward(s) == [s.frames EXCEPT ![Len(s.frames)].next = @ + 1]
Child(s) == Append(Top(s).node, Top(s).next)
HasChild(s, what) == s.pc = "child" /\ Top(s).what = what /\ Top(s).next <= Len(Container(s).kids)
AtEnd(s, what) == s.pc = "child" /\ Top(s).what = what /\ Top(s).next > Len(Container(s).kids)

Element(g) ==
  LET s == st[g]
      i == Top(s).next
  IN  \E what \in {"slice", "array"} :
        /\ HasChild(s, what)
        /\ Do(g, [s EXCEPT !.pc = "value", !.frames = Onward(s), !.node = Child(s), !.type = Types[Top(s).type].elem,
                           !.addr = IF what = "slice" THEN <<i>> ELSE Append(Top(s).addr, i)])

\* decodeObjectToMap: each entry is decoded into a new value.
Entry(g) ==
  LET s == st[g]
      T == Types[Top(s).type]
  IN  /\ HasChild(s, "map")
      /\ IF IsKey(T, Container(s).keys[Top(s).next])
         THEN Do(g, [s EXCEPT !.pc = "value", !.frames = Onward(s), !.node = Child(s), !.type = T.elem,
                              !.cells = Append(@, Zero(T.elem)), !.addr = <<>>])
         ELSE Fail(g, s, "key", Child(s))

\* byName, then caseInsensitiveLookup: the first whose name is the key's.
FieldFor(fields, key) ==
  LET exact == {i \in DOMAIN fields : fields[i].name = key}
      folded == {i \in DOMAIN fields : Lower(fields[i].name) = Lower(key)}
  IN  IF exact # {} THEN Min(exact) ELSE IF folded # {} THEN Min(folded) ELSE 0

\* fieldByIndexAlloc: the value with the embedded pointers on the way made,
\* and the address of the field; one to an unexported struct cannot be made.
RECURSIVE Way(_, _, _)
Way(v, t, index) ==
  LET f == Types[t].fields[Head(index)]
      here == v.kids[Head(index)]
      isPtr == Types[f.type].kind = "ptr"
      held == IF isPtr /\ here = Nil THEN Val("held", <<Zero(Types[f.type].elem)>>) ELSE here
      step == IF isPtr THEN <<Head(index), 1>> ELSE <<Head(index)>>
      rest == Way(IF isPtr THEN held.kids[1] ELSE held, Struct(Types, f.type), Tail(index))
  IN  IF Len(index) = 1 THEN [value |-> v, addr |-> index, ok |-> TRUE]
      ELSE IF isPtr /\ here = Nil /\ ~f.exported THEN [value |-> v, addr |-> <<>>, ok |-> FALSE]
      ELSE [value |-> Put(Put(v, <<Head(index)>>, held), step, rest.value), addr |-> step \o rest.addr, ok |-> rest.ok]

WayTo(s, f, fi) ==
  LET way == Way(At(Last(s.cells), f.addr), f.type, fi.index)
  IN  [cells |-> [s.cells EXCEPT ![Len(s.cells)] = Put(@, f.addr, way.value)], addr |-> f.addr \o way.addr, ok |-> way.ok]

\* Mutant: presence is recorded under the key as it is written.
AssignedKey(f, fi, key) == f.assigned \cup {key}

\* Presence is recorded under the field's name, whatever the key's case.
Assigned(f, fi, key) == f.assigned \cup {fi.name}

Member(g) ==
  LET s == st[g]
      f == Top(s)
      key == Container(s).keys[f.next]
      idx == FieldFor(f.fields, key)
      fi == f.fields[idx]
      way == WayTo(s, f, fi)
  IN  /\ HasChild(s, "struct")
      /\ IF idx = 0 /\ input.strict THEN Fail(g, s, "unknown", Child(s))
         ELSE IF idx = 0 THEN Do(g, [s EXCEPT !.frames = Onward(s)])
         ELSE IF ~way.ok THEN Fail(g, [s EXCEPT !.cells = way.cells], "embedded", Child(s))
         ELSE Do(g, [s EXCEPT !.pc = "value", !.node = Child(s), !.type = fi.type, !.cells = way.cells, !.addr = way.addr,
                              !.frames = [Onward(s) EXCEPT ![Len(s.frames)].assigned = Assigned(f, fi, key)]])

\* The fields that no member named: required, or with a default.
Missing(g) ==
  LET s == st[g]
      f == Top(s)
      j == f.next - Len(Container(s).kids)
      fi == f.fields[j]
      way == WayTo(s, f, fi)
  IN  /\ AtEnd(s, "struct") /\ j <= Len(f.fields)
      /\ IF fi.name \in f.assigned THEN Do(g, [s EXCEPT !.frames = Onward(s)])
         ELSE IF fi.required THEN Fail(g, s, "required", Child(s))
         ELSE IF ~fi.hasDefault THEN Do(g, [s EXCEPT !.frames = Onward(s)])
         ELSE IF ~way.ok THEN Fail(g, [s EXCEPT !.cells = way.cells], "embedded", Child(s))
         ELSE IF fi.badDefault THEN Fail(g, [s EXCEPT !.cells = way.cells], "default", Child(s))
         ELSE Do(g, [s EXCEPT !.frames = Onward(s), !.cells = [way.cells EXCEPT ![Len(s.cells)] = Put(@, way.addr, Default)]])

Close(g) ==
  LET s == st[g]
      f == Top(s)
      new == Last(s.cells)
  IN  /\ \/ AtEnd(s, "slice") \/ AtEnd(s, "array") \/ AtEnd(s, "map")
         \/ AtEnd(s, "struct") /\ f.next > Len(Container(s).kids) + Len(f.fields)
      /\ Do(g, [s EXCEPT !.pc = "return", !.frames = Front(@),
                         !.cells = IF f.what = "slice" THEN [Front(@) EXCEPT ![f.depth] = Put(@, f.addr, new)] ELSE @])

-----------------------------------------------------------------------------
(* Returns. *)

\* To the loop of the container; SetMapIndex.
ReturnToLoop(g) ==
  LET s == st[g]
      f == Top(s)
      key == Container(s).keys[f.next - 1]
  IN  /\ s.pc = "return" /\ s.frames # <<>> /\ f.what \notin {"custom", "lenient"}
      /\ Do(g, [s EXCEPT !.pc = "child",
                         !.cells = IF f.what = "map"
                                   THEN [Front(@) EXCEPT ![f.depth] = Put(@, Append(f.addr, key), Last(s.cells))] ELSE @])

\* The callback's decode: an error if any type error has been noted, by
\* whichever value.
ReturnToCallback(g) ==
  LET s == st[g]
      f == Top(s)
  IN  /\ s.pc = "return" /\ s.frames # <<>> /\ f.what \in {"custom", "lenient"}
      /\ IF s.errs # <<>> THEN Fail(g, s, "type", Append(f.node, End))
         ELSE Do(g, [s EXCEPT !.frames = Front(@), !.cells = [Front(@) EXCEPT ![f.depth] = Put(@, f.addr, Last(s.cells))]])

\* An error leaves every function on the way, up to a method that ignores it.
Unwind(g) ==
  LET s == st[g]
      f == Top(s)
      left == [s EXCEPT !.frames = Front(@), !.cells = SubSeq(@, 1, f.depth)]
  IN  /\ s.pc = "fail" /\ s.frames # <<>>
      /\ Do(g, IF f.what = "lenient" THEN [left EXCEPT !.pc = "return", !.failure = NoFailure] ELSE left)

\* decode returns the error, or a TypeError with all that were noted.
Finish(g) ==
  LET s == st[g]
  IN  /\ s.pc \in {"return", "fail"} /\ s.frames = <<>>
      /\ Do(g, [s EXCEPT !.pc = "idle"])

Init ==
  /\ input \in Inputs
  /\ cache = [t \in {} |-> <<>>]
  /\ st = [g \in Goroutines |->
             [pc |-> "idle", left |-> input.work[g], call |-> 0, doc |-> <<>>, node |-> <<>>, type |-> input.root,
              addr |-> <<>>, frames |-> <<>>, cells |-> <<Zero(input.root)>>, errs |-> <<>>,
              failure |-> NoFailure, collected |-> <<>>, before |-> Zero(input.root)]]

Next ==
  \E g \in Goroutines :
    \/ Begin(g) \/ Point(g) \/ CallBack(g) \/ Assign(g) \/ Mismatch(g) \/ Overflow(g)
    \/ OpenSlice(g) \/ OpenArray(g) \/ OpenMap(g) \/ Load(g) \/ Collect(g) \/ Store(g)
    \/ Element(g) \/ Entry(g) \/ Member(g) \/ Missing(g) \/ Close(g)
    \/ ReturnToLoop(g) \/ ReturnToCallback(g) \/ Unwind(g) \/ Finish(g)

Spec == Init /\ [][Next]_vars

-----------------------------------------------------------------------------
(* What the document and the types say, place by place. *)

\* What a value of type t is decoded into: behind pointers and methods.
RECURSIVE Inner(_, _)
Inner(t, n) ==
  LET T == Types[t]
      in == Inner(T.elem, n)
  IN  CASE T.kind = "ptr" /\ n.kind # "null" -> [in EXCEPT !.addr = <<1>> \o @]
        [] T.kind \in {"custom", "lenient"} -> [in EXCEPT !.methods = {T.kind} \cup @]
        [] OTHER -> [type |-> t, addr |-> <<>>, methods |-> {}]

\* The address of a field in its struct, and whether decoding can get there.
RECURSIVE Steps(_, _)
Steps(t, index) ==
  LET f == Types[t].fields[Head(index)]
      rest == Steps(Struct(Types, f.type), Tail(index))
      isPtr == Types[f.type].kind = "ptr"
  IN  IF Len(index) = 1 THEN [addr |-> index, ok |-> TRUE]
      ELSE [addr |-> (IF isPtr THEN <<Head(index), 1>> ELSE <<Head(index)>>) \o rest.addr,
            ok |-> rest.ok /\ (isPtr => f.exported)]

\* Each place of the document that has a place in the variable: its type,
\* its address, and what it is decoded into.
Place(p, n, t, addr) ==
  LET in == Inner(t, n)
  IN  [at |-> p, n |-> n, addr |-> addr, type |-> in.type, into |-> addr \o in.addr, methods |-> in.methods]

\* The child i of a place, if it has a place of its own; fields are the type's.
MemberPart(place, i, fi, steps) ==
  IF steps.ok THEN {Place(Append(place.at, i), place.n.kids[i], fi.type, place.into \o steps.addr)} ELSE {}
Under(place, i, T, idx, fields) ==
  LET to(key) == {Place(Append(place.at, i), place.n.kids[i], T.elem, Append(place.into, key))}
  IN  CASE T.kind \in {"slice", "array"} -> to(i)
        [] T.kind = "map" -> IF IsKey(T, place.n.keys[i]) THEN to(place.n.keys[i]) ELSE {}
        [] T.kind = "struct" -> IF idx = 0 THEN {} ELSE MemberPart(place, i, fields[idx], Steps(place.type, fields[idx].index))

\* The field each member names, 0 for none.
Named(place, fields) == [i \in DOMAIN place.n.keys |-> FieldFor(fields, place.n.keys[i])]
UnderAll(place, T, named, fields) ==
  UNION {Under(place, i, T, IF T.kind = "struct" THEN named[i] ELSE 0, fields) : i \in DOMAIN place.n.kids}
Parts(place, T, fields) ==
  IF Opens(place.n, T) THEN UnderAll(place, T, Named(place, fields), fields) ELSE {}

FieldsOf(t) == IF Types[t].kind = "struct" THEN RightFields(Types, t) ELSE <<>>

RECURSIVE Places(_)
Places(place) ==
  {place} \cup UNION {Places(part) : part \in Parts(place, Types[place.type], FieldsOf(place.type))}

AllPlaces(s) == Places(Place(<<>>, s.doc, input.root, <<>>))

Plain(place) == ~Opens(place.n, Types[place.type])
Fits(place) == Plain(place) /\ Verdict(place.n, Types[place.type]) = "fits"
Unnamed(named, fields) ==
  {j \in DOMAIN fields : \A i \in DOMAIN named : named[i] = 0 \/ fields[named[i]].name # fields[j].name}

\* What is wrong with a field that no member names.
Unfilled(fi, reachable) ==
  CASE fi.required -> "required"
    [] ~fi.required /\ ~fi.hasDefault -> ""
    [] OTHER -> IF ~reachable THEN "embedded" ELSE IF fi.badDefault THEN "default" ELSE ""

\* What can go wrong at a place or after its children.
Event(at, why) == [at |-> at, why |-> why]
StructEvents(place, named, fields) ==
  {Event(Append(place.at, i), "unknown") : i \in {j \in DOMAIN named : input.strict /\ named[j] = 0}}
  \cup {Event(Append(place.at, i), "embedded") :
           i \in {j \in DOMAIN named : named[j] # 0 /\ ~Steps(place.type, fields[named[j]].index).ok}}
  \cup {e \in {Event(Append(place.at, Len(place.n.kids) + j),
                     Unfilled(fields[j], Steps(place.type, fields[j].index).ok)) : j \in Unnamed(named, fields)} : e.why # ""}
Events(place, T, fields) ==
  CASE Plain(place) -> IF Fits(place) THEN {} ELSE {Event(place.at, Verdict(place.n, T))}
    [] T.kind = "map" -> {Event(Append(place.at, i), "key") : i \in {j \in DOMAIN place.n.keys : ~IsKey(T, place.n.keys[j])}}
    [] T.kind = "struct" -> StructEvents(place, Named(place, fields), fields)
    [] OTHER -> {}
EventsAt(place) ==
  (IF place.methods # {} THEN {Event(Append(place.at, End), "type")} ELSE {})
  \cup Events(place, Types[place.type], FieldsOf(place.type))

\* An error stops what comes after it, up to a method that ignores errors.
Stops(h, p, lenient) ==
  Earlier(h.at, p) /\ \A q \in lenient : IsPrefix(q, h.at) => IsPrefix(q, p)

\* The events in the document's order, but for those an earlier one stops.
After(so, e, lenient) ==
  IF (\E h \in so.stops : Stops(h, e.at, lenient)) \/ (e.why = "type" /\ so.errs = <<>>) THEN so
  ELSE IF e.why = "mismatch" THEN [so EXCEPT !.errs = Append(@, e.at)]
  ELSE [so EXCEPT !.stops = @ \cup {e}]
Judged(so, lenient) ==
  [errs |-> so.errs, stops |-> so.stops, lenient |-> lenient,
   fatal |-> {h \in so.stops : \A q \in lenient : ~IsPrefix(q, h.at)}]
AfterAll(events, lenient) ==
  Judged(FoldLeft(LAMBDA so, e : After(so, e, lenient), [errs |-> <<>>, stops |-> {}], events), lenient)
InOrder(events) == SetToSortSeq(events, LAMBDA d, e : Earlier(d.at, e.at))
Outcome(places) ==
  AfterAll(InOrder(UNION {EventsAt(q) : q \in places}), {q.at : q \in {r \in places : "lenient" \in r.methods}})

\* The places that are decoded, and whose values are not thrown away: a new
\* slice, entry or value of a method is, if an error passes through it.
Fresh(places) ==
  {q.at : q \in {r \in places : r.methods # {} \/ (~Plain(r) /\ Types[r.type].kind = "slice")}}
  \cup UNION {{c.at : c \in {d \in places : d.at # <<>> /\ Front(d.at) = r.at}} :
                r \in {q \in places : Types[q.type].kind = "map"}}
Surviving(places, outcome, fresh) ==
  {p \in places : \A h \in outcome.stops :
     /\ ~Stops(h, p.at, outcome.lenient)
     /\ \A q \in fresh : IsPrefix(q, p.at) => ~IsPrefix(q, h.at)}
Kept(places) == Surviving(places, Outcome(places), Fresh(places))

Comparable(a, b) == IsPrefix(a, b) \/ IsPrefix(b, a)

RECURSIVE Leaves(_)
Leaves(v) ==
  IF DOMAIN v.kids = {} THEN {<<>>}
  ELSE UNION {{<<k>> \o a : a \in Leaves(v.kids[k])} : k \in DOMAIN v.kids}

RECURSIVE ValueAt(_, _)
ValueAt(v, a) ==
  IF a = <<>> THEN v
  ELSE IF a[1] \in DOMAIN v.kids THEN ValueAt(v.kids[a[1]], Tail(a)) ELSE Val("absent", <<>>)

Returned == {g \in Goroutines : st[g].pc = "idle" /\ st[g].call > 0}

\* Every goroutine decodes with the fields that Go's rule of embedding
\* selects, whatever the others do with the cache (getStructFields,
\* collectFields): an entry is never seen before it is complete.
FieldsDominant ==
  /\ \A t \in DOMAIN cache : cache[t] = RightFields(Types, t)
  /\ \A g \in Goroutines : \A i \in DOMAIN st[g].frames : LET f == st[g].frames[i] IN
       f.what = "struct" => f.fields = RightFields(Types, f.type)

Answers(s, o) ==
  IF o.fatal = {} THEN s.failure = NoFailure /\ s.errs = o.errs
  ELSE /\ \E h \in o.fatal : s.failure = [why |-> h.why, at |-> h.at]
       /\ s.failure.why = "type" => s.errs = o.errs

\* A call fails at the first place of the document that stops it, and only
\* there; else it reports each place that does not fit its type, in order
\* and once, also those in a method whose error was ignored (decode,
\* typeErrorf, makeUnmarshalCallback).
ErrorsExact == \A g \in Returned : Answers(st[g], Outcome(AllPlaces(st[g])))

Arrives(s, kept, now) ==
  LET value(p) == IF p.n.kind = "null" /\ Types[p.type].kind # "raw" THEN Zero(p.type) ELSE Set(s.call, p.at)
  IN  /\ \A p \in kept : Fits(p) =>
           \/ ValueAt(now, p.into) = value(p)
           \/ \E q \in kept : Earlier(p.at, q.at) /\ Comparable(p.addr, q.addr)
      /\ \A a \in Leaves(now) : ValueAt(now, a).is = "set" /\ ValueAt(now, a).from[1] = s.call =>
           \E p \in kept : Fits(p) /\ p.into = a /\ p.at = ValueAt(now, a).from[2]

\* Each value the call could decode before it failed is in its place, unless
\* a later member has the same place; nothing after the failure is, and
\* nothing of a slice, an entry or a method's value it happened in
\* (decodeArray, decodeObjectToMap, decodeObjectToStruct).
NamedArrive == \A g \in Returned : Arrives(st[g], Kept(AllPlaces(st[g])), st[g].cells[1])

DefaultsOf(q, fields) ==
  {q.into \o Steps(q.type, fields[j].index).addr : j \in {i \in Unnamed(Named(q, fields), fields) : fields[i].hasDefault}}
Changes(a, v, old, kept, defaults) ==
  \/ v = old
  \/ \E p \in kept : (Plain(p) \/ Types[p.type].kind = "slice" \/ p.methods # {}) /\ IsPrefix(p.addr, a)
  \/ v = Default /\ \E d \in defaults : IsPrefix(d, a)
  \/ old.is = "absent" /\ v \in {Nil, NoValue}
  \/ v.is = "held" /\ old.is \in {"nil", "held"}
Stays(s, kept, defaults) ==
  \A a \in Leaves(s.cells[1]) \cup Leaves(s.before) :
    Changes(a, ValueAt(s.cells[1], a), ValueAt(s.before, a), kept, defaults)
AllDefaults(kept) ==
  UNION {DefaultsOf(q, FieldsOf(q.type)) : q \in {r \in kept : Types[r.type].kind = "struct" /\ ~Plain(r)}}
StaysOf(s, kept) == Stays(s, kept, AllDefaults(kept))

\* What a document does not name keeps its value, whether the call fails or
\* not, in maps and behind pointers too; a field with a default takes it
\* (fieldByIndexAlloc, decodeObjectToMap, applyDefault).
UnnamedStay == \A g \in Returned : StaysOf(st[g], Kept(AllPlaces(st[g])))

-----------------------------------------------------------------------------
(* Said of the code, and not so. *)

\* unmarshal.go:52: values that cannot be assigned "are collected and reported
\* together in a [TypeError] after decoding the rest of the input".
RestDecoded ==
  \A g \in Returned : st[g].failure.why = "type" =>
    \A p \in AllPlaces(st[g]) : Plain(p) => Earlier(p.at, st[g].failure.at)
=============================================================================
