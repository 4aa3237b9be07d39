---------------------------- MODULE EncoderProofs ----------------------------
(* Theorems about Encoder: what it records of its call stack is right at     *)
(* every step of every call, whatever value, options and comments it has.    *)
EXTENDS Encoder, TLAPS, SequenceTheorems, FiniteSetTheorems

-----------------------------------------------------------------------------
(* Stacks of anything. *)

Spans(s) == s \in Seq(Range(s))

LEMMA UpTo ==
  ASSUME NEW n \in Nat
  PROVE  /\ \A i \in 1..n : i \in 1..(n + 1) /\ i # n + 1
         /\ \A i \in 1..(n + 1) : i \in 1..n \/ i = n + 1
         /\ n > 0 => n \in 1..n /\ \A i \in 1..(n - 1) : i \in 1..n /\ i # n
         /\ \A i \in 1..n : i \in 1..(n - 1) \/ i = n
OBVIOUS

LEMMA Spanned == ASSUME NEW S, NEW s \in Seq(S) PROVE Spans(s)
<1>1. s \in Seq({s[i] : i \in DOMAIN s})
  BY LenProperties, SeqOfRange, RangeEquality
<1>2. QED
  BY <1>1 DEF Spans, Range

LEMMA Spanning ==
  ASSUME NEW s, Spans(s)
  PROVE  Len(s) \in Nat /\ DOMAIN s = 1..Len(s) /\ (s = <<>> <=> Len(s) = 0)
BY LenProperties, EmptySeq DEF Spans

LEMMA Pushed ==
  ASSUME NEW s, Spans(s), NEW f
  PROVE  /\ Spans(Append(s, f)) /\ Len(Append(s, f)) = Len(s) + 1 /\ Append(s, f) # <<>>
         /\ \A i \in 1..Len(s) : Append(s, f)[i] = s[i]
         /\ Append(s, f)[Len(s) + 1] = f
<1> DEFINE S == Range(s) \cup {f}
<1>1. s \in Seq(S) /\ f \in S
  BY SeqMonotonic DEF Spans
<1> HIDE DEF S
<1>2. /\ Append(s, f) \in Seq(S) /\ Append(s, f) # <<>> /\ Len(Append(s, f)) = Len(s) + 1
      /\ \A i \in 1..Len(s) : Append(s, f)[i] = s[i]
      /\ Append(s, f)[Len(s) + 1] = f
  BY <1>1, AppendProperties
<1>3. Spans(Append(s, f))
  BY <1>2, Spanned
<1>4. QED
  BY <1>2, <1>3

LEMMA Popped ==
  ASSUME NEW s, Spans(s), s # <<>>
  PROVE  /\ Len(s) \in Nat \ {0} /\ DOMAIN s = 1..Len(s)
         /\ Spans(Front(s)) /\ Len(Front(s)) = Len(s) - 1
         /\ \A i \in 1..(Len(s) - 1) : Front(s)[i] = s[i]
<1> DEFINE S == Range(s)
<1>1. s \in Seq(S)
  BY DEF Spans
<1> HIDE DEF S
<1>2. Len(s) \in Nat \ {0} /\ DOMAIN s = 1..Len(s)
  BY <1>1, EmptySeq, LenProperties
<1>3. \A i \in 1..(Len(s) - 1) : s[i] \in S
  BY <1>1, <1>2, ElementOfSeq
<1>4. /\ SubSeq(s, 1, Len(s) - 1) \in Seq(S)
      /\ Len(SubSeq(s, 1, Len(s) - 1)) = IF 1 <= Len(s) - 1 THEN Len(s) - 1 - 1 + 1 ELSE 0
      /\ \A i \in 1..(Len(s) - 1 - 1 + 1) : SubSeq(s, 1, Len(s) - 1)[i] = s[1 + i - 1]
  BY <1>2, <1>3, SubSeqProperties
<1>5. /\ Front(s) \in Seq(S) /\ Len(Front(s)) = Len(s) - 1
      /\ \A i \in 1..(Len(s) - 1) : Front(s)[i] = s[i]
  BY <1>2, <1>4 DEF Front
<1>6. QED
  BY <1>2, <1>5, Spanned

\* The top frame exchanged for another.
LEMMA Exchanged ==
  ASSUME NEW s, Spans(s), s # <<>>, NEW f
  PROVE  /\ Spans(Append(Front(s), f)) /\ Len(Append(Front(s), f)) = Len(s)
         /\ Append(Front(s), f) # <<>>
         /\ \A i \in 1..(Len(s) - 1) : Append(Front(s), f)[i] = s[i]
         /\ Append(Front(s), f)[Len(s)] = f
<1>1. /\ Len(s) \in Nat \ {0} /\ Spans(Front(s)) /\ Len(Front(s)) = Len(s) - 1
      /\ \A i \in 1..(Len(s) - 1) : Front(s)[i] = s[i]
  BY Popped
<1>2. QED
  BY <1>1, Pushed

-----------------------------------------------------------------------------
(* The frames of some kinds of values, and the keys on a stack. *)

Places(nodes, s, kinds) == {i \in DOMAIN s : nodes[s[i].node].kind \in kinds}
KeysOf(s) == {s[i].key : i \in DOMAIN s} \ {NoKey}
Distinct(s) == \A i, j \in DOMAIN s : i # j /\ s[i].key # NoKey => s[i].key # s[j].key

LEMMA PlacesFinite ==
  ASSUME NEW nodes, NEW s, Spans(s), NEW kinds
  PROVE  /\ IsFiniteSet(Places(nodes, s, kinds)) /\ Cardinality(Places(nodes, s, kinds)) \in Nat
         /\ Places(nodes, s, kinds) \subseteq 1..Len(s)
<1>1. Places(nodes, s, kinds) \subseteq 1..Len(s)
  BY Spanning DEF Places
<1>2. IsFiniteSet(1..Len(s))
  BY Spanning, FS_Interval
<1>3. IsFiniteSet(Places(nodes, s, kinds))
  BY <1>1, <1>2, FS_Subset
<1>4. QED
  BY <1>1, <1>3, FS_CardinalityType

LEMMA PlacesPushed ==
  ASSUME NEW nodes, NEW s, Spans(s), NEW f, NEW kinds
  PROVE  LET in == nodes[f.node].kind \in kinds
             new == Places(nodes, Append(s, f), kinds)
         IN  /\ new = Places(nodes, s, kinds) \cup (IF in THEN {Len(s) + 1} ELSE {})
             /\ Cardinality(new) = Cardinality(Places(nodes, s, kinds)) + (IF in THEN 1 ELSE 0)
<1> DEFINE old == Places(nodes, s, kinds)
           new == Places(nodes, Append(s, f), kinds)
           in == nodes[f.node].kind \in kinds
<1>1. /\ Len(s) \in Nat /\ DOMAIN s = 1..Len(s) /\ DOMAIN Append(s, f) = 1..(Len(s) + 1)
      /\ \A i \in 1..Len(s) : Append(s, f)[i] = s[i]
      /\ Append(s, f)[Len(s) + 1] = f
  BY Spanning, Pushed
<1>2. new = old \cup (IF in THEN {Len(s) + 1} ELSE {})
  BY <1>1 DEF Places
<1>3. IsFiniteSet(old) /\ Cardinality(old) \in Nat /\ Len(s) + 1 \notin old
  BY <1>1, PlacesFinite
<1> HIDE DEF old, new, in
<1>4. Cardinality(new) = Cardinality(old) + (IF in THEN 1 ELSE 0)
  <2>1. CASE in
    <3>1. new = old \cup {Len(s) + 1}
      BY <1>2, <2>1
    <3>2. Cardinality(new) = Cardinality(old) + 1
      BY <1>3, <3>1, FS_AddElement
    <3>3. QED
      BY <2>1, <3>2
  <2>2. CASE ~in
    BY <1>2, <1>3, <2>2
  <2>3. QED
    BY <2>1, <2>2
<1>5. QED
  BY <1>2, <1>4 DEF old, new, in

LEMMA PlacesPopped ==
  ASSUME NEW nodes, NEW s, Spans(s), s # <<>>, NEW kinds
  PROVE  LET in == nodes[Last(s).node].kind \in kinds
             new == Places(nodes, Front(s), kinds)
         IN  /\ new = Places(nodes, s, kinds) \ {Len(s)}
             /\ Cardinality(new) = Cardinality(Places(nodes, s, kinds)) - (IF in THEN 1 ELSE 0)
<1> DEFINE old == Places(nodes, s, kinds)
           new == Places(nodes, Front(s), kinds)
           in == nodes[Last(s).node].kind \in kinds
<1>1. /\ Len(s) \in Nat \ {0} /\ DOMAIN s = 1..Len(s) /\ DOMAIN Front(s) = 1..(Len(s) - 1)
      /\ \A i \in 1..(Len(s) - 1) : Front(s)[i] = s[i]
  BY Spanning, Popped
<1>2. new = old \ {Len(s)} /\ (Len(s) \in old <=> in)
  BY <1>1 DEF Places, Last
<1>3. IsFiniteSet(old) /\ Cardinality(old) \in Nat
  BY PlacesFinite
<1> HIDE DEF old, new, in
<1>4. Cardinality(new) = IF Len(s) \in old THEN Cardinality(old) - 1 ELSE Cardinality(old)
  BY <1>2, <1>3, FS_RemoveElement
<1>5. Cardinality(new) = Cardinality(old) - (IF in THEN 1 ELSE 0)
  BY <1>2, <1>3, <1>4
<1>6. QED
  BY <1>2, <1>5 DEF old, new, in

LEMMA PlacesExchanged ==
  ASSUME NEW nodes, NEW s, Spans(s), s # <<>>, NEW f, f.node = Last(s).node, NEW kinds
  PROVE  Places(nodes, Append(Front(s), f), kinds) = Places(nodes, s, kinds)
<1>1. /\ Len(s) \in Nat \ {0} /\ DOMAIN s = 1..Len(s) /\ DOMAIN Append(Front(s), f) = 1..Len(s)
      /\ \A i \in 1..(Len(s) - 1) : Append(Front(s), f)[i] = s[i]
      /\ Append(Front(s), f)[Len(s)] = f
  BY Spanning, Popped, Exchanged
<1>2. \A i \in 1..Len(s) : Append(Front(s), f)[i].node = s[i].node
  BY <1>1, UpTo DEF Last
<1>3. QED
  BY <1>1, <1>2 DEF Places

LEMMA KeysPushed ==
  ASSUME NEW s, Spans(s), NEW f, Distinct(s), f.key = NoKey \/ f.key \notin KeysOf(s)
  PROVE  /\ KeysOf(Append(s, f)) = KeysOf(s) \cup ({f.key} \ {NoKey})
         /\ Distinct(Append(s, f))
<1>1. /\ Len(s) \in Nat /\ DOMAIN s = 1..Len(s) /\ DOMAIN Append(s, f) = 1..(Len(s) + 1)
      /\ \A i \in 1..Len(s) : Append(s, f)[i] = s[i]
      /\ Append(s, f)[Len(s) + 1] = f
  BY Spanning, Pushed
<1>2. KeysOf(Append(s, f)) = KeysOf(s) \cup ({f.key} \ {NoKey})
  <2> DEFINE t == Append(s, f)
  <2>1. ASSUME NEW k PROVE k \in KeysOf(t) <=> k # NoKey /\ ((\E i \in 1..Len(s) : k = s[i].key) \/ k = f.key)
    BY <1>1 DEF KeysOf
  <2>2. ASSUME NEW k PROVE k \in KeysOf(s) <=> k # NoKey /\ \E i \in 1..Len(s) : k = s[i].key
    BY <1>1 DEF KeysOf
  <2> HIDE DEF t
  <2>3. QED
    BY <2>1, <2>2 DEF t
<1>3. Distinct(Append(s, f))
  <2>1. ASSUME NEW i \in 1..Len(s), f.key # NoKey PROVE s[i].key # f.key
    BY <2>1, <1>1 DEF KeysOf
  <2>2. \A i \in 1..(Len(s) + 1) : i \in 1..Len(s) \/ i = Len(s) + 1
    BY <1>1, UpTo
  <2>3. QED
    BY <1>1, <2>1, <2>2 DEF Distinct
<1>4. QED
  BY <1>2, <1>3

LEMMA KeysPopped ==
  ASSUME NEW s, Spans(s), s # <<>>, Distinct(s)
  PROVE  KeysOf(Front(s)) = KeysOf(s) \ {Last(s).key} /\ Distinct(Front(s))
<1>1. /\ Len(s) \in Nat \ {0} /\ DOMAIN s = 1..Len(s) /\ DOMAIN Front(s) = 1..(Len(s) - 1)
      /\ \A i \in 1..(Len(s) - 1) : Front(s)[i] = s[i]
  BY Spanning, Popped
<1>2. Len(s) \in 1..Len(s) /\ \A i \in 1..(Len(s) - 1) : i \in 1..Len(s) /\ i # Len(s)
  <2>1. Len(s) \in Nat /\ Len(s) > 0
    BY <1>1
  <2>2. QED
    BY <2>1, UpTo
<1>3. Distinct(Front(s))
  BY <1>1, <1>2 DEF Distinct
<1>4. ASSUME NEW k PROVE k \in KeysOf(Front(s)) <=> k # NoKey /\ \E i \in 1..(Len(s) - 1) : k = s[i].key
  BY <1>1 DEF KeysOf
<1>5. ASSUME NEW k PROVE k \in KeysOf(s) <=> k # NoKey /\ \E i \in 1..Len(s) : k = s[i].key
  BY <1>1 DEF KeysOf
<1>6. \A i \in 1..(Len(s) - 1) : s[i].key # NoKey => s[i].key # s[Len(s)].key
  BY <1>1, <1>2 DEF Distinct
<1>7. \A i \in 1..Len(s) : i \in 1..(Len(s) - 1) \/ i = Len(s)
  BY <1>1, UpTo
<1>8. QED
  BY <1>2, <1>3, <1>4, <1>5, <1>6, <1>7 DEF Last

LEMMA KeysExchanged ==
  ASSUME NEW s, Spans(s), s # <<>>, Distinct(s), NEW f, f.key = Last(s).key
  PROVE  KeysOf(Append(Front(s), f)) = KeysOf(s) /\ Distinct(Append(Front(s), f))
<1>1. /\ Len(s) \in Nat \ {0} /\ DOMAIN s = 1..Len(s) /\ DOMAIN Append(Front(s), f) = 1..Len(s)
      /\ \A i \in 1..(Len(s) - 1) : Append(Front(s), f)[i] = s[i]
      /\ Append(Front(s), f)[Len(s)] = f
  BY Spanning, Popped, Exchanged
<1>2. \A i \in 1..Len(s) : Append(Front(s), f)[i].key = s[i].key
  BY <1>1, UpTo DEF Last
<1> DEFINE t == Append(Front(s), f)
<1>3. DOMAIN t = DOMAIN s /\ \A i \in DOMAIN s : t[i].key = s[i].key
  BY <1>1, <1>2
<1> HIDE DEF t
<1>4. KeysOf(t) = KeysOf(s)
  BY <1>3 DEF KeysOf
<1>5. Distinct(t)
  BY <1>3 DEF Distinct
<1>6. QED
  BY <1>4, <1>5 DEF t

-----------------------------------------------------------------------------
(* The invariant. *)

\* The kinds of the containers that go through enterContainer.
Recorded == {"slice", "map", "mapslice", "badmap"}
InLoop(p) == p \in {"child", "close"}

IsFrame(f) == f = [node |-> f.node, key |-> f.key, next |-> f.next, start |-> f.start, foot |-> f.foot]

\* The strengthening of StackBalanced: the frames are those of pointers and
\* containers, the loops run in a container, the end has no frames, and no
\* two frames hold one key.
IInv ==
  /\ pc \in {"value", "child", "return", "close", "failing", "done", "failed"}
  /\ Spans(stack) /\ Spans(path)
  /\ \A i \in DOMAIN stack : IsFrame(stack[i]) /\ Node(stack[i].node).kind \in Containers \cup {"pointer"}
  /\ InLoop(pc) => stack # <<>> /\ Node(Top.node).kind \in Containers
  /\ pc \in {"done", "failed"} => stack = <<>>
  /\ Distinct(stack)
  /\ StackBalanced

\* Balanced says of the variables' values what StackBalanced says.
Taken(p, nodes, s) ==
  IF InLoop(p) THEN Places(nodes, s, Containers) \ {Len(s)} ELSE Places(nodes, s, Containers)
Balanced(p, nodes, s, v, n, length) ==
  /\ v = KeysOf(s) /\ n = Cardinality(Places(nodes, s, Recorded))
  /\ length = Cardinality(Taken(p, nodes, s))

LEMMA BalancedNow ==
  ASSUME IInv PROVE Balanced(pc, go.nodes, stack, visited, nesting, Len(path))
BY DEF IInv, StackBalanced, Balanced, Taken, InLoop, Places, KeysOf, Recorded, Entered, Node

LEMMA BalancedNext ==
  ASSUME Balanced(pc', go'.nodes, stack', visited', nesting', Len(path')), Spans(path'),
         pc' \in {"done", "failed"} => stack' = <<>>
  PROVE  StackBalanced'
<1>1. ASSUME pc' \in {"done", "failed"} PROVE visited' = {} /\ nesting' = 0 /\ path' = <<>>
  <2>1. stack' = <<>> /\ ~InLoop(pc')
    BY <1>1 DEF InLoop
  <2>2. DOMAIN stack' = {}
    BY <2>1, EmptySeq, LenProperties
  <2>3. KeysOf(stack') = {} /\ Places(go'.nodes, stack', Recorded) = {} /\ Taken(pc', go'.nodes, stack') = {}
    BY <2>1, <2>2 DEF KeysOf, Places, Taken
  <2>4. visited' = {} /\ nesting' = 0 /\ Len(path') = 0
    BY <2>3, FS_EmptySet DEF Balanced
  <2>5. QED
    BY <2>4, Spanning
<1>2. QED
  BY <1>1 DEF StackBalanced, Balanced, Taken, InLoop, Places, KeysOf, Recorded, Entered, Node

-----------------------------------------------------------------------------
(* What an action may do to the stack. *)

USE DEF Top, Outer

\* Nothing.
LEMMA QuietStep ==
  ASSUME IInv, UNCHANGED <<go, stack, visited, nesting, path>>, ~InLoop(pc),
         pc' \in {"value", "return", "failing", "done", "failed"},
         pc' \in {"done", "failed"} => stack = <<>>
  PROVE  IInv'
<1>1. ~InLoop(pc')
  BY DEF InLoop
<1>2. Balanced(pc', go'.nodes, stack', visited', nesting', Len(path'))
  BY <1>1, BalancedNow DEF Balanced, Taken
<1>3. Spans(stack') /\ Spans(path') /\ Distinct(stack')
  BY DEF IInv
<1>4. StackBalanced'
  BY <1>2, <1>3, BalancedNext
<1>5. QED
  BY <1>1, <1>3, <1>4 DEF IInv, Node

\* A frame for the value that is encoded.
LEMMA PushStep ==
  ASSUME IInv, NEW key, key = NoKey \/ key \notin visited,
         pc = "value", go' = go, path' = path, stack' = Append(stack, Frame(val, key)),
         visited' = visited \cup ({key} \ {NoKey}),
         nesting' = IF Entered(val) THEN nesting + 1 ELSE nesting,
         \/ pc' = "value" /\ Node(val).kind = "pointer"
         \/ pc' = "child" /\ Node(val).kind \in Containers
  PROVE  IInv'
<1> DEFINE f == Frame(val, key)
<1>1. f.node = val /\ f.key = key /\ IsFrame(f)
  BY DEF Frame, IsFrame
<1>2. Spans(stack) /\ Distinct(stack) /\ Spans(path) /\ stack' = Append(stack, f)
  BY DEF IInv
<1>3. Balanced(pc, go.nodes, stack, visited, nesting, Len(path)) /\ ~InLoop(pc)
  BY BalancedNow DEF InLoop
<1>4. go'.nodes[val].kind = Node(val).kind /\ (Entered(val) <=> go.nodes[val].kind \in Recorded)
  BY DEF Node, Entered, Recorded
<1> HIDE DEF f
<1>5. KeysOf(stack') = KeysOf(stack) \cup ({key} \ {NoKey}) /\ Distinct(stack')
  BY <1>1, <1>2, <1>3, KeysPushed DEF Balanced
<1>6. /\ Len(stack) \in Nat /\ DOMAIN stack = 1..Len(stack)
      /\ Spans(stack') /\ Len(stack') = Len(stack) + 1 /\ DOMAIN stack' = 1..(Len(stack) + 1)
      /\ \A i \in 1..Len(stack) : stack'[i] = stack[i]
      /\ stack'[Len(stack) + 1] = f /\ stack' # <<>>
  BY <1>2, Pushed, Spanning
<1>7. nesting' = Cardinality(Places(go.nodes, stack', Recorded))
  <2>1. nesting = Cardinality(Places(go.nodes, stack, Recorded)) /\ nesting \in Nat
    BY <1>2, <1>3, PlacesFinite DEF Balanced
  <2>2. Cardinality(Places(go.nodes, stack', Recorded)) =
          Cardinality(Places(go.nodes, stack, Recorded)) + (IF Entered(val) THEN 1 ELSE 0)
    BY <1>1, <1>2, <1>4, PlacesPushed
  <2>3. QED
    BY <2>1, <2>2
<1>8. Taken(pc', go.nodes, stack') = Taken(pc, go.nodes, stack)
  <2>1. Places(go.nodes, stack', Containers) =
          Places(go.nodes, stack, Containers) \cup (IF Node(val).kind \in Containers THEN {Len(stack) + 1} ELSE {})
    BY <1>1, <1>2, PlacesPushed DEF Node
  <2>2. Len(stack) + 1 \notin Places(go.nodes, stack, Containers)
    BY <1>2, <1>6, PlacesFinite
  <2>3. CASE pc' = "value"
    BY <1>3, <2>1, <2>3 DEF Taken, InLoop, Containers, Lists, Objects
  <2>4. CASE pc' = "child"
    BY <1>3, <1>6, <2>1, <2>2, <2>4 DEF Taken, InLoop
  <2>5. QED
    BY <2>3, <2>4
<1>9. StackBalanced'
  <2>1. Balanced(pc', go'.nodes, stack', visited', nesting', Len(path'))
    BY <1>3, <1>5, <1>7, <1>8 DEF Balanced
  <2>2. QED
    BY <1>2, <2>1, BalancedNext
<1>10. \A i \in DOMAIN stack' : IsFrame(stack'[i]) /\ go'.nodes[stack'[i].node].kind \in Containers \cup {"pointer"}
  <2>1. \A i \in 1..Len(stack) : IsFrame(stack[i]) /\ Node(stack[i].node).kind \in Containers \cup {"pointer"}
    BY <1>6 DEF IInv
  <2>2. QED
    BY <1>1, <1>6, <2>1, UpTo DEF Node
<1>11. InLoop(pc') => stack' # <<>> /\ go'.nodes[Last(stack').node].kind \in Containers
  BY <1>1, <1>6 DEF InLoop, Node, Last
<1>12. /\ pc' \in {"value", "child", "return", "close", "failing", "done", "failed"}
       /\ pc' \in {"done", "failed"} => stack' = <<>>
       /\ Spans(stack') /\ Spans(path') /\ Distinct(stack')
  BY <1>2, <1>5, <1>6
<1>13. QED
  BY <1>9, <1>10, <1>11, <1>12 DEF IInv, Node

\* The top frame goes on to the next child, or in or out of one.
LEMMA LoopStep ==
  ASSUME IInv, NEW f, stack # <<>>, Node(Top.node).kind \in Containers,
         IsFrame(f), f.node = Top.node, f.key = Top.key,
         stack' = Append(Outer, f), UNCHANGED <<go, visited, nesting>>,
         Spans(path'), Len(path) \in Nat,
         \/ pc = "child" /\ pc' = "value" /\ Len(path') = Len(path) + 1
         \/ pc = "return" /\ InLoop(pc') /\ Len(path') = Len(path) - 1
  PROVE  IInv'
<1>1. /\ Spans(stack) /\ Distinct(stack)
      /\ \A i \in DOMAIN stack : IsFrame(stack[i]) /\ Node(stack[i].node).kind \in Containers \cup {"pointer"}
  BY DEF IInv
<1>2. Len(stack) \in Nat /\ Len(stack) > 0 /\ DOMAIN stack = 1..Len(stack)
  BY <1>1, Popped
<1>3. /\ DOMAIN stack' = 1..Len(stack)
      /\ Spans(stack') /\ Len(stack') = Len(stack) /\ stack' # <<>>
      /\ \A i \in 1..(Len(stack) - 1) : stack'[i] = stack[i]
      /\ stack'[Len(stack)] = f
  BY <1>1, Popped, Exchanged, Spanning
<1>4. \A kinds : Places(go.nodes, stack', kinds) = Places(go.nodes, stack, kinds)
  BY <1>1, PlacesExchanged
<1>5. KeysOf(stack') = KeysOf(stack) /\ Distinct(stack')
  BY <1>1, KeysExchanged
<1>6. Balanced(pc, go.nodes, stack, visited, nesting, Len(path))
  BY BalancedNow
<1>7. Len(path') = Cardinality(Taken(pc', go.nodes, stack'))
  <2> DEFINE open == Places(go.nodes, stack, Containers)
  <2>0. Len(stack) \in DOMAIN stack
    BY <1>2
  <2>1. IsFiniteSet(open) /\ Cardinality(open) \in Nat /\ Len(stack) \in open
    <3>1. Len(stack) \in open
      BY <2>0 DEF Places, Node, Last
    <3>2. QED
      BY <1>1, <3>1, PlacesFinite
  <2>2. Cardinality(open \ {Len(stack)}) = Cardinality(open) - 1
    BY <2>1, FS_RemoveElement
  <2>3. CASE pc = "child" /\ pc' = "value" /\ Len(path') = Len(path) + 1
    <3>1. Len(path) = Cardinality(open \ {Len(stack)})
      BY <1>6, <2>3 DEF Balanced, Taken, InLoop
    <3>2. Taken(pc', go.nodes, stack') = open
      BY <1>4, <2>3 DEF Taken, InLoop
    <3> HIDE DEF open
    <3>3. QED
      BY <2>1, <2>2, <2>3, <3>1, <3>2
  <2>4. CASE pc = "return" /\ InLoop(pc') /\ Len(path') = Len(path) - 1
    <3>1. Len(path) = Cardinality(open)
      BY <1>6, <2>4 DEF Balanced, Taken, InLoop
    <3>2. Taken(pc', go.nodes, stack') = open \ {Len(stack)}
      BY <1>3, <1>4, <2>4 DEF Taken
    <3> HIDE DEF open
    <3>3. QED
      BY <2>1, <2>2, <2>4, <3>1, <3>2
  <2>5. QED
    BY <2>3, <2>4
<1>8. Balanced(pc', go'.nodes, stack', visited', nesting', Len(path'))
  BY <1>4, <1>5, <1>6, <1>7 DEF Balanced
<1>9. pc' \in {"value", "child", "close"}
  BY DEF InLoop
<1>10. StackBalanced'
  BY <1>8, <1>9, BalancedNext
<1>11. \A i \in DOMAIN stack' : IsFrame(stack'[i]) /\ go'.nodes[stack'[i].node].kind \in Containers \cup {"pointer"}
  <2>1. \A i \in 1..(Len(stack) - 1) : i \in 1..Len(stack)
    BY <1>2, UpTo
  <2>2. \A i \in 1..Len(stack) : i \in 1..(Len(stack) - 1) \/ i = Len(stack)
    BY <1>2, UpTo
  <2>3. QED
    BY <1>1, <1>3, <1>2, <2>1, <2>2 DEF Node
<1>12. InLoop(pc') => stack' # <<>> /\ go'.nodes[Last(stack').node].kind \in Containers
  BY <1>3 DEF Node, Last
<1>13. QED
  BY <1>3, <1>5, <1>9, <1>10, <1>11, <1>12 DEF IInv, Node

\* The top frame returns, its key and its child's place on the path with it.
LEMMA PopStep ==
  ASSUME IInv, stack # <<>>, go' = go, stack' = Outer, visited' = Left(Top),
         nesting' = IF Entered(Top.node) THEN nesting - 1 ELSE nesting, pc' \in {"return", "failing"},
         \/ pc = "close" /\ path' = path
         \/ pc \in {"return", "failing"} /\ path' = IF Node(Top.node).kind = "pointer" THEN path ELSE Front(path)
  PROVE  IInv'
<1>1. /\ Spans(stack) /\ Distinct(stack) /\ Spans(path)
      /\ \A i \in DOMAIN stack : IsFrame(stack[i]) /\ Node(stack[i].node).kind \in Containers \cup {"pointer"}
      /\ InLoop(pc) => Node(Top.node).kind \in Containers
  BY DEF IInv
<1>2. /\ Len(stack) \in Nat \ {0} /\ DOMAIN stack = 1..Len(stack) /\ DOMAIN stack' = 1..(Len(stack) - 1)
      /\ Spans(stack') /\ Len(stack') = Len(stack) - 1
      /\ \A i \in 1..(Len(stack) - 1) : stack'[i] = stack[i]
  BY <1>1, Popped, Spanning
<1>3. Balanced(pc, go.nodes, stack, visited, nesting, Len(path))
  BY BalancedNow
<1>4. KeysOf(stack') = visited' /\ Distinct(stack')
  BY <1>1, <1>3, KeysPopped DEF Balanced, Left
<1>5. nesting' = Cardinality(Places(go.nodes, stack', Recorded))
  <2>1. nesting = Cardinality(Places(go.nodes, stack, Recorded)) /\ nesting \in Nat
    BY <1>1, <1>3, PlacesFinite DEF Balanced
  <2>2. Cardinality(Places(go.nodes, stack', Recorded)) =
          Cardinality(Places(go.nodes, stack, Recorded)) - (IF Entered(Top.node) THEN 1 ELSE 0)
    BY <1>1, PlacesPopped DEF Entered, Recorded, Node
  <2>3. QED
    BY <2>1, <2>2
<1>6. ~InLoop(pc')
  BY DEF InLoop
<1>7. Spans(path') /\ Len(path') = Cardinality(Places(go.nodes, stack', Containers))
  <2> DEFINE open == Places(go.nodes, stack, Containers)
             rest == Places(go.nodes, stack', Containers)
             held == Node(Top.node).kind \in Containers
  <2>1. rest = open \ {Len(stack)} /\ Cardinality(rest) = Cardinality(open) - (IF held THEN 1 ELSE 0)
    BY <1>1, PlacesPopped DEF Node
  <2>2. Cardinality(open) \in Nat /\ Cardinality(rest) \in Nat
    BY <1>1, <1>2, PlacesFinite
  <2>3. CASE pc = "close" /\ path' = path
    <3>1. Len(path) = Cardinality(open \ {Len(stack)})
      BY <1>3, <2>3 DEF Balanced, Taken, InLoop
    <3>2. QED
      BY <1>1, <2>1, <2>3, <3>1
  <2>4. CASE pc \in {"return", "failing"} /\ Node(Top.node).kind = "pointer" /\ path' = path
    <3>1. Len(path) = Cardinality(open) /\ ~held
      BY <1>3, <2>4 DEF Balanced, Taken, InLoop, Containers, Lists, Objects
    <3> HIDE DEF open, rest, held
    <3>2. QED
      BY <1>1, <2>1, <2>2, <2>4, <3>1 DEF rest
  <2>5. CASE pc \in {"return", "failing"} /\ Node(Top.node).kind # "pointer" /\ path' = Front(path)
    <3>1. Len(path) = Cardinality(open) /\ held
      BY <1>1, <1>2, <1>3, <2>5 DEF Balanced, Taken, InLoop, Last
    <3> HIDE DEF open, rest, held
    <3>2. Len(path) = Cardinality(rest) + 1
      BY <2>1, <2>2, <3>1
    <3>3. path # <<>>
      BY <1>1, <2>2, <3>2, Spanning
    <3>4. Spans(path') /\ Len(path') = Len(path) - 1
      BY <1>1, <2>5, <3>3, Popped
    <3>5. QED
      BY <2>2, <3>2, <3>4 DEF rest
  <2>6. QED
    BY <2>3, <2>4, <2>5
<1>8. Balanced(pc', go'.nodes, stack', visited', nesting', Len(path'))
  BY <1>4, <1>5, <1>6, <1>7 DEF Balanced, Taken
<1>9. StackBalanced'
  BY <1>7, <1>8, BalancedNext
<1>10. \A i \in DOMAIN stack' : IsFrame(stack'[i]) /\ go'.nodes[stack'[i].node].kind \in Containers \cup {"pointer"}
  <2>1. \A i \in 1..(Len(stack) - 1) : i \in 1..Len(stack)
    BY <1>2
  <2>2. QED
    BY <1>1, <1>2, <2>1 DEF Node
<1>11. QED
  BY <1>2, <1>4, <1>6, <1>7, <1>9, <1>10 DEF IInv, Node

-----------------------------------------------------------------------------
(* The actions. *)

LEMMA InitIInv == ASSUME Init PROVE IInv
<1>1. stack = <<>> /\ path = <<>> /\ DOMAIN stack = {} /\ Spans(stack) /\ Spans(path) /\ Len(path) = 0
  <2>1. <<>> \in Seq({}) /\ Len(<<>>) = 0 /\ DOMAIN <<>> = 1..0
    BY EmptySeq, LenProperties
  <2>2. Spans(<<>>)
    BY <2>1, Spanned
  <2>3. QED
    BY <2>1, <2>2 DEF Init
<1>2. KeysOf(stack) = {} /\ Places(go.nodes, stack, Recorded) = {} /\ Places(go.nodes, stack, Containers) = {}
  BY <1>1 DEF KeysOf, Places
<1>3. StackBalanced
  BY <1>1, <1>2, FS_EmptySet DEF Init, StackBalanced, KeysOf, Places, Recorded, Entered, Node
<1>4. QED
  BY <1>1, <1>3 DEF Init, IInv, Distinct, InLoop

LEMMA EncodePointerIInv == ASSUME IInv, EncodePointer PROVE IInv'
<1>1. KeyOf(val) \notin visited /\ KeyOf(val) # NoKey /\ ~Entered(val)
  BY DEF EncodePointer, Refused, KeyOf, NoKey, Entered
<1>2. QED
  BY <1>1, PushStep DEF EncodePointer

LEMMA OpenContainerIInv == ASSUME IInv, OpenContainer PROVE IInv'
<1>1. ChecksEntry(val) => KeyOf(val) \notin visited /\ KeyOf(val) # NoKey
  BY DEF OpenContainer, Refused, KeyOf, NoKey, ChecksEntry, Entered
<1>2. QED
  BY <1>1, PushStep DEF OpenContainer, EntryKey

LEMMA StartChildIInv == ASSUME IInv, StartChild PROVE IInv'
<1> DEFINE at == Append(path, Child)
           f(n) == [Top EXCEPT !.start = n]
<1>1. /\ Spans(stack) /\ Spans(path) /\ stack # <<>> /\ Node(Top.node).kind \in Containers
      /\ \A i \in DOMAIN stack : IsFrame(stack[i])
  BY DEF IInv, StartChild, InLoop
<1>2. Len(stack) \in DOMAIN stack
  BY <1>1, Popped
<1>3. IsFrame(Top)
  BY <1>1, <1>2 DEF Last
<1>4. ASSUME NEW n PROVE IsFrame(f(n)) /\ f(n).node = Top.node /\ f(n).key = Top.key
  BY <1>3 DEF IsFrame
<1>5. PICK n : stack' = Append(Outer, f(n))
  BY DEF StartChild
<1>6. path' = at /\ pc = "child" /\ pc' = "value" /\ UNCHANGED <<go, visited, nesting>>
  BY DEF StartChild
<1>7. Spans(path') /\ Len(path') = Len(path) + 1 /\ Len(path) \in Nat
  BY <1>1, <1>6, Pushed, Spanning
<1> HIDE DEF f
<1>8. QED
  BY <1>1, <1>4, <1>5, <1>6, <1>7, LoopStep

LEMMA EndChildIInv == ASSUME IInv, EndChild PROVE IInv'
<1> DEFINE f(next, foot) == [node |-> Top.node, key |-> Top.key, start |-> Top.start, next |-> next, foot |-> foot]
<1>1. /\ Spans(stack) /\ Spans(path) /\ stack # <<>> /\ Node(Top.node).kind \in Containers
      /\ \A i \in DOMAIN stack : IsFrame(stack[i])
  BY DEF IInv, EndChild
<1>2. Len(stack) \in DOMAIN stack
  BY <1>1, Popped
<1>3. ASSUME NEW next, NEW foot PROVE IsFrame(f(next, foot)) /\ f(next, foot).node = Top.node /\ f(next, foot).key = Top.key
  BY DEF IsFrame
<1>4. PICK next, foot : stack' = Append(Outer, f(next, foot))
  BY DEF EndChild
<1>5. path' = Front(path) /\ pc = "return" /\ InLoop(pc') /\ UNCHANGED <<go, visited, nesting>>
  BY DEF EndChild, PathAfter, InLoop
<1>6. path # <<>>
  <2>1. Len(path) = Cardinality(Places(go.nodes, stack, Containers))
    BY <1>5, BalancedNow DEF Balanced, Taken, InLoop
  <2>2. Len(stack) \in Places(go.nodes, stack, Containers)
    BY <1>1, <1>2 DEF Places, Node, Last
  <2>3. Cardinality(Places(go.nodes, stack, Containers)) # 0
    BY <1>1, <2>2, PlacesFinite, FS_EmptySet
  <2>4. QED
    BY <1>1, <2>1, <2>3, Spanning
<1>7. Spans(path') /\ Len(path') = Len(path) - 1 /\ Len(path) \in Nat
  BY <1>1, <1>5, <1>6, Popped, Spanning
<1> HIDE DEF f
<1>8. QED
  BY <1>1, <1>3, <1>4, <1>5, <1>7, LoopStep

LEMMA CloseContainerIInv == ASSUME IInv, CloseContainer PROVE IInv'
<1>1. stack # <<>>
  BY DEF IInv, CloseContainer, InLoop
<1>2. QED
  BY <1>1, PopStep DEF CloseContainer

LEMMA ReturnPointerIInv == ASSUME IInv, ReturnPointer PROVE IInv'
<1>1. ~Entered(Top.node)
  BY DEF ReturnPointer, Entered
<1>2. QED
  BY <1>1, PopStep DEF ReturnPointer

LEMMA UnwindIInv == ASSUME IInv, Unwind PROVE IInv'
BY PopStep DEF Unwind

LEMMA QuietIInv ==
  ASSUME IInv, WriteLeaf \/ Refuse \/ EncodeInterface \/ Finish PROVE IInv'
<1>1. ~InLoop(pc) /\ UNCHANGED <<go, stack, visited, nesting, path>>
  BY DEF WriteLeaf, Refuse, EncodeInterface, Finish, InLoop
<1>2. /\ pc' \in {"value", "return", "failing", "done", "failed"}
      /\ pc' \in {"done", "failed"} => stack = <<>>
  BY DEF WriteLeaf, Refuse, EncodeInterface, Finish
<1>3. QED
  BY <1>1, <1>2, QuietStep

LEMMA NextIInv == ASSUME IInv, [Next]_vars PROVE IInv'
<1>1. CASE UNCHANGED vars
  BY <1>1 DEF vars, IInv, StackBalanced, Spans, Distinct, IsFrame, InLoop, Node, Entered
<1>2. QED
  BY <1>1, QuietIInv, EncodePointerIInv, OpenContainerIInv, StartChildIInv, EndChildIInv,
     CloseContainerIInv, ReturnPointerIInv, UnwindIInv DEF Next

\* The strengthening holds at every step of every call of encode.
THEOREM Inductive == Spec => []IInv
BY InitIInv, NextIInv, PTL DEF Spec

\* What the encoder keeps beside its call stack agrees with it at every step:
\* the pointers taken for being on the way are those on the way, the depth
\* of maps and slices is counted right, and the path leads to the value being
\* written, on every early return too and for every value, also a cyclic one.
THEOREM StackCorrect == Spec => []StackBalanced
<1>1. IInv => StackBalanced
  BY DEF IInv
<1>2. QED
  BY <1>1, Inductive, PTL
=============================================================================
