---------------------------- MODULE LanguageProofs ----------------------------
(***************************************************************************)
(* Theorems about what parse accepts: the recursive descent, with one token *)
(* of lookahead and what its frames remember, against the language JWCC     *)
(* defines by the whole text before each token. And about its limits: the   *)
(* counters behind them and the places of the members, against the places   *)
(* JWCC gives the values, the keys and the containers of the text.          *)
(***************************************************************************)
EXTENDS DocumentProofs

-----------------------------------------------------------------------------
(* What a step never changes: the kind, key and place of a node. *)

Lasts(h, g) ==
  /\ DOMAIN h \subseteq DOMAIN g
  /\ \A n \in DOMAIN h : /\ DOMAIN g[n] = DOMAIN h[n]
                         /\ g[n].kind = h[n].kind /\ g[n].key = h[n].key /\ g[n].pos = h[n].pos

NamedNodes(h) == \A n \in DOMAIN h : {"kind", "key", "pos"} \subseteq DOMAIN h[n]

LEMMA NodesNamed == ASSUME NEW h \in Seq(Node) PROVE NamedNodes(h) /\ Lasts(h, h)
<1>1. \A n \in DOMAIN h : h[n] \in Node
  BY ElementOfSeq, LenProperties
<1>2. \A x \in Node : {"kind", "key", "pos"} \subseteq DOMAIN x
  BY DEF Node
<1>3. QED
  BY <1>1, <1>2 DEF NamedNodes, Lasts

LEMMA LastsAlong ==
  ASSUME NEW h, NEW g, NEW f, Lasts(h, g), Lasts(g, f)
  PROVE  Lasts(h, f)
BY DEF Lasts

LEMMA NamedAlong ==
  ASSUME NEW h, NEW g, NamedNodes(h), Lasts(h, g), DOMAIN g = DOMAIN h
  PROVE  NamedNodes(g)
BY DEF Lasts, NamedNodes

\* Assigning another field of a node.
LEMMA FieldLasts ==
  ASSUME NEW h, NamedNodes(h), NEW i, NEW t, NEW g,
         \/ g = [h EXCEPT ![i].headComment = t]
         \/ g = [h EXCEPT ![i].comment = t]
         \/ g = [h EXCEPT ![i].footComment = t]
         \/ g = [h EXCEPT ![i].trailComment = t]
         \/ g = [h EXCEPT ![i].children = t]
         \/ g = [h EXCEPT ![i].rawBytes = t]
  PROVE  Lasts(h, g) /\ DOMAIN g = DOMAIN h
<1>1. DOMAIN g = DOMAIN h
  OBVIOUS
<1> SUFFICES ASSUME NEW n \in DOMAIN h
             PROVE  /\ DOMAIN g[n] = DOMAIN h[n]
                    /\ g[n].kind = h[n].kind /\ g[n].key = h[n].key /\ g[n].pos = h[n].pos
  BY <1>1 DEF Lasts
<1>2. {"kind", "key", "pos"} \subseteq DOMAIN h[n]
  BY DEF NamedNodes
<1>3. CASE g = [h EXCEPT ![i].headComment = t]
  BY <1>2, <1>3
<1>4. CASE g = [h EXCEPT ![i].comment = t]
  BY <1>2, <1>4
<1>5. CASE g = [h EXCEPT ![i].footComment = t]
  BY <1>2, <1>5
<1>6. CASE g = [h EXCEPT ![i].trailComment = t]
  BY <1>2, <1>6
<1>7. CASE g = [h EXCEPT ![i].children = t]
  BY <1>2, <1>7
<1>8. CASE g = [h EXCEPT ![i].rawBytes = t]
  BY <1>2, <1>8
<1>9. QED
  BY <1>3, <1>4, <1>5, <1>6, <1>7, <1>8

LEMMA AppendLasts ==
  ASSUME NEW h \in Seq(Node), NEW x \in Node
  PROVE  Lasts(h, Append(h, x))
<1>1. /\ Len(h) \in Nat /\ DOMAIN h = 1..Len(h)
      /\ Append(h, x) \in Seq(Node) /\ Len(Append(h, x)) = Len(h) + 1
      /\ \A n \in 1..Len(h) : Append(h, x)[n] = h[n]
  BY LenProperties
<1>2. DOMAIN Append(h, x) = 1..Len(h) + 1
  BY <1>1, LenProperties
<1>3. QED
  BY <1>1, <1>2 DEF Lasts

\* What the actions that assign several fields do, one field after another.
LEMMA SeveralLasts ==
  ASSUME IInv, AppendElement \/ CloseContainer
  PROVE  Lasts(heap, heap')
<1>1. NamedNodes(heap)
  BY Facts, NodesNamed
<1>2. CASE AppendElement
  <2> DEFINE h == [heap EXCEPT ![val].headComment = heap[val].headComment \o Top.pendingHead]
             g == [h EXCEPT ![Top.node].children = Append(h[Top.node].children, val)]
  <2>1. Lasts(heap, h) /\ DOMAIN h = DOMAIN heap
    BY <1>1, FieldLasts
  <2>2. heap' = g
    BY <1>2 DEF AppendElement
  <2>3. NamedNodes(h)
    BY <1>1, <2>1, NamedAlong
  <2> HIDE DEF h
  <2>4. Lasts(h, g)
    BY <2>3, FieldLasts
  <2>5. QED
    BY <2>1, <2>2, <2>4, LastsAlong
<1>3. CASE CloseContainer
  <2> DEFINE i == Top.node
             kids == IF Top.removed > 0 THEN RemoveNil(heap[i].children) ELSE heap[i].children
             h == [heap EXCEPT ![i].children = kids]
             g == [h EXCEPT ![i].footComment = h[i].footComment \o NonBlank(acc)]
             f == [g EXCEPT ![i].rawBytes = Span]
  <2>1. Lasts(heap, h) /\ DOMAIN h = DOMAIN heap
    <3> HIDE DEF kids
    <3>1. QED
      BY <1>1, FieldLasts
  <2>2. heap' = f
    BY <1>3 DEF CloseContainer
  <2>3. NamedNodes(h)
    BY <1>1, <2>1, NamedAlong
  <2> HIDE DEF h
  <2>4. Lasts(h, g) /\ DOMAIN g = DOMAIN h
    BY <2>3, FieldLasts
  <2>5. NamedNodes(g)
    BY <2>3, <2>4, NamedAlong
  <2> HIDE DEF g
  <2>6. Lasts(g, f)
    BY <2>5, FieldLasts
  <2>7. QED
    BY <2>1, <2>2, <2>4, <2>6, LastsAlong
<1>4. QED
  BY <1>2, <1>3

\* The nodes the allocations make.
LEMMA Allocated ==
  ASSUME IInv, ParseScalar \/ OpenContainer \/ MakeMember
  PROVE  \E x \in Node :
           /\ heap' = Append(heap, x)
           /\ ParseScalar => x.kind = "scalar" /\ x.pos = At
           /\ OpenContainer => x.kind = (IF Look.k = "{" THEN "object" ELSE "array") /\ x.pos = At
           /\ MakeMember => x.kind = "member" /\ x.pos = Top.keyPos /\ x.key = Top.key
           /\ x.children = IF MakeMember THEN <<val>> ELSE <<>>
<1>1. CASE ParseScalar
  <2> DEFINE x == NewNode("scalar", NoText, At)
  <2>1. x \in Node /\ x.kind = "scalar" /\ x.pos = At /\ x.children = <<>>
    BY Facts, NewNodeType DEF NewNode
  <2>2. heap' = Append(heap, x) /\ pc # "return" /\ Look.k \notin Openers
    BY <1>1 DEF ParseScalar, ExpectsValue, Scalars, Openers
  <2> HIDE DEF x
  <2>3. QED
    BY <2>1, <2>2 DEF OpenContainer, MakeMember
<1>2. CASE OpenContainer
  <2> DEFINE kind == IF Look.k = "{" THEN "object" ELSE "array"
             x == NewNode(kind, NoText, At)
  <2>1. x \in Node /\ x.kind = kind /\ x.pos = At /\ x.children = <<>>
    BY Facts, NewNodeType DEF NewNode
  <2>2. heap' = Append(heap, x) /\ pc # "return" /\ Look.k \notin Scalars
    BY <1>2 DEF OpenContainer, ExpectsValue, Scalars, Openers
  <2> HIDE DEF x
  <2>3. QED
    BY <2>1, <2>2 DEF ParseScalar, MakeMember
<1>3. CASE MakeMember
  <2> DEFINE n == NewNode("member", Top.key, Top.keyPos)
  <2>1. stack # <<>> /\ pc = "return" /\ heap' = Append(heap, Member)
    BY <1>3 DEF MakeMember, InObject
  <2>2. Top.key \in Keys \cup {NoText} /\ Top.keyPos \in Nat /\ Top.pendingHead \in Text
    BY <2>1, FrameTypes DEF Frame
  <2>3. n \in Node /\ n.kind = "member" /\ n.pos = Top.keyPos /\ n.key = Top.key
    BY <2>2, NewNodeType DEF NewNode
  <2>4. <<val>> \in Seq(Nat)
    BY Facts
  <2>5. Member = [n EXCEPT !.headComment = Top.pendingHead, !.children = <<val>>]
    BY DEF Member
  <2> HIDE DEF n
  <2>6. /\ Member \in Node /\ Member.kind = "member" /\ Member.pos = Top.keyPos
        /\ Member.key = Top.key /\ Member.children = <<val>>
    BY <2>2, <2>3, <2>4, <2>5 DEF Node
  <2>7. QED
    BY <1>3, <2>1, <2>6 DEF ParseScalar, OpenContainer, ExpectsValue
<1>4. QED
  BY <1>1, <1>2, <1>3

LEMMA NodesLast == ASSUME IInv, [Next]_vars PROVE Lasts(heap, heap')
<1>1. heap \in Seq(Node) /\ NamedNodes(heap) /\ Lasts(heap, heap)
  BY Facts, NodesNamed
<1>2. CASE ParseScalar \/ OpenContainer \/ MakeMember
  BY <1>1, <1>2, Allocated, AppendLasts
<1>3. CASE AppendElement \/ CloseContainer
  BY <1>3, SeveralLasts
<1>4. CASE \E i, t : \/ heap' = [heap EXCEPT ![i].headComment = t]
                     \/ heap' = [heap EXCEPT ![i].comment = t]
                     \/ heap' = [heap EXCEPT ![i].footComment = t]
                     \/ heap' = [heap EXCEPT ![i].trailComment = t]
                     \/ heap' = [heap EXCEPT ![i].children = t]
  BY <1>1, <1>4, FieldLasts
<1>5. CASE UNCHANGED heap
  BY <1>1, <1>5
<1>6. CASE InsertMember
  BY <1>4, <1>6 DEF InsertMember
<1>7. CASE Separator \/ CloseAhead \/ AttachAfterComma
  <2>1. \/ heap' = [heap EXCEPT ![Current].footComment = heap[Current].footComment \o NonBlank(acc)]
        \/ heap' = [heap EXCEPT ![Top.node].footComment = heap[Top.node].footComment \o NonBlank(acc)]
        \/ heap' = [heap EXCEPT ![Current].comment = Inline]
        \/ heap' = [heap EXCEPT ![Current].footComment = heap[Current].footComment \o Inline]
    BY <1>7 DEF Separator, CloseAhead, AttachAfterComma, Attach
  <2>2. QED
    BY <1>4, <2>1
<1>8. CASE ReturnContainer \/ InlineComment \/ RootInline
  BY <1>4, <1>5, <1>8 DEF ReturnContainer, InlineComment, RootInline
<1>9. CASE ReturnRoot \/ Finish
  <2>1. \/ heap' = [heap EXCEPT ![val].headComment = lead \o heap[val].headComment]
        \/ heap' = [heap EXCEPT ![val].trailComment = heap[val].trailComment \o NonBlank(acc)]
    BY <1>9 DEF ReturnRoot, Finish
  <2>2. QED
    BY <1>4, <2>1
<1>10. CASE \/ Scan \/ OverNodes \/ TooDeep \/ NotAValue \/ CollectHeadComments
            \/ SkipDroppedComments \/ StrictTrailingComma \/ ParseKey \/ NotAKey \/ ParseColon
            \/ NotAColon \/ RefuseDuplicate \/ NotASeparator
            \/ BeginRoot \/ NoRoot \/ ConsumeTrailing \/ ExtraData \/ UNCHANGED vars
  <2>1. UNCHANGED heap
    BY <1>10 DEF Scan, OverNodes, TooDeep, NotAValue, CollectHeadComments,
       SkipDroppedComments, StrictTrailingComma, ParseKey, NotAKey, ParseColon, NotAColon,
       RefuseDuplicate, NotASeparator, BeginRoot, NoRoot, ConsumeTrailing, ExtraData, vars, pvars
  <2>2. QED
    BY <1>5, <2>1
<1>11. QED
  BY <1>2, <1>3, <1>6, <1>7, <1>8, <1>9, <1>10 DEF Next, ParseValue

-----------------------------------------------------------------------------
(* What a step does to the frames. *)

SameKey(f, g) == g.node = f.node /\ g.key = f.key /\ g.keyPos = f.keyPos
FramesKept ==
  /\ Len(stack') = Len(stack)
  /\ \A i \in 1..Len(stack) : /\ stack'[i].node = stack[i].node
                              /\ SameKey(stack[i], stack'[i]) \/ (ParseKey /\ i = Len(stack))

LEMMA SetTopAt ==
  ASSUME IInv, NEW f \in Frame, SetTop(f), stack # <<>>
  PROVE  /\ Len(stack') = Len(stack) /\ stack' \in Seq(Frame)
         /\ \A i \in 1..Len(stack) : stack'[i] = IF i = Len(stack) THEN f ELSE stack[i]
BY Facts, StackUpdate DEF SetTop

LEMMA SetTopKept ==
  ASSUME IInv, NEW f \in Frame, SetTop(f), stack # <<>>, SameKey(Top, f)
  PROVE  FramesKept
<1>1. /\ Len(stack') = Len(stack)
      /\ \A i \in 1..Len(stack) : stack'[i] = IF i = Len(stack) THEN f ELSE stack[i]
  BY SetTopAt
<1>2. \A i \in 1..Len(stack) : SameKey(stack[i], stack'[i])
  BY <1>1 DEF SameKey, Top
<1>3. QED
  BY <1>1, <1>2 DEF FramesKept, SameKey

LEMMA HoldHeadKept ==
  ASSUME IInv
  PROVE  Len(HoldHead) = Len(stack) /\ \A i \in 1..Len(stack) : SameKey(stack[i], HoldHead[i])
<1> DEFINE i == Len(stack)
           f == [stack[i] EXCEPT !.pendingHead = NonBlank(acc)]
<1>1. ASSUME i \in 1..Len(stack) PROVE f \in Frame /\ SameKey(stack[i], f)
  <2>1. stack[i] \in Frame
    BY <1>1, Facts, ElementOfSeq
  <2>2. QED
    BY <2>1, Facts, FrameUpdate DEF SameKey, Frame
<1>2. HoldHead = stack \/ HoldHead = [stack EXCEPT ![i] = f]
  BY DEF HoldHead
<1> HIDE DEF f
<1>3. \A j \in 1..Len(stack) : SameKey(stack[j], stack[j])
  BY DEF SameKey
<1>4. CASE HoldHead = [stack EXCEPT ![i] = f]
  <2>1. /\ Len(HoldHead) = Len(stack)
        /\ \A j \in 1..Len(stack) : HoldHead[j] = IF j = i THEN f ELSE stack[j]
    BY <1>1, <1>4, Facts, StackUpdate
  <2>2. QED
    BY <1>1, <1>3, <2>1
<1>5. QED
  BY <1>2, <1>3, <1>4

\* The frame an insertion leaves on top.
LEMMA InsertedFrame ==
  ASSUME IInv, InsertMember, pc' # "error"
  PROVE  \E f \in Frame : SetTop(f) /\ SameKey(Top, f) /\ f.justConsumedComma = FALSE
<1> DEFINE i == Duplicate
           children == Superseding(Container.children, i)
           found == [Top EXCEPT !.removed = IF i = 0 THEN @ ELSE @ + 1,
                                !.pendingHead = <<>>, !.justConsumedComma = FALSE]
           f == AddToIndex(children, found)
<1>1. stack # <<>>
  BY DEF InsertMember, IInv, InsideContainer
<1>2. Top \in Frame /\ Top.removed \in Nat
  BY <1>1, FrameTypes DEF Frame
<1>3. SetTop(f)
  BY DEF InsertMember, Fail, Stop
<1>4. found \in Frame /\ SameKey(Top, found) /\ found.justConsumedComma = FALSE
  <2>1. Top.removed + 1 \in Nat
    BY <1>2
  <2> HIDE DEF i
  <2>2. QED
    BY <1>2, <2>1, EmptySeq DEF Frame, Text, SameKey
<1>5. children \in Seq(Nat)
  <2>1. Container.children \in Seq(Nat) /\ val \in Nat
    BY <1>1, FrameTypes, Facts DEF Node
  <2>2. [Container.children EXCEPT ![i] = 0] \in Seq(Nat)
    BY <2>1, ExceptNat
  <2> HIDE DEF i
  <2>3. QED
    BY <2>1, <2>2, AppendProperties DEF Superseding
<1> HIDE DEF found, children
<1>6. f \in Frame
  BY <1>4, <1>5, AddToIndexType
<1>7. SameKey(found, f) /\ f.justConsumedComma = found.justConsumedComma
  BY <1>4 DEF AddToIndex, SameKey, Frame
<1>8. QED
  BY <1>3, <1>4, <1>6, <1>7 DEF SameKey

LEMMA TopAssigned ==
  ASSUME IInv, AppendElement \/ ParseKey \/ (Separator /\ stack # <<>>)
  PROVE  /\ stack # <<>>
         /\ \E f \in Frame :
              /\ SetTop(f) /\ f.node = Top.node
              /\ AppendElement => SameKey(Top, f) /\ f.justConsumedComma = FALSE
              /\ Separator => SameKey(Top, f) /\ f.justConsumedComma = TRUE
              /\ ParseKey => f.key = Look.v /\ f.keyPos = At
<1>1. stack # <<>>
  BY DEF AppendElement, ParseKey, InArray, InObject
<1>2. Top \in Frame
  BY <1>1, FrameTypes
<1>3. CASE AppendElement
  <2> DEFINE f == [Top EXCEPT !.pendingHead = <<>>, !.justConsumedComma = FALSE]
  <2>1. SetTop(f) /\ pc = "return"
    BY <1>3 DEF AppendElement
  <2>2. f \in Frame /\ SameKey(Top, f) /\ f.justConsumedComma = FALSE
    BY <1>2, EmptySeq DEF Frame, Text, SameKey
  <2> HIDE DEF f
  <2>3. QED
    BY <1>1, <2>1, <2>2 DEF SameKey, ParseKey, Separator
<1>4. CASE Separator
  <2> DEFINE f == [Top EXCEPT !.justConsumedComma = TRUE]
  <2>1. SetTop(f) /\ pc = "between"
    BY <1>4 DEF Separator
  <2>2. f \in Frame /\ SameKey(Top, f) /\ f.justConsumedComma = TRUE
    BY <1>2 DEF Frame, SameKey
  <2> HIDE DEF f
  <2>3. QED
    BY <1>1, <2>1, <2>2 DEF SameKey, ParseKey, AppendElement
<1>5. CASE ParseKey
  <2> DEFINE f == [Top EXCEPT !.pendingHead = NonBlank(acc), !.key = Look.v, !.keyPos = At]
  <2>1. SetTop(f) /\ pc = "loop" /\ Sees({"str"})
    BY <1>5 DEF ParseKey
  <2>2. At > 0
    BY <2>1, Facts, EmptySeq DEF Sees, IInv, HeldToken, At
  <2>3. Look.v \in Keys
    BY <2>1, <2>2, TokenTypes DEF Sees, IInv
  <2>4. f \in Frame /\ f.node = Top.node /\ f.key = Look.v /\ f.keyPos = At
    BY <1>2, <2>3, Facts DEF Frame
  <2> HIDE DEF f
  <2>5. QED
    BY <1>1, <2>1, <2>4 DEF Separator, AppendElement
<1>6. QED
  BY <1>3, <1>4, <1>5

LEMMA FramesLast ==
  ASSUME IInv, [Next]_vars
  PROVE  \/ pc' = "error" /\ stack' = <<>>
         \/ OpenContainer \/ ReturnContainer
         \/ FramesKept
<1>1. UNCHANGED stack => FramesKept
  BY DEF FramesKept, SameKey
<1>2. CASE \/ OverNodes \/ TooDeep \/ NotAValue \/ StrictTrailingComma \/ NotAKey \/ NotAColon
           \/ RefuseDuplicate \/ NotASeparator \/ NoRoot \/ ExtraData
  BY <1>2 DEF OverNodes, TooDeep, NotAValue, StrictTrailingComma, NotAKey, NotAColon,
         RefuseDuplicate, NotASeparator, NoRoot, ExtraData, Fail, Stop
<1>3. CASE AppendElement \/ Separator \/ ParseKey
  <2>1. CASE stack = <<>>
    <3>1. Separator
      BY <1>3, <2>1 DEF AppendElement, ParseKey, InArray, InObject
    <3>2. PICK f : SetTop(f)
      BY <3>1 DEF Separator
    <3>3. stack' = stack
      BY <2>1, <3>2, EmptySeq DEF SetTop
    <3>4. QED
      BY <1>1, <3>3
  <2>2. CASE stack # <<>>
    <3>1. PICK f \in Frame : /\ SetTop(f) /\ f.node = Top.node
                             /\ SameKey(Top, f) \/ ParseKey
      BY <1>3, <2>2, TopAssigned
    <3>2. CASE SameKey(Top, f)
      BY <2>2, <3>1, <3>2, SetTopKept
    <3>3. CASE ParseKey
      <4>1. /\ Len(stack') = Len(stack)
            /\ \A i \in 1..Len(stack) : stack'[i] = IF i = Len(stack) THEN f ELSE stack[i]
        BY <2>2, <3>1, SetTopAt
      <4>2. QED
        BY <3>1, <3>3, <4>1 DEF FramesKept, SameKey, Top
    <3>4. QED
      BY <3>1, <3>2, <3>3
  <2>3. QED
    BY <2>1, <2>2
<1>4. CASE InsertMember
  <2>1. CASE pc' = "error"
    BY <1>4, <2>1 DEF InsertMember, Fail, Stop
  <2>2. CASE pc' # "error"
    <3>1. stack # <<>>
      BY <1>4 DEF InsertMember, IInv, InsideContainer
    <3>2. QED
      BY <1>4, <2>2, <3>1, InsertedFrame, SetTopKept
  <2>3. QED
    BY <2>1, <2>2
<1>5. CASE ParseScalar
  <2>1. stack' = HoldHead
    BY <1>5 DEF ParseScalar
  <2>2. QED
    BY <2>1, HoldHeadKept DEF FramesKept, SameKey
<1>6. CASE \/ Scan \/ CollectHeadComments \/ SkipDroppedComments \/ ParseColon \/ CloseContainer
           \/ MakeMember \/ InlineComment \/ CloseAhead \/ AttachAfterComma
           \/ BeginRoot \/ ReturnRoot \/ RootInline \/ ConsumeTrailing \/ Finish \/ UNCHANGED vars
  <2>1. UNCHANGED stack
    BY <1>6 DEF Scan, CollectHeadComments, SkipDroppedComments, ParseColon, CloseContainer,
       MakeMember, InlineComment, CloseAhead, AttachAfterComma, BeginRoot, ReturnRoot,
       RootInline, ConsumeTrailing, Finish, vars, pvars
  <2>2. QED
    BY <1>1, <2>1
<1>7. QED
  BY <1>2, <1>3, <1>4, <1>5, <1>6 DEF Next, ParseValue

\* The two steps that open and leave a container.
LEMMA FramesOpened ==
  ASSUME IInv, OpenContainer
  PROVE  /\ Len(stack') = Len(stack) + 1
         /\ stack'[Len(stack) + 1] = NewFrame(Len(heap) + 1)
         /\ \A i \in 1..Len(stack) : SameKey(stack[i], stack'[i])
<1>1. HoldHead \in Seq(Frame) /\ NewFrame(Len(heap) + 1) \in Frame
  BY HoldHeadType, NewFrameType, Facts
<1>2. stack' = Append(HoldHead, NewFrame(Len(heap) + 1))
  BY DEF OpenContainer
<1>3. QED
  BY <1>1, <1>2, HoldHeadKept, Facts, AppendProperties

LEMMA FramesLeft ==
  ASSUME IInv, ReturnContainer
  PROVE  /\ stack # <<>> /\ Len(stack') = Len(stack) - 1
         /\ \A i \in 1..Len(stack') : stack'[i] = stack[i]
<1>1. stack # <<>> /\ stack' = Front(stack)
  BY DEF ReturnContainer, IInv, InsideContainer
<1>2. QED
  BY <1>1, Facts, FrontType

-----------------------------------------------------------------------------
(* The inductive invariant, beside IInv and Indexed. *)

\* The last significant token consumed.
Prior == Before(input, Consumed + 1)

\* The opening delimiters of the frames, and how many of them are still open:
\* parseObject and parseArray read a comment between the closing delimiter
\* and their return.
Opened == [m \in 1..Len(stack) |-> heap[stack[m].node].pos]
Live == IF pc = "closed" THEN Len(stack) - 1 ELSE Len(stack)

\* The frames are the containers the text has open, each of its own kind.
Balanced ==
  pc # "error" =>
    /\ Nests(input, Consumed, Live, Opened)
    /\ \A m \in 1..Live : <<heap[stack[m].node].kind, input[Opened[m]].k>>
                            \in {<<"object", "{">>, <<"array", "[">>}

\* What pc and justConsumedComma say of the last significant token.
AfterValue == Prior # 0 /\ EndsValue(input, Prior)
AfterComma == Prior # 0 /\ input[Prior].k = ","
AfterValuePlaces == {"return", "insert", "inline", "between", "closed", "rootInline", "trail"}
ValueAwaited ==
  /\ pc \in {"lead", "value"} => Prior = 0 /\ stack = <<>>
  /\ pc = "value" => have /\ Look.k \notin Comments \cup {"nl", "eof"}
  /\ pc = "colon" => Prior # 0 /\ IsKey(input, Prior)
  /\ pc = "keyValue" => Prior # 0 /\ input[Prior].k = ":"
ValueRead ==
  /\ pc \in {"rootInline", "trail", "done"} => stack = <<>>
  /\ pc \in AfterValuePlaces => AfterValue
  /\ pc \in {"inline", "between"} => stack # <<>> /\ Top.justConsumedComma = FALSE
CommaRead ==
  /\ pc = "afterComma" => stack # <<>> /\ AfterComma /\ Top.justConsumedComma = TRUE
  /\ pc = "loop" =>
       /\ stack # <<>>
       /\ \/ Prior = Opened[Len(stack)] /\ Top.justConsumedComma = FALSE
          \/ AfterComma /\ Top.justConsumedComma = TRUE
          \/ AfterValue /\ SeesClose /\ Top.justConsumedComma = FALSE
Located == ValueAwaited /\ ValueRead /\ CommaRead
Parsing == Balanced /\ Located /\ LanguageExact

LEMMA ConsumedType == ASSUME IInv PROVE Consumed \in Nat /\ (have => At \in Nat \ {0})
<1>1. have => At # 0
  BY Facts, EmptySeq DEF IInv, HeldToken, At
<1>2. QED
  BY <1>1, Facts DEF Consumed

-----------------------------------------------------------------------------
(* What a step does to the tokens consumed. *)

\* The scanner appends a token, or nothing is consumed but perhaps a comment
\* or a line break.
Quiet ==
  \/ Scan
  \/ UNCHANGED <<input, have>>
  \/ have /\ have' = FALSE /\ UNCHANGED input /\ IsBlankSpace(Look)
PriorKept ==
  /\ Prior' = Prior
  /\ Prior # 0 => /\ input'[Prior].k = input[Prior].k
                  /\ IsKey(input', Prior) <=> IsKey(input, Prior)
                  /\ EndsValue(input', Prior) <=> EndsValue(input, Prior)

\* The tokens consumed can begin a text, and n containers are open after
\* them, those whose opening delimiters P gives.
Read(n, P) == Viable(input, Consumed, StrictJSON) /\ Nests(input, Consumed, n, P)

LEMMA ViableNext ==
  ASSUME NEW s, NEW c \in Nat, NEW strict, Viable(s, c, strict), Allowed(s, c + 1, strict)
  PROVE  Viable(s, c + 1, strict)
<1>1. \A i \in 1..c + 1 : i \in 1..c \/ i = c + 1
  OBVIOUS
<1>2. QED
  BY <1>1 DEF Viable

LEMMA ScanRead ==
  ASSUME IInv, Scan, NEW n \in Nat, NEW P, Read(n, P)
  PROVE  Read(n, P)' /\ PriorKept /\ Consumed' = Consumed /\ Agree(input, input', Consumed)
<1>1. PICK t \in Alphabet : ~have /\ input' = Append(input, t) /\ have' = TRUE
  BY DEF Scan
<1>2. /\ input \in Seq(Alphabet) /\ Len(input) \in Nat /\ Len(input') = Len(input) + 1
      /\ \A i \in 1..Len(input) : input'[i] = input[i]
  BY <1>1, Facts, LenProperties
<1>3. PICK c \in Nat : c = Len(input) /\ c = Consumed /\ c = Consumed'
  BY <1>1, <1>2 DEF Consumed, At
<1>4. Agree(input, input', c)
  BY <1>2, <1>3 DEF Agree
<1>5. Viable(input', c, StrictJSON) /\ Nests(input', c, n, P)
  BY <1>3, <1>4, AgreeViable, AgreeNests DEF Read
<1>6. Before(input', c + 1) = Before(input, c + 1)
  <2>1. c + 1 \in 1..c + 1
    OBVIOUS
  <2>2. QED
    BY <1>4, <2>1, AgreeBefore
<1>7. PICK p \in Nat : p = Before(input, c + 1) /\ (p # 0 => p \in 1..c)
  BY BeforeType
<1>8. Prior = p /\ Prior' = p
  BY <1>3, <1>6, <1>7 DEF Prior
<1>9. p # 0 => /\ input'[p].k = input[p].k
               /\ IsKey(input', p) <=> IsKey(input, p)
               /\ EndsValue(input', p) <=> EndsValue(input, p)
  BY <1>4, <1>7, AgreeKey, AgreeEnds DEF Agree
<1>10. QED
  BY <1>3, <1>4, <1>5, <1>8, <1>9 DEF Read, PriorKept

LEMMA BlankRead ==
  ASSUME IInv, have, have' = FALSE, UNCHANGED input, IsBlankSpace(Look),
         NEW n \in Nat, NEW P, Read(n, P)
  PROVE  Read(n, P)' /\ PriorKept /\ Consumed' = Consumed + 1
<1>1. PICK c \in Nat : c = Consumed /\ At = c + 1 /\ Consumed' = c + 1
  BY ConsumedType DEF Consumed, At
<1>2. IsBlankSpace(input[c + 1])
  BY <1>1 DEF Look
<1>3. Allowed(input, c + 1, StrictJSON)
  BY <1>2 DEF Allowed
<1>4. Viable(input, c + 1, StrictJSON)
  BY <1>1, <1>3, ViableNext DEF Read
<1>5. Nests(input, c + 1, n, P)
  <2>1. ~Opens(input[c + 1]) /\ ~Closes(input[c + 1])
    BY <1>2 DEF Opens, Closes, IsBlankSpace, IsComment
  <2>2. QED
    BY <1>1, <2>1, NestsKept DEF Read
<1>6. Before(input, c + 1 + 1) = Before(input, c + 1)
  BY <1>2, BeforeNext
<1>7. Prior' = Prior
  BY <1>1, <1>6 DEF Prior
<1>8. QED
  BY <1>1, <1>4, <1>5, <1>7 DEF Read, PriorKept

LEMMA QuietRead ==
  ASSUME IInv, Quiet, NEW n \in Nat, NEW P, Read(n, P)
  PROVE  /\ Read(n, P)' /\ PriorKept
         /\ \A i \in 1..Consumed : input'[i] = input[i]
<1>1. CASE Scan
  BY <1>1, ScanRead DEF Agree
<1>2. CASE UNCHANGED <<input, have>>
  <2>1. Consumed' = Consumed
    BY <1>2 DEF Consumed, At
  <2>2. Prior' = Prior
    BY <1>2, <2>1 DEF Prior
  <2>3. QED
    BY <1>2, <2>1, <2>2 DEF Read, PriorKept
<1>3. CASE have /\ have' = FALSE /\ UNCHANGED input /\ IsBlankSpace(Look)
  BY <1>3, BlankRead
<1>4. QED
  BY <1>1, <1>2, <1>3 DEF Quiet

\* A significant token is consumed.
LEMMA TokenRead ==
  ASSUME IInv, have, have' = FALSE, UNCHANGED input, ~IsBlankSpace(Look),
         Allowed(input, At, StrictJSON), NEW n \in Nat, NEW P, Read(n, P)
  PROVE  /\ Prior' = At /\ Prior' # 0 /\ Consumed' = At /\ At = Consumed + 1
         /\ ~Opens(Look) /\ ~Closes(Look) => Read(n, P)'
         /\ Closes(Look) /\ n # 0 => Read(n - 1, P)'
         /\ \A Q : Opens(Look) /\ (\A m \in 1..n : Q[m] = P[m]) /\ Q[n + 1] = At => Read(n + 1, Q)'
<1>1. PICK c \in Nat : c = Consumed /\ At = c + 1 /\ Consumed' = c + 1
  BY ConsumedType DEF Consumed, At
<1>2. Look = input[c + 1]
  BY <1>1 DEF Look
<1>3. Viable(input, c + 1, StrictJSON) /\ Nests(input, c, n, P)
  BY <1>1, ViableNext DEF Read
<1>4. Before(input, c + 1 + 1) = c + 1
  BY <1>2, BeforeNext
<1>5. Prior' = c + 1
  BY <1>1, <1>4 DEF Prior
<1>6. ~Opens(Look) /\ ~Closes(Look) => Nests(input, c + 1, n, P)
  BY <1>2, <1>3, NestsKept
<1>7. Closes(Look) /\ n # 0 => Nests(input, c + 1, n - 1, P)
  BY <1>2, <1>3, NestsClosed
<1>8. ASSUME NEW Q, Opens(Look), \A m \in 1..n : Q[m] = P[m], Q[n + 1] = At
      PROVE  Nests(input, c + 1, n + 1, Q)
  BY <1>1, <1>2, <1>3, <1>8, NestsOpened
<1>9. QED
  BY <1>1, <1>3, <1>5, <1>6, <1>7, <1>8 DEF Read

-----------------------------------------------------------------------------
(* What the parser knows of the lookahead. *)

LEMMA LiveType ==
  ASSUME IInv
  PROVE  Live \in 0..Len(stack) /\ Live \in Nat
<1>1. pc = "closed" => Len(stack) # 0
  BY Facts, EmptySeq DEF IInv, InsideContainer
<1>2. QED
  BY <1>1, Facts DEF Live

LEMMA StackEmpty == ASSUME IInv PROVE stack = <<>> <=> Len(stack) = 0
BY Facts, EmptySeq

\* The container around the lookahead is the innermost frame's.
LEMMA AheadFacts ==
  ASSUME IInv, Parsing, have, pc \notin {"closed", "error"}
  PROVE  /\ Prior = Before(input, At)
         /\ Around(input, At) = IF stack = <<>> THEN 0 ELSE Opened[Len(stack)]
         /\ Around(input, At) = 0 <=> stack = <<>>
         /\ Within(input, At, "{") <=> InObject
         /\ Within(input, At, "[") <=> InArray
         /\ stack # <<>> => /\ InObject <=> ~InArray
                            /\ input[Opened[Len(stack)]].k = IF InObject THEN "{" ELSE "["
<1>1. PICK c \in Nat : c = Consumed /\ At = c + 1
  BY ConsumedType DEF Consumed
<1>2. PICK n \in Nat : n = Len(stack) /\ n = Live
  BY Facts DEF Live
<1>3. PICK P : P = Opened
  OBVIOUS
<1>4. Nests(input, c, n, P)
  BY <1>1, <1>2, <1>3 DEF Parsing, Balanced
<1>5. Around(input, c + 1) = IF n = 0 THEN 0 ELSE P[n]
  BY <1>4, NestsAround
<1>6. n # 0 => P[n] \in 1..c
  <2>1. n # 0 => n \in 1..n
    OBVIOUS
  <2>2. QED
    BY <1>4, <2>1, NestsPlaces
<1>7. stack = <<>> <=> n = 0
  BY <1>2, StackEmpty
<1>8. Around(input, At) = IF stack = <<>> THEN 0 ELSE P[n]
  BY <1>1, <1>5, <1>7
<1>9. n # 0 => <<heap[stack[n].node].kind, input[P[n]].k>> \in {<<"object", "{">>, <<"array", "[">>}
  <2>1. n # 0 => n \in 1..Live
    BY <1>2
  <2>2. QED
    BY <1>3, <2>1 DEF Parsing, Balanced
<1>10. Container.kind = heap[stack[n].node].kind
  BY <1>2 DEF Container, Top
<1>11. Prior = Before(input, At)
  BY <1>1 DEF Prior
<1>12. CASE stack = <<>>
  BY <1>3, <1>8, <1>11, <1>12 DEF Within, InObject, InArray
<1>13. CASE stack # <<>>
  <2>1. /\ Around(input, At) = P[n] /\ Around(input, At) # 0 /\ P[n] = Opened[Len(stack)]
        /\ \/ Container.kind = "object" /\ input[P[n]].k = "{"
           \/ Container.kind = "array" /\ input[P[n]].k = "["
    <3>1. n # 0
      BY <1>7, <1>13
    <3>2. P[n] \in 1..c /\ P[n] = Opened[Len(stack)]
      BY <1>2, <1>3, <1>6, <3>1
    <3>3. <<Container.kind, input[P[n]].k>> \in {<<"object", "{">>, <<"array", "[">>}
      BY <1>9, <1>10, <3>1
    <3>4. Around(input, At) = P[n]
      BY <1>8, <1>13
    <3>5. \/ Container.kind = "object" /\ input[P[n]].k = "{"
          \/ Container.kind = "array" /\ input[P[n]].k = "["
      BY <3>3
    <3>6. P[n] # 0
      BY <3>2
    <3>7. QED
      BY <3>2, <3>4, <3>5, <3>6
  <2>2. QED
    BY <1>11, <1>13, <2>1 DEF Within, InObject, InArray
<1>14. QED
  BY <1>12, <1>13

\* The language's judgement of the lookahead, in the parser's terms.
LEMMA AllowedAhead ==
  ASSUME IInv, Parsing, have, pc \notin {"closed", "error"}
  PROVE  Allowed(input, At, StrictJSON) <=>
           \/ IsBlankSpace(Look)
           \/ /\ StartsValue(Look)
              /\ Prior = 0 \/ input[Prior].k \in {":", "["} \/ (input[Prior].k = "," /\ InArray)
           \/ Look.k = "str" /\ InObject /\ Prior # 0 /\ input[Prior].k \in {"{", ","}
           \/ Look.k = ":" /\ Prior # 0 /\ IsKey(input, Prior)
           \/ Look.k = "," /\ AfterValue /\ stack # <<>>
           \/ /\ (Look.k = "}" /\ InObject) \/ (Look.k = "]" /\ InArray)
              /\ \/ AfterValue
                 \/ input[Prior].k = IF InObject THEN "{" ELSE "["
                 \/ input[Prior].k = "," /\ ~StrictJSON
           \/ Look.k = "eof" /\ AfterValue /\ stack = <<>>
<1>1. /\ Before(input, At) = Prior
      /\ Around(input, At) = 0 <=> stack = <<>>
      /\ Within(input, At, "{") <=> InObject
      /\ Within(input, At, "[") <=> InArray
      /\ InObject /\ InArray => FALSE
  BY AheadFacts DEF InObject, InArray
<1>2. IsKey(input, At) <=> Look.k = "str" /\ InObject /\ Prior # 0 /\ input[Prior].k \in {"{", ","}
  BY <1>1 DEF IsKey, Look
<1>3. QED
  BY <1>1, <1>2 DEF Allowed, ValuePlace, AfterValue, Look

LEMMA EndsKinds ==
  ASSUME NEW s, NEW i, EndsValue(s, i)
  PROVE  s[i].k \in {"}", "]", "scalar", "str"} /\ ~IsKey(s, i)
BY DEF EndsValue, Closes, IsKey

LEMMA LookKinds ==
  ASSUME IInv, have
  PROVE  Look.k \in Kinds /\ (IsBlankSpace(Look) <=> Look.k \in Comments \cup {"nl"})
<1>1. Look \in Token
  BY TokenTypes, ConsumedType DEF IInv
<1>2. QED
  BY <1>1 DEF Token, IsBlankSpace, IsComment, Comments

-----------------------------------------------------------------------------
(* The error returns: no text has this token here. *)

LEMMA StopParsing ==
  ASSUME IInv, Parsing, NEW reason, NEW at, Stop(reason, at), UNCHANGED <<input, have>>,
         reason \in {"syntax", "strict"} => at = At /\ ~Allowed(input, At, StrictJSON),
         reason # "scan", have => pc # "closed", pc # "error"
  PROVE  Parsing'
<1>1. pc' = "error"
  BY DEF Stop
<1>2. Consumed' = Consumed /\ At' = At
  BY DEF Consumed, At
<1>3. Balanced' /\ Located'
  BY <1>1 DEF Balanced, Located, ValueAwaited, ValueRead, CommaRead, AfterValuePlaces
<1>4. Sees({"err"}) => ~Allowed(input, At, StrictJSON)
  <2> SUFFICES ASSUME have, Look.k = "err" PROVE ~Allowed(input, At, StrictJSON)
    BY DEF Sees
  <2>1. QED
    BY AllowedAhead DEF IsBlankSpace, IsComment, StartsValue, Opens
<1>5. LanguageExact'
  <2>1. Viable(input', Consumed', StrictJSON)
    BY <1>2 DEF Parsing, LanguageExact
  <2>2. result'.kind \in {"syntax", "strict", "scan"} =>
          result'.at = At /\ ~Allowed(input, At, StrictJSON)
    BY <1>4 DEF Stop
  <2>3. QED
    BY <1>1, <1>2, <2>1, <2>2 DEF LanguageExact, Accepted
<1>6. QED
  BY <1>3, <1>5 DEF Parsing

\* parseValue, parseArray, parseObject, parseMember and consumeTrailing refuse
\* only what no text has there.
LEMMA Refused ==
  ASSUME IInv, Parsing,
         \/ NotAValue \/ StrictTrailingComma \/ NotAKey \/ NotAColon \/ NotASeparator
         \/ NoRoot \/ ExtraData
  PROVE  have /\ ~Allowed(input, At, StrictJSON)
<1>1. have /\ pc \notin {"closed", "error"}
  BY DEF NotAValue, ExpectsValue, StrictTrailingComma, AtClose, SeesClose, Sees, NotAKey,
         NotAColon, NotASeparator, NoRoot, ExtraData
<1>2. Look.k \in Kinds /\ (IsBlankSpace(Look) <=> Look.k \in Comments \cup {"nl"})
  BY <1>1, LookKinds
<1>3. StartsValue(Look) <=> Look.k \in {"{", "[", "str", "scalar"}
  BY DEF StartsValue, Opens
<1>4. AfterValue => /\ input[Prior].k \in {"}", "]", "scalar", "str"}
                    /\ Prior # 0 /\ ~IsKey(input, Prior)
  BY EndsKinds DEF AfterValue
<1>5. Prior # 0 /\ IsKey(input, Prior) => input[Prior].k = "str"
  BY DEF IsKey
<1>6. InObject => ~InArray
  BY DEF InObject, InArray
<1>7. stack # <<>> => InObject \/ InArray
  BY <1>1, AheadFacts
<1>8. CASE NotAColon
  <2>1. pc = "colon" /\ Look.k \notin Comments \cup {"nl", ":"}
    BY <1>8 DEF NotAColon
  <2>2. Prior # 0 /\ IsKey(input, Prior)
    BY <2>1 DEF Parsing, Located, ValueAwaited
  <2>3. ~AfterValue
    BY <1>4, <2>2
  <2>4. QED
    BY <1>1, <1>2, <1>5, <2>1, <2>2, <2>3, AllowedAhead
<1>9. CASE NotASeparator
  <2>1. pc = "between" /\ Look.k \notin Comments \cup {"nl", ",", IF InObject THEN "}" ELSE "]"}
    BY <1>9 DEF NotASeparator
  <2>2. AfterValue /\ stack # <<>>
    BY <2>1 DEF Parsing, Located, ValueRead, AfterValuePlaces
  <2>3. QED
    BY <1>1, <1>2, <1>4, <1>6, <1>7, <2>1, <2>2, AllowedAhead
<1>10. CASE ExtraData
  <2>1. pc = "trail" /\ Look.k \notin Comments \cup {"nl", "eof"}
    BY <1>10 DEF ExtraData
  <2>2. AfterValue /\ stack = <<>> /\ ~InObject /\ ~InArray
    BY <2>1 DEF Parsing, Located, ValueRead, AfterValuePlaces, InObject, InArray
  <2>3. QED
    BY <1>1, <1>2, <1>4, <2>1, <2>2, AllowedAhead
<1>11. CASE NoRoot
  <2>1. pc = "lead" /\ Look.k = "eof"
    BY <1>11 DEF NoRoot, Sees
  <2>2. Prior = 0 /\ ~AfterValue
    BY <2>1 DEF Parsing, Located, ValueAwaited, AfterValue
  <2>3. QED
    BY <1>1, <1>2, <1>3, <2>1, <2>2, AllowedAhead DEF Comments
<1>12. CASE StrictTrailingComma
  <2>1. /\ pc = "loop" /\ ((InObject /\ Look.k = "}") \/ (InArray /\ Look.k = "]"))
        /\ StrictJSON /\ Top.justConsumedComma
    BY <1>12 DEF StrictTrailingComma, AtClose, SeesClose, Sees, TrailingComma
  <2>2. AfterComma
    BY <2>1 DEF Parsing, Located, CommaRead
  <2>3. ~AfterValue /\ input[Prior].k = ","
    BY <1>4, <2>2 DEF AfterComma
  <2>4. QED
    BY <1>1, <1>2, <1>3, <2>1, <2>3, AllowedAhead DEF Comments
<1>13. ASSUME pc = "loop"
       PROVE  /\ stack # <<>>
              /\ \/ input[Prior].k = (IF InObject THEN "{" ELSE "[") /\ Prior # 0
                 \/ AfterComma
                 \/ SeesClose
  <2>1. Prior = Opened[Len(stack)] => input[Prior].k = (IF InObject THEN "{" ELSE "[")
    BY <1>1, <1>13, AheadFacts DEF Parsing, Located, CommaRead
  <2>2. stack # <<>> /\ Prior = Opened[Len(stack)] => Prior # 0
    BY <1>1, <1>13, AheadFacts
  <2>3. QED
    BY <1>13, <2>1, <2>2 DEF Parsing, Located, CommaRead
<1>14. CASE NotAKey
  <2>1. pc = "loop" /\ InObject /\ Look.k \notin Comments \cup {"nl", "str", "}"}
    BY <1>14 DEF NotAKey
  <2>2. ~SeesClose
    BY <1>6, <2>1 DEF SeesClose, Sees
  <2>3. Prior # 0 /\ input[Prior].k \in {"{", ","}
    BY <1>13, <2>1, <2>2 DEF AfterComma
  <2>4. ~AfterValue
    BY <1>4, <2>3
  <2>5. QED
    BY <1>1, <1>2, <1>5, <1>6, <2>1, <2>3, <2>4, AllowedAhead
<1>15. CASE NotAValue
  <2>1. /\ Look.k \notin Comments \cup {"nl"} \cup Scalars \cup Openers
        /\ pc \in {"value", "keyValue"} \/ (pc = "loop" /\ InArray /\ Look.k # "]")
    BY <1>15 DEF NotAValue, ExpectsValue, ClosesInstead
  <2>2. CASE pc = "value"
    <3>1. Prior = 0 /\ ~AfterValue /\ ~InObject /\ ~InArray
      BY <2>2 DEF Parsing, Located, ValueAwaited, AfterValue, InObject, InArray
    <3>2. QED
      BY <1>1, <1>2, <1>3, <2>1, <3>1, AllowedAhead DEF Scalars, Openers
  <2>3. CASE pc = "keyValue"
    <3>1. Prior # 0 /\ input[Prior].k = ":"
      BY <2>3 DEF Parsing, Located, ValueAwaited
    <3>2. ~AfterValue
      BY <1>4, <3>1
    <3>3. QED
      BY <1>1, <1>2, <1>3, <1>5, <2>1, <3>1, <3>2, AllowedAhead DEF Scalars, Openers
  <2>4. CASE pc = "loop"
    <3>1. InArray /\ Look.k # "]" /\ ~InObject
      BY <1>6, <2>1, <2>4
    <3>2. ~SeesClose
      BY <3>1 DEF SeesClose, Sees
    <3>3. Prior # 0 /\ input[Prior].k \in {"[", ","}
      BY <1>13, <2>4, <3>1, <3>2 DEF AfterComma
    <3>4. ~AfterValue
      BY <1>4, <3>3
    <3>5. QED
      BY <1>1, <1>2, <1>3, <1>5, <2>1, <3>1, <3>3, <3>4, AllowedAhead DEF Scalars, Openers
  <2>5. QED
    BY <2>1, <2>2, <2>3, <2>4
<1>16. QED
  BY <1>8, <1>9, <1>10, <1>11, <1>12, <1>14, <1>15

\* Every error return, those on a limit or a duplicate key included.
LEMMA ErrorParsing ==
  ASSUME IInv, Parsing, pc' = "error",
         \/ NotAValue \/ StrictTrailingComma \/ NotAKey \/ NotAColon \/ NotASeparator
         \/ NoRoot \/ ExtraData
         \/ OverNodes \/ TooDeep \/ RefuseDuplicate \/ InsertMember
  PROVE  Parsing'
<1>1. /\ UNCHANGED <<input, have>>
      /\ pc # "error" /\ (have => pc # "closed")
  BY DEF NotAValue, ExpectsValue, StrictTrailingComma, AtClose, NotAKey, NotAColon, NotASeparator,
         NoRoot, ExtraData, OverNodes, TooDeep, RefuseDuplicate, InsertMember
<1>2. CASE \/ NotAValue \/ StrictTrailingComma \/ NotAKey \/ NotAColon \/ NotASeparator
           \/ NoRoot \/ ExtraData
  <2>1. \E reason \in {"syntax", "strict"} : Stop(reason, At)
    BY <1>2 DEF NotAValue, StrictTrailingComma, NotAKey, NotAColon, NotASeparator, NoRoot,
                ExtraData, Fail
  <2>2. QED
    BY <1>1, <1>2, <2>1, Refused, StopParsing
<1>3. CASE OverNodes \/ TooDeep \/ RefuseDuplicate \/ InsertMember
  <2>1. \E reason \in {"nodes", "depth", "duplicate", "keys"} : \E at : Stop(reason, at)
    <3>1. CASE OverNodes
      BY <3>1 DEF OverNodes, Fail
    <3>2. CASE TooDeep
      BY <3>2 DEF TooDeep
    <3>3. CASE RefuseDuplicate
      BY <3>3 DEF RefuseDuplicate, Fail
    <3>4. CASE InsertMember
      BY <3>4 DEF InsertMember, Fail
    <3>5. QED
      BY <1>3, <3>1, <3>2, <3>3, <3>4
  <2>2. QED
    BY <1>1, <2>1, StopParsing
<1>4. QED
  BY <1>2, <1>3

-----------------------------------------------------------------------------
(* The steps that consume no significant token. *)

LEMMA LastsFacts ==
  ASSUME IInv, IInv', Lasts(heap, heap'), NEW n \in 1..Len(heap)
  PROVE  /\ n \in 1..Len(heap')
         /\ heap'[n].kind = heap[n].kind /\ heap'[n].key = heap[n].key
         /\ heap'[n].pos = heap[n].pos
<1>1. DOMAIN heap = 1..Len(heap) /\ DOMAIN heap' = 1..Len(heap')
  BY LenProperties DEF IInv, TypeOK, ParserTypeOK
<1>2. QED
  BY <1>1 DEF Lasts

\* The frames of both states have the same containers.
LEMMA OpenedKept ==
  ASSUME IInv, IInv', Lasts(heap, heap'), NEW n \in Nat, n <= Len(stack), n <= Len(stack'),
         \A i \in 1..n : stack'[i].node = stack[i].node
  PROVE  \A i \in 1..n : /\ Opened[i] \in Nat /\ Opened'[i] = Opened[i]
                         /\ heap'[stack'[i].node].kind = heap[stack[i].node].kind
<1> SUFFICES ASSUME NEW i \in 1..n
             PROVE  /\ Opened[i] \in Nat /\ Opened'[i] = Opened[i]
                    /\ heap'[stack'[i].node].kind = heap[stack[i].node].kind
  OBVIOUS
<1>1. i \in 1..Len(stack) /\ i \in 1..Len(stack')
  BY Facts DEF IInv, TypeOK, ParserTypeOK
<1>2. stack[i].node \in 1..Len(heap) /\ stack'[i].node = stack[i].node
  BY <1>1 DEF IInv, FramesOK
<1>3. heap[stack[i].node] \in Node
  BY <1>2, Facts, ElementOfSeq
<1>4. Opened[i] = heap[stack[i].node].pos /\ Opened'[i] = heap'[stack'[i].node].pos
  BY <1>1 DEF Opened
<1>5. QED
  BY <1>2, <1>3, <1>4, LastsFacts DEF Node

LEMMA QuietBalanced ==
  ASSUME IInv, IInv', Lasts(heap, heap'), Parsing, pc # "error", Quiet, Live' = Live,
         Live <= Len(stack'), \A i \in 1..Live : stack'[i].node = stack[i].node
  PROVE  Balanced' /\ PriorKept /\ Viable(input', Consumed', StrictJSON)
<1>1. PICK n \in Nat : n = Live /\ n <= Len(stack)
  BY LiveType, Facts
<1>2. PICK P : P = Opened
  OBVIOUS
<1>3. Read(n, P)
  BY <1>1, <1>2 DEF Parsing, Balanced, LanguageExact, Read
<1>4. Read(n, P)' /\ PriorKept /\ \A i \in 1..Consumed : input'[i] = input[i]
  BY <1>3, QuietRead
<1>5. \A i \in 1..n : Opened'[i] = P[i] /\ heap'[stack'[i].node].kind = heap[stack[i].node].kind
  BY <1>1, <1>2, OpenedKept
<1>6. Nests(input', Consumed', n, Opened')
  <2>1. Nests(input', Consumed', n, P)
    BY <1>4 DEF Read
  <2>2. Consumed' \in Nat
    BY ConsumedType DEF IInv, TypeOK, ParserTypeOK, HeldToken, Consumed, At
  <2>3. QED
    BY <1>5, <2>1, <2>2, NestsSame
<1>7. \A i \in 1..n : P[i] \in 1..Consumed
  BY <1>3, ConsumedType, NestsPlaces DEF Read
<1>8. ASSUME NEW i \in 1..n
      PROVE  <<heap'[stack'[i].node].kind, input'[Opened'[i]].k>>
               \in {<<"object", "{">>, <<"array", "[">>}
  <2>1. <<heap[stack[i].node].kind, input[P[i]].k>> \in {<<"object", "{">>, <<"array", "[">>}
    BY <1>1, <1>2 DEF Parsing, Balanced
  <2>2. input'[Opened'[i]] = input[P[i]]
    BY <1>4, <1>5, <1>7
  <2>3. QED
    BY <1>5, <2>1, <2>2
<1>9. Balanced'
  BY <1>1, <1>6, <1>8 DEF Balanced
<1>10. QED
  BY <1>4, <1>9 DEF Read

\* Between the tokens, what the last one was stays known.
LEMMA PriorFacts ==
  ASSUME PriorKept
  PROVE  /\ Prior' = Prior
         /\ AfterValue' <=> AfterValue
         /\ AfterComma' <=> AfterComma
         /\ (Prior # 0 /\ IsKey(input, Prior)) => IsKey(input', Prior')
         /\ (Prior # 0 /\ input[Prior].k = ":") => input'[Prior'].k = ":"
BY DEF PriorKept, AfterValue, AfterComma

LEMMA Unfinished ==
  ASSUME pc' \notin {"done", "error"}, Viable(input', Consumed', StrictJSON)
  PROVE  LanguageExact'
BY DEF LanguageExact, Accepted

LEMMA QuietParsing ==
  ASSUME IInv, IInv', Lasts(heap, heap'), Parsing, Quiet, FramesKept,
         pc \notin {"error", "closed"}, pc' \notin {"error", "done", "closed"}
  PROVE  /\ Balanced' /\ PriorKept /\ LanguageExact'
         /\ stack' = <<>> <=> stack = <<>>
         /\ stack # <<>> => Opened'[Len(stack')] = Opened[Len(stack)]
         /\ InObject' <=> InObject
         /\ InArray' <=> InArray
<1>1. Len(stack') = Len(stack) /\ \A i \in 1..Len(stack) : stack'[i].node = stack[i].node
  BY DEF FramesKept
<1>2. Live' = Live /\ Live = Len(stack)
  BY <1>1 DEF Live
<1>3. Balanced' /\ PriorKept /\ Viable(input', Consumed', StrictJSON)
  BY <1>1, <1>2, Facts, QuietBalanced
<1>4. LanguageExact'
  BY <1>3, Unfinished
<1>5. stack' = <<>> <=> stack = <<>>
  BY <1>1, StackEmpty DEF IInv, TypeOK, ParserTypeOK
<1>6. stack # <<>> => Len(stack) \in 1..Len(stack)
  BY FrameTypes
<1>7. \A i \in 1..Len(stack) : /\ Opened'[i] = Opened[i]
                               /\ heap'[stack'[i].node].kind = heap[stack[i].node].kind
  <2>1. PICK n \in Nat : n = Len(stack)
    BY Facts
  <2>2. n <= Len(stack) /\ n <= Len(stack') /\ \A i \in 1..n : stack'[i].node = stack[i].node
    BY <1>1, <2>1
  <2>3. QED
    BY <2>1, <2>2, OpenedKept
<1>8. stack # <<>> => Container'.kind = Container.kind
  BY <1>1, <1>6, <1>7 DEF Container, Top
<1>9. QED
  BY <1>1, <1>3, <1>4, <1>5, <1>6, <1>7, <1>8 DEF InObject, InArray

\* Looking ahead, and reading past comments and line breaks.
LEMMA LookParsing ==
  ASSUME IInv, IInv', Lasts(heap, heap'), Parsing, FramesKept,
         \/ Scan \/ CollectHeadComments \/ SkipDroppedComments \/ ConsumeTrailing
  PROVE  Parsing'
<1>1. UNCHANGED <<pc, stack>> /\ pc \notin {"error", "done"}
  BY DEF Scan, Peeks, CollectHeadComments, SkipDroppedComments, ConsumeTrailing
<1>2. Quiet
  <2>1. CASE Scan
    BY <2>1 DEF Quiet
  <2>2. CASE CollectHeadComments \/ SkipDroppedComments \/ ConsumeTrailing
    <3>1. Sees(Comments \cup {"nl"}) /\ have' = FALSE /\ UNCHANGED input
      BY <2>2 DEF CollectHeadComments, SkipDroppedComments, ConsumeTrailing, Bump
    <3>2. QED
      BY <3>1 DEF Quiet, Sees, IsBlankSpace, IsComment, Comments
  <2>3. QED
    BY <2>1, <2>2
<1>3. CASE pc = "closed"
  <2>1. Live' = Live /\ Live <= Len(stack')
    BY <1>1, LiveType, Facts DEF Live
  <2>2. Balanced' /\ PriorKept /\ Viable(input', Consumed', StrictJSON)
    BY <1>1, <1>2, <2>1, QuietBalanced
  <2>3. LanguageExact'
    BY <1>1, <1>3, <2>2, Unfinished
  <2>4. AfterValue'
    BY <1>3, <2>2, PriorFacts DEF Parsing, Located, ValueRead, AfterValuePlaces
  <2>5. Located'
    BY <1>1, <1>3, <2>4 DEF Located, ValueAwaited, ValueRead, CommaRead
  <2>6. QED
    BY <2>2, <2>3, <2>5 DEF Parsing
<1>4. CASE pc # "closed"
  <2>1. /\ Balanced' /\ PriorKept /\ LanguageExact'
        /\ stack' = <<>> <=> stack = <<>>
        /\ stack # <<>> => Opened'[Len(stack')] = Opened[Len(stack)]
    BY <1>1, <1>2, <1>4, QuietParsing
  <2>2. pc # "value" /\ ~(pc = "loop" /\ SeesClose)
    BY DEF Scan, CollectHeadComments, SkipDroppedComments, ConsumeTrailing, Sees, SeesClose,
           Comments, Parsing, Located, ValueAwaited
  <2>3. Top' = Top
    BY <1>1 DEF Top
  <2>4. ValueAwaited'
    BY <1>1, <2>1, <2>2, PriorFacts DEF Parsing, Located, ValueAwaited, PriorKept
  <2>5. ValueRead'
    BY <1>1, <2>1, <2>3, PriorFacts DEF Parsing, Located, ValueRead
  <2>6. CommaRead'
    BY <1>1, <2>1, <2>2, <2>3, PriorFacts DEF Parsing, Located, CommaRead
  <2>7. QED
    BY <2>1, <2>4, <2>5, <2>6 DEF Parsing, Located
<1>5. QED
  BY <1>3, <1>4

\* A value ends or its place is found, and pc moves on within the container.
LEMMA MoveParsing ==
  ASSUME IInv, IInv', Lasts(heap, heap'), Parsing, FramesKept, pc' # "error",
         \/ BeginRoot \/ ReturnRoot \/ RootInline \/ MakeMember \/ InsertMember \/ AppendElement
         \/ InlineComment \/ CloseAhead \/ AttachAfterComma
  PROVE  Parsing'
<1>1. Quiet
  <2>1. CASE RootInline \/ InlineComment \/ AttachAfterComma
    <3>1. UNCHANGED input /\ have /\ TakeInline
      BY <2>1 DEF RootInline, InlineComment, AttachAfterComma
    <3>2. QED
      BY <3>1 DEF TakeInline, Quiet, IsBlankSpace, IsComment, Comments
  <2>2. CASE BeginRoot \/ ReturnRoot \/ MakeMember \/ InsertMember \/ AppendElement \/ CloseAhead
    BY <2>2 DEF BeginRoot, ReturnRoot, MakeMember, InsertMember, AppendElement, CloseAhead, Quiet
  <2>3. QED
    BY <2>1, <2>2
<1>2. /\ pc \in {"lead", "return", "rootInline", "insert", "inline", "between", "afterComma"}
      /\ pc' \in {"value", "rootInline", "trail", "insert", "overNodes", "inline", "between", "loop"}
  BY DEF BeginRoot, ReturnRoot, RootInline, MakeMember, InsertMember, AppendElement,
         InlineComment, CloseAhead, AttachAfterComma, BumpNodeCount, Fail, Stop
<1>3. /\ Balanced' /\ PriorKept /\ LanguageExact'
      /\ stack' = <<>> <=> stack = <<>>
      /\ InObject' <=> InObject
      /\ InArray' <=> InArray
  BY <1>1, <1>2, QuietParsing
<1>4. /\ Prior' = Prior
      /\ AfterValue' <=> AfterValue
      /\ AfterComma' <=> AfterComma
  BY <1>3, PriorFacts
<1>5. CASE BeginRoot
  <2>1. pc = "lead" /\ pc' = "value" /\ UNCHANGED <<input, have>>
        /\ have /\ Look.k \notin Comments \cup {"nl", "eof"}
    BY <1>5 DEF BeginRoot
  <2>2. Prior = 0 /\ stack = <<>>
    BY <2>1 DEF Parsing, Located, ValueAwaited
  <2>3. Look' = Look
    BY <2>1 DEF Look, At
  <2>4. Located'
    BY <1>3, <1>4, <2>1, <2>2, <2>3
       DEF Located, ValueAwaited, ValueRead, CommaRead, AfterValuePlaces
  <2>5. QED
    BY <1>3, <2>4 DEF Parsing
<1>6. CASE ReturnRoot \/ RootInline
  <2>1. /\ pc \in {"return", "rootInline"} /\ pc' \in {"rootInline", "trail"}
        /\ pc = "return" => stack = <<>>
    BY <1>6 DEF ReturnRoot, RootInline
  <2>2. AfterValue /\ stack = <<>>
    BY <2>1 DEF Parsing, Located, ValueRead, AfterValuePlaces
  <2>3. Located'
    BY <1>3, <1>4, <2>1, <2>2 DEF Located, ValueAwaited, ValueRead, CommaRead
  <2>4. QED
    BY <1>3, <2>3 DEF Parsing
<1>7. CASE MakeMember
  <2>1. pc = "return" /\ pc' \in {"insert", "overNodes"}
    BY <1>7 DEF MakeMember, BumpNodeCount
  <2>2. AfterValue
    BY <2>1 DEF Parsing, Located, ValueRead, AfterValuePlaces
  <2>3. Located'
    BY <1>4, <2>1, <2>2 DEF Located, ValueAwaited, ValueRead, CommaRead
  <2>4. QED
    BY <1>3, <2>3 DEF Parsing
<1>8. CASE InsertMember \/ AppendElement
  <2>1. pc \in {"insert", "return"} /\ pc' = "inline" /\ stack # <<>>
    BY <1>8 DEF InsertMember, AppendElement, InArray, IInv, InsideContainer, Fail, Stop
  <2>2. AfterValue
    BY <2>1 DEF Parsing, Located, ValueRead, AfterValuePlaces
  <2>3. PICK f \in Frame : SetTop(f) /\ f.justConsumedComma = FALSE
    BY <1>8, InsertedFrame, TopAssigned
  <2>4. Top' = f
    BY <2>1, <2>3, SetTopAt, FrameTypes DEF Top
  <2>5. Located'
    BY <1>3, <1>4, <2>1, <2>2, <2>3, <2>4 DEF Located, ValueAwaited, ValueRead, CommaRead
  <2>6. QED
    BY <1>3, <2>5 DEF Parsing
<1>9. CASE InlineComment
  <2>1. pc = "inline" /\ pc' = "between" /\ UNCHANGED stack
    BY <1>9 DEF InlineComment
  <2>2. AfterValue /\ stack # <<>> /\ Top.justConsumedComma = FALSE
    BY <2>1 DEF Parsing, Located, ValueRead, AfterValuePlaces
  <2>3. Top' = Top
    BY <2>1 DEF Top
  <2>4. Located'
    BY <1>3, <1>4, <2>1, <2>2, <2>3 DEF Located, ValueAwaited, ValueRead, CommaRead
  <2>5. QED
    BY <1>3, <2>4 DEF Parsing
<1>10. CASE CloseAhead
  <2>1. pc = "between" /\ pc' = "loop" /\ SeesClose /\ UNCHANGED <<input, have, stack>>
    BY <1>10 DEF CloseAhead
  <2>2. AfterValue /\ stack # <<>> /\ Top.justConsumedComma = FALSE
    BY <2>1 DEF Parsing, Located, ValueRead, AfterValuePlaces
  <2>3. Top' = Top /\ Look' = Look
    BY <2>1 DEF Top, Look, At
  <2>4. SeesClose'
    BY <1>3, <2>1, <2>3 DEF SeesClose, Sees
  <2>5. Located'
    BY <1>3, <1>4, <2>1, <2>2, <2>3, <2>4
       DEF Located, ValueAwaited, ValueRead, CommaRead, AfterValuePlaces
  <2>6. QED
    BY <1>3, <2>5 DEF Parsing
<1>11. CASE AttachAfterComma
  <2>1. pc = "afterComma" /\ pc' = "loop" /\ UNCHANGED stack
    BY <1>11 DEF AttachAfterComma
  <2>2. AfterComma /\ stack # <<>> /\ Top.justConsumedComma = TRUE
    BY <2>1 DEF Parsing, Located, CommaRead
  <2>3. Top' = Top
    BY <2>1 DEF Top
  <2>4. Located'
    BY <1>3, <1>4, <2>1, <2>2, <2>3
       DEF Located, ValueAwaited, ValueRead, CommaRead, AfterValuePlaces
  <2>5. QED
    BY <1>3, <2>4 DEF Parsing
<1>12. QED
  BY <1>5, <1>6, <1>7, <1>8, <1>9, <1>10, <1>11

LEMMA FinishParsing ==
  ASSUME IInv, IInv', Lasts(heap, heap'), Parsing, Finish
  PROVE  Parsing'
<1>1. /\ pc = "trail" /\ pc' = "done" /\ have /\ Look.k = "eof" /\ UNCHANGED <<input, have, stack>>
      /\ result'.kind = "ok"
  BY DEF Finish, Sees
<1>2. AfterValue /\ stack = <<>>
  BY <1>1 DEF Parsing, Located, ValueRead, AfterValuePlaces
<1>3. Allowed(input, At, StrictJSON)
  BY <1>1, <1>2, AllowedAhead
<1>4. Live' = Live /\ Live <= Len(stack')
  BY <1>1, LiveType DEF Live
<1>5. Balanced' /\ Viable(input', Consumed', StrictJSON)
  BY <1>1, <1>4, QuietBalanced DEF Quiet
<1>6. Viable(input, At, StrictJSON)
  <2>1. PICK c \in Nat : c = Consumed /\ At = c + 1
    BY <1>1, ConsumedType DEF Consumed
  <2>2. QED
    BY <1>3, <2>1, ViableNext DEF Parsing, LanguageExact
<1>7. At' = At /\ Look' = Look
  BY <1>1 DEF At, Look
<1>8. LanguageExact'
  BY <1>1, <1>5, <1>6, <1>7 DEF LanguageExact, Accepted
<1>9. Located'
  BY <1>1, <1>2 DEF Located, ValueAwaited, ValueRead, CommaRead, AfterValuePlaces
<1>10. QED
  BY <1>5, <1>8, <1>9 DEF Parsing

\* The frame of a container whose closing delimiter is read goes.
LEMMA ReturnContainerParsing ==
  ASSUME IInv, IInv', Lasts(heap, heap'), Parsing, ReturnContainer
  PROVE  Parsing'
<1>1. pc = "closed" /\ pc' = "return" /\ have /\ UNCHANGED input /\ TakeInline
  BY DEF ReturnContainer
<1>2. /\ stack # <<>> /\ Len(stack') = Len(stack) - 1
      /\ \A i \in 1..Len(stack') : stack'[i] = stack[i]
  BY FramesLeft
<1>3. Live = Len(stack) - 1 /\ Live' = Live
  BY <1>1, <1>2 DEF Live
<1>4. Quiet
  BY <1>1 DEF TakeInline, Quiet, IsBlankSpace, IsComment, Comments
<1>5. Balanced' /\ PriorKept /\ Viable(input', Consumed', StrictJSON)
  BY <1>1, <1>2, <1>3, <1>4, Facts, QuietBalanced
<1>6. LanguageExact'
  BY <1>1, <1>5, Unfinished
<1>7. AfterValue'
  BY <1>1, <1>5, PriorFacts DEF Parsing, Located, ValueRead, AfterValuePlaces
<1>8. Located'
  BY <1>1, <1>7 DEF Located, ValueAwaited, ValueRead, CommaRead
<1>9. QED
  BY <1>5, <1>6, <1>8 DEF Parsing

-----------------------------------------------------------------------------
(* The steps that consume a significant token. *)

\* A token that neither opens nor closes a container.
LEMMA TokenParsing ==
  ASSUME IInv, IInv', Lasts(heap, heap'), Parsing, FramesKept,
         have, have' = FALSE, UNCHANGED input,
         ~IsBlankSpace(Look), ~Opens(Look), ~Closes(Look), Allowed(input, At, StrictJSON),
         pc \notin {"error", "closed"}, pc' \notin {"error", "done", "closed"}
  PROVE  /\ Balanced' /\ LanguageExact' /\ Prior' = At /\ Prior' # 0 /\ input'[Prior'] = Look
         /\ stack' = <<>> <=> stack = <<>>
<1>1. Len(stack') = Len(stack) /\ \A i \in 1..Len(stack) : stack'[i].node = stack[i].node
  BY DEF FramesKept
<1>2. PICK n \in Nat : n = Len(stack)
  BY Facts
<1>3. PICK P : P = Opened
  OBVIOUS
<1>4. Live' = n /\ Live = n
  BY <1>1, <1>2 DEF Live
<1>5. Read(n, P)
  BY <1>3, <1>4 DEF Parsing, Balanced, LanguageExact, Read
<1>6. Read(n, P)' /\ Prior' = At /\ Prior' # 0 /\ Consumed' = At /\ At = Consumed + 1
  BY <1>5, TokenRead
<1>7. \A i \in 1..n : Opened'[i] = P[i] /\ heap'[stack'[i].node].kind = heap[stack[i].node].kind
  BY <1>1, <1>2, <1>3, OpenedKept
<1>8. Nests(input', Consumed', n, Opened')
  <2>1. Nests(input', Consumed', n, P)
    BY <1>6 DEF Read
  <2>2. Consumed' \in Nat
    BY <1>6, ConsumedType
  <2>3. QED
    BY <1>7, <2>1, <2>2, NestsSame
<1>9. ASSUME NEW i \in 1..n
      PROVE  <<heap'[stack'[i].node].kind, input'[Opened'[i]].k>>
               \in {<<"object", "{">>, <<"array", "[">>}
  <2>1. <<heap[stack[i].node].kind, input[P[i]].k>> \in {<<"object", "{">>, <<"array", "[">>}
    BY <1>3, <1>4 DEF Parsing, Balanced
  <2>2. QED
    BY <1>7, <2>1
<1>10. Balanced'
  BY <1>4, <1>8, <1>9 DEF Balanced
<1>11. LanguageExact'
  BY <1>6, Unfinished DEF Read
<1>12. stack' = <<>> <=> stack = <<>>
  BY <1>1, StackEmpty DEF IInv, TypeOK, ParserTypeOK
<1>13. QED
  BY <1>6, <1>10, <1>11, <1>12 DEF Look

LEMMA ParseColonParsing ==
  ASSUME IInv, IInv', Lasts(heap, heap'), Parsing, FramesKept, ParseColon
  PROVE  Parsing'
<1>1. /\ pc = "colon" /\ pc' = "keyValue" /\ have /\ have' = FALSE /\ Look.k = ":"
      /\ UNCHANGED <<input, stack>>
  BY DEF ParseColon, Sees, Bump
<1>2. Prior # 0 /\ IsKey(input, Prior)
  BY <1>1 DEF Parsing, Located, ValueAwaited
<1>3. Allowed(input, At, StrictJSON)
  BY <1>1, <1>2, AllowedAhead
<1>4. ~IsBlankSpace(Look) /\ ~Opens(Look) /\ ~Closes(Look)
  BY <1>1 DEF IsBlankSpace, IsComment, Opens, Closes
<1>5. Balanced' /\ LanguageExact' /\ Prior' # 0 /\ input'[Prior'] = Look
  BY <1>1, <1>3, <1>4, TokenParsing
<1>6. Located'
  BY <1>1, <1>5 DEF Located, ValueAwaited, ValueRead, CommaRead, AfterValuePlaces
<1>7. QED
  BY <1>5, <1>6 DEF Parsing

LEMMA ParseKeyParsing ==
  ASSUME IInv, IInv', Lasts(heap, heap'), Parsing, FramesKept, ParseKey
  PROVE  Parsing'
<1>1. /\ pc = "loop" /\ pc' = "colon" /\ have /\ have' = FALSE /\ Look.k = "str" /\ InObject
      /\ UNCHANGED input
  BY DEF ParseKey, Sees, Bump
<1>2. ~SeesClose
  BY <1>1 DEF SeesClose, Sees
<1>3. stack # <<>> /\ (Prior = Opened[Len(stack)] \/ AfterComma)
  BY <1>1, <1>2 DEF Parsing, Located, CommaRead
<1>4. Prior # 0 /\ input[Prior].k \in {"{", ","}
  <2>1. CASE AfterComma
    BY <2>1 DEF AfterComma
  <2>2. CASE Prior = Opened[Len(stack)]
    BY <1>1, <1>3, <2>2, AheadFacts
  <2>3. QED
    BY <1>3, <2>1, <2>2
<1>5. IsKey(input, At)
  BY <1>1, <1>4, AheadFacts DEF IsKey, Look
<1>6. Allowed(input, At, StrictJSON)
  BY <1>5 DEF Allowed
<1>7. ~IsBlankSpace(Look) /\ ~Opens(Look) /\ ~Closes(Look)
  BY <1>1 DEF IsBlankSpace, IsComment, Opens, Closes
<1>8. Balanced' /\ LanguageExact' /\ Prior' = At /\ Prior' # 0
  BY <1>1, <1>6, <1>7, TokenParsing
<1>9. IsKey(input', Prior')
  BY <1>1, <1>5, <1>8
<1>10. Located'
  BY <1>1, <1>8, <1>9 DEF Located, ValueAwaited, ValueRead, CommaRead, AfterValuePlaces
<1>11. QED
  BY <1>8, <1>10 DEF Parsing

LEMMA SeparatorParsing ==
  ASSUME IInv, IInv', Lasts(heap, heap'), Parsing, FramesKept, Separator
  PROVE  Parsing'
<1>1. /\ pc = "between" /\ pc' = "afterComma" /\ have /\ have' = FALSE /\ Look.k = ","
      /\ UNCHANGED input
  BY DEF Separator, Sees, Bump
<1>2. AfterValue /\ stack # <<>>
  BY <1>1 DEF Parsing, Located, ValueRead, AfterValuePlaces
<1>3. Allowed(input, At, StrictJSON)
  BY <1>1, <1>2, AllowedAhead
<1>4. ~IsBlankSpace(Look) /\ ~Opens(Look) /\ ~Closes(Look)
  BY <1>1 DEF IsBlankSpace, IsComment, Opens, Closes
<1>5. /\ Balanced' /\ LanguageExact' /\ Prior' # 0 /\ input'[Prior'] = Look
      /\ stack' # <<>>
  BY <1>1, <1>2, <1>3, <1>4, TokenParsing
<1>6. PICK f \in Frame : SetTop(f) /\ f.justConsumedComma = TRUE
  BY <1>2, TopAssigned
<1>7. Top' = f
  BY <1>2, <1>6, SetTopAt, FrameTypes DEF Top
<1>8. AfterComma'
  BY <1>1, <1>5 DEF AfterComma
<1>9. Located'
  BY <1>1, <1>5, <1>6, <1>7, <1>8 DEF Located, ValueAwaited, ValueRead, CommaRead, AfterValuePlaces
<1>10. QED
  BY <1>5, <1>9 DEF Parsing

\* Where parseValue is called no key may stand, and any value may.
LEMMA ValueAhead ==
  ASSUME IInv, Parsing, ExpectsValue, ~SeesClose
  PROVE  /\ StartsValue(Look) => Allowed(input, At, StrictJSON)
         /\ ~IsKey(input, At)
<1>1. /\ pc \in {"value", "keyValue"} \/ (pc = "loop" /\ InArray)
      /\ have
  BY DEF ExpectsValue
<1>2. InArray => ~InObject
  BY DEF InObject, InArray
<1>3. CASE pc = "value"
  <2>1. Prior = 0
    BY <1>3 DEF Parsing, Located, ValueAwaited
  <2>2. QED
    BY <1>1, <1>3, <2>1, AllowedAhead, AheadFacts DEF IsKey
<1>4. CASE pc = "keyValue"
  <2>1. Prior # 0 /\ input[Prior].k = ":"
    BY <1>4 DEF Parsing, Located, ValueAwaited
  <2>2. QED
    BY <1>1, <1>4, <2>1, AllowedAhead, AheadFacts DEF IsKey
<1>5. CASE pc = "loop"
  <2>1. stack # <<>> /\ (Prior = Opened[Len(stack)] \/ AfterComma)
    BY <1>5 DEF Parsing, Located, CommaRead
  <2>2. Prior # 0 /\ input[Prior].k \in {"[", ","}
    <3>1. CASE AfterComma
      BY <3>1 DEF AfterComma
    <3>2. CASE Prior = Opened[Len(stack)]
      BY <1>1, <1>2, <1>5, <2>1, <3>2, AheadFacts
    <3>3. QED
      BY <2>1, <3>1, <3>2
  <2>3. ~IsKey(input, At)
    BY <1>1, <1>2, <1>5, AheadFacts DEF IsKey
  <2>4. QED
    BY <1>1, <1>5, <2>2, <2>3, AllowedAhead
<1>6. QED
  BY <1>1, <1>3, <1>4, <1>5

LEMMA ParseScalarParsing ==
  ASSUME IInv, IInv', Lasts(heap, heap'), Parsing, FramesKept, ParseScalar
  PROVE  Parsing'
<1>1. /\ pc' \in {"return", "overNodes"} /\ have /\ have' = FALSE /\ Look.k \in {"str", "scalar"}
      /\ UNCHANGED input /\ ExpectsValue /\ pc \notin {"error", "closed"}
  BY DEF ParseScalar, ExpectsValue, Bump, BumpNodeCount, Scalars
<1>2. ~SeesClose
  BY <1>1 DEF SeesClose, Sees
<1>3. StartsValue(Look) /\ ~IsBlankSpace(Look) /\ ~Opens(Look) /\ ~Closes(Look)
  BY <1>1 DEF IsBlankSpace, IsComment, StartsValue, Opens, Closes
<1>4. Allowed(input, At, StrictJSON) /\ ~IsKey(input, At)
  BY <1>1, <1>2, <1>3, ValueAhead
<1>5. Balanced' /\ LanguageExact' /\ Prior' = At /\ Prior' # 0 /\ input'[Prior'] = Look
  BY <1>1, <1>3, <1>4, TokenParsing
<1>6. AfterValue'
  BY <1>1, <1>4, <1>5 DEF AfterValue, EndsValue, Look
<1>7. Located'
  BY <1>1, <1>6 DEF Located, ValueAwaited, ValueRead, CommaRead
<1>8. QED
  BY <1>5, <1>7 DEF Parsing

LEMMA OpenContainerParsing ==
  ASSUME IInv, IInv', Lasts(heap, heap'), Parsing, OpenContainer
  PROVE  Parsing'
<1>1. /\ pc' \in {"loop", "overNodes"} /\ have /\ have' = FALSE /\ Look.k \in {"{", "["}
      /\ UNCHANGED input /\ ExpectsValue /\ pc \notin {"error", "closed"}
  BY DEF OpenContainer, ExpectsValue, Bump, BumpNodeCount, Openers
<1>2. ~SeesClose
  BY <1>1 DEF SeesClose, Sees
<1>3. StartsValue(Look) /\ ~IsBlankSpace(Look) /\ Opens(Look)
  BY <1>1 DEF IsBlankSpace, IsComment, StartsValue, Opens
<1>4. Allowed(input, At, StrictJSON)
  BY <1>1, <1>2, <1>3, ValueAhead
<1>5. PICK n \in Nat : n = Len(stack)
  BY Facts
<1>6. PICK P : P = Opened
  OBVIOUS
<1>7. /\ Len(stack') = n + 1 /\ stack'[n + 1] = NewFrame(Len(heap) + 1)
      /\ \A i \in 1..n : stack'[i].node = stack[i].node
  BY <1>5, FramesOpened DEF SameKey
<1>8. stack'[n + 1].node = Len(heap) + 1 /\ stack'[n + 1].justConsumedComma = FALSE
  BY <1>7 DEF NewFrame
<1>9. /\ heap'[Len(heap) + 1].pos = At
      /\ heap'[Len(heap) + 1].kind = IF Look.k = "{" THEN "object" ELSE "array"
  <2>1. PICK x \in Node : /\ heap' = Append(heap, x) /\ x.pos = At
                          /\ x.kind = IF Look.k = "{" THEN "object" ELSE "array"
    BY Allocated
  <2>2. heap'[Len(heap) + 1] = x
    BY <2>1, Facts, AppendProperties
  <2>3. QED
    BY <2>1, <2>2
<1>10. Live = n /\ Live' = n + 1
  BY <1>1, <1>5, <1>7 DEF Live
<1>11. Read(n, P)
  BY <1>1, <1>6, <1>10 DEF Parsing, Balanced, LanguageExact, Read
<1>12. PICK Q : Q = Opened'
  OBVIOUS
<1>13. \A i \in 1..n : Q[i] = P[i] /\ heap'[stack'[i].node].kind = heap[stack[i].node].kind
  BY <1>5, <1>6, <1>7, <1>12, OpenedKept
<1>14. Q[n + 1] = At
  <2>1. n + 1 \in 1..n + 1
    OBVIOUS
  <2>2. Q[n + 1] = heap'[stack'[n + 1].node].pos
    BY <1>7, <1>12, <2>1 DEF Opened
  <2>3. QED
    BY <1>8, <1>9, <2>2
<1>15. /\ Prior' = At /\ Prior' # 0 /\ Consumed' = At
       /\ Read(n + 1, Q)'
  <2>1. /\ Prior' = At /\ Prior' # 0 /\ Consumed' = At
        /\ \A R : Opens(Look) /\ (\A m \in 1..n : R[m] = P[m]) /\ R[n + 1] = At => Read(n + 1, R)'
    BY <1>1, <1>3, <1>4, <1>11, TokenRead
  <2>2. \A m \in 1..n : Q[m] = P[m]
    BY <1>13
  <2>3. QED
    BY <1>3, <1>14, <2>1, <2>2
<1>16. ASSUME NEW i \in 1..n + 1
       PROVE  <<heap'[stack'[i].node].kind, input'[Q[i]].k>>
                \in {<<"object", "{">>, <<"array", "[">>}
  <2>1. CASE i = n + 1
    <3>1. heap'[stack'[i].node].kind = IF Look.k = "{" THEN "object" ELSE "array"
      BY <1>8, <1>9, <2>1
    <3>2. input'[Q[i]].k = Look.k
      BY <1>1, <1>14, <2>1 DEF Look
    <3>3. QED
      BY <1>1, <3>1, <3>2
  <2>2. CASE i \in 1..n
    <3>1. <<heap[stack[i].node].kind, input[P[i]].k>> \in {<<"object", "{">>, <<"array", "[">>}
      BY <1>1, <1>6, <1>10, <2>2 DEF Parsing, Balanced
    <3>2. QED
      BY <1>1, <1>13, <2>2, <3>1
  <2>3. i = n + 1 \/ i \in 1..n
    OBVIOUS
  <2>4. QED
    BY <2>1, <2>2, <2>3
<1>17. Balanced'
  BY <1>10, <1>12, <1>15, <1>16 DEF Balanced, Read
<1>18. LanguageExact'
  BY <1>1, <1>15, Unfinished DEF Read
<1>19. stack' # <<>>
  BY <1>5, <1>7, StackEmpty DEF IInv, TypeOK, ParserTypeOK
<1>20. Prior' = Opened'[Len(stack')] /\ Top'.justConsumedComma = FALSE
  BY <1>7, <1>8, <1>12, <1>14, <1>15 DEF Top
<1>21. Located'
  BY <1>1, <1>19, <1>20 DEF Located, ValueAwaited, ValueRead, CommaRead, AfterValuePlaces
<1>22. QED
  BY <1>17, <1>18, <1>21 DEF Parsing

LEMMA CloseContainerParsing ==
  ASSUME IInv, IInv', Lasts(heap, heap'), Parsing, FramesKept, CloseContainer
  PROVE  Parsing'
<1>1. /\ pc = "loop" /\ pc' = "closed" /\ SeesClose /\ have /\ have' = FALSE
      /\ (InObject /\ Look.k = "}") \/ (InArray /\ Look.k = "]")
      /\ UNCHANGED <<input, stack>> /\ ~(StrictJSON /\ Top.justConsumedComma)
  BY DEF CloseContainer, AtClose, SeesClose, Sees, Bump, TrailingComma
<1>2. ~IsBlankSpace(Look) /\ Closes(Look)
  BY <1>1 DEF IsBlankSpace, IsComment, Closes
<1>3. Allowed(input, At, StrictJSON)
  <2>1. \/ AfterValue
        \/ input[Prior].k = IF InObject THEN "{" ELSE "["
        \/ input[Prior].k = "," /\ ~StrictJSON
    <3>1. stack # <<>>
      BY <1>1 DEF Parsing, Located, CommaRead
    <3>2. CASE Prior = Opened[Len(stack)]
      BY <1>1, <3>1, <3>2, AheadFacts
    <3>3. CASE AfterComma /\ Top.justConsumedComma = TRUE
      BY <1>1, <3>3 DEF AfterComma
    <3>4. QED
      BY <1>1, <3>2, <3>3 DEF Parsing, Located, CommaRead
  <2>2. QED
    BY <1>1, <2>1, AllowedAhead
<1>4. PICK n \in Nat : n = Len(stack)
  BY Facts
<1>5. PICK P : P = Opened
  OBVIOUS
<1>6. n # 0
  <2>1. stack # <<>>
    BY <1>1 DEF InObject, InArray
  <2>2. QED
    BY <1>4, <2>1, StackEmpty
<1>7. Live = n /\ Live' = n - 1 /\ Len(stack') = n
  BY <1>1, <1>4 DEF Live
<1>8. Read(n, P)
  BY <1>1, <1>5, <1>7 DEF Parsing, Balanced, LanguageExact, Read
<1>9. Read(n - 1, P)' /\ Prior' = At /\ Prior' # 0 /\ Consumed' = At
  BY <1>1, <1>2, <1>3, <1>6, <1>8, TokenRead
<1>10. PICK m \in Nat : m = n - 1
  BY <1>6
<1>11. \A i \in 1..m : i \in 1..n
  BY <1>10
<1>12. \A i \in 1..n : Opened'[i] = P[i] /\ heap'[stack'[i].node].kind = heap[stack[i].node].kind
  <2>1. n <= Len(stack) /\ n <= Len(stack') /\ \A i \in 1..n : stack'[i].node = stack[i].node
    BY <1>4 DEF FramesKept
  <2>2. QED
    BY <1>5, <2>1, OpenedKept
<1>13. Nests(input', Consumed', m, Opened')
  <2>1. Nests(input', Consumed', m, P)
    BY <1>9, <1>10 DEF Read
  <2>2. Consumed' \in Nat
    BY <1>1, <1>9, ConsumedType
  <2>3. QED
    BY <1>11, <1>12, <2>1, <2>2, NestsSame
<1>14. ASSUME NEW i \in 1..m
       PROVE  <<heap'[stack'[i].node].kind, input'[Opened'[i]].k>>
                \in {<<"object", "{">>, <<"array", "[">>}
  <2>1. <<heap[stack[i].node].kind, input[P[i]].k>> \in {<<"object", "{">>, <<"array", "[">>}
    BY <1>1, <1>5, <1>7, <1>11 DEF Parsing, Balanced
  <2>2. QED
    BY <1>1, <1>11, <1>12, <2>1
<1>15. Balanced'
  BY <1>7, <1>10, <1>13, <1>14 DEF Balanced
<1>16. LanguageExact'
  BY <1>1, <1>9, Unfinished DEF Read
<1>17. AfterValue'
  BY <1>1, <1>2, <1>9 DEF AfterValue, EndsValue, Look
<1>18. Located'
  BY <1>1, <1>17 DEF Located, ValueAwaited, ValueRead, CommaRead
<1>19. QED
  BY <1>15, <1>16, <1>18 DEF Parsing

-----------------------------------------------------------------------------
(* The theorem. *)

LEMMA InitParsing == ASSUME Init PROVE Parsing
<1>1. /\ At = 0 /\ Consumed = 0 /\ Len(stack) = 0 /\ Live = 0 /\ stack = <<>> /\ pc = "lead"
      /\ result.kind = "none"
  BY EmptySeq DEF Init, ParserInit, At, Consumed, Live
<1>2. Balanced
  BY <1>1, NestsFirst DEF Balanced
<1>3. Prior = 0
  BY <1>1, BeforeFirst DEF Prior
<1>4. Located
  BY <1>1, <1>3 DEF Located, ValueAwaited, ValueRead, CommaRead, AfterValuePlaces
<1>5. LanguageExact
  BY <1>1 DEF LanguageExact, Viable, Accepted
<1>6. QED
  BY <1>2, <1>4, <1>5 DEF Parsing

LEMMA StutterParsing == ASSUME Parsing, UNCHANGED vars PROVE Parsing'
<1>1. UNCHANGED <<input, have, pc, stack, heap, result>>
  BY DEF vars, pvars
<1>2. At' = At /\ Look' = Look /\ Consumed' = Consumed /\ Live' = Live /\ Top' = Top
      /\ Opened' = Opened
  BY <1>1 DEF At, Look, Consumed, Live, Top, Opened
<1>3. Prior' = Prior /\ Container' = Container
  BY <1>1, <1>2 DEF Prior, Container
<1>4. (InObject' <=> InObject) /\ (InArray' <=> InArray) /\ (AfterValue' <=> AfterValue)
      /\ (AfterComma' <=> AfterComma)
  BY <1>1, <1>3 DEF InObject, InArray, AfterValue, AfterComma
<1>5. SeesClose' <=> SeesClose
  BY <1>1, <1>2, <1>4 DEF SeesClose, Sees
<1>6. Balanced'
  BY <1>1, <1>2 DEF Parsing, Balanced
<1>7. Located'
  BY <1>1, <1>2, <1>3, <1>4, <1>5 DEF Parsing, Located, ValueAwaited, ValueRead, CommaRead
<1>8. LanguageExact'
  BY <1>1, <1>2 DEF Parsing, LanguageExact, Accepted
<1>9. QED
  BY <1>6, <1>7, <1>8 DEF Parsing

LEMMA NextParsing == IInv /\ IInv' /\ Parsing /\ [Next]_vars => Parsing'
<1> SUFFICES ASSUME IInv, IInv', Parsing, [Next]_vars PROVE Parsing'
  OBVIOUS
<1>1. Lasts(heap, heap')
  BY NodesLast
<1>2. (pc' = "error" /\ stack' = <<>>) \/ OpenContainer \/ ReturnContainer \/ FramesKept
  BY FramesLast
<1>3. CASE pc' = "error"
  <2>1. \/ NotAValue \/ StrictTrailingComma \/ NotAKey \/ NotAColon \/ NotASeparator
        \/ NoRoot \/ ExtraData
        \/ OverNodes \/ TooDeep \/ RefuseDuplicate \/ InsertMember \/ UNCHANGED vars
    BY <1>3 DEF Next, ParseValue, Scan, Peeks, ParseScalar, OpenContainer, BumpNodeCount,
       CollectHeadComments, SkipDroppedComments, CloseContainer, ReturnContainer, AppendElement,
       ParseKey, ParseColon, MakeMember, InlineComment, Separator, CloseAhead, AttachAfterComma,
       BeginRoot, ReturnRoot, RootInline, ConsumeTrailing, Finish
  <2>2. QED
    BY <1>3, <2>1, ErrorParsing, StutterParsing
<1>4. CASE OpenContainer
  BY <1>1, <1>4, OpenContainerParsing
<1>5. CASE ReturnContainer
  BY <1>1, <1>5, ReturnContainerParsing
<1>6. CASE FramesKept /\ pc' # "error" /\ ~OpenContainer /\ ~ReturnContainer
  <2>1. CASE Scan \/ CollectHeadComments \/ SkipDroppedComments \/ ConsumeTrailing
    BY <1>1, <1>6, <2>1, LookParsing
  <2>2. CASE \/ BeginRoot \/ ReturnRoot \/ RootInline \/ MakeMember \/ InsertMember \/ AppendElement
             \/ InlineComment \/ CloseAhead \/ AttachAfterComma
    BY <1>1, <1>6, <2>2, MoveParsing
  <2>3. CASE ParseScalar
    BY <1>1, <1>6, <2>3, ParseScalarParsing
  <2>4. CASE CloseContainer
    BY <1>1, <1>6, <2>4, CloseContainerParsing
  <2>5. CASE ParseKey
    BY <1>1, <1>6, <2>5, ParseKeyParsing
  <2>6. CASE ParseColon
    BY <1>1, <1>6, <2>6, ParseColonParsing
  <2>7. CASE Separator
    BY <1>1, <1>6, <2>7, SeparatorParsing
  <2>8. CASE Finish
    BY <1>1, <2>8, FinishParsing
  <2>9. CASE UNCHANGED vars
    BY <2>9, StutterParsing
  <2>10. ~(\/ OverNodes \/ TooDeep \/ NotAValue \/ StrictTrailingComma \/ NotAKey \/ NotAColon
           \/ RefuseDuplicate \/ NotASeparator \/ NoRoot \/ ExtraData)
    BY <1>6 DEF OverNodes, TooDeep, NotAValue, StrictTrailingComma, NotAKey, NotAColon,
                RefuseDuplicate, NotASeparator, NoRoot, ExtraData, Fail, Stop
  <2>11. QED
    BY <1>6, <2>1, <2>2, <2>3, <2>4, <2>5, <2>6, <2>7, <2>8, <2>9, <2>10 DEF Next, ParseValue
<1>7. QED
  BY <1>2, <1>3, <1>4, <1>5, <1>6

\* The parser stands where the language of JWCC does at every step.
LEMMA AlwaysParsing == Spec => []Parsing
<1>1. Init => Parsing
  BY InitParsing
<1>2. IInv /\ IInv' /\ Parsing /\ [Next]_vars => Parsing'
  BY NextParsing
<1>3. QED
  BY <1>1, <1>2, Inductive, PTL DEF Spec

\* The parser follows the language token by token, whatever the text and the
\* options: what it consumes can begin a text of JWCC, it accepts only whole
\* texts, and it reports a syntax error at the first token no text has there
\* and at no other (parseValue, parseObject, parseArray, parseMember and
\* consumeTrailing).
THEOREM AcceptsTheLanguage == Spec => []LanguageExact
<1>1. Parsing => LanguageExact
  BY DEF Parsing
<1>2. QED
  BY <1>1, AlwaysParsing, PTL

-----------------------------------------------------------------------------
(* What a step does to the text consumed. *)

Starts == {i \in 1..Consumed : IsValueStart(input, i)}
KeysRead == {i \in 1..Consumed : IsKey(input, i)}

SamePlace(i) ==
  /\ input'[i] = input[i]
  /\ IsKey(input', i) <=> IsKey(input, i)
  /\ IsValueStart(input', i) <=> IsValueStart(input, i)
  /\ Around(input', i) = Around(input, i)
  /\ Before(input', i) = Before(input, i)
  /\ ChildOf(input', i) = ChildOf(input, i)
  /\ Depth(input', i) = Depth(input, i)
TextKept == \A i \in 1..Consumed : SamePlace(i)

LEMMA AgreePlaces ==
  ASSUME NEW c \in Nat, c = Consumed, Agree(input, input', c)
  PROVE  TextKept
<1> SUFFICES ASSUME NEW i \in 1..c PROVE SamePlace(i)
  BY DEF TextKept
<1>1. i \in 1..c + 1 /\ i \in Nat /\ 1 \in Nat \ {0} /\ i <= c
  OBVIOUS
<1>2. input'[i] = input[i] /\ (IsKey(input', i) <=> IsKey(input, i))
  BY AgreeKey DEF Agree
<1>3. Around(input', i) = Around(input, i) /\ Before(input', i) = Before(input, i)
  BY <1>1, AgreeAround, AgreeBefore
<1>4. ChildOf(input', i) = ChildOf(input, i)
  BY AgreeChild
<1>5. Surplus(input', 1, i) = Surplus(input, 1, i)
  BY <1>1, AgreeSurplus
<1>6. QED
  BY <1>2, <1>3, <1>4, <1>5 DEF SamePlace, IsValueStart, Depth

\* What a step reads: nothing, a token ahead, or the lookahead.
LEMMA Reads ==
  ASSUME IInv, [Next]_vars
  PROVE  \/ Scan /\ ~(ParseScalar \/ OpenContainer \/ ParseKey)
         \/ UNCHANGED <<input, have>> /\ ~(ParseScalar \/ OpenContainer \/ ParseKey)
         \/ /\ have /\ have' = FALSE /\ UNCHANGED input
            /\ \/ (ParseScalar \/ OpenContainer) /\ Look.k \in {"str", "scalar", "{", "["} /\ ~ParseKey
               \/ ParseKey /\ Look.k = "str" /\ ~ParseScalar /\ ~OpenContainer
               \/ /\ Look.k \notin {"str", "scalar", "{", "["}
                  /\ ~(ParseScalar \/ OpenContainer \/ ParseKey)
<1>1. ParseScalar \/ OpenContainer =>
        have /\ have' = FALSE /\ UNCHANGED input /\ Look.k \in {"str", "scalar", "{", "["}
  BY DEF ParseScalar, OpenContainer, ExpectsValue, Bump, Scalars, Openers
<1>2. ParseKey => have /\ have' = FALSE /\ UNCHANGED input /\ Look.k = "str"
  BY DEF ParseKey, Sees, Bump
<1>3. ~(ParseKey /\ (ParseScalar \/ OpenContainer))
  <2>1. ParseKey => pc = "loop" /\ ~InArray
    BY DEF ParseKey, InObject, InArray
  <2>2. QED
    BY <2>1 DEF ParseScalar, OpenContainer, ExpectsValue
<1>4. CASE ParseScalar \/ OpenContainer \/ ParseKey
  BY <1>1, <1>2, <1>3, <1>4
<1>5. CASE ~(ParseScalar \/ OpenContainer \/ ParseKey)
  <2>1. CASE \/ Scan
             \/ OverNodes \/ TooDeep \/ NotAValue \/ StrictTrailingComma \/ NotAKey \/ NotAColon
             \/ RefuseDuplicate \/ NotASeparator \/ NoRoot \/ ExtraData
             \/ AppendElement \/ MakeMember \/ InsertMember \/ CloseAhead \/ BeginRoot \/ ReturnRoot
             \/ Finish \/ UNCHANGED vars
    BY <1>5, <2>1 DEF OverNodes, TooDeep, NotAValue, StrictTrailingComma, NotAKey, NotAColon,
       RefuseDuplicate, NotASeparator, NoRoot, ExtraData, AppendElement, MakeMember, InsertMember,
       CloseAhead, BeginRoot, ReturnRoot, Finish, vars, pvars
  <2>2. CASE CollectHeadComments \/ SkipDroppedComments \/ ConsumeTrailing
    BY <1>5, <2>2 DEF CollectHeadComments, SkipDroppedComments, ConsumeTrailing, Sees, Bump, Comments
  <2>3. CASE ReturnContainer \/ InlineComment \/ AttachAfterComma \/ RootInline
    BY <1>5, <2>3 DEF ReturnContainer, InlineComment, AttachAfterComma, RootInline, TakeInline, Comments
  <2>4. CASE CloseContainer \/ ParseColon \/ Separator
    BY <1>5, <2>4 DEF CloseContainer, AtClose, SeesClose, ParseColon, Separator, Sees, Bump
  <2>5. QED
    BY <1>5, <2>1, <2>2, <2>3, <2>4 DEF Next, ParseValue
<1>6. QED
  BY <1>4, <1>5

\* No text has a value's first token where parseMember reads a key.
LEMMA KeyAhead ==
  ASSUME IInv, Parsing, ParseKey
  PROVE  IsKey(input, At) /\ ~IsValueStart(input, At)
<1>1. pc = "loop" /\ have /\ Look.k = "str" /\ InObject
  BY DEF ParseKey, Sees
<1>2. ~SeesClose
  BY <1>1 DEF SeesClose, Sees
<1>3. stack # <<>> /\ (Prior = Opened[Len(stack)] \/ AfterComma)
  BY <1>1, <1>2 DEF Parsing, Located, CommaRead
<1>4. Prior # 0 /\ input[Prior].k \in {"{", ","}
  <2>1. CASE AfterComma
    BY <2>1 DEF AfterComma
  <2>2. CASE Prior = Opened[Len(stack)]
    BY <1>1, <1>3, <2>2, AheadFacts
  <2>3. QED
    BY <1>3, <2>1, <2>2
<1>5. IsKey(input, At)
  BY <1>1, <1>4, AheadFacts DEF IsKey, Look
<1>6. QED
  BY <1>5 DEF IsValueStart

\* The values and keys read: those before and perhaps the lookahead.
LEMMA PlacesRead ==
  ASSUME IInv, Parsing, [Next]_vars
  PROVE  /\ TextKept /\ Consumed \in Nat /\ Consumed' \in Nat /\ Consumed <= Consumed'
         /\ Starts' = Starts \cup IF ParseScalar \/ OpenContainer THEN {At} ELSE {}
         /\ KeysRead' = KeysRead \cup IF ParseKey THEN {At} ELSE {}
         /\ Consumed' # Consumed => Consumed' = At
         /\ ParseScalar \/ OpenContainer \/ ParseKey => Consumed' = At /\ At = Consumed + 1
<1>1. PICK c \in Nat : c = Consumed
  BY ConsumedType
<1>2. CASE UNCHANGED input /\ have /\ have' = FALSE
  <2>1. At = c + 1 /\ Consumed' = c + 1
    BY <1>1, <1>2, Facts DEF Consumed, At
  <2>2. TextKept
    BY <1>1, <1>2, AgreePlaces DEF Agree
  <2>3. 1..c + 1 = 1..c \cup {c + 1}
    OBVIOUS
  <2>4. /\ Starts' = Starts \cup IF IsValueStart(input, At) THEN {At} ELSE {}
        /\ KeysRead' = KeysRead \cup IF IsKey(input, At) THEN {At} ELSE {}
    BY <1>1, <1>2, <2>1, <2>3 DEF Starts, KeysRead
  <2>5. /\ IsValueStart(input, At) <=> ParseScalar \/ OpenContainer
        /\ IsKey(input, At) <=> ParseKey
    <3>1. CASE ParseScalar \/ OpenContainer
      <4>1. ExpectsValue /\ Look.k \in {"str", "scalar", "{", "["} /\ ~ParseKey
        BY <3>1, Reads DEF ParseScalar, OpenContainer
      <4>2. ~IsKey(input, At)
        BY <4>1, ValueAhead DEF SeesClose, Sees
      <4>3. QED
        BY <3>1, <4>1, <4>2 DEF IsValueStart, StartsValue, Opens, Look
    <3>2. CASE ParseKey
      BY <3>2, KeyAhead, Reads
    <3>3. CASE Look.k \notin {"str", "scalar", "{", "["} /\ ~(ParseScalar \/ OpenContainer \/ ParseKey)
      BY <3>3 DEF IsValueStart, StartsValue, Opens, IsKey, Look
    <3>4. QED
      BY <1>2, <3>1, <3>2, <3>3, Reads DEF Scan
  <2>6. QED
    BY <1>1, <2>1, <2>2, <2>4, <2>5
<1>3. CASE (Scan \/ UNCHANGED <<input, have>>) /\ ~(ParseScalar \/ OpenContainer \/ ParseKey)
  <2>1. c = Consumed' /\ Agree(input, input', c)
    <3>1. CASE Scan
      <4>1. PICK t \in Alphabet : ~have /\ input' = Append(input, t) /\ have' = TRUE
        BY <3>1 DEF Scan
      <4>2. /\ Len(input) \in Nat /\ Len(input') = Len(input) + 1
            /\ \A i \in 1..Len(input) : input'[i] = input[i]
        BY <4>1, Facts, LenProperties
      <4>3. QED
        BY <1>1, <4>1, <4>2 DEF Consumed, At, Agree
    <3>2. CASE UNCHANGED <<input, have>>
      BY <1>1, <3>2 DEF Consumed, At, Agree
    <3>3. QED
      BY <1>3, <3>1, <3>2
  <2>2. TextKept
    BY <1>1, <2>1, AgreePlaces
  <2>3. Starts' = Starts /\ KeysRead' = KeysRead
    BY <1>1, <2>1, <2>2 DEF TextKept, SamePlace, Starts, KeysRead
  <2>4. QED
    BY <1>1, <1>3, <2>1, <2>2, <2>3
<1>4. QED
  BY <1>2, <1>3, Reads

-----------------------------------------------------------------------------
(* What a step does to the frames whose object awaits a member. *)

Working == pc \notin {"error", "overNodes"}
WaitingPlaces == {"colon", "keyValue", "return", "insert"}
Waiting(m) == heap[stack[m].node].kind = "object" /\ (m < Len(stack) \/ pc \in WaitingPlaces)
WaitingFrames == {m \in 1..Len(stack) : Waiting(m)}

\* A step that allocates nothing, opens and leaves no container, and moves pc
\* within the same half of a member.
Still ==
  /\ Len(heap') = Len(heap) /\ FramesKept /\ UNCHANGED keys
  /\ pc # "error" /\ pc' # "error"
  /\ pc' = "overNodes" <=> pc = "overNodes"
  /\ pc' = "insert" <=> pc = "insert"
  /\ InObject => (pc' \in WaitingPlaces <=> pc \in WaitingPlaces)
  /\ ~(ParseKey \/ ParseScalar \/ OpenContainer)

LEMMA StillSteps ==
  ASSUME IInv, IInv', FramesKept,
         \/ Scan \/ CollectHeadComments \/ SkipDroppedComments
         \/ CloseContainer \/ AppendElement \/ ParseColon
         \/ InlineComment \/ Separator \/ CloseAhead \/ AttachAfterComma
         \/ BeginRoot \/ ReturnRoot \/ RootInline \/ ConsumeTrailing \/ Finish
  PROVE  Still
<1>1. nodes' = nodes /\ nodes = Len(heap) /\ nodes' = Len(heap') /\ UNCHANGED keys
  BY DEF IInv, LimitsHold, Scan, CollectHeadComments, SkipDroppedComments, CloseContainer, AppendElement,
     ParseColon, InlineComment, Separator, CloseAhead, AttachAfterComma, BeginRoot, ReturnRoot,
     RootInline, ConsumeTrailing, Finish
<1>2. ~(ParseScalar \/ OpenContainer)
  <2>1. ParseScalar \/ OpenContainer => nodes' = nodes + 1
    BY DEF ParseScalar, OpenContainer, BumpNodeCount
  <2>2. QED
    BY <1>1, <2>1, Facts
<1>3. ~ParseKey
  <2>1. ParseKey => pc = "loop" /\ pc' = "colon"
    BY DEF ParseKey
  <2>2. ~(pc = "loop" /\ pc' = "colon")
    BY DEF Scan, CollectHeadComments, SkipDroppedComments, CloseContainer, AppendElement, ParseColon,
       InlineComment, Separator, CloseAhead, AttachAfterComma, BeginRoot, ReturnRoot, RootInline,
       ConsumeTrailing, Finish
  <2>3. QED
    BY <2>1, <2>2
<1>4. /\ pc # "error" /\ pc' # "error"
      /\ pc' = "overNodes" <=> pc = "overNodes"
      /\ pc' = "insert" <=> pc = "insert"
      /\ InObject => (pc' \in WaitingPlaces <=> pc \in WaitingPlaces)
  BY DEF Scan, Peeks, CollectHeadComments, SkipDroppedComments, CloseContainer, AtClose, AppendElement,
     ParseColon, InlineComment, Separator, CloseAhead, AttachAfterComma, BeginRoot, ReturnRoot,
     RootInline, ConsumeTrailing, Finish, WaitingPlaces, InObject, InArray
<1>5. QED
  BY <1>1, <1>2, <1>3, <1>4 DEF Still

LEMMA Shapes ==
  ASSUME IInv, IInv', [Next]_vars
  PROVE  \/ UNCHANGED vars
         \/ pc' = "error" /\ pc # "error"
         \/ ParseKey \/ ParseScalar \/ OpenContainer \/ ReturnContainer \/ MakeMember \/ InsertMember
         \/ Still
<1>1. (pc' = "error" /\ stack' = <<>>) \/ OpenContainer \/ ReturnContainer \/ FramesKept
  BY FramesLast
<1>2. CASE \/ OverNodes \/ TooDeep \/ NotAValue \/ StrictTrailingComma \/ NotAKey \/ NotAColon
           \/ RefuseDuplicate \/ NotASeparator \/ NoRoot \/ ExtraData
  BY <1>2 DEF OverNodes, TooDeep, NotAValue, StrictTrailingComma, NotAKey, NotAColon, ExpectsValue, AtClose,
     RefuseDuplicate, NotASeparator, NoRoot, ExtraData, Fail, Stop
<1>3. CASE \/ Scan \/ CollectHeadComments \/ SkipDroppedComments
           \/ CloseContainer \/ AppendElement \/ ParseColon
           \/ InlineComment \/ Separator \/ CloseAhead \/ AttachAfterComma
           \/ BeginRoot \/ ReturnRoot \/ RootInline \/ ConsumeTrailing \/ Finish
  <2>1. CASE FramesKept
    BY <1>3, <2>1, StillSteps
  <2>2. CASE OpenContainer \/ ReturnContainer
    BY <2>2
  <2>3. pc' # "error"
    BY <1>3 DEF Scan, Peeks, CollectHeadComments, SkipDroppedComments, CloseContainer, AppendElement,
       ParseColon, InlineComment, Separator, CloseAhead, AttachAfterComma, BeginRoot, ReturnRoot,
       RootInline, ConsumeTrailing, Finish
  <2>4. QED
    BY <1>1, <2>1, <2>2, <2>3
<1>4. QED
  BY <1>2, <1>3 DEF Next, ParseValue

\* Which objects await a member after a step.
LEMMA WaitingNext ==
  ASSUME IInv, IInv', Indexed, Lasts(heap, heap'), [Next]_vars, Working, Working'
  PROVE  /\ WaitingFrames' = IF ParseKey THEN WaitingFrames \cup {Len(stack)}
                             ELSE IF InsertMember THEN WaitingFrames \ {Len(stack)}
                             ELSE WaitingFrames
         /\ ParseKey => Len(stack) \notin WaitingFrames
         /\ pc \in {"return", "insert"} /\ InObject => Len(stack) \in WaitingFrames
<1> pc' \notin {"error", "overNodes"}
  BY DEF Working
<1>1. PICK n \in Nat : n = Len(stack)
  BY Facts
<1>2. \A i \in 1..n : /\ stack[i].node \in 1..Len(heap)
                      /\ heap'[stack[i].node].kind = heap[stack[i].node].kind
  <2>1. \A i \in 1..n : stack[i].node \in 1..Len(heap)
    BY <1>1 DEF IInv, FramesOK
  <2>2. QED
    BY <2>1, LastsFacts
<1>3. n # 0 => n \in 1..n /\ (InObject <=> heap[stack[n].node].kind = "object")
  BY <1>1, StackEmpty DEF InObject, Container, Top
<1>4. pc \in {"return", "insert"} /\ InObject => n \in WaitingFrames
  <2>1. InObject => n # 0
    BY <1>1, StackEmpty DEF InObject
  <2>2. QED
    BY <1>1, <1>3, <2>1 DEF WaitingFrames, Waiting, WaitingPlaces
<1>5. CASE ParseKey
  <2>1. pc = "loop" /\ pc' = "colon" /\ InObject /\ ~InsertMember
    BY <1>5 DEF ParseKey, InsertMember
  <2>2. n # 0
    BY <1>1, <2>1, StackEmpty DEF InObject
  <2>3. Len(stack') = n /\ \A i \in 1..n : stack'[i].node = stack[i].node
    <3>1. ~OpenContainer /\ ~ReturnContainer
      BY <2>1 DEF OpenContainer, ReturnContainer, BumpNodeCount
    <3>2. QED
      BY <1>1, <1>5, <2>1, <3>1, FramesLast DEF FramesKept
  <2>4. n \notin WaitingFrames
    BY <1>1, <2>1 DEF WaitingFrames, Waiting, WaitingPlaces
  <2>5. WaitingFrames' = WaitingFrames \cup {n}
    BY <1>1, <1>2, <1>3, <2>1, <2>2, <2>3 DEF WaitingFrames, Waiting, WaitingPlaces
  <2>6. QED
    BY <1>1, <1>4, <1>5, <2>4, <2>5
<1>6. CASE InsertMember
  <2>1. pc = "insert" /\ pc' = "inline" /\ ~ParseKey
    BY <1>6 DEF InsertMember, ParseKey, Fail, Stop
  <2>2. Len(stack') = n /\ \A i \in 1..n : stack'[i].node = stack[i].node
    <3>1. ~OpenContainer /\ ~ReturnContainer
      BY <2>1 DEF OpenContainer, ReturnContainer, ExpectsValue
    <3>2. QED
      BY <1>1, <1>6, <2>1, <3>1, FramesLast DEF FramesKept
  <2>3. WaitingFrames' = WaitingFrames \ {n}
    BY <1>1, <1>2, <2>1, <2>2 DEF WaitingFrames, Waiting, WaitingPlaces
  <2>4. QED
    BY <1>1, <1>4, <1>6, <2>1, <2>3
<1>7. CASE OpenContainer
  <2>1. /\ pc \in {"value", "keyValue", "loop"} /\ (pc = "loop" => InArray) /\ pc' = "loop"
        /\ ~ParseKey /\ ~InsertMember
    BY <1>7, Reads DEF OpenContainer, ExpectsValue, BumpNodeCount, InsertMember
  <2> HIDE DEF Waiting
  <2>2. Len(stack') = n + 1 /\ \A i \in 1..n : stack'[i].node = stack[i].node
    BY <1>1, <1>7, FramesOpened DEF SameKey
  <2>3. n # 0 /\ heap[stack[n].node].kind = "object" => pc = "keyValue"
    <3>1. pc = "value" => n = 0
      BY <1>1, StackEmpty DEF Indexed, RootFirst
    <3>2. pc = "loop" => ~InObject
      BY <2>1 DEF InArray, InObject
    <3>3. QED
      BY <1>3, <2>1, <3>1, <3>2
  <2>4. \A i \in 1..n : Waiting(i)' <=> Waiting(i)
    BY <1>1, <1>2, <2>1, <2>2, <2>3 DEF Waiting, WaitingPlaces
  <2>5. ~Waiting(n + 1)'
    BY <2>1, <2>2 DEF Waiting, WaitingPlaces
  <2>6. 1..n + 1 = 1..n \cup {n + 1}
    OBVIOUS
  <2>7. WaitingFrames' = WaitingFrames
    BY <1>1, <2>2, <2>4, <2>5, <2>6 DEF WaitingFrames
  <2>8. QED
    BY <1>1, <1>4, <2>1, <2>7
<1>8. CASE ReturnContainer
  <2>1. pc = "closed" /\ pc' = "return" /\ ~ParseKey /\ ~InsertMember
    BY <1>8 DEF ReturnContainer, ParseKey, InsertMember
  <2>2. n # 0 /\ Len(stack') = n - 1 /\ \A i \in 1..n - 1 : stack'[i] = stack[i]
    BY <1>1, <1>8, FramesLeft, StackEmpty
  <2>3. PICK m \in Nat : m = n - 1 /\ n = m + 1
    BY <2>2
  <2>4. \A i \in 1..m : i \in 1..n
    BY <2>3
  <2>5. \A i \in 1..m : Waiting(i)' <=> Waiting(i)
    BY <1>1, <1>2, <2>1, <2>2, <2>3, <2>4 DEF Waiting, WaitingPlaces
  <2>6. ~Waiting(n)
    BY <1>1, <2>1 DEF Waiting, WaitingPlaces
  <2>7. 1..n = 1..m \cup {n}
    BY <2>3
  <2>8. WaitingFrames' = WaitingFrames
    BY <1>1, <2>2, <2>3, <2>5, <2>6, <2>7 DEF WaitingFrames
  <2>9. QED
    BY <1>1, <1>4, <2>1, <2>8
<1>9. CASE ~(ParseKey \/ InsertMember \/ OpenContainer \/ ReturnContainer)
  <2>1. FramesKept
    BY <1>9, FramesLast DEF Working
  <2>2. InObject => (pc' \in WaitingPlaces <=> pc \in WaitingPlaces)
    <3>1. CASE ParseScalar
      <4>1. /\ pc \in {"value", "keyValue", "loop"} /\ (pc = "loop" => InArray)
            /\ pc' \in {"return", "overNodes"}
        BY <3>1 DEF ParseScalar, ExpectsValue, BumpNodeCount
      <4>2. pc = "value" => ~InObject
        BY DEF Indexed, RootFirst, InObject
      <4>3. pc = "loop" => ~InObject
        BY <4>1 DEF InArray, InObject
      <4>4. QED
        BY <4>1, <4>2, <4>3 DEF WaitingPlaces
    <3>2. CASE MakeMember
      BY <3>2 DEF MakeMember, BumpNodeCount, WaitingPlaces
    <3>3. CASE UNCHANGED vars \/ Still
      BY <3>3 DEF Still, vars, pvars
    <3>4. QED
      BY <1>9, <3>1, <3>2, <3>3, Shapes DEF Working
  <2>3. Len(stack') = n /\ \A i \in 1..n : stack'[i].node = stack[i].node
    BY <1>1, <2>1 DEF FramesKept
  <2>4. ASSUME NEW i \in 1..n PROVE Waiting(i)' <=> Waiting(i)
    <3>1. CASE i = n
      BY <1>1, <1>2, <1>3, <2>2, <2>3, <3>1 DEF Waiting
    <3>2. CASE i # n
      BY <1>1, <1>2, <2>3, <3>2 DEF Waiting
    <3>3. QED
      BY <3>1, <3>2
  <2>5. WaitingFrames' = WaitingFrames
    BY <1>1, <2>3, <2>4 DEF WaitingFrames
  <2>6. QED
    BY <1>1, <1>4, <1>9, <2>5
<1>10. QED
  BY <1>5, <1>6, <1>7, <1>8, <1>9

-----------------------------------------------------------------------------
(* The counters. *)

\* The nodes are the values begun, the members inserted and the one about to
\* be; a key read is counted when its member is inserted.
Counted ==
  /\ Working =>
       /\ Cardinality(KeysRead) = keys + Cardinality(WaitingFrames)
       /\ Len(heap) = Cardinality(Starts) + keys + IF pc = "insert" THEN 1 ELSE 0
  /\ pc = "overNodes" =>
       Len(heap) <= Cardinality(Starts) + Cardinality(KeysRead) /\ Exceeds(nodes, MaxNodes)

LEMMA CountTypes ==
  ASSUME IInv
  PROVE  /\ IsFiniteSet(Starts) /\ Cardinality(Starts) \in Nat
         /\ IsFiniteSet(KeysRead) /\ Cardinality(KeysRead) \in Nat
         /\ IsFiniteSet(WaitingFrames) /\ Cardinality(WaitingFrames) \in Nat
<1>1. PICK c \in Nat : c = Consumed
  BY ConsumedType
<1>2. PICK n \in Nat : n = Len(stack)
  BY Facts
<1>3. Starts \subseteq 1..c /\ KeysRead \subseteq 1..c
  BY <1>1 DEF Starts, KeysRead
<1>4. WaitingFrames \subseteq 1..n
  BY <1>2 DEF WaitingFrames
<1>5. 1 \in Int /\ c \in Int /\ n \in Int
  OBVIOUS
<1>6. IsFiniteSet(Starts) /\ Cardinality(Starts) \in Nat
  BY <1>3, <1>5, CountType
<1>7. IsFiniteSet(KeysRead) /\ Cardinality(KeysRead) \in Nat
  BY <1>3, <1>5, CountType
<1>8. IsFiniteSet(WaitingFrames) /\ Cardinality(WaitingFrames) \in Nat
  BY <1>4, <1>5, CountType
<1>9. QED
  BY <1>6, <1>7, <1>8

LEMMA CountsNext ==
  ASSUME IInv, IInv', Indexed, Parsing, Lasts(heap, heap'), [Next]_vars
  PROVE  /\ Cardinality(Starts') =
              Cardinality(Starts) + IF ParseScalar \/ OpenContainer THEN 1 ELSE 0
         /\ Cardinality(KeysRead') = Cardinality(KeysRead) + IF ParseKey THEN 1 ELSE 0
         /\ Working /\ Working' =>
              Cardinality(WaitingFrames') = IF ParseKey THEN Cardinality(WaitingFrames) + 1
                                            ELSE IF InsertMember THEN Cardinality(WaitingFrames) - 1
                                            ELSE Cardinality(WaitingFrames)
<1>1. PICK c \in Nat : c = Consumed
  BY ConsumedType
<1>2. Starts \subseteq 1..c /\ KeysRead \subseteq 1..c
  BY <1>1 DEF Starts, KeysRead
<1>3. /\ Starts' = Starts \cup IF ParseScalar \/ OpenContainer THEN {At} ELSE {}
      /\ KeysRead' = KeysRead \cup IF ParseKey THEN {At} ELSE {}
      /\ ParseScalar \/ OpenContainer \/ ParseKey => At = c + 1
  BY <1>1, PlacesRead
<1>4. c + 1 \notin 1..c
  BY <1>1
<1>5. Cardinality(Starts') = Cardinality(Starts) + IF ParseScalar \/ OpenContainer THEN 1 ELSE 0
  <2>1. CASE ParseScalar \/ OpenContainer
    <3>1. Starts' = Starts \cup {At} /\ At \notin Starts
      BY <1>2, <1>3, <1>4, <2>1
    <3>2. QED
      BY <2>1, <3>1, CountTypes, FS_AddElement
  <2>2. CASE ~(ParseScalar \/ OpenContainer)
    BY <1>3, <2>2, CountTypes
  <2>3. QED
    BY <2>1, <2>2
<1>6. Cardinality(KeysRead') = Cardinality(KeysRead) + IF ParseKey THEN 1 ELSE 0
  <2>1. CASE ParseKey
    <3>1. KeysRead' = KeysRead \cup {At} /\ At \notin KeysRead
      BY <1>2, <1>3, <1>4, <2>1
    <3>2. QED
      BY <2>1, <3>1, CountTypes, FS_AddElement
  <2>2. CASE ~ParseKey
    BY <1>3, <2>2, CountTypes
  <2>3. QED
    BY <2>1, <2>2
<1>7. ASSUME Working, Working'
      PROVE  Cardinality(WaitingFrames') = IF ParseKey THEN Cardinality(WaitingFrames) + 1
                                           ELSE IF InsertMember THEN Cardinality(WaitingFrames) - 1
                                           ELSE Cardinality(WaitingFrames)
  <2>1. /\ WaitingFrames' = IF ParseKey THEN WaitingFrames \cup {Len(stack)}
                            ELSE IF InsertMember THEN WaitingFrames \ {Len(stack)}
                            ELSE WaitingFrames
        /\ ParseKey => Len(stack) \notin WaitingFrames
        /\ pc \in {"return", "insert"} /\ InObject => Len(stack) \in WaitingFrames
    BY <1>7, WaitingNext
  <2>2. InsertMember => Len(stack) \in WaitingFrames
    BY <2>1 DEF InsertMember, Indexed, MemberHeld
  <2>3. CASE ParseKey
    BY <2>1, <2>3, CountTypes, FS_AddElement
  <2>4. CASE ~ParseKey /\ InsertMember
    BY <2>1, <2>2, <2>4, CountTypes, FS_RemoveElement
  <2>5. CASE ~ParseKey /\ ~InsertMember
    BY <2>1, <2>5
  <2>6. QED
    BY <2>3, <2>4, <2>5
<1>8. QED
  BY <1>5, <1>6, <1>7

\* A member about to be made or inserted awaits its insertion.
LEMMA SomeWait ==
  ASSUME IInv, pc \in {"return", "insert"}, InObject
  PROVE  Len(stack) \in WaitingFrames /\ Cardinality(WaitingFrames) >= 1
<1>1. PICK n \in Nat : n = Len(stack)
  BY Facts
<1>2. n # 0 /\ heap[stack[n].node].kind = "object"
  BY <1>1, StackEmpty DEF InObject, Container, Top
<1>3. n \in WaitingFrames
  BY <1>1, <1>2 DEF WaitingFrames, Waiting, WaitingPlaces
<1>4. QED
  <2>1. Cardinality(WaitingFrames) # 0
    BY <1>3, CountTypes, FS_EmptySet
  <2>2. QED
    BY <1>1, <1>3, <2>1, CountTypes

LEMMA CountedNext ==
  ASSUME IInv, IInv', Indexed, Parsing, Lasts(heap, heap'), [Next]_vars, Counted, pc' # "error"
  PROVE  Counted'
<1>1. PICK s \in Nat : s = Cardinality(Starts)
  BY CountTypes
<1>2. PICK k \in Nat : k = Cardinality(KeysRead)
  BY CountTypes
<1>3. PICK w \in Nat : w = Cardinality(WaitingFrames)
  BY CountTypes
<1>4. PICK l \in Nat : l = Len(heap) /\ l = nodes
  BY Facts
<1>5. keys \in Nat /\ keys' \in Nat /\ nodes' = Len(heap') /\ pc # "error" => TRUE
  BY Facts
<1>6. /\ Cardinality(Starts') = s + IF ParseScalar \/ OpenContainer THEN 1 ELSE 0
      /\ Cardinality(KeysRead') = k + IF ParseKey THEN 1 ELSE 0
      /\ Working /\ Working' =>
           Cardinality(WaitingFrames') = IF ParseKey THEN w + 1 ELSE IF InsertMember THEN w - 1 ELSE w
  BY <1>1, <1>2, <1>3, CountsNext
<1>7. keys \in Nat /\ nodes' = Len(heap') /\ Len(heap') \in Nat
  BY Facts DEF IInv, LimitsHold, TypeOK, ParserTypeOK
<1>8. Working => k = keys + w /\ l = s + keys + IF pc = "insert" THEN 1 ELSE 0
  BY <1>1, <1>2, <1>3, <1>4 DEF Counted
<1>9. CASE ParseKey
  <2>1. ~ParseScalar /\ ~OpenContainer
    BY <1>9, Reads
  <2>2. pc = "loop" /\ pc' = "colon" /\ keys' = keys /\ heap' = heap
    BY <1>9 DEF ParseKey
  <2>3. Len(heap') = l /\ Working /\ Working' /\ pc' # "insert" /\ pc' # "overNodes" /\ pc # "insert"
    BY <1>4, <2>2 DEF Working
  <2>4. QED
    BY <1>6, <1>7, <1>8, <1>9, <2>1, <2>2, <2>3 DEF Counted
<1>10. CASE ParseScalar \/ OpenContainer
  <2>1. /\ ~ParseKey /\ ~InsertMember /\ pc \in {"value", "keyValue", "loop"} /\ keys' = keys
        /\ nodes' = nodes + 1 /\ pc' \in {"overNodes", "return", "loop"}
        /\ pc' = "overNodes" => Exceeds(nodes', MaxNodes)
    BY <1>10, Reads DEF ParseScalar, OpenContainer, ExpectsValue, BumpNodeCount, InsertMember
  <2>2. Len(heap') = l + 1
    BY <1>4, <1>7, <2>1
  <2>3. QED
    BY <1>4, <1>6, <1>7, <1>8, <1>10, <2>1, <2>2 DEF Counted, Working
<1>11. CASE MakeMember
  <2>1. /\ ~ParseKey /\ ~InsertMember /\ ~ParseScalar /\ ~OpenContainer
        /\ pc = "return" /\ keys' = keys /\ InObject
        /\ nodes' = nodes + 1 /\ pc' \in {"overNodes", "insert"}
        /\ pc' = "overNodes" => Exceeds(nodes', MaxNodes)
    BY <1>11 DEF MakeMember, ParseScalar, OpenContainer, ParseKey, ExpectsValue, BumpNodeCount, InsertMember
  <2>2. Len(heap') = l + 1 /\ w >= 1
    BY <1>3, <1>4, <1>7, <2>1, SomeWait
  <2>3. QED
    BY <1>4, <1>6, <1>7, <1>8, <1>11, <2>1, <2>2 DEF Counted, Working
<1>12. CASE InsertMember
  <2>1. /\ ~ParseKey /\ ~ParseScalar /\ ~OpenContainer
        /\ pc = "insert" /\ pc' = "inline" /\ keys' = keys + 1 /\ nodes' = nodes
    BY <1>12 DEF InsertMember, ParseScalar, OpenContainer, ParseKey, ExpectsValue, Fail, Stop
  <2>2. Len(heap') = l
    BY <1>4, <1>7, <2>1
  <2>3. QED
    BY <1>4, <1>6, <1>7, <1>8, <1>12, <2>1, <2>2 DEF Counted, Working
<1>13. CASE ReturnContainer
  <2>1. /\ ~ParseKey /\ ~InsertMember /\ ~ParseScalar /\ ~OpenContainer
        /\ pc = "closed" /\ pc' = "return" /\ keys' = keys /\ nodes' = nodes
    BY <1>13 DEF ReturnContainer, ParseScalar, OpenContainer, ParseKey, ExpectsValue, InsertMember
  <2>2. Len(heap') = l
    BY <1>4, <1>7, <2>1
  <2>3. QED
    BY <1>4, <1>6, <1>7, <1>8, <1>13, <2>1, <2>2 DEF Counted, Working
<1>14. CASE UNCHANGED vars
  BY <1>14 DEF vars, pvars, Counted, Working, Starts, KeysRead, WaitingFrames, Waiting, Consumed, At
<1>15. CASE Still /\ ~InsertMember
  <2>1. /\ Len(heap') = l /\ keys' = keys /\ ~ParseKey /\ ~ParseScalar /\ ~OpenContainer
        /\ pc # "error" /\ (pc' = "overNodes" <=> pc = "overNodes") /\ (pc' = "insert" <=> pc = "insert")
    BY <1>4, <1>15 DEF Still
  <2>2. nodes' = nodes
    BY <1>4, <1>7, <2>1
  <2>3. CASE pc = "overNodes"
    BY <1>1, <1>2, <1>4, <1>6, <2>1, <2>2, <2>3 DEF Counted, Working
  <2>4. CASE pc # "overNodes"
    BY <1>4, <1>6, <1>8, <1>15, <2>1, <2>4 DEF Counted, Working
  <2>5. QED
    BY <2>3, <2>4
<1>16. QED
  BY <1>9, <1>10, <1>11, <1>12, <1>13, <1>14, <1>15, Shapes

-----------------------------------------------------------------------------
(* The depth. *)

\* The depth of the text is the number of open containers, and was never more
\* than the limit.
Deep ==
  pc # "error" =>
    /\ Depth(input, Consumed) = Live
    /\ MaxDepth > 0 => \A i \in 1..Consumed : Depth(input, i) <= MaxDepth

LEMMA DelimiterRead ==
  ASSUME IInv, [Next]_vars, have, have' = FALSE
  PROVE  /\ UNCHANGED input
         /\ Opens(Look) <=> OpenContainer
         /\ Closes(Look) <=> CloseContainer
<1>1. CloseContainer => Closes(Look) /\ ~OpenContainer
  BY DEF CloseContainer, AtClose, SeesClose, Sees, Closes, OpenContainer, Openers
<1>2. OpenContainer => Opens(Look)
  BY DEF OpenContainer, Openers, Opens
<1>3. CASE ParseScalar \/ OpenContainer \/ ParseKey
  <2>1. /\ UNCHANGED input /\ Look.k \in {"str", "scalar", "{", "["}
        /\ ~OpenContainer => Look.k \in {"str", "scalar"}
    BY <1>3 DEF ParseScalar, Scalars, OpenContainer, Openers, ParseKey, Sees
  <2>2. QED
    BY <1>1, <1>2, <2>1 DEF Opens, Closes
<1>4. CASE CloseContainer
  BY <1>1, <1>4 DEF CloseContainer, Opens, Closes
<1>5. CASE ~(ParseScalar \/ OpenContainer \/ ParseKey \/ CloseContainer)
  <2>1. UNCHANGED input /\ Look.k \in Comments \cup {"nl", ":", ","}
    <3>1. CASE CollectHeadComments \/ SkipDroppedComments \/ ConsumeTrailing
      BY <3>1 DEF CollectHeadComments, SkipDroppedComments, ConsumeTrailing, Sees
    <3>2. CASE ReturnContainer \/ InlineComment \/ AttachAfterComma \/ RootInline
      BY <3>2 DEF ReturnContainer, InlineComment, AttachAfterComma, RootInline, TakeInline
    <3>3. CASE ParseColon \/ Separator
      BY <3>3 DEF ParseColon, Separator, Sees
    <3>4. ~(\/ Scan
            \/ OverNodes \/ TooDeep \/ NotAValue \/ StrictTrailingComma \/ NotAKey \/ NotAColon
            \/ RefuseDuplicate \/ NotASeparator \/ NoRoot \/ ExtraData
            \/ AppendElement \/ MakeMember \/ InsertMember \/ CloseAhead \/ BeginRoot \/ ReturnRoot
            \/ Finish \/ UNCHANGED vars)
      BY DEF Scan, OverNodes, TooDeep, NotAValue, StrictTrailingComma, NotAKey, NotAColon,
         RefuseDuplicate, NotASeparator, NoRoot, ExtraData, AppendElement, MakeMember, InsertMember,
         CloseAhead, BeginRoot, ReturnRoot, Finish, vars, pvars
    <3>5. QED
      BY <1>5, <3>1, <3>2, <3>3, <3>4 DEF Next, ParseValue
  <2>2. QED
    BY <1>5, <2>1 DEF Opens, Closes, Comments
<1>6. QED
  BY <1>3, <1>4, <1>5

\* An error is the end.
LEMMA ErrorLast ==
  ASSUME [Next]_vars, pc = "error"
  PROVE  UNCHANGED vars
BY DEF Next, ParseValue, vars, pvars, Scan, Peeks, OverNodes, ParseScalar, OpenContainer, TooDeep,
   NotAValue, ExpectsValue, CollectHeadComments, SkipDroppedComments, StrictTrailingComma,
   CloseContainer, AtClose, ReturnContainer, AppendElement, ParseKey, NotAKey, ParseColon, NotAColon,
   MakeMember, RefuseDuplicate, InsertMember, InlineComment, Separator, CloseAhead, NotASeparator,
   AttachAfterComma, BeginRoot, NoRoot, ReturnRoot, RootInline, ConsumeTrailing, Finish, ExtraData

\* The containers open before and after a step.
LEMMA LiveNext ==
  ASSUME IInv, [Next]_vars, pc' # "error"
  PROVE  Live' = Live + IF OpenContainer THEN 1 ELSE IF CloseContainer THEN -1 ELSE 0
<1>1. PICK n \in Nat : n = Len(stack)
  BY Facts
<1>2. CASE OpenContainer
  <2>1. pc # "closed" /\ pc' # "closed"
    BY <1>2 DEF OpenContainer, ExpectsValue, BumpNodeCount
  <2>2. QED
    BY <1>1, <1>2, <2>1, FramesOpened DEF Live
<1>3. CASE ReturnContainer
  <2>1. pc = "closed" /\ pc' = "return" /\ ~OpenContainer /\ ~CloseContainer
    BY <1>3 DEF ReturnContainer, OpenContainer, ExpectsValue, CloseContainer, AtClose
  <2>2. QED
    BY <1>1, <1>3, <2>1, FramesLeft DEF Live
<1>4. CASE CloseContainer
  <2>1. pc = "loop" /\ pc' = "closed" /\ stack' = stack /\ ~OpenContainer
    BY <1>4 DEF CloseContainer, AtClose, OpenContainer, BumpNodeCount
  <2>2. QED
    BY <1>1, <1>4, <2>1 DEF Live
<1>5. CASE ~OpenContainer /\ ~ReturnContainer /\ ~CloseContainer
  <2>1. Len(stack') = n
    BY <1>1, <1>5, FramesLast DEF FramesKept
  <2>2. pc' = "closed" <=> pc = "closed"
    BY <1>5 DEF Next, ParseValue, vars, pvars, Scan, OverNodes, ParseScalar, TooDeep, BumpNodeCount,
       NotAValue, ExpectsValue, CollectHeadComments, SkipDroppedComments, StrictTrailingComma,
       AtClose, AppendElement, ParseKey, NotAKey, ParseColon, NotAColon, Fail, Stop,
       MakeMember, RefuseDuplicate, InsertMember, InlineComment, Separator, CloseAhead, NotASeparator,
       AttachAfterComma, BeginRoot, NoRoot, ReturnRoot, RootInline, ConsumeTrailing, Finish, ExtraData
  <2>3. QED
    BY <1>1, <1>5, <2>1, <2>2 DEF Live
<1>6. QED
  BY <1>2, <1>3, <1>4, <1>5

\* The tokens consumed by a step.
LEMMA ConsumedNext ==
  ASSUME IInv, [Next]_vars
  PROVE  \/ have /\ have' = FALSE /\ Consumed' = Consumed + 1 /\ At = Consumed + 1 /\ UNCHANGED input
         \/ Consumed' = Consumed /\ ~OpenContainer /\ ~CloseContainer
<1>1. At \in Nat
  BY Facts
<1>2. CASE have /\ have' = FALSE
  <2>1. input' = input
    BY <1>2, DelimiterRead
  <2>2. Consumed = At - 1 /\ Consumed' = At
    BY <1>2, <2>1 DEF Consumed, At
  <2>3. QED
    BY <1>1, <1>2, <2>1, <2>2
<1>3. CASE Scan
  <2>1. ~have /\ have' = TRUE /\ ~OpenContainer /\ ~CloseContainer
    BY <1>3 DEF Scan, OpenContainer, CloseContainer, Bump
  <2>2. Len(input') = Len(input) + 1 /\ Len(input) \in Nat
    BY <1>3, Facts, LenProperties DEF Scan
  <2>3. Consumed' = Consumed
    BY <2>1, <2>2 DEF Consumed, At
  <2>4. QED
    BY <2>1, <2>3
<1>4. CASE UNCHANGED <<input, have>> /\ ~(ParseScalar \/ OpenContainer \/ ParseKey) /\ ~(have /\ have' = FALSE)
  BY <1>4 DEF Consumed, At, CloseContainer, AtClose, SeesClose, Sees, Bump
<1>5. QED
  BY <1>2, <1>3, <1>4, Reads

LEMMA DeepNext ==
  ASSUME IInv, IInv', Parsing, [Next]_vars, Deep
  PROVE  Deep'
<1> SUFFICES ASSUME pc' # "error" PROVE Deep'
  BY DEF Deep
<1>1. PICK c \in Nat : c = Consumed
  BY ConsumedType
<1>2. PICK n \in Nat : n = Live
  BY LiveType
<1>3. pc # "error"
  BY ErrorLast DEF vars, pvars
<1>4. /\ Depth(input, c) = n
      /\ MaxDepth > 0 => \A i \in 1..c : Depth(input, i) <= MaxDepth
  BY <1>1, <1>2, <1>3 DEF Deep
<1>5. \A i \in 1..c : Depth(input', i) = Depth(input, i)
  BY <1>1, PlacesRead DEF TextKept, SamePlace
<1>6. Depth(input', c) = n
  <2>1. CASE c = 0
    BY <1>4, <2>1, SurplusEmpty DEF Depth
  <2>2. CASE c # 0
    BY <1>4, <1>5, <2>2
  <2>3. QED
    BY <2>1, <2>2
<1>7. CASE Consumed' = c /\ Live' = n
  BY <1>4, <1>5, <1>6, <1>7 DEF Deep
<1>8. CASE Consumed' = c + 1 /\ Live' = n + Step(input'[c + 1])
  <2>1. Depth(input', c + 1) = n + Step(input'[c + 1])
    <3>1. Surplus(input', 1, c + 1) = Surplus(input', 1, c + 1 - 1) + Step(input'[c + 1])
      BY SurplusNext
    <3>2. c + 1 - 1 = c
      OBVIOUS
    <3>3. QED
      BY <1>6, <3>1, <3>2 DEF Depth
  <2>2. MaxDepth > 0 => Live' <= MaxDepth
    <3>1. Len(stack') \in Nat /\ MaxDepth \in Nat
      BY OptionsAssumption DEF IInv, TypeOK, ParserTypeOK
    <3>2. Live' \in Int /\ Live' <= Len(stack')
      BY <3>1 DEF Live
    <3>3. QED
      BY <3>1, <3>2 DEF IInv, LimitsHold
  <2>3. \A i \in 1..c + 1 : i = c + 1 \/ i \in 1..c
    OBVIOUS
  <2>4. QED
    BY <1>4, <1>5, <1>8, <2>1, <2>2, <2>3 DEF Deep
<1>9. Live' = n + IF OpenContainer THEN 1 ELSE IF CloseContainer THEN -1 ELSE 0
  BY <1>2, LiveNext
<1>10. CASE have /\ have' = FALSE /\ Consumed' = c + 1 /\ At = c + 1 /\ UNCHANGED input
  <2>1. Opens(input'[c + 1]) <=> OpenContainer
    BY <1>10, DelimiterRead DEF Look
  <2>2. Closes(input'[c + 1]) <=> CloseContainer
    BY <1>10, DelimiterRead DEF Look
  <2>3. QED
    BY <1>8, <1>9, <1>10, <2>1, <2>2 DEF Step
<1>11. CASE Consumed' = c /\ ~OpenContainer /\ ~CloseContainer
  BY <1>7, <1>9, <1>11
<1>12. QED
  BY <1>1, <1>10, <1>11, ConsumedNext

-----------------------------------------------------------------------------
(* The children of a node. *)

\* The live children of the node n.
Kids(n) == {heap[n].children[a] : a \in DOMAIN heap[n].children} \ {0}

LEMMA KidsTypes ==
  ASSUME IInv, Indexed, NEW n \in 1..Len(heap), NEW c \in Kids(n)
  PROVE  c \in 1..Len(heap)
<1>1. PICK a \in 1..Len(heap[n].children) : c = heap[n].children[a] /\ c # 0
  BY NodeFacts DEF Kids
<1>2. c \in 0..Len(heap)
  BY <1>1 DEF Indexed, HeldKids
<1>3. QED
  BY <1>1, <1>2, Facts

\* The steps that assign no children.
LEMMA KeptSteps ==
  ASSUME IInv, IInv', [Next]_vars,
         ~(ParseScalar \/ OpenContainer \/ MakeMember \/ AppendElement \/ InsertMember \/ CloseContainer)
  PROVE  KeptHeap
<1>1. CASE \/ InlineComment \/ CloseAhead \/ AttachAfterComma \/ ReturnRoot \/ RootInline \/ Finish
           \/ Separator \/ ReturnContainer
  <2>1. heap' \in Seq(Node)
    BY DEF IInv, TypeOK, ParserTypeOK
  <2>2. QED
    BY <1>1, <2>1, CommentHeap
<1>2. CASE ~(\/ InlineComment \/ CloseAhead \/ AttachAfterComma \/ ReturnRoot \/ RootInline \/ Finish
             \/ Separator \/ ReturnContainer)
  <2>1. UNCHANGED heap
    BY <1>2 DEF Next, ParseValue, vars, pvars, Scan, OverNodes, TooDeep,
       NotAValue, CollectHeadComments, SkipDroppedComments, StrictTrailingComma,
       ParseKey, NotAKey, ParseColon, NotAColon, RefuseDuplicate, NotASeparator,
       BeginRoot, NoRoot, ConsumeTrailing, ExtraData
  <2>2. QED
    BY <2>1 DEF KeptHeap
<1>3. QED
  BY <1>1, <1>2

\* A node gets no other children than the one a member or an element adds.
LEMMA KidsNext ==
  ASSUME IInv, IInv', Indexed, [Next]_vars, NEW n \in 1..Len(heap)
  PROVE  Kids(n)' \subseteq
           Kids(n) \cup IF (AppendElement \/ InsertMember) /\ n = Top.node THEN {val} ELSE {}
<1>1. heap[n].children \in Seq(Nat) /\ DOMAIN heap[n].children = 1..Len(heap[n].children)
  BY NodeFacts
<1>2. CASE ParseScalar \/ OpenContainer \/ MakeMember
  <2>1. PICK x \in Node : heap' = Append(heap, x)
    BY <1>2, Allocated
  <2>2. heap'[n] = heap[n]
    BY <2>1, Facts, AppendProperties
  <2>3. QED
    BY <2>2 DEF Kids
<1>3. CASE AppendElement
  <2>1. PICK c : c = Append(Container.children, val)
    OBVIOUS
  <2>2. heap'[n].children = IF n = Top.node THEN c ELSE heap[n].children
    BY <1>3, <2>1, AppendHeap DEF OnlyChildren
  <2>3. CASE n = Top.node
    <3>1. Container.children = heap[n].children /\ val \in Nat
      BY <2>3, Facts DEF Container
    <3>2. DOMAIN c = 1..Len(heap[n].children) + 1
      BY <1>1, <2>1, <3>1, AppendProperties, LenProperties
    <3>3. /\ \A i \in 1..Len(heap[n].children) : c[i] = heap[n].children[i]
          /\ c[Len(heap[n].children) + 1] = val
      BY <1>1, <2>1, <3>1, AppendProperties
    <3>4. \A i \in 1..Len(heap[n].children) + 1 :
            i \in 1..Len(heap[n].children) \/ i = Len(heap[n].children) + 1
      BY <1>1, LenProperties
    <3>5. QED
      BY <1>1, <1>3, <2>2, <2>3, <3>2, <3>3, <3>4 DEF Kids
  <2>4. CASE n # Top.node
    BY <2>2, <2>4 DEF Kids
  <2>5. QED
    BY <2>3, <2>4
<1>4. CASE InsertMember
  <2>1. PICK c : c = Superseding(Container.children, Duplicate)
    OBVIOUS
  <2>2. heap'[n].children = IF n = Top.node THEN c ELSE heap[n].children
    BY <1>4, <2>1, InsertHeap DEF OnlyChildren
  <2>3. CASE n = Top.node
    <3>1. PICK old : old = heap[n].children
      OBVIOUS
    <3>2. PICK i : i = Duplicate
      OBVIOUS
    <3>3. PICK kept : kept = IF i = 0 THEN old ELSE [old EXCEPT ![i] = 0]
      OBVIOUS
    <3>4. c = Append(kept, val) /\ val \in Nat
      BY <2>1, <2>3, <3>1, <3>2, <3>3, Facts DEF Superseding, Container
    <3>5. /\ kept \in Seq(Nat) /\ Len(kept) = Len(old)
          /\ \A j \in 1..Len(old) : kept[j] = 0 \/ kept[j] = old[j]
      <4>1. kept \in Seq(Nat)
        BY <1>1, <3>1, <3>3, ExceptNat
      <4>2. DOMAIN kept = DOMAIN old /\ \A j \in DOMAIN old : kept[j] = 0 \/ kept[j] = old[j]
        BY <3>3
      <4>3. QED
        BY <1>1, <3>1, <4>1, <4>2, LenProperties
    <3>6. /\ DOMAIN c = 1..Len(old) + 1 /\ c[Len(old) + 1] = val
          /\ \A j \in 1..Len(old) : c[j] = 0 \/ c[j] = old[j]
      <4>1. /\ Len(c) = Len(kept) + 1 /\ c[Len(kept) + 1] = val /\ c \in Seq(Nat)
            /\ \A j \in 1..Len(kept) : c[j] = kept[j]
        BY <3>4, <3>5, AppendProperties
      <4>2. QED
        BY <3>5, <4>1, LenProperties
    <3>7. \A j \in 1..Len(old) + 1 : j \in 1..Len(old) \/ j = Len(old) + 1
      BY <1>1, <3>1, LenProperties
    <3>8. QED
      BY <1>1, <1>4, <2>2, <2>3, <3>1, <3>6, <3>7 DEF Kids
  <2>4. CASE n # Top.node
    BY <2>2, <2>4 DEF Kids
  <2>5. QED
    BY <2>3, <2>4
<1>5. CASE CloseContainer
  <2>1. PICK old : old = Container.children
    OBVIOUS
  <2>2. PICK c : c = IF Top.removed > 0 THEN RemoveNil(old) ELSE old
    OBVIOUS
  <2>3. /\ heap'[n].children = IF n = Top.node THEN c ELSE heap[n].children
        /\ Drawn(old, Len(old), c)
    BY <1>5, <2>1, <2>2, CloseHeap DEF OnlyChildren
  <2>4. CASE n = Top.node
    <3>1. old = heap[n].children
      BY <2>1, <2>4 DEF Container
    <3>2. DOMAIN c = 1..Len(c) /\ \A j \in 1..Len(c) : \E p \in 1..Len(old) : old[p] = c[j]
      BY <2>3, LenProperties DEF Drawn
    <3>3. ASSUME NEW k \in Kids(n)' PROVE k \in Kids(n)
      <4>1. PICK j \in 1..Len(c) : k = c[j] /\ k # 0
        BY <2>3, <2>4, <3>2, <3>3 DEF Kids
      <4>2. PICK p \in 1..Len(old) : old[p] = k
        BY <3>2, <4>1
      <4>3. QED
        BY <1>1, <3>1, <4>1, <4>2 DEF Kids
    <3>4. QED
      BY <3>3
  <2>5. CASE n # Top.node
    BY <2>3, <2>5 DEF Kids
  <2>6. QED
    BY <2>4, <2>5
<1>6. CASE ~(ParseScalar \/ OpenContainer \/ MakeMember \/ AppendElement \/ InsertMember \/ CloseContainer)
  <2>1. heap'[n].children = heap[n].children
    BY <1>6, KeptSteps DEF KeptHeap
  <2>2. QED
    BY <2>1 DEF Kids
<1>7. QED
  BY <1>2, <1>3, <1>4, <1>5, <1>6

\* A node is there before the step, or the step allocates it.
LEMMA NodesNext ==
  ASSUME IInv, IInv', [Next]_vars, NEW n \in 1..Len(heap')
  PROVE  \/ n \in 1..Len(heap)
         \/ /\ n = Len(heap) + 1
            /\ \/ ParseScalar /\ heap'[n].kind = "scalar" /\ heap'[n].pos = At /\ Kids(n)' = {}
               \/ /\ OpenContainer /\ heap'[n].pos = At /\ Kids(n)' = {}
                  /\ heap'[n].kind = IF Look.k = "{" THEN "object" ELSE "array"
               \/ /\ MakeMember /\ heap'[n].kind = "member"
                  /\ heap'[n].pos = Top.keyPos /\ heap'[n].key = Top.key
                  /\ heap'[n].children = <<val>>
<1>1. CASE ParseScalar \/ OpenContainer \/ MakeMember
  <2>1. PICK x \in Node :
          /\ heap' = Append(heap, x)
          /\ ParseScalar => x.kind = "scalar" /\ x.pos = At
          /\ OpenContainer => x.kind = (IF Look.k = "{" THEN "object" ELSE "array") /\ x.pos = At
          /\ MakeMember => x.kind = "member" /\ x.pos = Top.keyPos /\ x.key = Top.key
          /\ x.children = IF MakeMember THEN <<val>> ELSE <<>>
    BY <1>1, Allocated
  <2>2. /\ Len(heap') = Len(heap) + 1 /\ heap'[Len(heap) + 1] = x
    BY <2>1, Facts, AppendProperties
  <2>3. n \in 1..Len(heap) \/ n = Len(heap) + 1
    BY <2>2, Facts
  <2>4. ~MakeMember /\ n = Len(heap) + 1 => Kids(n)' = {}
    <3>1. DOMAIN <<>> = {}
      OBVIOUS
    <3>2. QED
      BY <2>1, <2>2, <3>1 DEF Kids
  <2>5. MakeMember => ~ParseScalar /\ ~OpenContainer
    BY DEF MakeMember, ParseScalar, OpenContainer, ExpectsValue
  <2>6. QED
    BY <1>1, <2>1, <2>2, <2>3, <2>4, <2>5
<1>2. CASE AppendElement \/ InsertMember \/ CloseContainer
  <2>1. nodes' = nodes
    BY <1>2 DEF AppendElement, InsertMember, CloseContainer
  <2>2. Len(heap') = Len(heap)
    BY <2>1 DEF IInv, LimitsHold
  <2>3. QED
    BY <2>2
<1>3. CASE ~(ParseScalar \/ OpenContainer \/ MakeMember \/ AppendElement \/ InsertMember \/ CloseContainer)
  BY <1>3, KeptSteps DEF KeptHeap
<1>4. QED
  BY <1>1, <1>2, <1>3

-----------------------------------------------------------------------------
(* The keys of the nodes and of the frames. *)

\* A member node stands at its key.
KeyNodes ==
  \A n \in 1..Len(heap) : heap[n].kind = "member" =>
    heap[n].pos \in KeysRead /\ input[heap[n].pos].v = heap[n].key
\* The children of an object are members, each of a key directly in it.
MemberKids ==
  \A n \in 1..Len(heap) : heap[n].kind = "object" =>
    \A c \in Kids(n) : heap[c].kind = "member" /\ Around(input, heap[c].pos) = heap[n].pos
\* The frame of an object that awaits a member holds its key, the last one read in it.
PendingAt(m) ==
  /\ stack[m].keyPos \in KeysRead /\ input[stack[m].keyPos].v = stack[m].key
  /\ Around(input, stack[m].keyPos) = Opened[m]
  /\ \A c \in Kids(stack[m].node) : heap[c].pos < stack[m].keyPos
Pending == \A m \in WaitingFrames : PendingAt(m)
Inserting ==
  pc = "insert" => /\ heap[val].kind = "member"
                   /\ heap[val].pos = Top.keyPos /\ heap[val].key = Top.key
Placed == Working => KeyNodes /\ MemberKids /\ Pending /\ Inserting

LEMMA KeyKept ==
  ASSUME IInv, Parsing, [Next]_vars, NEW k \in KeysRead
  PROVE  /\ k \in KeysRead' /\ input'[k] = input[k] /\ Around(input', k) = Around(input, k)
         /\ k \in 1..Consumed
BY PlacesRead DEF TextKept, SamePlace, KeysRead

LEMMA WorkingBefore ==
  ASSUME [Next]_vars, Working'
  PROVE  Working /\ pc' \notin {"error", "overNodes"} /\ pc \notin {"error", "overNodes"}
<1>1. pc' \notin {"error", "overNodes"}
  BY DEF Working
<1>2. pc # "error"
  BY <1>1, ErrorLast DEF vars, pvars
<1>3. pc # "overNodes"
  BY <1>1 DEF Next, ParseValue, vars, pvars, Scan, OverNodes, ParseScalar, OpenContainer, TooDeep,
   NotAValue, ExpectsValue, CollectHeadComments, SkipDroppedComments, StrictTrailingComma,
   CloseContainer, AtClose, ReturnContainer, AppendElement, ParseKey, NotAKey, ParseColon, NotAColon,
   MakeMember, RefuseDuplicate, InsertMember, InlineComment, Separator, CloseAhead, NotASeparator,
   AttachAfterComma, BeginRoot, NoRoot, ReturnRoot, RootInline, ConsumeTrailing, Finish, ExtraData,
   Fail, Stop
<1>4. QED
  BY <1>1, <1>2, <1>3 DEF Working

\* The frame that awaits a member did so before, unless it has just read its key.
LEMMA WaitingSame ==
  ASSUME IInv, IInv', Indexed, Lasts(heap, heap'), [Next]_vars, Working',
         NEW m \in WaitingFrames', ~(ParseKey /\ m = Len(stack))
  PROVE  /\ m \in WaitingFrames /\ m \in 1..Len(stack) /\ m \in 1..Len(stack')
         /\ SameKey(stack[m], stack'[m]) /\ Opened'[m] = Opened[m]
         /\ stack[m].node \in 1..Len(heap) /\ heap[stack[m].node].kind = "object"
         /\ InsertMember => stack[m].node # Top.node
<1>1. Working /\ pc' # "error"
  BY WorkingBefore
<1>2. m \in WaitingFrames /\ (InsertMember => m # Len(stack))
  BY <1>1, WaitingNext, WorkingBefore
<1>3. m \in 1..Len(stack) /\ m \in 1..Len(stack') /\ heap[stack[m].node].kind = "object"
  BY <1>2 DEF WaitingFrames, Waiting
<1>4. SameKey(stack[m], stack'[m])
  <2>1. CASE OpenContainer
    BY <1>3, <2>1, FramesOpened
  <2>2. CASE ReturnContainer
    BY <1>3, <2>2, FramesLeft DEF SameKey
  <2>3. CASE FramesKept
    BY <1>3, <2>3 DEF FramesKept
  <2>4. QED
    BY <1>1, <2>1, <2>2, <2>3, FramesLast
<1>5. stack[m].node \in 1..Len(heap)
  BY <1>3 DEF IInv, FramesOK
<1>6. Opened'[m] = Opened[m]
  <2>1. heap'[stack[m].node].pos = heap[stack[m].node].pos
    BY <1>5, LastsFacts
  <2>2. QED
    BY <1>3, <1>4, <2>1 DEF Opened, SameKey
<1>7. InsertMember => stack[m].node # Top.node
  <2> SUFFICES ASSUME InsertMember PROVE stack[m].node # Top.node
    OBVIOUS
  <2>1. Len(stack) \in Nat /\ m < Len(stack) /\ Len(stack) \in 1..Len(stack)
    BY <1>2, <1>3, Facts
  <2>2. stack[m].node < stack[Len(stack)].node /\ stack[Len(stack)].node \in 1..Len(heap)
    BY <1>3, <2>1 DEF Indexed, Nested, IInv, FramesOK
  <2>3. QED
    BY <1>5, <2>2 DEF Top
<1>8. QED
  BY <1>2, <1>3, <1>4, <1>5, <1>6, <1>7

LEMMA KeyNodesNext ==
  ASSUME IInv, IInv', Indexed, Parsing, Lasts(heap, heap'), [Next]_vars, Placed, Working'
  PROVE  KeyNodes'
<1>1. KeyNodes /\ Pending
  BY WorkingBefore DEF Placed
<1>2. ASSUME NEW n \in 1..Len(heap'), heap'[n].kind = "member"
      PROVE  heap'[n].pos \in KeysRead' /\ input'[heap'[n].pos].v = heap'[n].key
  <2>1. CASE n \in 1..Len(heap)
    <3>1. /\ heap[n].kind = "member" /\ heap'[n].pos = heap[n].pos /\ heap'[n].key = heap[n].key
      BY <1>2, <2>1, LastsFacts
    <3>2. heap[n].pos \in KeysRead /\ input[heap[n].pos].v = heap[n].key
      BY <1>1, <2>1, <3>1 DEF KeyNodes
    <3>3. QED
      BY <3>1, <3>2, KeyKept
  <2>2. CASE n \notin 1..Len(heap)
    <3>1. MakeMember /\ heap'[n].pos = Top.keyPos /\ heap'[n].key = Top.key
      BY <1>2, <2>2, NodesNext
    <3>2. pc = "return" /\ InObject
      BY <3>1 DEF MakeMember
    <3>3. PendingAt(Len(stack))
      BY <1>1, <3>2, SomeWait DEF Pending
    <3>4. Top.keyPos \in KeysRead /\ input[Top.keyPos].v = Top.key
      BY <3>3 DEF PendingAt, Top
    <3>5. QED
      BY <3>1, <3>4, KeyKept
  <2>3. QED
    BY <2>1, <2>2
<1>3. QED
  BY <1>2 DEF KeyNodes

LEMMA MemberKidsNext ==
  ASSUME IInv, IInv', Indexed, Parsing, Lasts(heap, heap'), [Next]_vars, Placed, Working'
  PROVE  MemberKids'
<1>1. KeyNodes /\ MemberKids /\ Pending /\ Inserting
  BY WorkingBefore DEF Placed
<1>2. ASSUME NEW n \in 1..Len(heap'), heap'[n].kind = "object", NEW c \in Kids(n)'
      PROVE  heap'[c].kind = "member" /\ Around(input', heap'[c].pos) = heap'[n].pos
  <2>1. n \in 1..Len(heap)
    <3>1. Kids(n)' # {}
      BY <1>2
    <3>2. QED
      BY <1>2, <3>1, NodesNext
  <2>2. heap[n].kind = "object" /\ heap'[n].pos = heap[n].pos
    BY <1>2, <2>1, LastsFacts
  <2>3. CASE c \in Kids(n)
    <3>1. c \in 1..Len(heap) /\ heap[c].kind = "member" /\ Around(input, heap[c].pos) = heap[n].pos
      BY <1>1, <2>1, <2>2, <2>3, KidsTypes DEF MemberKids
    <3>2. heap'[c].kind = "member" /\ heap'[c].pos = heap[c].pos
      BY <3>1, LastsFacts
    <3>3. heap[c].pos \in KeysRead
      BY <1>1, <3>1 DEF KeyNodes
    <3>4. QED
      BY <2>2, <3>1, <3>2, <3>3, KeyKept
  <2>4. CASE c \notin Kids(n)
    <3>1. (AppendElement \/ InsertMember) /\ n = Top.node /\ c = val
      BY <1>2, <2>1, <2>4, KidsNext
    <3>2. InsertMember
      BY <2>2, <3>1 DEF AppendElement, InArray, Container
    <3>3. pc = "insert" /\ InObject /\ val \in 1..Len(heap)
      BY <3>2, Facts DEF InsertMember, Indexed, MemberHeld
    <3>4. /\ heap[c].kind = "member" /\ heap[c].pos = Top.keyPos
      BY <1>1, <3>1, <3>3 DEF Inserting
    <3>5. PendingAt(Len(stack)) /\ Len(stack) \in 1..Len(stack)
      BY <1>1, <3>3, SomeWait DEF Pending, WaitingFrames
    <3>6. Top.keyPos \in KeysRead /\ Around(input, Top.keyPos) = heap[n].pos
      BY <3>1, <3>5 DEF PendingAt, Top, Opened
    <3>7. heap'[c].kind = heap[c].kind /\ heap'[c].pos = heap[c].pos
      BY <3>1, <3>3, LastsFacts
    <3>8. QED
      BY <2>2, <3>4, <3>6, <3>7, KeyKept
  <2>5. QED
    BY <2>3, <2>4
<1>3. QED
  BY <1>2 DEF MemberKids

LEMMA PendingNext ==
  ASSUME IInv, IInv', Indexed, Parsing, Lasts(heap, heap'), [Next]_vars, Placed, Working'
  PROVE  Pending'
<1>1. KeyNodes /\ MemberKids /\ Pending /\ Inserting
  BY WorkingBefore DEF Placed
<1>2. ASSUME NEW m \in WaitingFrames' PROVE PendingAt(m)'
  <2>1. CASE ParseKey /\ m = Len(stack)
    <3>1. /\ stack # <<>> /\ pc = "loop" /\ have /\ heap' = heap /\ input' = input /\ InObject
      BY <2>1 DEF ParseKey, InObject, Sees
    <3>2. PICK f \in Frame : SetTop(f) /\ f.node = Top.node /\ f.key = Look.v /\ f.keyPos = At
      BY <2>1, TopAssigned
    <3>3. m \in 1..Len(stack) /\ Len(stack') = Len(stack) /\ stack'[m] = f
      BY <2>1, <3>1, <3>2, SetTopAt, FrameTypes
    <3>4. At \in KeysRead' /\ At = Consumed + 1 /\ Consumed \in Nat
      BY <2>1, PlacesRead
    <3>5. Opened'[m] = Opened[m]
      BY <2>1, <3>1, <3>2, <3>3 DEF Opened, Top
    <3>6. Around(input, At) = Opened[m]
      BY <2>1, <3>1, AheadFacts
    <3>7. ASSUME NEW c \in Kids(f.node)' PROVE heap'[c].pos < At
      <4>1. f.node \in 1..Len(heap) /\ heap[f.node].kind = "object" /\ c \in Kids(f.node)
        BY <3>1, <3>2, <3>7, FrameTypes DEF InObject, Container, Kids
      <4>2. c \in 1..Len(heap) /\ heap[c].kind = "member"
        BY <1>1, <4>1, KidsTypes DEF MemberKids
      <4>3. heap[c].pos \in 1..Consumed
        BY <1>1, <4>2 DEF KeyNodes, KeysRead
      <4>4. QED
        BY <3>1, <3>4, <4>3
    <3>8. input'[At].v = Look.v
      BY <3>1 DEF Look
    <3>9. QED
      BY <3>1, <3>2, <3>3, <3>4, <3>5, <3>6, <3>7, <3>8 DEF PendingAt
  <2>2. CASE ~(ParseKey /\ m = Len(stack))
    <3>1. /\ m \in WaitingFrames /\ m \in 1..Len(stack) /\ m \in 1..Len(stack')
          /\ SameKey(stack[m], stack'[m]) /\ Opened'[m] = Opened[m]
          /\ stack[m].node \in 1..Len(heap) /\ heap[stack[m].node].kind = "object"
          /\ InsertMember => stack[m].node # Top.node
      BY <2>2, WaitingSame
    <3>2. PendingAt(m)
      BY <1>1, <3>1 DEF Pending
    <3>3. PICK n \in 1..Len(heap) : n = stack[m].node
      BY <3>1
    <3>4. PICK k : k = stack[m].keyPos
      OBVIOUS
    <3>5. k \in KeysRead /\ input[k].v = stack[m].key /\ Around(input, k) = Opened[m]
      BY <3>2, <3>4 DEF PendingAt
    <3>6. k \in KeysRead' /\ input'[k].v = stack[m].key /\ Around(input', k) = Opened[m]
      BY <3>5, KeyKept
    <3>7. ASSUME NEW c \in Kids(n)' PROVE heap'[c].pos < k
      <4>1. c \in Kids(n)
        <5>1. AppendElement => n # Top.node
          BY <3>1, <3>3 DEF AppendElement, InArray, Container
        <5>2. QED
          BY <3>1, <3>3, <3>7, <5>1, KidsNext
      <4>2. heap[c].pos < k
        BY <3>2, <3>3, <3>4, <4>1 DEF PendingAt
      <4>3. heap'[c].pos = heap[c].pos
        BY <4>1, KidsTypes, LastsFacts
      <4>4. QED
        BY <4>2, <4>3
    <3>8. stack'[m].keyPos = k /\ stack'[m].key = stack[m].key /\ stack'[m].node = n
      BY <3>1, <3>3, <3>4 DEF SameKey
    <3>9. QED
      BY <3>1, <3>6, <3>7, <3>8 DEF PendingAt
  <2>3. QED
    BY <2>1, <2>2
<1>3. QED
  BY <1>2 DEF Pending

\* A member about to be inserted has just been made.
LEMMA InsertingSteps ==
  ASSUME [Next]_vars, pc' = "insert"
  PROVE  MakeMember \/ UNCHANGED vars
BY DEF Next, ParseValue, vars, pvars, Scan, Peeks, OverNodes, ParseScalar, OpenContainer, TooDeep,
   NotAValue, CollectHeadComments, SkipDroppedComments, StrictTrailingComma, BumpNodeCount,
   CloseContainer, ReturnContainer, AppendElement, ParseKey, NotAKey, ParseColon, NotAColon,
   RefuseDuplicate, InsertMember, InlineComment, Separator, CloseAhead, NotASeparator,
   AttachAfterComma, BeginRoot, NoRoot, ReturnRoot, RootInline, ConsumeTrailing, Finish, ExtraData,
   Fail, Stop

LEMMA InsertingNext ==
  ASSUME IInv, IInv', [Next]_vars, Inserting
  PROVE  Inserting'
<1> SUFFICES ASSUME pc' = "insert" PROVE Inserting'
  BY DEF Inserting
<1>1. MakeMember \/ UNCHANGED vars
  BY InsertingSteps
<1>2. CASE MakeMember
  <2>1. val' = Len(heap) + 1 /\ stack' = stack
    BY <1>2 DEF MakeMember
  <2>2. PICK x \in Node : /\ heap' = Append(heap, x)
                          /\ x.kind = "member" /\ x.pos = Top.keyPos /\ x.key = Top.key
    BY <1>2, Allocated
  <2>3. heap'[val'] = x
    BY <2>1, <2>2, Facts, AppendProperties
  <2>4. Top' = Top
    BY <2>1 DEF Top
  <2>5. QED
    BY <2>2, <2>3, <2>4 DEF Inserting
<1>3. CASE UNCHANGED vars
  BY <1>3 DEF vars, pvars, Inserting, Top
<1>4. QED
  BY <1>1, <1>2, <1>3

LEMMA PlacedNext ==
  ASSUME IInv, IInv', Indexed, Parsing, Lasts(heap, heap'), [Next]_vars, Placed
  PROVE  Placed'
<1> SUFFICES ASSUME Working' PROVE KeyNodes' /\ MemberKids' /\ Pending' /\ Inserting'
  BY DEF Placed
<1>1. Inserting
  BY WorkingBefore DEF Placed
<1>2. QED
  BY <1>1, KeyNodesNext, MemberKidsNext, PendingNext, InsertingNext

-----------------------------------------------------------------------------
(* The limits. *)

Deepest(n) == \E i \in 1..n : Depth(input, i) > MaxDepth

\* The two halves of LimitsExact: an accepted text is within the limits, one
\* refused for a limit is past it.
WithinLimits ==
  Accepted =>
    /\ MaxNodes > 0 => Cardinality(Starts) + Cardinality(KeyPlaces) <= MaxNodes
    /\ MaxKeys > 0 => Cardinality(KeyPlaces) <= MaxKeys
    /\ MaxDepth > 0 => ~Deepest(At)
PastLimit ==
  pc = "error" =>
    /\ result.kind = "nodes" => Cardinality(Starts) + Cardinality(KeyPlaces) > MaxNodes
    /\ result.kind = "keys" => Cardinality(KeyPlaces) > MaxKeys
    /\ result.kind = "depth" => Deepest(At) /\ ~Deepest(At - 1)
    /\ result.kind = "duplicate" => \E i, j \in KeyPlaces :
         i < j /\ Around(input, i) = Around(input, j) /\ input[i].v = input[j].v

\* All that was read, and the lookahead.
LEMMA PlacesAhead ==
  ASSUME IInv
  PROVE  /\ Consumed <= At /\ At <= Consumed + 1 /\ (At = Consumed + 1 <=> have)
         /\ {i \in ValueStarts : i <= Consumed} = Starts
         /\ KeysRead \subseteq KeyPlaces /\ IsFiniteSet(KeyPlaces)
         /\ Cardinality(KeyPlaces) \in Nat /\ Cardinality(KeysRead) <= Cardinality(KeyPlaces)
         /\ have /\ Look.k # "str" => KeyPlaces = KeysRead
         /\ ~have => KeyPlaces = KeysRead
<1>1. PICK c \in Nat : c = Consumed
  BY ConsumedType
<1>2. PICK a \in Nat : a = At
  BY Facts
<1>3. c <= a /\ a <= c + 1 /\ (a = c + 1 <=> have)
  BY <1>1, <1>2 DEF Consumed
<1>4. {i \in ValueStarts : i <= Consumed} = Starts
  <2>1. \A i : i \in 1..a /\ i <= c <=> i \in 1..c
    BY <1>3
  <2>2. QED
    BY <1>1, <1>2, <2>1 DEF ValueStarts, Starts
<1>5. KeysRead \subseteq KeyPlaces
  <2>1. \A i \in 1..c : i \in 1..a
    BY <1>3
  <2>2. QED
    BY <1>1, <1>2, <2>1 DEF KeysRead, KeyPlaces
<1>6. IsFiniteSet(KeyPlaces) /\ Cardinality(KeyPlaces) \in Nat
  <2>1. KeyPlaces \subseteq 1..a /\ 1 \in Int /\ a \in Int
    BY <1>2 DEF KeyPlaces
  <2>2. QED
    BY <2>1, CountType
<1>7. Cardinality(KeysRead) <= Cardinality(KeyPlaces)
  BY <1>5, <1>6, FS_Subset
<1>8. have /\ Look.k # "str" => KeyPlaces = KeysRead
  <2> SUFFICES ASSUME have, Look.k # "str" PROVE KeyPlaces = KeysRead
    OBVIOUS
  <2>1. ~IsKey(input, a)
    BY <1>2 DEF IsKey, Look
  <2>2. \A i \in 1..a : i = a \/ i \in 1..c
    BY <1>3
  <2>3. KeyPlaces \subseteq KeysRead
    BY <1>1, <1>2, <2>1, <2>2 DEF KeyPlaces, KeysRead
  <2>4. QED
    BY <1>5, <2>3
<1>9. ~have => KeyPlaces = KeysRead
  BY DEF KeyPlaces, KeysRead, Consumed
<1>10. QED
  BY <1>1, <1>2, <1>3, <1>4, <1>5, <1>6, <1>7, <1>8, <1>9

\* A text accepted has no open container: the counters are those of the text.
LEMMA AcceptedWithin == IInv /\ Parsing /\ Counted /\ Deep => WithinLimits
<1> SUFFICES ASSUME IInv, Parsing, Counted, Deep, Accepted
             PROVE  /\ MaxNodes > 0 => Cardinality(Starts) + Cardinality(KeyPlaces) <= MaxNodes
                    /\ MaxKeys > 0 => Cardinality(KeyPlaces) <= MaxKeys
                    /\ MaxDepth > 0 => ~Deepest(At)
  BY DEF WithinLimits
<1>1. pc = "done" /\ stack = <<>> /\ Look.k = "eof"
  BY DEF Accepted, Parsing, Located, ValueRead, LanguageExact
<1>2. Cardinality(WaitingFrames) = 0
  <2>1. Len(stack) = 0
    BY <1>1, StackEmpty
  <2>2. WaitingFrames = {}
    BY <2>1 DEF WaitingFrames
  <2>3. QED
    BY <2>2, FS_EmptySet
<1>3. KeyPlaces = KeysRead
  BY <1>1, PlacesAhead
<1>4. /\ Cardinality(KeysRead) = keys /\ Len(heap) = Cardinality(Starts) + keys
  BY <1>1, <1>2, CountTypes, Facts DEF Counted, Working
<1>5. MaxNodes > 0 => Cardinality(Starts) + Cardinality(KeyPlaces) <= MaxNodes
  BY <1>1, <1>3, <1>4 DEF IInv, LimitsHold
<1>6. MaxKeys > 0 => Cardinality(KeyPlaces) <= MaxKeys
  BY <1>1, <1>3, <1>4 DEF IInv, LimitsHold
<1>7. ASSUME MaxDepth > 0 PROVE ~Deepest(At)
  <2>1. PICK c \in Nat : c = Consumed
    BY ConsumedType
  <2>2. PICK a \in Nat : a = At
    BY Facts
  <2>3. c <= a /\ a <= c + 1
    BY <2>1, <2>2, PlacesAhead
  <2>4. Depth(input, c) = 0 /\ \A i \in 1..c : Depth(input, i) <= MaxDepth
    <3>1. Live = 0
      BY <1>1, StackEmpty DEF Live
    <3>2. QED
      BY <1>1, <1>7, <2>1, <3>1 DEF Deep
  <2>5. ASSUME NEW i \in 1..a PROVE Depth(input, i) <= MaxDepth
    <3>1. CASE i \in 1..c
      BY <2>4, <3>1
    <3>2. CASE i = c + 1 /\ a = c + 1
      <4>1. Surplus(input, 1, c + 1) = Surplus(input, 1, c + 1 - 1) + Step(input[c + 1])
        BY SurplusNext
      <4>2. c + 1 - 1 = c
        OBVIOUS
      <4>3. input[c + 1].k = "eof"
        BY <1>1, <2>2, <3>2 DEF Look
      <4>4. Step(input[c + 1]) = 0
        BY <4>3 DEF Step, Opens, Closes, Openers, Closers
      <4>5. QED
        BY <1>7, <2>4, <3>2, <4>1, <4>2, <4>4, OptionsAssumption DEF Depth
    <3>3. i \in 1..c \/ (i = c + 1 /\ a = c + 1)
      BY <2>3
    <3>4. QED
      BY <3>1, <3>2, <3>3
  <2>6. \A i \in 1..a : Depth(input, i) \in Int
    <3>1. 1 \in Int /\ \A i \in 1..a : i \in Int
      OBVIOUS
    <3>2. QED
      BY <3>1, SurplusType DEF Depth
  <2>7. QED
    BY <2>2, <2>5, <2>6, OptionsAssumption DEF Deepest
<1>8. QED
  BY <1>5, <1>6, <1>7

LEMMA TooDeepPast ==
  ASSUME IInv, Parsing, Deep, TooDeep
  PROVE  Deepest(At) /\ ~Deepest(At - 1)
<1>1. /\ pc \notin {"error", "closed"} /\ have /\ Opens(Look)
      /\ MaxDepth > 0 /\ depth + 1 > MaxDepth
  BY DEF TooDeep, ExpectsValue, Openers, Opens, Exceeds
<1>2. PICK c \in Nat : c = Consumed
  BY ConsumedType
<1>3. At = c + 1 /\ At - 1 = c
  BY <1>1, <1>2, PlacesAhead
<1>4. PICK n \in Nat : n = depth /\ n = Len(stack) /\ n = Live
  BY <1>1, Facts DEF IInv, LimitsHold, Live
<1>5. /\ Depth(input, c) = n
      /\ \A i \in 1..c : Depth(input, i) <= MaxDepth /\ Depth(input, i) \in Int
  <2>1. 1 \in Int /\ \A i \in 1..c : i \in Int
    OBVIOUS
  <2>2. \A i \in 1..c : Depth(input, i) \in Int
    BY <2>1, SurplusType DEF Depth
  <2>3. QED
    BY <1>1, <1>2, <1>4, <2>2 DEF Deep
<1>6. Depth(input, c + 1) = n + 1
  <2>1. Surplus(input, 1, c + 1) = Surplus(input, 1, c + 1 - 1) + Step(input[c + 1])
    BY SurplusNext
  <2>2. Step(input[c + 1]) = 1 /\ c + 1 - 1 = c
    BY <1>1, <1>3 DEF Step, Look
  <2>3. QED
    BY <1>5, <2>1, <2>2 DEF Depth
<1>7. c + 1 \in 1..c + 1
  OBVIOUS
<1>8. QED
  BY <1>1, <1>3, <1>4, <1>5, <1>6, <1>7, OptionsAssumption DEF Deepest

\* The member refused has an earlier one of its key in the same object.
LEMMA DuplicatePast ==
  ASSUME IInv, Indexed, Placed, RefuseDuplicate
  PROVE  \E i, j \in KeyPlaces :
           i < j /\ Around(input, i) = Around(input, j) /\ input[i].v = input[j].v
<1>1. pc = "insert" /\ Duplicate > 0 /\ InObject
  BY DEF RefuseDuplicate, Indexed, MemberHeld
<1>2. KeyNodes /\ MemberKids /\ Pending /\ Inserting
  BY <1>1 DEF Placed, Working
<1>3. /\ PendingAt(Len(stack)) /\ Len(stack) \in 1..Len(stack)
  BY <1>1, <1>2, SomeWait DEF Pending, WaitingFrames
<1>4. PICK n \in 1..Len(heap) : n = Top.node /\ heap[n].kind = "object"
  BY <1>1, FrameTypes DEF InObject, Container
<1>5. heap[val].key = Top.key
  BY <1>1, <1>2 DEF Inserting
<1>6. Duplicate \in Hits(n, Top.key)
  BY <1>1, <1>4, <1>5, DuplicateFound
<1>7. PICK d : d = heap[n].children[Duplicate] /\ d \in Kids(n) /\ heap[d].key = Top.key
  BY <1>6 DEF Hits, PlacesOf, Kids
<1>8. /\ d \in 1..Len(heap) /\ heap[d].kind = "member"
      /\ Around(input, heap[d].pos) = heap[n].pos
  BY <1>2, <1>4, <1>7, KidsTypes DEF MemberKids
<1>9. heap[d].pos \in KeysRead /\ input[heap[d].pos].v = Top.key
  BY <1>2, <1>7, <1>8 DEF KeyNodes
<1>10. /\ Top.keyPos \in KeysRead /\ input[Top.keyPos].v = Top.key
       /\ Around(input, Top.keyPos) = heap[n].pos /\ heap[d].pos < Top.keyPos
  BY <1>3, <1>4, <1>7 DEF PendingAt, Top, Opened
<1>11. QED
  BY <1>8, <1>9, <1>10, PlacesAhead

LEMMA PastLimitNext ==
  ASSUME IInv, IInv', Indexed, Parsing, [Next]_vars, Counted, Deep, Placed, PastLimit
  PROVE  PastLimit'
<1> SUFFICES ASSUME pc' = "error" PROVE PastLimit'
  BY DEF PastLimit
<1>1. CASE pc = "error"
  <2>1. UNCHANGED <<input, have, pc, result>>
    BY <1>1, ErrorLast DEF vars, pvars
  <2>2. /\ Starts' = Starts /\ KeyPlaces' = KeyPlaces /\ At' = At
        /\ \A n : Deepest(n)' <=> Deepest(n)
    BY <2>1 DEF Starts, KeyPlaces, Deepest, Consumed, At
  <2>3. QED
    BY <1>1, <2>1, <2>2 DEF PastLimit
<1>2. CASE pc # "error"
  <2>1. UNCHANGED <<input, have>> =>
          /\ Starts' = Starts /\ KeyPlaces' = KeyPlaces /\ At' = At /\ input' = input
          /\ \A n : Deepest(n)' <=> Deepest(n)
    BY DEF Starts, KeyPlaces, Deepest, Consumed, At
  <2>2. CASE OverNodes
    <3>1. result'.kind \in {"nodes", "scan"} /\ UNCHANGED <<input, have>> /\ pc = "overNodes"
      BY <2>2 DEF OverNodes, Fail, Stop
    <3>2. Len(heap) <= Cardinality(Starts) + Cardinality(KeysRead) /\ nodes > MaxNodes
      BY <3>1 DEF Counted, Exceeds
    <3>3. Cardinality(Starts) + Cardinality(KeyPlaces) > MaxNodes
      BY <3>2, Facts, CountTypes, PlacesAhead, OptionsAssumption
    <3>4. QED
      BY <2>1, <3>1, <3>3 DEF PastLimit
  <2>3. CASE TooDeep
    <3>1. result'.kind \in {"depth", "scan"} /\ UNCHANGED <<input, have>>
      BY <2>3 DEF TooDeep, Stop
    <3>2. QED
      BY <2>1, <2>3, <3>1, TooDeepPast DEF PastLimit
  <2>4. CASE RefuseDuplicate
    <3>1. result'.kind \in {"duplicate", "scan"} /\ UNCHANGED <<input, have>>
      BY <2>4 DEF RefuseDuplicate, Fail, Stop
    <3>2. QED
      BY <2>1, <2>4, <3>1, DuplicatePast DEF PastLimit
  <2>5. CASE InsertMember
    <3>1. /\ result'.kind \in {"keys", "scan"} /\ UNCHANGED <<input, have>> /\ pc = "insert"
          /\ MaxKeys > 0 /\ keys + 1 > MaxKeys
      BY <2>5 DEF InsertMember, Fail, Stop, Exceeds
    <3>2. Cardinality(KeysRead) = keys + Cardinality(WaitingFrames) /\ Cardinality(WaitingFrames) >= 1
      BY <3>1, SomeWait DEF Counted, Working, Indexed, MemberHeld
    <3>3. Cardinality(KeyPlaces) > MaxKeys
      BY <3>1, <3>2, Facts, CountTypes, PlacesAhead, OptionsAssumption
    <3>4. QED
      BY <2>1, <3>1, <3>3 DEF PastLimit
  <2>6. CASE NotAValue \/ StrictTrailingComma \/ NotAKey \/ NotAColon \/ NotASeparator \/ NoRoot \/ ExtraData
    <3>1. Stop("syntax", At) \/ Stop("strict", At)
      BY <2>6 DEF NotAValue, StrictTrailingComma, NotAKey, NotAColon, NotASeparator, NoRoot, ExtraData, Fail
    <3>2. result'.kind \in {"syntax", "strict", "scan"}
      BY <3>1 DEF Stop
    <3>3. QED
      BY <3>2 DEF PastLimit
  <2>7. ~(Scan \/ ParseScalar \/ OpenContainer \/ CollectHeadComments \/ SkipDroppedComments \/ UNCHANGED vars)
    BY <1>2 DEF Scan, ParseScalar, OpenContainer, CollectHeadComments, SkipDroppedComments,
       BumpNodeCount, vars, pvars
  <2>8. ~(\/ CloseContainer \/ ReturnContainer \/ AppendElement \/ ParseKey \/ ParseColon \/ MakeMember
          \/ InlineComment)
    BY <1>2 DEF CloseContainer, ReturnContainer, AppendElement, ParseKey, ParseColon, MakeMember,
       InlineComment, BumpNodeCount
  <2>9. ~(Separator \/ CloseAhead \/ AttachAfterComma)
    BY <1>2 DEF Separator, CloseAhead, AttachAfterComma
  <2>10. ~(BeginRoot \/ ReturnRoot \/ RootInline \/ ConsumeTrailing \/ Finish)
    BY <1>2 DEF BeginRoot, ReturnRoot, RootInline, ConsumeTrailing, Finish
  <2>11. QED
    BY <2>2, <2>3, <2>4, <2>5, <2>6, <2>7, <2>8, <2>9, <2>10 DEF Next, ParseValue
<1>3. QED
  BY <1>1, <1>2

\* The counters, the depth and the keys follow the text read, on the way to a
\* limit and at it.
Measured == Counted /\ Deep /\ Placed /\ PastLimit

LEMMA InitMeasured == ASSUME Init PROVE Measured
<1>1. /\ input = <<>> /\ have = FALSE /\ pc = "lead" /\ stack = <<>> /\ heap = <<>>
      /\ keys = 0 /\ val = 0
  BY DEF Init, ParserInit
<1>2. Len(input) = 0 /\ Len(stack) = 0 /\ Len(heap) = 0
  BY <1>1
<1>3. Consumed = 0 /\ At = 0 /\ 1..0 = {}
  BY <1>1, <1>2 DEF Consumed, At
<1>4. Starts = {} /\ KeysRead = {} /\ WaitingFrames = {}
  BY <1>2, <1>3 DEF Starts, KeysRead, WaitingFrames
<1>5. Counted
  BY <1>1, <1>2, <1>4, FS_EmptySet DEF Counted
<1>6. Deep
  <2>1. Surplus(input, 1, 0) = 0
    BY SurplusEmpty
  <2>2. QED
    BY <1>1, <1>2, <1>3, <2>1 DEF Deep, Depth, Live
<1>7. Placed /\ PastLimit
  BY <1>1, <1>2, <1>4 DEF Placed, PastLimit, KeyNodes, MemberKids, Pending, Inserting
<1>8. QED
  BY <1>5, <1>6, <1>7 DEF Measured

LEMMA NextMeasured == IInv /\ IInv' /\ Indexed /\ Parsing /\ Measured /\ [Next]_vars => Measured'
<1> SUFFICES ASSUME IInv, IInv', Indexed, Parsing, Measured, [Next]_vars PROVE Measured'
  OBVIOUS
<1>1. Lasts(heap, heap')
  BY NodesLast
<1>2. Counted'
  <2>1. CASE pc' = "error"
    BY <2>1 DEF Counted, Working
  <2>2. CASE pc' # "error"
    BY <1>1, <2>2, CountedNext DEF Measured
  <2>3. QED
    BY <2>1, <2>2
<1>3. QED
  BY <1>1, <1>2, DeepNext, PlacedNext, PastLimitNext DEF Measured

LEMMA LimitsFollow == IInv /\ Parsing /\ Measured => LimitsExact
<1> SUFFICES ASSUME IInv, WithinLimits, PastLimit PROVE LimitsExact
  BY AcceptedWithin DEF Measured
<1>1. {i \in ValueStarts : i <= Consumed} = Starts
  BY PlacesAhead
<1>2. QED
  BY <1>1 DEF WithinLimits, PastLimit, LimitsExact, Deepest

\* A limit error is raised at the token that passes the limit and at no other:
\* the nodes, keys and depth counted are those of the text read, an accepted
\* text is within every limit, and a member is refused as a duplicate only
\* when its object has an earlier key of the same text (bumpNodeCount,
\* enterDepth, the key count and duplicate check of parseObject), for every limit.
THEOREM LimitsAreExact == Spec => []LimitsExact
<1>1. Init => Measured
  BY InitMeasured
<1>2. IInv /\ IInv' /\ Indexed /\ Parsing /\ Measured /\ [Next]_vars => Measured'
  BY NextMeasured
<1>3. IInv /\ Parsing /\ Measured => LimitsExact
  BY LimitsFollow
<1>4. QED
  BY <1>1, <1>2, <1>3, Inductive, AlwaysIndexed, AlwaysParsing, PTL DEF Spec

-----------------------------------------------------------------------------
(* The root. *)

\* The value parseValue returns to its first caller has been read.
RootEnded == (pc = "closed" /\ Len(stack) = 1) \/ (pc = "return" /\ stack = <<>>)
\* The first node is the root: it stands at the first significant token, and
\* the last one read is where it ends.
RootPlace(f) ==
  /\ f \in 1..Consumed /\ StartsValue(input[f])
  /\ \A i \in 1..f - 1 : IsBlankSpace(input[i])
  /\ RootEnded => StartOf(input, Prior) = f
RootRead ==
  pc # "error" =>
    /\ heap = <<>> <=> pc \in {"lead", "value"}
    /\ heap # <<>> => RootPlace(heap[1].pos)
    /\ stack # <<>> => stack[1].node = 1
    /\ pc \in {"colon", "keyValue"} => stack # <<>>
    /\ pc = "return" /\ stack = <<>> => val = 1

\* Which step leaves pc where, as far as the root is concerned.
LEMMA RootMoves ==
  ASSUME [Next]_vars, pc' # "error"
  PROVE  /\ pc # "error"
         /\ pc' \in {"lead", "value"} => UNCHANGED <<heap, stack>> /\ pc \in {"lead", "value"}
         /\ pc \in {"lead", "value"} /\ pc' \notin {"lead", "value"} => ParseScalar \/ OpenContainer
         /\ pc' \in {"colon", "keyValue"} =>
              \/ pc \in {"colon", "keyValue"} /\ UNCHANGED stack
              \/ ParseKey
         /\ pc' = "closed" => CloseContainer \/ (pc = "closed" /\ UNCHANGED <<stack, val>> /\ Quiet)
         /\ pc' = "return" => \/ ParseScalar \/ ReturnContainer
                              \/ pc = "return" /\ UNCHANGED <<stack, val, input, have>>
<1>1. CASE Scan \/ UNCHANGED vars
  BY <1>1 DEF Scan, Peeks, vars, pvars, Quiet
<1>2. CASE ParseScalar \/ OpenContainer
  BY <1>2 DEF ParseScalar, OpenContainer, ExpectsValue, BumpNodeCount
<1>3. CASE CollectHeadComments \/ SkipDroppedComments \/ ParseColon \/ ParseKey
  BY <1>3 DEF CollectHeadComments, SkipDroppedComments, ParseColon, ParseKey
<1>4. CASE CloseContainer \/ ReturnContainer \/ AppendElement \/ MakeMember \/ InsertMember
  BY <1>4 DEF CloseContainer, AtClose, ReturnContainer, AppendElement, MakeMember, InsertMember, BumpNodeCount,
              Fail, Stop
<1>5. CASE InlineComment \/ Separator \/ CloseAhead \/ AttachAfterComma
  BY <1>5 DEF InlineComment, Separator, CloseAhead, AttachAfterComma
<1>6. CASE BeginRoot \/ ReturnRoot \/ RootInline \/ ConsumeTrailing \/ Finish
  BY <1>6 DEF BeginRoot, ReturnRoot, RootInline, ConsumeTrailing, Finish
<1>7. CASE \/ OverNodes \/ TooDeep \/ NotAValue \/ StrictTrailingComma \/ NotAKey \/ NotAColon
           \/ RefuseDuplicate \/ NotASeparator \/ NoRoot \/ ExtraData
  BY <1>7 DEF OverNodes, TooDeep, NotAValue, StrictTrailingComma, NotAKey, NotAColon,
         RefuseDuplicate, NotASeparator, NoRoot, ExtraData, Fail, Stop
<1>8. QED
  BY <1>1, <1>2, <1>3, <1>4, <1>5, <1>6, <1>7 DEF Next, ParseValue

\* Before the root every token is blank.
LEMMA RootAhead ==
  ASSUME IInv, Parsing, pc = "value"
  PROVE  \A i \in 1..Consumed : IsBlankSpace(input[i])
<1>1. PICK c \in Nat : c = Consumed
  BY ConsumedType
<1>2. Before(input, c + 1) = 0
  BY <1>1 DEF Parsing, Located, ValueAwaited, Prior
<1> DEFINE S == {j \in 1..c + 1 - 1 : ~IsBlankSpace(input[j])}
<1>3. Largest(S) = 0 /\ S \subseteq 1..c
  BY <1>2 DEF Before
<1> HIDE DEF S
<1>4. S = {}
  BY <1>3, LargestType
<1>5. QED
  BY <1>1, <1>4 DEF S

\* The root's first token is read.
LEMMA RootBegun ==
  ASSUME IInv, IInv', Parsing, RootRead, [Next]_vars, ParseScalar \/ OpenContainer, stack = <<>>, pc' # "error"
  PROVE  RootRead'
<1>1. pc = "value" /\ heap = <<>> /\ pc' \notin {"lead", "value", "closed", "colon", "keyValue"}
  BY DEF ParseScalar, OpenContainer, ExpectsValue, InArray, RootRead, BumpNodeCount
<1>2. PICK x \in Node : heap' = Append(heap, x) /\ x.pos = At
  BY Allocated
<1>3. Len(heap) = 0 /\ heap' # <<>> /\ heap'[1].pos = At
  <2>1. heap \in Seq(Node) /\ Len(heap) = 0
    BY <1>1, Facts
  <2>2. Len(Append(heap, x)) = Len(heap) + 1 /\ Append(heap, x)[Len(heap) + 1] = x
    BY <2>1, AppendProperties
  <2>3. QED
    BY <1>2, <2>1, <2>2, EmptySeq
<1>4. /\ have /\ have' = FALSE /\ UNCHANGED input /\ Consumed' = At /\ At = Consumed + 1
      /\ Consumed \in Nat /\ StartsValue(Look)
  BY PlacesRead, Reads DEF StartsValue, Opens, Scan, ParseScalar, OpenContainer, Bump
<1>5. PICK c \in Nat : c = Consumed
  BY <1>4
<1>6. /\ At \in 1..Consumed' /\ StartsValue(input'[At])
      /\ \A i \in 1..At - 1 : IsBlankSpace(input'[i])
  BY <1>1, <1>4, <1>5, RootAhead DEF Look
<1>7. CASE OpenContainer
  <2>1. Len(stack') = 1 /\ stack'[1].node = 1 /\ stack' # <<>>
    <3>1. Len(stack) = 0
      BY Facts
    <3>2. stack'[1] = NewFrame(1) /\ Len(stack') = 1
      BY <1>3, <1>7, <3>1, FramesOpened
    <3>3. QED
      BY <3>2, EmptySeq DEF NewFrame
  <2>2. ~RootEnded'
    BY <1>1, <2>1 DEF RootEnded
  <2>3. QED
    BY <1>1, <1>3, <1>6, <2>1, <2>2 DEF RootRead, RootPlace
<1>8. CASE ParseScalar
  <2>1. stack' = <<>> /\ val' = 1
    BY <1>1, <1>3, <1>8 DEF ParseScalar, HoldHead
  <2>2. StartOf(input', Prior') = At
    <3>1. Prior' = At
      <4>1. Before(input, c + 1 + 1) = c + 1
        <5>1. ~IsBlankSpace(input[c + 1])
          BY <1>4, <1>5 DEF Look, StartsValue, IsBlankSpace, IsComment, Opens
        <5>2. QED
          BY <5>1, BeforeNext
      <4>2. QED
        BY <1>4, <1>5, <4>1 DEF Prior
    <3>2. ~Closes(input[At])
      BY <1>8 DEF ParseScalar, Scalars, Closes, Look
    <3>3. QED
      BY <1>4, <3>1, <3>2 DEF StartOf
  <2>3. QED
    BY <1>1, <1>3, <1>6, <2>1, <2>2 DEF RootRead, RootPlace
<1>9. QED
  BY <1>7, <1>8

\* A step that reads no significant token leaves the last one where it is.
LEMMA RootEndKept ==
  ASSUME IInv, Parsing, [Next]_vars, Quiet, Prior # 0, pc # "error"
  PROVE  StartOf(input', Prior') = StartOf(input, Prior)
<1>1. Prior' = Prior
  <2>1. PICK n \in Nat : n = Live
    BY LiveType
  <2>2. PICK P : P = Opened
    OBVIOUS
  <2>3. Read(n, P)
    BY <2>1, <2>2 DEF Parsing, LanguageExact, Balanced, Read
  <2>4. QED
    BY <2>3, QuietRead DEF PriorKept
<1>2. PICK c \in Nat : c = Consumed
  BY ConsumedType
<1>3. PICK p : p = Prior
  OBVIOUS
<1>4. p \in 1..c
  <2>1. Before(input, c + 1) \in 0..c + 1 - 1
    BY BeforeType
  <2>2. QED
    BY <1>2, <1>3, <2>1 DEF Prior
<1>5. input'[p] = input[p] /\ Around(input', p) = Around(input, p)
  BY <1>2, <1>4, PlacesRead DEF TextKept, SamePlace
<1>6. StartOf(input', p) = StartOf(input, p)
  BY <1>5 DEF StartOf, OpenerOf
<1>7. QED
  BY <1>1, <1>3, <1>6

LEMMA RootNext ==
  ASSUME IInv, IInv', Parsing, RootRead, [Next]_vars, Lasts(heap, heap')
  PROVE  RootRead'
<1> SUFFICES ASSUME pc' # "error" PROVE RootRead'
  BY DEF RootRead
<1>1. pc # "error" /\ Len(stack) \in Nat /\ Len(heap) \in Nat /\ (stack = <<>> <=> Len(stack) = 0)
  BY RootMoves, Facts, StackEmpty
<1>2. CASE (ParseScalar \/ OpenContainer) /\ stack = <<>>
  BY <1>2, RootBegun
<1>3. CASE ~((ParseScalar \/ OpenContainer) /\ stack = <<>>)
  <2>1. (ParseScalar \/ OpenContainer) => pc \notin {"lead", "value"}
    BY <1>3 DEF Parsing, Located, ValueAwaited
  <2>2. heap' = <<>> <=> pc' \in {"lead", "value"}
    <3>1. CASE pc \in {"lead", "value"}
      BY <1>1, <2>1, <3>1, RootMoves DEF RootRead
    <3>2. CASE pc \notin {"lead", "value"}
      <4>1. heap # <<>> /\ Len(heap) # 0
        BY <1>1, <3>2, Facts, EmptySeq DEF RootRead
      <4>2. 1 \in DOMAIN heap /\ 1 \in DOMAIN heap'
        BY <1>1, <4>1, Facts, LenProperties DEF Lasts
      <4>3. heap' # <<>>
        BY <4>2
      <4>4. QED
        BY <3>2, <4>3, RootMoves
    <3>3. QED
      BY <3>1, <3>2
  <2>3. stack' # <<>> => stack'[1].node = 1
    <3> SUFFICES ASSUME stack' # <<>> PROVE stack'[1].node = 1
      OBVIOUS
    <3>1. CASE OpenContainer
      <4>1. stack # <<>> /\ 1 \in 1..Len(stack)
        BY <1>1, <1>3, <3>1
      <4>2. SameKey(stack[1], stack'[1])
        BY <3>1, <4>1, FramesOpened
      <4>3. QED
        BY <1>1, <4>1, <4>2 DEF RootRead, SameKey
    <3>2. CASE ReturnContainer
      <4>1. stack # <<>> /\ 1 \in 1..Len(stack')
        BY <3>2, FramesLeft, Facts, EmptySeq
      <4>2. stack'[1] = stack[1]
        BY <3>2, <4>1, FramesLeft
      <4>3. QED
        BY <1>1, <4>1, <4>2 DEF RootRead
    <3>3. CASE FramesKept
      <4>1. Len(stack) # 0
        BY <3>3, Facts, EmptySeq DEF FramesKept
      <4>2. 1 \in 1..Len(stack) /\ stack # <<>>
        BY <1>1, <4>1
      <4>3. QED
        BY <1>1, <3>3, <4>2 DEF FramesKept, RootRead
    <3>4. QED
      BY <3>1, <3>2, <3>3, FramesLast
  <2>4. pc' \in {"colon", "keyValue"} => stack' # <<>>
    <3>1. CASE ParseKey
      <4>1. stack # <<>> /\ FramesKept
        <5>1. stack # <<>> /\ ~OpenContainer /\ ~ReturnContainer
          BY <3>1 DEF ParseKey, InObject, InArray, OpenContainer, ExpectsValue, ReturnContainer
        <5>2. QED
          BY <5>1, FramesLast
      <4>2. QED
        BY <1>1, <4>1, Facts, EmptySeq DEF FramesKept
    <3>2. QED
      BY <1>1, <3>1, RootMoves DEF RootRead
  <2>5. heap # <<>> => heap' # <<>> /\ heap'[1].pos = heap[1].pos
    <3> SUFFICES ASSUME heap # <<>> PROVE heap' # <<>> /\ heap'[1].pos = heap[1].pos
      OBVIOUS
    <3>1. 1 \in DOMAIN heap
      BY <1>1, Facts, LenProperties, EmptySeq
    <3>2. QED
      BY <3>1 DEF Lasts
  <2>6. PICK f : f = heap[1].pos
    OBVIOUS
  <2>7. PICK c \in Nat : c = Consumed
    BY ConsumedType
  <2>8. heap # <<>> => /\ f \in 1..Consumed' /\ StartsValue(input'[f])
                       /\ \A i \in 1..f - 1 : IsBlankSpace(input'[i])
    <3> SUFFICES ASSUME heap # <<>>
                 PROVE  /\ f \in 1..Consumed' /\ StartsValue(input'[f])
                        /\ \A i \in 1..f - 1 : IsBlankSpace(input'[i])
      OBVIOUS
    <3>1. f \in 1..c /\ StartsValue(input[f]) /\ \A i \in 1..f - 1 : IsBlankSpace(input[i])
      BY <1>1, <2>6, <2>7 DEF RootRead, RootPlace
    <3>2. Consumed' \in Nat /\ c <= Consumed' /\ \A i \in 1..c : input'[i] = input[i]
      BY <2>7, PlacesRead DEF TextKept, SamePlace
    <3>3. QED
      BY <3>1, <3>2
  <2>9. /\ RootEnded' => heap # <<>> /\ StartOf(input', Prior') = f
        /\ pc' = "return" /\ stack' = <<>> => val' = 1
    <3>1. CASE pc' = "closed" /\ Len(stack') = 1
      <4>1. CASE CloseContainer
        <5>1. /\ have /\ have' = FALSE /\ UNCHANGED input /\ UNCHANGED stack /\ Closes(input[At])
              /\ pc = "loop" /\ stack # <<>>
          BY <4>1 DEF CloseContainer, AtClose, SeesClose, InObject, InArray, Sees, Closes, Bump, Look
        <5>2. Prior' = At
          <6>1. At = c + 1 /\ Consumed' = c + 1
            BY <1>1, <2>7, <5>1, Facts DEF Consumed, At
          <6>2. ~IsBlankSpace(input[c + 1])
            BY <5>1, <6>1 DEF Closes, IsBlankSpace, IsComment
          <6>3. Before(input, c + 1 + 1) = c + 1
            BY <6>2, BeforeNext
          <6>4. QED
            BY <5>1, <6>1, <6>3 DEF Prior
        <5>3. Around(input, At) = heap[stack[1].node].pos
          <6>1. Len(stack) = 1 /\ 1 \in 1..Len(stack)
            BY <3>1, <5>1
          <6>3. pc \notin {"closed", "error"} /\ have /\ stack # <<>>
            BY <5>1
          <6>4. Around(input, At) = Opened[Len(stack)]
            BY <6>3, AheadFacts
          <6>2. QED
            BY <6>1, <6>4 DEF Opened
        <5>4. heap # <<>> /\ stack[1].node = 1
          BY <1>1, <5>1 DEF RootRead
        <5>5. StartOf(input', Prior') = f
          BY <2>6, <5>1, <5>2, <5>3, <5>4 DEF StartOf, OpenerOf
        <5>6. QED
          BY <3>1, <5>4, <5>5
      <4>2. CASE pc = "closed" /\ UNCHANGED <<stack, val>> /\ Quiet
        <5>1. Prior # 0
          BY <4>2 DEF Parsing, Located, ValueRead, AfterValuePlaces, AfterValue
        <5>2. RootEnded /\ heap # <<>>
          BY <1>1, <3>1, <4>2 DEF RootRead, RootEnded
        <5>3. StartOf(input', Prior') = f
          BY <1>1, <2>6, <4>2, <5>1, <5>2, RootEndKept DEF RootRead, RootPlace
        <5>4. QED
          BY <3>1, <5>2, <5>3
      <4>3. QED
        BY <3>1, <4>1, <4>2, RootMoves
    <3>2. CASE pc' = "return" /\ stack' = <<>>
      <4>1. CASE ParseScalar
        <5>1. Len(stack') = Len(stack)
          <6>1. ~OpenContainer /\ ~ReturnContainer
            BY <4>1 DEF ParseScalar, OpenContainer, ReturnContainer, ExpectsValue, Scalars, Openers
          <6>2. QED
            BY <3>2, <6>1, FramesLast DEF FramesKept
        <5>2. Len(stack') = 0
          BY <3>2
        <5>3. QED
          BY <1>1, <1>3, <4>1, <5>1, <5>2
      <4>2. CASE ReturnContainer
        <5>1. pc = "closed" /\ val' = Top.node /\ Len(stack) = 1
          <6>1. Len(stack') = 0 /\ Len(stack') = Len(stack) - 1
            BY <3>2, <4>2, FramesLeft
          <6>2. QED
            BY <1>1, <4>2, <6>1 DEF ReturnContainer
        <5>2. RootEnded /\ heap # <<>> /\ stack[1].node = 1
          BY <1>1, <5>1 DEF RootRead, RootEnded
        <5>3. Quiet
          BY <4>2 DEF ReturnContainer, TakeInline, Quiet, Look, Comments, IsBlankSpace, IsComment
        <5>4. Prior # 0
          BY <5>1 DEF Parsing, Located, ValueRead, AfterValuePlaces, AfterValue
        <5>5. StartOf(input', Prior') = f
          BY <1>1, <2>6, <5>2, <5>3, <5>4, RootEndKept DEF RootRead, RootPlace
        <5>6. QED
          BY <3>2, <5>1, <5>2, <5>5 DEF Top
      <4>3. CASE pc = "return" /\ UNCHANGED <<stack, val, input, have>>
        <5>1. RootEnded /\ heap # <<>> /\ val = 1
          BY <1>1, <3>2, <4>3 DEF RootRead, RootEnded
        <5>2. Prior' = Prior
          BY <4>3 DEF Prior, Consumed, At
        <5>3. QED
          BY <1>1, <2>6, <4>3, <5>1, <5>2 DEF RootRead, RootPlace
      <4>4. QED
        BY <3>2, <4>1, <4>2, <4>3, RootMoves
    <3>3. QED
      BY <3>1, <3>2 DEF RootEnded
  <2>10. heap' # <<>> => RootPlace(heap[1].pos)'
    <3> SUFFICES ASSUME heap' # <<>> PROVE heap # <<>>
      BY <2>5, <2>6, <2>8, <2>9 DEF RootPlace
    <3>1. QED
      BY <1>1, <2>1, <2>2, RootMoves DEF RootRead
  <2>11. QED
    BY <1>1, <2>2, <2>3, <2>4, <2>9, <2>10 DEF RootRead
<1>4. QED
  BY <1>2, <1>3
=============================================================================
