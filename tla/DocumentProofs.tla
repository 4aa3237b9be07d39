--------------------------- MODULE DocumentProofs ---------------------------
(***************************************************************************)
(* Theorems about Document, for every option, limit and alphabet: its types *)
(* and limits, and its member index, which for every memberIndexMin finds   *)
(* what a scan of the children would.                                       *)
(***************************************************************************)
EXTENDS Document, TLAPS, SequenceTheorems, JWCCProofs

-----------------------------------------------------------------------------
(* Records and sequences of records. *)

LEMMA NewNodeType ==
  ASSUME NEW kind \in {"object", "array", "member", "scalar"},
         NEW key \in Keys \cup {NoText}, NEW pos \in Nat
  PROVE  NewNode(kind, key, pos) \in Node
BY EmptySeq DEF NewNode, Node, Text

LEMMA NewFrameType ==
  ASSUME NEW container \in Nat
  PROVE  NewFrame(container) \in Frame /\ NewFrame(container).node = container
BY EmptySeq DEF NewFrame, Frame, Text

LEMMA NodeUpdate ==
  ASSUME NEW n \in Node, NEW t \in Text
  PROVE  /\ [n EXCEPT !.headComment = t] \in Node
         /\ [n EXCEPT !.comment = t] \in Node
         /\ [n EXCEPT !.footComment = t] \in Node
         /\ [n EXCEPT !.trailComment = t] \in Node
         /\ [n EXCEPT !.children = t] \in Node
BY DEF Node, Text

LEMMA HeapUpdate ==
  ASSUME NEW h \in Seq(Node), NEW i, NEW n,
         i \in 1..Len(h) => n \in Node
  PROVE  /\ [h EXCEPT ![i] = n] \in Seq(Node)
         /\ Len([h EXCEPT ![i] = n]) = Len(h)
<1>1. CASE i \in 1..Len(h)
  BY <1>1, ExceptSeq
<1>2. CASE i \notin 1..Len(h)
  <2>1. [h EXCEPT ![i] = n] = h
    BY <1>2, LenProperties
  <2>2. QED
    BY <2>1
<1>3. QED
  BY <1>1, <1>2

LEMMA CommentUpdate ==
  ASSUME NEW h \in Seq(Node), NEW i, NEW t \in Text
  PROVE  /\ [h EXCEPT ![i].comment = t] \in Seq(Node)
         /\ Len([h EXCEPT ![i].comment = t]) = Len(h)
BY HeapUpdate, NodeUpdate, ElementOfSeq

LEMMA FootUpdate ==
  ASSUME NEW h \in Seq(Node), NEW i, NEW t \in Text
  PROVE  /\ [h EXCEPT ![i].footComment = @ \o t] \in Seq(Node)
         /\ Len([h EXCEPT ![i].footComment = @ \o t]) = Len(h)
<1> DEFINE n == [h[i] EXCEPT !.footComment = @ \o t]
<1>1. ASSUME i \in 1..Len(h) PROVE n \in Node
  <2>1. h[i] \in Node
    BY <1>1, ElementOfSeq
  <2>2. h[i].footComment \o t \in Text
    BY <2>1, ConcatProperties DEF Node, Text
  <2>3. QED
    BY <2>1, <2>2, NodeUpdate
<1>2. QED
  BY <1>1, HeapUpdate

LEMMA StackUpdate ==
  ASSUME NEW s \in Seq(Frame), NEW i, NEW f, i \in 1..Len(s) => f \in Frame
  PROVE  /\ [s EXCEPT ![i] = f] \in Seq(Frame)
         /\ Len([s EXCEPT ![i] = f]) = Len(s)
         /\ \A j \in 1..Len(s) : [s EXCEPT ![i] = f][j] = IF j = i THEN f ELSE s[j]
<1>1. CASE i \in 1..Len(s)
  BY <1>1, ExceptSeq
<1>2. CASE i \notin 1..Len(s)
  <2>1. [s EXCEPT ![i] = f] = s
    BY <1>2, LenProperties
  <2>2. QED
    BY <1>2, <2>1
<1>3. QED
  BY <1>1, <1>2

LEMMA FrameUpdate ==
  ASSUME NEW f \in Frame, NEW t \in Text
  PROVE  /\ [f EXCEPT !.pendingHead = t] \in Frame
         /\ [f EXCEPT !.pendingHead = t].node = f.node
BY DEF Frame

-----------------------------------------------------------------------------
(* RemoveNil, by induction over the prefixes of the children. *)

\* f is the function RemoveNil defines, on the first n children.
Removes(f, children, n) ==
  f = [i \in 0..n |-> IF i = 0 THEN <<>>
                      ELSE IF children[i] = 0 THEN f[i - 1]
                      ELSE Append(f[i - 1], children[i])]

LEMMA RemovesExists ==
  ASSUME NEW children, NEW n \in Nat
  PROVE  \E f : Removes(f, children, n)
<1> DEFINE T == {m \in Nat : \E f : Removes(f, children, m)}
<1>1. 0 \in T
  <2>1. Removes([i \in 0..0 |-> <<>>], children, 0)
    BY DEF Removes
  <2>2. QED
    BY <2>1
<1>2. ASSUME NEW m \in Nat, m \in T PROVE m + 1 \in T
  <2>1. PICK f : Removes(f, children, m)
    BY <1>2
  <2> DEFINE last == IF children[m + 1] = 0 THEN f[m] ELSE Append(f[m], children[m + 1])
             g == [i \in 0..m + 1 |-> IF i = m + 1 THEN last ELSE f[i]]
  <2>2. \A i \in 0..m : f[i] = IF i = 0 THEN <<>>
                               ELSE IF children[i] = 0 THEN f[i - 1]
                               ELSE Append(f[i - 1], children[i])
    BY <2>1 DEF Removes
  <2>3. Removes(g, children, m + 1)
    BY <2>2 DEF Removes
  <2>4. QED
    BY <2>3
<1> HIDE DEF T
<1>3. \A m \in Nat : m \in T
  BY <1>1, <1>2, SetInduction
<1>4. QED
  BY <1>3 DEF T

\* What removing the nil children leaves: the others, and no nil.
LEMMA RemoveNilType ==
  ASSUME NEW children \in Seq(Nat)
  PROVE  /\ RemoveNil(children) \in Seq(Nat)
         /\ Len(RemoveNil(children)) <= Len(children)
         /\ \A j \in 1..Len(RemoveNil(children)) :
              /\ RemoveNil(children)[j] # 0
              /\ \E i \in 1..Len(children) : children[i] = RemoveNil(children)[j]
<1> DEFINE n == Len(children)
           f == CHOOSE g : Removes(g, children, n)
           Good(i, s) == /\ s \in Seq(Nat) /\ Len(s) <= i
                         /\ \A j \in 1..Len(s) : s[j] # 0 /\ \E k \in 1..n : children[k] = s[j]
           T == {i \in Nat : i <= n => Good(i, f[i])}
<1>1. n \in Nat
  BY LenProperties
<1>2. RemoveNil(children) = f[n]
  BY DEF RemoveNil, Removes
<1>3. Removes(f, children, n)
  BY <1>1, RemovesExists
<1>10. \A i \in 1..n :
         f[i] = IF children[i] = 0 THEN f[i - 1] ELSE Append(f[i - 1], children[i])
  <2>1. \A i \in 0..n : f[i] = IF i = 0 THEN <<>>
                               ELSE IF children[i] = 0 THEN f[i - 1]
                               ELSE Append(f[i - 1], children[i])
    BY <1>3 DEF Removes
  <2>2. QED
    BY <2>1, <1>1
<1> HIDE DEF f
<1>4. 0 \in T
  <2>1. f[0] = <<>>
    BY <1>1, <1>3 DEF Removes
  <2>2. Good(0, <<>>)
    BY EmptySeq
  <2>3. QED
    BY <2>1, <2>2
<1>5. ASSUME NEW i \in Nat, i \in T PROVE i + 1 \in T
  <2> SUFFICES ASSUME i + 1 <= n PROVE Good(i + 1, f[i + 1])
    OBVIOUS
  <2>1. Good(i, f[i]) /\ i + 1 \in 1..n
    BY <1>1, <1>5
  <2>2. f[i + 1] = IF children[i + 1] = 0 THEN f[i] ELSE Append(f[i], children[i + 1])
    <3>1. i + 1 \in 1..n /\ i + 1 - 1 = i
      BY <1>1, <2>1
    <3>2. QED
      BY <1>10, <3>1
  <2>3. children[i + 1] \in Nat
    BY <2>1, ElementOfSeq
  <2>4. CASE children[i + 1] = 0
    BY <2>1, <2>2, <2>4, LenProperties
  <2>5. CASE children[i + 1] # 0
    <3> DEFINE s == f[i]
               t == Append(s, children[i + 1])
    <3>1. f[i + 1] = t
      BY <2>2, <2>5
    <3>2. /\ t \in Seq(Nat) /\ Len(t) = Len(s) + 1 /\ Len(s) \in Nat
          /\ \A j \in 1..Len(s) : t[j] = s[j]
          /\ t[Len(s) + 1] = children[i + 1]
      BY <2>1, <2>3, LenProperties
    <3>6. Good(i, s) /\ i + 1 \in 1..n
      BY <2>1
    <3> HIDE DEF s, t
    <3>3. /\ t \in Seq(Nat) /\ Len(t) <= i + 1
      BY <3>6, <3>2
    <3>4. ASSUME NEW j \in 1..Len(t)
          PROVE  t[j] # 0 /\ \E k \in 1..n : children[k] = t[j]
      <4>1. CASE j = Len(s) + 1
        BY <3>6, <2>5, <3>2, <4>1
      <4>2. CASE j \in 1..Len(s)
        BY <3>6, <3>2, <4>2
      <4>3. QED
        BY <3>2, <4>1, <4>2
    <3>5. QED
      BY <3>1, <3>3, <3>4
  <2>6. QED
    BY <2>4, <2>5
<1>6. n \in T
  <2> HIDE DEF T
  <2>1. QED
    BY <1>1, <1>4, <1>5, SetInduction
<1>7. QED
  BY <1>2, <1>6

-----------------------------------------------------------------------------
(* The inductive invariant. *)

\* The strengthening of TypeOK and LimitsHold: frames name allocated nodes, a
\* member is inserted, or a delimiter closes, inside a container, and the
\* lookahead is a token of the input.
FramesOK == \A i \in 1..Len(stack) : stack[i].node \in 1..Len(heap)
InsideContainer == pc \in {"closed", "insert"} => stack # <<>>
HeldToken == have => input # <<>>
IInv == TypeOK /\ LimitsHold /\ FramesOK /\ InsideContainer /\ HeldToken

LEMMA TokenTypes ==
  ASSUME TypeOK
  PROVE  /\ At \in Nat
         /\ \A i \in 1..At : input[i] \in Token
         /\ At > 0 => /\ Look \in Alphabet /\ Look \in Token
                      /\ Look.k = "str" => Look.v \in Keys
<1>1. Len(input) \in Nat
  BY LenProperties DEF TypeOK, ParserTypeOK
<1>2. \A i \in 1..Len(input) : input[i] \in Alphabet
  BY ElementOfSeq DEF TypeOK, ParserTypeOK
<1>3. QED
  BY <1>1, <1>2, AlphabetAssumption DEF At, Look

LEMMA NonBlankType ==
  ASSUME NEW t \in Text
  PROVE  NonBlank(t) \in Text
BY EmptySeq DEF NonBlank, Text

LEMMA InlineType ==
  ASSUME TypeOK
  PROVE  Inline \in Text
<1>1. <<At>> \in Text
  BY TokenTypes DEF Text
<1>2. QED
  BY <1>1, NonBlankType, EmptySeq DEF Inline, Text

LEMMA Facts ==
  ASSUME IInv
  PROVE  /\ input \in Seq(Alphabet) /\ have \in BOOLEAN /\ pc \in PcValues
         /\ heap \in Seq(Node) /\ Len(heap) \in Nat
         /\ stack \in Seq(Frame) /\ Len(stack) \in Nat
         /\ acc \in Text /\ lead \in Text /\ At \in Nat /\ val \in 0..Len(heap)
         /\ warnings \in Seq(Warning) /\ result \in Outcome
         /\ depth \in Nat /\ keys \in Nat /\ nodes = Len(heap)
         /\ Inline \in Text /\ NonBlank(acc) \in Text
<1>1. TypeOK
  BY DEF IInv
<1>2. acc \in Text
  BY <1>1 DEF TypeOK, ParserTypeOK
<1>3. At \in Nat /\ Inline \in Text /\ NonBlank(acc) \in Text
  BY <1>1, <1>2, TokenTypes, InlineType, NonBlankType
<1>4. nodes = Len(heap)
  BY DEF IInv, LimitsHold
<1>5. QED
  BY <1>1, <1>3, <1>4, LenProperties DEF TypeOK, ParserTypeOK

LEMMA FrameTypes ==
  ASSUME IInv, stack # <<>>
  PROVE  /\ Len(stack) \in 1..Len(stack)
         /\ Top \in Frame /\ Top.node \in 1..Len(heap)
         /\ Container \in Node
<1>1. Len(stack) \in 1..Len(stack)
  BY Facts, EmptySeq
<1>2. Top \in Frame
  BY <1>1, Facts, ElementOfSeq DEF Top
<1>3. Top.node \in 1..Len(heap)
  BY <1>1 DEF IInv, FramesOK, Top
<1>4. QED
  BY <1>1, <1>2, <1>3, Facts, ElementOfSeq DEF Container

LEMMA InitIInv == Init => IInv
<1> SUFFICES ASSUME Init PROVE IInv
  OBVIOUS
<1>1. TypeOK
  <2>1. input \in Seq(Alphabet) /\ heap \in Seq(Node) /\ stack \in Seq(Frame) /\ warnings \in Seq(Warning)
    BY EmptySeq DEF Init, ParserInit
  <2>2. acc \in Text /\ lead \in Text /\ val \in 0..Len(heap)
    BY EmptySeq DEF Init, ParserInit, Text
  <2>3. result \in Outcome
    BY DEF Init, ParserInit, Outcome
  <2>4. QED
    BY <2>1, <2>2, <2>3 DEF Init, ParserInit, TypeOK, ParserTypeOK, PcValues
<1>2. LimitsHold
  BY OptionsAssumption, EmptySeq DEF Init, ParserInit, LimitsHold
<1>3. FramesOK /\ InsideContainer /\ HeldToken
  BY EmptySeq DEF Init, ParserInit, FramesOK, InsideContainer, HeldToken
<1>4. QED
  BY <1>1, <1>2, <1>3 DEF IInv

\* An error return closes every container and allocates nothing.
LEMMA FailIInv ==
  ASSUME IInv, NEW reason \in {"syntax", "strict", "duplicate", "nodes", "keys"}, NEW at \in Nat,
         Fail(reason, at), pc # "error",
         heap' \in Seq(Node), Len(heap') = Len(heap), keys' \in Nat, warnings' \in Seq(Warning),
         UNCHANGED <<input, have, acc, val, nodes, lead>>
  PROVE  IInv'
<1>1. stack' = <<>> /\ Len(stack') = 0 /\ stack' \in Seq(Frame) /\ pc' = "error"
  BY EmptySeq DEF Fail, Stop
<1>2. depth' = 0
  BY Facts DEF IInv, LimitsHold, Fail, Stop
<1>3. result' \in Outcome
  BY Facts DEF Outcome, Fail, Stop
<1>4. TypeOK'
  BY <1>1, <1>2, <1>3, Facts DEF TypeOK, ParserTypeOK, PcValues
<1>5. LimitsHold'
  BY <1>1, <1>2, Facts, OptionsAssumption DEF LimitsHold
<1>6. FramesOK' /\ InsideContainer' /\ HeldToken'
  BY <1>1 DEF FramesOK, InsideContainer, HeldToken, IInv
<1>7. QED
  BY <1>4, <1>5, <1>6 DEF IInv

\* A step that allocates nothing and opens or closes no container.
LEMMA QuietStep ==
  ASSUME IInv,
         UNCHANGED input, have' \in BOOLEAN, have' => have, pc' \in PcValues,
         heap' \in Seq(Node), Len(heap') = Len(heap),
         stack' \in Seq(Frame), Len(stack') = Len(stack),
         \A i \in 1..Len(stack) : stack'[i].node = stack[i].node,
         acc' \in Text, lead' \in Text, warnings' \in Seq(Warning), result' \in Outcome,
         UNCHANGED <<val, depth, keys, nodes>>,
         pc \notin {"error", "overNodes"}, pc' \in {"closed", "insert"} => stack # <<>>
  PROVE  IInv'
<1>1. TypeOK'
  <2>1. val' \in 0..Len(heap') /\ depth' \in Nat /\ keys' \in Nat /\ nodes' \in Nat
    BY Facts
  <2>2. QED
    BY <2>1, Facts DEF TypeOK, ParserTypeOK
<1>2. LimitsHold'
  BY DEF IInv, LimitsHold
<1>3. FramesOK'
  BY DEF IInv, FramesOK
<1>4. InsideContainer' /\ HeldToken'
  <2>1. stack # <<>> => stack' # <<>>
    BY Facts, EmptySeq
  <2>2. QED
    BY <2>1 DEF IInv, InsideContainer, HeldToken
<1>5. QED
  BY <1>1, <1>2, <1>3, <1>4 DEF IInv

\* A step that allocates a node and counts it.
LEMMA AllocationStep ==
  ASSUME IInv, NEW node \in Node, NEW next \in PcValues,
         next \in {"closed", "insert"} => stack # <<>>,
         heap' = Append(heap, node), val' = Len(heap) + 1, BumpNodeCount(next),
         stack' \in Seq(Frame), Len(stack') = Len(stack),
         \A i \in 1..Len(stack) : stack'[i].node = stack[i].node,
         have' \in BOOLEAN, have' => have, acc' \in Text,
         UNCHANGED <<input, depth, keys, warnings, result, lead>>,
         pc \notin {"error", "overNodes"}
  PROVE  IInv'
<1>1. heap' \in Seq(Node) /\ Len(heap') = Len(heap) + 1
  BY Facts
<1>2. TypeOK'
  <2>1. pc' \in PcValues /\ nodes' \in Nat /\ val' \in 0..Len(heap')
    BY <1>1, Facts DEF BumpNodeCount, PcValues
  <2>2. QED
    BY <1>1, <2>1, Facts DEF TypeOK, ParserTypeOK
<1>3. LimitsHold'
  BY <1>1, Facts, OptionsAssumption DEF IInv, LimitsHold, BumpNodeCount, Exceeds
<1>4. FramesOK'
  <2>1. \A i \in 1..Len(stack) : stack[i].node \in 1..Len(heap)
    BY DEF IInv, FramesOK
  <2>2. 1..Len(heap) \subseteq 1..Len(heap')
    BY <1>1, Facts
  <2>3. QED
    BY <2>1, <2>2 DEF FramesOK
<1>5. InsideContainer' /\ HeldToken'
  <2>1. stack # <<>> => stack' # <<>>
    BY Facts, EmptySeq
  <2>2. QED
    BY <2>1 DEF IInv, InsideContainer, HeldToken, BumpNodeCount
<1>6. QED
  BY <1>2, <1>3, <1>4, <1>5 DEF IInv

LEMMA HoldHeadType ==
  ASSUME IInv
  PROVE  /\ HoldHead \in Seq(Frame)
         /\ Len(HoldHead) = Len(stack)
         /\ \A i \in 1..Len(stack) : HoldHead[i].node = stack[i].node
<1> DEFINE i == Len(stack)
           f == [stack[i] EXCEPT !.pendingHead = NonBlank(acc)]
<1>1. ASSUME i \in 1..Len(stack) PROVE f \in Frame /\ f.node = stack[i].node
  BY <1>1, Facts, FrameUpdate, ElementOfSeq
<1>2. QED
  BY <1>1, Facts, StackUpdate DEF HoldHead

\* Replacing the innermost frame by one for the same container.
LEMMA SetTopType ==
  ASSUME IInv, NEW f \in Frame, stack # <<>>, f.node = Top.node, SetTop(f)
  PROVE  /\ stack' \in Seq(Frame) /\ Len(stack') = Len(stack)
         /\ \A i \in 1..Len(stack) : stack'[i].node = stack[i].node
BY Facts, FrameTypes, StackUpdate DEF SetTop, Top

-----------------------------------------------------------------------------
(* One lemma per action. *)

LEMMA CollectHeadCommentsIInv == ASSUME IInv, CollectHeadComments, UNCHANGED lead PROVE IInv'
<1>1. acc' \in Text
  BY Facts DEF CollectHeadComments, Text
<1>2. pc' = pc /\ have' = FALSE /\ UNCHANGED <<input, stack, heap, val, depth, keys, nodes, warnings, result>>
  BY DEF CollectHeadComments, Bump
<1>3. pc \notin {"error", "overNodes", "closed", "insert"}
  BY DEF CollectHeadComments
<1>4. QED
  BY <1>1, <1>2, <1>3, Facts, QuietStep

LEMMA SkipDroppedCommentsIInv == ASSUME IInv, SkipDroppedComments, UNCHANGED lead PROVE IInv'
<1>1. [kind |-> "dropped", at |-> At] \in Warning
  BY Facts DEF Warning
<1>2. warnings' \in Seq(Warning)
  BY <1>1, Facts DEF SkipDroppedComments, Warned
<1>3. pc' = pc /\ have' = FALSE /\ UNCHANGED <<input, stack, heap, acc, val, depth, keys, nodes, result>>
  BY DEF SkipDroppedComments, Bump
<1>4. pc \notin {"error", "overNodes", "closed", "insert"}
  BY DEF SkipDroppedComments
<1>5. QED
  BY <1>2, <1>3, <1>4, Facts, QuietStep

LEMMA ParseScalarIInv == ASSUME IInv, ParseScalar, UNCHANGED lead PROVE IInv'
<1>1. NewNode("scalar", NoText, At) \in Node
  BY Facts, NewNodeType
<1>2. acc' \in Text /\ have' = FALSE /\ stack' = HoldHead
  BY EmptySeq DEF ParseScalar, Text, Bump
<1>3. "return" \in PcValues
  BY DEF PcValues
<1>4. pc \notin {"error", "overNodes"}
  BY DEF ParseScalar, ExpectsValue
<1>5. /\ heap' = Append(heap, NewNode("scalar", NoText, At))
      /\ val' = Len(heap) + 1 /\ BumpNodeCount("return")
      /\ UNCHANGED <<input, depth, keys, warnings, result>>
  BY DEF ParseScalar
<1>6. QED
  BY <1>1, <1>2, <1>3, <1>4, <1>5, HoldHeadType, AllocationStep

LEMMA OpenContainerIInv == ASSUME IInv, OpenContainer, UNCHANGED lead PROVE IInv'
<1> DEFINE kind == IF Look.k = "{" THEN "object" ELSE "array"
           f == NewFrame(Len(heap) + 1)
<1>1. NewNode(kind, NoText, At) \in Node
  BY Facts, NewNodeType
<1>2. heap' \in Seq(Node) /\ Len(heap') = Len(heap) + 1
  <2>1. heap' = Append(heap, NewNode(kind, NoText, At))
    BY DEF OpenContainer
  <2> HIDE DEF kind
  <2>2. QED
    BY <1>1, <2>1, Facts
<1>3. f \in Frame /\ f.node = Len(heap) + 1
  BY Facts, NewFrameType
<1>4. /\ stack' \in Seq(Frame) /\ Len(stack') = Len(stack) + 1
      /\ \A i \in 1..Len(stack) : stack'[i].node = stack[i].node
      /\ stack'[Len(stack) + 1].node = Len(heap) + 1
  <2>1. stack' = Append(HoldHead, f)
    BY DEF OpenContainer
  <2> HIDE DEF f
  <2>2. QED
    BY <1>3, <2>1, Facts, HoldHeadType
<1>5. /\ depth' = depth + 1 /\ nodes' = nodes + 1 /\ have' = FALSE
      /\ pc' \in {"loop", "overNodes"}
      /\ UNCHANGED <<input, val, keys, warnings, result>>
  BY DEF OpenContainer, EnterDepth, Bump, BumpNodeCount
<1>6. TypeOK'
  <2>1. acc' \in Text
    BY EmptySeq DEF OpenContainer, Text
  <2>2. pc' \in PcValues
    BY <1>5 DEF PcValues
  <2>3. depth' \in Nat /\ nodes' \in Nat /\ val' \in 0..Len(heap')
    BY <1>2, <1>5, Facts
  <2>4. QED
    BY <1>2, <1>4, <1>5, <2>1, <2>2, <2>3, Facts DEF TypeOK, ParserTypeOK
<1>7. LimitsHold'
  <2>1. pc # "error" /\ pc # "overNodes"
    BY DEF OpenContainer, ExpectsValue
  <2>2. MaxDepth > 0 => Len(stack') <= MaxDepth
    <3>1. depth = Len(stack)
      BY <2>1 DEF IInv, LimitsHold
    <3>2. ~(MaxDepth > 0 /\ depth + 1 > MaxDepth)
      BY DEF OpenContainer, Exceeds
    <3>3. QED
      BY <1>4, <3>1, <3>2, Facts, OptionsAssumption
  <2>3. MaxNodes > 0 /\ pc' # "overNodes" => nodes' <= MaxNodes
    <3>1. pc' # "overNodes" => ~(MaxNodes > 0 /\ nodes + 1 > MaxNodes)
      BY DEF OpenContainer, BumpNodeCount, Exceeds
    <3>2. QED
      BY <1>5, <3>1, Facts, OptionsAssumption
  <2>4. QED
    BY <1>2, <1>4, <1>5, <2>1, <2>2, <2>3, Facts DEF IInv, LimitsHold
<1>8. FramesOK'
  <2>1. ASSUME NEW i \in 1..Len(stack') PROVE stack'[i].node \in 1..Len(heap')
    <3>1. CASE i = Len(stack) + 1
      BY <1>2, <1>4, <3>1, Facts
    <3>2. CASE i \in 1..Len(stack)
      <4>1. stack[i].node \in 1..Len(heap)
        BY <3>2 DEF IInv, FramesOK
      <4>2. QED
        BY <1>2, <1>4, <3>2, <4>1, Facts
    <3>3. QED
      BY <1>4, <3>1, <3>2, Facts
  <2>2. QED
    BY <2>1 DEF FramesOK
<1>9. InsideContainer' /\ HeldToken'
  BY <1>5 DEF InsideContainer, HeldToken
<1>10. QED
  BY <1>6, <1>7, <1>8, <1>9 DEF IInv

LEMMA TooDeepIInv == ASSUME IInv, TooDeep, UNCHANGED lead PROVE IInv'
<1>1. stack' = <<>> /\ stack' \in Seq(Frame) /\ Len(stack') = 0 /\ pc' = "error"
  BY EmptySeq DEF TooDeep, Stop
<1>2. depth' = 1
  BY Facts DEF TooDeep, ExpectsValue, IInv, LimitsHold
<1>3. result' \in Outcome
  BY Facts DEF TooDeep, Stop, Outcome
<1>4. UNCHANGED <<input, have, heap, acc, val, keys, nodes, warnings>>
  BY DEF TooDeep
<1>5. TypeOK'
  BY <1>1, <1>2, <1>3, <1>4, Facts DEF TypeOK, ParserTypeOK, PcValues
<1>6. LimitsHold'
  BY <1>1, <1>4, Facts, OptionsAssumption DEF LimitsHold
<1>7. FramesOK' /\ InsideContainer' /\ HeldToken'
  BY <1>1, <1>4 DEF FramesOK, InsideContainer, HeldToken, IInv
<1>8. QED
  BY <1>5, <1>6, <1>7 DEF IInv

\* The error returns: OverNodes, NotAValue, StrictTrailingComma, NotAKey,
\* NotAColon, RefuseDuplicate, NotASeparator, NoRoot and ExtraData.
LEMMA ErrorReturnIInv ==
  ASSUME IInv, UNCHANGED lead,
         \/ OverNodes \/ NotAValue \/ StrictTrailingComma \/ NotAKey \/ NotAColon
         \/ RefuseDuplicate \/ NotASeparator \/ NoRoot \/ ExtraData
  PROVE  IInv'
<1>1. CASE OverNodes
  BY <1>1, Facts, FailIInv DEF OverNodes
<1>2. CASE NotAValue
  BY <1>2, Facts, FailIInv DEF NotAValue, ExpectsValue
<1>3. CASE StrictTrailingComma
  BY <1>3, Facts, FailIInv DEF StrictTrailingComma, AtClose
<1>4. CASE NotAKey
  BY <1>4, Facts, FailIInv DEF NotAKey
<1>5. CASE NotAColon
  BY <1>5, Facts, FailIInv DEF NotAColon
<1>6. CASE RefuseDuplicate
  <2>1. stack # <<>>
    BY <1>6 DEF RefuseDuplicate, IInv, InsideContainer
  <2>2. Top.keyPos \in Nat
    BY <2>1, FrameTypes DEF Frame
  <2>3. QED
    BY <1>6, <2>2, Facts, FailIInv DEF RefuseDuplicate
<1>7. CASE NotASeparator
  BY <1>7, Facts, FailIInv DEF NotASeparator
<1>8. CASE NoRoot
  BY <1>8, Facts, FailIInv DEF NoRoot
<1>9. CASE ExtraData
  BY <1>9, Facts, FailIInv DEF ExtraData
<1>10. QED
  BY <1>1, <1>2, <1>3, <1>4, <1>5, <1>6, <1>7, <1>8, <1>9

LEMMA ScanIInv == ASSUME IInv, Scan, UNCHANGED lead PROVE IInv'
<1>1. input' \in Seq(Alphabet) /\ have' = TRUE /\ input' # <<>>
  BY Facts DEF Scan
<1>2. UNCHANGED <<pc, stack, heap, acc, val, depth, keys, nodes, warnings, result>>
  BY DEF Scan
<1>3. TypeOK'
  BY <1>1, <1>2, Facts DEF IInv, TypeOK, ParserTypeOK
<1>4. LimitsHold' /\ FramesOK' /\ InsideContainer' /\ HeldToken'
  BY <1>1, <1>2 DEF IInv, LimitsHold, FramesOK, InsideContainer, HeldToken
<1>5. QED
  BY <1>3, <1>4 DEF IInv

\* What an assignment to fields of one node keeps.
LEMMA CommentStep ==
  ASSUME IInv, NEW i, NEW t \in Text
  PROVE  /\ [heap EXCEPT ![i].comment = t] \in Seq(Node)
         /\ Len([heap EXCEPT ![i].comment = t]) = Len(heap)
         /\ [heap EXCEPT ![i].footComment = @ \o t] \in Seq(Node)
         /\ Len([heap EXCEPT ![i].footComment = @ \o t]) = Len(heap)
<1>1. heap \in Seq(Node)
  BY Facts
<1>2. /\ [heap EXCEPT ![i].comment = t] \in Seq(Node)
      /\ Len([heap EXCEPT ![i].comment = t]) = Len(heap)
  BY <1>1, CommentUpdate
<1>3. /\ [heap EXCEPT ![i].footComment = @ \o t] \in Seq(Node)
      /\ Len([heap EXCEPT ![i].footComment = @ \o t]) = Len(heap)
  BY <1>1, FootUpdate
<1>4. QED
  BY <1>2, <1>3

LEMMA CloseContainerIInv == ASSUME IInv, CloseContainer, UNCHANGED lead PROVE IInv'
<1> DEFINE n == Container
           live == IF Top.removed > 0 THEN RemoveNil(n.children) ELSE n.children
           m == [n EXCEPT !.children = live, !.footComment = @ \o NonBlank(acc),
                          !.rawBytes = <<n.pos, At>>]
<1>1. stack # <<>>
  BY DEF CloseContainer, AtClose, SeesClose, InObject, InArray
<1>2. n \in Node /\ Top.node \in 1..Len(heap)
  BY <1>1, FrameTypes
<1>3. live \in Seq(Nat)
  <2>1. n.children \in Seq(Nat)
    BY <1>2 DEF Node
  <2>2. RemoveNil(n.children) \in Seq(Nat)
    BY <2>1, RemoveNilType
  <2>3. QED
    BY <2>1, <2>2
<1>4. m \in Node
  <2>1. n.footComment \o NonBlank(acc) \in Text
    BY <1>2, Facts, ConcatProperties DEF Node, Text
  <2>2. QED
    BY <1>2, <1>3, <2>1, Facts DEF Node
<1>5. heap' = [heap EXCEPT ![Top.node] = m]
  BY DEF CloseContainer, Container, Span
<1>6. heap' \in Seq(Node) /\ Len(heap') = Len(heap)
  BY <1>4, <1>5, Facts, HeapUpdate
<1>7. acc' \in Text /\ pc' = "closed" /\ have' = FALSE
  BY EmptySeq DEF CloseContainer, Bump, Text
<1>8. pc = "loop" /\ UNCHANGED <<input, stack, val, depth, keys, nodes, warnings, result>>
  BY DEF CloseContainer, AtClose
<1>9. QED
  BY <1>1, <1>6, <1>7, <1>8, Facts, QuietStep DEF PcValues

\* What an assignment to the children or the head comment of a node keeps.
LEMMA ChildUpdate ==
  ASSUME NEW h \in Seq(Node), NEW i, NEW t \in Seq(Nat)
  PROVE  /\ [h EXCEPT ![i].children = t] \in Seq(Node)
         /\ Len([h EXCEPT ![i].children = t]) = Len(h)
<1> DEFINE n == [h[i] EXCEPT !.children = t]
<1>1. i \in 1..Len(h) => n \in Node
  BY NodeUpdate, ElementOfSeq DEF Text
<1>2. QED
  BY <1>1, HeapUpdate

LEMMA HeadUpdate ==
  ASSUME NEW h \in Seq(Node), NEW i, NEW t \in Text
  PROVE  /\ [h EXCEPT ![i].headComment = @ \o t] \in Seq(Node)
         /\ Len([h EXCEPT ![i].headComment = @ \o t]) = Len(h)
<1> DEFINE n == [h[i] EXCEPT !.headComment = @ \o t]
<1>1. ASSUME i \in 1..Len(h) PROVE n \in Node
  <2>1. h[i] \in Node
    BY <1>1, ElementOfSeq
  <2>2. h[i].headComment \o t \in Text
    BY <2>1, ConcatProperties DEF Node, Text
  <2>3. QED
    BY <2>1, <2>2, NodeUpdate
<1>2. QED
  BY <1>1, HeapUpdate

LEMMA FrontType ==
  ASSUME NEW S, NEW s \in Seq(S), s # <<>>
  PROVE  /\ Front(s) \in Seq(S) /\ Len(Front(s)) = Len(s) - 1
         /\ \A i \in 1..Len(Front(s)) : Front(s)[i] = s[i]
<1> DEFINE n == Len(s) - 1
           t == SubSeq(s, 1, n)
<1>1. n \in Nat /\ Front(s) = t
  BY EmptySeq, LenProperties DEF Front
<1>2. \A i \in 1..n : s[i] \in S
  BY <1>1, ElementOfSeq, LenProperties
<1> HIDE DEF n
<1>3. /\ t \in Seq(S) /\ Len(t) = IF 1 <= n THEN n - 1 + 1 ELSE 0
      /\ \A i \in 1..(n - 1 + 1) : t[i] = s[1 + i - 1]
  BY <1>1, <1>2, SubSeqProperties
<1> HIDE DEF t
<1>4. Len(t) = n /\ \A i \in 1..n : t[i] = s[i]
  BY <1>1, <1>3
<1>5. QED
  BY <1>1, <1>3, <1>4 DEF n

LEMMA ReturnContainerIInv == ASSUME IInv, ReturnContainer, UNCHANGED lead PROVE IInv'
<1>1. pc = "closed" /\ stack # <<>>
  BY DEF ReturnContainer, IInv, InsideContainer
<1>2. heap' \in Seq(Node) /\ Len(heap') = Len(heap)
  BY Facts, CommentStep DEF ReturnContainer
<1>3. val' \in 0..Len(heap')
  BY <1>1, <1>2, FrameTypes, Facts DEF ReturnContainer
<1>4. /\ stack' \in Seq(Frame) /\ Len(stack') = Len(stack) - 1
      /\ \A i \in 1..Len(stack') : stack'[i] = stack[i]
  <2>1. stack' = Front(stack)
    BY DEF ReturnContainer
  <2>2. QED
    BY <1>1, <2>1, Facts, FrontType
<1>5. depth' = depth - 1 /\ depth = Len(stack) /\ depth' \in Nat
  BY <1>1, <1>4, FrameTypes, Facts DEF ReturnContainer, ExitDepth, IInv, LimitsHold
<1>6. /\ have' \in BOOLEAN /\ have /\ pc' = "return"
      /\ UNCHANGED <<input, acc, keys, nodes, warnings, result>>
  BY DEF ReturnContainer, TakeInline
<1>7. TypeOK'
  BY <1>2, <1>3, <1>4, <1>5, <1>6, Facts DEF TypeOK, ParserTypeOK, PcValues
<1>8. LimitsHold'
  BY <1>1, <1>2, <1>4, <1>5, <1>6, Facts, OptionsAssumption DEF IInv, LimitsHold
<1>9. FramesOK'
  BY <1>2, <1>4, Facts DEF IInv, FramesOK
<1>10. InsideContainer' /\ HeldToken'
  BY <1>6 DEF IInv, InsideContainer, HeldToken
<1>11. QED
  BY <1>7, <1>8, <1>9, <1>10 DEF IInv

LEMMA AppendElementIInv == ASSUME IInv, AppendElement, UNCHANGED lead PROVE IInv'
<1> DEFINE h == [heap EXCEPT ![val].headComment = @ \o Top.pendingHead]
           c == Append(h[Top.node].children, val)
           f == [Top EXCEPT !.pendingHead = <<>>, !.justConsumedComma = FALSE]
<1>1. stack # <<>> /\ pc = "return"
  BY DEF AppendElement, InArray
<1>2. Top \in Frame /\ Top.node \in 1..Len(heap) /\ Top.pendingHead \in Text
  BY <1>1, FrameTypes DEF Frame
<1>3. h \in Seq(Node) /\ Len(h) = Len(heap)
  BY <1>2, Facts, HeadUpdate
<1>4. heap' = [h EXCEPT ![Top.node].children = Append(@, val)]
  BY DEF AppendElement
<1> HIDE DEF h
<1>5. c \in Seq(Nat)
  <2>1. h[Top.node] \in Node
    BY <1>2, <1>3, ElementOfSeq
  <2>2. val \in Nat /\ h[Top.node].children \in Seq(Nat)
    BY <2>1, Facts DEF Node
  <2>3. QED
    BY <2>2, AppendProperties
<1>6. heap' = [h EXCEPT ![Top.node].children = c]
  BY <1>4
<1> HIDE DEF c
<1>7. heap' \in Seq(Node) /\ Len(heap') = Len(heap)
  <2>1. /\ [h EXCEPT ![Top.node].children = c] \in Seq(Node)
        /\ Len([h EXCEPT ![Top.node].children = c]) = Len(h)
    BY <1>3, <1>5, ChildUpdate
  <2>2. QED
    BY <1>3, <1>6, <2>1
<1>8. f \in Frame /\ f.node = Top.node
  BY <1>2, EmptySeq DEF Frame, Text
<1>9. SetTop(f)
  BY DEF AppendElement
<1> HIDE DEF f
<1>10. /\ stack' \in Seq(Frame) /\ Len(stack') = Len(stack)
       /\ \A i \in 1..Len(stack) : stack'[i].node = stack[i].node
  BY <1>1, <1>8, <1>9, SetTopType
<1>11. pc' = "inline" /\ UNCHANGED <<input, have, acc, val, depth, keys, nodes, warnings, result>>
  BY DEF AppendElement
<1>12. QED
  BY <1>1, <1>7, <1>10, <1>11, Facts, QuietStep DEF PcValues

LEMMA ParseKeyIInv == ASSUME IInv, ParseKey, UNCHANGED lead PROVE IInv'
<1> DEFINE f == [Top EXCEPT !.pendingHead = NonBlank(acc), !.key = Look.v, !.keyPos = At]
<1>1. stack # <<>> /\ pc = "loop"
  BY DEF ParseKey, InObject
<1>2. At > 0
  <2>1. have
    BY DEF ParseKey, Sees
  <2>2. QED
    BY <2>1, Facts, EmptySeq DEF IInv, HeldToken, At
<1>3. Look.v \in Keys
  BY <1>2, TokenTypes DEF ParseKey, Sees, IInv
<1>4. f \in Frame /\ f.node = Top.node
  BY <1>1, <1>3, Facts, FrameTypes DEF Frame
<1>5. SetTop(f)
  BY DEF ParseKey
<1> HIDE DEF f
<1>6. /\ stack' \in Seq(Frame) /\ Len(stack') = Len(stack)
      /\ \A i \in 1..Len(stack) : stack'[i].node = stack[i].node
  BY <1>1, <1>4, <1>5, SetTopType
<1>7. acc' \in Text /\ pc' = "colon" /\ have' = FALSE
  BY EmptySeq DEF ParseKey, Bump, Text
<1>8. UNCHANGED <<input, heap, val, depth, keys, nodes, warnings, result>>
  BY DEF ParseKey
<1>9. QED
  BY <1>1, <1>6, <1>7, <1>8, Facts, QuietStep DEF PcValues

LEMMA ParseColonIInv == ASSUME IInv, ParseColon, UNCHANGED lead PROVE IInv'
<1>1. /\ pc = "colon" /\ pc' = "keyValue" /\ have' = FALSE
      /\ UNCHANGED <<input, stack, heap, acc, val, depth, keys, nodes, warnings, result>>
  BY DEF ParseColon, Bump
<1>2. QED
  BY <1>1, Facts, QuietStep DEF PcValues

LEMMA MakeMemberIInv == ASSUME IInv, MakeMember, UNCHANGED lead PROVE IInv'
<1> DEFINE n == NewNode("member", Top.key, Top.keyPos)
           m == [n EXCEPT !.headComment = Top.pendingHead, !.children = <<val>>]
<1>1. stack # <<>> /\ pc = "return"
  BY DEF MakeMember, InObject
<1>2. /\ Top.key \in Keys \cup {NoText} /\ Top.keyPos \in Nat /\ Top.pendingHead \in Text
  BY <1>1, FrameTypes DEF Frame
<1>3. n \in Node
  BY <1>2, NewNodeType
<1>4. m \in Node
  <2>1. <<val>> \in Seq(Nat)
    BY Facts
  <2> HIDE DEF n
  <2>2. QED
    BY <1>2, <1>3, <2>1 DEF Node
<1>5. /\ heap' = Append(heap, m) /\ val' = Len(heap) + 1 /\ BumpNodeCount("insert")
      /\ UNCHANGED <<input, have, stack, acc, depth, keys, warnings, result>>
  BY DEF MakeMember, Member
<1> HIDE DEF m
<1>6. "insert" \in PcValues
  BY DEF PcValues
<1>7. QED
  BY <1>1, <1>4, <1>5, <1>6, Facts, AllocationStep

LEMMA InlineCommentIInv == ASSUME IInv, InlineComment, UNCHANGED lead PROVE IInv'
<1>1. heap' \in Seq(Node) /\ Len(heap') = Len(heap)
  BY Facts, CommentStep DEF InlineComment
<1>2. /\ pc = "inline" /\ pc' = "between" /\ have' \in BOOLEAN /\ have
      /\ UNCHANGED <<input, stack, acc, val, depth, keys, nodes, warnings, result>>
  BY DEF InlineComment, TakeInline
<1>3. QED
  BY <1>1, <1>2, Facts, QuietStep DEF PcValues

LEMMA SeparatorIInv == ASSUME IInv, Separator, UNCHANGED lead PROVE IInv'
<1> DEFINE f == [Top EXCEPT !.justConsumedComma = TRUE]
<1>1. pc = "between"
  BY DEF Separator
<1>2. heap' \in Seq(Node) /\ Len(heap') = Len(heap)
  BY Facts, CommentStep DEF Separator
<1>3. /\ stack' \in Seq(Frame) /\ Len(stack') = Len(stack)
      /\ \A i \in 1..Len(stack) : stack'[i].node = stack[i].node
  <2>1. SetTop(f)
    BY DEF Separator
  <2>2. CASE stack = <<>>
    <3>1. stack' = stack
      BY <2>1, <2>2, EmptySeq DEF SetTop
    <3>2. QED
      BY <3>1, Facts
  <2>3. CASE stack # <<>>
    <3>1. f \in Frame /\ f.node = Top.node
      BY <2>3, FrameTypes DEF Frame
    <3> HIDE DEF f
    <3>2. QED
      BY <2>1, <2>3, <3>1, SetTopType
  <2>4. QED
    BY <2>2, <2>3
<1>4. acc' \in Text /\ pc' = "afterComma" /\ have' = FALSE
  BY EmptySeq DEF Separator, Bump, Text
<1>5. UNCHANGED <<input, val, depth, keys, nodes, warnings, result>>
  BY DEF Separator
<1>6. QED
  BY <1>1, <1>2, <1>3, <1>4, <1>5, Facts, QuietStep DEF PcValues

LEMMA CloseAheadIInv == ASSUME IInv, CloseAhead, UNCHANGED lead PROVE IInv'
<1>1. heap' \in Seq(Node) /\ Len(heap') = Len(heap)
  BY Facts, CommentStep DEF CloseAhead
<1>2. acc' \in Text /\ pc' = "loop" /\ pc = "between"
  BY EmptySeq DEF CloseAhead, Text
<1>3. UNCHANGED <<input, have, stack, val, depth, keys, nodes, warnings, result>>
  BY DEF CloseAhead
<1>4. QED
  BY <1>1, <1>2, <1>3, Facts, QuietStep DEF PcValues

LEMMA AttachAfterCommaIInv == ASSUME IInv, AttachAfterComma, UNCHANGED lead PROVE IInv'
<1>1. heap' \in Seq(Node) /\ Len(heap') = Len(heap)
  BY Facts, CommentStep DEF AttachAfterComma, Attach
<1>2. /\ pc = "afterComma" /\ pc' = "loop" /\ have' \in BOOLEAN /\ have
      /\ UNCHANGED <<input, stack, acc, val, depth, keys, nodes, warnings, result>>
  BY DEF AttachAfterComma, TakeInline
<1>3. QED
  BY <1>1, <1>2, Facts, QuietStep DEF PcValues

\* The places a search returns are 0 or places of the sequence.
LEMMA LastOfType ==
  ASSUME NEW S, S \subseteq Nat
  PROVE  LastOf(S) \in Nat
BY DEF LastOf

LEMMA AddToIndexType ==
  ASSUME IInv, NEW children \in Seq(Nat), NEW f \in Frame
  PROVE  AddToIndex(children, f) \in Frame /\ AddToIndex(children, f).node = f.node
<1>1. Len(children) \in Nat /\ DOMAIN children = 1..Len(children)
  BY LenProperties
<1>2. \A k \in Keys : LastOf(PlacesOf(children, k)) \in Nat
  BY <1>1, LastOfType DEF PlacesOf
<1>3. CASE f.indexed
  <2>1. [f EXCEPT !.byKey[heap[val].key] = Len(children)] \in Frame
    BY <1>1 DEF Frame
  <2>2. QED
    BY <1>3, <2>1 DEF AddToIndex, Frame
<1>4. CASE ~f.indexed
  <2> DEFINE m == [k \in Keys |-> LastOf(PlacesOf(children, k))]
  <2>1. m \in [Keys -> Nat]
    BY <1>2
  <2> HIDE DEF m
  <2>2. [f EXCEPT !.indexed = TRUE, !.byKey = m] \in Frame
    BY <2>1 DEF Frame
  <2>3. [f EXCEPT !.indexed = TRUE, !.byKey = m].node = f.node
    BY DEF Frame
  <2>4. AddToIndex(children, f) \in {f, [f EXCEPT !.indexed = TRUE, !.byKey = m]}
    BY <1>4 DEF AddToIndex, m
  <2>5. QED
    BY <2>2, <2>3, <2>4
<1>5. QED
  BY <1>3, <1>4

LEMMA ExceptNat ==
  ASSUME NEW s \in Seq(Nat), NEW i
  PROVE  [s EXCEPT ![i] = 0] \in Seq(Nat)
<1>1. CASE i \in 1..Len(s)
  BY <1>1, ExceptSeq
<1>2. CASE i \notin 1..Len(s)
  <2>1. [s EXCEPT ![i] = 0] = s
    BY <1>2, LenProperties
  <2>2. QED
    BY <2>1
<1>3. QED
  BY <1>1, <1>2

LEMMA InsertMemberIInv == ASSUME IInv, InsertMember, UNCHANGED lead PROVE IInv'
<1> DEFINE i == Duplicate
           kept == IF i = 0 THEN Container.children ELSE [Container.children EXCEPT ![i] = 0]
           children == Append(kept, val)
           found == [Top EXCEPT !.removed = IF i = 0 THEN @ ELSE @ + 1,
                                !.pendingHead = <<>>, !.justConsumedComma = FALSE]
<1>1. stack # <<>> /\ pc = "insert"
  BY DEF InsertMember, IInv, InsideContainer
<1>2. Top \in Frame /\ Container \in Node /\ Top.keyPos \in Nat
  BY <1>1, FrameTypes DEF Frame
<1>3. children \in Seq(Nat)
  <2>1. Container.children \in Seq(Nat)
    BY <1>2 DEF Node
  <2>2. kept \in Seq(Nat)
    BY <2>1, ExceptNat
  <2>3. val \in Nat
    BY Facts
  <2> HIDE DEF kept
  <2>4. QED
    BY <2>2, <2>3, AppendProperties
<1>4. found \in Frame /\ found.node = Top.node
  <2>1. Top.removed \in Nat /\ Top.removed + 1 \in Nat
    BY <1>2 DEF Frame
  <2> HIDE DEF i
  <2>2. QED
    BY <1>2, <2>1, EmptySeq DEF Frame, Text
<1>5. heap' = [heap EXCEPT ![Top.node].children = children]
  BY DEF InsertMember, Superseding
<1>6. \/ Fail("keys", Top.keyPos)
      \/ /\ SetTop(AddToIndex(children, found)) /\ pc' = "inline"
         /\ ~Exceeds(keys + 1, MaxKeys) /\ UNCHANGED <<depth, result>>
  BY DEF InsertMember, Superseding
<1>7. /\ keys' = keys + 1
      /\ UNCHANGED <<input, have, acc, val, nodes>>
  BY DEF InsertMember
<1>8. warnings' \in Seq(Warning)
  <2>1. [kind |-> "duplicate", at |-> Top.keyPos] \in Warning
    BY <1>2 DEF Warning
  <2>2. QED
    BY <2>1, Facts DEF InsertMember, Warned
<1> HIDE DEF children, found
<1>9. heap' \in Seq(Node) /\ Len(heap') = Len(heap)
  BY <1>3, <1>5, Facts, ChildUpdate
<1>10. keys' \in Nat
  BY <1>7, Facts
<1>11. CASE Fail("keys", Top.keyPos)
  BY <1>1, <1>2, <1>7, <1>8, <1>9, <1>10, <1>11, Facts, FailIInv
<1>12. CASE /\ SetTop(AddToIndex(children, found)) /\ pc' = "inline"
            /\ ~Exceeds(keys + 1, MaxKeys) /\ UNCHANGED <<depth, result>>
  <2>1. /\ AddToIndex(children, found) \in Frame
        /\ AddToIndex(children, found).node = Top.node
    BY <1>3, <1>4, AddToIndexType
  <2>2. /\ stack' \in Seq(Frame) /\ Len(stack') = Len(stack)
        /\ \A j \in 1..Len(stack) : stack'[j].node = stack[j].node
    BY <1>1, <1>12, <2>1, SetTopType
  <2>3. TypeOK'
    BY <1>7, <1>8, <1>9, <1>10, <1>12, <2>2, Facts DEF TypeOK, ParserTypeOK, PcValues
  <2>4. LimitsHold'
    BY <1>1, <1>7, <1>9, <1>12, <2>2, Facts, OptionsAssumption DEF IInv, LimitsHold, Exceeds
  <2>5. FramesOK'
    BY <1>9, <2>2 DEF IInv, FramesOK
  <2>6. InsideContainer' /\ HeldToken'
    BY <1>7, <1>12 DEF IInv, InsideContainer, HeldToken
  <2>7. QED
    BY <2>3, <2>4, <2>5, <2>6 DEF IInv
<1>13. QED
  BY <1>6, <1>11, <1>12

LEMMA ParseValueIInv == ASSUME IInv, ParseValue, UNCHANGED lead PROVE IInv'
BY ScanIInv, ErrorReturnIInv, ParseScalarIInv, OpenContainerIInv, TooDeepIInv,
   CollectHeadCommentsIInv, SkipDroppedCommentsIInv, CloseContainerIInv,
   ReturnContainerIInv, AppendElementIInv, ParseKeyIInv, ParseColonIInv, MakeMemberIInv,
   InsertMemberIInv, InlineCommentIInv, SeparatorIInv, CloseAheadIInv, AttachAfterCommaIInv
   DEF ParseValue

-----------------------------------------------------------------------------
(* The document. *)

LEMMA BeginRootIInv == ASSUME IInv, BeginRoot PROVE IInv'
<1>1. /\ pc = "lead" /\ pc' = "value" /\ lead' \in Text /\ acc' \in Text
      /\ UNCHANGED <<input, have, stack, heap, val, depth, keys, nodes, warnings, result>>
  BY Facts, EmptySeq DEF BeginRoot, Text
<1>2. QED
  BY <1>1, Facts, QuietStep DEF PcValues

LEMMA ReturnRootIInv == ASSUME IInv, ReturnRoot PROVE IInv'
<1> DEFINE n == [heap[val] EXCEPT !.headComment = lead \o @]
<1>1. val \in 1..Len(heap) => n \in Node
  <2>1. val \in 1..Len(heap) => heap[val] \in Node
    BY Facts, ElementOfSeq
  <2>2. heap[val] \in Node => lead \o heap[val].headComment \in Text
    BY Facts, ConcatProperties DEF Node, Text
  <2>3. QED
    BY <2>1, <2>2, NodeUpdate
<1>2. heap' = [heap EXCEPT ![val] = n]
  BY DEF ReturnRoot
<1> HIDE DEF n
<1>3. heap' \in Seq(Node) /\ Len(heap') = Len(heap)
  BY <1>1, <1>2, Facts, HeapUpdate
<1>4. /\ pc = "return" /\ pc' \in {"rootInline", "trail"}
      /\ UNCHANGED <<input, have, stack, acc, val, depth, keys, nodes, warnings, result, lead>>
  BY DEF ReturnRoot
<1>5. QED
  BY <1>3, <1>4, Facts, QuietStep DEF PcValues

LEMMA RootInlineIInv == ASSUME IInv, RootInline PROVE IInv'
<1>1. heap' \in Seq(Node) /\ Len(heap') = Len(heap)
  BY Facts, CommentStep DEF RootInline
<1>2. /\ pc = "rootInline" /\ pc' = "trail" /\ have' \in BOOLEAN /\ have
      /\ UNCHANGED <<input, stack, acc, val, depth, keys, nodes, warnings, result, lead>>
  BY DEF RootInline, TakeInline
<1>3. QED
  BY <1>1, <1>2, Facts, QuietStep DEF PcValues

LEMMA ConsumeTrailingIInv == ASSUME IInv, ConsumeTrailing PROVE IInv'
<1>1. acc' \in Text
  BY Facts DEF ConsumeTrailing, Text
<1>2. /\ pc = "trail" /\ pc' = "trail" /\ have' = FALSE
      /\ UNCHANGED <<input, stack, heap, val, depth, keys, nodes, warnings, result, lead>>
  BY DEF ConsumeTrailing, Bump
<1>3. QED
  BY <1>1, <1>2, Facts, QuietStep DEF PcValues

LEMMA FinishIInv == ASSUME IInv, Finish PROVE IInv'
<1> DEFINE n == [heap[val] EXCEPT !.trailComment = @ \o NonBlank(acc)]
<1>1. val \in 1..Len(heap) => n \in Node
  <2>1. val \in 1..Len(heap) => heap[val] \in Node
    BY Facts, ElementOfSeq
  <2>2. heap[val] \in Node => heap[val].trailComment \o NonBlank(acc) \in Text
    BY Facts, ConcatProperties DEF Node, Text
  <2>3. QED
    BY <2>1, <2>2, NodeUpdate
<1>2. heap' = [heap EXCEPT ![val] = n]
  BY DEF Finish
<1> HIDE DEF n
<1>3. heap' \in Seq(Node) /\ Len(heap') = Len(heap)
  BY <1>1, <1>2, Facts, HeapUpdate
<1>4. /\ pc = "trail" /\ pc' = "done" /\ result' \in Outcome
      /\ UNCHANGED <<input, have, stack, acc, val, depth, keys, nodes, warnings, lead>>
  BY Facts DEF Finish, Outcome
<1>5. QED
  BY <1>3, <1>4, Facts, QuietStep DEF PcValues

LEMMA StutterIInv == ASSUME IInv, UNCHANGED vars PROVE IInv'
BY DEF vars, pvars, IInv, TypeOK, ParserTypeOK, LimitsHold, FramesOK, InsideContainer, HeldToken

LEMMA NextIInv == ASSUME IInv, [Next]_vars PROVE IInv'
<1>1. CASE ParseValue /\ UNCHANGED lead
  BY <1>1, ParseValueIInv
<1>2. CASE NoRoot \/ ExtraData
  <2>1. UNCHANGED lead
    BY <1>2 DEF NoRoot, ExtraData
  <2>2. QED
    BY <1>2, <2>1, ErrorReturnIInv
<1>3. QED
  BY <1>1, <1>2, BeginRootIInv, ReturnRootIInv, RootInlineIInv, ConsumeTrailingIInv,
     FinishIInv, StutterIInv DEF Next

THEOREM Inductive == Spec => []IInv
BY InitIInv, NextIInv, PTL DEF Spec

\* Every variable keeps its type through every parse, whatever the alphabet,
\* the limits and the options: the heap is a sequence of nodes, every frame a
\* frame, the counters naturals.
THEOREM TypeCorrect == Spec => []TypeOK
<1>1. IInv => TypeOK
  BY DEF IInv
<1>2. QED
  BY <1>1, Inductive, PTL

\* The limits of decoderOptions bind at every step of every parse: the
\* nesting, the nodes and the keys stay within them, and p.depth is the number
\* of open containers through every early return.
THEOREM LimitsRespected == Spec => []LimitsHold
<1>1. IInv => LimitsHold
  BY DEF IInv
<1>2. QED
  BY <1>1, Inductive, PTL

-----------------------------------------------------------------------------
(* The inductive invariant of the member index, beside IInv. *)

\* The places of the live members of the node n named k.
Hits(n, k) == PlacesOf(heap[n].children, k)

\* A child is nil or a node; containers are opened in the order of the heap.
HeldKids ==
  \A n \in 1..Len(heap) : \A i \in 1..Len(heap[n].children) : heap[n].children[i] \in 0..Len(heap)
Nested == \A i, j \in 1..Len(stack) : i < j => stack[i].node < stack[j].node
RootFirst == pc \in {"lead", "value"} => stack = <<>>

\* An object's frame has its member's key from the first key on.
BeforeKey == {"loop", "closed", "overNodes"}
KeysKnown ==
  \A i \in 1..Len(stack) : heap[stack[i].node].kind = "object" =>
    stack[i].key \in Keys \/ (i = Len(stack) /\ pc \in BeforeKey)
MemberHeld == pc = "insert" => InObject /\ val # 0 /\ heap[val].key \in Keys

\* No key has two live members, and an index gives the place of each; that of
\* an object whose nil children are gone is not used again.
OneEach(n) == \A k \in Keys : \A i, j \in Hits(n, k) : i = j
Answers(f, n) ==
  f.indexed => \A k \in Keys : IF Hits(n, k) = {} THEN f.byKey[k] = 0 ELSE f.byKey[k] \in Hits(n, k)
IndexOK ==
  \A i \in 1..Len(stack) : heap[stack[i].node].kind = "object" =>
    /\ OneEach(stack[i].node)
    /\ (pc = "closed" /\ i = Len(stack)) \/ Answers(stack[i], stack[i].node)

Indexed == HeldKids /\ Nested /\ RootFirst /\ KeysKnown /\ MemberHeld /\ IndexOK

LEMMA InitIndexed == ASSUME Init PROVE Indexed
<1>1. Len(heap) = 0 /\ Len(stack) = 0 /\ stack = <<>> /\ pc = "lead"
  BY EmptySeq DEF Init, ParserInit
<1>2. QED
  BY <1>1 DEF Indexed, HeldKids, Nested, RootFirst, KeysKnown, MemberHeld, IndexOK

-----------------------------------------------------------------------------
(* Removing the nil children. *)

\* s holds some of the first i children, in their order, and all that are not nil.
Drawn(children, i, s) ==
  /\ s \in Seq(Nat)
  /\ \A j \in 1..Len(s) : \E p \in 1..i : children[p] = s[j]
  /\ \A j, k \in 1..Len(s) : j < k =>
       \E p, q \in 1..i : p < q /\ children[p] = s[j] /\ children[q] = s[k]
  /\ \A p \in 1..i : children[p] # 0 => \E j \in 1..Len(s) : s[j] = children[p]

LEMMA DrawnLonger ==
  ASSUME NEW children, NEW i \in Nat, NEW s, Drawn(children, i, s), children[i + 1] = 0
  PROVE  Drawn(children, i + 1, s)
<1>1. 1..i \subseteq 1..(i + 1) /\ \A p \in 1..(i + 1) : p = i + 1 \/ p \in 1..i
  OBVIOUS
<1>2. QED
  BY <1>1 DEF Drawn

LEMMA DrawnAppend ==
  ASSUME NEW children \in Seq(Nat), NEW i \in Nat, i + 1 <= Len(children),
         NEW s, Drawn(children, i, s)
  PROVE  Drawn(children, i + 1, Append(s, children[i + 1]))
<1> DEFINE c == children[i + 1]
           t == Append(s, c)
<1>1. c \in Nat /\ s \in Seq(Nat)
  BY ElementOfSeq, LenProperties DEF Drawn
<1> HIDE DEF c
<1>2. /\ t \in Seq(Nat) /\ Len(t) = Len(s) + 1 /\ Len(s) \in Nat
      /\ \A j \in 1..Len(s) : t[j] = s[j]
      /\ t[Len(s) + 1] = c
  BY <1>1, LenProperties
<1> HIDE DEF t
<1>3. i + 1 \in 1..(i + 1) /\ \A p \in 1..i : p \in 1..(i + 1) /\ p < i + 1
  OBVIOUS
<1>4. children[i + 1] = c
  BY DEF c
<1>5. \A j \in 1..Len(t) : j = Len(s) + 1 \/ j \in 1..Len(s)
  BY <1>2
<1>6. \A j \in 1..Len(s) : \E p \in 1..i : children[p] = t[j]
  BY <1>2 DEF Drawn
<1>7. ASSUME NEW j \in 1..Len(t) PROVE \E p \in 1..(i + 1) : children[p] = t[j]
  <2>1. CASE j = Len(s) + 1
    BY <1>2, <1>3, <1>4, <2>1
  <2>2. CASE j \in 1..Len(s)
    BY <1>3, <1>6, <2>2
  <2>3. QED
    BY <1>5, <2>1, <2>2
<1>8. ASSUME NEW j \in 1..Len(t), NEW k \in 1..Len(t), j < k
      PROVE  \E p, q \in 1..(i + 1) : p < q /\ children[p] = t[j] /\ children[q] = t[k]
  <2>1. j \in 1..Len(s)
    BY <1>2, <1>8
  <2>2. CASE k \in 1..Len(s)
    <3>1. \E p, q \in 1..i : p < q /\ children[p] = s[j] /\ children[q] = s[k]
      BY <1>8, <2>1, <2>2 DEF Drawn
    <3>2. QED
      BY <1>2, <1>3, <2>1, <2>2, <3>1
  <2>3. CASE k = Len(s) + 1
    <3>1. PICK p \in 1..i : children[p] = t[j]
      BY <1>6, <2>1
    <3>2. QED
      BY <1>2, <1>3, <1>4, <2>3, <3>1
  <2>4. QED
    BY <1>5, <2>2, <2>3
<1>9. ASSUME NEW p \in 1..(i + 1), children[p] # 0 PROVE \E j \in 1..Len(t) : t[j] = children[p]
  <2>1. Len(s) + 1 \in 1..Len(t) /\ \A j \in 1..Len(s) : j \in 1..Len(t)
    BY <1>2
  <2>2. CASE p = i + 1
    BY <1>2, <1>4, <2>1, <2>2
  <2>3. CASE p \in 1..i
    <3>1. PICK j \in 1..Len(s) : s[j] = children[p]
      BY <1>9, <2>3 DEF Drawn
    <3>2. QED
      BY <1>2, <2>1, <3>1
  <2>4. p = i + 1 \/ p \in 1..i
    OBVIOUS
  <2>5. QED
    BY <2>2, <2>3, <2>4
<1>10. Drawn(children, i + 1, t)
  BY <1>2, <1>7, <1>8, <1>9 DEF Drawn
<1>11. QED
  BY <1>10 DEF t, c

\* The children that are left are those not nil, in their order.
LEMMA RemoveNilDrawn ==
  ASSUME NEW children \in Seq(Nat)
  PROVE  Drawn(children, Len(children), RemoveNil(children))
<1> DEFINE n == Len(children)
           f == CHOOSE g : Removes(g, children, n)
           T == {i \in Nat : i <= n => Drawn(children, i, f[i])}
<1>1. n \in Nat
  BY LenProperties
<1>2. RemoveNil(children) = f[n]
  BY DEF RemoveNil, Removes
<1>3. Removes(f, children, n)
  BY <1>1, RemovesExists
<1> HIDE DEF f
<1>4. \A i \in 1..n :
        f[i] = IF children[i] = 0 THEN f[i - 1] ELSE Append(f[i - 1], children[i])
  <2>1. \A i \in 0..n : f[i] = IF i = 0 THEN <<>>
                               ELSE IF children[i] = 0 THEN f[i - 1]
                               ELSE Append(f[i - 1], children[i])
    BY <1>3 DEF Removes
  <2> HIDE DEF n
  <2>2. QED
    BY <2>1, <1>1
<1>5. 0 \in T
  <2>1. f[0] = <<>>
    BY <1>1, <1>3 DEF Removes
  <2>2. Drawn(children, 0, <<>>)
    BY EmptySeq DEF Drawn
  <2>3. QED
    BY <2>1, <2>2
<1>6. ASSUME NEW i \in Nat, i \in T PROVE i + 1 \in T
  <2> SUFFICES ASSUME i + 1 <= n PROVE Drawn(children, i + 1, f[i + 1])
    OBVIOUS
  <2>1. Drawn(children, i, f[i]) /\ i + 1 \in 1..n /\ i + 1 - 1 = i
    BY <1>1, <1>6
  <2>2. f[i + 1] = IF children[i + 1] = 0 THEN f[i] ELSE Append(f[i], children[i + 1])
    BY <1>4, <2>1
  <2>3. QED
    BY <2>1, <2>2, DrawnLonger, DrawnAppend
<1>7. n \in T
  <2> HIDE DEF T
  <2>1. QED
    BY <1>1, <1>5, <1>6, SetInduction
<1>8. QED
  BY <1>1, <1>2, <1>7

-----------------------------------------------------------------------------
(* What a step leaves alone. *)

\* The nodes keep kind and key; some keep their children.
SameNodes ==
  /\ Len(heap) <= Len(heap')
  /\ \A n \in 1..Len(heap) : heap'[n].kind = heap[n].kind /\ heap'[n].key = heap[n].key
SameFrame(f, g) == g.node = f.node /\ g.indexed = f.indexed /\ g.byKey = f.byKey

LEMMA FieldsKept ==
  ASSUME NEW h \in Seq(Node), NEW i, NEW t, NEW n \in 1..Len(h)
  PROVE  LET SameAs(g) == g[n].kind = h[n].kind /\ g[n].key = h[n].key /\ g[n].children = h[n].children
         IN  /\ SameAs([h EXCEPT ![i].comment = t])
             /\ SameAs([h EXCEPT ![i].headComment = t])
             /\ SameAs([h EXCEPT ![i].footComment = t])
             /\ SameAs([h EXCEPT ![i].trailComment = t])
<1>1. h[n] \in Node /\ n \in DOMAIN h
  BY ElementOfSeq, LenProperties
<1>2. QED
  BY <1>1 DEF Node

LEMMA NodeFacts ==
  ASSUME IInv, NEW n \in 1..Len(heap)
  PROVE  /\ heap[n] \in Node /\ heap[n].children \in Seq(Nat)
         /\ Len(heap[n].children) \in Nat
         /\ DOMAIN heap[n].children = 1..Len(heap[n].children)
<1>1. heap[n] \in Node
  BY Facts, ElementOfSeq
<1>2. heap[n].children \in Seq(Nat)
  BY <1>1 DEF Node
<1>3. QED
  BY <1>1, <1>2, LenProperties

LEMMA HitsKept ==
  ASSUME IInv, HeldKids, SameNodes, NEW n \in 1..Len(heap), heap'[n].children = heap[n].children, NEW k
  PROVE  Hits(n, k)' = Hits(n, k)
<1> DEFINE c == heap[n].children
<1>1. DOMAIN c = 1..Len(c) /\ \A i \in 1..Len(c) : c[i] \in 0..Len(heap)
  BY NodeFacts DEF HeldKids
<1>2. \A i \in DOMAIN c : c[i] # 0 => heap'[c[i]].key = heap[c[i]].key
  <2>1. \A x \in 0..Len(heap) : x # 0 => x \in 1..Len(heap)
    BY Facts
  <2>2. \A i \in DOMAIN c : c[i] # 0 => c[i] \in 1..Len(heap)
    BY <1>1, <2>1
  <2>3. QED
    BY <2>2 DEF SameNodes
<1>3. QED
  BY <1>2 DEF Hits, PlacesOf

\* A step that opens and closes nothing and leaves the children of objects.
LEMMA QuietIndexed ==
  ASSUME IInv, Indexed, HeldKids', SameNodes,
         \A n \in 1..Len(heap) : heap[n].kind = "object" => heap'[n].children = heap[n].children,
         Len(stack') = Len(stack),
         \A i \in 1..Len(stack) : SameFrame(stack[i], stack'[i]),
         \A i \in 1..Len(stack) : stack'[i].key = stack[i].key \/ stack'[i].key \in Keys,
         pc' \in {"lead", "value"} => pc \in {"lead", "value"},
         pc' = "closed" <=> pc = "closed",
         pc \in BeforeKey /\ InObject => pc' \in BeforeKey \/ stack'[Len(stack)].key \in Keys,
         pc' = "insert" => InObject /\ val' # 0 /\ heap'[val'].key \in Keys
  PROVE  Indexed'
<1>1. \A i \in 1..Len(stack) :
        /\ stack[i].node \in 1..Len(heap) /\ stack'[i].node = stack[i].node
        /\ heap'[stack[i].node].kind = heap[stack[i].node].kind
  BY DEF IInv, FramesOK, SameNodes, SameFrame
<1>2. Nested'
  BY <1>1 DEF Indexed, Nested
<1>3. RootFirst'
  <2>1. stack = <<>> => stack' = <<>>
    BY Facts, EmptySeq DEF IInv, TypeOK, ParserTypeOK
  <2>2. QED
    BY <2>1 DEF Indexed, RootFirst
<1>4. KeysKnown'
  <2> SUFFICES ASSUME NEW i \in 1..Len(stack), heap[stack[i].node].kind = "object",
                      stack'[i].key \notin Keys
               PROVE  i = Len(stack) /\ pc' \in BeforeKey
    BY <1>1 DEF KeysKnown
  <2>1. i = Len(stack) /\ pc \in BeforeKey
    BY DEF Indexed, KeysKnown
  <2>2. stack # <<>>
    BY Facts, EmptySeq
  <2>3. InObject
    BY <2>1, <2>2 DEF InObject, Container, Top
  <2>4. QED
    BY <2>1, <2>3
<1>5. IndexOK'
  <2> SUFFICES ASSUME NEW i \in 1..Len(stack), heap[stack[i].node].kind = "object"
               PROVE  /\ OneEach(stack[i].node)'
                      /\ (pc' = "closed" /\ i = Len(stack)) \/ Answers(stack[i], stack[i].node)'
    BY <1>1 DEF IndexOK
  <2> DEFINE n == stack[i].node
  <2>1. /\ OneEach(n)
        /\ (pc = "closed" /\ i = Len(stack)) \/ Answers(stack[i], n)
    BY DEF Indexed, IndexOK
  <2>2. \A k : Hits(n, k)' = Hits(n, k)
    BY <1>1, HitsKept DEF Indexed
  <2>3. n' = n /\ stack'[i].indexed = stack[i].indexed /\ stack'[i].byKey = stack[i].byKey
    BY DEF SameFrame
  <2> HIDE DEF n
  <2>4. OneEach(n)'
    BY <2>1, <2>2, <2>3 DEF OneEach
  <2>5. Answers(stack[i], n) => Answers(stack[i], n)'
    BY <2>2, <2>3 DEF Answers
  <2>6. QED
    BY <2>1, <2>4, <2>5 DEF n
<1>6. InObject => InObject'
  <2>1. stack # <<>> => Len(stack) \in 1..Len(stack) /\ stack' # <<>>
    BY FrameTypes, Facts, EmptySeq
  <2>2. QED
    BY <1>1, <2>1 DEF InObject, Container, Top
<1>7. QED
  BY <1>2, <1>3, <1>4, <1>5, <1>6 DEF Indexed, MemberHeld

\* A step that assigns comments only.
KeptHeap ==
  /\ Len(heap') = Len(heap)
  /\ \A n \in 1..Len(heap) : /\ heap'[n].kind = heap[n].kind /\ heap'[n].key = heap[n].key
                             /\ heap'[n].children = heap[n].children

LEMMA KeptHeapFacts ==
  ASSUME IInv, Indexed, KeptHeap
  PROVE  SameNodes /\ HeldKids'
<1>1. SameNodes
  BY Facts DEF KeptHeap, SameNodes
<1>2. HeldKids'
  BY DEF KeptHeap, Indexed, HeldKids
<1>3. QED
  BY <1>1, <1>2

LEMMA KeptStackIndexed ==
  ASSUME IInv, Indexed, KeptHeap, UNCHANGED stack,
         pc' \in {"lead", "value"} => pc \in {"lead", "value"},
         pc' = "closed" <=> pc = "closed", pc' # "insert",
         pc \in BeforeKey /\ InObject => pc' \in BeforeKey
  PROVE  Indexed'
<1>1. SameNodes /\ HeldKids'
  BY KeptHeapFacts
<1>2. /\ \A n \in 1..Len(heap) : heap'[n].children = heap[n].children
      /\ \A i \in 1..Len(stack) : SameFrame(stack[i], stack'[i]) /\ stack'[i].key = stack[i].key
  BY DEF KeptHeap, SameFrame
<1>3. QED
  BY <1>1, <1>2, QuietIndexed

LEMMA CommentsKept ==
  ASSUME IInv, heap' \in Seq(Node), NEW i, NEW t,
         \/ UNCHANGED heap
         \/ heap' = [heap EXCEPT ![i].headComment = t]
         \/ heap' = [heap EXCEPT ![i].comment = t]
         \/ heap' = [heap EXCEPT ![i].footComment = t]
         \/ heap' = [heap EXCEPT ![i].trailComment = t]
  PROVE  KeptHeap
<1>1. DOMAIN heap' = DOMAIN heap
  OBVIOUS
<1>2. Len(heap') = Len(heap)
  BY <1>1, Facts, LenProperties
<1>3. ASSUME NEW n \in 1..Len(heap)
      PROVE  /\ heap'[n].kind = heap[n].kind /\ heap'[n].key = heap[n].key
             /\ heap'[n].children = heap[n].children
  <2>1. heap \in Seq(Node)
    BY Facts
  <2>2. CASE UNCHANGED heap
    BY <2>2
  <2>3. CASE heap' = [heap EXCEPT ![i].headComment = t]
    BY <2>1, <2>3, FieldsKept
  <2>4. CASE heap' = [heap EXCEPT ![i].comment = t]
    BY <2>1, <2>4, FieldsKept
  <2>5. CASE heap' = [heap EXCEPT ![i].footComment = t]
    BY <2>1, <2>5, FieldsKept
  <2>6. CASE heap' = [heap EXCEPT ![i].trailComment = t]
    BY <2>1, <2>6, FieldsKept
  <2>7. QED
    BY <2>2, <2>3, <2>4, <2>5, <2>6
<1>4. QED
  BY <1>2, <1>3 DEF KeptHeap

\* Assigning other fields than the index to the innermost frame.
LEMMA SetTopSame ==
  ASSUME IInv, NEW f, SetTop(f),
         stack # <<>> => f \in Frame /\ SameFrame(Top, f) /\ (f.key = Top.key \/ f.key \in Keys)
  PROVE  /\ Len(stack') = Len(stack)
         /\ \A i \in 1..Len(stack) : /\ SameFrame(stack[i], stack'[i])
                                     /\ stack'[i].key = stack[i].key \/ stack'[i].key \in Keys
         /\ stack # <<>> => stack'[Len(stack)] = f
<1>1. Len(stack) \in 1..Len(stack) => stack # <<>>
  BY EmptySeq
<1>2. stack # <<>> => Len(stack) \in 1..Len(stack)
  BY FrameTypes
<1>3. /\ Len(stack') = Len(stack)
      /\ \A j \in 1..Len(stack) : stack'[j] = IF j = Len(stack) THEN f ELSE stack[j]
  BY <1>1, Facts, StackUpdate DEF SetTop
<1>4. QED
  BY <1>1, <1>2, <1>3 DEF SameFrame, Top

LEMMA HoldHeadSame ==
  ASSUME IInv
  PROVE  /\ Len(HoldHead) = Len(stack)
         /\ \A i \in 1..Len(stack) : /\ SameFrame(stack[i], HoldHead[i])
                                     /\ HoldHead[i].key = stack[i].key
<1> DEFINE i == Len(stack)
           f == [stack[i] EXCEPT !.pendingHead = NonBlank(acc)]
<1>1. ASSUME i \in 1..Len(stack) PROVE f \in Frame /\ SameFrame(stack[i], f) /\ f.key = stack[i].key
  <2>1. stack[i] \in Frame
    BY <1>1, Facts, ElementOfSeq
  <2>2. QED
    BY <2>1, Facts, FrameUpdate DEF SameFrame, Frame
<1>2. HoldHead = stack \/ HoldHead = [stack EXCEPT ![i] = f]
  BY DEF HoldHead
<1> HIDE DEF f, i
<1>3. CASE HoldHead = stack
  <2>1. \A j \in 1..Len(stack) : SameFrame(stack[j], stack[j])
    BY DEF SameFrame
  <2>2. QED
    BY <1>3, <2>1
<1>4. CASE HoldHead = [stack EXCEPT ![i] = f]
  <2>1. Len(HoldHead) = Len(stack)
    BY <1>4, Facts
  <2>2. ASSUME NEW j \in 1..Len(stack)
        PROVE  SameFrame(stack[j], HoldHead[j]) /\ HoldHead[j].key = stack[j].key
    <3>1. CASE j = i
      BY <3>1, <2>2, <1>1, <1>4, Facts, StackUpdate
    <3>2. CASE j # i
      <4>1. HoldHead[j] = stack[j]
        BY <3>2, <2>2, <1>4, Facts
      <4>2. QED
        BY <4>1 DEF SameFrame
    <3>3. QED
      BY <3>1, <3>2
  <2>3. QED
    BY <2>1, <2>2
<1>5. QED
  BY <1>2, <1>3, <1>4

-----------------------------------------------------------------------------
(* One lemma per action. *)

LEMMA TokenIndexed ==
  ASSUME IInv, Indexed,
         \/ Scan \/ CollectHeadComments \/ SkipDroppedComments \/ ParseColon
         \/ BeginRoot \/ ConsumeTrailing
  PROVE  Indexed'
<1>1. UNCHANGED <<stack, heap>>
  BY DEF Scan, CollectHeadComments, SkipDroppedComments, ParseColon, BeginRoot, ConsumeTrailing
<1>2. /\ pc' = pc \/ (pc = "colon" /\ pc' = "keyValue") \/ (pc = "lead" /\ pc' = "value")
      /\ pc' # "insert"
  BY DEF Scan, Peeks, CollectHeadComments, SkipDroppedComments, ParseColon, BeginRoot, ConsumeTrailing
<1>3. KeptHeap
  BY <1>1 DEF KeptHeap
<1>4. QED
  BY <1>1, <1>2, <1>3, KeptStackIndexed DEF BeforeKey

\* The steps that assign comments.
LEMMA CommentHeap ==
  ASSUME IInv, heap' \in Seq(Node),
         \/ InlineComment \/ CloseAhead \/ AttachAfterComma \/ ReturnRoot \/ RootInline \/ Finish
         \/ Separator \/ ReturnContainer
  PROVE  KeptHeap
<1>1. CASE InlineComment \/ RootInline \/ ReturnContainer
  BY <1>1, CommentsKept DEF InlineComment, RootInline, ReturnContainer
<1>2. CASE CloseAhead
  <2>1. heap' = [heap EXCEPT ![Top.node].footComment = heap[Top.node].footComment \o NonBlank(acc)]
    BY <1>2 DEF CloseAhead
  <2>2. QED
    BY <2>1, CommentsKept
<1>3. CASE AttachAfterComma
  <2>1. \/ heap' = [heap EXCEPT ![Current].comment = Inline]
        \/ heap' = [heap EXCEPT ![Current].footComment = heap[Current].footComment \o Inline]
    BY <1>3 DEF AttachAfterComma, Attach
  <2>2. QED
    BY <2>1, CommentsKept
<1>4. CASE ReturnRoot
  <2>1. heap' = [heap EXCEPT ![val].headComment = lead \o heap[val].headComment]
    BY <1>4 DEF ReturnRoot
  <2>2. QED
    BY <2>1, CommentsKept
<1>5. CASE Finish
  <2>1. heap' = [heap EXCEPT ![val].trailComment = heap[val].trailComment \o NonBlank(acc)]
    BY <1>5 DEF Finish
  <2>2. QED
    BY <2>1, CommentsKept
<1>6. CASE Separator
  <2>1. heap' = [heap EXCEPT ![Current].footComment = heap[Current].footComment \o NonBlank(acc)]
    BY <1>6 DEF Separator
  <2>2. QED
    BY <2>1, CommentsKept
<1>7. QED
  BY <1>1, <1>2, <1>3, <1>4, <1>5, <1>6

LEMMA CommentIndexed ==
  ASSUME IInv, heap' \in Seq(Node), Indexed,
         InlineComment \/ CloseAhead \/ AttachAfterComma \/ ReturnRoot \/ RootInline \/ Finish
  PROVE  Indexed'
<1>1. UNCHANGED stack
  BY DEF InlineComment, CloseAhead, AttachAfterComma, ReturnRoot, RootInline, Finish
<1>2. /\ pc \in {"inline", "between", "afterComma", "return", "rootInline", "trail"}
      /\ pc' \in {"between", "loop", "rootInline", "trail", "done"}
  BY DEF InlineComment, CloseAhead, AttachAfterComma, ReturnRoot, RootInline, Finish
<1>3. KeptHeap
  BY CommentHeap
<1>4. QED
  BY <1>1, <1>2, <1>3, KeptStackIndexed DEF BeforeKey

LEMMA ErrorIndexed ==
  ASSUME IInv, Indexed, HeldKids', stack' = <<>>, pc' = "error"
  PROVE  Indexed'
<1>1. Len(stack') = 0
  BY EmptySeq
<1>2. QED
  BY <1>1 DEF Indexed, Nested, RootFirst, KeysKnown, MemberHeld, IndexOK

LEMMA ErrorReturnIndexed ==
  ASSUME IInv, Indexed,
         \/ OverNodes \/ TooDeep \/ NotAValue \/ StrictTrailingComma \/ NotAKey \/ NotAColon
         \/ RefuseDuplicate \/ NotASeparator \/ NoRoot \/ ExtraData
  PROVE  Indexed'
<1>1. stack' = <<>> /\ pc' = "error"
  BY DEF OverNodes, TooDeep, NotAValue, StrictTrailingComma, NotAKey, NotAColon,
         RefuseDuplicate, NotASeparator, NoRoot, ExtraData, Fail, Stop
<1>2. UNCHANGED heap
  BY DEF OverNodes, TooDeep, NotAValue, StrictTrailingComma, NotAKey, NotAColon,
         RefuseDuplicate, NotASeparator, NoRoot, ExtraData
<1>3. HeldKids'
  BY <1>2 DEF Indexed, HeldKids
<1>4. QED
  BY <1>1, <1>3, ErrorIndexed

LEMMA SeparatorIndexed == ASSUME IInv, heap' \in Seq(Node), Indexed, Separator PROVE Indexed'
<1> DEFINE f == [Top EXCEPT !.justConsumedComma = TRUE]
<1>1. KeptHeap
  BY CommentHeap
<1>2. SetTop(f) /\ pc = "between" /\ pc' = "afterComma"
  BY DEF Separator
<1>3. stack # <<>> => f \in Frame /\ SameFrame(Top, f) /\ f.key = Top.key
  BY FrameTypes DEF Frame, SameFrame
<1> HIDE DEF f
<1>4. /\ Len(stack') = Len(stack)
      /\ \A i \in 1..Len(stack) : /\ SameFrame(stack[i], stack'[i])
                                  /\ stack'[i].key = stack[i].key \/ stack'[i].key \in Keys
  BY <1>2, <1>3, SetTopSame
<1>5. \A n \in 1..Len(heap) : heap'[n].children = heap[n].children
  BY <1>1 DEF KeptHeap
<1>6. QED
  BY <1>1, <1>2, <1>4, <1>5, KeptHeapFacts, QuietIndexed DEF BeforeKey

LEMMA ParseKeyIndexed == ASSUME IInv, Indexed, ParseKey PROVE Indexed'
<1> DEFINE f == [Top EXCEPT !.pendingHead = NonBlank(acc), !.key = Look.v, !.keyPos = At]
<1>1. stack # <<>> /\ pc = "loop" /\ pc' = "colon" /\ UNCHANGED heap /\ SetTop(f)
  BY DEF ParseKey, InObject
<1>2. KeptHeap
  BY <1>1 DEF KeptHeap
<1>3. At > 0
  <2>1. have
    BY DEF ParseKey, Sees
  <2>2. QED
    BY <2>1, Facts, EmptySeq DEF IInv, HeldToken, At
<1>4. Look.v \in Keys
  BY <1>3, TokenTypes DEF ParseKey, Sees, IInv
<1>5. f \in Frame /\ SameFrame(Top, f) /\ f.key \in Keys
  BY <1>1, <1>4, Facts, FrameTypes DEF Frame, SameFrame
<1> HIDE DEF f
<1>6. /\ Len(stack') = Len(stack)
      /\ \A i \in 1..Len(stack) : /\ SameFrame(stack[i], stack'[i])
                                  /\ stack'[i].key = stack[i].key \/ stack'[i].key \in Keys
      /\ stack'[Len(stack)].key \in Keys
  BY <1>1, <1>5, SetTopSame
<1>7. \A n \in 1..Len(heap) : heap'[n].children = heap[n].children
  BY <1>2 DEF KeptHeap
<1>8. QED
  BY <1>1, <1>2, <1>6, <1>7, KeptHeapFacts, QuietIndexed DEF BeforeKey

\* A step that allocates a node whose children are nil or allocated.
LEMMA GrownHeap ==
  ASSUME IInv, Indexed, NEW node \in Node, heap' = Append(heap, node),
         \A i \in 1..Len(node.children) : node.children[i] \in 0..Len(heap)
  PROVE  /\ Len(heap') = Len(heap) + 1 /\ heap'[Len(heap) + 1] = node
         /\ SameNodes /\ HeldKids'
         /\ \A n \in 1..Len(heap) : heap'[n].children = heap[n].children
<1>1. /\ Len(heap') = Len(heap) + 1 /\ heap'[Len(heap) + 1] = node
      /\ \A n \in 1..Len(heap) : heap'[n] = heap[n]
  BY Facts
<1>2. \A n \in 1..Len(heap') : n \in 1..Len(heap) \/ n = Len(heap) + 1
  BY <1>1, Facts
<1>3. 0..Len(heap) \subseteq 0..Len(heap')
  BY <1>1, Facts
<1>4. HeldKids'
  BY <1>1, <1>2, <1>3 DEF Indexed, HeldKids
<1>5. SameNodes
  BY <1>1, Facts DEF SameNodes
<1>6. QED
  BY <1>1, <1>4, <1>5

LEMMA ParseScalarIndexed == ASSUME IInv, Indexed, ParseScalar PROVE Indexed'
<1> DEFINE node == NewNode("scalar", NoText, At)
<1>1. node \in Node /\ Len(node.children) = 0
  BY Facts, NewNodeType, EmptySeq DEF NewNode
<1>2. heap' = Append(heap, node) /\ stack' = HoldHead /\ pc' \in {"return", "overNodes"}
  BY DEF ParseScalar, BumpNodeCount
<1>3. pc \in {"value", "keyValue"} \/ (pc = "loop" /\ ~InObject)
  BY DEF ParseScalar, ExpectsValue, InArray, InObject
<1> HIDE DEF node
<1>4. /\ SameNodes /\ HeldKids'
      /\ \A n \in 1..Len(heap) : heap'[n].children = heap[n].children
  BY <1>1, <1>2, GrownHeap
<1>5. QED
  BY <1>2, <1>3, <1>4, HoldHeadSame, QuietIndexed DEF BeforeKey

\* Past the first key the innermost object's frame has one.
LEMMA TopKeyKnown ==
  ASSUME IInv, Indexed, InObject, pc \notin BeforeKey
  PROVE  Top.key \in Keys
<1>1. stack # <<>> /\ heap[stack[Len(stack)].node].kind = "object"
  BY DEF InObject, Container, Top
<1>2. Len(stack) \in 1..Len(stack)
  BY <1>1, FrameTypes
<1>3. QED
  BY <1>1, <1>2 DEF Indexed, KeysKnown, Top

LEMMA MakeMemberIndexed == ASSUME IInv, Indexed, MakeMember PROVE Indexed'
<1> DEFINE n == NewNode("member", Top.key, Top.keyPos)
<1>1. stack # <<>> /\ pc = "return" /\ InObject /\ pc' \in {"insert", "overNodes"} /\ UNCHANGED stack
  BY DEF MakeMember, InObject, BumpNodeCount
<1>2. Top.key \in Keys
  BY <1>1, TopKeyKnown DEF BeforeKey
<1>3. Member \in Node /\ Member.key = Top.key /\ Member.children = <<val>>
  <2>1. Top.keyPos \in Nat /\ Top.pendingHead \in Text
    BY <1>1, FrameTypes DEF Frame
  <2>2. n \in Node /\ n.key = Top.key
    BY <1>2, <2>1, NewNodeType DEF NewNode
  <2>3. <<val>> \in Seq(Nat)
    BY Facts
  <2>4. Member = [n EXCEPT !.headComment = Top.pendingHead, !.children = <<val>>]
    BY DEF Member
  <2> HIDE DEF n
  <2>5. QED
    BY <2>1, <2>2, <2>3, <2>4 DEF Node
<1>4. \A i \in 1..Len(Member.children) : Member.children[i] \in 0..Len(heap)
  BY <1>3, Facts
<1>5. heap' = Append(heap, Member) /\ val' = Len(heap) + 1
  BY DEF MakeMember
<1>6. /\ SameNodes /\ HeldKids' /\ heap'[val'] = Member
      /\ \A m \in 1..Len(heap) : heap'[m].children = heap[m].children
  BY <1>3, <1>4, <1>5, GrownHeap
<1>7. \A i \in 1..Len(stack) : SameFrame(stack[i], stack'[i]) /\ stack'[i].key = stack[i].key
  BY <1>1 DEF SameFrame
<1>8. val' # 0 /\ heap'[val'].key \in Keys
  BY <1>2, <1>3, <1>5, <1>6, Facts
<1>9. QED
  BY <1>1, <1>6, <1>7, <1>8, QuietIndexed DEF BeforeKey

-----------------------------------------------------------------------------
(* The containers. *)

\* A step that assigns the children of the node p only, and comments.
OnlyChildren(p, c) ==
  /\ Len(heap') = Len(heap)
  /\ \A n \in 1..Len(heap) :
       /\ heap'[n].kind = heap[n].kind /\ heap'[n].key = heap[n].key
       /\ heap'[n].children = IF n = p THEN c ELSE heap[n].children

LEMMA OnlyChildrenFacts ==
  ASSUME IInv, Indexed, NEW p, NEW c, OnlyChildren(p, c),
         \A i \in 1..Len(c) : c[i] \in 0..Len(heap)
  PROVE  SameNodes /\ HeldKids'
<1>1. SameNodes
  BY Facts DEF OnlyChildren, SameNodes
<1>2. ASSUME NEW n \in 1..Len(heap'), NEW i \in 1..Len(heap'[n].children)
      PROVE  heap'[n].children[i] \in 0..Len(heap')
  <2>1. CASE n = p
    BY <2>1 DEF OnlyChildren
  <2>2. CASE n # p
    BY <2>2 DEF OnlyChildren, Indexed, HeldKids
  <2>3. QED
    BY <2>1, <2>2
<1>3. QED
  BY <1>1, <1>2 DEF HeldKids

LEMMA ChildrenAssigned ==
  ASSUME NEW h \in Seq(Node), NEW p \in 1..Len(h), NEW c \in Seq(Nat), NEW n \in 1..Len(h)
  PROVE  /\ [h EXCEPT ![p].children = c][n].kind = h[n].kind
         /\ [h EXCEPT ![p].children = c][n].key = h[n].key
         /\ [h EXCEPT ![p].children = c][n].children = IF n = p THEN c ELSE h[n].children
<1>1. h[n] \in Node /\ n \in DOMAIN h
  BY ElementOfSeq, LenProperties
<1>2. QED
  BY <1>1 DEF Node

\* What the two other steps do to the children of the innermost container.
LEMMA AppendHeap ==
  ASSUME IInv, Indexed, AppendElement, NEW c, c = Append(Container.children, val)
  PROVE  OnlyChildren(Top.node, c) /\ SameNodes /\ HeldKids'
<1> DEFINE t == heap[val].headComment \o Top.pendingHead
           h == [heap EXCEPT ![val].headComment = t]
<1>1. stack # <<>>
  BY DEF AppendElement, InArray
<1>2. /\ Top \in Frame /\ Top.node \in 1..Len(heap) /\ Top.pendingHead \in Text
      /\ Container \in Node
  BY <1>1, FrameTypes DEF Frame
<1>3. h \in Seq(Node) /\ Len(h) = Len(heap)
  BY <1>2, Facts, HeadUpdate
<1>4. heap' = [h EXCEPT ![Top.node].children = Append(h[Top.node].children, val)]
  BY DEF AppendElement
<1>5. \A n \in 1..Len(heap) : /\ h[n].kind = heap[n].kind /\ h[n].key = heap[n].key
                              /\ h[n].children = heap[n].children
  <2> HIDE DEF t
  <2>1. QED
    BY Facts, FieldsKept
<1> HIDE DEF h, t
<1>6. heap' = [h EXCEPT ![Top.node].children = c]
  BY <1>2, <1>4, <1>5 DEF Container
<1>7. /\ Container.children \in Seq(Nat) /\ val \in Nat
      /\ c \in Seq(Nat) /\ Len(c) = Len(Container.children) + 1
      /\ \A i \in 1..Len(c) : c[i] = IF i = Len(c) THEN val ELSE Container.children[i]
  <2>1. Container.children \in Seq(Nat) /\ val \in Nat
    BY <1>2, Facts DEF Node
  <2>2. QED
    BY <2>1, AppendProperties, LenProperties
<1>8. \A i \in 1..Len(c) : c[i] \in 0..Len(heap)
  <2>1. \A i \in 1..Len(Container.children) : Container.children[i] \in 0..Len(heap)
    BY <1>2 DEF Indexed, HeldKids, Container
  <2>2. Len(Container.children) \in Nat
    BY <1>7, LenProperties
  <2>3. \A i \in 1..Len(c) : i = Len(c) \/ i \in 1..Len(Container.children)
    BY <1>7, <2>2
  <2>4. val \in 0..Len(heap)
    BY Facts
  <2>5. QED
    BY <1>7, <2>1, <2>3, <2>4
<1>9. OnlyChildren(Top.node, c)
  <2>1. Len(heap') = Len(h)
    BY <1>3, <1>6, <1>7, ChildUpdate
  <2>2. QED
    BY <1>2, <1>3, <1>5, <1>6, <1>7, <2>1, ChildrenAssigned DEF OnlyChildren
<1>10. QED
  BY <1>8, <1>9, OnlyChildrenFacts

LEMMA CloseHeap ==
  ASSUME IInv, Indexed, CloseContainer, NEW old, old = Container.children,
         NEW c, c = IF Top.removed > 0 THEN RemoveNil(old) ELSE old
  PROVE  /\ OnlyChildren(Top.node, c) /\ SameNodes /\ HeldKids'
         /\ old \in Seq(Nat) /\ Drawn(old, Len(old), c)
<1> DEFINE n == Top.node
           node == [Container EXCEPT !.children = c, !.footComment = @ \o NonBlank(acc),
                                     !.rawBytes = Span]
<1>1. stack # <<>> /\ heap' = [heap EXCEPT ![n] = node]
  BY DEF CloseContainer, AtClose, SeesClose, InObject, InArray, Container
<1>2. n \in 1..Len(heap) /\ Container \in Node /\ Container = heap[n]
  BY <1>1, FrameTypes DEF Container
<1>3. old \in Seq(Nat) /\ \A i \in 1..Len(old) : old[i] \in 0..Len(heap)
  BY <1>2, NodeFacts DEF Indexed, HeldKids
<1>4. node.children = c /\ node.kind = Container.kind /\ node.key = Container.key
  BY <1>2 DEF Node
<1>5. Drawn(old, Len(old), c)
  <2>1. Drawn(old, Len(old), RemoveNil(old))
    BY <1>3, RemoveNilDrawn
  <2>2. Drawn(old, Len(old), old)
    BY <1>3 DEF Drawn
  <2>3. QED
    BY <2>1, <2>2
<1> HIDE DEF node
<1>6. OnlyChildren(n, c)
  <2>1. DOMAIN heap' = DOMAIN heap
    BY <1>1
  <2>2. Len(heap') = Len(heap) /\ DOMAIN heap = 1..Len(heap)
    BY <2>1, Facts, LenProperties
  <2>3. \A m \in 1..Len(heap) : heap'[m] = IF m = n THEN node ELSE heap[m]
    BY <1>1, <2>2
  <2>4. QED
    BY <1>2, <1>4, <2>2, <2>3 DEF OnlyChildren
<1>7. ASSUME NEW j \in 1..Len(c) PROVE c[j] \in 0..Len(heap)
  <2>1. PICK p \in 1..Len(old) : old[p] = c[j]
    BY <1>5, <1>7 DEF Drawn
  <2>2. QED
    BY <1>3, <2>1
<1>8. QED
  BY <1>3, <1>5, <1>6, <1>7, OnlyChildrenFacts

LEMMA AppendElementIndexed == ASSUME IInv, Indexed, AppendElement PROVE Indexed'
<1> DEFINE f == [Top EXCEPT !.pendingHead = <<>>, !.justConsumedComma = FALSE]
<1>1. /\ stack # <<>> /\ pc = "return" /\ pc' = "inline" /\ SetTop(f)
      /\ Container.kind = "array"
  BY DEF AppendElement, InArray
<1>2. SameFrame(Top, f) /\ f \in Frame /\ f.key = Top.key
  BY <1>1, FrameTypes, EmptySeq DEF Frame, Text, SameFrame
<1> HIDE DEF f
<1>3. PICK c : c = Append(Container.children, val)
  OBVIOUS
<1>4. OnlyChildren(Top.node, c) /\ SameNodes /\ HeldKids'
  BY <1>3, AppendHeap
<1>5. \A n \in 1..Len(heap) : heap[n].kind = "object" => heap'[n].children = heap[n].children
  BY <1>1, <1>4 DEF OnlyChildren, Container
<1>6. /\ Len(stack') = Len(stack)
      /\ \A i \in 1..Len(stack) : /\ SameFrame(stack[i], stack'[i])
                                  /\ stack'[i].key = stack[i].key \/ stack'[i].key \in Keys
  BY <1>1, <1>2, SetTopSame
<1>7. QED
  BY <1>1, <1>4, <1>5, <1>6, QuietIndexed DEF BeforeKey

\* A frame below the innermost one has its key, and its index answers.
LEMMA OuterFrames ==
  ASSUME IInv, Indexed, NEW i \in 1..Len(stack), heap[stack[i].node].kind = "object",
         i < Len(stack) \/ pc \notin BeforeKey
  PROVE  /\ stack[i].key \in Keys
         /\ OneEach(stack[i].node) /\ Answers(stack[i], stack[i].node)
<1>1. ~(i = Len(stack) /\ pc \in BeforeKey)
  BY Facts
<1>2. QED
  BY <1>1 DEF Indexed, KeysKnown, IndexOK, BeforeKey

\* What holds of a frame whose object keeps its children.
LEMMA FrameKept ==
  ASSUME IInv, Indexed, SameNodes, NEW f, NEW g, SameFrame(f, g), f.node \in 1..Len(heap),
         heap'[f.node].children = heap[f.node].children
  PROVE  /\ OneEach(f.node) => OneEach(f.node)'
         /\ Answers(f, f.node) => Answers(g, f.node)'
<1>1. \A k : Hits(f.node, k)' = Hits(f.node, k)
  BY HitsKept DEF Indexed
<1>2. QED
  BY <1>1 DEF OneEach, Answers, SameFrame

LEMMA OpenContainerIndexed == ASSUME IInv, Indexed, OpenContainer PROVE Indexed'
<1> DEFINE node == NewNode(IF Look.k = "{" THEN "object" ELSE "array", NoText, At)
           f == NewFrame(Len(heap) + 1)
           last == Len(stack) + 1
<1>1. node \in Node /\ Len(node.children) = 0
  BY Facts, NewNodeType, EmptySeq DEF NewNode
<1>2. f \in Frame /\ f.node = Len(heap) + 1 /\ ~f.indexed
  BY Facts, NewFrameType DEF NewFrame
<1>3. /\ heap' = Append(heap, node) /\ stack' = Append(HoldHead, f)
      /\ pc' \in {"loop", "overNodes"}
  BY DEF OpenContainer, BumpNodeCount
<1>4. pc \in {"value", "keyValue"} \/ (pc = "loop" /\ InArray)
  BY DEF OpenContainer, ExpectsValue
<1> HIDE DEF node, f
<1>5. /\ Len(heap') = Len(heap) + 1 /\ heap'[Len(heap) + 1] = node
      /\ SameNodes /\ HeldKids'
      /\ \A n \in 1..Len(heap) : heap'[n].children = heap[n].children
  BY <1>1, <1>3, GrownHeap
<1>6. /\ Len(stack') = last /\ stack'[last] = f
      /\ \A i \in 1..Len(stack) : SameFrame(stack[i], stack'[i]) /\ stack'[i].key = stack[i].key
  <2>1. HoldHead \in Seq(Frame)
    BY HoldHeadType
  <2>2. /\ Len(stack') = last /\ stack'[last] = f
        /\ \A i \in 1..Len(stack) : stack'[i] = HoldHead[i]
    BY <1>2, <1>3, <2>1, HoldHeadSame, Facts, AppendProperties
  <2>3. QED
    BY <2>2, HoldHeadSame
<1>7. \A i \in 1..last : i = last \/ (i \in 1..Len(stack) /\ i < last)
  BY Facts
<1>8. \A i \in 1..Len(stack) :
        /\ stack[i].node \in 1..Len(heap) /\ stack'[i].node = stack[i].node
        /\ heap'[stack[i].node].kind = heap[stack[i].node].kind
  BY <1>5, <1>6 DEF IInv, FramesOK, SameNodes, SameFrame
<1>9. Nested'
  <2> SUFFICES ASSUME NEW i \in 1..last, NEW j \in 1..last, i < j
               PROVE  stack'[i].node < stack'[j].node
    BY <1>6 DEF Nested
  <2>1. i \in 1..Len(stack)
    BY <1>7, Facts
  <2>2. CASE j = last
    BY <1>2, <1>6, <1>8, <2>1, <2>2, Facts
  <2>3. CASE j \in 1..Len(stack)
    BY <1>8, <2>1, <2>3 DEF Indexed, Nested
  <2>4. QED
    BY <1>7, <2>2, <2>3
<1>10. ASSUME NEW i \in 1..Len(stack), heap[stack[i].node].kind = "object"
       PROVE  stack[i].key \in Keys /\ OneEach(stack[i].node) /\ Answers(stack[i], stack[i].node)
  <2>1. i < Len(stack) \/ pc \notin BeforeKey
    <3>1. pc = "loop" => heap[stack[Len(stack)].node].kind = "array"
      BY <1>4 DEF InArray, Container, Top
    <3>2. pc = "loop" => i # Len(stack)
      BY <1>10, <3>1
    <3>3. QED
      BY <1>4, <3>2, Facts DEF BeforeKey
  <2>2. QED
    BY <1>10, <2>1, OuterFrames
<1>11. KeysKnown'
  <2> SUFFICES ASSUME NEW i \in 1..last, heap'[stack'[i].node].kind = "object"
               PROVE  stack'[i].key \in Keys \/ (i = last /\ pc' \in BeforeKey)
    BY <1>6 DEF KeysKnown
  <2>1. QED
    BY <1>3, <1>6, <1>7, <1>8, <1>10 DEF BeforeKey
<1>12. IndexOK'
  <2> SUFFICES ASSUME NEW i \in 1..last, heap'[stack'[i].node].kind = "object"
               PROVE  OneEach(stack[i].node)' /\ Answers(stack[i], stack[i].node)'
    BY <1>6 DEF IndexOK
  <2>1. CASE i = last
    <3>1. stack'[i].node = Len(heap) + 1 /\ heap'[stack'[i].node] = node /\ ~stack'[i].indexed
      BY <1>2, <1>5, <1>6, <2>1
    <3>2. node.children = <<>>
      BY DEF node, NewNode
    <3>3. \A k : Hits(stack[i].node, k)' = {}
      BY <3>1, <3>2 DEF Hits, PlacesOf
    <3>4. QED
      BY <3>1, <3>3 DEF OneEach, Answers
  <2>2. CASE i \in 1..Len(stack)
    <3>1. heap[stack[i].node].kind = "object" /\ stack'[i].node = stack[i].node
      BY <1>8, <2>2
    <3>2. OneEach(stack[i].node) /\ Answers(stack[i], stack[i].node)
      BY <1>10, <2>2, <3>1
    <3>3. /\ SameFrame(stack[i], stack'[i]) /\ stack[i].node \in 1..Len(heap)
          /\ heap'[stack[i].node].children = heap[stack[i].node].children
      BY <1>5, <1>6, <1>8, <2>2
    <3>4. QED
      BY <1>5, <3>1, <3>2, <3>3, FrameKept
  <2>3. QED
    BY <1>7, <2>1, <2>2
<1>13. RootFirst' /\ MemberHeld'
  BY <1>3 DEF RootFirst, MemberHeld
<1>14. QED
  BY <1>5, <1>9, <1>11, <1>12, <1>13 DEF Indexed

LEMMA ReturnContainerIndexed ==
  ASSUME IInv, heap' \in Seq(Node), Indexed, ReturnContainer PROVE Indexed'
<1>1. pc = "closed" /\ stack # <<>> /\ pc' = "return" /\ stack' = Front(stack)
  BY DEF ReturnContainer, IInv, InsideContainer
<1>2. KeptHeap
  BY CommentHeap
<1>3. SameNodes /\ HeldKids' /\ \A n \in 1..Len(heap) : heap'[n].children = heap[n].children
  BY <1>2, KeptHeapFacts DEF KeptHeap
<1>4. Len(stack') = Len(stack) - 1 /\ \A i \in 1..Len(stack') : stack'[i] = stack[i]
  BY <1>1, Facts, FrontType
<1>5. \A i \in 1..Len(stack') : i \in 1..Len(stack) /\ i < Len(stack)
  BY <1>4, Facts
<1>6. \A i \in 1..Len(stack') :
        /\ stack[i].node \in 1..Len(heap) /\ stack'[i] = stack[i]
        /\ heap'[stack[i].node].kind = heap[stack[i].node].kind
  BY <1>3, <1>4, <1>5 DEF IInv, FramesOK, SameNodes
<1>7. Nested'
  BY <1>5, <1>6 DEF Indexed, Nested
<1>8. KeysKnown'
  BY <1>5, <1>6, OuterFrames DEF KeysKnown
<1>9. IndexOK'
  <2> SUFFICES ASSUME NEW i \in 1..Len(stack'), heap'[stack'[i].node].kind = "object"
               PROVE  OneEach(stack[i].node)' /\ Answers(stack[i], stack[i].node)'
    BY DEF IndexOK
  <2>1. /\ i \in 1..Len(stack) /\ i < Len(stack) /\ stack'[i] = stack[i]
        /\ stack[i].node \in 1..Len(heap) /\ heap[stack[i].node].kind = "object"
    BY <1>5, <1>6
  <2>2. OneEach(stack[i].node) /\ Answers(stack[i], stack[i].node)
    BY <2>1, OuterFrames
  <2>3. SameFrame(stack[i], stack'[i]) /\ heap'[stack[i].node].children = heap[stack[i].node].children
    BY <1>3, <2>1 DEF SameFrame
  <2>4. QED
    BY <1>3, <2>1, <2>2, <2>3, FrameKept
<1>10. QED
  BY <1>1, <1>3, <1>7, <1>8, <1>9 DEF Indexed, RootFirst, MemberHeld

\* The nil children go and every key still has at most one member.
LEMMA CloseContainerIndexed ==
  ASSUME IInv, heap' \in Seq(Node), Indexed, CloseContainer PROVE Indexed'
<1> DEFINE n == Top.node
           last == Len(stack)
<1>1. /\ stack # <<>> /\ pc = "loop" /\ pc' = "closed" /\ UNCHANGED stack
  BY DEF CloseContainer, AtClose, SeesClose, InObject, InArray
<1>2. n \in 1..Len(heap) /\ Container = heap[n] /\ last \in 1..last
  BY <1>1, FrameTypes DEF Container
<1>3. PICK old : old = Container.children
  OBVIOUS
<1>4. PICK c : c = IF Top.removed > 0 THEN RemoveNil(old) ELSE old
  OBVIOUS
<1>5. /\ OnlyChildren(n, c) /\ SameNodes /\ HeldKids'
      /\ old \in Seq(Nat) /\ Drawn(old, Len(old), c)
  BY <1>3, <1>4, CloseHeap
<1>6. /\ Len(old) \in Nat /\ DOMAIN old = 1..Len(old)
      /\ \A i \in 1..Len(old) : old[i] \in 0..Len(heap)
  BY <1>2, <1>3, NodeFacts DEF Indexed, HeldKids
<1>7. /\ c \in Seq(Nat) /\ DOMAIN c = 1..Len(c) /\ Len(c) \in Nat
      /\ \A j \in 1..Len(c) : \E p \in 1..Len(old) : old[p] = c[j]
      /\ \A j, k \in 1..Len(c) : j # k => \E p, q \in 1..Len(old) : p # q /\ old[p] = c[j] /\ old[q] = c[k]
  <2>1. /\ c \in Seq(Nat) /\ DOMAIN c = 1..Len(c) /\ Len(c) \in Nat
        /\ \A j \in 1..Len(c) : \E p \in 1..Len(old) : old[p] = c[j]
        /\ \A j, k \in 1..Len(c) : j < k => \E p, q \in 1..Len(old) : p < q /\ old[p] = c[j] /\ old[q] = c[k]
    BY <1>5, LenProperties DEF Drawn
  <2>2. /\ \A p, q \in 1..Len(old) : p < q => p # q
        /\ \A j, k \in 1..Len(c) : j # k => j < k \/ k < j
    BY <1>6, <2>1
  <2>3. QED
    BY <2>1, <2>2
<1>8. \A i \in 1..Len(stack) :
        /\ stack[i].node \in 1..Len(heap)
        /\ heap'[stack[i].node].kind = heap[stack[i].node].kind
  BY <1>5 DEF IInv, FramesOK, SameNodes
<1>9. Nested' /\ RootFirst' /\ MemberHeld'
  BY <1>1 DEF Indexed, Nested, RootFirst, MemberHeld
<1>10. KeysKnown'
  BY <1>1, <1>8 DEF Indexed, KeysKnown, BeforeKey
<1>11. ASSUME Container.kind = "object" PROVE OneEach(n)'
  <2>1. OneEach(n)
    BY <1>1, <1>2, <1>11 DEF Indexed, IndexOK, Top
  <2>2. heap'[n].children = c /\ heap[n].children = old
    BY <1>2, <1>3, <1>5 DEF OnlyChildren
  <2>3. \A i \in DOMAIN c : c[i] # 0 => heap'[c[i]].key = heap[c[i]].key
    <3>1. \A i \in DOMAIN c : c[i] # 0 => c[i] \in 1..Len(heap)
      <4>1. \A x \in 0..Len(heap) : x # 0 => x \in 1..Len(heap)
        BY Facts
      <4>2. QED
        BY <1>6, <1>7, <4>1
    <3>2. QED
      BY <1>5, <3>1 DEF SameNodes
  <2>4. Top' = Top
    BY <1>1 DEF Top
  <2> SUFFICES ASSUME NEW k \in Keys, NEW i \in Hits(n, k)', NEW j \in Hits(n, k)', i # j
               PROVE  FALSE
    BY DEF OneEach
  <2>5. /\ i \in 1..Len(c) /\ c[i] # 0 /\ heap'[c[i]].key = k
        /\ j \in 1..Len(c) /\ c[j] # 0 /\ heap'[c[j]].key = k
    BY <1>7, <2>2, <2>4 DEF Hits, PlacesOf
  <2>6. PICK p \in 1..Len(old), q \in 1..Len(old) : p # q /\ old[p] = c[i] /\ old[q] = c[j]
    BY <1>7, <2>5
  <2>7. p \in Hits(n, k) /\ q \in Hits(n, k)
    <3>1. i \in DOMAIN c /\ j \in DOMAIN c /\ DOMAIN old = 1..Len(old)
      BY <1>6, <1>7, <2>5
    <3>2. heap[c[i]].key = k /\ heap[c[j]].key = k
      BY <2>3, <2>5, <3>1
    <3>3. /\ old[p] # 0 /\ heap[old[p]].key = k /\ p \in DOMAIN old
          /\ old[q] # 0 /\ heap[old[q]].key = k /\ q \in DOMAIN old
      BY <2>5, <2>6, <3>1, <3>2
    <3> HIDE DEF n
    <3>4. QED
      BY <2>2, <3>3 DEF Hits, PlacesOf
  <2>8. QED
    BY <2>1, <2>6, <2>7 DEF OneEach
<1>12. IndexOK'
  <2> SUFFICES ASSUME NEW i \in 1..Len(stack), heap'[stack[i].node].kind = "object"
               PROVE  /\ OneEach(stack[i].node)'
                      /\ i = Len(stack) \/ Answers(stack[i], stack[i].node)'
    BY <1>1 DEF IndexOK
  <2>1. CASE i = Len(stack)
    <3>1. n = stack[i].node /\ Container.kind = "object"
      BY <1>2, <1>8, <2>1 DEF Top
    <3>2. OneEach(n)'
      BY <1>11, <3>1
    <3>3. stack'[i].node = stack[i].node /\ Top' = stack'[i]
      BY <1>1, <2>1 DEF Top
    <3>4. QED
      BY <2>1, <3>1, <3>2, <3>3 DEF Top
  <2>2. CASE i # Len(stack)
    <3>1. i < Len(stack) /\ stack'[i] = stack[i] /\ heap[stack[i].node].kind = "object"
      BY <1>1, <1>8, <2>2, Facts
    <3>2. OneEach(stack[i].node) /\ Answers(stack[i], stack[i].node)
      BY <3>1, OuterFrames
    <3>3. stack[i].node # n
      <4>1. stack[i].node < stack[Len(stack)].node
        BY <1>2, <3>1 DEF Indexed, Nested
      <4>2. QED
        BY <1>2, <1>8, <4>1 DEF Top
    <3>4. SameFrame(stack[i], stack'[i]) /\ heap'[stack[i].node].children = heap[stack[i].node].children
      BY <1>5, <1>8, <3>1, <3>3 DEF SameFrame, OnlyChildren
    <3>5. QED
      BY <1>5, <1>8, <3>1, <3>2, <3>4, FrameKept
  <2>3. QED
    BY <2>1, <2>2
<1>13. QED
  BY <1>5, <1>9, <1>10, <1>12 DEF Indexed

-----------------------------------------------------------------------------
(* Inserting a member. *)

LEMMA OnlyOne ==
  ASSUME NEW S, S \subseteq Nat, \A i, j \in S : i = j
  PROVE  /\ IF S = {} THEN FirstOf(S) = 0 ELSE FirstOf(S) \in S
         /\ IF S = {} THEN LastOf(S) = 0 ELSE LastOf(S) \in S
<1>1. CASE S = {}
  BY <1>1 DEF FirstOf, LastOf
<1>2. CASE S # {}
  <2>1. PICK x \in S : TRUE
    BY <1>2
  <2>2. \A j \in S : x <= j /\ j <= x
    BY <2>1
  <2>3. (\E i \in S : \A j \in S : i <= j) /\ (\E i \in S : \A j \in S : j <= i)
    BY <2>1, <2>2
  <2>4. (CHOOSE i \in S : \A j \in S : i <= j) \in S
    BY <2>3, Zenon
  <2>5. (CHOOSE i \in S : \A j \in S : j <= i) \in S
    BY <2>3, Zenon
  <2>6. QED
    BY <1>2, <2>3, <2>4, <2>5 DEF FirstOf, LastOf
<1>3. QED
  BY <1>1, <1>2

\* What a search of the children finds, indexed or not.
LEMMA DuplicateFound ==
  ASSUME IInv, Indexed, pc = "insert"
  PROVE  /\ heap[val].key \in Keys /\ Top.node \in 1..Len(heap)
         /\ IF Hits(Top.node, heap[val].key) = {} THEN Duplicate = 0
            ELSE Duplicate \in Hits(Top.node, heap[val].key)
<1> DEFINE k == heap[val].key
           H == Hits(Top.node, k)
<1>1. k \in Keys /\ InObject
  BY DEF Indexed, MemberHeld
<1>2. stack # <<>> /\ heap[Top.node].kind = "object"
  BY <1>1 DEF InObject, Container
<1>3. Len(stack) \in 1..Len(stack) /\ Top.node \in 1..Len(heap)
  BY <1>2, FrameTypes
<1>4. OneEach(Top.node) /\ Answers(Top, Top.node)
  BY <1>2, <1>3, OuterFrames DEF BeforeKey, Top
<1>5. Duplicate = IF Top.indexed THEN Top.byKey[k] ELSE FirstOf(H)
  BY DEF Duplicate, Find, Hits, Container
<1> HIDE DEF H, k
<1>6. CASE Top.indexed
  BY <1>1, <1>3, <1>4, <1>5, <1>6 DEF Answers, H, k
<1>7. CASE ~Top.indexed
  <2>1. H \subseteq Nat
    BY <1>3, NodeFacts DEF H, Hits, PlacesOf
  <2>2. \A i, j \in H : i = j
    BY <1>1, <1>4 DEF OneEach, H
  <2>3. Duplicate = FirstOf(H)
    BY <1>5, <1>7
  <2>4. IF H = {} THEN FirstOf(H) = 0 ELSE FirstOf(H) \in H
    BY <2>1, <2>2, OnlyOne
  <2>5. QED
    BY <1>1, <1>3, <2>3, <2>4 DEF H, k
<1>8. QED
  BY <1>6, <1>7

\* The children after the insertion, and where its keys are.
LEMMA InsertedPlaces ==
  ASSUME IInv, Indexed, pc = "insert", NEW c, c = Superseding(Container.children, Duplicate)
  PROVE  /\ c \in Seq(Nat) /\ Len(c) \in Nat
         /\ \A j \in 1..Len(c) : c[j] \in 0..Len(heap)
         /\ \A k \in Keys : PlacesOf(c, k) =
              IF k = heap[val].key THEN {Len(c)} ELSE Hits(Top.node, k)
<1> DEFINE old == Container.children
           key == heap[val].key
           i == Duplicate
           kept == IF i = 0 THEN old ELSE [old EXCEPT ![i] = 0]
           last == Len(old) + 1
<1>1. /\ key \in Keys /\ Top.node \in 1..Len(heap)
      /\ IF Hits(Top.node, key) = {} THEN i = 0 ELSE i \in Hits(Top.node, key)
  BY DuplicateFound
<1>2. OneEach(Top.node) /\ heap[Top.node].children = old
  <2>1. stack # <<>> /\ heap[Top.node].kind = "object"
    BY DEF Indexed, MemberHeld, InObject, Container
  <2>2. Len(stack) \in 1..Len(stack)
    BY <2>1, FrameTypes
  <2>3. QED
    BY <2>1, <2>2 DEF Indexed, IndexOK, Top, Container
<1>3. /\ old \in Seq(Nat) /\ Len(old) \in Nat /\ DOMAIN old = 1..Len(old)
      /\ \A j \in 1..Len(old) : old[j] \in 0..Len(heap)
  BY <1>1, <1>2, NodeFacts DEF Indexed, HeldKids
<1>4. val \in 1..Len(heap)
  BY Facts DEF Indexed, MemberHeld
<1> HIDE DEF i, old
<1>5. /\ kept \in Seq(Nat) /\ Len(kept) = Len(old)
      /\ \A j \in 1..Len(old) : kept[j] = IF j = i THEN 0 ELSE old[j]
  <2>1. CASE i = 0
    BY <1>3, <2>1
  <2>2. CASE i # 0
    <3>1. i \in 1..Len(old)
      BY <1>1, <1>2, <1>3, <2>2 DEF Hits, PlacesOf
    <3>2. QED
      BY <1>3, <2>2, <3>1, ExceptSeq
  <2>3. QED
    BY <2>1, <2>2
<1>6. c = Append(kept, val)
  BY DEF Superseding, i, old
<1> HIDE DEF kept
<1>7. /\ c \in Seq(Nat) /\ Len(c) = last /\ c[last] = val /\ DOMAIN c = 1..last
      /\ \A j \in 1..Len(old) : c[j] = IF j = i THEN 0 ELSE old[j]
  <2>1. val \in Nat
    BY <1>4, Facts
  <2>2. QED
    BY <1>3, <1>5, <1>6, <2>1, AppendProperties, LenProperties
<1>8. \A j \in 1..last : j = last \/ j \in 1..Len(old)
  BY <1>3
<1>9. \A j \in 1..Len(c) : c[j] \in 0..Len(heap)
  <2> SUFFICES ASSUME NEW j \in 1..last PROVE c[j] \in 0..Len(heap)
    BY <1>7
  <2>1. CASE j = last
    BY <1>4, <1>7, <2>1
  <2>2. CASE j \in 1..Len(old)
    <3>1. old[j] \in 0..Len(heap) /\ 0 \in 0..Len(heap)
      BY <1>3, <2>2, Facts
    <3>2. QED
      BY <1>7, <2>2, <3>1
  <2>3. QED
    BY <1>8, <2>1, <2>2
<1>10. ASSUME NEW k \in Keys
       PROVE  PlacesOf(c, k) = IF k = key THEN {last} ELSE Hits(Top.node, k)
  <2> DEFINE H == Hits(Top.node, k)
  <2>1. \A j : j \in H <=> j \in 1..Len(old) /\ old[j] # 0 /\ heap[old[j]].key = k
    BY <1>2, <1>3 DEF Hits, PlacesOf
  <2>2. \A j : j \in PlacesOf(c, k) <=> j \in 1..last /\ c[j] # 0 /\ heap[c[j]].key = k
    BY <1>7 DEF PlacesOf
  <2>3. last \in PlacesOf(c, k) <=> k = key
    <3>1. last \in 1..last /\ val # 0
      BY <1>3, <1>4
    <3>2. QED
      BY <1>7, <2>2, <3>1
  <2>4. ASSUME NEW j \in 1..Len(old) PROVE j \in PlacesOf(c, k) <=> j \in H /\ j # i
    <3>1. j \in 1..last
      BY <1>3
    <3>2. c[j] = IF j = i THEN 0 ELSE old[j]
      BY <1>7
    <3> HIDE DEF H
    <3>3. QED
      BY <2>1, <2>2, <3>1, <3>2
  <2>5. k = key => \A j \in H : j = i
    BY <1>1, <1>2 DEF OneEach
  <2>6. k # key => \A j \in H : j # i
    <3>1. i # 0 => heap[old[i]].key = key
      BY <1>1, <1>2 DEF Hits, PlacesOf
    <3>2. \A j \in H : j # 0
      BY <1>3, <2>1
    <3> HIDE DEF H
    <3>3. QED
      BY <2>1, <3>1, <3>2
  <2>7. \A j \in PlacesOf(c, k) : j = last \/ j \in 1..Len(old)
    BY <1>8, <2>2
  <2>8. \A j \in H : j \in 1..Len(old) /\ j # last
    BY <1>3, <2>1
  <2> HIDE DEF H
  <2>9. CASE k = key
    <3>1. \A j : j \in PlacesOf(c, k) <=> j = last
      BY <2>3, <2>4, <2>5, <2>7, <2>9
    <3>2. QED
      BY <2>9, <3>1
  <2>10. CASE k # key
    <3>1. \A j : j \in PlacesOf(c, k) <=> j \in H
      BY <2>3, <2>4, <2>6, <2>7, <2>8, <2>10
    <3>2. QED
      BY <2>10, <3>1 DEF H
  <2>11. QED
    BY <2>9, <2>10
<1>11. Len(c) = last /\ last \in Nat
  BY <1>3, <1>7
<1> HIDE DEF last
<1>12. \A k \in Keys : PlacesOf(c, k) = IF k = key THEN {Len(c)} ELSE Hits(Top.node, k)
  BY <1>10, <1>11
<1>13. QED
  BY <1>7, <1>9, <1>11, <1>12

LEMMA AddToIndexAnswers ==
  ASSUME NEW c \in Seq(Nat), NEW f \in Frame, NEW g, g = AddToIndex(c, f), heap[val].key \in Keys
  PROVE  /\ g.node = f.node /\ g.key = f.key
         /\ g.indexed => \A k \in Keys :
              g.byKey[k] = IF ~f.indexed THEN LastOf(PlacesOf(c, k))
                           ELSE IF k = heap[val].key THEN Len(c) ELSE f.byKey[k]
<1> DEFINE key == heap[val].key
           m == [k \in Keys |-> LastOf(PlacesOf(c, k))]
<1>1. CASE f.indexed
  <2>1. g = [f EXCEPT !.byKey = [f.byKey EXCEPT ![key] = Len(c)]]
    BY <1>1 DEF AddToIndex, Frame
  <2>2. f.byKey \in [Keys -> Nat]
    BY DEF Frame
  <2> DEFINE b == [f.byKey EXCEPT ![key] = Len(c)]
  <2>3. \A k \in Keys : b[k] = IF k = key THEN Len(c) ELSE f.byKey[k]
    BY <2>2
  <2> HIDE DEF b, key
  <2>4. g.node = f.node /\ g.key = f.key /\ g.byKey = b
    BY <2>1 DEF Frame, b
  <2>5. QED
    BY <1>1, <2>3, <2>4 DEF key
<1>2. CASE ~f.indexed
  <2>1. \A k \in Keys : m[k] = LastOf(PlacesOf(c, k))
    OBVIOUS
  <2>2. g = f \/ g = [f EXCEPT !.indexed = TRUE, !.byKey = m]
    BY <1>2 DEF AddToIndex
  <2> HIDE DEF m
  <2>3. g.node = f.node /\ g.key = f.key /\ (g.indexed => g.byKey = m)
    BY <1>2, <2>2 DEF Frame
  <2>4. QED
    BY <1>2, <2>1, <2>3
<1>3. QED
  BY <1>1, <1>2

\* What the insertion does to the heap.
LEMMA InsertHeap ==
  ASSUME IInv, Indexed, InsertMember, NEW c, c = Superseding(Container.children, Duplicate)
  PROVE  OnlyChildren(Top.node, c) /\ SameNodes /\ HeldKids'
<1>1. pc = "insert" /\ heap' = [heap EXCEPT ![Top.node].children = c]
  BY DEF InsertMember
<1>2. Top.node \in 1..Len(heap)
  BY <1>1, DuplicateFound
<1>3. c \in Seq(Nat) /\ \A j \in 1..Len(c) : c[j] \in 0..Len(heap)
  BY <1>1, InsertedPlaces
<1>4. OnlyChildren(Top.node, c)
  <2>1. Len(heap') = Len(heap)
    BY <1>1, <1>3, Facts, ChildUpdate
  <2>2. QED
    BY <1>1, <1>2, <1>3, <2>1, Facts, ChildrenAssigned DEF OnlyChildren
<1>5. QED
  BY <1>3, <1>4, OnlyChildrenFacts

\* The object's keys after the insertion.
LEMMA InsertedHits ==
  ASSUME IInv, Indexed, InsertMember, NEW c, c = Superseding(Container.children, Duplicate),
         NEW n, n = Top.node, NEW k \in Keys
  PROVE  Hits(n, k)' = IF k = heap[val].key THEN {Len(c)} ELSE Hits(n, k)
<1>1. pc = "insert"
  BY DEF InsertMember
<1>2. c \in Seq(Nat) /\ \A j \in 1..Len(c) : c[j] \in 0..Len(heap)
  BY <1>1, InsertedPlaces
<1>3. n \in 1..Len(heap) /\ SameNodes /\ heap'[n].children = c
  BY <1>1, DuplicateFound, InsertHeap DEF OnlyChildren
<1>4. DOMAIN c = 1..Len(c)
  BY <1>2, LenProperties
<1>5. \A j \in DOMAIN c : c[j] # 0 => heap'[c[j]].key = heap[c[j]].key
  <2>1. \A j \in DOMAIN c : c[j] # 0 => c[j] \in 1..Len(heap)
    BY <1>2, <1>4, Facts
  <2>2. QED
    BY <1>3, <2>1 DEF SameNodes
<1>6. Hits(n, k)' = PlacesOf(c, k)
  BY <1>3, <1>5 DEF Hits, PlacesOf
<1>7. QED
  BY <1>1, <1>6, InsertedPlaces

LEMMA InsertMemberIndexed == ASSUME IInv, Indexed, InsertMember PROVE Indexed'
<1> DEFINE i == Duplicate
           c == Superseding(Container.children, i)
           f == [Top EXCEPT !.removed = IF i = 0 THEN @ ELSE @ + 1,
                            !.pendingHead = <<>>, !.justConsumedComma = FALSE]
           last == Len(stack)
<1>1. pc = "insert" /\ InObject /\ stack # <<>> /\ Container.kind = "object"
  BY DEF InsertMember, Indexed, MemberHeld, InObject
<1>2. /\ last \in 1..last /\ Top \in Frame /\ Top.node \in 1..Len(heap)
      /\ heap[val].key \in Keys /\ Top.key \in Keys
  BY <1>1, FrameTypes, DuplicateFound, TopKeyKnown DEF BeforeKey
<1>3. /\ f \in Frame /\ f.node = Top.node /\ f.key = Top.key
      /\ f.indexed = Top.indexed /\ f.byKey = Top.byKey
  <2>1. Top.removed \in Nat /\ Top.removed + 1 \in Nat
    BY <1>2 DEF Frame
  <2> HIDE DEF i
  <2>2. QED
    BY <1>2, <2>1, EmptySeq DEF Frame, Text
<1>4. c \in Seq(Nat) /\ Len(c) \in Nat
  BY <1>1, InsertedPlaces
<1>5. OnlyChildren(Top.node, c) /\ SameNodes /\ HeldKids'
  BY InsertHeap
<1>6. \/ stack' = <<>> /\ pc' = "error"
      \/ SetTop(AddToIndex(c, f)) /\ pc' = "inline"
  BY DEF InsertMember, Fail, Stop
<1> HIDE DEF f
<1>7. PICK g : g = AddToIndex(c, f)
  OBVIOUS
<1>8. /\ g \in Frame /\ g.node = Top.node /\ g.key = Top.key
      /\ g.indexed => \A k \in Keys :
           g.byKey[k] = IF ~Top.indexed THEN LastOf(PlacesOf(c, k))
                        ELSE IF k = heap[val].key THEN Len(c) ELSE Top.byKey[k]
  <2> HIDE DEF c
  <2>1. /\ g.node = f.node /\ g.key = f.key
        /\ g.indexed => \A k \in Keys :
             g.byKey[k] = IF ~f.indexed THEN LastOf(PlacesOf(c, k))
                          ELSE IF k = heap[val].key THEN Len(c) ELSE f.byKey[k]
    BY <1>2, <1>3, <1>4, <1>7, AddToIndexAnswers
  <2>2. g \in Frame
    BY <1>3, <1>4, <1>7, AddToIndexType
  <2>3. QED
    BY <1>3, <2>1, <2>2
<1>9. CASE stack' = <<>> /\ pc' = "error"
  BY <1>5, <1>9, ErrorIndexed
<1>10. CASE SetTop(g) /\ pc' = "inline"
  <2>1. /\ Len(stack') = last
        /\ \A j \in 1..last : stack'[j] = IF j = last THEN g ELSE stack[j]
    BY <1>8, <1>10, Facts, StackUpdate DEF SetTop
  <2>2. \A j \in 1..last :
          /\ stack[j].node \in 1..Len(heap) /\ stack'[j].node = stack[j].node
          /\ stack'[j].key = stack[j].key
          /\ heap'[stack[j].node].kind = heap[stack[j].node].kind
    BY <1>5, <1>8, <2>1 DEF IInv, FramesOK, SameNodes, Top
  <2>3. Nested' /\ RootFirst' /\ MemberHeld'
    BY <1>10, <2>1, <2>2 DEF Indexed, Nested, RootFirst, MemberHeld
  <2>4. KeysKnown'
    BY <1>1, <2>1, <2>2 DEF Indexed, KeysKnown, BeforeKey
  <2>5. PICK n \in 1..Len(heap) : n = Top.node
    BY <1>2
  <2>6. OneEach(n) /\ Answers(Top, n)
    BY <1>1, <1>2, <2>5, OuterFrames DEF Top, Container, BeforeKey
  <2>7. \A k \in Keys : Hits(n, k)' = IF k = heap[val].key THEN {Len(c)} ELSE Hits(n, k)
    BY <2>5, InsertedHits
  <2>8. \A k \in Keys : Hits(n, k)' = PlacesOf(c, k)
    BY <1>1, <2>5, <2>7, InsertedPlaces
  <2> HIDE DEF c
  <2>9. OneEach(n)'
    BY <2>6, <2>7 DEF OneEach
  <2>10. Answers(g, n)'
    <3> SUFFICES ASSUME g.indexed, NEW k \in Keys
                 PROVE  IF Hits(n, k)' = {} THEN g.byKey[k] = 0 ELSE g.byKey[k] \in Hits(n, k)'
      BY DEF Answers
    <3>1. CASE Top.indexed
      BY <1>8, <2>6, <2>7, <3>1 DEF Answers
    <3>2. CASE ~Top.indexed
      <4>1. g.byKey[k] = LastOf(PlacesOf(c, k))
        BY <1>8, <3>2
      <4>2. \A x, y \in PlacesOf(c, k) : x = y
        BY <2>8, <2>9 DEF OneEach
      <4>3. PlacesOf(c, k) \subseteq Nat
        BY <1>4, LenProperties DEF PlacesOf
      <4>4. QED
        BY <2>8, <4>1, <4>2, <4>3, OnlyOne
    <3>3. QED
      BY <3>1, <3>2
  <2>11. IndexOK'
    <3> SUFFICES ASSUME NEW j \in 1..last, heap'[stack'[j].node].kind = "object"
                 PROVE  OneEach(stack[j].node)' /\ Answers(stack[j], stack[j].node)'
      BY <2>1 DEF IndexOK
    <3>1. CASE j = last
      BY <2>1, <2>2, <2>5, <2>9, <2>10, <3>1 DEF Top
    <3>2. CASE j # last
      <4>1. /\ j < Len(stack) /\ stack'[j] = stack[j] /\ heap[stack[j].node].kind = "object"
            /\ stack[j].node \in 1..Len(heap)
        BY <2>1, <2>2, <3>2, Facts
      <4>2. OneEach(stack[j].node) /\ Answers(stack[j], stack[j].node)
        BY <4>1, OuterFrames
      <4>3. stack[j].node # Top.node
        <5>1. stack[j].node < stack[last].node
          BY <1>2, <4>1 DEF Indexed, Nested
        <5>2. QED
          BY <1>2, <4>1, <5>1 DEF Top
      <4>4. SameFrame(stack[j], stack'[j]) /\ heap'[stack[j].node].children = heap[stack[j].node].children
        BY <1>5, <4>1, <4>3 DEF SameFrame, OnlyChildren
      <4>5. QED
        BY <1>5, <4>1, <4>2, <4>4, FrameKept
    <3>3. QED
      BY <3>1, <3>2
  <2>12. QED
    BY <1>5, <2>3, <2>4, <2>11 DEF Indexed
<1>11. QED
  BY <1>6, <1>7, <1>9, <1>10

-----------------------------------------------------------------------------
LEMMA NextIndexed == ASSUME IInv, IInv', Indexed, [Next]_vars PROVE Indexed'
<1>1. heap' \in Seq(Node)
  BY DEF IInv, TypeOK, ParserTypeOK
<1>2. CASE ParseValue
  BY <1>1, <1>2, TokenIndexed, CommentIndexed, ErrorReturnIndexed, SeparatorIndexed,
     ParseKeyIndexed, ParseScalarIndexed, MakeMemberIndexed, AppendElementIndexed,
     OpenContainerIndexed, ReturnContainerIndexed, CloseContainerIndexed, InsertMemberIndexed
     DEF ParseValue
<1>3. CASE UNCHANGED vars
  <2>1. UNCHANGED <<heap, stack, pc, val>>
    BY <1>3 DEF vars, pvars
  <2>2. SameNodes /\ HeldKids' /\ \A i \in 1..Len(stack) : SameFrame(stack[i], stack'[i])
    BY <2>1, Facts DEF SameNodes, SameFrame, Indexed, HeldKids
  <2>3. pc' = "insert" => InObject /\ val' # 0 /\ heap'[val'].key \in Keys
    BY <2>1 DEF Indexed, MemberHeld
  <2>4. QED
    BY <2>1, <2>2, <2>3, QuietIndexed
<1>4. QED
  BY <1>1, <1>2, <1>3, TokenIndexed, CommentIndexed, ErrorReturnIndexed DEF Next

\* What the index is for follows from the invariant.
LEMMA IndexedAgrees == ASSUME IInv, Indexed PROVE MemberIndexAgrees
<1> SUFFICES ASSUME NEW f \in Range(stack), heap[f.node].kind = "object", NEW k \in Keys
             PROVE  LET hits == PlacesOf(heap[f.node].children, k)
                    IN  /\ Cardinality(hits) <= 1
                        /\ f.indexed /\ pc # "closed" => f.byKey[k] = (IF hits = {} THEN 0 ELSE Max(hits))
  BY DEF MemberIndexAgrees
<1> DEFINE S == Hits(f.node, k)
<1>1. PICK i \in 1..Len(stack) : f = stack[i]
  BY Facts, LenProperties DEF Range
<1>2. f.node \in 1..Len(heap)
  BY <1>1 DEF IInv, FramesOK
<1>3. OneEach(f.node) /\ (pc # "closed" => Answers(f, f.node))
  BY <1>1 DEF Indexed, IndexOK
<1>4. S \subseteq Nat /\ \A x, y \in S : x = y
  BY <1>2, <1>3, NodeFacts DEF OneEach, Hits, PlacesOf
<1>5. f.indexed /\ pc # "closed" => IF S = {} THEN f.byKey[k] = 0 ELSE f.byKey[k] \in S
  BY <1>3 DEF Answers
<1>6. S = PlacesOf(heap[f.node].children, k)
  BY DEF Hits
<1> HIDE DEF S
<1>7. CASE S = {}
  BY <1>5, <1>6, <1>7, FS_EmptySet
<1>8. CASE S # {}
  <2>1. PICK x \in S : TRUE
    BY <1>8
  <2>2. S = {x}
    BY <1>4, <2>1
  <2>3. Cardinality(S) = 1
    BY <2>2, FS_Singleton
  <2>4. Max(S) = x
    <3>1. x \in S /\ \A y \in S : x >= y
      BY <1>4, <2>1
    <3>2. \A y : y \in S => y = x
      BY <2>2
    <3>3. (CHOOSE y \in S : \A z \in S : y >= z) = x
      BY <3>1, <3>2, Zenon
    <3>4. QED
      BY <3>3 DEF Max
  <2>5. QED
    BY <1>5, <1>6, <1>8, <2>2, <2>3, <2>4
<1>9. QED
  BY <1>7, <1>8

\* memberIndex names the live members of every object while it is parsed.
LEMMA AlwaysIndexed == Spec => []Indexed
<1>1. Init => Indexed
  BY InitIndexed
<1>2. IInv /\ IInv' /\ Indexed /\ [Next]_vars => Indexed'
  BY NextIndexed
<1>3. QED
  BY <1>1, <1>2, Inductive, PTL DEF Spec

\* memberIndex answers as a scan of the children would, and no key has two
\* live members, in every open object at every step of every parse: for every
\* memberIndexMin from which it indexes, every alphabet, limit and option.
THEOREM MemberIndexCorrect == Spec => []MemberIndexAgrees
<1>1. IInv /\ Indexed => MemberIndexAgrees
  BY IndexedAgrees
<1>2. QED
  BY <1>1, AlwaysIndexed, Inductive, PTL
=============================================================================
