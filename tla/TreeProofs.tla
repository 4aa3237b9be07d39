------------------------------ MODULE TreeProofs ------------------------------
(***************************************************************************)
(* Theorems about what parse returns: that its warnings are the comments    *)
(* dropped and the members superseded, and that its tree is the text's.     *)
(***************************************************************************)
EXTENDS LanguageProofs

-----------------------------------------------------------------------------
(* Where the nodes stand. *)

\* A node of a value stands at its first token.
ValueNodes == \A n \in 1..Len(heap) : heap[n].kind # "member" => heap[n].pos \in Starts
\* No two nodes stand at one token.
Apart == \A n, o \in 1..Len(heap) : heap[n].pos = heap[o].pos => n = o
\* A key has no node before its member is made.
Vacant ==
  \A m \in WaitingFrames : \A n \in 1..Len(heap) :
    heap[n].pos = stack[m].keyPos => pc = "insert" /\ m = Len(stack)
\* An object has no later key than the one its frame holds.
Latest ==
  \A m \in WaitingFrames : \A k \in KeysRead :
    Around(input, k) = Opened[m] => k <= stack[m].keyPos
Sited == Working => ValueNodes /\ Apart /\ Vacant /\ Latest

LEMMA StartKept ==
  ASSUME IInv, Parsing, [Next]_vars, NEW i \in Starts
  PROVE  /\ i \in Starts' /\ input'[i] = input[i] /\ Around(input', i) = Around(input, i)
         /\ ChildOf(input', i) = ChildOf(input, i)
         /\ i \in 1..Consumed
BY PlacesRead DEF TextKept, SamePlace, Starts

LEMMA NodePlaces ==
  ASSUME IInv, KeyNodes, ValueNodes, NEW n \in 1..Len(heap)
  PROVE  /\ heap[n].pos \in 1..Consumed /\ Consumed \in Nat
         /\ IF heap[n].kind = "member" THEN heap[n].pos \in KeysRead ELSE heap[n].pos \in Starts
BY ConsumedType DEF KeyNodes, ValueNodes, KeysRead, Starts

LEMMA OpenedApart ==
  ASSUME IInv, Indexed, Apart, NEW m \in 1..Len(stack), NEW o \in 1..Len(stack),
         Opened[m] = Opened[o] \/ stack[m].node = stack[o].node
  PROVE  m = o
<1>1. stack[m].node \in 1..Len(heap) /\ stack[o].node \in 1..Len(heap)
  BY DEF IInv, FramesOK
<1>2. stack[m].node = stack[o].node
  BY <1>1 DEF Apart, Opened
<1>3. PICK n \in Nat : n = Len(stack)
  BY Facts
<1>4. m < o \/ o < m \/ m = o
  BY <1>3
<1>5. /\ m < o => stack[m].node < stack[o].node
      /\ o < m => stack[o].node < stack[m].node
  BY DEF Indexed, Nested
<1>6. QED
  BY <1>1, <1>2, <1>4, <1>5

LEMMA TopOpened ==
  ASSUME IInv, stack # <<>>
  PROVE  /\ Len(stack) \in 1..Len(stack) /\ stack[Len(stack)] = Top
         /\ Top.node \in 1..Len(heap) /\ Opened[Len(stack)] = heap[Top.node].pos
BY FrameTypes DEF Top, Opened

\* parseMember has read a key.
LEMMA KeyStep ==
  ASSUME IInv, IInv', Parsing, [Next]_vars, ParseKey
  PROVE  /\ UNCHANGED <<heap, input, warnings>> /\ InObject /\ Len(stack') = Len(stack)
         /\ stack # <<>> /\ Len(stack) \in 1..Len(stack)
         /\ stack'[Len(stack)].node = Top.node /\ stack'[Len(stack)].keyPos = At
         /\ \A m \in 1..Len(stack) :
              /\ stack'[m].node = stack[m].node /\ Opened'[m] = Opened[m]
              /\ m # Len(stack) => stack'[m] = stack[m]
         /\ KeysRead' = KeysRead \cup {At} /\ Starts' = Starts
         /\ At = Consumed + 1 /\ Consumed \in Nat /\ Consumed' = At
         /\ Around(input, At) = Opened[Len(stack)] /\ Around(input, At) = heap[Top.node].pos
<1>1. /\ stack # <<>> /\ pc = "loop" /\ have /\ UNCHANGED <<heap, input, warnings>> /\ InObject
  BY DEF ParseKey, InObject, Sees
<1>2. PICK f \in Frame : SetTop(f) /\ f.node = Top.node /\ f.key = Look.v /\ f.keyPos = At
  BY TopAssigned
<1>3. /\ Len(stack') = Len(stack)
      /\ \A m \in 1..Len(stack) : stack'[m] = IF m = Len(stack) THEN f ELSE stack[m]
  BY <1>1, <1>2, SetTopAt
<1>4. Len(stack) \in 1..Len(stack) /\ stack[Len(stack)] = Top
  BY <1>1, TopOpened
<1>5. \A m \in 1..Len(stack) : stack'[m].node = stack[m].node
  BY <1>2, <1>3, <1>4
<1>6. \A m \in 1..Len(stack) : Opened'[m] = Opened[m]
  BY <1>1, <1>3, <1>5 DEF Opened
<1>7. Around(input, At) = Opened[Len(stack)]
  BY <1>1, AheadFacts
<1>8. ~ParseScalar /\ ~OpenContainer
  BY Reads
<1>9. /\ KeysRead' = KeysRead \cup {At} /\ Starts' = Starts
      /\ At = Consumed + 1 /\ Consumed \in Nat /\ Consumed' = At
  BY <1>8, PlacesRead
<1>10. QED
  BY <1>1, <1>2, <1>3, <1>4, <1>5, <1>6, <1>7, <1>9, TopOpened

\* A new node: the value's at the lookahead, or the member's at its key.
LEMMA NewPlace ==
  ASSUME IInv, IInv', Parsing, [Next]_vars, Placed, Sited, Working',
         NEW n \in 1..Len(heap'), n \notin 1..Len(heap)
  PROVE  /\ n = Len(heap) + 1
         /\ \/ /\ ParseScalar \/ OpenContainer
               /\ heap'[n].pos = At /\ heap'[n].kind # "member"
               /\ At = Consumed + 1 /\ At \in Starts'
            \/ /\ MakeMember /\ heap'[n].kind = "member" /\ heap'[n].pos = Top.keyPos
               /\ Len(stack) \in WaitingFrames /\ pc = "return" /\ pc' = "insert" /\ UNCHANGED stack
         /\ \A o \in 1..Len(heap) : heap[o].pos # heap'[n].pos
<1>1. KeyNodes /\ Pending /\ ValueNodes /\ Vacant
  BY WorkingBefore DEF Placed, Sited
<1>2. CASE ParseScalar \/ OpenContainer
  <2>1. heap'[n].pos = At /\ heap'[n].kind # "member" /\ n = Len(heap) + 1
    <3>1. ~MakeMember
      BY <1>2 DEF MakeMember, ParseScalar, OpenContainer, ExpectsValue
    <3>2. QED
      BY <3>1, NodesNext
  <2>2. At = Consumed + 1 /\ At \in Starts'
    BY <1>2, PlacesRead
  <2>3. \A o \in 1..Len(heap) : heap[o].pos # At
    BY <1>1, <2>2, NodePlaces
  <2>4. QED
    BY <1>2, <2>1, <2>2, <2>3
<1>3. CASE MakeMember
  <2>1. /\ heap'[n].kind = "member" /\ heap'[n].pos = Top.keyPos /\ n = Len(heap) + 1
    <3>1. ~ParseScalar /\ ~OpenContainer
      BY <1>3 DEF MakeMember, ParseScalar, OpenContainer, ExpectsValue
    <3>2. QED
      BY <3>1, NodesNext
  <2>2. pc = "return" /\ InObject /\ UNCHANGED stack
    BY <1>3 DEF MakeMember
  <2>3. pc' = "insert"
    BY <1>3 DEF MakeMember, BumpNodeCount, Working
  <2>4. Len(stack) \in WaitingFrames
    BY <2>2, SomeWait
  <2>5. \A o \in 1..Len(heap) : heap[o].pos # Top.keyPos
    BY <1>1, <2>2, <2>4 DEF Vacant, Top
  <2>6. QED
    BY <1>3, <2>1, <2>2, <2>3, <2>4, <2>5
<1>4. QED
  BY <1>2, <1>3, NodesNext

LEMMA ValueNodesNext ==
  ASSUME IInv, IInv', Parsing, Lasts(heap, heap'), [Next]_vars, Placed, Sited, Working'
  PROVE  ValueNodes'
<1>1. ValueNodes
  BY WorkingBefore DEF Sited
<1>2. ASSUME NEW n \in 1..Len(heap'), heap'[n].kind # "member" PROVE heap'[n].pos \in Starts'
  <2>1. CASE n \in 1..Len(heap)
    <3>1. heap[n].pos \in Starts /\ heap'[n].pos = heap[n].pos
      BY <1>1, <1>2, <2>1, LastsFacts DEF ValueNodes
    <3>2. QED
      BY <3>1, StartKept
  <2>2. CASE n \notin 1..Len(heap)
    BY <1>2, <2>2, NewPlace
  <2>3. QED
    BY <2>1, <2>2
<1>3. QED
  BY <1>2 DEF ValueNodes

LEMMA ApartNext ==
  ASSUME IInv, IInv', Parsing, Lasts(heap, heap'), [Next]_vars, Placed, Sited, Working'
  PROVE  Apart'
<1>1. Apart
  BY WorkingBefore DEF Sited
<1>2. ASSUME NEW n \in 1..Len(heap'), NEW o \in 1..Len(heap'), heap'[n].pos = heap'[o].pos
      PROVE  n = o
  <2>1. CASE n \in 1..Len(heap) /\ o \in 1..Len(heap)
    BY <1>1, <1>2, <2>1, LastsFacts DEF Apart
  <2>2. CASE n \notin 1..Len(heap) /\ o \notin 1..Len(heap)
    BY <2>2, NewPlace
  <2>3. CASE n \notin 1..Len(heap) /\ o \in 1..Len(heap)
    <3>1. heap[o].pos # heap'[n].pos
      BY <2>3, NewPlace
    <3>2. QED
      BY <1>2, <2>3, <3>1, LastsFacts
  <2>4. CASE n \in 1..Len(heap) /\ o \notin 1..Len(heap)
    <3>1. heap[n].pos # heap'[o].pos
      BY <2>4, NewPlace
    <3>2. QED
      BY <1>2, <2>4, <3>1, LastsFacts
  <2>5. QED
    BY <2>1, <2>2, <2>3, <2>4
<1>3. QED
  BY <1>2 DEF Apart

\* The frame that awaits a member after InsertMember is not the one it had.
LEMMA Inserted ==
  ASSUME IInv, IInv', Indexed, Lasts(heap, heap'), [Next]_vars, Working', pc = "insert",
         NEW m \in WaitingFrames', pc' # "insert"
  PROVE  m # Len(stack)
<1>1. InsertMember
  BY DEF Next, ParseValue, vars, pvars, Working, Scan, Peeks, OverNodes, ParseScalar, OpenContainer, TooDeep,
   NotAValue, ExpectsValue, CollectHeadComments, SkipDroppedComments, StrictTrailingComma,
   CloseContainer, AtClose, ReturnContainer, AppendElement, ParseKey, NotAKey, ParseColon, NotAColon,
   MakeMember, RefuseDuplicate, InlineComment, Separator, CloseAhead, NotASeparator,
   AttachAfterComma, BeginRoot, NoRoot, ReturnRoot, RootInline, ConsumeTrailing, Finish, ExtraData,
   Fail, Stop
<1>2. ~ParseKey
  BY <1>1 DEF InsertMember, ParseKey
<1>3. QED
  BY <1>1, <1>2, WaitingNext, WorkingBefore

LEMMA VacantNext ==
  ASSUME IInv, IInv', Indexed, Parsing, Lasts(heap, heap'), [Next]_vars, Placed, Sited, Working'
  PROVE  Vacant'
<1>1. KeyNodes /\ Pending /\ ValueNodes /\ Vacant /\ Apart
  BY WorkingBefore DEF Placed, Sited
<1>2. ASSUME NEW m \in WaitingFrames', NEW n \in 1..Len(heap'), heap'[n].pos = stack'[m].keyPos
      PROVE  pc' = "insert" /\ m = Len(stack')
  <2>1. CASE ParseKey /\ m = Len(stack)
    <3>1. heap' = heap /\ stack'[m].keyPos = Consumed + 1 /\ Consumed \in Nat
      BY <2>1, KeyStep
    <3>2. heap[n].pos \in 1..Consumed
      BY <1>1, <1>2, <3>1, NodePlaces
    <3>3. QED
      BY <1>2, <3>1, <3>2
  <2>2. CASE ~(ParseKey /\ m = Len(stack))
    <3>1. /\ m \in WaitingFrames /\ m \in 1..Len(stack) /\ m \in 1..Len(stack')
          /\ stack'[m].keyPos = stack[m].keyPos
      BY <2>2, WaitingSame DEF SameKey
    <3>2. PendingAt(m) /\ stack[m].keyPos \in 1..Consumed /\ Consumed \in Nat
      BY <1>1, <3>1, ConsumedType DEF Pending, PendingAt, KeysRead
    <3>3. CASE n \in 1..Len(heap)
      <4>1. heap[n].pos = stack[m].keyPos
        BY <1>2, <3>1, <3>3, LastsFacts
      <4>2. pc = "insert" /\ m = Len(stack)
        BY <1>1, <3>1, <3>3, <4>1 DEF Vacant
      <4>3. pc' = "insert"
        BY <4>2, Inserted
      <4>4. UNCHANGED stack
        <5>1. MakeMember \/ UNCHANGED vars
          BY <4>3, InsertingSteps
        <5>2. QED
          BY <5>1 DEF MakeMember, vars, pvars
      <4>5. QED
        BY <4>2, <4>3, <4>4
    <3>4. CASE n \notin 1..Len(heap)
      <4>1. CASE heap'[n].pos = Consumed + 1
        BY <1>2, <3>1, <3>2, <4>1
      <4>2. CASE /\ MakeMember /\ heap'[n].pos = Top.keyPos
                 /\ Len(stack) \in WaitingFrames /\ pc' = "insert" /\ UNCHANGED stack
        <5>1. PendingAt(Len(stack)) /\ Len(stack) \in 1..Len(stack)
          BY <1>1, <4>2 DEF Pending, WaitingFrames
        <5>2. Opened[m] = Opened[Len(stack)]
          BY <1>2, <3>1, <3>2, <4>2, <5>1 DEF PendingAt, Top
        <5>3. m = Len(stack)
          BY <1>1, <3>1, <5>1, <5>2, OpenedApart
        <5>4. QED
          BY <4>2, <5>3
      <4>3. QED
        BY <3>4, <4>1, <4>2, NewPlace
    <3>5. QED
      BY <3>3, <3>4
  <2>3. QED
    BY <2>1, <2>2
<1>3. QED
  BY <1>2 DEF Vacant

LEMMA LatestNext ==
  ASSUME IInv, IInv', Indexed, Parsing, Lasts(heap, heap'), [Next]_vars, Placed, Sited, Working'
  PROVE  Latest'
<1>1. Pending /\ Apart /\ Latest
  BY WorkingBefore DEF Placed, Sited
<1>2. ASSUME NEW m \in WaitingFrames', NEW k \in KeysRead', Around(input', k) = Opened'[m]
      PROVE  k <= stack'[m].keyPos
  <2>1. CASE ParseKey /\ m = Len(stack)
    <3>1. stack'[m].keyPos = Consumed + 1 /\ Consumed \in Nat /\ KeysRead' = KeysRead \cup {Consumed + 1}
      BY <2>1, KeyStep
    <3>2. KeysRead \subseteq 1..Consumed
      BY DEF KeysRead
    <3>3. QED
      BY <3>1, <3>2
  <2>2. CASE ~(ParseKey /\ m = Len(stack))
    <3>1. /\ m \in WaitingFrames /\ m \in 1..Len(stack)
          /\ stack'[m].keyPos = stack[m].keyPos /\ Opened'[m] = Opened[m]
      BY <2>2, WaitingSame DEF SameKey
    <3>2. CASE k \in KeysRead
      <4>1. Around(input, k) = Opened[m]
        BY <1>2, <3>1, <3>2, KeyKept
      <4>2. QED
        BY <1>1, <3>1, <3>2, <4>1 DEF Latest
    <3>3. CASE k \notin KeysRead
      <4>1. ParseKey
        BY <3>3, PlacesRead
      <4>2. k = At /\ Around(input', k) = Opened[Len(stack)] /\ Len(stack) \in 1..Len(stack)
        BY <3>3, <4>1, KeyStep
      <4>3. m = Len(stack)
        BY <1>1, <1>2, <3>1, <4>2, OpenedApart
      <4>4. QED
        BY <2>2, <4>1, <4>3
    <3>4. QED
      BY <3>2, <3>3
  <2>3. QED
    BY <2>1, <2>2
<1>3. QED
  BY <1>2 DEF Latest

LEMMA SitedNext ==
  ASSUME IInv, IInv', Indexed, Parsing, Lasts(heap, heap'), [Next]_vars, Placed, Sited
  PROVE  Sited'
<1> SUFFICES ASSUME Working' PROVE ValueNodes' /\ Apart' /\ Vacant' /\ Latest'
  BY DEF Sited
<1>1. QED
  BY ValueNodesNext, ApartNext, VacantNext, LatestNext

-----------------------------------------------------------------------------
(* The members of an object. *)

\* A node keeps its children, but for the member another one supersedes.
LEMMA KidsLast ==
  ASSUME IInv, IInv', Indexed, [Next]_vars, NEW n \in 1..Len(heap), NEW c \in Kids(n)
  PROVE  \/ c \in Kids(n)'
         \/ InsertMember /\ n = Top.node /\ heap[c].key = heap[val].key
<1>1. PICK old : old = heap[n].children
  OBVIOUS
<1>2. old \in Seq(Nat) /\ DOMAIN old = 1..Len(old) /\ Len(old) \in Nat
  BY <1>1, NodeFacts
<1>3. PICK p \in 1..Len(old) : old[p] = c /\ c # 0
  BY <1>1, <1>2 DEF Kids
<1>4. CASE ParseScalar \/ OpenContainer \/ MakeMember
  <2>1. PICK x \in Node : heap' = Append(heap, x)
    BY <1>4, Allocated
  <2>2. heap'[n] = heap[n]
    BY <2>1, Facts, AppendProperties
  <2>3. QED
    BY <2>2 DEF Kids
<1>5. CASE (AppendElement \/ InsertMember \/ CloseContainer) /\ n # Top.node
  <2>1. heap'[n].children = old
    <3>1. CASE AppendElement
      BY <1>1, <1>5, <3>1, AppendHeap DEF OnlyChildren
    <3>2. CASE InsertMember
      BY <1>1, <1>5, <3>2, InsertHeap DEF OnlyChildren
    <3>3. CASE CloseContainer
      BY <1>1, <1>5, <3>3, CloseHeap DEF OnlyChildren
    <3>4. QED
      BY <1>5, <3>1, <3>2, <3>3
  <2>2. QED
    BY <1>1, <2>1 DEF Kids
<1>6. CASE AppendElement /\ n = Top.node
  <2>1. heap'[n].children = Append(old, val) /\ val \in Nat
    <3>1. PICK d : d = Append(Container.children, val)
      OBVIOUS
    <3>2. heap'[n].children = d
      BY <1>6, <3>1, AppendHeap DEF OnlyChildren
    <3>3. QED
      BY <1>1, <1>6, <3>1, <3>2, Facts DEF Container
  <2>2. p \in DOMAIN Append(old, val) /\ Append(old, val)[p] = c
    BY <1>2, <1>3, <2>1, AppendProperties
  <2>3. QED
    BY <1>3, <2>1, <2>2 DEF Kids
<1>7. CASE InsertMember /\ n = Top.node
  <2>1. PICK d : d = Superseding(old, Duplicate)
    OBVIOUS
  <2>2. pc = "insert" /\ Container.children = old
    BY <1>1, <1>7 DEF InsertMember, Container
  <2>3. heap'[n].children = d
    BY <1>7, <2>1, <2>2, InsertHeap DEF OnlyChildren
  <2>4. d \in Seq(Nat) /\ val \in Nat
    BY <2>1, <2>2, InsertedPlaces, Facts
  <2>5. PICK i : i = Duplicate
    OBVIOUS
  <2>6. CASE p = i
    <3>1. i # 0
      BY <2>6
    <3>2. i \in Hits(n, heap[val].key)
      BY <1>7, <2>2, <2>5, <3>1, DuplicateFound
    <3>3. heap[c].key = heap[val].key
      BY <1>1, <1>3, <2>6, <3>2 DEF Hits, PlacesOf
    <3>4. QED
      BY <1>7, <3>3
  <2>7. CASE p # i
    <3>1. PICK kept : kept = IF i = 0 THEN old ELSE [old EXCEPT ![i] = 0]
      OBVIOUS
    <3>2. kept \in Seq(Nat) /\ DOMAIN kept = DOMAIN old /\ kept[p] = c
      BY <1>2, <1>3, <2>7, <3>1, ExceptNat
    <3>3. d = Append(kept, val)
      BY <2>1, <2>5, <3>1 DEF Superseding
    <3>4. p \in 1..Len(kept)
      BY <1>2, <3>2, LenProperties
    <3>5. p \in DOMAIN d /\ d[p] = c
      BY <2>4, <3>2, <3>3, <3>4, AppendProperties
    <3>6. QED
      BY <1>3, <2>3, <3>5 DEF Kids
  <2>8. QED
    BY <2>6, <2>7
<1>8. CASE CloseContainer /\ n = Top.node
  <2>1. PICK d : d = IF Top.removed > 0 THEN RemoveNil(old) ELSE old
    OBVIOUS
  <2>2. heap'[n].children = d /\ Drawn(old, Len(old), d)
    BY <1>1, <1>8, <2>1, CloseHeap DEF OnlyChildren, Container
  <2>3. PICK j \in 1..Len(d) : d[j] = c
    BY <1>3, <2>2 DEF Drawn
  <2>4. j \in DOMAIN d
    BY <2>2, LenProperties DEF Drawn
  <2>5. QED
    BY <1>3, <2>2, <2>3, <2>4 DEF Kids
<1>9. CASE ~(ParseScalar \/ OpenContainer \/ MakeMember \/ AppendElement \/ InsertMember \/ CloseContainer)
  <2>1. heap'[n].children = heap[n].children
    BY <1>9, KeptSteps DEF KeptHeap
  <2>2. QED
    BY <2>1 DEF Kids
<1>10. QED
  BY <1>4, <1>5, <1>6, <1>7, <1>8, <1>9

\* The element or member parsed last is a child.
LEMMA KidAdded ==
  ASSUME IInv, IInv', Indexed, [Next]_vars, AppendElement \/ InsertMember, val # 0,
         NEW n, n = Top.node
  PROVE  n \in 1..Len(heap) /\ val \in Kids(n)'
<1>1. stack # <<>>
  BY DEF AppendElement, InArray, InsertMember, Indexed, MemberHeld, InObject
<1>2. n \in 1..Len(heap)
  BY <1>1, FrameTypes
<1>3. PICK d : d = IF AppendElement THEN Append(Container.children, val)
                   ELSE Superseding(Container.children, Duplicate)
  OBVIOUS
<1>4. heap'[n].children = d
  <2>1. CASE AppendElement
    BY <1>2, <1>3, <2>1, AppendHeap DEF OnlyChildren
  <2>2. CASE InsertMember /\ ~AppendElement
    BY <1>2, <1>3, <2>2, InsertHeap DEF OnlyChildren
  <2>3. QED
    BY <2>1, <2>2
<1>5. PICK old \in Seq(Nat) : d = Append(old, val)
  <2>1. Container.children \in Seq(Nat)
    BY <1>2, NodeFacts DEF Container
  <2>2. [Container.children EXCEPT ![Duplicate] = 0] \in Seq(Nat)
    BY <2>1, ExceptNat
  <2>3. QED
    BY <1>3, <2>1, <2>2 DEF Superseding
<1>6. val \in Nat
  BY Facts
<1>7. \E a \in DOMAIN d : d[a] = val
  <2>1. Len(old) + 1 \in DOMAIN d /\ d[Len(old) + 1] = val
    BY <1>5, <1>6, AppendProperties
  <2>2. QED
    BY <2>1
<1>8. QED
  BY <1>2, <1>4, <1>7 DEF Kids

\* A frame that awaits a member does so until it is inserted, and keeps its key.
LEMMA WaitingStays ==
  ASSUME IInv, IInv', Indexed, Lasts(heap, heap'), [Next]_vars, Working',
         NEW m \in WaitingFrames, ~(InsertMember /\ m = Len(stack))
  PROVE  m \in WaitingFrames' /\ SameKey(stack[m], stack'[m])
<1>1. Working /\ pc' # "error"
  BY WorkingBefore
<1>2. m \in WaitingFrames' /\ ~(ParseKey /\ m = Len(stack))
  <2>1. /\ WaitingFrames' = IF ParseKey THEN WaitingFrames \cup {Len(stack)}
                            ELSE IF InsertMember THEN WaitingFrames \ {Len(stack)} ELSE WaitingFrames
        /\ ParseKey => Len(stack) \notin WaitingFrames
    BY <1>1, WaitingNext
  <2>2. QED
    BY <2>1
<1>3. QED
  BY <1>2, WaitingSame

\* The key at k has its member among the children of the node n, or a later
\* member of the same text has.
ListedKey(n, k) == \E c \in Kids(n) : heap[c].key = input[k].v /\ heap[c].pos >= k
\* A frame of the node n awaits the member of the key at k.
AwaitedKey(n, k) == \E m \in WaitingFrames : stack[m].node = n /\ stack[m].keyPos = k
\* Every key read in an object has one or the other.
Complete ==
  Working => \A n \in 1..Len(heap) : heap[n].kind = "object" =>
    \A k \in KeysRead : Around(input, k) = heap[n].pos => ListedKey(n, k) \/ AwaitedKey(n, k)

\* The member inserted has the last key read in its object.
LEMMA MemberInserted ==
  ASSUME IInv, IInv', Indexed, Lasts(heap, heap'), [Next]_vars, InsertMember, Placed, Sited, Working',
         NEW n, n = Top.node
  PROVE  /\ n \in 1..Len(heap) /\ val \in Kids(n)'
         /\ heap'[val].key = Top.key /\ heap'[val].pos = Top.keyPos
         /\ heap[val].key = Top.key /\ heap[val].pos = Top.keyPos
         /\ stack # <<>> /\ PendingAt(Len(stack)) /\ Opened[Len(stack)] = heap[n].pos
         /\ \A k \in KeysRead : Around(input, k) = heap[n].pos => k <= Top.keyPos
<1>1. pc = "insert" /\ InObject /\ val # 0 /\ stack # <<>>
  BY DEF InsertMember, Indexed, MemberHeld, InObject
<1>2. Pending /\ Inserting /\ Latest
  BY WorkingBefore DEF Placed, Sited
<1>3. heap[val].key = Top.key /\ heap[val].pos = Top.keyPos
  BY <1>1, <1>2 DEF Inserting
<1>4. val \in 1..Len(heap)
  BY <1>1, Facts
<1>5. heap'[val].key = Top.key /\ heap'[val].pos = Top.keyPos
  BY <1>3, <1>4, LastsFacts
<1>6. Len(stack) \in WaitingFrames
  BY <1>1, SomeWait
<1>7. PendingAt(Len(stack)) /\ Opened[Len(stack)] = heap[n].pos
  BY <1>1, <1>2, <1>6, TopOpened DEF Pending
<1>8. \A k \in KeysRead : Around(input, k) = heap[n].pos => k <= Top.keyPos
  BY <1>1, <1>2, <1>6, <1>7, TopOpened DEF Latest
<1>9. n \in 1..Len(heap) /\ val \in Kids(n)'
  BY <1>1, KidAdded
<1>10. QED
  BY <1>1, <1>3, <1>5, <1>7, <1>8, <1>9

LEMMA ListedStays ==
  ASSUME IInv, IInv', Indexed, Parsing, Lasts(heap, heap'), [Next]_vars, Placed, Sited, Working',
         NEW n \in 1..Len(heap), NEW k \in KeysRead, Around(input, k) = heap[n].pos, ListedKey(n, k)
  PROVE  ListedKey(n, k)'
<1>1. PICK c \in Kids(n) : heap[c].key = input[k].v /\ heap[c].pos >= k
  BY DEF ListedKey
<1>2. input'[k] = input[k] /\ k \in 1..Consumed /\ Consumed \in Nat
  BY KeyKept, ConsumedType
<1>3. CASE c \in Kids(n)'
  <2>1. heap'[c].key = heap[c].key /\ heap'[c].pos = heap[c].pos
    BY KidsTypes, LastsFacts
  <2>2. QED
    BY <1>1, <1>2, <1>3, <2>1 DEF ListedKey
<1>4. CASE InsertMember /\ n = Top.node /\ heap[c].key = heap[val].key
  <2>1. val \in Kids(n)' /\ heap'[val].key = input'[k].v
    BY <1>1, <1>2, <1>4, MemberInserted
  <2>2. heap'[val].pos = Top.keyPos /\ k <= Top.keyPos /\ Top.keyPos \in KeysRead
    BY <1>4, MemberInserted DEF PendingAt, Top
  <2>3. Top.keyPos \in Nat
    BY <1>2, <2>2 DEF KeysRead
  <2>4. heap'[val].pos >= k
    BY <1>2, <2>2, <2>3
  <2>5. QED
    BY <2>1, <2>4 DEF ListedKey
<1>5. QED
  BY <1>3, <1>4, KidsLast

LEMMA AwaitedStays ==
  ASSUME IInv, IInv', Indexed, Parsing, Lasts(heap, heap'), [Next]_vars, Placed, Sited, Working',
         NEW n \in 1..Len(heap), NEW k \in KeysRead, AwaitedKey(n, k)
  PROVE  ListedKey(n, k)' \/ AwaitedKey(n, k)'
<1>1. PICK m \in WaitingFrames : stack[m].node = n /\ stack[m].keyPos = k
  BY DEF AwaitedKey
<1>2. input'[k] = input[k] /\ k \in Nat
  BY KeyKept, ConsumedType
<1>3. CASE InsertMember /\ m = Len(stack)
  <2>1. n = Top.node /\ Top.keyPos = k
    BY <1>1, <1>3 DEF Top
  <2>2. val \in Kids(n)' /\ heap'[val].key = Top.key /\ heap'[val].pos = k /\ input[k].v = Top.key
    BY <1>3, <2>1, MemberInserted DEF PendingAt, Top
  <2>3. heap'[val].pos >= k
    BY <1>2, <2>2
  <2>4. QED
    BY <1>2, <2>2, <2>3 DEF ListedKey
<1>4. CASE ~(InsertMember /\ m = Len(stack))
  <2>1. m \in WaitingFrames' /\ SameKey(stack[m], stack'[m])
    BY <1>4, WaitingStays
  <2>2. QED
    BY <1>1, <2>1 DEF AwaitedKey, SameKey
<1>5. QED
  BY <1>3, <1>4

LEMMA CompleteNext ==
  ASSUME IInv, IInv', Indexed, Parsing, Lasts(heap, heap'), [Next]_vars, Placed, Sited, Complete
  PROVE  Complete'
<1> SUFFICES ASSUME Working', NEW n \in 1..Len(heap'), heap'[n].kind = "object",
                    NEW k \in KeysRead', Around(input', k) = heap'[n].pos
             PROVE  ListedKey(n, k)' \/ AwaitedKey(n, k)'
  BY DEF Complete
<1>1. Working /\ Apart
  BY WorkingBefore DEF Sited
<1>2. CASE n \in 1..Len(heap) /\ k \in KeysRead
  <2>1. heap[n].kind = "object" /\ heap[n].pos = heap'[n].pos
    BY <1>2, LastsFacts
  <2>2. Around(input, k) = heap[n].pos
    BY <1>2, <2>1, KeyKept
  <2>3. ListedKey(n, k) \/ AwaitedKey(n, k)
    BY <1>1, <1>2, <2>1, <2>2 DEF Complete
  <2>4. QED
    BY <1>2, <2>2, <2>3, ListedStays, AwaitedStays
<1>3. CASE n \in 1..Len(heap) /\ k \notin KeysRead
  <2>1. ParseKey /\ k = At
    BY <1>3, PlacesRead
  <2>2. /\ heap' = heap /\ input' = input /\ Around(input, At) = heap[Top.node].pos
        /\ stack # <<>> /\ stack'[Len(stack)].node = Top.node /\ stack'[Len(stack)].keyPos = At
    BY <2>1, KeyStep
  <2>3. n = Top.node
    BY <1>1, <1>3, <2>1, <2>2, FrameTypes DEF Apart
  <2>4. Len(stack) \in WaitingFrames'
    BY <1>1, <2>1, WaitingNext
  <2>5. QED
    BY <2>1, <2>2, <2>3, <2>4 DEF AwaitedKey
<1>4. CASE n \notin 1..Len(heap)
  <2>1. (ParseScalar \/ OpenContainer) /\ heap'[n].pos = Consumed + 1
    BY <1>4, NewPlace
  <2>2. k \in KeysRead /\ Consumed \in Nat
    BY <2>1, PlacesRead, Reads
  <2>3. k \in 1..Consumed /\ Around(input', k) = Around(input, k)
    BY <2>2, KeyKept
  <2>4. Around(input, k) \in 0..k - 1
    BY <2>3, <2>2, AroundType
  <2>5. QED
    BY <2>1, <2>2, <2>3, <2>4
<1>5. QED
  BY <1>2, <1>3, <1>4

-----------------------------------------------------------------------------
(* The warnings. *)

\* An earlier key of the same object has the text of the key at k.
Repeats(k) ==
  \E j \in KeysRead : j < k /\ Around(input, j) = Around(input, k) /\ input[j].v = input[k].v
Awaits(k) == \E m \in WaitingFrames : stack[m].keyPos = k
\* The comments dropped, and the members that superseded another, so far.
Dropped == {i \in 1..Consumed : IsComment(input[i]) /\ BetweenKeyAndValue(i)}
Repeated == {k \in KeysRead : Repeats(k) /\ ~Awaits(k)}
Reported ==
  Working =>
    /\ Len(warnings) = Cardinality(Dropped) + Cardinality(Repeated)
    /\ Range(warnings) = [kind : {"dropped"}, at : Dropped] \cup [kind : {"duplicate"}, at : Repeated]

\* The search of the children finds a member exactly when the key is a repeated one.
LEMMA DuplicateExact ==
  ASSUME IInv, Indexed, pc = "insert", Placed, Sited, Complete
  PROVE  /\ Top.keyPos \in KeysRead /\ Awaits(Top.keyPos)
         /\ Duplicate > 0 <=> Repeats(Top.keyPos)
<1>1. InObject /\ stack # <<>> /\ Working
  BY DEF Indexed, MemberHeld, InObject, Working
<1>2. KeyNodes /\ MemberKids /\ Pending /\ Inserting /\ Apart
  BY <1>1 DEF Placed, Sited
<1>3. Len(stack) \in WaitingFrames /\ Len(stack) \in 1..Len(stack) /\ PendingAt(Len(stack))
  BY <1>1, <1>2, SomeWait, TopOpened DEF Pending
<1>4. PICK n \in 1..Len(heap) : n = Top.node /\ heap[n].kind = "object"
  BY <1>1, FrameTypes DEF InObject, Container
<1>5. PICK k : k = Top.keyPos
  OBVIOUS
<1>6. /\ k \in KeysRead /\ input[k].v = Top.key /\ Around(input, k) = heap[n].pos
      /\ \A c \in Kids(n) : heap[c].pos < k
  BY <1>1, <1>3, <1>4, <1>5, TopOpened DEF PendingAt
<1>7. heap[val].key = Top.key /\ Top.key \in Keys
  BY <1>2, DuplicateFound DEF Inserting
<1>8. IF Hits(n, Top.key) = {} THEN Duplicate = 0 ELSE Duplicate \in Hits(n, Top.key)
  BY <1>4, <1>7, DuplicateFound
<1>9. Hits(n, Top.key) \subseteq Nat \ {0}
  BY NodeFacts DEF Hits, PlacesOf
<1>10. ASSUME Duplicate > 0 PROVE Repeats(k)
  <2>1. Duplicate \in Hits(n, Top.key)
    BY <1>8, <1>10
  <2>2. PICK d : d \in Kids(n) /\ heap[d].key = Top.key
    BY <2>1 DEF Hits, PlacesOf, Kids
  <2>3. /\ d \in 1..Len(heap) /\ heap[d].kind = "member"
        /\ Around(input, heap[d].pos) = heap[n].pos
    BY <1>2, <1>4, <2>2, KidsTypes DEF MemberKids
  <2>4. heap[d].pos \in KeysRead /\ input[heap[d].pos].v = Top.key
    BY <1>2, <2>2, <2>3 DEF KeyNodes
  <2>5. QED
    BY <1>6, <2>2, <2>3, <2>4 DEF Repeats
<1>11. ASSUME Repeats(k) PROVE Duplicate > 0
  <2>1. PICK j \in KeysRead : j < k /\ Around(input, j) = heap[n].pos /\ input[j].v = Top.key
    BY <1>6, <1>11 DEF Repeats
  <2>2. ~AwaitedKey(n, j)
    <3> SUFFICES ASSUME NEW m \in WaitingFrames, stack[m].node = n, stack[m].keyPos = j PROVE FALSE
      BY DEF AwaitedKey
    <3>1. m \in 1..Len(stack) /\ stack[Len(stack)].node = n /\ stack[Len(stack)].keyPos = k
      BY <1>4, <1>5 DEF WaitingFrames, Top
    <3>2. m = Len(stack)
      BY <1>2, <1>3, <3>1, OpenedApart
    <3>3. j \in Nat /\ j = k
      BY <3>1, <3>2, ConsumedType DEF KeysRead
    <3>4. QED
      BY <2>1, <3>3
  <2>3. ListedKey(n, j)
    BY <1>1, <1>4, <2>1, <2>2 DEF Complete
  <2>4. Hits(n, Top.key) # {}
    BY <2>1, <2>3 DEF ListedKey, Kids, Hits, PlacesOf
  <2>5. Duplicate \in Nat \ {0}
    BY <1>8, <1>9, <2>4
  <2>6. QED
    BY <2>5
<1>12. QED
  BY <1>3, <1>5, <1>6, <1>10, <1>11 DEF Awaits, Top

\* Where a comment is read, and what stands before it.
CommentPlaces == {"lead", "loop", "colon", "keyValue", "inline", "between", "afterComma", "closed",
                  "rootInline", "trail"}

LEMMA CommentRead ==
  ASSUME [Next]_vars, have, have' = FALSE, IsComment(Look)
  PROVE  pc \in CommentPlaces /\ (SkipDroppedComments <=> pc \in {"colon", "keyValue"})
<1>1. Look.k \in Comments
  BY DEF IsComment, Comments
<1>2. pc \in CommentPlaces
  BY <1>1 DEF CommentPlaces, Next, ParseValue, vars, pvars, Scan, Peeks, OverNodes, ParseScalar,
     OpenContainer, TooDeep, ExpectsValue, Sees, Comments, Scalars, Openers, Closers, AtClose,
     SeesClose, NotAValue, CollectHeadComments, SkipDroppedComments, StrictTrailingComma,
     CloseContainer, ReturnContainer, AppendElement, ParseKey, NotAKey, ParseColon, NotAColon,
     MakeMember, RefuseDuplicate, InsertMember, InlineComment, Separator, CloseAhead, NotASeparator,
     AttachAfterComma, BeginRoot, NoRoot, ReturnRoot, RootInline, ConsumeTrailing, Finish, ExtraData
<1>3. pc \in {"colon", "keyValue"} => SkipDroppedComments
  BY <1>1 DEF Next, ParseValue, vars, pvars, Scan, Peeks, OverNodes, ParseScalar,
     OpenContainer, TooDeep, ExpectsValue, Sees, Comments, Scalars, Openers, Closers, AtClose,
     SeesClose, NotAValue, CollectHeadComments, StrictTrailingComma,
     CloseContainer, ReturnContainer, AppendElement, ParseKey, NotAKey, ParseColon, NotAColon,
     MakeMember, RefuseDuplicate, InsertMember, InlineComment, Separator, CloseAhead, NotASeparator,
     AttachAfterComma, BeginRoot, NoRoot, ReturnRoot, RootInline, ConsumeTrailing, Finish, ExtraData
<1>4. SkipDroppedComments => pc \in {"colon", "keyValue"}
  BY DEF SkipDroppedComments
<1>5. QED
  BY <1>2, <1>3, <1>4

LEMMA BetweenAhead ==
  ASSUME IInv, Parsing, have, pc \in CommentPlaces
  PROVE  BetweenKeyAndValue(At) <=> pc \in {"colon", "keyValue"}
<1>1. Prior = Before(input, At)
  BY Facts DEF Prior, Consumed
<1>2. BetweenKeyAndValue(At) <=> Prior # 0 /\ (input[Prior].k = ":" \/ IsKey(input, Prior))
  BY <1>1 DEF BetweenKeyAndValue
<1>3. pc = "colon" => Prior # 0 /\ IsKey(input, Prior)
  BY DEF Parsing, Located, ValueAwaited
<1>4. pc = "keyValue" => Prior # 0 /\ input[Prior].k = ":"
  BY DEF Parsing, Located, ValueAwaited
<1>5. AfterValue => input[Prior].k # ":" /\ ~IsKey(input, Prior)
  BY EndsKinds DEF AfterValue
<1>6. AfterComma => input[Prior].k # ":" /\ ~IsKey(input, Prior)
  BY DEF AfterComma, IsKey
<1>7. ASSUME pc = "loop" PROVE Prior = 0 \/ (input[Prior].k # ":" /\ ~IsKey(input, Prior))
  <2>1. stack # <<>> /\ (Prior = Opened[Len(stack)] \/ AfterComma \/ AfterValue)
    BY <1>7 DEF Parsing, Located, CommaRead
  <2>2. input[Opened[Len(stack)]].k \in {"{", "["}
    BY <1>7, <2>1, AheadFacts
  <2>3. QED
    BY <1>5, <1>6, <2>1, <2>2 DEF IsKey
<1>8. pc = "lead" => Prior = 0
  BY DEF Parsing, Located, ValueAwaited
<1>9. pc \in {"inline", "between", "closed", "rootInline", "trail"} => AfterValue
  BY DEF Parsing, Located, ValueRead, AfterValuePlaces
<1>10. pc = "afterComma" => AfterComma
  BY DEF Parsing, Located, CommaRead
<1>11. QED
  BY <1>2, <1>3, <1>4, <1>5, <1>6, <1>7, <1>8, <1>9, <1>10 DEF CommentPlaces

LEMMA DroppedNext ==
  ASSUME IInv, Parsing, [Next]_vars
  PROVE  /\ Dropped' = Dropped \cup IF SkipDroppedComments /\ IsComment(Look) THEN {At} ELSE {}
         /\ At \in Dropped => ~SkipDroppedComments
<1>1. PICK c \in Nat : c = Consumed
  BY ConsumedType
<1>2. /\ \A i \in 1..c : SamePlace(i)
      /\ \A i \in 1..c : Before(input, i) \in 0..i - 1
  BY <1>1, PlacesRead, BeforeType DEF TextKept
<1>3. ASSUME NEW i \in 1..c
      PROVE  IsComment(input'[i]) /\ BetweenKeyAndValue(i)' <=> IsComment(input[i]) /\ BetweenKeyAndValue(i)
  <2>1. Before(input', i) = Before(input, i) /\ input'[i] = input[i]
    BY <1>2 DEF SamePlace
  <2>2. PICK p \in 0..i - 1 : p = Before(input, i)
    BY <1>2
  <2>3. p # 0 => input'[p] = input[p] /\ (IsKey(input', p) <=> IsKey(input, p))
    <3>1. p # 0 => p \in 1..c
      BY <2>2
    <3>2. QED
      BY <1>2, <3>1 DEF SamePlace
  <2>4. QED
    BY <2>1, <2>2, <2>3 DEF BetweenKeyAndValue
<1>4. SkipDroppedComments => have /\ have' = FALSE /\ UNCHANGED input
  BY DEF SkipDroppedComments, Sees, Bump
<1>5. CASE Consumed' = c
  <2>1. ~SkipDroppedComments
    BY <1>1, <1>4, <1>5 DEF Consumed, At
  <2>2. QED
    BY <1>1, <1>3, <1>5, <2>1 DEF Dropped
<1>6. CASE /\ have /\ have' = FALSE /\ Consumed' = c + 1 /\ At = c + 1 /\ UNCHANGED input
  <2>1. BetweenKeyAndValue(At)' <=> BetweenKeyAndValue(At)
    BY <1>6 DEF BetweenKeyAndValue, At
  <2>2. input'[c + 1] = Look
    BY <1>6 DEF Look
  <2>3. IsComment(Look) => (BetweenKeyAndValue(At) <=> SkipDroppedComments)
    BY <1>6, CommentRead, BetweenAhead
  <2>4. \A i \in 1..c + 1 : i \in 1..c \/ i = c + 1
    OBVIOUS
  <2>5. IsComment(input'[c + 1]) /\ BetweenKeyAndValue(c + 1)' <=> SkipDroppedComments /\ IsComment(Look)
    BY <1>6, <2>1, <2>2, <2>3 DEF At, BetweenKeyAndValue
  <2>6. At \notin Dropped
    BY <1>1, <1>6 DEF Dropped
  <2>7. QED
    BY <1>1, <1>3, <1>6, <2>4, <2>5, <2>6 DEF Dropped
<1>7. QED
  BY <1>1, <1>5, <1>6, ConsumedNext

\* The frames go on to await the keys they did, but for the member inserted.
LEMMA AwaitsNext ==
  ASSUME IInv, IInv', Indexed, Parsing, Lasts(heap, heap'), [Next]_vars, Placed, Sited, Working',
         NEW k \in KeysRead
  PROVE  Awaits(k)' <=> Awaits(k) /\ ~(InsertMember /\ k = Top.keyPos)
<1>1. Pending /\ Apart
  BY WorkingBefore DEF Placed, Sited
<1>2. k \in 1..Consumed
  BY DEF KeysRead
<1>3. ASSUME NEW m \in WaitingFrames', stack'[m].keyPos = k
      PROVE  Awaits(k) /\ ~(InsertMember /\ k = Top.keyPos)
  <2>1. ~(ParseKey /\ m = Len(stack))
    <3> SUFFICES ASSUME ParseKey, m = Len(stack) PROVE FALSE
      OBVIOUS
    <3>1. k = Consumed + 1 /\ Consumed \in Nat
      BY <1>3, KeyStep
    <3>2. QED
      BY <1>2, <3>1
  <2>2. /\ m \in WaitingFrames /\ m \in 1..Len(stack) /\ stack[m].keyPos = k
        /\ InsertMember => stack[m].node # Top.node
    BY <1>3, <2>1, WaitingSame DEF SameKey
  <2>3. ASSUME InsertMember, k = Top.keyPos PROVE FALSE
    <3>1. stack # <<>> /\ PendingAt(Len(stack))
      BY <2>3, MemberInserted
    <3>2. PendingAt(m) /\ Len(stack) \in 1..Len(stack) /\ stack[Len(stack)] = Top
      BY <1>1, <2>2, <3>1, TopOpened DEF Pending
    <3>3. Opened[m] = Opened[Len(stack)]
      BY <2>2, <2>3, <3>1, <3>2 DEF PendingAt
    <3>4. m = Len(stack)
      BY <1>1, <2>2, <3>2, <3>3, OpenedApart
    <3>5. QED
      BY <2>2, <2>3, <3>2, <3>4
  <2>4. QED
    BY <2>2, <2>3 DEF Awaits
<1>4. ASSUME NEW m \in WaitingFrames, stack[m].keyPos = k, ~(InsertMember /\ k = Top.keyPos)
      PROVE  Awaits(k)'
  <2>1. ~(InsertMember /\ m = Len(stack))
    BY <1>4 DEF Top
  <2>2. m \in WaitingFrames' /\ SameKey(stack[m], stack'[m])
    BY <2>1, WaitingStays
  <2>3. QED
    BY <1>4, <2>2 DEF Awaits, SameKey
<1>5. QED
  BY <1>3, <1>4 DEF Awaits

LEMMA RepeatsNext ==
  ASSUME IInv, Parsing, [Next]_vars, NEW k \in KeysRead
  PROVE  Repeats(k)' <=> Repeats(k)
<1>1. PICK c \in Nat : c = Consumed
  BY ConsumedType
<1>2. k \in 1..c /\ k \in KeysRead' /\ input'[k] = input[k] /\ Around(input', k) = Around(input, k)
  BY <1>1, KeyKept
<1>3. \A j \in KeysRead' : j < k => j \in KeysRead
  <2>1. ParseKey => At = c + 1
    BY <1>1, PlacesRead
  <2>2. KeysRead' = KeysRead \cup IF ParseKey THEN {At} ELSE {}
    BY PlacesRead
  <2>3. QED
    BY <1>2, <2>1, <2>2
<1>4. \A j \in KeysRead : /\ j \in KeysRead' /\ input'[j] = input[j]
                          /\ Around(input', j) = Around(input, j)
  BY KeyKept
<1>5. ASSUME Repeats(k)' PROVE Repeats(k)
  BY <1>2, <1>3, <1>4, <1>5 DEF Repeats
<1>6. ASSUME Repeats(k) PROVE Repeats(k)'
  BY <1>2, <1>4, <1>6 DEF Repeats
<1>7. QED
  BY <1>5, <1>6

\* A member inserted is a repeated one exactly when the search found another.
LEMMA RepeatedNext ==
  ASSUME IInv, IInv', Indexed, Parsing, Lasts(heap, heap'), [Next]_vars, Placed, Sited, Complete, Working'
  PROVE  /\ Repeated' = Repeated \cup IF InsertMember /\ Duplicate > 0 THEN {Top.keyPos} ELSE {}
         /\ InsertMember => Top.keyPos \notin Repeated
<1>1. KeysRead' = KeysRead \cup IF ParseKey THEN {At} ELSE {}
  BY PlacesRead
<1>2. \A k \in KeysRead : k \in KeysRead' /\ (Repeats(k)' <=> Repeats(k))
  BY KeyKept, RepeatsNext
<1>3. \A k \in KeysRead : Awaits(k)' <=> Awaits(k) /\ ~(InsertMember /\ k = Top.keyPos)
  BY AwaitsNext
<1>4. InsertMember =>
        /\ Top.keyPos \in KeysRead /\ Awaits(Top.keyPos) /\ (Duplicate > 0 <=> Repeats(Top.keyPos))
  BY DuplicateExact DEF InsertMember
<1>5. ASSUME ParseKey, NEW k, k = At PROVE Awaits(k)' /\ ~InsertMember
  <2>1. stack'[Len(stack)].keyPos = k
    BY <1>5, KeyStep
  <2>2. Len(stack) \in WaitingFrames'
    BY <1>5, WaitingNext, WorkingBefore
  <2>3. ~InsertMember
    BY <1>5 DEF ParseKey, InsertMember
  <2>4. QED
    BY <2>1, <2>2, <2>3 DEF Awaits
<1>6. \A k : k \in Repeated' <=>
        \/ k \in Repeated
        \/ InsertMember /\ Duplicate > 0 /\ k = Top.keyPos
  <2> SUFFICES ASSUME NEW k
               PROVE  k \in Repeated' <=> k \in Repeated \/ (InsertMember /\ Duplicate > 0 /\ k = Top.keyPos)
    OBVIOUS
  <2>1. k \in Repeated' <=> k \in KeysRead' /\ Repeats(k)' /\ ~Awaits(k)'
    BY DEF Repeated
  <2>2. k \in Repeated <=> k \in KeysRead /\ Repeats(k) /\ ~Awaits(k)
    BY DEF Repeated
  <2>3. CASE k \in KeysRead
    <3>1. Awaits(k)' <=> Awaits(k) /\ ~(InsertMember /\ k = Top.keyPos)
      BY <1>3, <2>3
    <3>2. k \in KeysRead' /\ (Repeats(k)' <=> Repeats(k))
      BY <1>2, <2>3
    <3>3. QED
      BY <1>4, <2>1, <2>2, <2>3, <3>1, <3>2
  <2>4. CASE k \notin KeysRead
    <3>1. k \notin Repeated'
      <4>1. CASE k \in KeysRead'
        <5>1. ParseKey /\ k = At
          BY <1>1, <2>4, <4>1
        <5>2. Awaits(k)'
          BY <1>5, <5>1
        <5>3. QED
          BY <2>1, <5>2
      <4>2. QED
        BY <2>1, <4>1
    <3>2. QED
      BY <1>4, <2>2, <2>4, <3>1
  <2>5. QED
    BY <2>3, <2>4
<1>7. Repeated' = Repeated \cup IF InsertMember /\ Duplicate > 0 THEN {Top.keyPos} ELSE {}
  BY <1>6
<1>8. InsertMember => Top.keyPos \notin Repeated
  BY <1>4 DEF Repeated
<1>9. QED
  BY <1>7, <1>8

LEMMA WarningsNext ==
  ASSUME IInv, Indexed, [Next]_vars, Working'
  PROVE  warnings' = IF SkipDroppedComments /\ IsComment(Look)
                     THEN Append(warnings, [kind |-> "dropped", at |-> At])
                     ELSE IF InsertMember /\ Duplicate > 0
                     THEN Append(warnings, [kind |-> "duplicate", at |-> Top.keyPos])
                     ELSE warnings
<1>1. CASE SkipDroppedComments
  <2>1. /\ ~InsertMember
        /\ IsComment(Look) <=> Look.k # "nl"
    BY <1>1 DEF SkipDroppedComments, InsertMember, Sees, Comments, IsComment
  <2>2. QED
    BY <1>1, <2>1 DEF SkipDroppedComments, Warned
<1>2. CASE InsertMember
  <2>1. ~SkipDroppedComments
    BY <1>2 DEF SkipDroppedComments, InsertMember
  <2>2. warnings' = IF Duplicate = 0 THEN warnings ELSE Warned("duplicate", Top.keyPos)
    BY <1>2 DEF InsertMember
  <2>3. Duplicate \in Nat
    <3>1. pc = "insert" /\ Top.node \in 1..Len(heap)
      BY <1>2, DuplicateFound DEF InsertMember
    <3>2. Hits(Top.node, heap[val].key) \subseteq Nat
      BY <3>1, NodeFacts DEF Hits, PlacesOf
    <3>3. QED
      BY <3>1, <3>2, DuplicateFound
  <2>4. QED
    BY <1>2, <2>1, <2>2, <2>3 DEF Warned
<1>3. CASE ~SkipDroppedComments /\ ~InsertMember
  <2>1. warnings' = warnings
    BY <1>3 DEF Next, ParseValue, vars, pvars, Scan, OverNodes, ParseScalar, OpenContainer, TooDeep,
       NotAValue, CollectHeadComments, StrictTrailingComma, CloseContainer, ReturnContainer,
       AppendElement, ParseKey, NotAKey, ParseColon, NotAColon, MakeMember, RefuseDuplicate,
       InlineComment, Separator, CloseAhead, NotASeparator, AttachAfterComma, BeginRoot, NoRoot,
       ReturnRoot, RootInline, ConsumeTrailing, Finish, ExtraData
  <2>2. QED
    BY <1>3, <2>1
<1>4. QED
  BY <1>1, <1>2, <1>3

LEMMA ReportTypes ==
  ASSUME IInv
  PROVE  /\ IsFiniteSet(Dropped) /\ Cardinality(Dropped) \in Nat
         /\ IsFiniteSet(Repeated) /\ Cardinality(Repeated) \in Nat
         /\ warnings \in Seq(Warning) /\ Len(warnings) \in Nat
<1>1. Consumed \in Nat
  BY ConsumedType
<1>2. Dropped \subseteq 1..Consumed /\ Repeated \subseteq 1..Consumed
  BY DEF Dropped, Repeated, KeysRead
<1>3. IsFiniteSet(1..Consumed)
  BY <1>1, FS_Interval
<1>4. QED
  BY <1>2, <1>3, FS_Subset, FS_CardinalityType, Facts, LenProperties

LEMMA NotesAdded ==
  ASSUME NEW x, NEW S, NEW a
  PROVE  [kind : {x}, at : S \cup {a}] = [kind : {x}, at : S] \cup {[kind |-> x, at |-> a]}
<1>1. ASSUME NEW e \in [kind : {x}, at : S \cup {a}]
      PROVE  e \in [kind : {x}, at : S] \/ e = [kind |-> x, at |-> a]
  <2>1. e = [kind |-> x, at |-> e.at] /\ e.at \in S \cup {a}
    OBVIOUS
  <2>2. QED
    BY <2>1
<1>2. ASSUME NEW e \in [kind : {x}, at : S] PROVE e \in [kind : {x}, at : S \cup {a}]
  <2>1. e = [kind |-> x, at |-> e.at] /\ e.at \in S
    OBVIOUS
  <2>2. QED
    BY <2>1
<1>3. [kind |-> x, at |-> a] \in [kind : {x}, at : S \cup {a}]
  OBVIOUS
<1>4. QED
  BY <1>1, <1>2, <1>3

LEMMA RangeAppended ==
  ASSUME NEW S, NEW s \in Seq(S), NEW x \in S
  PROVE  Range(Append(s, x)) = Range(s) \cup {x} /\ Len(Append(s, x)) = Len(s) + 1
<1>1. /\ Len(s) \in Nat /\ DOMAIN s = 1..Len(s)
      /\ Append(s, x) \in Seq(S) /\ Len(Append(s, x)) = Len(s) + 1
      /\ DOMAIN Append(s, x) = 1..Len(s) + 1
      /\ \A i \in 1..Len(s) : Append(s, x)[i] = s[i]
      /\ Append(s, x)[Len(s) + 1] = x
  BY AppendProperties
<1>2. \A i \in 1..Len(s) + 1 : i \in 1..Len(s) \/ i = Len(s) + 1
  BY <1>1
<1>3. QED
  BY <1>1, <1>2 DEF Range

LEMMA ReportedNext ==
  ASSUME IInv, IInv', Indexed, Parsing, Lasts(heap, heap'), [Next]_vars, Placed, Sited, Complete, Reported
  PROVE  Reported'
<1> SUFFICES ASSUME Working'
             PROVE  /\ Len(warnings') = Cardinality(Dropped') + Cardinality(Repeated')
                    /\ Range(warnings') = [kind : {"dropped"}, at : Dropped']
                                            \cup [kind : {"duplicate"}, at : Repeated']
  BY DEF Reported
<1>1. PICK d : d = Dropped /\ IsFiniteSet(d) /\ Cardinality(d) \in Nat
  BY ReportTypes
<1>2. PICK r : r = Repeated /\ IsFiniteSet(r) /\ Cardinality(r) \in Nat
  BY ReportTypes
<1>3. PICK w \in Seq(Warning) : w = warnings
  BY ReportTypes
<1>4. /\ Len(w) = Cardinality(d) + Cardinality(r)
      /\ Range(w) = [kind : {"dropped"}, at : d] \cup [kind : {"duplicate"}, at : r]
  BY <1>1, <1>2, <1>3, WorkingBefore DEF Reported
<1>5. CASE SkipDroppedComments /\ IsComment(Look)
  <2>1. ~InsertMember
    BY <1>5 DEF SkipDroppedComments, InsertMember
  <2>2. Dropped' = d \cup {At} /\ At \notin d /\ Repeated' = r
    BY <1>1, <1>2, <1>5, <2>1, DroppedNext, RepeatedNext
  <2>3. PICK a \in Nat : a = At
    BY Facts
  <2>4. warnings' = Append(w, [kind |-> "dropped", at |-> a])
    BY <1>3, <1>5, <2>3, WarningsNext
  <2>5. [kind |-> "dropped", at |-> a] \in Warning
    BY DEF Warning
  <2>6. Cardinality(d \cup {a}) = Cardinality(d) + 1
    BY <1>1, <2>2, <2>3, FS_AddElement
  <2>7. Range(warnings') = Range(w) \cup {[kind |-> "dropped", at |-> a]} /\ Len(warnings') = Len(w) + 1
    BY <2>4, <2>5, RangeAppended
  <2>8. [kind : {"dropped"}, at : d \cup {a}] = [kind : {"dropped"}, at : d] \cup {[kind |-> "dropped", at |-> a]}
    BY NotesAdded
  <2>9. Len(warnings') = Cardinality(Dropped') + Cardinality(Repeated')
    BY <1>1, <1>2, <1>4, <2>2, <2>3, <2>6, <2>7
  <2>10. QED
    BY <1>4, <2>2, <2>3, <2>7, <2>8, <2>9
<1>6. CASE InsertMember /\ Duplicate > 0
  <2>1. ~SkipDroppedComments
    BY <1>6 DEF SkipDroppedComments, InsertMember
  <2>2. Repeated' = r \cup {Top.keyPos} /\ Top.keyPos \notin r /\ Dropped' = d
    BY <1>1, <1>2, <1>6, <2>1, DroppedNext, RepeatedNext
  <2>3. PICK a \in Nat : a = Top.keyPos
    BY <1>6, MemberInserted, FrameTypes DEF Frame
  <2>4. warnings' = Append(w, [kind |-> "duplicate", at |-> a])
    BY <1>3, <1>6, <2>1, <2>3, WarningsNext
  <2>5. [kind |-> "duplicate", at |-> a] \in Warning
    BY DEF Warning
  <2>6. Cardinality(r \cup {a}) = Cardinality(r) + 1
    BY <1>2, <2>2, <2>3, FS_AddElement
  <2>7. Range(warnings') = Range(w) \cup {[kind |-> "duplicate", at |-> a]} /\ Len(warnings') = Len(w) + 1
    BY <2>4, <2>5, RangeAppended
  <2>8. [kind : {"duplicate"}, at : r \cup {a}] = [kind : {"duplicate"}, at : r] \cup {[kind |-> "duplicate", at |-> a]}
    BY NotesAdded
  <2>9. Len(warnings') = Cardinality(Dropped') + Cardinality(Repeated')
    BY <1>1, <1>2, <1>4, <2>2, <2>3, <2>6, <2>7
  <2>10. QED
    BY <1>4, <2>2, <2>3, <2>7, <2>8, <2>9
<1>7. CASE ~(SkipDroppedComments /\ IsComment(Look)) /\ ~(InsertMember /\ Duplicate > 0)
  <2>1. Dropped' = d /\ Repeated' = r /\ warnings' = w
    BY <1>1, <1>2, <1>3, <1>7, DroppedNext, RepeatedNext, WarningsNext
  <2>2. QED
    BY <1>4, <2>1
<1>8. QED
  BY <1>5, <1>6, <1>7

\* What the warnings follow from, with the lemmas above.
Reporting == Placed /\ Sited /\ Complete /\ Reported

LEMMA InitReporting == ASSUME Init PROVE Sited /\ Complete /\ Reported
<1>1. /\ heap = <<>> /\ stack = <<>> /\ warnings = <<>> /\ input = <<>> /\ have = FALSE
  BY DEF Init, ParserInit
<1>2. Len(heap) = 0 /\ Len(stack) = 0 /\ Consumed = 0 /\ Len(warnings) = 0 /\ 1..0 = {}
  BY <1>1 DEF Consumed, At
<1>3. WaitingFrames = {} /\ KeysRead = {} /\ Dropped = {} /\ Repeated = {}
  BY <1>2 DEF WaitingFrames, KeysRead, Dropped, Repeated
<1>4. Sited /\ Complete
  BY <1>2, <1>3 DEF Sited, Complete, ValueNodes, Apart, Vacant, Latest
<1>5. Range(warnings) = {} /\ Cardinality({}) = 0
  BY <1>1, FS_EmptySet DEF Range
<1>6. Reported
  BY <1>2, <1>3, <1>5 DEF Reported
<1>7. QED
  BY <1>4, <1>6

LEMMA NextReporting == IInv /\ IInv' /\ Indexed /\ Parsing /\ Reporting /\ [Next]_vars => Reporting'
BY NodesLast, PlacedNext, SitedNext, CompleteNext, ReportedNext DEF Reporting

\* A text accepted has no object left that awaits a member, and no comment
\* after the last token consumed.
LEMMA WarningsFollow == IInv /\ Parsing /\ Reporting => WarningsExact
<1> SUFFICES ASSUME IInv, Parsing, Reported, Accepted PROVE WarningsExact
  BY DEF Reporting, WarningsExact
<1>1. pc = "done" /\ stack = <<>> /\ Look.k = "eof"
  BY DEF Accepted, Parsing, Located, ValueRead, LanguageExact
<1>2. Working /\ WaitingFrames = {}
  <2>1. Len(stack) = 0
    BY <1>1, StackEmpty
  <2>2. QED
    BY <1>1, <2>1 DEF WaitingFrames, Working
<1>3. KeyPlaces = KeysRead
  BY <1>1, PlacesAhead
<1>4. Repeated = {i \in KeyPlaces : \E j \in KeyPlaces :
                    j < i /\ Around(input, j) = Around(input, i) /\ input[j].v = input[i].v}
  BY <1>2, <1>3 DEF Repeated, Repeats, Awaits
<1>5. Dropped = {i \in 1..At : IsComment(input[i]) /\ BetweenKeyAndValue(i)}
  <2>1. PICK a \in Nat : a = At
    BY Facts
  <2>2. PICK c \in Nat : c = Consumed
    BY ConsumedType
  <2>3. c = a \/ a = c + 1
    BY <2>1, <2>2 DEF Consumed
  <2>4. \A i \in 1..a : IsComment(input[i]) => i # a
    BY <1>1, <2>1 DEF Look, IsComment
  <2>5. \A i \in 1..a : i # a => i \in 1..c
    BY <2>3
  <2>6. 1..c \subseteq 1..a
    BY <2>3
  <2>7. QED
    BY <2>1, <2>2, <2>4, <2>5, <2>6 DEF Dropped
<1>6. QED
  BY <1>2, <1>4, <1>5 DEF Reported, WarningsExact

\* A warning is reported for every comment dropped between a key and its
\* value and for every member that superseded another of its key, once each,
\* and for nothing else (skipDroppedComments, warnf and the duplicate check of
\* parseObject), whatever the text, memberIndexMin and the options.
THEOREM WarningsAreExact == Spec => []WarningsExact
<1>1. Init => Reporting
  BY InitReporting, InitMeasured DEF Reporting, Measured
<1>2. IInv /\ IInv' /\ Indexed /\ Parsing /\ Reporting /\ [Next]_vars => Reporting'
  BY NextReporting
<1>3. IInv /\ Parsing /\ Reporting => WarningsExact
  BY WarningsFollow
<1>4. QED
  BY <1>1, <1>2, <1>3, Inductive, AlwaysIndexed, AlwaysParsing, PTL DEF Spec

-----------------------------------------------------------------------------
(* The frames and their containers. *)

LEMMA FrameStays ==
  ASSUME IInv, IInv', Lasts(heap, heap'), [Next]_vars, Working',
         NEW m \in 1..Len(stack), m \in 1..Len(stack')
  PROVE  /\ stack[m].node \in 1..Len(heap) /\ stack'[m].node = stack[m].node
         /\ Opened'[m] = Opened[m]
         /\ heap'[stack'[m].node].kind = heap[stack[m].node].kind
         /\ (ParseKey /\ m = Len(stack)) \/ stack'[m].keyPos = stack[m].keyPos
<1>1. pc' # "error"
  BY WorkingBefore
<1>2. stack[m].node \in 1..Len(heap)
  BY DEF IInv, FramesOK
<1>3. stack'[m].node = stack[m].node /\ ((ParseKey /\ m = Len(stack)) \/ SameKey(stack[m], stack'[m]))
  <2>1. CASE OpenContainer
    BY <2>1, FramesOpened DEF SameKey
  <2>2. CASE ReturnContainer
    BY <2>2, FramesLeft DEF SameKey
  <2>3. CASE FramesKept
    BY <2>3 DEF FramesKept
  <2>4. QED
    BY <1>1, <2>1, <2>2, <2>3, FramesLast
<1>4. QED
  BY <1>2, <1>3, LastsFacts DEF Opened, SameKey

\* The frames a step has.
LEMMA StackNext ==
  ASSUME IInv, IInv', [Next]_vars, Working'
  PROVE  /\ Len(stack) \in Nat
         /\ \/ OpenContainer /\ Len(stack') = Len(stack) + 1
               /\ stack'[Len(stack) + 1].node = Len(heap) + 1 /\ Len(heap') = Len(heap) + 1
            \/ ReturnContainer /\ Len(stack') = Len(stack) - 1 /\ Len(stack) \in 1..Len(stack)
            \/ ~OpenContainer /\ ~ReturnContainer /\ Len(stack') = Len(stack)
<1>1. pc' # "error" /\ Len(stack) \in Nat
  BY WorkingBefore, Facts
<1>2. CASE OpenContainer
  <2>1. PICK x \in Node : heap' = Append(heap, x)
    BY <1>2, Allocated
  <2>2. Len(heap') = Len(heap) + 1
    BY <2>1, Facts, AppendProperties
  <2>3. stack'[Len(stack) + 1].node = Len(heap) + 1 /\ Len(stack') = Len(stack) + 1
    BY <1>2, FramesOpened, NewFrameType, Facts
  <2>4. QED
    BY <1>1, <1>2, <2>2, <2>3
<1>3. CASE ReturnContainer
  BY <1>1, <1>3, FramesLeft, StackEmpty
<1>4. CASE ~OpenContainer /\ ~ReturnContainer
  BY <1>1, <1>4, FramesLast DEF FramesKept
<1>5. QED
  BY <1>1, <1>2, <1>3, <1>4

\* A container's kind is that of its opening delimiter; only containers have frames.
Sorts ==
  Working =>
    /\ \A n \in 1..Len(heap) :
         /\ heap[n].kind = "object" => input[heap[n].pos].k = "{"
         /\ heap[n].kind = "array" => input[heap[n].pos].k = "["
    /\ \A m \in 1..Len(stack) : heap[stack[m].node].kind \in {"object", "array"}

LEMMA SortsNext ==
  ASSUME IInv, IInv', Indexed, Parsing, Lasts(heap, heap'), [Next]_vars, Placed, Sited, Sorts
  PROVE  Sorts'
<1> SUFFICES ASSUME Working'
             PROVE  /\ \A n \in 1..Len(heap') :
                         /\ heap'[n].kind = "object" => input'[heap'[n].pos].k = "{"
                         /\ heap'[n].kind = "array" => input'[heap'[n].pos].k = "["
                    /\ \A m \in 1..Len(stack') : heap'[stack'[m].node].kind \in {"object", "array"}
  BY DEF Sorts
<1>1. Working /\ KeyNodes /\ ValueNodes
  BY WorkingBefore DEF Placed, Sited
<1>2. ASSUME NEW n \in 1..Len(heap'), heap'[n].kind \in {"object", "array"}
      PROVE  input'[heap'[n].pos].k = IF heap'[n].kind = "object" THEN "{" ELSE "["
  <2>1. CASE n \in 1..Len(heap)
    <3>1. heap'[n].kind = heap[n].kind /\ heap'[n].pos = heap[n].pos
      BY <2>1, LastsFacts
    <3>2. heap[n].pos \in Starts
      BY <1>1, <1>2, <2>1, <3>1 DEF ValueNodes
    <3>3. input'[heap[n].pos] = input[heap[n].pos]
      BY <3>2, StartKept
    <3>4. QED
      BY <1>1, <1>2, <2>1, <3>1, <3>3 DEF Sorts
  <2>2. CASE n \notin 1..Len(heap)
    <3>1. OpenContainer /\ heap'[n].pos = At /\ heap'[n].kind = IF Look.k = "{" THEN "object" ELSE "array"
      BY <1>2, <2>2, NodesNext
    <3>2. input' = input /\ Look.k \in {"{", "["}
      BY <3>1 DEF OpenContainer, Openers
    <3>3. QED
      BY <3>1, <3>2 DEF Look
  <2>3. QED
    BY <2>1, <2>2
<1>3. ASSUME NEW m \in 1..Len(stack') PROVE heap'[stack'[m].node].kind \in {"object", "array"}
  <2>1. CASE m \in 1..Len(stack)
    BY <1>1, <2>1, FrameStays DEF Sorts
  <2>2. CASE m \notin 1..Len(stack)
    <3>1. OpenContainer /\ m = Len(stack) + 1 /\ stack'[m].node = Len(heap) + 1
          /\ Len(heap) + 1 \in 1..Len(heap') /\ Len(heap) + 1 \notin 1..Len(heap)
      BY <2>2, StackNext, Facts
    <3>2. ~ParseScalar /\ ~MakeMember
      BY <3>1 DEF OpenContainer, ParseScalar, MakeMember, ExpectsValue, Openers, Scalars
    <3>3. heap'[Len(heap) + 1].kind = IF Look.k = "{" THEN "object" ELSE "array"
      BY <3>1, <3>2, NodesNext
    <3>4. QED
      BY <3>1, <3>3
  <2>3. QED
    BY <2>1, <2>2
<1>4. QED
  BY <1>2, <1>3

-----------------------------------------------------------------------------
(* A value and the container it goes to. *)

\* The value that starts at p goes to the container of the frame m: as the
\* value of the key it holds, or as an element after those it has.
Fits(p, m) ==
  /\ Around(input, p) = Opened[m]
  /\ heap[stack[m].node].kind = "object" => ChildOf(input, p) = stack[m].keyPos
  /\ \A c \in Kids(stack[m].node) : heap[c].pos < p
\* A container goes to that of the frame below; a value returned to the top one's.
Returned ==
  Working =>
    /\ \A m \in 1..Len(stack) : m < Len(stack) => Fits(Opened[m + 1], m)
    /\ pc = "return" =>
         /\ val \in 1..Len(heap) /\ heap[val].kind # "member"
         /\ stack # <<>> => Fits(heap[val].pos, Len(stack))

LEMMA FitsStays ==
  ASSUME IInv, IInv', Indexed, Parsing, Lasts(heap, heap'), [Next]_vars, Working',
         NEW p \in Starts, NEW m \in 1..Len(stack), m \in 1..Len(stack'), Fits(p, m),
         ~(ParseKey /\ m = Len(stack)), m < Len(stack) \/ ~(AppendElement \/ InsertMember)
  PROVE  Fits(p, m)'
<1>1. /\ stack'[m].node = stack[m].node /\ Opened'[m] = Opened[m]
      /\ heap'[stack'[m].node].kind = heap[stack[m].node].kind /\ stack'[m].keyPos = stack[m].keyPos
  BY FrameStays
<1>2. PICK n \in 1..Len(heap) : n = stack[m].node
  BY FrameStays
<1>3. Around(input', p) = Around(input, p) /\ ChildOf(input', p) = ChildOf(input, p)
  BY StartKept
<1>4. (AppendElement \/ InsertMember) => n # Top.node
  <2> SUFFICES ASSUME m < Len(stack) PROVE n # Top.node
    OBVIOUS
  <2>1. Len(stack) \in 1..Len(stack) /\ stack[Len(stack)].node \in 1..Len(heap)
    BY Facts DEF IInv, FramesOK
  <2>2. n < stack[Len(stack)].node
    BY <1>2, <2>1 DEF Indexed, Nested
  <2>3. QED
    BY <1>2, <2>1, <2>2 DEF Top
<1>5. ASSUME NEW c \in Kids(n)' PROVE heap'[c].pos < p
  <2>1. c \in Kids(n)
    BY <1>4, <1>5, KidsNext
  <2>2. heap'[c].pos = heap[c].pos
    BY <2>1, KidsTypes, LastsFacts
  <2>3. QED
    BY <1>2, <2>1, <2>2 DEF Fits
<1>6. QED
  BY <1>1, <1>2, <1>3, <1>5 DEF Fits

LEMMA FitsNew ==
  ASSUME IInv, IInv', Indexed, Parsing, Lasts(heap, heap'), [Next]_vars, Placed, Sited, Working',
         ParseScalar \/ OpenContainer, stack # <<>>, NEW m, m = Len(stack), NEW p, p = At
  PROVE  m \in 1..Len(stack) /\ m \in 1..Len(stack') /\ p \in Starts' /\ Fits(p, m)'
<1>1. /\ have /\ input' = input /\ pc \in {"value", "keyValue", "loop"} /\ (pc = "loop" => InArray)
      /\ ~AppendElement /\ ~InsertMember /\ ~ReturnContainer
  BY DEF ParseScalar, OpenContainer, ExpectsValue, AppendElement, InsertMember, ReturnContainer
<1>2. p \in Starts' /\ p = Consumed + 1 /\ Consumed \in Nat /\ ~ParseKey
  BY PlacesRead, Reads
<1>3. m \in 1..Len(stack) /\ m \in 1..Len(stack')
  BY <1>1, TopOpened, StackNext
<1>4. PICK n \in 1..Len(heap) : n = stack[m].node /\ n = Top.node
  BY <1>3, TopOpened
<1>5. /\ stack'[m].node = n /\ Opened'[m] = Opened[m]
      /\ heap'[n].kind = heap[n].kind /\ stack'[m].keyPos = stack[m].keyPos
  <2>1. /\ stack'[m].node = stack[m].node /\ Opened'[m] = Opened[m]
        /\ heap'[stack'[m].node].kind = heap[stack[m].node].kind
        /\ (ParseKey /\ m = Len(stack)) \/ stack'[m].keyPos = stack[m].keyPos
    BY <1>3, FrameStays
  <2>2. stack'[m].keyPos = stack[m].keyPos
    BY <1>2, <2>1
  <2>3. QED
    BY <1>4, <2>1, <2>2
<1>6. Around(input, p) = Opened[m] /\ (Within(input, p, "{") <=> heap[n].kind = "object")
  BY <1>1, <1>4, AheadFacts DEF InObject, Container
<1>7. ASSUME heap[n].kind = "object" PROVE ChildOf(input, p) = stack[m].keyPos
  <2>1. pc = "keyValue" /\ InObject
    BY <1>1, <1>4, <1>7 DEF InObject, InArray, Container, Parsing, Located, ValueAwaited
  <2>2. m \in WaitingFrames
    BY <1>3, <1>4, <1>7, <2>1 DEF WaitingFrames, Waiting, WaitingPlaces
  <2>3. /\ PendingAt(m)
        /\ \A k \in KeysRead : Around(input, k) = Opened[m] => k <= stack[m].keyPos
    BY <2>2, WorkingBefore DEF Placed, Pending, Sited, Latest
  <2>4. ~IsKey(input, p)
    BY <1>1, <1>2 DEF Starts, IsValueStart
  <2>5. PICK S : S = {j \in 1..p : IsKey(input, j) /\ Around(input, j) = Around(input, p)}
    OBVIOUS
  <2>6. S \subseteq KeysRead /\ S \subseteq Nat /\ stack[m].keyPos \in S
    <3>1. PICK c \in Nat : c = Consumed /\ p = c + 1
      BY <1>2
    <3>2. PICK k : k = stack[m].keyPos
      OBVIOUS
    <3>3. KeysRead = {i \in 1..c : IsKey(input, i)}
      BY <3>1 DEF KeysRead
    <3>4. k \in KeysRead /\ Around(input, k) = Around(input, p)
      BY <1>6, <2>3, <3>2 DEF PendingAt
    <3>5. \A y \in S : y # p /\ y \in 1..c
      BY <2>4, <2>5, <3>1
    <3>6. S \subseteq KeysRead /\ S \subseteq Nat
      BY <2>5, <3>3, <3>5
    <3>7. k \in S
      BY <2>5, <3>1, <3>3, <3>4
    <3>8. QED
      BY <3>2, <3>6, <3>7
  <2>7. \A y \in S : y <= stack[m].keyPos
    BY <1>6, <2>3, <2>5, <2>6
  <2>8. Largest(S) = stack[m].keyPos
    BY <2>6, <2>7, LargestIs
  <2>9. QED
    BY <1>6, <1>7, <2>5, <2>8 DEF ChildOf
<1>8. ASSUME NEW c \in Kids(n)' PROVE heap'[c].pos < p
  <2>1. c \in Kids(n)
    BY <1>1, <1>8, KidsNext
  <2>2. c \in 1..Len(heap) /\ heap'[c].pos = heap[c].pos
    BY <2>1, KidsTypes, LastsFacts
  <2>3. heap[c].pos \in 1..Consumed
    BY <2>2, NodePlaces, WorkingBefore DEF Placed, Sited
  <2>4. QED
    BY <1>2, <2>2, <2>3
<1>9. QED
  BY <1>1, <1>2, <1>3, <1>5, <1>6, <1>7, <1>8 DEF Fits

LEMMA ReturnedNext ==
  ASSUME IInv, IInv', Indexed, Parsing, Lasts(heap, heap'), [Next]_vars, Placed, Sited, Sorts, Returned
  PROVE  Returned'
<1> SUFFICES ASSUME Working'
             PROVE  /\ \A m \in 1..Len(stack') : m < Len(stack') => Fits(Opened[m + 1], m)'
                    /\ pc' = "return" =>
                         /\ val' \in 1..Len(heap') /\ heap'[val'].kind # "member"
                         /\ stack' # <<>> => Fits(heap[val].pos, Len(stack))'
  BY DEF Returned
<1>1. Working /\ ValueNodes
  BY WorkingBefore DEF Sited
<1>2. PICK l \in Nat : l = Len(stack)
  BY Facts
<1>3. ASSUME NEW m \in 1..l
      PROVE  /\ Opened[m] \in Starts
             /\ m < l => Fits(Opened[m + 1], m)
  <2>1. stack[m].node \in 1..Len(heap) /\ heap[stack[m].node].kind # "member"
    BY <1>1, <1>2 DEF Sorts, IInv, FramesOK
  <2>2. QED
    BY <1>1, <1>2, <2>1 DEF ValueNodes, Opened, Returned
<1>4. ASSUME NEW m \in 1..Len(stack'), m < Len(stack'), NEW p, p = Opened'[m + 1] PROVE Fits(p, m)'
  <2>1. m + 1 \in 1..Len(stack')
    BY <1>4, Facts
  <2>2. CASE m + 1 <= l
    <3>1. m \in 1..l /\ m + 1 \in 1..l /\ m < l
      BY <1>2, <2>2
    <3>2. p = Opened[m + 1] /\ p \in Starts /\ Fits(p, m)
      BY <1>2, <1>3, <1>4, <2>1, <3>1, FrameStays
    <3>3. QED
      BY <1>2, <1>4, <3>1, <3>2, FitsStays
  <2>3. CASE ~(m + 1 <= l)
    <3>1. OpenContainer /\ m = l /\ stack'[l + 1].node = Len(heap) + 1 /\ Len(heap') = Len(heap) + 1
      BY <1>2, <1>4, <2>3, StackNext
    <3>2. PICK x \in Node : heap' = Append(heap, x) /\ x.pos = At
      BY <3>1, Allocated
    <3>3. p = At
      BY <1>4, <2>1, <3>1, <3>2, Facts, AppendProperties DEF Opened
    <3>4. stack # <<>> /\ m = Len(stack)
      BY <1>2, <1>4, <3>1, StackEmpty
    <3>5. QED
      BY <3>1, <3>3, <3>4, FitsNew
  <2>4. QED
    BY <2>2, <2>3
<1>5. ASSUME pc' = "return"
      PROVE  /\ val' \in 1..Len(heap') /\ heap'[val'].kind # "member"
             /\ \A p, m : stack' # <<>> /\ p = heap'[val'].pos /\ m = Len(stack') => Fits(p, m)'
  <2>1. UNCHANGED vars \/ ParseScalar \/ ReturnContainer
    BY <1>5 DEF Next, ParseValue, vars, pvars, Working, Scan, Peeks, OverNodes, OpenContainer, TooDeep,
      NotAValue, CollectHeadComments, SkipDroppedComments, StrictTrailingComma, BumpNodeCount,
      CloseContainer, AppendElement, ParseKey, NotAKey, ParseColon, NotAColon,
      MakeMember, RefuseDuplicate, InsertMember, InlineComment, Separator, CloseAhead, NotASeparator,
      AttachAfterComma, BeginRoot, NoRoot, ReturnRoot, RootInline, ConsumeTrailing, Finish, ExtraData,
      Fail, Stop
  <2>2. CASE UNCHANGED vars
    <3>1. /\ val \in 1..Len(heap) /\ heap[val].kind # "member" /\ pc = "return"
          /\ stack # <<>> => Fits(heap[val].pos, Len(stack))
      BY <1>1, <1>5, <2>2 DEF Returned, vars, pvars
    <3>2. \A p, m : Fits(p, m)' <=> Fits(p, m)
      BY <2>2 DEF Fits, Opened, Kids, vars, pvars
    <3>3. QED
      BY <2>2, <3>1, <3>2 DEF vars, pvars
  <2>3. CASE ParseScalar
    <3>1. PICK x \in Node : heap' = Append(heap, x) /\ x.kind = "scalar" /\ x.pos = At
      BY <2>3, Allocated
    <3>2. val' = Len(heap) + 1
      BY <2>3 DEF ParseScalar
    <3>3. val' \in 1..Len(heap') /\ heap'[val'] = x
      BY <3>1, <3>2, Facts, AppendProperties
    <3>4. Len(stack') = Len(stack)
      BY <2>3, StackNext DEF ParseScalar, OpenContainer, ReturnContainer, ExpectsValue, Openers, Scalars
    <3>5. stack' # <<>> => stack # <<>>
      BY <3>4, Facts, StackEmpty
    <3>6. QED
      BY <2>3, <3>1, <3>3, <3>4, <3>5, FitsNew
  <2>4. CASE ReturnContainer
    <3>1. /\ val' = Top.node /\ Len(stack') = l - 1 /\ stack # <<>>
          /\ ~ParseKey /\ ~AppendElement /\ ~InsertMember
      BY <1>2, <2>4, FramesLeft DEF ReturnContainer, ParseKey, AppendElement, InsertMember
    <3>2. l \in 1..l /\ Top.node \in 1..Len(heap) /\ stack[l] = Top /\ Opened[l] = heap[Top.node].pos
      BY <1>2, <3>1, TopOpened
    <3>3. heap[Top.node].kind # "member"
      BY <1>1, <1>2, <3>2 DEF Sorts
    <3>4. /\ val' \in 1..Len(heap') /\ heap'[val'].kind # "member"
          /\ heap'[val'].pos = Opened[l]
      BY <3>1, <3>2, <3>3, LastsFacts
    <3>5. ASSUME NEW p, NEW m, stack' # <<>>, p = heap'[val'].pos, m = Len(stack') PROVE Fits(p, m)'
      <4>1. m \in 1..l /\ m \in 1..Len(stack') /\ m < l /\ m + 1 = l
        <5>1. Len(stack') # 0 /\ Len(stack') \in Nat
          BY <3>5 DEF IInv, TypeOK, ParserTypeOK
        <5>2. QED
          BY <3>1, <3>2, <3>5, <5>1
      <4>2. p = Opened[m + 1] /\ p \in Starts /\ Fits(p, m)
        BY <1>3, <3>2, <3>4, <3>5, <4>1
      <4>3. QED
        BY <1>2, <3>1, <4>1, <4>2, FitsStays
    <3>6. QED
      BY <3>4, <3>5
  <2>5. QED
    BY <2>1, <2>2, <2>3, <2>4
<1>6. QED
  BY <1>4, <1>5 DEF Fits

-----------------------------------------------------------------------------
(* The values of the members and the elements of the arrays. *)

\* The steps that assign children.
LEMMA ChildrenNext ==
  ASSUME IInv, IInv', Indexed, [Next]_vars, NEW n \in 1..Len(heap), NEW old, old = heap[n].children
  PROVE  \/ heap'[n].children = old
         \/ /\ n = Top.node /\ stack # <<>>
            /\ \/ AppendElement /\ heap'[n].children = Append(old, val)
               \/ InsertMember /\ heap'[n].children = Superseding(old, Duplicate)
               \/ CloseContainer /\ heap'[n].children = IF Top.removed > 0 THEN RemoveNil(old) ELSE old
<1>1. CASE ParseScalar \/ OpenContainer \/ MakeMember
  <2>1. PICK x \in Node : heap' = Append(heap, x)
    BY <1>1, Allocated
  <2>2. heap'[n] = heap[n]
    BY <2>1, Facts, AppendProperties
  <2>3. QED
    BY <2>2
<1>2. CASE AppendElement
  <2>1. PICK d : d = Append(Container.children, val)
    OBVIOUS
  <2>2. heap'[n].children = IF n = Top.node THEN d ELSE heap[n].children
    BY <1>2, <2>1, AppendHeap DEF OnlyChildren
  <2>3. stack # <<>>
    BY <1>2 DEF AppendElement, InArray
  <2>4. QED
    BY <1>2, <2>1, <2>2, <2>3 DEF Container
<1>3. CASE InsertMember
  <2>1. PICK d : d = Superseding(Container.children, Duplicate)
    OBVIOUS
  <2>2. heap'[n].children = IF n = Top.node THEN d ELSE heap[n].children
    BY <1>3, <2>1, InsertHeap DEF OnlyChildren
  <2>3. stack # <<>>
    BY <1>3 DEF InsertMember, Indexed, MemberHeld, InObject
  <2>4. QED
    BY <1>3, <2>1, <2>2, <2>3 DEF Container
<1>4. CASE CloseContainer
  <2>1. PICK d : d = IF Top.removed > 0 THEN RemoveNil(Container.children) ELSE Container.children
    OBVIOUS
  <2>2. heap'[n].children = IF n = Top.node THEN d ELSE heap[n].children
    BY <1>4, <2>1, CloseHeap DEF OnlyChildren
  <2>3. stack # <<>>
    BY <1>4 DEF CloseContainer, AtClose, SeesClose, InObject, InArray
  <2>4. QED
    BY <1>4, <2>1, <2>2, <2>3 DEF Container
<1>5. CASE ~(ParseScalar \/ OpenContainer \/ MakeMember \/ AppendElement \/ InsertMember \/ CloseContainer)
  BY <1>5, KeptSteps DEF KeptHeap
<1>6. QED
  BY <1>1, <1>2, <1>3, <1>4, <1>5

\* A member has one child, the value that follows its key.
MemberValue(n) ==
  \E c \in 1..Len(heap) :
    /\ heap[n].children = <<c>> /\ heap[c].kind # "member"
    /\ ChildOf(input, heap[c].pos) = heap[n].pos
    /\ Around(input, heap[c].pos) = Around(input, heap[n].pos)
MemberValues == Working => \A n \in 1..Len(heap) : heap[n].kind = "member" => MemberValue(n)
\* The elements of an array are values directly in it.
ArrayKids ==
  Working => \A n \in 1..Len(heap) : heap[n].kind = "array" =>
    \A c \in Kids(n) : heap[c].kind # "member" /\ Around(input, heap[c].pos) = heap[n].pos
\* A value in an object follows a key of the same object.
KeyedStarts ==
  Working => \A i \in Starts : Within(input, i, "{") =>
    ChildOf(input, i) \in KeysRead /\ Around(input, ChildOf(input, i)) = Around(input, i)

LEMMA MemberValuesNext ==
  ASSUME IInv, IInv', Indexed, Parsing, Lasts(heap, heap'), [Next]_vars, Placed, Sited, Sorts, Returned,
         MemberValues
  PROVE  MemberValues'
<1> SUFFICES ASSUME Working', NEW n \in 1..Len(heap'), heap'[n].kind = "member" PROVE MemberValue(n)'
  BY DEF MemberValues
<1>1. Working /\ KeyNodes /\ ValueNodes /\ Pending
  BY WorkingBefore DEF Placed, Sited
<1>2. CASE n \in 1..Len(heap)
  <2>1. heap[n].kind = "member" /\ heap'[n].pos = heap[n].pos
    BY <1>2, LastsFacts
  <2>2. PICK c \in 1..Len(heap) :
          /\ heap[n].children = <<c>> /\ heap[c].kind # "member"
          /\ ChildOf(input, heap[c].pos) = heap[n].pos
          /\ Around(input, heap[c].pos) = Around(input, heap[n].pos)
    BY <1>1, <1>2, <2>1 DEF MemberValues, MemberValue
  <2>3. heap'[n].children = <<c>>
    <3>1. stack # <<>> => n # Top.node
      BY <1>1, <2>1, TopOpened DEF Sorts
    <3>2. QED
      BY <1>2, <2>2, <3>1, ChildrenNext
  <2>4. c \in 1..Len(heap') /\ heap'[c].kind # "member" /\ heap'[c].pos = heap[c].pos
    BY <2>2, LastsFacts
  <2>5. heap[c].pos \in Starts /\ heap[n].pos \in KeysRead
    BY <1>1, <1>2, <2>1, <2>2 DEF ValueNodes, KeyNodes
  <2>6. QED
    BY <2>1, <2>2, <2>3, <2>4, <2>5, StartKept, KeyKept DEF MemberValue
<1>3. CASE n \notin 1..Len(heap)
  <2>1. MakeMember /\ heap'[n].children = <<val>> /\ heap'[n].pos = Top.keyPos
    BY <1>3, NodesNext
  <2>2. pc = "return" /\ InObject /\ stack # <<>> /\ heap[Top.node].kind = "object"
    BY <2>1 DEF MakeMember, InObject, Container
  <2>3. val \in 1..Len(heap) /\ heap[val].kind # "member" /\ Fits(heap[val].pos, Len(stack))
    BY <1>1, <2>2 DEF Returned
  <2>4. heap[val].pos \in Starts /\ PendingAt(Len(stack)) /\ stack[Len(stack)] = Top
    BY <1>1, <2>2, <2>3, SomeWait, TopOpened DEF ValueNodes, Pending
  <2>5. /\ ChildOf(input, heap[val].pos) = Top.keyPos
        /\ Around(input, heap[val].pos) = Around(input, Top.keyPos)
        /\ Top.keyPos \in KeysRead
    BY <2>2, <2>3, <2>4 DEF Fits, PendingAt
  <2>6. val \in 1..Len(heap') /\ heap'[val].kind # "member" /\ heap'[val].pos = heap[val].pos
    BY <2>3, LastsFacts
  <2>7. QED
    BY <2>1, <2>4, <2>5, <2>6, StartKept, KeyKept DEF MemberValue
<1>4. QED
  BY <1>2, <1>3

LEMMA ArrayKidsNext ==
  ASSUME IInv, IInv', Indexed, Parsing, Lasts(heap, heap'), [Next]_vars, Placed, Sited, Sorts, Returned,
         ArrayKids
  PROVE  ArrayKids'
<1> SUFFICES ASSUME Working', NEW n \in 1..Len(heap'), heap'[n].kind = "array", NEW c \in Kids(n)'
             PROVE  heap'[c].kind # "member" /\ Around(input', heap'[c].pos) = heap'[n].pos
  BY DEF ArrayKids
<1>1. Working /\ ValueNodes
  BY WorkingBefore DEF Sited
<1>2. n \in 1..Len(heap)
  BY NodesNext
<1>3. heap[n].kind = "array" /\ heap'[n].pos = heap[n].pos
  BY <1>2, LastsFacts
<1>4. c \in 1..Len(heap) /\ heap[c].kind # "member" /\ Around(input, heap[c].pos) = heap[n].pos
  <2>1. CASE c \in Kids(n)
    BY <1>1, <1>2, <1>3, <2>1, KidsTypes DEF ArrayKids
  <2>2. CASE c \notin Kids(n)
    <3>1. (AppendElement \/ InsertMember) /\ n = Top.node /\ c = val
      BY <1>2, <2>2, KidsNext
    <3>2. ~InsertMember
      BY <1>3, <3>1 DEF InsertMember, Indexed, MemberHeld, InObject, Container
    <3>3. pc = "return" /\ stack # <<>>
      BY <3>1, <3>2 DEF AppendElement, InArray
    <3>4. Fits(heap[val].pos, Len(stack)) /\ val \in 1..Len(heap) /\ heap[val].kind # "member"
      BY <1>1, <3>3 DEF Returned
    <3>5. QED
      BY <3>1, <3>3, <3>4, TopOpened DEF Fits
  <2>3. QED
    BY <2>1, <2>2
<1>5. heap[c].pos \in Starts /\ heap'[c].pos = heap[c].pos /\ heap'[c].kind = heap[c].kind
  BY <1>1, <1>4, LastsFacts DEF ValueNodes
<1>6. QED
  BY <1>3, <1>4, <1>5, StartKept

LEMMA StartAround ==
  ASSUME IInv, NEW i \in Starts
  PROVE  Around(input, i) # 0 => Around(input, i) \in 1..Consumed
<1>1. PICK c \in Nat : c = Consumed
  BY ConsumedType
<1>2. i \in 1..c
  BY <1>1 DEF Starts
<1>3. Around(input, i) \in 0..i - 1
  BY <1>2, AroundType
<1>4. QED
  BY <1>1, <1>2, <1>3

LEMMA KeyedStartsNext ==
  ASSUME IInv, IInv', Indexed, Parsing, Lasts(heap, heap'), [Next]_vars, Placed, Sited, KeyedStarts
  PROVE  KeyedStarts'
<1> SUFFICES ASSUME Working', NEW i \in Starts', Within(input', i, "{")
             PROVE  ChildOf(input', i) \in KeysRead' /\ Around(input', ChildOf(input', i)) = Around(input', i)
  BY DEF KeyedStarts
<1>1. Working /\ Pending
  BY WorkingBefore DEF Placed
<1>2. CASE i \in Starts
  <2>1. /\ Around(input', i) = Around(input, i) /\ ChildOf(input', i) = ChildOf(input, i)
        /\ i \in 1..Consumed /\ Consumed \in Nat
    BY <1>2, StartKept, ConsumedType
  <2>2. Around(input, i) # 0 => input'[Around(input, i)] = input[Around(input, i)]
    <3>1. Around(input, i) # 0 => Around(input, i) \in 1..Consumed
      BY <1>2, StartAround
    <3>2. QED
      BY <3>1, PlacesRead DEF TextKept, SamePlace
  <2>3. Within(input, i, "{")
    BY <2>1, <2>2 DEF Within
  <2>4. ChildOf(input, i) \in KeysRead /\ Around(input, ChildOf(input, i)) = Around(input, i)
    BY <1>1, <1>2, <2>3 DEF KeyedStarts
  <2>5. QED
    BY <2>1, <2>4, KeyKept
<1>3. CASE i \notin Starts
  <2>1. (ParseScalar \/ OpenContainer) /\ i = At
    BY <1>3, PlacesRead
  <2>2. have /\ input' = input /\ pc \in {"value", "keyValue", "loop"} /\ (pc = "loop" => InArray)
    BY <2>1 DEF ParseScalar, OpenContainer, ExpectsValue
  <2>3. InObject
    BY <2>1, <2>2, AheadFacts
  <2>4. pc = "keyValue" /\ stack # <<>>
    BY <2>2, <2>3 DEF InObject, InArray, Parsing, Located, ValueAwaited
  <2>5. PICK m \in 1..Len(stack) : m = Len(stack) /\ stack[m] = Top
    BY <2>4, TopOpened
  <2>6. m \in WaitingFrames
    BY <2>3, <2>4, <2>5 DEF WaitingFrames, Waiting, WaitingPlaces, InObject, Container
  <2>7. PICK k \in KeysRead : k = stack[m].keyPos /\ Around(input, k) = Opened[m]
    BY <1>1, <2>6 DEF Pending, PendingAt
  <2>8. Fits(i, m)' /\ m \in 1..Len(stack')
    BY <2>1, <2>4, <2>5, FitsNew
  <2>9. /\ Opened'[m] = Opened[m] /\ heap'[stack'[m].node].kind = "object"
        /\ stack'[m].keyPos = k
    BY <2>1, <2>3, <2>5, <2>7, <2>8, FrameStays, Reads DEF InObject, Container
  <2>10. ChildOf(input', i) = k /\ Around(input', i) = Around(input, k)
    BY <2>7, <2>8, <2>9 DEF Fits
  <2>11. QED
    BY <2>7, <2>10, KeyKept
<1>4. QED
  BY <1>2, <1>3

-----------------------------------------------------------------------------
(* No element is missing. *)

\* The value that starts at i is on its way to the node n.
Underway(n, i) ==
  \/ \E m \in 1..Len(stack) : m < Len(stack) /\ stack[m].node = n /\ Opened[m + 1] = i
  \/ pc = "return" /\ stack # <<>> /\ Top.node = n /\ heap[val].pos = i
HasElement(n, i) == \E c \in Kids(n) : heap[c].pos = i
Elements ==
  Working => \A n \in 1..Len(heap) : heap[n].kind = "array" =>
    \A i \in Starts : Around(input, i) = heap[n].pos => HasElement(n, i) \/ Underway(n, i)

LEMMA ReturnSteps ==
  ASSUME [Next]_vars, pc = "return"
  PROVE  UNCHANGED vars \/ AppendElement \/ MakeMember \/ ReturnRoot
BY DEF Next, ParseValue, vars, pvars, Scan, Peeks, OverNodes, ParseScalar, OpenContainer, TooDeep,
   ExpectsValue, NotAValue, CollectHeadComments, SkipDroppedComments, StrictTrailingComma, AtClose,
   CloseContainer, ReturnContainer, ParseKey, NotAKey, ParseColon, NotAColon,
   RefuseDuplicate, InsertMember, InlineComment, Separator, CloseAhead, NotASeparator,
   AttachAfterComma, BeginRoot, NoRoot, RootInline, ConsumeTrailing, Finish, ExtraData

LEMMA ElementStays ==
  ASSUME IInv, IInv', Indexed, Lasts(heap, heap'), [Next]_vars,
         NEW n \in 1..Len(heap), heap[n].kind = "array", NEW i, HasElement(n, i)
  PROVE  HasElement(n, i)'
<1>1. PICK c \in Kids(n) : heap[c].pos = i
  BY DEF HasElement
<1>2. InsertMember => n # Top.node
  BY DEF InsertMember, Indexed, MemberHeld, InObject, Container
<1>3. c \in Kids(n)'
  BY <1>2, KidsLast
<1>4. heap'[c].pos = i
  BY <1>1, KidsTypes, LastsFacts
<1>5. QED
  BY <1>3, <1>4 DEF HasElement

LEMMA UnderwayNext ==
  ASSUME IInv, IInv', Indexed, Lasts(heap, heap'), [Next]_vars, Returned, Working',
         NEW n \in 1..Len(heap), heap[n].kind = "array", NEW i, Underway(n, i)
  PROVE  HasElement(n, i)' \/ Underway(n, i)'
<1>1. Working
  BY WorkingBefore
<1>2. PICK l \in Nat : l = Len(stack)
  BY Facts
<1>3. CASE \E m \in 1..Len(stack) : m < Len(stack) /\ stack[m].node = n /\ Opened[m + 1] = i
  <2>1. PICK m \in 1..l : m < l /\ stack[m].node = n /\ Opened[m + 1] = i
    BY <1>2, <1>3
  <2>2. Len(stack') \in Nat /\ (l - 1 <= Len(stack'))
    BY <1>2, StackNext
  <2>3. m \in 1..Len(stack') /\ stack'[m].node = n
    BY <1>2, <2>1, <2>2, FrameStays
  <2>4. CASE m + 1 <= Len(stack')
    <3>1. m + 1 \in 1..Len(stack) /\ m + 1 \in 1..Len(stack')
      BY <1>2, <2>1, <2>2, <2>4
    <3>2. Opened'[m + 1] = i /\ m < Len(stack')
      BY <2>1, <2>2, <2>4, <3>1, FrameStays
    <3>3. QED
      BY <2>3, <3>2 DEF Underway
  <2>5. CASE ~(m + 1 <= Len(stack'))
    <3>1. ReturnContainer /\ m + 1 = l /\ Len(stack') = m
      BY <1>2, <2>1, <2>2, <2>5, StackNext
    <3>2. pc' = "return" /\ val' = Top.node /\ stack # <<>>
      BY <3>1, FramesLeft DEF ReturnContainer
    <3>3. heap'[val'].pos = i
      BY <1>2, <2>1, <3>1, <3>2, TopOpened, LastsFacts
    <3>4. stack' # <<>> /\ Top'.node = n
      BY <2>2, <2>3, <3>1 DEF Top
    <3>5. QED
      BY <3>2, <3>3, <3>4 DEF Underway
  <2>6. QED
    BY <2>4, <2>5
<1>4. CASE pc = "return" /\ stack # <<>> /\ Top.node = n /\ heap[val].pos = i
  <2>1. val \in 1..Len(heap)
    BY <1>1, <1>4 DEF Returned
  <2>2. ~MakeMember /\ ~ReturnRoot
    BY <1>4 DEF MakeMember, InObject, Container, ReturnRoot
  <2>3. CASE AppendElement
    <3>1. val \in Kids(n)'
      BY <1>4, <2>1, <2>3, KidAdded
    <3>2. heap'[val].pos = i
      BY <1>4, <2>1, LastsFacts
    <3>3. QED
      BY <3>1, <3>2 DEF HasElement
  <2>4. CASE UNCHANGED vars
    BY <1>4, <2>4 DEF Underway, Top, vars, pvars
  <2>5. QED
    BY <1>4, <2>2, <2>3, <2>4, ReturnSteps
<1>5. QED
  BY <1>3, <1>4 DEF Underway

LEMMA ElementsNext ==
  ASSUME IInv, IInv', Indexed, Parsing, Lasts(heap, heap'), [Next]_vars, Placed, Sited, Sorts, Returned,
         Elements
  PROVE  Elements'
<1> SUFFICES ASSUME Working', NEW n \in 1..Len(heap'), heap'[n].kind = "array",
                    NEW i \in Starts', Around(input', i) = heap'[n].pos
             PROVE  HasElement(n, i)' \/ Underway(n, i)'
  BY DEF Elements
<1>1. Working /\ ValueNodes /\ Apart
  BY WorkingBefore DEF Sited
<1>2. CASE n \in 1..Len(heap) /\ i \in Starts
  <2>1. heap[n].kind = "array" /\ heap'[n].pos = heap[n].pos
    BY <1>2, LastsFacts
  <2>2. Around(input, i) = heap[n].pos
    BY <1>2, <2>1, StartKept
  <2>3. HasElement(n, i) \/ Underway(n, i)
    BY <1>1, <1>2, <2>1, <2>2 DEF Elements
  <2>4. QED
    BY <1>2, <2>1, <2>3, ElementStays, UnderwayNext
<1>3. CASE n \in 1..Len(heap) /\ i \notin Starts
  <2>1. heap[n].kind = "array" /\ heap'[n].pos = heap[n].pos
    BY <1>3, LastsFacts
  <2>2. (ParseScalar \/ OpenContainer) /\ i = At
    BY <1>3, PlacesRead
  <2>3. have /\ input' = input /\ pc \in {"value", "keyValue", "loop"}
    BY <2>2 DEF ParseScalar, OpenContainer, ExpectsValue
  <2>4. Around(input, At) # 0
    <3>1. heap[n].pos \in Starts
      BY <1>1, <1>3, <2>1 DEF ValueNodes
    <3>2. heap[n].pos # 0
      BY <3>1 DEF Starts
    <3>3. QED
      BY <2>1, <2>2, <2>3, <3>2
  <2>5. stack # <<>> /\ Around(input, At) = heap[Top.node].pos
    BY <2>3, <2>4, AheadFacts, TopOpened
  <2>6. n = Top.node
    BY <1>1, <1>3, <2>1, <2>2, <2>3, <2>5, TopOpened DEF Apart
  <2>7. PICK m \in 1..Len(stack) : m = Len(stack) /\ m \in Nat /\ m \in 1..Len(stack')
    <3>1. ~ReturnContainer
      BY <2>3 DEF ReturnContainer
    <3>2. QED
      BY <2>5, <3>1, TopOpened, StackNext, Facts
  <2>8. stack'[m].node = n
    BY <2>6, <2>7, FrameStays DEF Top
  <2>9. CASE ParseScalar
    <3>1. PICK x \in Node : heap' = Append(heap, x) /\ x.pos = At
      BY <2>9, Allocated
    <3>2. val' = Len(heap) + 1 /\ pc' = "return"
      BY <2>9, WorkingBefore DEF ParseScalar, BumpNodeCount
    <3>3. heap'[val'].pos = i
      BY <2>2, <3>1, <3>2, Facts, AppendProperties
    <3>4. Len(stack') = m
      BY <2>7, <2>9, StackNext DEF ParseScalar, OpenContainer, ReturnContainer, ExpectsValue, Openers, Scalars
    <3>5. stack' # <<>> /\ Top'.node = n
      BY <2>7, <2>8, <3>4 DEF Top
    <3>6. QED
      BY <3>2, <3>3, <3>5 DEF Underway
  <2>10. CASE OpenContainer
    <3>1. PICK x \in Node : heap' = Append(heap, x) /\ x.pos = At
      BY <2>10, Allocated
    <3>2. Len(stack') = m + 1 /\ stack'[m + 1].node = Len(heap) + 1
      BY <2>7, <2>10, StackNext DEF OpenContainer, ReturnContainer, ExpectsValue
    <3>3. m + 1 \in 1..Len(stack') /\ m < Len(stack')
      BY <2>7, <3>2
    <3>4. Opened'[m + 1] = i
      BY <2>2, <3>1, <3>2, <3>3, Facts, AppendProperties DEF Opened
    <3>5. QED
      BY <2>7, <2>8, <3>3, <3>4 DEF Underway
  <2>11. QED
    BY <2>2, <2>9, <2>10
<1>4. CASE n \notin 1..Len(heap)
  <2>1. PICK c \in Nat : c = Consumed
    BY ConsumedType
  <2>2. (ParseScalar \/ OpenContainer) /\ heap'[n].pos = At /\ At = c + 1
    BY <1>4, <2>1, NewPlace
  <2>3. Consumed' = c + 1
    BY <2>2, PlacesRead
  <2>4. i \in 1..c + 1
    BY <2>3 DEF Starts
  <2>5. PICK q \in Nat \ {0} : q = i /\ q <= c + 1
    BY <2>4
  <2>6. PICK s : s = input'
    OBVIOUS
  <2>7. Around(s, q) \in 0..q - 1
    BY AroundType
  <2>8. QED
    BY <2>2, <2>5, <2>6, <2>7
<1>5. QED
  BY <1>2, <1>3, <1>4

-----------------------------------------------------------------------------
(* The order of the children. *)

\* The children s that are not nil stand in h at rising places.
Rising(h, s) ==
  \A a, b \in DOMAIN s : a < b /\ s[a] # 0 /\ s[b] # 0 => h[s[a]].pos < h[s[b]].pos
Ordered == Working => \A n \in 1..Len(heap) : Rising(heap, heap[n].children)

LEMMA RisingAppend ==
  ASSUME NEW h, NEW s \in Seq(Nat), NEW x \in Nat, Rising(h, s),
         \A a \in DOMAIN s : s[a] # 0 => h[s[a]].pos < h[x].pos
  PROVE  Rising(h, Append(s, x))
<1>1. PICK t : t = Append(s, x)
  OBVIOUS
<1>2. /\ Len(s) \in Nat /\ DOMAIN s = 1..Len(s) /\ DOMAIN t = 1..Len(s) + 1
      /\ \A a \in 1..Len(s) : t[a] = s[a]
      /\ t[Len(s) + 1] = x
  BY <1>1
<1>3. ASSUME NEW a \in DOMAIN t, NEW b \in DOMAIN t, a < b, t[a] # 0, t[b] # 0
      PROVE  h[t[a]].pos < h[t[b]].pos
  <2>1. a \in 1..Len(s) /\ (b \in 1..Len(s) \/ b = Len(s) + 1)
    BY <1>2, <1>3
  <2>2. CASE b \in 1..Len(s)
    <3>1. t[a] = s[a] /\ t[b] = s[b] /\ a \in DOMAIN s /\ b \in DOMAIN s
      BY <1>2, <2>1, <2>2
    <3>2. QED
      BY <1>3, <3>1 DEF Rising
  <2>3. CASE b = Len(s) + 1
    <3>1. t[a] = s[a] /\ t[b] = x /\ a \in DOMAIN s
      BY <1>2, <2>1, <2>3
    <3>2. QED
      BY <1>3, <3>1
  <2>4. QED
    BY <2>1, <2>2, <2>3
<1>4. QED
  BY <1>1, <1>3 DEF Rising

LEMMA RisingNil ==
  ASSUME NEW h, NEW s \in Seq(Nat), NEW i, Rising(h, s)
  PROVE  Rising(h, [s EXCEPT ![i] = 0])
BY DEF Rising

\* Taking the nil ones away.
LEMMA RisingDrawn ==
  ASSUME NEW h, NEW s \in Seq(Nat), NEW t, Drawn(s, Len(s), t), Rising(h, s)
  PROVE  Rising(h, t)
<1>1. t \in Seq(Nat) /\ DOMAIN t = 1..Len(t) /\ DOMAIN s = 1..Len(s)
  BY DEF Drawn
<1>2. ASSUME NEW a \in DOMAIN t, NEW b \in DOMAIN t, a < b, t[a] # 0, t[b] # 0
      PROVE  h[t[a]].pos < h[t[b]].pos
  <2>1. PICK p, q \in 1..Len(s) : p < q /\ s[p] = t[a] /\ s[q] = t[b]
    BY <1>1, <1>2 DEF Drawn
  <2>2. QED
    BY <1>1, <1>2, <2>1 DEF Rising
<1>3. QED
  BY <1>2 DEF Rising

\* Superseding a member puts the new one last.
LEMMA RisingSuperseding ==
  ASSUME IInv, NEW h, NEW s \in Seq(Nat), NEW i, Rising(h, s),
         \A a \in DOMAIN s : s[a] # 0 => h[s[a]].pos < h[val].pos
  PROVE  Rising(h, Superseding(s, i))
<1>1. val \in Nat
  BY Facts
<1>2. PICK t : t = IF i = 0 THEN s ELSE [s EXCEPT ![i] = 0]
  OBVIOUS
<1>3. t \in Seq(Nat)
  BY <1>2, ExceptNat
<1>4. Rising(h, t)
  BY <1>2, RisingNil
<1>5. \A a \in DOMAIN t : a \in DOMAIN s /\ (t[a] # 0 => t[a] = s[a])
  BY <1>2
<1>6. \A a \in DOMAIN t : t[a] # 0 => h[t[a]].pos < h[val].pos
  BY <1>5
<1>7. QED
  BY <1>1, <1>2, <1>3, <1>4, <1>6, RisingAppend DEF Superseding

LEMMA OrderedNext ==
  ASSUME IInv, IInv', Indexed, Parsing, Lasts(heap, heap'), [Next]_vars, Placed, Sited, Returned, Ordered
  PROVE  Ordered'
<1> SUFFICES ASSUME Working', NEW n \in 1..Len(heap') PROVE Rising(heap', heap'[n].children)
  BY DEF Ordered
<1>1. Working
  BY WorkingBefore
<1>2. CASE n \in 1..Len(heap)
  <2>1. PICK old : old = heap[n].children
    OBVIOUS
  <2>2. old \in Seq(Nat) /\ DOMAIN old = 1..Len(old) /\ Rising(heap, old)
    BY <1>1, <1>2, <2>1, NodeFacts DEF Ordered
  <2>3. ASSUME NEW a \in DOMAIN old, old[a] # 0
        PROVE  old[a] \in Kids(n) /\ old[a] \in 1..Len(heap) /\ heap'[old[a]].pos = heap[old[a]].pos
    <3>1. old[a] \in Kids(n)
      BY <2>1, <2>3 DEF Kids
    <3>2. QED
      BY <1>2, <3>1, KidsTypes, LastsFacts
  <2>4. Rising(heap', old)
    BY <2>2, <2>3 DEF Rising
  <2>5. CASE n = Top.node /\ stack # <<>> /\ AppendElement /\ heap'[n].children = Append(old, val)
    <3>1. pc = "return"
      BY <2>5 DEF AppendElement
    <3>2. val \in 1..Len(heap) /\ Fits(heap[val].pos, Len(stack)) /\ heap'[val].pos = heap[val].pos
      BY <1>1, <2>5, <3>1, LastsFacts DEF Returned
    <3>3. \A c \in Kids(n) : heap[c].pos < heap[val].pos
      BY <2>5, <3>2, TopOpened DEF Fits
    <3>4. \A a \in DOMAIN old : old[a] # 0 => heap'[old[a]].pos < heap'[val].pos
      BY <2>3, <3>2, <3>3
    <3>5. val \in Nat
      BY Facts
    <3>6. QED
      BY <2>2, <2>4, <2>5, <3>4, <3>5, RisingAppend
  <2>6. CASE n = Top.node /\ stack # <<>> /\ InsertMember /\ heap'[n].children = Superseding(old, Duplicate)
    <3>1. /\ heap'[val].pos = Top.keyPos /\ PendingAt(Len(stack))
      BY <2>6, MemberInserted
    <3>2. \A c \in Kids(n) : heap[c].pos < Top.keyPos
      BY <2>6, <3>1, TopOpened DEF PendingAt
    <3>3. \A a \in DOMAIN old : old[a] # 0 => heap'[old[a]].pos < heap'[val].pos
      BY <2>3, <3>1, <3>2
    <3>4. QED
      BY <2>2, <2>4, <2>6, <3>3, RisingSuperseding
  <2>7. CASE n = Top.node /\ stack # <<>> /\ CloseContainer
             /\ heap'[n].children = IF Top.removed > 0 THEN RemoveNil(old) ELSE old
    <3>1. Drawn(old, Len(old), RemoveNil(old))
      BY <2>2, RemoveNilDrawn
    <3>2. Rising(heap', RemoveNil(old))
      BY <2>2, <2>4, <3>1, RisingDrawn
    <3>3. QED
      BY <2>4, <2>7, <3>2
  <2>8. QED
    BY <1>2, <2>1, <2>4, <2>5, <2>6, <2>7, ChildrenNext
<1>3. CASE n \notin 1..Len(heap)
  <2>1. Kids(n)' = {} \/ heap'[n].children = <<val>>
    BY <1>3, NodesNext
  <2>2. CASE Kids(n)' = {}
    BY <2>2 DEF Kids, Rising
  <2>3. CASE heap'[n].children = <<val>>
    BY <2>3 DEF Rising
  <2>4. QED
    BY <2>1, <2>2, <2>3
<1>4. QED
  BY <1>2, <1>3

-----------------------------------------------------------------------------
(* The keys of the children. *)

\* No object, open or closed, has two live members of one key.
KidsApart == Working => \A n \in 1..Len(heap) : heap[n].kind = "object" => OneEach(n)

LEMMA KidsApartNext ==
  ASSUME IInv, IInv', Indexed, Indexed', Lasts(heap, heap'), [Next]_vars, KidsApart
  PROVE  KidsApart'
<1> SUFFICES ASSUME Working', NEW n \in 1..Len(heap'), heap'[n].kind = "object" PROVE OneEach(n)'
  BY DEF KidsApart
<1>1. Working
  BY WorkingBefore
<1>2. ASSUME NEW m \in 1..Len(stack'), stack'[m].node = n PROVE OneEach(n)'
  BY <1>2 DEF Indexed, IndexOK
<1>3. CASE n \notin 1..Len(heap)
  <2>1. OpenContainer /\ n = Len(heap) + 1
    BY <1>3, NodesNext
  <2>2. Len(stack) + 1 \in 1..Len(stack') /\ stack'[Len(stack) + 1].node = n
    <3>1. ~ReturnContainer
      BY <2>1 DEF ReturnContainer, OpenContainer, ExpectsValue
    <3>2. PICK l \in Nat : l = Len(stack)
      BY Facts
    <3>3. Len(stack') = l + 1 /\ stack'[l + 1].node = n
      BY <2>1, <3>1, <3>2, StackNext
    <3>4. QED
      BY <3>2, <3>3
  <2>3. QED
    BY <1>2, <2>2
<1>4. CASE n \in 1..Len(heap)
  <2>1. heap[n].kind = "object" /\ OneEach(n)
    BY <1>1, <1>4, LastsFacts DEF KidsApart
  <2>2. CASE heap'[n].children = heap[n].children
    <3>1. SameNodes
      <4>1. Len(heap) \in Nat /\ Len(heap') \in Nat
        BY DEF IInv, TypeOK, ParserTypeOK
      <4>2. \A o \in 1..Len(heap) :
              o \in 1..Len(heap') /\ heap'[o].kind = heap[o].kind /\ heap'[o].key = heap[o].key
        BY LastsFacts
      <4>3. Len(heap) <= Len(heap')
        BY <4>1, <4>2
      <4>4. QED
        BY <4>2, <4>3 DEF SameNodes
    <3>2. \A k : Hits(n, k)' = Hits(n, k)
      BY <1>4, <2>2, <3>1, HitsKept DEF Indexed
    <3>3. QED
      BY <2>1, <3>2 DEF OneEach
  <2>3. CASE n = Top.node /\ stack # <<>> /\ (AppendElement \/ InsertMember \/ CloseContainer)
    <3>1. PICK l \in Nat : l = Len(stack) /\ l \in 1..l /\ stack[l].node = n
      BY <2>3, TopOpened, Facts
    <3>2. ~OpenContainer /\ ~ReturnContainer
      BY <2>3 DEF AppendElement, InsertMember, CloseContainer, AtClose, OpenContainer, ReturnContainer,
        ExpectsValue, SeesClose, Sees, Openers, InArray, InObject
    <3>3. Len(stack') = l
      BY <3>1, <3>2, StackNext
    <3>4. stack'[l].node = n
      BY <3>1, <3>3, FrameStays
    <3>5. QED
      BY <1>2, <3>1, <3>3, <3>4
  <2>4. QED
    BY <1>4, <2>2, <2>3, ChildrenNext
<1>5. QED
  BY <1>3, <1>4

-----------------------------------------------------------------------------
(* The members superseded. *)

\* What an insertion adds to the count of the nil children.
LEMMA InsertedRemoved ==
  ASSUME IInv, InsertMember, pc' # "error"
  PROVE  \E f \in Frame :
           SetTop(f) /\ f.removed = IF Duplicate = 0 THEN Top.removed ELSE Top.removed + 1
<1> DEFINE i == Duplicate
           children == Superseding(Container.children, i)
           found == [Top EXCEPT !.removed = IF i = 0 THEN @ ELSE @ + 1,
                                !.pendingHead = <<>>, !.justConsumedComma = FALSE]
           f == AddToIndex(children, found)
<1>1. stack # <<>>
  BY DEF InsertMember, IInv, InsideContainer
<1>2. Top \in Frame /\ Top.removed \in Nat
  BY <1>1, FrameTypes DEF Frame
<1>3. SetTop(f)
  BY DEF InsertMember, Fail, Stop
<1>4. found \in Frame /\ found.removed = IF i = 0 THEN Top.removed ELSE Top.removed + 1
  <2>1. Top.removed + 1 \in Nat
    BY <1>2
  <2> HIDE DEF i
  <2>2. QED
    BY <1>2, <2>1, EmptySeq DEF Frame, Text
<1>5. children \in Seq(Nat)
  <2>1. Container.children \in Seq(Nat) /\ val \in Nat
    BY <1>1, FrameTypes, Facts DEF Node
  <2>2. [Container.children EXCEPT ![i] = 0] \in Seq(Nat)
    BY <2>1, ExceptNat
  <2> HIDE DEF i
  <2>3. QED
    BY <2>1, <2>2, AppendProperties DEF Superseding
<1> HIDE DEF found, children
<1>6. f \in Frame
  BY <1>4, <1>5, AddToIndexType
<1>7. f.removed = found.removed
  BY <1>4 DEF AddToIndex, Frame
<1>8. QED
  BY <1>3, <1>4, <1>6, <1>7

LEMMA HoldHeadRemoved ==
  ASSUME IInv, NEW m \in 1..Len(stack)
  PROVE  HoldHead[m].removed = stack[m].removed
<1> DEFINE i == Len(stack)
           f == [stack[i] EXCEPT !.pendingHead = NonBlank(acc)]
<1>1. ASSUME i \in 1..Len(stack) PROVE f \in Frame /\ f.removed = stack[i].removed
  <2>1. stack[i] \in Frame
    BY <1>1, Facts, ElementOfSeq
  <2>2. QED
    BY <2>1, Facts, FrameUpdate DEF Frame
<1>2. HoldHead = stack \/ HoldHead = [stack EXCEPT ![i] = f]
  BY DEF HoldHead
<1> HIDE DEF f
<1>3. CASE HoldHead = [stack EXCEPT ![i] = f]
  <2>1. \A j \in 1..Len(stack) : HoldHead[j] = IF j = i THEN f ELSE stack[j]
    BY <1>1, <1>3, Facts, StackUpdate
  <2>2. QED
    BY <1>1, <2>1
<1>4. QED
  BY <1>2, <1>3

\* The count of a frame changes when its member supersedes another.
LEMMA RemovedNext ==
  ASSUME IInv, IInv', [Next]_vars, Working', NEW m \in 1..Len(stack), m \in 1..Len(stack')
  PROVE  stack'[m].removed = IF InsertMember /\ m = Len(stack) /\ Duplicate # 0
                             THEN stack[m].removed + 1 ELSE stack[m].removed
<1>1. stack # <<>> /\ pc' # "error" /\ Len(stack) \in Nat
  BY WorkingBefore, Facts, StackEmpty
<1>2. ASSUME NEW f \in Frame, SetTop(f)
      PROVE  stack'[m] = IF m = Len(stack) THEN f ELSE stack[m]
  BY <1>1, <1>2, SetTopAt
<1>3. CASE InsertMember
  BY <1>1, <1>2, <1>3, InsertedRemoved DEF Top
<1>4. CASE ~InsertMember
  <2>1. CASE OpenContainer
    <3>1. HoldHead \in Seq(Frame) /\ NewFrame(Len(heap) + 1) \in Frame /\ Len(HoldHead) = Len(stack)
      BY HoldHeadType, NewFrameType, Facts
    <3>2. stack' = Append(HoldHead, NewFrame(Len(heap) + 1))
      BY <2>1 DEF OpenContainer
    <3>3. stack'[m] = HoldHead[m]
      BY <3>1, <3>2, AppendProperties
    <3>4. QED
      BY <1>4, <3>3, HoldHeadRemoved
  <2>2. CASE ReturnContainer
    BY <1>4, <2>2, FramesLeft
  <2>3. CASE ParseScalar
    BY <1>4, <2>3, HoldHeadRemoved DEF ParseScalar
  <2>4. CASE AppendElement
    <3> DEFINE f == [Top EXCEPT !.pendingHead = <<>>, !.justConsumedComma = FALSE]
    <3>1. f \in Frame /\ f.removed = Top.removed
      BY <1>1, FrameTypes, EmptySeq DEF Frame, Text
    <3>2. SetTop(f)
      BY <2>4 DEF AppendElement
    <3> HIDE DEF f
    <3>3. QED
      BY <1>2, <1>4, <3>1, <3>2 DEF Top
  <2>5. CASE Separator
    <3> DEFINE f == [Top EXCEPT !.justConsumedComma = TRUE]
    <3>1. f \in Frame /\ f.removed = Top.removed
      BY <1>1, FrameTypes DEF Frame
    <3>2. SetTop(f)
      BY <2>5 DEF Separator
    <3> HIDE DEF f
    <3>3. QED
      BY <1>2, <1>4, <3>1, <3>2 DEF Top
  <2>6. CASE ParseKey
    <3> DEFINE f == [Top EXCEPT !.pendingHead = NonBlank(acc), !.key = Look.v, !.keyPos = At]
    <3>1. Sees({"str"}) /\ SetTop(f)
      BY <2>6 DEF ParseKey
    <3>2. At > 0
      BY <3>1, Facts, EmptySeq DEF Sees, IInv, HeldToken, At
    <3>3. Look.v \in Keys
      BY <3>1, <3>2, TokenTypes DEF Sees, IInv
    <3>4. f \in Frame /\ f.removed = Top.removed
      BY <1>1, <3>3, Facts, FrameTypes DEF Frame
    <3> HIDE DEF f
    <3>5. QED
      BY <1>2, <1>4, <3>1, <3>4 DEF Top
  <2>7. CASE UNCHANGED stack
    BY <1>4, <2>7
  <2>8. CASE \/ OverNodes \/ TooDeep \/ NotAValue \/ StrictTrailingComma \/ NotAKey \/ NotAColon
             \/ RefuseDuplicate \/ NotASeparator \/ NoRoot \/ ExtraData
    BY <1>1, <2>8 DEF OverNodes, TooDeep, NotAValue, StrictTrailingComma, NotAKey, NotAColon,
         RefuseDuplicate, NotASeparator, NoRoot, ExtraData, Fail, Stop
  <2>9. CASE \/ Scan \/ CollectHeadComments \/ SkipDroppedComments \/ ParseColon \/ CloseContainer
             \/ MakeMember \/ InlineComment \/ CloseAhead \/ AttachAfterComma
             \/ BeginRoot \/ ReturnRoot \/ RootInline \/ ConsumeTrailing \/ Finish \/ UNCHANGED vars
    BY <2>7, <2>9 DEF Scan, CollectHeadComments, SkipDroppedComments, ParseColon, CloseContainer,
       MakeMember, InlineComment, CloseAhead, AttachAfterComma, BeginRoot, ReturnRoot,
       RootInline, ConsumeTrailing, Finish, vars, pvars
  <2>10. QED
    BY <1>4, <2>1, <2>2, <2>3, <2>4, <2>5, <2>6, <2>8, <2>9 DEF Next, ParseValue
<1>5. QED
  BY <1>3, <1>4

\* A node with a nil child has an open frame that counts it.
Clear(n) == \A a \in DOMAIN heap[n].children : heap[n].children[a] # 0
Owed(n) == \E m \in 1..Live : stack[m].node = n /\ stack[m].removed > 0
Tidy == Working => \A n \in 1..Len(heap) : Clear(n) \/ Owed(n)

LEMMA OwedNext ==
  ASSUME IInv, IInv', Indexed, Lasts(heap, heap'), [Next]_vars, Working',
         NEW n \in 1..Len(heap), Owed(n), ~(CloseContainer /\ n = Top.node)
  PROVE  Owed(n)'
<1>1. PICK m \in 1..Live : stack[m].node = n /\ stack[m].removed > 0
  BY DEF Owed
<1>2. PICK l \in Nat : l = Len(stack)
  BY Facts
<1>3. Live \in 0..l /\ Live \in Nat /\ m \in 1..l
  BY <1>1, <1>2, LiveType
<1>4. Live' = Live + (IF OpenContainer THEN 1 ELSE IF CloseContainer THEN -1 ELSE 0)
  BY LiveNext, WorkingBefore
<1>5. CloseContainer => m # l /\ Live = l
  <2> SUFFICES ASSUME CloseContainer PROVE m # l /\ Live = l
    OBVIOUS
  <2>1. pc = "loop"
    BY DEF CloseContainer, AtClose
  <2>2. QED
    BY <1>1, <1>2, <2>1 DEF Live, Top
<1>6. m \in 1..Live' /\ Live' \in Nat
  BY <1>3, <1>4, <1>5
<1>7. Live' <= Len(stack') /\ Len(stack') \in Nat
  <2>1. Len(stack') \in Nat
    BY DEF IInv, TypeOK, ParserTypeOK
  <2>2. QED
    BY <2>1 DEF Live
<1>8. m \in 1..Len(stack')
  BY <1>6, <1>7
<1>9. stack'[m].node = n
  BY <1>1, <1>2, <1>3, <1>8, FrameStays
<1>10. stack[m].removed \in Nat
  <2>1. stack[m] \in Frame
    BY <1>2, <1>3, Facts, ElementOfSeq
  <2>2. QED
    BY <2>1 DEF Frame
<1>11. stack'[m].removed > 0
  BY <1>1, <1>2, <1>3, <1>8, <1>10, RemovedNext
<1>12. QED
  BY <1>6, <1>9, <1>11 DEF Owed

LEMMA TidyNext ==
  ASSUME IInv, IInv', Indexed, Lasts(heap, heap'), [Next]_vars, Returned, Tidy
  PROVE  Tidy'
<1> SUFFICES ASSUME Working', NEW n \in 1..Len(heap') PROVE Clear(n)' \/ Owed(n)'
  BY DEF Tidy
<1>1. Working
  BY WorkingBefore
<1>2. CASE n \notin 1..Len(heap)
  <2>1. ParseScalar \/ OpenContainer \/ MakeMember
    BY <1>2, NodesNext
  <2>2. PICK x \in Node : /\ heap' = Append(heap, x)
                          /\ x.children = IF MakeMember THEN <<val>> ELSE <<>>
    BY <2>1, Allocated
  <2>3. heap'[n] = x
    <3>1. n = Len(heap) + 1
      BY <1>2, NodesNext
    <3>2. QED
      BY <2>2, <3>1, Facts, AppendProperties
  <2>4. MakeMember => val # 0
    <3>1. val \in 1..Len(heap) => val # 0
      BY Facts
    <3>2. QED
      BY <1>1, <3>1 DEF MakeMember, Returned
  <2>5. QED
    BY <2>2, <2>3, <2>4 DEF Clear
<1>3. CASE n \in 1..Len(heap)
  <2>1. PICK old : old = heap[n].children
    OBVIOUS
  <2>2. old \in Seq(Nat) /\ val \in Nat /\ Len(old) \in Nat /\ DOMAIN old = 1..Len(old)
    BY <1>3, <2>1, NodeFacts, Facts
  <2>3. CASE Owed(n) /\ ~(CloseContainer /\ n = Top.node)
    BY <1>3, <2>3, OwedNext
  <2>4. CASE CloseContainer /\ n = Top.node
    <3>1. heap'[n].children = IF Top.removed > 0 THEN RemoveNil(old) ELSE old
      <4>1. heap'[n].children =
              IF Top.removed > 0 THEN RemoveNil(heap[n].children) ELSE heap[n].children
        BY <1>3, <2>4, CloseHeap DEF OnlyChildren, Container
      <4>2. QED
        BY <2>1, <4>1
    <3>2. Top.removed > 0 \/ Clear(n)
      <4>1. ASSUME Owed(n) PROVE Top.removed > 0
        <5>1. PICK m \in 1..Live : stack[m].node = n /\ stack[m].removed > 0
          BY <4>1 DEF Owed
        <5>2. PICK l \in Nat : l = Len(stack)
          BY Facts
        <5>3. pc = "loop" /\ stack # <<>>
          BY <2>4 DEF CloseContainer, AtClose, SeesClose, InObject, InArray
        <5>4. m \in 1..l /\ l \in 1..l /\ stack[l] = Top
          BY <5>1, <5>2, <5>3, LiveType, TopOpened
        <5>5. m = l
          BY <2>4, <5>1, <5>2, <5>4 DEF Indexed, Nested, IInv, FramesOK
        <5>6. QED
          BY <5>1, <5>4, <5>5
      <4>2. QED
        BY <1>1, <1>3, <4>1 DEF Tidy
    <3>3. CASE Top.removed > 0
      <4>1. PICK t : t = RemoveNil(old)
        OBVIOUS
      <4>2. t \in Seq(Nat) /\ DOMAIN t = 1..Len(t) /\ \A j \in 1..Len(t) : t[j] # 0
        BY <2>2, <4>1, RemoveNilType
      <4>3. QED
        BY <3>1, <3>3, <4>1, <4>2 DEF Clear
    <3>4. CASE ~(Top.removed > 0)
      BY <2>1, <3>1, <3>2, <3>4 DEF Clear
    <3>5. QED
      BY <3>3, <3>4
  <2>5. CASE Clear(n) /\ ~(CloseContainer /\ n = Top.node)
    <3>1. \A a \in 1..Len(old) : old[a] # 0
      BY <2>1, <2>2, <2>5 DEF Clear
    <3>2. CASE heap'[n].children = old
      BY <2>2, <3>1, <3>2 DEF Clear
    <3>3. ASSUME val # 0, heap'[n].children = Append(old, val) PROVE Clear(n)'
      <4>1. PICK t : t = Append(old, val)
        OBVIOUS
      <4>2. DOMAIN t = 1..Len(old) + 1 /\ \A a \in DOMAIN t : t[a] # 0
        BY <2>2, <3>1, <3>3, <4>1
      <4>3. QED
        BY <3>3, <4>1, <4>2 DEF Clear
    <3>4. CASE n = Top.node /\ stack # <<>> /\ AppendElement /\ heap'[n].children = Append(old, val)
      <4>1. val \in 1..Len(heap)
        BY <1>1, <3>4 DEF AppendElement, Returned
      <4>2. QED
        BY <3>3, <3>4, <4>1, Facts
    <3>5. CASE n = Top.node /\ stack # <<>> /\ InsertMember
               /\ heap'[n].children = Superseding(old, Duplicate)
      <4>1. val # 0 /\ pc = "insert" /\ pc' = "inline" /\ Len(stack) \in Nat
        BY <3>5, WorkingBefore, Facts DEF InsertMember, Indexed, MemberHeld, Fail, Stop
      <4>2. CASE Duplicate = 0
        BY <3>3, <3>5, <4>1, <4>2 DEF Superseding
      <4>3. CASE Duplicate # 0
        <5>1. PICK l \in Nat : l = Len(stack) /\ l \in 1..l /\ stack[l] = Top
          BY <3>5, TopOpened, Facts
        <5>2. Len(stack') = l
          BY <3>5, <5>1, StackNext DEF InsertMember, OpenContainer, ReturnContainer, ExpectsValue
        <5>3. stack'[l].node = n /\ stack'[l].removed = stack[l].removed + 1
          BY <3>5, <4>3, <5>1, <5>2, FrameStays, RemovedNext
        <5>4. stack[l] \in Frame
          BY <5>1, Facts, ElementOfSeq
        <5>5. stack[l].removed \in Nat
          BY <5>4 DEF Frame
        <5>6. Live' = l
          BY <4>1, <5>2 DEF Live
        <5>7. QED
          BY <5>1, <5>3, <5>5, <5>6 DEF Owed
      <4>4. QED
        BY <4>2, <4>3
    <3>6. QED
      BY <1>3, <2>1, <2>5, <3>2, <3>4, <3>5, ChildrenNext
  <2>6. QED
    BY <1>1, <1>3, <2>3, <2>4, <2>5 DEF Tidy
<1>4. QED
  BY <1>2, <1>3

-----------------------------------------------------------------------------
(* The spans of the containers. *)

HasSpans(h) == \A n \in DOMAIN h : "rawBytes" \in DOMAIN h[n]
SameSpans(h, g) == DOMAIN g = DOMAIN h /\ \A n \in DOMAIN h : g[n].rawBytes = h[n].rawBytes

\* Assigning another field of a node.
LEMMA FieldSpans ==
  ASSUME NEW h, HasSpans(h), NEW i, NEW t, NEW g,
         \/ g = [h EXCEPT ![i].headComment = t]
         \/ g = [h EXCEPT ![i].comment = t]
         \/ g = [h EXCEPT ![i].footComment = t]
         \/ g = [h EXCEPT ![i].trailComment = t]
         \/ g = [h EXCEPT ![i].children = t]
  PROVE  HasSpans(g) /\ SameSpans(h, g)
<1>1. DOMAIN g = DOMAIN h
  OBVIOUS
<1> SUFFICES ASSUME NEW n \in DOMAIN h
             PROVE  "rawBytes" \in DOMAIN g[n] /\ g[n].rawBytes = h[n].rawBytes
  BY <1>1 DEF HasSpans, SameSpans
<1>2. "rawBytes" \in DOMAIN h[n]
  BY DEF HasSpans
<1>3. CASE g = [h EXCEPT ![i].headComment = t]
  BY <1>2, <1>3
<1>4. CASE g = [h EXCEPT ![i].comment = t]
  BY <1>2, <1>4
<1>5. CASE g = [h EXCEPT ![i].footComment = t]
  BY <1>2, <1>5
<1>6. CASE g = [h EXCEPT ![i].trailComment = t]
  BY <1>2, <1>6
<1>7. CASE g = [h EXCEPT ![i].children = t]
  BY <1>2, <1>7
<1>8. QED
  BY <1>3, <1>4, <1>5, <1>6, <1>7

\* The closing delimiter gives its container a span, and no other.
LEMMA SpanGiven ==
  ASSUME IInv, CloseContainer, NEW n \in 1..Len(heap)
  PROVE  heap'[n].rawBytes = IF n = Top.node THEN Span ELSE heap[n].rawBytes
<1> DEFINE i == Top.node
           kids == IF Top.removed > 0 THEN RemoveNil(heap[i].children) ELSE heap[i].children
           h == [heap EXCEPT ![i].children = kids]
           g == [h EXCEPT ![i].footComment = h[i].footComment \o NonBlank(acc)]
           f == [g EXCEPT ![i].rawBytes = Span]
<1>1. heap' = f
  BY DEF CloseContainer
<1>2. HasSpans(heap) /\ DOMAIN heap = 1..Len(heap)
  <2>1. \A o \in DOMAIN heap : heap[o] \in Node
    BY Facts, ElementOfSeq, LenProperties
  <2>2. \A x \in Node : "rawBytes" \in DOMAIN x
    BY DEF Node
  <2>3. QED
    BY <2>1, <2>2, Facts, LenProperties DEF HasSpans
<1>3. HasSpans(h) /\ SameSpans(heap, h)
  <2> HIDE DEF kids
  <2>1. QED
    BY <1>2, FieldSpans
<1> HIDE DEF h
<1>4. HasSpans(g) /\ SameSpans(h, g)
  BY <1>3, FieldSpans
<1> HIDE DEF g
<1>5. n \in DOMAIN g /\ g[n].rawBytes = heap[n].rawBytes /\ "rawBytes" \in DOMAIN g[n]
  BY <1>2, <1>3, <1>4 DEF SameSpans, HasSpans
<1>6. f[n].rawBytes = IF n = i THEN Span ELSE g[n].rawBytes
  BY <1>5
<1> HIDE DEF f
<1>7. QED
  BY <1>1, <1>5, <1>6

LEMMA SpansKept ==
  ASSUME IInv, [Next]_vars, ~CloseContainer, NEW n \in 1..Len(heap)
  PROVE  heap'[n].rawBytes = heap[n].rawBytes
<1>1. heap \in Seq(Node) /\ HasSpans(heap) /\ DOMAIN heap = 1..Len(heap)
  <2>1. \A o \in DOMAIN heap : heap[o] \in Node
    BY Facts, ElementOfSeq, LenProperties
  <2>2. \A x \in Node : "rawBytes" \in DOMAIN x
    BY DEF Node
  <2>3. QED
    BY <2>1, <2>2, Facts, LenProperties DEF HasSpans
<1>2. CASE ParseScalar \/ OpenContainer \/ MakeMember
  <2>1. PICK x \in Node : heap' = Append(heap, x)
    BY <1>2, Allocated
  <2>2. heap'[n] = heap[n]
    BY <2>1, Facts, AppendProperties
  <2>3. QED
    BY <2>2
<1>3. CASE AppendElement
  <2> DEFINE h == [heap EXCEPT ![val].headComment = heap[val].headComment \o Top.pendingHead]
             g == [h EXCEPT ![Top.node].children = Append(h[Top.node].children, val)]
  <2>1. HasSpans(h) /\ SameSpans(heap, h)
    BY <1>1, FieldSpans
  <2>2. heap' = g
    BY <1>3 DEF AppendElement
  <2> HIDE DEF h
  <2>3. SameSpans(h, g)
    BY <2>1, FieldSpans
  <2>4. QED
    BY <1>1, <2>1, <2>2, <2>3 DEF SameSpans
<1>4. CASE \E i, t : \/ heap' = [heap EXCEPT ![i].headComment = t]
                     \/ heap' = [heap EXCEPT ![i].comment = t]
                     \/ heap' = [heap EXCEPT ![i].footComment = t]
                     \/ heap' = [heap EXCEPT ![i].trailComment = t]
                     \/ heap' = [heap EXCEPT ![i].children = t]
  <2>1. SameSpans(heap, heap')
    BY <1>1, <1>4, FieldSpans
  <2>2. QED
    BY <1>1, <2>1 DEF SameSpans
<1>5. CASE UNCHANGED heap
  BY <1>5
<1>6. CASE InsertMember
  BY <1>4, <1>6 DEF InsertMember
<1>7. CASE Separator \/ CloseAhead \/ AttachAfterComma
  <2>1. \/ heap' = [heap EXCEPT ![Current].footComment = heap[Current].footComment \o NonBlank(acc)]
        \/ heap' = [heap EXCEPT ![Top.node].footComment = heap[Top.node].footComment \o NonBlank(acc)]
        \/ heap' = [heap EXCEPT ![Current].comment = Inline]
        \/ heap' = [heap EXCEPT ![Current].footComment = heap[Current].footComment \o Inline]
    BY <1>7 DEF Separator, CloseAhead, AttachAfterComma, Attach
  <2>2. QED
    BY <1>4, <2>1
<1>8. CASE ReturnContainer \/ InlineComment \/ RootInline
  BY <1>4, <1>5, <1>8 DEF ReturnContainer, InlineComment, RootInline
<1>9. CASE ReturnRoot \/ Finish
  <2>1. \/ heap' = [heap EXCEPT ![val].headComment = lead \o heap[val].headComment]
        \/ heap' = [heap EXCEPT ![val].trailComment = heap[val].trailComment \o NonBlank(acc)]
    BY <1>9 DEF ReturnRoot, Finish
  <2>2. QED
    BY <1>4, <2>1
<1>10. CASE \/ Scan \/ OverNodes \/ TooDeep \/ NotAValue \/ CollectHeadComments
            \/ SkipDroppedComments \/ StrictTrailingComma \/ ParseKey \/ NotAKey \/ ParseColon
            \/ NotAColon \/ RefuseDuplicate \/ NotASeparator
            \/ BeginRoot \/ NoRoot \/ ConsumeTrailing \/ ExtraData \/ UNCHANGED vars
  <2>1. UNCHANGED heap
    BY <1>10 DEF Scan, OverNodes, TooDeep, NotAValue, CollectHeadComments,
       SkipDroppedComments, StrictTrailingComma, ParseKey, NotAKey, ParseColon, NotAColon,
       RefuseDuplicate, NotASeparator, BeginRoot, NoRoot, ConsumeTrailing, ExtraData, vars, pvars
  <2>2. QED
    BY <1>5, <2>1
<1>11. QED
  BY <1>2, <1>3, <1>6, <1>7, <1>8, <1>9, <1>10 DEF Next, ParseValue

\* A container not open any more spans to the delimiter that closes it.
Open(n) == \E m \in 1..Live : stack[m].node = n
Spanned(n) ==
  LET first == heap[n].rawBytes[1]
      last == heap[n].rawBytes[2]
  IN  /\ first = heap[n].pos /\ last \in 1..Consumed
      /\ Closes(input[last]) /\ Around(input, last) = heap[n].pos
Spans == Working => \A n \in 1..Len(heap) : heap[n].kind \in {"object", "array"} => Open(n) \/ Spanned(n)

LEMMA SpansNext ==
  ASSUME IInv, IInv', Indexed, Parsing, Lasts(heap, heap'), [Next]_vars, Spans
  PROVE  Spans'
<1> SUFFICES ASSUME Working', NEW n \in 1..Len(heap'), heap'[n].kind \in {"object", "array"}
             PROVE  Open(n)' \/ Spanned(n)'
  BY DEF Spans
<1>1. Working
  BY WorkingBefore
<1>2. PICK l \in Nat : l = Len(stack)
  BY Facts
<1>3. Live' = Live + (IF OpenContainer THEN 1 ELSE IF CloseContainer THEN -1 ELSE 0)
  BY LiveNext, WorkingBefore
<1>4. Live' \in 0..Len(stack') /\ Len(stack') \in Nat /\ Live \in 0..l
  <2>1. Len(stack') \in Nat /\ (pc' = "closed" => stack' # <<>>)
    BY DEF IInv, TypeOK, ParserTypeOK, InsideContainer
  <2>2. stack' # <<>> => Len(stack') # 0
    BY EmptySeq DEF IInv, TypeOK, ParserTypeOK
  <2>3. Live' \in 0..Len(stack')
    BY <2>1, <2>2 DEF Live
  <2>4. QED
    BY <1>2, <2>1, <2>3, LiveType
<1>5. CASE n \notin 1..Len(heap)
  <2>1. OpenContainer /\ n = Len(heap) + 1
    BY <1>5, NodesNext
  <2>2. ~ReturnContainer /\ pc # "closed" /\ pc' # "closed"
    BY <2>1 DEF ReturnContainer, OpenContainer, ExpectsValue, BumpNodeCount
  <2>3. Len(stack') = l + 1 /\ stack'[l + 1].node = n
    BY <1>2, <2>1, <2>2, StackNext
  <2>4. Live' = l + 1
    BY <2>2, <2>3 DEF Live
  <2>5. QED
    BY <1>2, <2>3, <2>4 DEF Open
<1>6. CASE n \in 1..Len(heap)
  <2>1. heap[n].kind = heap'[n].kind /\ heap'[n].pos = heap[n].pos
    BY <1>6, LastsFacts
  <2>2. CASE CloseContainer /\ n = Top.node
    <3>1. heap'[n].rawBytes = <<heap[n].pos, At>>
      BY <1>6, <2>2, SpanGiven DEF Span, Container
    <3>2. /\ have /\ have' = FALSE /\ Closes(Look) /\ stack # <<>> /\ pc = "loop"
      BY <2>2 DEF CloseContainer, AtClose, SeesClose, Sees, Closes, InObject, InArray, Bump
    <3>3. Around(input, At) = heap[n].pos
      BY <2>2, <3>2, AheadFacts, TopOpened
    <3>4. input' = input
      BY <2>2 DEF CloseContainer
    <3>5. At \in 1..Consumed'
      BY <3>2, <3>4, ConsumedType DEF Consumed, At
    <3>6. QED
      BY <2>1, <3>1, <3>2, <3>3, <3>4, <3>5 DEF Spanned, Look
  <2>3. CASE ~(CloseContainer /\ n = Top.node)
    <3>1. heap'[n].rawBytes = heap[n].rawBytes
      <4>1. CASE CloseContainer
        BY <1>6, <2>3, <4>1, SpanGiven
      <4>2. CASE ~CloseContainer
        BY <1>6, <4>2, SpansKept
      <4>3. QED
        BY <4>1, <4>2
    <3>2. CASE Open(n)
      <4>1. PICK m \in 1..Live : stack[m].node = n
        BY <3>2 DEF Open
      <4>2. CloseContainer => m # l /\ Live = l
        <5> SUFFICES ASSUME CloseContainer PROVE m # l /\ Live = l
          OBVIOUS
        <5>1. pc = "loop"
          BY DEF CloseContainer, AtClose
        <5>2. QED
          BY <1>2, <2>3, <4>1, <5>1 DEF Live, Top
      <4>3. m \in 1..l /\ m \in 1..Live' /\ m \in 1..Len(stack')
        BY <1>2, <1>3, <1>4, <4>1, <4>2
      <4>4. stack'[m].node = n
        BY <1>2, <4>1, <4>3, FrameStays
      <4>5. QED
        BY <4>3, <4>4 DEF Open
    <3>3. CASE Spanned(n)
      <4>1. PICK last : last = heap[n].rawBytes[2]
        OBVIOUS
      <4>2. last \in 1..Consumed /\ Closes(input[last]) /\ Around(input, last) = heap[n].pos
        BY <3>3, <4>1 DEF Spanned
      <4>3. last \in 1..Consumed' /\ input'[last] = input[last]
            /\ Around(input', last) = Around(input, last)
        BY <4>2, PlacesRead DEF TextKept, SamePlace
      <4>4. QED
        BY <2>1, <3>1, <3>3, <4>1, <4>2, <4>3 DEF Spanned
    <3>4. QED
      BY <1>1, <1>6, <2>1, <3>2, <3>3 DEF Spans
  <2>4. QED
    BY <2>2, <2>3
<1>7. QED
  BY <1>5, <1>6

-----------------------------------------------------------------------------
(* The tree of an accepted text. *)

\* What the tree follows from, with the lemmas above.
Building ==
  /\ Sorts /\ Returned /\ MemberValues /\ ArrayKids /\ KeyedStarts /\ Elements
  /\ Ordered /\ KidsApart /\ Tidy /\ Spans
Matching == Counted /\ Placed /\ Sited /\ Complete /\ Building

\* The end of the parse: every container is closed and all places are read.
LEMMA AtTheEnd ==
  ASSUME IInv, Parsing, Accepted
  PROVE  /\ Working /\ stack = <<>> /\ Live = 0 /\ pc = "done" /\ Len(stack) = 0
         /\ WaitingFrames = {} /\ Cardinality(WaitingFrames) = 0
         /\ ValueStarts = Starts /\ KeyPlaces = KeysRead
<1>1. pc = "done" /\ stack = <<>> /\ Look.k = "eof"
  BY DEF Accepted, Parsing, Located, ValueRead, LanguageExact
<1>2. Len(stack) = 0
  BY <1>1, StackEmpty
<1>3. WaitingFrames = {} /\ Cardinality(WaitingFrames) = 0
  <2>1. WaitingFrames = {}
    BY <1>2 DEF WaitingFrames
  <2>2. QED
    BY <2>1, FS_EmptySet
<1>4. KeyPlaces = KeysRead
  BY <1>1, PlacesAhead
<1>5. ValueStarts = Starts
  <2>1. PICK a \in Nat : a = At
    BY Facts
  <2>2. PICK c \in Nat : c = Consumed
    BY ConsumedType
  <2>3. a <= c + 1 /\ {i \in ValueStarts : i <= c} = Starts
    BY <2>1, <2>2, PlacesAhead
  <2>4. ASSUME NEW i \in ValueStarts PROVE i <= c
    <3>1. i \in 1..a /\ StartsValue(input[i])
      BY <2>1, <2>4 DEF ValueStarts, IsValueStart
    <3>2. i # a
      BY <1>1, <2>1, <3>1 DEF Look, StartsValue, Opens
    <3>3. QED
      BY <2>3, <3>1, <3>2
  <2>5. QED
    BY <2>3, <2>4
<1>6. QED
  BY <1>1, <1>2, <1>3, <1>4, <1>5 DEF Live, Working

\* As many nodes as values and members, no two at one place: one at each.
LEMMA OneNodeEach ==
  ASSUME IInv, Parsing, Accepted, Counted, Placed, Sited
  PROVE  /\ \A i \in ValueStarts \cup KeyPlaces : Cardinality(NodesAt(i)) = 1
         /\ Len(heap) = Cardinality(ValueStarts \cup KeyPlaces)
<1>1. /\ Working /\ Cardinality(WaitingFrames) = 0 /\ pc = "done"
      /\ ValueStarts = Starts /\ KeyPlaces = KeysRead
  BY AtTheEnd
<1>2. PICK l \in Nat : l = Len(heap) /\ DOMAIN heap = 1..l
  BY Facts, LenProperties
<1>3. PICK S : S = Starts \cup KeysRead
  OBVIOUS
<1>4. Starts \cap KeysRead = {}
  BY DEF Starts, KeysRead, IsValueStart
<1>5. l = Cardinality(Starts) + Cardinality(KeysRead)
  BY <1>1, <1>2, CountTypes, Facts DEF Counted
<1>6. IsFiniteSet(S) /\ Cardinality(S) = l
  <2>1. Cardinality(Starts \cap KeysRead) = 0
    BY <1>4, FS_EmptySet
  <2>2. /\ IsFiniteSet(Starts) /\ IsFiniteSet(KeysRead)
        /\ Cardinality(Starts) \in Nat /\ Cardinality(KeysRead) \in Nat
    BY CountTypes
  <2>3. IsFiniteSet(S) /\ Cardinality(S) = Cardinality(Starts) + Cardinality(KeysRead) - 0
    BY <1>3, <2>1, <2>2, FS_Union
  <2>4. QED
    BY <1>5, <2>2, <2>3
<1>7. PICK f : f = [n \in 1..l |-> heap[n].pos]
  OBVIOUS
<1>8. f \in Injection(1..l, S)
  <2>1. ASSUME NEW n \in 1..l PROVE f[n] \in S /\ f[n] = heap[n].pos
    <3>1. heap[n].pos \in KeysRead \/ heap[n].pos \in Starts
      BY <1>1, <1>2, NodePlaces DEF Placed, Sited
    <3>2. QED
      BY <1>3, <1>7, <3>1
  <2>2. \A n, o \in 1..l : f[n] = f[o] => n = o
    BY <1>1, <1>2, <2>1 DEF Sited, Apart
  <2>3. f \in [1..l -> S]
    BY <1>7, <2>1
  <2>4. QED
    BY <2>2, <2>3 DEF Injection, IsInjective
<1>9. Cardinality(1..l) = l
  BY FS_Interval
<1>10. f \in Surjection(1..l, S)
  BY <1>6, <1>8, <1>9, FS_Injection
<1>11. ASSUME NEW i \in S PROVE Cardinality(NodesAt(i)) = 1
  <2>1. PICK n \in 1..l : f[n] = i
    BY <1>10 DEF Surjection
  <2>2. NodesAt(i) = {n}
    BY <1>1, <1>2, <1>7, <2>1 DEF NodesAt, Sited, Apart
  <2>3. QED
    BY <2>2, FS_Singleton
<1>12. QED
  BY <1>1, <1>2, <1>3, <1>6, <1>11

LEMMA PlacesOfKids ==
  ASSUME NEW n, Clear(n)
  PROVE  Range(PosOf(heap[n].children)) = {heap[c].pos : c \in Kids(n)}
BY DEF Clear, Kids, PosOf, Range

\* The children of an object.
LEMMA MembersFollow ==
  ASSUME IInv, Indexed, Parsing, Accepted, Matching,
         NEW n \in 1..Len(heap), heap[n].kind = "object", NEW p, p = heap[n].pos
  PROVE  {heap[c].pos : c \in Kids(n)} = {i \in ChildPlaces(p) : ~Superseded(i)}
<1>1. /\ Working /\ ValueStarts = Starts /\ KeyPlaces = KeysRead /\ WaitingFrames = {}
      /\ KeyNodes /\ MemberKids /\ ValueNodes
  BY AtTheEnd DEF Matching, Placed, Sited
<1>2. ASSUME NEW c \in Kids(n), NEW d \in Kids(n), heap[c].key = heap[d].key PROVE c = d
  <2>1. /\ c \in 1..Len(heap) /\ heap[c].kind = "member" /\ heap[c].pos \in KeysRead
        /\ input[heap[c].pos].v = heap[c].key
    BY <1>1, KidsTypes DEF MemberKids, KeyNodes
  <2>2. heap[c].key \in Keys
    <3>1. PICK k \in KeysRead : k = heap[c].pos
      BY <2>1
    <3>2. input[k].k = "str" /\ k \in 1..At
      BY <1>1, <3>1 DEF KeyPlaces, KeysRead, IsKey
    <3>3. input[k] \in Alphabet
      BY <3>2, Facts, ElementOfSeq DEF At
    <3>4. QED
      BY <2>1, <3>1, <3>2, <3>3, AlphabetAssumption
  <2>3. PICK k \in Keys : k = heap[c].key
    BY <2>2
  <2>4. PICK a, b \in DOMAIN heap[n].children : heap[n].children[a] = c /\ heap[n].children[b] = d
    BY DEF Kids
  <2>5. c # 0 /\ d # 0
    BY DEF Kids
  <2>6. a \in Hits(n, k) /\ b \in Hits(n, k)
    BY <1>2, <2>3, <2>4, <2>5 DEF Hits, PlacesOf
  <2>7. a = b
    BY <1>1, <2>6 DEF Matching, Building, KidsApart, OneEach
  <2>8. QED
    BY <2>4, <2>7
<1>3. ASSUME NEW k \in KeysRead, Around(input, k) = p PROVE ListedKey(n, k)
  <2>1. ~AwaitedKey(n, k)
    BY <1>1 DEF AwaitedKey
  <2>2. QED
    BY <1>1, <1>3, <2>1 DEF Matching, Complete
<1>4. ASSUME NEW c \in Kids(n) PROVE heap[c].pos \in ChildPlaces(p) /\ ~Superseded(heap[c].pos)
  <2>1. c \in 1..Len(heap) /\ heap[c].kind = "member" /\ Around(input, heap[c].pos) = p
    BY <1>1, KidsTypes DEF MemberKids
  <2>2. input[heap[c].pos].v = heap[c].key
    BY <1>1, <2>1 DEF KeyNodes
  <2>3. PICK v \in 1..Len(heap) :
          /\ heap[v].kind # "member" /\ ChildOf(input, heap[v].pos) = heap[c].pos
          /\ Around(input, heap[v].pos) = p
    BY <1>1, <2>1 DEF Matching, Building, MemberValues, MemberValue
  <2>4. heap[c].pos \in ChildPlaces(p)
    BY <1>1, <2>3 DEF ValueNodes, ChildPlaces
  <2>5. ASSUME NEW j \in KeysRead, j > heap[c].pos, Around(input, j) = p,
               input[j].v = heap[c].key
        PROVE  FALSE
    <3>1. PICK d \in Kids(n) : heap[d].key = heap[c].key /\ heap[d].pos >= j
      BY <1>3, <2>5 DEF ListedKey
    <3>2. heap[c].pos >= j
      BY <1>2, <3>1
    <3>3. heap[c].pos \in Nat /\ j \in Nat
      BY <1>1, <2>1 DEF KeyNodes, KeysRead
    <3>4. QED
      BY <2>5, <3>2, <3>3
  <2>6. QED
    BY <1>1, <2>1, <2>2, <2>4, <2>5 DEF Superseded
<1>5. ASSUME NEW i \in ChildPlaces(p), ~Superseded(i) PROVE \E c \in Kids(n) : heap[c].pos = i
  <2>1. PICK q \in Starts : Around(input, q) = p /\ i = ChildOf(input, q)
    BY <1>1, <1>5 DEF ChildPlaces
  <2>2. input[p].k = "{" /\ p # 0
    <3>1. p \in Starts
      BY <1>1 DEF ValueNodes
    <3>2. p # 0
      BY <3>1 DEF Starts
    <3>3. QED
      BY <1>1, <3>2 DEF Matching, Building, Sorts
  <2>3. i \in KeysRead /\ Around(input, i) = p
    BY <1>1, <2>1, <2>2 DEF Matching, Building, KeyedStarts, Within
  <2>4. PICK c \in Kids(n) : heap[c].key = input[i].v /\ heap[c].pos >= i
    BY <1>3, <2>3 DEF ListedKey
  <2>5. /\ heap[c].pos \in KeysRead /\ input[heap[c].pos].v = heap[c].key
        /\ Around(input, heap[c].pos) = p
    BY <1>1, <2>4, KidsTypes DEF KeyNodes, MemberKids
  <2>6. ~(heap[c].pos > i)
    BY <1>1, <1>5, <2>3, <2>4, <2>5 DEF Superseded, KeysRead
  <2>7. heap[c].pos \in Nat /\ i \in Nat
    BY <2>3, <2>5 DEF KeysRead
  <2>8. QED
    BY <2>4, <2>6, <2>7
<1>6. QED
  BY <1>4, <1>5

\* The children of an array.
LEMMA ElementsFollow ==
  ASSUME IInv, Indexed, Parsing, Accepted, Matching,
         NEW n \in 1..Len(heap), heap[n].kind = "array", NEW p, p = heap[n].pos
  PROVE  {heap[c].pos : c \in Kids(n)} = {i \in ChildPlaces(p) : ~Superseded(i)}
<1>1. Working /\ ValueStarts = Starts /\ stack = <<>> /\ pc = "done" /\ ValueNodes /\ Len(stack) = 0
  BY AtTheEnd DEF Matching, Sited
<1>2. input[p].k = "[" /\ p # 0
  <2>1. p \in Starts
    BY <1>1 DEF ValueNodes
  <2>2. p # 0
    BY <2>1 DEF Starts
  <2>3. QED
    BY <1>1, <2>2 DEF Matching, Building, Sorts
<1>3. ASSUME NEW q \in Starts, Around(input, q) = p PROVE ChildOf(input, q) = q /\ ~Superseded(q)
  BY <1>2, <1>3 DEF ChildOf, Within, Superseded, Starts, IsValueStart
<1>4. ASSUME NEW c \in Kids(n) PROVE heap[c].pos \in ChildPlaces(p) /\ ~Superseded(heap[c].pos)
  <2>1. c \in 1..Len(heap) /\ heap[c].kind # "member" /\ Around(input, heap[c].pos) = p
    BY <1>1, KidsTypes DEF Matching, Building, ArrayKids
  <2>2. heap[c].pos \in Starts
    BY <1>1, <2>1 DEF ValueNodes
  <2>3. QED
    BY <1>1, <1>3, <2>1, <2>2 DEF ChildPlaces
<1>5. ASSUME NEW i \in ChildPlaces(p), ~Superseded(i) PROVE \E c \in Kids(n) : heap[c].pos = i
  <2>1. PICK q \in Starts : Around(input, q) = p /\ i = ChildOf(input, q)
    BY <1>1, <1>5 DEF ChildPlaces
  <2>2. i \in Starts /\ Around(input, i) = p
    BY <1>3, <2>1
  <2>3. HasElement(n, i) \/ Underway(n, i)
    BY <1>1, <2>2 DEF Matching, Building, Elements
  <2>4. ~Underway(n, i)
    BY <1>1 DEF Underway
  <2>5. QED
    BY <2>3, <2>4 DEF HasElement
<1>6. QED
  BY <1>4, <1>5

\* What TreeMatchesText says of a container and of a member.
ContainerFollows(n) ==
  LET node == heap[n]
      places == PosOf(node.children)
  IN  /\ OpenerOf(input, node.rawBytes[2]) = node.pos
      /\ Closes(input[node.rawBytes[2]]) /\ node.rawBytes[1] = node.pos
      /\ \A i, j \in DOMAIN places : i < j => places[i] < places[j]
      /\ Range(places) = {i \in ChildPlaces(node.pos) : ~Superseded(i)}
MemberFollows(n) ==
  LET places == PosOf(heap[n].children)
  IN  /\ Len(places) = 1
      /\ \E i \in ValueStarts : places[1] = i /\ ChildOf(input, i) = heap[n].pos

LEMMA ContainersFollow ==
  ASSUME IInv, Indexed, Parsing, Accepted, Matching,
         NEW n \in 1..Len(heap), heap[n].kind \in {"object", "array"}
  PROVE  ContainerFollows(n)
<1>1. Working /\ Live = 0
  BY AtTheEnd
<1>2. Clear(n) /\ Spanned(n)
  BY <1>1 DEF Matching, Building, Tidy, Owed, Spans, Open
<1>3. PICK s : s = PosOf(heap[n].children)
  OBVIOUS
<1>4. \A i, j \in DOMAIN s : i < j => s[i] < s[j]
  <2>1. Rising(heap, heap[n].children)
    BY <1>1 DEF Matching, Building, Ordered
  <2>2. QED
    BY <1>2, <1>3, <2>1 DEF Rising, Clear, PosOf
<1>5. Range(s) = {heap[c].pos : c \in Kids(n)}
  BY <1>2, <1>3, PlacesOfKids
<1>6. Range(s) = {i \in ChildPlaces(heap[n].pos) : ~Superseded(i)}
  BY <1>5, MembersFollow, ElementsFollow
<1>7. QED
  BY <1>2, <1>3, <1>4, <1>6 DEF ContainerFollows, Spanned, OpenerOf

LEMMA MemberValueFollows ==
  ASSUME IInv, Parsing, Accepted, Matching, NEW n \in 1..Len(heap), heap[n].kind = "member"
  PROVE  MemberFollows(n)
<1>1. Working /\ ValueStarts = Starts /\ ValueNodes
  BY AtTheEnd DEF Matching, Sited
<1>2. PICK c \in 1..Len(heap) :
        /\ heap[n].children = <<c>> /\ heap[c].kind # "member"
        /\ ChildOf(input, heap[c].pos) = heap[n].pos
  BY <1>1 DEF Matching, Building, MemberValues, MemberValue
<1>3. heap[c].pos \in Starts
  BY <1>1, <1>2 DEF ValueNodes
<1>4. PICK s : s = PosOf(heap[n].children)
  OBVIOUS
<1>5. PICK x : x = heap[c].pos
  OBVIOUS
<1>6. s = [a \in 1..1 |-> x]
  BY <1>2, <1>4, <1>5 DEF PosOf
<1>7. s = <<x>>
  BY <1>6
<1>8. Len(s) = 1 /\ s[1] = x
  BY <1>7
<1>9. QED
  BY <1>1, <1>2, <1>3, <1>4, <1>5, <1>8 DEF MemberFollows

LEMMA TreeFollows == IInv /\ Indexed /\ Parsing /\ Matching => TreeMatchesText
<1> SUFFICES ASSUME IInv, Indexed, Parsing, Matching, Accepted PROVE TreeMatchesText
  BY DEF TreeMatchesText
<1>1. /\ \A i \in ValueStarts \cup KeyPlaces : Cardinality(NodesAt(i)) = 1
      /\ Len(heap) = Cardinality(ValueStarts \cup KeyPlaces)
  BY OneNodeEach DEF Matching
<1>2. DOMAIN heap = 1..Len(heap)
  BY Facts, LenProperties
<1>3. \A n \in DOMAIN heap : /\ heap[n].kind \in {"object", "array"} => ContainerFollows(n)
                             /\ heap[n].kind = "member" => MemberFollows(n)
  BY <1>2, ContainersFollow, MemberValueFollows
<1>4. QED
  BY <1>1, <1>3 DEF TreeMatchesText, ContainerFollows, MemberFollows

LEMMA InitMatching == ASSUME Init PROVE Matching
<1>1. /\ heap = <<>> /\ stack = <<>> /\ input = <<>> /\ have = FALSE /\ pc = "lead"
  BY DEF Init, ParserInit
<1>2. Len(heap) = 0 /\ Len(stack) = 0 /\ Consumed = 0 /\ 1..0 = {}
  BY <1>1 DEF Consumed, At
<1>3. Starts = {}
  BY <1>2 DEF Starts
<1>4. Building
  BY <1>1, <1>2, <1>3 DEF Building, Sorts, Returned, MemberValues, ArrayKids, KeyedStarts, Elements,
    Ordered, KidsApart, Tidy, Spans
<1>5. QED
  BY <1>4, InitMeasured, InitReporting DEF Matching, Measured

LEMMA NextMatching == IInv /\ IInv' /\ Indexed /\ Parsing /\ Matching /\ [Next]_vars => Matching'
<1> SUFFICES ASSUME IInv, IInv', Indexed, Parsing, Matching, [Next]_vars PROVE Matching'
  OBVIOUS
<1>1. Lasts(heap, heap') /\ Indexed'
  BY NodesLast, NextIndexed
<1>2. Counted'
  <2>1. CASE pc' = "error"
    BY <2>1 DEF Counted, Working
  <2>2. CASE pc' # "error"
    BY <1>1, <2>2, CountedNext DEF Matching
  <2>3. QED
    BY <2>1, <2>2
<1>3. Placed' /\ Sited' /\ Complete'
  BY <1>1, PlacedNext, SitedNext, CompleteNext DEF Matching
<1>4. Sorts' /\ Returned' /\ MemberValues' /\ ArrayKids' /\ KeyedStarts' /\ Elements'
  BY <1>1, SortsNext, ReturnedNext, MemberValuesNext, ArrayKidsNext, KeyedStartsNext, ElementsNext
     DEF Matching, Building
<1>5. Ordered' /\ KidsApart' /\ Tidy' /\ Spans'
  BY <1>1, OrderedNext, KidsApartNext, TidyNext, SpansNext DEF Matching, Building
<1>6. QED
  BY <1>2, <1>3, <1>4, <1>5 DEF Matching, Building

\* What parse returns is the tree of the text, whatever the text, the options
\* and memberIndexMin: a node for every value and every member and no other,
\* the children of every container in source order with none missing but the
\* members a later one of their key superseded, rawBytes from the opening
\* delimiter to its own closing one, and under every member the value that
\* follows its key (parseObject, parseArray, parseMember and what they append,
\* make nil and delete).
THEOREM TreeIsTheTexts == Spec => []TreeMatchesText
<1>1. Init => Matching
  BY InitMatching
<1>2. IInv /\ IInv' /\ Indexed /\ Parsing /\ Matching /\ [Next]_vars => Matching'
  BY NextMatching
<1>3. IInv /\ Indexed /\ Parsing /\ Matching => TreeMatchesText
  BY TreeFollows
<1>4. QED
  BY <1>1, <1>2, <1>3, Inductive, AlwaysIndexed, AlwaysParsing, PTL DEF Spec
=============================================================================
