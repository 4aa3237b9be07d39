------------------------------ MODULE CommentProofs -----------------------------
(***************************************************************************)
(* Theorems about the comments of parse: that every comment with text ends  *)
(* in the slot that the significant tokens around it name, or in none where *)
(* the rules drop it.                                                       *)
(***************************************************************************)
EXTENDS TreeProofs

-----------------------------------------------------------------------------
(* A run of comments and line breaks. *)

LEMMA AroundRun ==
  ASSUME NEW s, NEW i \in Nat \ {0}, NEW c \in Nat, i <= c + 1, \A j \in i..c : IsBlankSpace(s[j])
  PROVE  Around(s, i) = Around(s, c + 1)
<1> DEFINE T == {n \in Nat : i + n <= c + 1 => Around(s, i + n) = Around(s, i)}
<1>1. 0 \in T
  OBVIOUS
<1>2. ASSUME NEW n \in Nat, n \in T PROVE n + 1 \in T
  <2> SUFFICES ASSUME i + (n + 1) <= c + 1 PROVE Around(s, i + (n + 1)) = Around(s, i)
    OBVIOUS
  <2>1. i + n \in i..c /\ i + n \in Nat \ {0} /\ i + (n + 1) = (i + n) + 1
    OBVIOUS
  <2>2. IsBlankSpace(s[i + n])
    BY <2>1
  <2>3. Around(s, (i + n) + 1) = Around(s, i + n)
    BY <2>1, <2>2, AroundBlank
  <2>4. Around(s, i + n) = Around(s, i)
    BY <1>2, <2>1
  <2>5. QED
    BY <2>1, <2>3, <2>4
<1> HIDE DEF T
<1>3. \A n \in Nat : n \in T
  BY <1>1, <1>2, SetInduction
<1>4. c + 1 - i \in Nat /\ i + (c + 1 - i) = c + 1
  OBVIOUS
<1>5. QED
  BY <1>3, <1>4 DEF T

LEMMA AfterIs ==
  ASSUME NEW s, NEW i \in Nat \ {0}, Len(s) \in Nat, NEW q \in i..Len(s), ~IsBlankSpace(s[q]),
         \A j \in i..q - 1 : IsBlankSpace(s[j])
  PROVE  After(s, i) = q
<1> DEFINE J == {j \in i..Len(s) : ~IsBlankSpace(s[j])}
<1>1. q \in J /\ J # {}
  OBVIOUS
<1>2. \A j \in J : q <= j
  OBVIOUS
<1>3. \A x \in J : (\A y \in J : x <= y) => x = q
  BY <1>1, <1>2
<1>4. Min(J) = q
  <2> HIDE DEF J
  <2>1. Min(J) = CHOOSE x \in J : \A y \in J : x <= y
    BY DEF Min
  <2>2. QED
    BY <1>1, <1>2, <1>3, <2>1
<1>5. QED
  BY <1>1, <1>4 DEF After

-----------------------------------------------------------------------------
(* What the text consumed says of a comment stays as the text grows. *)

\* The text and the lookahead are only added to.
LEMMA TextGrown ==
  ASSUME IInv, [Next]_vars
  PROVE  /\ At \in Nat /\ At <= Len(input') /\ Len(input') \in Nat
         /\ Agree(input, input', At)
<1>1. At \in Nat /\ \A i \in 1..At : Append(input, input[1])[i] = input[i]
  BY TokenTypes, LenProperties DEF IInv, TypeOK, ParserTypeOK, At
<1>2. CASE Scan
  <2>1. PICK t \in Alphabet : input' = Append(input, t)
    BY <1>2 DEF Scan
  <2>2. input \in Seq(Alphabet)
    BY DEF IInv, TypeOK, ParserTypeOK
  <2>3. Len(input') = At + 1 /\ \A i \in 1..At : input'[i] = input[i]
    BY <2>1, <2>2, AppendProperties, LenProperties DEF At
  <2>4. QED
    BY <1>1, <2>3 DEF Agree
<1>3. CASE ~Scan
  <2>1. UNCHANGED input
    BY <1>3, Reads
  <2>2. QED
    BY <1>1, <2>1 DEF Agree, At
<1>4. QED
  BY <1>2, <1>3

SameToken(i) ==
  /\ input'[i] = input[i]
  /\ IsKey(input', i) <=> IsKey(input, i)
  /\ EndsValue(input', i) <=> EndsValue(input, i)
  /\ Around(input', i) = Around(input, i)
  /\ Before(input', i) = Before(input, i)
  /\ ChildOf(input', i) = ChildOf(input, i)

LEMMA TokensGrown ==
  ASSUME IInv, [Next]_vars, NEW i \in 1..At
  PROVE  SameToken(i) /\ StartOf(input', i) = StartOf(input, i)
<1>1. At \in Nat /\ Agree(input, input', At) /\ i \in 1..At + 1 /\ i \in Nat \ {0}
  BY TextGrown
<1>2. SameToken(i)
  BY <1>1, AgreeKey, AgreeEnds, AgreeAround, AgreeBefore, AgreeChild DEF Agree, SameToken
<1>3. QED
  BY <1>2 DEF SameToken, StartOf, OpenerOf

LEMMA NoChildOfNone == ASSUME NEW s PROVE ChildOf(s, 0) = 0
<1>1. {j \in 1..0 - 1 : Opens(s[j]) /\ \A k \in j..0 - 1 : Surplus(s, j, k) > 0} = {}
  OBVIOUS
<1>2. Around(s, 0) = 0
  BY <1>1, LargestEmpty DEF Around
<1>3. QED
  BY <1>2 DEF ChildOf, Within

LEMMA OwnersGrown ==
  ASSUME IInv, [Next]_vars, NEW i \in 1..At
  PROVE  Owner(i)' = Owner(i)
<1>1. StartOf(input', i) = StartOf(input, i) /\ StartOf(input, i) \in 0..i /\ i \in Nat \ {0}
  BY TokensGrown, AroundType, TextGrown DEF StartOf, OpenerOf
<1>2. StartOf(input, i) = 0 \/ StartOf(input, i) \in 1..At
  BY <1>1, TextGrown
<1>3. PICK q : q = StartOf(input, i)
  OBVIOUS
<1>4. ChildOf(input', q) = ChildOf(input, q)
  BY <1>2, <1>3, NoChildOfNone, TokensGrown DEF SameToken
<1>5. QED
  BY <1>1, <1>3, <1>4 DEF Owner

\* A comment on the line of the value or comma before it belongs to what ended
\* there; any other one waits for the next significant token.
Inlined(i) ==
  LET p == Before(input, i)
  IN  /\ p # 0
      /\ \/ input[p].k = "," /\ i = p + 1
         \/ EndsValue(input, p) /\ i = p + 1
         \/ /\ Closes(input[p]) /\ i = p + 2 /\ IsComment(input[p + 1])
            /\ Around(input, i) # 0 \/ ~IsText(p + 1)
\* The first significant token from i on.
Ahead(i, q) == q \in i..At /\ ~IsBlankSpace(input[q]) /\ \A j \in i..q - 1 : IsBlankSpace(input[j])
\* It stands before the first value, or after a token that a head or a foot comment may follow.
Hangs(i) ==
  LET p == Before(input, i)
  IN  p = 0 \/ Opens(input[p]) \/ input[p].k = "," \/ EndsValue(input, p)
Settled(i) == Inlined(i) \/ (Hangs(i) /\ \E q \in 1..At : Ahead(i, q))
PlacedAt(i, pos, slot) == <<pos, slot>> \in Places(i) /\ Settled(i)

LEMMA AheadIs ==
  ASSUME IInv, NEW i \in Nat \ {0}, NEW q, Ahead(i, q)
  PROVE  After(input, i) = q /\ q \in i..At
<1>1. Len(input) \in Nat /\ At = Len(input)
  BY TokenTypes DEF IInv, At
<1>2. q \in i..Len(input) /\ ~IsBlankSpace(input[q]) /\ \A j \in i..q - 1 : IsBlankSpace(input[j])
  BY <1>1 DEF Ahead
<1>3. QED
  BY <1>1, <1>2, AfterIs

LEMMA ArmsApart ==
  ASSUME NEW s, NEW p
  PROVE  /\ s[p].k = ":" \/ IsKey(s, p) => ~Opens(s[p]) /\ s[p].k # "," /\ ~EndsValue(s, p)
         /\ s[p].k = "," => ~Opens(s[p]) /\ ~Closes(s[p]) /\ ~EndsValue(s, p)
         /\ Opens(s[p]) => s[p].k # "," /\ ~Closes(s[p]) /\ ~EndsValue(s, p)
         /\ EndsValue(s, p) => s[p].k # ","
BY DEF IsKey, Opens, Closes, EndsValue

LEMMA InlinedGrown ==
  ASSUME IInv, [Next]_vars, NEW i \in 1..At
  PROVE  (Inlined(i)' <=> Inlined(i)) /\ (Hangs(i)' <=> Hangs(i))
<1>1. PICK p : p = Before(input, i)
  OBVIOUS
<1>2. Before(input', i) = p /\ Around(input', i) = Around(input, i) /\ At \in Nat
  BY <1>1, TokensGrown, TextGrown DEF SameToken
<1>3. p \in 0..i - 1
  BY <1>1, BeforeType, <1>2
<1>4. p # 0 => SameToken(p) /\ p \in 1..At
  BY <1>2, <1>3, TokensGrown
<1>5. i = p + 2 => SameToken(p + 1)
  BY <1>2, <1>3, TokensGrown
<1>6. QED
  BY <1>1, <1>2, <1>4, <1>5 DEF Inlined, Hangs, SameToken, IsText

LEMMA SettledGrown ==
  ASSUME IInv, [Next]_vars, NEW i \in 1..At
  PROVE  /\ Settled(i) => Settled(i)'
         /\ \A q \in 1..At : Ahead(i, q) => Ahead(i, q)'
<1>1. At \in Nat /\ At <= At' /\ At' \in Nat /\ \A j \in 1..At : input'[j] = input[j]
  BY TextGrown DEF Agree, At
<1>2. ASSUME NEW q \in 1..At, Ahead(i, q) PROVE Ahead(i, q)'
  BY <1>1, <1>2 DEF Ahead
<1>3. \A q \in 1..At : q \in 1..At'
  BY <1>1
<1>4. QED
  BY <1>2, <1>3, InlinedGrown DEF Settled

LEMMA CommaFollows ==
  ASSUME IInv, Parsing, NEW p \in 1..Consumed, input[p].k = ","
  PROVE  Before(input, p) # 0 /\ EndsValue(input, Before(input, p)) /\ Around(input, p) # 0
<1>1. Allowed(input, p, StrictJSON)
  BY DEF Parsing, LanguageExact, Viable
<1>2. ~IsBlankSpace(input[p]) /\ ~StartsValue(input[p]) /\ ~IsKey(input, p)
  BY DEF IsBlankSpace, IsComment, StartsValue, Opens, IsKey
<1>3. QED
  BY <1>1, <1>2 DEF Allowed

LEMMA PlacesGrown ==
  ASSUME IInv, Parsing, [Next]_vars, NEW i \in 1..Consumed, Settled(i)
  PROVE  Places(i)' = Places(i) /\ Settled(i)'
<1>1. PICK p : p = Before(input, i)
  OBVIOUS
<1>2. PICK around : around = Around(input, i)
  OBVIOUS
<1>3. At \in Nat /\ Consumed \in Nat /\ Consumed <= At /\ i \in 1..At
  BY ConsumedType, TextGrown DEF Consumed
<1>4. Before(input', i) = p /\ Around(input', i) = around
  BY <1>1, <1>2, <1>3, TokensGrown DEF SameToken
<1>5. p \in 0..i - 1 /\ (p # 0 => p \in 1..At /\ p \in 1..Consumed /\ p \in Nat \ {0})
  BY <1>1, <1>3, BeforeType
<1>6. p # 0 => /\ input'[p] = input[p] /\ Owner(p)' = Owner(p)
               /\ StartOf(input', p) = StartOf(input, p)
               /\ IsKey(input', p) <=> IsKey(input, p)
               /\ EndsValue(input', p) <=> EndsValue(input, p)
               /\ Before(input', p) = Before(input, p)
  BY <1>5, TokensGrown, OwnersGrown DEF SameToken
<1>7. i = p + 2 => input'[p + 1] = input[p + 1]
  BY <1>3, <1>5, TokensGrown DEF SameToken
<1>8. PICK c : c = Before(input, p)
  OBVIOUS
<1>9. ASSUME p # 0, input[p].k = "," PROVE Owner(c)' = Owner(c)
  <2>1. p \in 1..Consumed /\ p \in Nat \ {0} /\ p \in 1..At
    BY <1>5, <1>9
  <2>2. c # 0
    BY <1>8, <1>9, <2>1, CommaFollows
  <2>3. c \in 0..p - 1
    BY <1>8, <2>1, BeforeType
  <2>4. c \in 1..At
    BY <1>3, <2>1, <2>2, <2>3
  <2>5. QED
    BY <2>4, OwnersGrown
<1>10. Settled(i)'
  BY <1>3, SettledGrown
<1>11. PICK q : q = After(input, i)
  OBVIOUS
<1>12. Inlined(i) \/ (After(input', i) = q /\ input'[q] = input[q])
  <2> SUFFICES ASSUME ~Inlined(i) PROVE After(input', i) = q /\ input'[q] = input[q]
    OBVIOUS
  <2>1. PICK x \in 1..At : Ahead(i, x)
    BY DEF Settled
  <2>2. x = q
    BY <1>3, <1>11, <2>1, AheadIs
  <2>3. Ahead(i, x)'
    BY <1>3, <2>1, SettledGrown
  <2>4. Len(input') \in Nat /\ At' = Len(input')
    BY TextGrown DEF At
  <2>5. x \in i..Len(input') /\ ~IsBlankSpace(input'[x]) /\ \A j \in i..x - 1 : IsBlankSpace(input'[j])
    BY <2>3, <2>4 DEF Ahead
  <2>6. After(input', i) = x
    BY <1>3, <2>4, <2>5, AfterIs
  <2>7. QED
    BY <2>1, <2>2, <2>6, TextGrown DEF Agree
<1>13. Places(i)' = Places(i)
  <2>1. CASE p = 0
    <3>1. ~Inlined(i)
      BY <1>1, <2>1 DEF Inlined
    <3>2. QED
      BY <1>1, <1>4, <1>11, <1>12, <2>1, <3>1 DEF Places
  <2>2. CASE p # 0 /\ Inlined(i)
    BY <1>1, <1>2, <1>4, <1>6, <1>7, <1>8, <1>9, <2>2
    DEF Places, Inlined, BetweenKeyAndValue, IsText, EndsValue, Closes, Opens, IsComment, IsKey
  <2>3. CASE p # 0 /\ ~Inlined(i)
    <3>1. i # p + 1 \/ ~(EndsValue(input, p) \/ input[p].k = ",")
      BY <1>1, <2>3 DEF Inlined
    <3>2. Hangs(i) /\ ~(input[p].k = ":" \/ IsKey(input, p))
      BY <1>1, <2>3, ArmsApart DEF Settled, Hangs
    <3>3. CASE Opens(input[p]) \/ input[p].k = ","
      <4>1. ~EndsValue(input, p) /\ ~(input[p].k = "," /\ i = p + 1)
            /\ (Opens(input[p]) \/ (input[p].k = "," /\ i # p + 1))
        BY <3>1, <3>3, ArmsApart
      <4>2. /\ Opens(input'[p]) <=> Opens(input[p])
            /\ Closes(input'[q]) <=> Closes(input[q])
            /\ input'[p].k = input[p].k
        BY <1>6, <1>12, <2>3
      <4>3. Places(i) = IF Closes(input[q]) THEN {<<around, "footComment">>} ELSE {<<q, "headComment">>}
        BY <1>1, <1>2, <1>11, <2>3, <3>2, <4>1 DEF Places, BetweenKeyAndValue
      <4>4. Places(i)' = IF Closes(input'[q]) THEN {<<around, "footComment">>} ELSE {<<q, "headComment">>}
        BY <1>4, <1>6, <1>12, <2>3, <3>2, <4>1, <4>2 DEF Places, BetweenKeyAndValue
      <4>5. QED
        BY <4>2, <4>3, <4>4
    <3>4. CASE EndsValue(input, p)
      <4>1. ~Opens(input[p]) /\ input[p].k # "," /\ i # p + 1
        BY <3>1, <3>4, ArmsApart
      <4>2. Opens(input'[p]) <=> Opens(input[p])
        BY <1>6, <2>3
      <4>3. /\ Closes(input'[p]) <=> Closes(input[p])
            /\ Closes(input'[q]) <=> Closes(input[q])
        BY <1>6, <1>12, <2>3
      <4>4. i = p + 2 => (IsComment(input'[p + 1]) <=> IsComment(input[p + 1]))
                         /\ input'[p + 1].v = input[p + 1].v
        BY <1>7
      <4>5. QED
        BY <1>1, <1>2, <1>4, <1>6, <1>11, <1>12, <2>3, <3>2, <3>4, <4>1, <4>2, <4>3, <4>4
        DEF Places, BetweenKeyAndValue, IsText
    <3>5. QED
      BY <1>1, <2>3, <3>2, <3>3, <3>4 DEF Hangs
  <2>4. QED
    BY <2>1, <2>2, <2>3
<1>14. QED
  BY <1>10, <1>13

-----------------------------------------------------------------------------
(* Where the rules put a comment, by what stands before and after it. *)

\* A head comment of the value or key at q.
IsHead(i, q) ==
  /\ Ahead(i, q) /\ ~Closes(input[q])
  /\ LET p == Before(input, i)
     IN  p = 0 \/ Opens(input[p]) \/ (input[p].k = "," /\ i # p + 1)

LEMMA HeadPlace ==
  ASSUME IInv, NEW i \in Nat \ {0}, NEW q, IsHead(i, q)
  PROVE  PlacedAt(i, q, "headComment")
<1>1. PICK p : p = Before(input, i)
  OBVIOUS
<1>2. Ahead(i, q) /\ ~Closes(input[q]) /\ (p = 0 \/ Opens(input[p]) \/ (input[p].k = "," /\ i # p + 1))
  BY <1>1 DEF IsHead
<1>3. After(input, i) = q /\ q \in 1..At
  <2>1. Ahead(i, q)
    BY <1>2
  <2>2. QED
    BY <2>1, AheadIs, TokenTypes DEF IInv
<1>4. Settled(i)
  BY <1>1, <1>2, <1>3 DEF Settled, Hangs
<1>5. Places(i) = {<<q, "headComment">>}
  <2>1. CASE p = 0
    BY <1>1, <1>3, <2>1 DEF Places
  <2>2. CASE p # 0
    <3>1. ~(input[p].k = ":" \/ IsKey(input, p)) /\ ~EndsValue(input, p)
          /\ ~(input[p].k = "," /\ i = p + 1)
      BY <1>2, <2>2, ArmsApart
    <3>2. QED
      BY <1>1, <1>2, <1>3, <2>2, <3>1 DEF Places, BetweenKeyAndValue
  <2>3. QED
    BY <2>1, <2>2
<1>6. QED
  BY <1>4, <1>5 DEF PlacedAt

\* A foot comment of the container that closes at q.
LEMMA FootPlace ==
  ASSUME IInv, NEW i \in Nat \ {0}, NEW q, Ahead(i, q), Closes(input[q]),
         Hangs(i), Before(input, i) # 0, ~Inlined(i), Around(input, i) # 0
  PROVE  PlacedAt(i, Around(input, i), "footComment")
<1>1. PICK p : p = Before(input, i)
  OBVIOUS
<1>2. After(input, i) = q /\ q \in 1..At
  BY AheadIs, TokenTypes DEF IInv
<1>3. Settled(i)
  BY <1>2 DEF Settled
<1>4. /\ p # 0 /\ (Opens(input[p]) \/ input[p].k = "," \/ EndsValue(input, p))
      /\ ~(input[p].k = "," /\ i = p + 1) /\ ~(EndsValue(input, p) /\ i = p + 1)
      /\ ~(Closes(input[p]) /\ i = p + 2 /\ IsComment(input[p + 1]))
  BY <1>1 DEF Hangs, Inlined
<1>5. ~(input[p].k = ":" \/ IsKey(input, p))
  BY <1>4, ArmsApart
<1>6. CASE EndsValue(input, p)
  <2>1. ~Opens(input[p]) /\ input[p].k # "," /\ i # p + 1
    BY <1>4, <1>6, ArmsApart
  <2>2. QED
    BY <1>1, <1>2, <1>3, <1>4, <1>5, <1>6, <2>1 DEF PlacedAt, Places, BetweenKeyAndValue
<1>7. CASE ~EndsValue(input, p)
  <2>1. Opens(input[p]) \/ (input[p].k = "," /\ i # p + 1)
    BY <1>4, <1>7
  <2>2. QED
    BY <1>1, <1>2, <1>3, <1>4, <1>5, <1>7, <2>1 DEF PlacedAt, Places, BetweenKeyAndValue
<1>8. QED
  BY <1>6, <1>7

\* A foot comment of what ended before it, or the document's trailing comment.
LEMMA EndPlace ==
  ASSUME IInv, NEW i \in Nat \ {0}, NEW q, Ahead(i, q),
         NEW p, p = Before(input, i), p # 0, EndsValue(input, p), ~Inlined(i)
  PROVE  /\ Around(input, i) = 0 => PlacedAt(i, Owner(p), "trailComment")
         /\ Around(input, i) # 0 /\ ~Closes(input[q]) => PlacedAt(i, Owner(p), "footComment")
<1>1. After(input, i) = q /\ q \in 1..At
  BY AheadIs, TokenTypes DEF IInv
<1>2. Settled(i)
  BY <1>1 DEF Settled, Hangs
<1>3. /\ i # p + 1
      /\ ~(Closes(input[p]) /\ i = p + 2 /\ IsComment(input[p + 1])
           /\ (Around(input, i) # 0 \/ ~IsText(p + 1)))
  BY DEF Inlined
<1>4. ~(input[p].k = ":" \/ IsKey(input, p)) /\ ~Opens(input[p]) /\ input[p].k # ","
  BY ArmsApart
<1>5. CASE Around(input, i) = 0
  BY <1>1, <1>2, <1>3, <1>4, <1>5 DEF PlacedAt, Places, BetweenKeyAndValue
<1>6. CASE Around(input, i) # 0
  BY <1>1, <1>2, <1>3, <1>4, <1>6 DEF PlacedAt, Places, BetweenKeyAndValue
<1>7. QED
  BY <1>5, <1>6

\* A container's own comment, and that of a member, an element or the root.
LEMMA InlinePlace ==
  ASSUME IInv, NEW i \in Nat \ {0}, NEW p, p = Before(input, i), p # 0, EndsValue(input, p), Inlined(i)
  PROVE  IF Closes(input[p]) /\ i = p + 1 THEN PlacedAt(i, StartOf(input, p), "comment")
         ELSE PlacedAt(i, Owner(p), "comment")
<1>1. Settled(i)
  BY DEF Settled
<1>2. ~(input[p].k = ":" \/ IsKey(input, p)) /\ ~Opens(input[p]) /\ input[p].k # ","
  BY ArmsApart
<1>3. \/ i = p + 1
      \/ Closes(input[p]) /\ i = p + 2 /\ IsComment(input[p + 1])
         /\ (Around(input, i) # 0 \/ ~IsText(p + 1))
  BY <1>2 DEF Inlined
<1>4. CASE Closes(input[p]) /\ i = p + 1
  BY <1>1, <1>2, <1>4 DEF PlacedAt, Places, BetweenKeyAndValue
<1>5. CASE ~(Closes(input[p]) /\ i = p + 1)
  BY <1>1, <1>2, <1>3, <1>5 DEF PlacedAt, Places, BetweenKeyAndValue
<1>6. QED
  BY <1>4, <1>5

LEMMA CommaPlace ==
  ASSUME IInv, NEW i \in Nat \ {0}, NEW p, p = Before(input, i), p # 0, input[p].k = ",", i = p + 1,
         NEW slot \in {"comment", "footComment"}
  PROVE  PlacedAt(i, Owner(Before(input, p)), slot)
<1>1. Settled(i)
  BY DEF Settled, Inlined
<1>2. ~(input[p].k = ":" \/ IsKey(input, p)) /\ ~Opens(input[p]) /\ ~EndsValue(input, p)
  BY ArmsApart
<1>3. QED
  BY <1>1, <1>2 DEF PlacedAt, Places, BetweenKeyAndValue

-----------------------------------------------------------------------------
(* What a step writes into the slots of the nodes. *)

HasSlots(h) == \A n \in DOMAIN h : Slots \subseteq DOMAIN h[n]
SameSlots(h, g) == DOMAIN g = DOMAIN h /\ \A n \in DOMAIN h : \A slot \in Slots : g[n][slot] = h[n][slot]
OneSlot(h, g, i, which, t) ==
  /\ DOMAIN g = DOMAIN h
  /\ \A n \in DOMAIN h : \A slot \in Slots :
       g[n][slot] = IF n = i /\ slot = which THEN t ELSE h[n][slot]

LEMMA SlotAssigned ==
  ASSUME NEW h, HasSlots(h), NEW i, NEW t, NEW g
  PROVE  /\ g = [h EXCEPT ![i].headComment = t] => HasSlots(g) /\ OneSlot(h, g, i, "headComment", t)
         /\ g = [h EXCEPT ![i].comment = t] => HasSlots(g) /\ OneSlot(h, g, i, "comment", t)
         /\ g = [h EXCEPT ![i].footComment = t] => HasSlots(g) /\ OneSlot(h, g, i, "footComment", t)
         /\ g = [h EXCEPT ![i].trailComment = t] => HasSlots(g) /\ OneSlot(h, g, i, "trailComment", t)
         /\ g = [h EXCEPT ![i].children = t] => HasSlots(g) /\ SameSlots(h, g)
         /\ g = [h EXCEPT ![i].rawBytes = t] => HasSlots(g) /\ SameSlots(h, g)
<1>1. \A n \in DOMAIN h : {"headComment", "comment", "footComment", "trailComment"} \subseteq DOMAIN h[n]
  BY DEF HasSlots, Slots
<1>2. ASSUME g = [h EXCEPT ![i].headComment = t] PROVE HasSlots(g) /\ OneSlot(h, g, i, "headComment", t)
  BY <1>1, <1>2 DEF HasSlots, OneSlot, Slots
<1>3. ASSUME g = [h EXCEPT ![i].comment = t] PROVE HasSlots(g) /\ OneSlot(h, g, i, "comment", t)
  BY <1>1, <1>3 DEF HasSlots, OneSlot, Slots
<1>4. ASSUME g = [h EXCEPT ![i].footComment = t] PROVE HasSlots(g) /\ OneSlot(h, g, i, "footComment", t)
  BY <1>1, <1>4 DEF HasSlots, OneSlot, Slots
<1>5. ASSUME g = [h EXCEPT ![i].trailComment = t] PROVE HasSlots(g) /\ OneSlot(h, g, i, "trailComment", t)
  BY <1>1, <1>5 DEF HasSlots, OneSlot, Slots
<1>6. ASSUME g = [h EXCEPT ![i].children = t] PROVE HasSlots(g) /\ SameSlots(h, g)
  BY <1>1, <1>6 DEF HasSlots, SameSlots, Slots
<1>7. ASSUME g = [h EXCEPT ![i].rawBytes = t] PROVE HasSlots(g) /\ SameSlots(h, g)
  BY <1>1, <1>7 DEF HasSlots, SameSlots, Slots
<1>8. QED
  BY <1>2, <1>3, <1>4, <1>5, <1>6, <1>7

\* The text a step hands to a node.
Given ==
  IF pc \in {"loop", "between", "trail"} THEN NonBlank(acc)
  ELSE IF pc = "return" THEN (IF stack = <<>> THEN lead ELSE Top.pendingHead)
  ELSE Inline
\* The slot, one the node n has already, that a step writes.
Receives(n, slot) ==
  \/ (CloseContainer \/ CloseAhead) /\ n = Top.node /\ slot = "footComment"
  \/ Separator /\ n = Current /\ slot = "footComment"
  \/ ReturnContainer /\ n = Top.node /\ slot = "comment"
  \/ AppendElement /\ n = val /\ slot = "headComment"
  \/ ReturnRoot /\ n = val /\ slot = "headComment"
  \/ InlineComment /\ Inline # <<>> /\ n = Current /\ slot = "comment"
  \/ RootInline /\ n = val /\ slot = "comment"
  \/ AttachAfterComma /\ n = Current
       /\ slot = IF heap[n].comment = <<>> THEN "comment" ELSE "footComment"
  \/ Finish /\ n = val /\ slot = "trailComment"
Written(old, slot) ==
  IF slot = "comment" THEN Given ELSE IF ReturnRoot THEN Given \o old ELSE old \o Given

LEMMA HeapSlots ==
  ASSUME IInv
  PROVE  HasSlots(heap) /\ DOMAIN heap = 1..Len(heap)
<1>1. \A o \in DOMAIN heap : heap[o] \in Node
  BY Facts, ElementOfSeq, LenProperties
<1>2. \A x \in Node : {"headComment", "comment", "footComment", "trailComment"} \subseteq DOMAIN x
  BY DEF Node
<1>3. QED
  BY <1>1, <1>2, Facts, LenProperties DEF HasSlots, Slots

LEMMA ClosedSlots ==
  ASSUME IInv, CloseContainer
  PROVE  OneSlot(heap, heap', Top.node, "footComment", heap[Top.node].footComment \o NonBlank(acc))
<1> DEFINE i == Top.node
           kids == IF Top.removed > 0 THEN RemoveNil(heap[i].children) ELSE heap[i].children
           h == [heap EXCEPT ![i].children = kids]
           g == [h EXCEPT ![i].footComment = h[i].footComment \o NonBlank(acc)]
           f == [g EXCEPT ![i].rawBytes = Span]
<1>1. heap' = f
  BY DEF CloseContainer
<1>2. HasSlots(h) /\ SameSlots(heap, h)
  <2> HIDE DEF kids
  <2>1. QED
    BY HeapSlots, SlotAssigned
<1>3. h[i].footComment = heap[i].footComment
  <2>1. stack # <<>>
    BY DEF CloseContainer, AtClose, SeesClose, InObject, InArray
  <2>2. i \in DOMAIN heap
    BY <2>1, HeapSlots, TopOpened
  <2> HIDE DEF h, i
  <2>3. QED
    BY <1>2, <2>2 DEF SameSlots, Slots
<1> HIDE DEF h
<1>4. HasSlots(g) /\ OneSlot(h, g, i, "footComment", h[i].footComment \o NonBlank(acc))
  BY <1>2, SlotAssigned
<1> HIDE DEF g
<1>5. SameSlots(g, f)
  BY <1>4, SlotAssigned
<1> HIDE DEF f
<1>6. OneSlot(h, g, i, "footComment", heap[i].footComment \o NonBlank(acc))
  BY <1>3, <1>4
<1>7. PICK t : t = heap[i].footComment \o NonBlank(acc)
  OBVIOUS
<1>8. PICK c : c = i
  OBVIOUS
<1>9. OneSlot(h, g, c, "footComment", t)
  BY <1>6, <1>7, <1>8
<1>10. OneSlot(heap, f, c, "footComment", t)
  BY <1>2, <1>5, <1>9 DEF OneSlot, SameSlots
<1>11. QED
  BY <1>1, <1>7, <1>8, <1>10

LEMMA AppendedSlots ==
  ASSUME IInv, AppendElement
  PROVE  OneSlot(heap, heap', val, "headComment", heap[val].headComment \o Top.pendingHead)
<1> DEFINE h == [heap EXCEPT ![val].headComment = heap[val].headComment \o Top.pendingHead]
           g == [h EXCEPT ![Top.node].children = Append(h[Top.node].children, val)]
<1>1. HasSlots(h) /\ OneSlot(heap, h, val, "headComment", heap[val].headComment \o Top.pendingHead)
  BY HeapSlots, SlotAssigned
<1>2. heap' = g
  BY DEF AppendElement
<1> HIDE DEF h
<1>3. SameSlots(h, g)
  BY <1>1, SlotAssigned
<1> HIDE DEF g
<1>4. QED
  BY <1>1, <1>2, <1>3 DEF OneSlot, SameSlots

\* The steps that write no slot a node has already.
LEMMA UnwrittenSlots ==
  ASSUME IInv, [Next]_vars,
         ~(CloseContainer \/ CloseAhead \/ Separator \/ ReturnContainer \/ AppendElement \/ ReturnRoot
           \/ InlineComment \/ RootInline \/ AttachAfterComma \/ Finish),
         NEW n \in 1..Len(heap), NEW slot \in Slots
  PROVE  heap'[n][slot] = heap[n][slot]
<1>1. CASE ParseScalar \/ OpenContainer \/ MakeMember
  <2>1. PICK x \in Node : heap' = Append(heap, x)
    BY <1>1, Allocated
  <2>2. heap'[n] = heap[n]
    BY <2>1, Facts, AppendProperties
  <2>3. QED
    BY <2>2
<1>2. CASE UNCHANGED heap
  BY <1>2
<1>3. CASE InsertMember
  <2>1. \E i, t : heap' = [heap EXCEPT ![i].children = t]
    BY <1>3 DEF InsertMember
  <2>2. SameSlots(heap, heap')
    BY <2>1, HeapSlots, SlotAssigned
  <2>3. QED
    BY <2>2, HeapSlots DEF SameSlots
<1>4. CASE \/ Scan \/ OverNodes \/ TooDeep \/ NotAValue \/ CollectHeadComments \/ SkipDroppedComments
           \/ StrictTrailingComma \/ ParseKey \/ NotAKey \/ ParseColon \/ NotAColon
           \/ RefuseDuplicate \/ NotASeparator
  BY <1>2, <1>4 DEF Scan, OverNodes, TooDeep, NotAValue, CollectHeadComments, SkipDroppedComments,
     StrictTrailingComma, ParseKey, NotAKey, ParseColon, NotAColon, RefuseDuplicate, NotASeparator
<1>5. CASE BeginRoot \/ NoRoot \/ ConsumeTrailing \/ ExtraData \/ UNCHANGED vars
  BY <1>2, <1>5 DEF BeginRoot, NoRoot, ConsumeTrailing, ExtraData, vars, pvars
<1>6. QED
  BY <1>1, <1>3, <1>4, <1>5 DEF Next, ParseValue

\* What each of the others writes.
LEMMA WrittenSlots ==
  ASSUME IInv
  PROVE  /\ CloseContainer \/ CloseAhead =>
              OneSlot(heap, heap', Top.node, "footComment", heap[Top.node].footComment \o Given)
         /\ Separator => OneSlot(heap, heap', Current, "footComment", heap[Current].footComment \o Given)
         /\ ReturnContainer => OneSlot(heap, heap', Top.node, "comment", Given)
         /\ AppendElement => OneSlot(heap, heap', val, "headComment", heap[val].headComment \o Given)
         /\ ReturnRoot => OneSlot(heap, heap', val, "headComment", Given \o heap[val].headComment)
         /\ InlineComment /\ Inline # <<>> => OneSlot(heap, heap', Current, "comment", Given)
         /\ InlineComment /\ Inline = <<>> => UNCHANGED heap
         /\ RootInline => OneSlot(heap, heap', val, "comment", Given)
         /\ AttachAfterComma =>
              IF heap[Current].comment = <<>> THEN OneSlot(heap, heap', Current, "comment", Given)
              ELSE OneSlot(heap, heap', Current, "footComment", heap[Current].footComment \o Given)
         /\ Finish => OneSlot(heap, heap', val, "trailComment", heap[val].trailComment \o Given)
<1>1. ASSUME CloseContainer
      PROVE  OneSlot(heap, heap', Top.node, "footComment", heap[Top.node].footComment \o Given)
  <2>1. Given = NonBlank(acc)
    BY <1>1 DEF CloseContainer, AtClose, Given
  <2>2. QED
    BY <1>1, <2>1, ClosedSlots
<1>2. ASSUME CloseAhead
      PROVE  OneSlot(heap, heap', Top.node, "footComment", heap[Top.node].footComment \o Given)
  <2>1. Given = NonBlank(acc)
        /\ heap' = [heap EXCEPT ![Top.node].footComment = heap[Top.node].footComment \o NonBlank(acc)]
    BY <1>2 DEF CloseAhead, Given
  <2>2. QED
    BY <2>1, HeapSlots, SlotAssigned
<1>3. ASSUME Separator
      PROVE  OneSlot(heap, heap', Current, "footComment", heap[Current].footComment \o Given)
  <2>1. Given = NonBlank(acc)
        /\ heap' = [heap EXCEPT ![Current].footComment = heap[Current].footComment \o NonBlank(acc)]
    BY <1>3 DEF Separator, Given
  <2>2. QED
    BY <2>1, HeapSlots, SlotAssigned
<1>4. ASSUME ReturnContainer PROVE OneSlot(heap, heap', Top.node, "comment", Given)
  <2>1. Given = Inline /\ heap' = [heap EXCEPT ![Top.node].comment = Inline]
    BY <1>4 DEF ReturnContainer, Given
  <2>2. QED
    BY <2>1, HeapSlots, SlotAssigned
<1>5. ASSUME AppendElement
      PROVE  OneSlot(heap, heap', val, "headComment", heap[val].headComment \o Given)
  <2>1. Given = Top.pendingHead
    BY <1>5 DEF AppendElement, InArray, Given
  <2>2. QED
    BY <1>5, <2>1, AppendedSlots
<1>6. ASSUME ReturnRoot PROVE OneSlot(heap, heap', val, "headComment", Given \o heap[val].headComment)
  <2>1. Given = lead /\ heap' = [heap EXCEPT ![val].headComment = lead \o heap[val].headComment]
    BY <1>6 DEF ReturnRoot, Given
  <2>2. QED
    BY <2>1, HeapSlots, SlotAssigned
<1>7. ASSUME InlineComment
      PROVE  IF Inline = <<>> THEN UNCHANGED heap ELSE OneSlot(heap, heap', Current, "comment", Given)
  <2>1. Given = Inline
        /\ heap' = IF Inline = <<>> THEN heap ELSE [heap EXCEPT ![Current].comment = Inline]
    BY <1>7 DEF InlineComment, Given
  <2>2. QED
    BY <2>1, HeapSlots, SlotAssigned
<1>8. ASSUME RootInline PROVE OneSlot(heap, heap', val, "comment", Given)
  <2>1. Given = Inline /\ heap' = [heap EXCEPT ![val].comment = Inline]
    BY <1>8 DEF RootInline, Given
  <2>2. QED
    BY <2>1, HeapSlots, SlotAssigned
<1>9. ASSUME AttachAfterComma
      PROVE  IF heap[Current].comment = <<>> THEN OneSlot(heap, heap', Current, "comment", Given)
             ELSE OneSlot(heap, heap', Current, "footComment", heap[Current].footComment \o Given)
  <2>1. Given = Inline
        /\ heap' = IF heap[Current].comment = <<>> THEN [heap EXCEPT ![Current].comment = Inline]
                   ELSE [heap EXCEPT ![Current].footComment = heap[Current].footComment \o Inline]
    BY <1>9 DEF AttachAfterComma, Attach, Given
  <2>2. QED
    BY <2>1, HeapSlots, SlotAssigned
<1>10. ASSUME Finish
       PROVE  OneSlot(heap, heap', val, "trailComment", heap[val].trailComment \o Given)
  <2>1. Given = NonBlank(acc)
        /\ heap' = [heap EXCEPT ![val].trailComment = heap[val].trailComment \o NonBlank(acc)]
    BY <1>10 DEF Finish, Given
  <2>2. QED
    BY <2>1, HeapSlots, SlotAssigned
<1>11. QED
  BY <1>1, <1>2, <1>3, <1>4, <1>5, <1>6, <1>7, <1>8, <1>9, <1>10

LEMMA WritersApart ==
  /\ CloseContainer => pc = "loop"
  /\ CloseAhead => pc = "between" /\ Look.k # ","
  /\ Separator => pc = "between" /\ Look.k = ","
  /\ ReturnContainer => pc = "closed"
  /\ AppendElement => pc = "return" /\ stack # <<>>
  /\ ReturnRoot => pc = "return" /\ stack = <<>>
  /\ InlineComment => pc = "inline"
  /\ RootInline => pc = "rootInline"
  /\ AttachAfterComma => pc = "afterComma"
  /\ Finish => pc = "trail"
BY DEF CloseContainer, AtClose, CloseAhead, SeesClose, Sees, Separator, ReturnContainer, AppendElement, InArray,
   ReturnRoot, InlineComment, RootInline, AttachAfterComma, Finish

\* A slot keeps its text, but for the one the step writes.
LEMMA SlotNext ==
  ASSUME IInv, [Next]_vars, NEW n \in 1..Len(heap), NEW slot \in Slots, NEW old, old = heap[n][slot]
  PROVE  heap'[n][slot] = IF Receives(n, slot) THEN Written(old, slot) ELSE old
<1>1. n \in DOMAIN heap
  BY HeapSlots
<1>2. CASE CloseContainer \/ CloseAhead
  BY <1>1, <1>2, WrittenSlots, WritersApart DEF OneSlot, Receives, Written
<1>3. CASE Separator
  BY <1>1, <1>3, WrittenSlots, WritersApart DEF OneSlot, Receives, Written
<1>4. CASE ReturnContainer
  BY <1>1, <1>4, WrittenSlots, WritersApart DEF OneSlot, Receives, Written
<1>5. CASE AppendElement
  BY <1>1, <1>5, WrittenSlots, WritersApart DEF OneSlot, Receives, Written
<1>6. CASE ReturnRoot
  BY <1>1, <1>6, WrittenSlots, WritersApart DEF OneSlot, Receives, Written
<1>7. CASE InlineComment
  BY <1>1, <1>7, WrittenSlots, WritersApart DEF OneSlot, Receives, Written
<1>8. CASE RootInline
  BY <1>1, <1>8, WrittenSlots, WritersApart DEF OneSlot, Receives, Written
<1>9. CASE AttachAfterComma
  BY <1>1, <1>9, WrittenSlots, WritersApart DEF OneSlot, Receives, Written
<1>10. CASE Finish
  BY <1>1, <1>10, WrittenSlots, WritersApart DEF OneSlot, Receives, Written
<1>11. CASE ~(CloseContainer \/ CloseAhead \/ Separator \/ ReturnContainer \/ AppendElement \/ ReturnRoot
              \/ InlineComment \/ RootInline \/ AttachAfterComma \/ Finish)
  BY <1>11, UnwrittenSlots DEF Receives
<1>12. QED
  BY <1>2, <1>3, <1>4, <1>5, <1>6, <1>7, <1>8, <1>9, <1>10, <1>11

\* A new node's slots are empty, but for a member's head comment.
LEMMA NewSlots ==
  ASSUME IInv, IInv', [Next]_vars, NEW n \in 1..Len(heap'), n \notin 1..Len(heap), NEW slot \in Slots
  PROVE  /\ n = Len(heap) + 1 /\ (ParseScalar \/ OpenContainer \/ MakeMember)
         /\ heap'[n][slot] = IF MakeMember /\ slot = "headComment" THEN Top.pendingHead ELSE <<>>
<1>1. n = Len(heap) + 1 /\ (ParseScalar \/ OpenContainer \/ MakeMember)
  BY NodesNext
<1>2. heap \in Seq(Node)
  BY Facts
<1>3. CASE ParseScalar \/ OpenContainer
  <2>1. PICK kind, key, pos : heap' = Append(heap, NewNode(kind, key, pos))
    BY <1>3 DEF ParseScalar, OpenContainer
  <2>2. heap'[n] = NewNode(kind, key, pos)
    BY <1>1, <1>2, <2>1, AppendProperties, LenProperties
  <2>3. ~MakeMember
    BY <1>3 DEF ParseScalar, OpenContainer, ExpectsValue, MakeMember
  <2>4. QED
    BY <1>1, <2>2, <2>3 DEF NewNode, Slots
<1>4. CASE MakeMember
  <2>1. PICK x : x = Member
    OBVIOUS
  <2>2. heap' = Append(heap, x)
    BY <1>4, <2>1 DEF MakeMember
  <2>3. heap'[n] = x
    BY <1>1, <1>2, <2>2, AppendProperties, LenProperties
  <2>4. x[slot] = IF slot = "headComment" THEN Top.pendingHead ELSE <<>>
    <3>1. PICK m : m = NewNode("member", Top.key, Top.keyPos)
      OBVIOUS
    <3>2. /\ \A s \in Slots : m[s] = <<>>
          /\ Slots \cup {"children"} \subseteq DOMAIN m
      BY <3>1 DEF NewNode, Slots
    <3>3. x = [m EXCEPT !.headComment = Top.pendingHead, !.children = <<val>>]
      BY <2>1, <3>1 DEF Member
    <3>4. PICK t : t = Top.pendingHead
      OBVIOUS
    <3>5. PICK h : h = [m EXCEPT !.headComment = t]
      OBVIOUS
    <3>6. x = [h EXCEPT !.children = <<val>>]
      BY <3>3, <3>4, <3>5
    <3>7. slot \in DOMAIN m /\ slot # "children" /\ slot \in DOMAIN h
      BY <3>2, <3>5 DEF Slots
    <3>8. h[slot] = IF slot = "headComment" THEN t ELSE m[slot]
      BY <3>5, <3>7
    <3>9. x[slot] = h[slot]
      BY <3>6, <3>7
    <3>10. QED
      BY <3>2, <3>4, <3>8, <3>9
  <2>5. QED
    BY <1>1, <1>4, <2>3, <2>4
<1>5. QED
  BY <1>1, <1>3, <1>4

-----------------------------------------------------------------------------
(* Where each call comes from. *)

Looking == (Scan /\ pc' = pc) \/ UNCHANGED vars
Collecting == CollectHeadComments \/ ConsumeTrailing
Ending == {"rootInline", "trail", "done"}

LEMMA Moves ==
  ASSUME [Next]_vars
  PROVE  \/ pc' \in {"error", "overNodes"}
         \/ Looking
         \/ (CollectHeadComments /\ pc' = pc /\ pc \in {"lead", "loop", "between"})
         \/ (ConsumeTrailing /\ pc' = pc /\ pc = "trail")
         \/ (SkipDroppedComments /\ pc' = pc /\ pc \in {"colon", "keyValue"})
         \/ (BeginRoot /\ pc = "lead" /\ pc' = "value")
         \/ (ParseScalar /\ pc \in {"value", "keyValue", "loop"} /\ pc' = "return")
         \/ (OpenContainer /\ pc \in {"value", "keyValue", "loop"} /\ pc' = "loop")
         \/ (CloseContainer /\ pc = "loop" /\ pc' = "closed")
         \/ (ReturnContainer /\ pc = "closed" /\ pc' = "return")
         \/ (ParseKey /\ pc = "loop" /\ pc' = "colon")
         \/ (ParseColon /\ pc = "colon" /\ pc' = "keyValue")
         \/ (MakeMember /\ pc = "return" /\ pc' = "insert")
         \/ (InsertMember /\ pc = "insert" /\ pc' = "inline")
         \/ (AppendElement /\ pc = "return" /\ pc' = "inline")
         \/ (InlineComment /\ pc = "inline" /\ pc' = "between")
         \/ (Separator /\ pc = "between" /\ pc' = "afterComma")
         \/ (CloseAhead /\ pc = "between" /\ pc' = "loop")
         \/ (AttachAfterComma /\ pc = "afterComma" /\ pc' = "loop")
         \/ (ReturnRoot /\ pc = "return" /\ pc' \in {"rootInline", "trail"})
         \/ (RootInline /\ pc = "rootInline" /\ pc' = "trail")
         \/ (Finish /\ pc = "trail" /\ pc' = "done")
<1>1. CASE \/ OverNodes \/ TooDeep \/ NotAValue \/ StrictTrailingComma \/ NotAKey \/ NotAColon
           \/ RefuseDuplicate \/ NotASeparator \/ NoRoot \/ ExtraData
  BY <1>1 DEF OverNodes, TooDeep, NotAValue, StrictTrailingComma, NotAKey, NotAColon, ExpectsValue, AtClose,
     RefuseDuplicate, NotASeparator, NoRoot, ExtraData, Fail, Stop
<1>2. CASE Scan \/ CollectHeadComments \/ ConsumeTrailing \/ SkipDroppedComments \/ BeginRoot \/ UNCHANGED vars
  BY <1>2 DEF Looking, Scan, CollectHeadComments, ConsumeTrailing, SkipDroppedComments, BeginRoot
<1>3. CASE ParseScalar \/ OpenContainer \/ MakeMember
  BY <1>3 DEF ParseScalar, OpenContainer, MakeMember, ExpectsValue, BumpNodeCount
<1>4. CASE InsertMember
  BY <1>4 DEF InsertMember, Fail, Stop
<1>5. /\ CloseContainer => pc = "loop" /\ pc' = "closed"
      /\ ReturnContainer => pc = "closed" /\ pc' = "return"
      /\ ParseKey => pc = "loop" /\ pc' = "colon"
      /\ ParseColon => pc = "colon" /\ pc' = "keyValue"
      /\ AppendElement => pc = "return" /\ pc' = "inline"
  BY DEF CloseContainer, AtClose, ReturnContainer, ParseKey, ParseColon, AppendElement
<1>6. /\ InlineComment => pc = "inline" /\ pc' = "between"
      /\ Separator => pc = "between" /\ pc' = "afterComma"
      /\ CloseAhead => pc = "between" /\ pc' = "loop"
      /\ AttachAfterComma => pc = "afterComma" /\ pc' = "loop"
      /\ RootInline => pc = "rootInline" /\ pc' = "trail"
      /\ Finish => pc = "trail" /\ pc' = "done"
  BY DEF InlineComment, Separator, CloseAhead, AttachAfterComma, RootInline, Finish
<1>7. ReturnRoot => pc = "return" /\ pc' \in {"rootInline", "trail"}
  BY DEF ReturnRoot
<1>8. QED
  BY <1>1, <1>2, <1>3, <1>4, <1>5, <1>6, <1>7 DEF Next, ParseValue

-----------------------------------------------------------------------------
(* The node in hand, and where its value stands. *)

\* The node a step returns.
LEMMA ValNext ==
  ASSUME [Next]_vars
  PROVE  /\ val' = val \/ ParseScalar \/ ReturnContainer \/ MakeMember
         /\ ParseScalar => val' = Len(heap) + 1
         /\ MakeMember => val' = Len(heap) + 1 /\ InObject
         /\ ReturnContainer => val' = Top.node
<1>1. /\ Scan => val' = val
      /\ OverNodes => val' = val
      /\ TooDeep => val' = val
      /\ NotAValue => val' = val
      /\ CollectHeadComments => val' = val
      /\ SkipDroppedComments => val' = val
      /\ StrictTrailingComma => val' = val
      /\ ParseKey => val' = val
      /\ NotAKey => val' = val
      /\ ParseColon => val' = val
      /\ NotAColon => val' = val
      /\ OpenContainer => val' = val
      /\ RefuseDuplicate => val' = val
      /\ NotASeparator => val' = val
      /\ InsertMember => val' = val
  BY DEF Scan, OverNodes, TooDeep, NotAValue, CollectHeadComments, SkipDroppedComments,
     StrictTrailingComma, ParseKey, NotAKey, ParseColon, NotAColon, RefuseDuplicate, NotASeparator,
     OpenContainer, InsertMember
<1>2. /\ CloseContainer => val' = val
      /\ AppendElement => val' = val
      /\ InlineComment => val' = val
      /\ Separator => val' = val
      /\ CloseAhead => val' = val
      /\ AttachAfterComma => val' = val
  BY DEF CloseContainer, AppendElement, InlineComment, Separator, CloseAhead, AttachAfterComma
<1>3. /\ BeginRoot => val' = val
      /\ NoRoot => val' = val
      /\ ReturnRoot => val' = val
      /\ RootInline => val' = val
      /\ ConsumeTrailing => val' = val
      /\ Finish => val' = val
      /\ ExtraData => val' = val
  BY DEF BeginRoot, NoRoot, ReturnRoot, RootInline, ConsumeTrailing, Finish, ExtraData
<1>4. UNCHANGED vars => val' = val
  BY DEF vars, pvars
<1>5. /\ ParseScalar => val' = Len(heap) + 1
      /\ MakeMember => val' = Len(heap) + 1 /\ InObject
      /\ ReturnContainer => val' = Top.node
  BY DEF ParseScalar, MakeMember, ReturnContainer
<1>6. val' = val \/ ParseScalar \/ ReturnContainer \/ MakeMember
  BY <1>1, <1>2, <1>3, <1>4 DEF Next, ParseValue
<1>7. QED
  BY <1>5, <1>6

\* A node stays where it stands.
LEMMA NodeStays ==
  ASSUME IInv, IInv', Lasts(heap, heap'), [Next]_vars, Matching, Working', NEW n \in 1..Len(heap)
  PROVE  /\ n \in 1..Len(heap') /\ heap'[n].pos = heap[n].pos
         /\ heap[n].pos \in 1..Consumed /\ heap[n].pos \in 1..At
<1>1. KeyNodes /\ ValueNodes
  BY WorkingBefore DEF Matching, Placed, Sited
<1>2. heap[n].pos \in 1..Consumed /\ Consumed \in Nat
  BY <1>1, NodePlaces
<1>3. At \in Nat /\ Consumed <= At
  BY ConsumedType, TokenTypes DEF Consumed, IInv
<1>4. QED
  BY <1>2, <1>3, LastsFacts

-----------------------------------------------------------------------------
(* The root, and the node the innermost call returned last. *)

\* The first node is the root; a member's key and value are read in an object.
Rooted ==
  Working =>
    /\ pc \in {"lead", "value"} <=> heap = <<>>
    /\ stack # <<>> => stack[1].node = 1
    /\ (pc = "return" /\ stack = <<>>) \/ pc \in Ending => val = 1
    /\ heap # <<>> => Around(input, heap[1].pos) = 0
    /\ pc \in {"colon", "keyValue"} => InObject

LEMMA ValueCalls ==
  ASSUME IInv, Parsing, Rooted, Working, ParseScalar \/ OpenContainer
  PROVE  /\ stack = <<>> <=> pc = "value"
         /\ stack = <<>> <=> heap = <<>>
         /\ pc = "loop" => InArray
         /\ pc = "keyValue" => InObject
<1>1. pc \in {"value", "keyValue"} \/ (pc = "loop" /\ InArray)
  BY DEF ParseScalar, OpenContainer, ExpectsValue
<1>2. pc = "value" => stack = <<>> /\ heap = <<>>
  BY DEF Parsing, Located, ValueAwaited, Rooted
<1>3. pc # "value" => stack # <<>>
  BY <1>1 DEF InObject, InArray, Rooted
<1>4. stack # <<>> => heap # <<>>
  <2> SUFFICES ASSUME stack # <<>> PROVE heap # <<>>
    OBVIOUS
  <2>1. Top.node \in 1..Len(heap)
    BY TopOpened
  <2>2. QED
    BY <2>1
<1>5. QED
  BY <1>1, <1>2, <1>3, <1>4 DEF Rooted

LEMMA RootedNext ==
  ASSUME IInv, IInv', Indexed, Parsing, Lasts(heap, heap'), [Next]_vars, Matching, Rooted
  PROVE  Rooted'
<1> SUFFICES ASSUME Working' PROVE Rooted'
  BY DEF Rooted
<1>1. Working /\ pc' \notin {"error", "overNodes"}
  BY WorkingBefore
<1>2. Len(stack) \in Nat /\ (stack = <<>> <=> Len(stack) = 0) /\ (stack' = <<>> <=> Len(stack') = 0)
  BY Facts, StackEmpty
<1>3. pc' \in {"lead", "value"} => heap' = <<>>
  <2> SUFFICES ASSUME pc' \in {"lead", "value"} PROVE heap' = <<>>
    OBVIOUS
  <2>1. (Looking /\ pc' = pc) \/ (CollectHeadComments /\ pc' = pc) \/ (BeginRoot /\ pc = "lead")
    <3>1. UNCHANGED vars => pc' = pc
      BY DEF vars, pvars
    <3>2. Looking => pc' = pc
      BY <3>1 DEF Looking
    <3>3. QED
      BY <1>1, <3>2, Moves
  <2>2. UNCHANGED heap
    BY <2>1 DEF Looking, Scan, CollectHeadComments, BeginRoot, vars, pvars
  <2>3. QED
    BY <1>1, <2>1, <2>2 DEF Rooted
<1>4. heap' = <<>> => pc' \in {"lead", "value"}
  <2> SUFFICES ASSUME heap' = <<>> PROVE pc' \in {"lead", "value"}
    OBVIOUS
  <2>1. heap \in Seq(Node) /\ heap' \in Seq(Node) /\ val' \in 0..Len(heap')
    BY DEF IInv, TypeOK, ParserTypeOK
  <2>2. Len(heap) \in Nat /\ Len(heap') = 0 /\ (heap = <<>> <=> Len(heap) = 0)
    BY <2>1, EmptySeq, LenProperties
  <2>3. heap = <<>>
    <3>1. 1 \in 1..Len(heap) => 1 \in 1..Len(heap')
      BY LastsFacts
    <3>2. QED
      BY <2>2, <3>1
  <2>4. ~ParseScalar /\ ~OpenContainer
    <3> SUFFICES ASSUME ParseScalar \/ OpenContainer PROVE FALSE
      OBVIOUS
    <3>1. PICK x \in Node : heap' = Append(heap, x)
      BY Allocated
    <3>2. Len(heap') = Len(heap) + 1
      BY <2>1, <3>1, AppendProperties
    <3>3. QED
      BY <2>2, <3>2
  <2>5. pc \in {"lead", "value"}
    BY <1>1, <2>3 DEF Rooted
  <2>6. UNCHANGED vars => pc' = pc
    BY DEF vars, pvars
  <2>7. Looking => pc' = pc
    BY <2>6 DEF Looking
  <2>8. QED
    BY <1>1, <2>4, <2>5, <2>7, Moves
<1>5. stack' # <<>> => stack'[1].node = 1
  <2> SUFFICES ASSUME stack' # <<>> PROVE stack'[1].node = 1
    OBVIOUS
  <2>1. CASE stack = <<>>
    <3>1. OpenContainer /\ stack'[1].node = Len(heap) + 1
      BY <1>1, <1>2, <2>1, StackNext
    <3>2. heap = <<>>
      BY <1>1, <2>1, <3>1, ValueCalls
    <3>3. QED
      BY <3>1, <3>2
  <2>2. CASE stack # <<>>
    <3>1. 1 \in 1..Len(stack) /\ 1 \in 1..Len(stack')
      BY <1>2, <2>2, StackNext, <1>1
    <3>2. stack'[1].node = stack[1].node
      BY <1>1, <3>1, FrameStays
    <3>3. QED
      BY <1>1, <2>2, <3>2 DEF Rooted
  <2>3. QED
    BY <2>1, <2>2
<1>6. (pc' = "return" /\ stack' = <<>>) \/ pc' \in Ending => val' = 1
  <2>1. ASSUME ParseScalar, stack' = <<>> PROVE val' = 1
    <3>1. Len(stack) = 0
      <4>1. ~OpenContainer /\ ~ReturnContainer
        BY <2>1 DEF ParseScalar, OpenContainer, ReturnContainer, Scalars, Openers, BumpNodeCount, Comments,
           ExpectsValue
      <4>2. QED
        BY <1>1, <1>2, <2>1, <4>1, StackNext
    <3>2. heap = <<>>
      BY <1>1, <1>2, <2>1, <3>1, ValueCalls
    <3>3. QED
      BY <2>1, <3>2, ValNext
  <2>2. ASSUME ReturnContainer, stack' = <<>> PROVE val' = 1
    <3>1. stack # <<>> /\ Len(stack') = Len(stack) - 1
      BY <2>2, FramesLeft
    <3>2. Len(stack) = 1
      BY <1>2, <2>2, <3>1
    <3>3. Top = stack[1]
      BY <3>2 DEF Top
    <3>4. QED
      BY <1>1, <2>2, <3>1, <3>3, ValNext DEF Rooted
  <2>3. ASSUME pc' = "return", stack' = <<>>, ~ParseScalar, ~ReturnContainer PROVE val' = 1
    <3>1. Looking /\ pc' = pc
      BY <1>1, <2>3, Moves DEF Looking, vars, pvars
    <3>2. UNCHANGED <<stack, val>>
      BY <3>1 DEF Looking, Scan, vars, pvars
    <3>3. QED
      BY <1>1, <2>3, <3>1, <3>2 DEF Rooted
  <2>4. ASSUME pc' \in Ending PROVE val' = 1
    <3>1. \/ (Looking \/ ConsumeTrailing \/ RootInline \/ Finish) /\ pc \in Ending
          \/ ReturnRoot /\ pc = "return" /\ stack = <<>>
      BY <1>1, <2>4, Moves DEF Ending, ReturnRoot, Looking, vars, pvars
    <3>2. UNCHANGED val
      BY <3>1 DEF Looking, Scan, ConsumeTrailing, RootInline, Finish, ReturnRoot, vars, pvars
    <3>3. QED
      BY <1>1, <3>1, <3>2 DEF Rooted
  <2>5. QED
    BY <2>1, <2>2, <2>3, <2>4
<1>7. heap' # <<>> => Around(input', heap'[1].pos) = 0
  <2> SUFFICES ASSUME heap' # <<>> PROVE Around(input', heap'[1].pos) = 0
    OBVIOUS
  <2>1. Len(heap) \in Nat /\ Len(heap') \in Nat /\ (heap = <<>> <=> Len(heap) = 0) /\ (heap' = <<>> <=> Len(heap') = 0)
    <3>1. heap \in Seq(Node) /\ heap' \in Seq(Node)
      BY DEF IInv, TypeOK, ParserTypeOK
    <3>2. QED
      BY <3>1, EmptySeq, LenProperties
  <2>2. CASE heap # <<>>
    <3>1. 1 \in 1..Len(heap)
      BY <2>1, <2>2
    <3>2. PICK p : p = heap[1].pos
      OBVIOUS
    <3>3. heap'[1].pos = p /\ p \in 1..At
      BY <1>1, <3>1, <3>2, NodeStays
    <3>4. Around(input', p) = Around(input, p)
      BY <3>3, TokensGrown DEF SameToken
    <3>5. QED
      BY <1>1, <2>2, <3>2, <3>3, <3>4 DEF Rooted
  <2>3. CASE heap = <<>>
    <3>1. 1 \in 1..Len(heap') /\ 1 \notin 1..Len(heap)
      BY <2>1, <2>3
    <3>2. Placed /\ Sited
      BY DEF Matching
    <3>3. ParseScalar \/ OpenContainer \/ MakeMember
      BY <1>1, <3>1, <3>2, NewPlace
    <3>4. stack = <<>>
      <4>1. stack # <<>> => Top.node \in 1..Len(heap)
        BY TopOpened
      <4>2. QED
        BY <2>1, <2>3, <4>1
    <3>5. ~MakeMember
      BY <3>4, ValNext DEF InObject
    <3>6. heap'[1].pos = At
      BY <1>1, <3>1, <3>2, <3>5, NewPlace
    <3>7. have /\ pc \notin {"closed", "error"} /\ UNCHANGED input
      BY <1>1, <3>3, <3>5, Reads DEF ParseScalar, OpenContainer, ExpectsValue
    <3>8. Around(input, At) = 0
      BY <3>4, <3>7, AheadFacts
    <3>9. QED
      BY <3>6, <3>7, <3>8
  <2>4. QED
    BY <2>2, <2>3
<1>8. pc' \in {"colon", "keyValue"} => InObject'
  <2> SUFFICES ASSUME pc' \in {"colon", "keyValue"} PROVE InObject'
    OBVIOUS
  <2>1. (Looking \/ SkipDroppedComments \/ ParseColon \/ ParseKey) /\ InObject
    BY <1>1, Moves DEF Rooted, ParseKey, Looking, vars, pvars
  <2>2. ~OpenContainer /\ ~ReturnContainer
    BY <2>1 DEF Looking, Scan, Peeks, SkipDroppedComments, ParseColon, ParseKey, OpenContainer, ReturnContainer,
       ExpectsValue, vars, pvars, BumpNodeCount, Bump
  <2>3. Len(stack') = Len(stack) /\ stack # <<>>
    BY <1>1, <2>1, <2>2, StackNext DEF InObject
  <2>4. PICK m \in Nat : m = Len(stack)
    BY <1>2
  <2>5. m \in 1..Len(stack) /\ m \in 1..Len(stack') /\ m # 0
    BY <1>2, <2>3, <2>4
  <2>6. heap'[stack'[m].node].kind = heap[stack[m].node].kind
    BY <1>1, <2>5, FrameStays
  <2>7. QED
    BY <1>2, <2>1, <2>3, <2>4, <2>6 DEF InObject, Container, Top
<1>9. QED
  BY <1>3, <1>5, <1>6, <1>7, <1>8, <1>4 DEF Rooted

-----------------------------------------------------------------------------
(* The significant tokens, as the steps read them. *)

ReadsToken == ParseScalar \/ OpenContainer \/ CloseContainer \/ ParseKey \/ ParseColon \/ Separator

\* The steps that go past a comment, and those that leave the lookahead alone.
LEMMA QuietSteps ==
  ASSUME IInv, [Next]_vars, Working', ~ReadsToken
  PROVE  /\ Quiet
         /\ have /\ have' = FALSE => UNCHANGED input /\ IsBlankSpace(Look)
<1>1. pc' \notin {"error", "overNodes"}
  BY WorkingBefore
<1>2. CASE Looking
  <2>1. CASE Scan
    BY <2>1 DEF Quiet, Scan
  <2>2. CASE UNCHANGED vars
    <3>1. UNCHANGED <<input, have>>
      BY <2>2 DEF vars, pvars
    <3>2. QED
      BY <3>1 DEF Quiet
  <2>3. QED
    BY <1>2, <2>1, <2>2 DEF Looking
<1>3. ASSUME CollectHeadComments \/ ConsumeTrailing \/ SkipDroppedComments
      PROVE  have /\ have' = FALSE /\ UNCHANGED input /\ IsBlankSpace(Look)
  BY <1>3 DEF CollectHeadComments, ConsumeTrailing, SkipDroppedComments, Sees, Bump, IsBlankSpace, IsComment,
     Comments
<1>4. ASSUME ReturnContainer \/ InlineComment \/ RootInline \/ AttachAfterComma
      PROVE  /\ have /\ UNCHANGED input /\ have' \in BOOLEAN /\ have' = (Look.k \notin Comments)
             /\ have' = FALSE => IsBlankSpace(Look)
  <2>1. have /\ UNCHANGED input /\ have' = (Look.k \notin Comments)
    BY <1>4 DEF ReturnContainer, InlineComment, RootInline, AttachAfterComma, TakeInline
  <2>2. QED
    BY <2>1 DEF IsBlankSpace, IsComment, Comments
<1>5. /\ BeginRoot => UNCHANGED <<input, have>>
      /\ MakeMember => UNCHANGED <<input, have>>
      /\ InsertMember => UNCHANGED <<input, have>>
      /\ AppendElement => UNCHANGED <<input, have>>
      /\ CloseAhead => UNCHANGED <<input, have>>
      /\ ReturnRoot => UNCHANGED <<input, have>>
      /\ Finish => UNCHANGED <<input, have>>
  BY DEF BeginRoot, MakeMember, InsertMember, AppendElement, CloseAhead, ReturnRoot, Finish
<1>6. have \in BOOLEAN
  BY Facts
<1>7. CASE CollectHeadComments \/ ConsumeTrailing \/ SkipDroppedComments
  BY <1>3, <1>7 DEF Quiet
<1>8. CASE ReturnContainer \/ InlineComment \/ RootInline \/ AttachAfterComma
  BY <1>4, <1>6, <1>8 DEF Quiet
<1>9. CASE BeginRoot \/ MakeMember \/ InsertMember \/ AppendElement \/ CloseAhead \/ ReturnRoot \/ Finish
  BY <1>5, <1>9 DEF Quiet
<1>10. Quiet
  BY <1>1, <1>2, <1>7, <1>8, <1>9, Moves DEF ReadsToken
<1>11. have /\ have' = FALSE => UNCHANGED input /\ IsBlankSpace(Look)
  BY <1>10 DEF Quiet, Scan
<1>12. QED
  BY <1>10, <1>11

\* The last significant token is the last one a step of the parser read, comments apart.
LEMMA Significant ==
  ASSUME IInv, Parsing, [Next]_vars, Working'
  PROVE  /\ Consumed \in Nat /\ Consumed' \in Nat /\ Prior \in 0..Consumed /\ At \in Nat
         /\ Prior # 0 => Prior \in 1..At
         /\ ReadsToken => /\ have /\ have' = FALSE /\ UNCHANGED input /\ ~IsBlankSpace(Look)
                          /\ Prior' = At /\ Consumed' = At /\ At = Consumed + 1
         /\ ~ReadsToken => Prior' = Prior
<1>1. Consumed \in Nat /\ Consumed' \in Nat /\ At \in Nat /\ Consumed <= At /\ (have => At = Consumed + 1)
  BY PlacesRead, TokenTypes DEF IInv, Consumed
<1>2. Prior \in 0..Consumed
  <2>1. Before(input, Consumed + 1) \in 0..(Consumed + 1) - 1
    BY <1>1, BeforeType
  <2>2. QED
    BY <1>1, <2>1 DEF Prior
<1>3. ASSUME ReadsToken
      PROVE  /\ have /\ have' = FALSE /\ UNCHANGED input /\ ~IsBlankSpace(Look)
             /\ Prior' = At /\ Consumed' = At
  <2>1. /\ ParseScalar => have /\ have' = FALSE /\ UNCHANGED input /\ Look.k \in {"str", "scalar"}
        /\ OpenContainer => have /\ have' = FALSE /\ UNCHANGED input /\ Look.k \in {"{", "["}
        /\ CloseContainer => have /\ have' = FALSE /\ UNCHANGED input /\ Look.k \in {"}", "]"}
        /\ ParseKey => have /\ have' = FALSE /\ UNCHANGED input /\ Look.k = "str"
        /\ ParseColon => have /\ have' = FALSE /\ UNCHANGED input /\ Look.k = ":"
        /\ Separator => have /\ have' = FALSE /\ UNCHANGED input /\ Look.k = ","
    BY DEF ParseScalar, OpenContainer, CloseContainer, ParseKey, ParseColon, Separator, ExpectsValue, Sees, Bump,
       AtClose, SeesClose, Scalars, Openers
  <2>2. /\ have /\ have' = FALSE /\ UNCHANGED input
        /\ Look.k \in {"str", "scalar", "{", "[", "}", "]", ":", ","}
    BY <1>3, <2>1 DEF ReadsToken
  <2>3. ~IsBlankSpace(Look)
    BY <2>2 DEF IsBlankSpace, IsComment
  <2>4. Consumed' = At
    BY <2>2 DEF Consumed, At
  <2>5. At \in Nat \ {0}
    <3>1. have
      BY <2>2
    <3>2. QED
      BY <3>1, ConsumedType
  <2>6. Before(input, At + 1) = At
    BY <2>3, <2>5, BeforeNext DEF Look
  <2>7. QED
    BY <2>2, <2>3, <2>4, <2>6 DEF Prior
<1>4. ASSUME ~ReadsToken PROVE Prior' = Prior
  <2>1. Quiet
    BY <1>4, QuietSteps
  <2>2. Live \in Nat /\ Read(Live, Opened)
    BY LiveType, WorkingBefore DEF Parsing, Balanced, LanguageExact, Read
  <2>3. PriorKept
    BY <2>1, <2>2, QuietRead
  <2>4. QED
    BY <2>3 DEF PriorKept
<1>5. Prior # 0 => Prior \in 1..At
  <2>1. Consumed \in Nat /\ At \in Nat /\ Consumed <= At /\ Prior \in 0..Consumed
    BY <1>1, <1>2
  <2>2. QED
    BY <2>1
<1>6. Consumed \in Nat /\ Consumed' \in Nat /\ At \in Nat /\ (have => At = Consumed + 1)
  BY <1>1
<1>7. QED
  BY <1>2, <1>3, <1>4, <1>5, <1>6

\* The node the last call returned is younger than every container open; between
\* the members or elements it is the last child of the innermost one.
Young ==
  Working =>
    /\ pc \in {"inline", "between", "afterComma"} => stack # <<>> /\ Current = val
    /\ pc \in {"return", "insert", "inline", "between", "afterComma"} =>
         val \in 1..Len(heap) /\ \A m \in 1..Len(stack) : stack[m].node < val

LEMMA LastAppended ==
  ASSUME NEW s \in Seq(Nat), NEW x \in Nat
  PROVE  Last(Append(s, x)) = x
<1>1. Append(s, x) \in Seq(Nat) /\ Len(Append(s, x)) = Len(s) + 1 /\ Append(s, x)[Len(s) + 1] = x
  BY AppendProperties
<1>2. QED
  BY <1>1 DEF Last

\* The member or element added is the last child.
LEMMA ChildAdded ==
  ASSUME IInv, IInv', Indexed, [Next]_vars, AppendElement \/ InsertMember, NEW n, n = Top.node
  PROVE  n \in 1..Len(heap) /\ Last(heap'[n].children) = val
<1>1. stack # <<>>
  BY DEF AppendElement, InsertMember, InArray, IInv, InsideContainer
<1>2. n \in 1..Len(heap) /\ Container = heap[n]
  BY <1>1, FrameTypes DEF Container
<1>3. PICK old : old = Container.children
  OBVIOUS
<1>4. old \in Seq(Nat) /\ val \in Nat
  BY <1>2, <1>3, NodeFacts, Facts
<1>5. CASE AppendElement
  <2>1. PICK c : c = Append(old, val)
    OBVIOUS
  <2>2. OnlyChildren(n, c)
    BY <1>3, <1>5, <2>1, AppendHeap
  <2>3. heap'[n].children = c
    BY <1>2, <2>2 DEF OnlyChildren
  <2>4. QED
    BY <1>2, <1>4, <2>1, <2>3, LastAppended
<1>6. CASE InsertMember
  <2>1. PICK i : i = Duplicate
    OBVIOUS
  <2>2. PICK c : c = Superseding(old, i)
    OBVIOUS
  <2>3. OnlyChildren(n, c)
    BY <1>3, <1>6, <2>1, <2>2, InsertHeap
  <2>4. heap'[n].children = c
    BY <1>2, <2>3 DEF OnlyChildren
  <2>5. PICK s : s = IF i = 0 THEN old ELSE [old EXCEPT ![i] = 0]
    OBVIOUS
  <2>6. s \in Seq(Nat) /\ c = Append(s, val)
    BY <1>4, <2>2, <2>5, ExceptNat DEF Superseding
  <2>7. QED
    BY <1>2, <1>4, <2>4, <2>6, LastAppended
<1>7. QED
  BY <1>5, <1>6

LEMMA YoungNext ==
  ASSUME IInv, IInv', Indexed, Lasts(heap, heap'), [Next]_vars, Young
  PROVE  Young'
<1> SUFFICES ASSUME Working' PROVE Young'
  BY DEF Young
<1>1. Working /\ pc' \notin {"error", "overNodes"}
  BY WorkingBefore
<1>2. Len(stack) \in Nat /\ Len(heap) \in Nat /\ Len(heap') \in Nat /\ val' \in 0..Len(heap')
  BY Facts DEF IInv, TypeOK, ParserTypeOK
<1>3. UNCHANGED vars => pc' = pc
  BY DEF vars, pvars
<1>4. Looking => pc' = pc
  BY <1>3 DEF Looking
<1>5. \A m \in 1..Len(stack) : stack[m].node \in 1..Len(heap)
  BY DEF IInv, FramesOK
<1>6. pc' \in {"return", "insert", "inline", "between", "afterComma"} =>
         val' \in 1..Len(heap') /\ \A m \in 1..Len(stack') : stack'[m].node < val'
  <2> SUFFICES ASSUME pc' \in {"return", "insert", "inline", "between", "afterComma"}
               PROVE  val' \in 1..Len(heap') /\ \A m \in 1..Len(stack') : stack'[m].node < val'
    OBVIOUS
  <2>1. ~OpenContainer
    BY <1>1 DEF OpenContainer, BumpNodeCount
  <2>2. CASE ParseScalar \/ MakeMember
    <3>1. val' = Len(heap) + 1
      BY <2>2, ValNext
    <3>2. ~ReturnContainer
      BY <2>2 DEF ParseScalar, MakeMember, ReturnContainer, ExpectsValue
    <3>3. Len(stack') = Len(stack)
      BY <1>1, <2>1, <3>2, StackNext
    <3>4. \A m \in 1..Len(stack') : stack'[m].node = stack[m].node /\ stack[m].node \in 1..Len(heap)
      BY <1>1, <1>5, <3>3, FrameStays
    <3>5. QED
      BY <1>2, <3>1, <3>4
  <2>3. CASE ReturnContainer
    <3>1. val' = Top.node /\ stack # <<>> /\ Len(stack') = Len(stack) - 1
      BY <2>3, ValNext, FramesLeft
    <3>2. \A m \in 1..Len(stack') : stack'[m] = stack[m]
      BY <2>3, FramesLeft
    <3>3. Top = stack[Len(stack)] /\ Len(stack) \in 1..Len(stack)
      BY <3>1, TopOpened
    <3>4. \A m \in 1..Len(stack') : stack'[m].node < stack[Len(stack)].node
      BY <1>2, <3>1, <3>2, <3>3 DEF Indexed, Nested
    <3>5. stack[Len(stack)].node \in 1..Len(heap)
      BY <1>5, <3>3
    <3>6. val' # 0
      BY <1>2, <3>1, <3>3, <3>5
    <3>7. QED
      BY <1>2, <3>1, <3>3, <3>4, <3>6
  <2>4. CASE ~ParseScalar /\ ~MakeMember /\ ~ReturnContainer
    <3>1. val' = val /\ Len(stack') = Len(stack)
      BY <1>1, <2>1, <2>4, ValNext, StackNext
    <3>2. pc \in {"return", "insert", "inline", "between", "afterComma"}
      BY <1>1, <1>4, <2>1, <2>4, Moves
    <3>3. val \in 1..Len(heap) /\ \A m \in 1..Len(stack) : stack[m].node < val
      BY <1>1, <3>2 DEF Young
    <3>4. val \in 1..Len(heap')
      BY <3>3, LastsFacts
    <3>5. \A m \in 1..Len(stack') : stack'[m].node = stack[m].node
      BY <1>1, <3>1, FrameStays
    <3>6. QED
      BY <3>1, <3>3, <3>4, <3>5
  <2>5. QED
    BY <2>2, <2>3, <2>4
<1>7. pc' \in {"inline", "between", "afterComma"} => stack' # <<>> /\ Current' = val'
  <2> SUFFICES ASSUME pc' \in {"inline", "between", "afterComma"} PROVE stack' # <<>> /\ Current' = val'
    OBVIOUS
  <2>1. \/ AppendElement \/ InsertMember
        \/ /\ pc \in {"inline", "between"} \/ (pc = "afterComma" /\ pc' = pc)
           /\ Looking \/ CollectHeadComments \/ InlineComment \/ Separator
    BY <1>1, <1>4, Moves
  <2>2. /\ OpenContainer => pc \in {"value", "keyValue", "loop"} /\ pc' = "loop"
        /\ ReturnContainer => pc = "closed" /\ pc' = "return"
        /\ ParseScalar => pc' = "return"
        /\ MakeMember => pc' = "insert"
    BY <1>1 DEF OpenContainer, ReturnContainer, ParseScalar, MakeMember, ExpectsValue, BumpNodeCount
  <2>3. Len(stack') = Len(stack) /\ val' = val
    BY <1>1, <2>2, StackNext, ValNext
  <2>4. stack # <<>>
    <3>1. AppendElement => stack # <<>>
      BY DEF AppendElement, InArray
    <3>2. InsertMember => stack # <<>>
      BY DEF InsertMember, IInv, InsideContainer
    <3>3. QED
      BY <1>1, <2>1, <3>1, <3>2 DEF Young
  <2>5. stack' # <<>> /\ Len(stack) \in 1..Len(stack) /\ Top = stack[Len(stack)] /\ Top.node \in 1..Len(heap)
    <3>1. Len(stack) # 0 /\ (stack' = <<>> <=> Len(stack') = 0)
      BY <2>4, StackEmpty
    <3>2. QED
      BY <2>3, <2>4, <3>1, TopOpened
  <2>6. PICK n : n = Top.node
    OBVIOUS
  <2>7. Current' = Last(heap'[n].children)
    <3>1. PICK m \in Nat : m = Len(stack)
      BY <1>2
    <3>2. m \in 1..Len(stack) /\ m \in 1..Len(stack')
      BY <2>3, <2>5, <3>1
    <3>3. stack'[m].node = stack[m].node
      BY <1>1, <3>2, FrameStays
    <3>4. stack'[Len(stack')].node = n
      BY <2>3, <2>5, <2>6, <3>1, <3>3
    <3>5. QED
      BY <3>4 DEF Current, Container, Top
  <2>8. CASE AppendElement \/ InsertMember
    BY <2>3, <2>5, <2>6, <2>7, <2>8, ChildAdded
  <2>9. CASE ~AppendElement /\ ~InsertMember
    <3>1. pc \in {"inline", "between", "afterComma"}
      BY <2>1, <2>9
    <3>2. ~CloseContainer
      BY <3>1 DEF CloseContainer, AtClose
    <3>3. KeptHeap
      BY <1>1, <2>2, <2>9, <3>1, <3>2, KeptSteps
    <3>4. heap'[n].children = heap[n].children
      BY <2>5, <2>6, <3>3 DEF KeptHeap
    <3>5. Current = val
      BY <1>1, <3>1 DEF Young
    <3>6. QED
      BY <2>3, <2>5, <2>6, <2>7, <3>4, <3>5 DEF Current, Container
  <2>10. QED
    BY <2>8, <2>9
<1>8. QED
  BY <1>6, <1>7 DEF Young

\* Only parseRoot sets its head comment.
LEMMA LeadNext ==
  ASSUME [Next]_vars
  PROVE  UNCHANGED lead \/ BeginRoot
<1>1. UNCHANGED vars => UNCHANGED lead
  BY DEF vars
<1>2. NoRoot \/ ReturnRoot \/ RootInline \/ ConsumeTrailing \/ Finish \/ ExtraData => UNCHANGED lead
  BY DEF NoRoot, ReturnRoot, RootInline, ConsumeTrailing, Finish, ExtraData
<1>3. QED
  BY <1>1, <1>2 DEF Next

LEMMA LookKeeps ==
  ASSUME [Next]_vars, Looking
  PROVE  /\ UNCHANGED <<pc, stack, heap, acc, val, lead>>
         /\ Scan \/ UNCHANGED <<input, have>>
<1>1. Scan /\ pc' = pc => UNCHANGED <<pc, stack, heap, acc, val>> /\ ~have
  BY DEF Scan
<1>2. UNCHANGED vars => UNCHANGED <<pc, stack, heap, acc, val, lead, input, have>>
  BY DEF vars, pvars
<1>3. BeginRoot => have
  BY DEF BeginRoot
<1>4. QED
  BY <1>1, <1>2, <1>3, LeadNext DEF Looking

\* The tokens a node stands at that the innermost call knows of: the value
\* that has just ended, or the child it belongs to.
Positioned ==
  Working =>
    /\ pc = "closed" => StartOf(input, Prior) = heap[Top.node].pos
    /\ pc = "return" => StartOf(input, Prior) = heap[val].pos
    /\ pc \in {"insert", "inline", "between", "rootInline", "trail"} => Owner(Prior) = heap[val].pos
    /\ pc = "afterComma" => Owner(Before(input, Prior)) = heap[val].pos

LEMMA PriorStays ==
  ASSUME IInv, Parsing, [Next]_vars, Working', ~ReadsToken, Prior # 0, NEW p, p = Prior
  PROVE  /\ Prior' = p /\ p \in 1..At
         /\ input'[p] = input[p] /\ StartOf(input', p) = StartOf(input, p) /\ Owner(p)' = Owner(p)
         /\ Before(input', p) = Before(input, p)
<1>1. Prior' = p /\ p \in 1..At
  BY Significant
<1>2. QED
  BY <1>1, TokensGrown, OwnersGrown DEF SameToken

\* An element of an array is known by its own first token.
LEMMA ElementPlace ==
  ASSUME NEW s, NEW i, ~Within(s, i, "{")
  PROVE  ChildOf(s, i) = i
BY DEF ChildOf

LEMMA PositionedNext ==
  ASSUME IInv, IInv', Indexed, Parsing, Lasts(heap, heap'), [Next]_vars, Matching, Rooted, Rooted', Young,
         Positioned
  PROVE  Positioned'
<1> SUFFICES ASSUME Working' PROVE Positioned'
  BY DEF Positioned
<1>1. Working /\ pc' \notin {"error", "overNodes"} /\ Sorts /\ Returned
  BY WorkingBefore DEF Matching, Building
<1>2. Len(stack) \in Nat /\ Len(heap) \in Nat
  BY Facts
<1>3. pc \in AfterValuePlaces => Prior # 0 /\ EndsValue(input, Prior)
  BY DEF Parsing, Located, ValueRead, AfterValue
<1>4. PICK p : p = Prior
  OBVIOUS
<1>5. CASE Looking
  <2>1. UNCHANGED <<pc, stack, heap, val>> /\ ~ReadsToken
    <3>1. /\ ParseScalar => have /\ ~have'
          /\ OpenContainer => have /\ ~have'
          /\ CloseContainer => have /\ ~have'
          /\ ParseKey => have /\ ~have'
          /\ ParseColon => have /\ ~have'
          /\ Separator => have /\ ~have'
      BY DEF ParseScalar, OpenContainer, CloseContainer, ParseKey, ParseColon, Separator, ExpectsValue, Sees, Bump,
         AtClose, SeesClose
    <3>2. Scan => ~have
      BY DEF Scan
    <3>3. QED
      BY <1>5, <3>1, <3>2, LookKeeps DEF ReadsToken
  <2>2. CASE pc \in AfterValuePlaces
    <3>1. /\ Prior' = p /\ StartOf(input', p) = StartOf(input, p) /\ Owner(p)' = Owner(p)
      BY <1>3, <1>4, <2>1, <2>2, PriorStays
    <3>2. pc # "afterComma"
      BY <2>2 DEF AfterValuePlaces
    <3>3. Top' = Top
      BY <2>1 DEF Top
    <3>4. Owner(Prior)' = Owner(p)'
      BY <3>1 DEF Owner
    <3>5. QED
      BY <1>1, <1>4, <2>1, <3>1, <3>2, <3>3, <3>4 DEF Positioned
  <2>3. CASE pc = "afterComma"
    <3>1. Prior # 0 /\ input[Prior].k = ","
      BY <2>3 DEF Parsing, Located, CommaRead, AfterComma
    <3>2. Prior' = p /\ Before(input', p) = Before(input, p) /\ p \in 1..At
      BY <1>4, <2>1, <3>1, PriorStays
    <3>3. PICK q : q = Before(input, p)
      OBVIOUS
    <3>4. p \in 1..Consumed
      <4>1. Prior \in 0..Consumed /\ Consumed \in Nat
        BY Significant
      <4>2. p # 0
        BY <1>4, <3>1
      <4>3. QED
        BY <1>4, <4>1, <4>2
    <3>5. q # 0
      BY <1>4, <3>1, <3>3, <3>4, CommaFollows
    <3>6. q \in 1..At
      <4>1. At \in Nat
        BY Significant
      <4>2. p \in 1..At
        BY <3>2
      <4>3. p \in Nat \ {0} /\ At \in Nat
        BY <4>1, <4>2
      <4>4. q \in 1..p - 1
        BY <3>3, <3>5, <4>3, BeforeType
      <4>5. QED
        BY <3>2, <4>3, <4>4
    <3>7. Owner(q)' = Owner(q)
      BY <3>6, OwnersGrown
    <3>8. Owner(Before(input, Prior))' = Owner(q)'
      BY <3>2, <3>3 DEF Owner
    <3>9. QED
      BY <1>1, <1>4, <2>1, <2>3, <3>3, <3>7, <3>8 DEF Positioned
  <2>4. CASE pc \notin AfterValuePlaces \cup {"afterComma"}
    BY <2>1, <2>4 DEF Positioned, AfterValuePlaces
  <2>5. QED
    BY <2>2, <2>3, <2>4
<1>6. CASE ~Looking
  <2>1. pc' = "closed" => StartOf(input', Prior') = heap'[Top'.node].pos
    <3> SUFFICES ASSUME pc' = "closed" PROVE StartOf(input', Prior') = heap'[Top'.node].pos
      OBVIOUS
    <3>1. CloseContainer /\ pc = "loop"
      BY <1>1, <1>6, Moves
    <3>2. have /\ UNCHANGED input /\ Prior' = At /\ stack # <<>> /\ Closes(input[At]) /\ UNCHANGED stack
      <4>1. ReadsToken
        BY <3>1 DEF ReadsToken
      <4>2. Closes(Look) /\ stack # <<>> /\ UNCHANGED stack
        BY <3>1 DEF CloseContainer, AtClose, SeesClose, InObject, InArray, Sees, Closes
      <4>3. QED
        BY <4>1, <4>2, Significant DEF Look
    <3>3. Around(input, At) = Opened[Len(stack)]
      BY <3>1, <3>2, AheadFacts
    <3>4. Top.node \in 1..Len(heap) /\ Opened[Len(stack)] = heap[Top.node].pos /\ Top' = Top
      BY <3>2, TopOpened DEF Top
    <3>5. heap'[Top'.node].pos = heap[Top.node].pos
      BY <3>4, NodeStays
    <3>6. StartOf(input', Prior') = Around(input, At)
      BY <3>2 DEF StartOf, OpenerOf
    <3>7. QED
      BY <3>3, <3>4, <3>5, <3>6
  <2>2. pc' = "return" => StartOf(input', Prior') = heap'[val'].pos
    <3> SUFFICES ASSUME pc' = "return" PROVE StartOf(input', Prior') = heap'[val'].pos
      OBVIOUS
    <3>1. CASE ParseScalar
      <4>1. Prior' = At /\ UNCHANGED input /\ Look.k \in {"str", "scalar"}
        BY <3>1, Significant DEF ReadsToken, ParseScalar, Scalars
      <4>2. ~Closes(input[At])
        BY <4>1 DEF Look, Closes
      <4>3. PICK x \in Node : heap' = Append(heap, x) /\ x.pos = At
        BY <3>1, Allocated
      <4>4. val' = Len(heap) + 1 /\ heap'[Len(heap) + 1] = x
        BY <3>1, <4>3, ValNext, AppendProperties DEF IInv, TypeOK, ParserTypeOK
      <4>5. QED
        BY <4>1, <4>2, <4>3, <4>4 DEF StartOf
    <3>2. CASE ~ParseScalar
      <4>1. ReturnContainer /\ pc = "closed"
        BY <1>1, <1>6, <3>2, Moves
      <4>2. ~ReadsToken
        BY <4>1 DEF ReadsToken, ParseScalar, OpenContainer, CloseContainer, ParseKey, ParseColon, Separator, AtClose,
           ExpectsValue
      <4>3. Prior # 0
        BY <1>3, <4>1 DEF AfterValuePlaces
      <4>4. Prior' = p /\ StartOf(input', p) = StartOf(input, p)
        BY <1>4, <4>2, <4>3, PriorStays
      <4>5. val' = Top.node /\ Top.node \in 1..Len(heap)
        BY <4>1, ValNext, FramesLeft, TopOpened
      <4>6. heap'[val'].pos = heap[Top.node].pos
        BY <4>5, NodeStays
      <4>7. QED
        BY <1>1, <1>4, <4>1, <4>4, <4>6 DEF Positioned
    <3>3. QED
      BY <3>1, <3>2
  <2>3. pc' = "insert" => Owner(Prior)' = heap'[val'].pos
    <3> SUFFICES ASSUME pc' = "insert" PROVE Owner(Prior)' = heap'[val'].pos
      OBVIOUS
    <3>1. MakeMember /\ pc = "return" /\ InObject
      BY <1>1, <1>6, Moves, ValNext
    <3>2. ~ReadsToken
      BY <3>1 DEF ReadsToken, ParseScalar, OpenContainer, CloseContainer, ParseKey, ParseColon, Separator, AtClose,
         ExpectsValue
    <3>3. Prior # 0
      BY <1>3, <3>1 DEF AfterValuePlaces
    <3>4. Prior' = p /\ Owner(p)' = Owner(p)
      BY <1>4, <3>2, <3>3, PriorStays
    <3>5. Owner(Prior)' = Owner(p)'
      BY <3>4 DEF Owner
    <3>6. PICK x \in Node : heap' = Append(heap, x) /\ x.pos = Top.keyPos
      BY <3>1, Allocated
    <3>7. val' = Len(heap) + 1 /\ heap'[Len(heap) + 1] = x
      BY <3>1, <3>6, ValNext, AppendProperties DEF IInv, TypeOK, ParserTypeOK
    <3>8. Fits(heap[val].pos, Len(stack)) /\ heap[stack[Len(stack)].node].kind = "object"
      BY <1>1, <3>1 DEF Returned, InObject, Container, Top
    <3>9. ChildOf(input, heap[val].pos) = Top.keyPos
      BY <3>8 DEF Fits, Top
    <3>10. Owner(p) = ChildOf(input, heap[val].pos)
      BY <1>1, <1>4, <3>1 DEF Positioned, Owner
    <3>11. QED
      BY <3>4, <3>5, <3>6, <3>7, <3>9, <3>10
  <2>4. pc' \in {"inline", "between", "rootInline", "trail"} => Owner(Prior)' = heap'[val'].pos
    <3> SUFFICES ASSUME pc' \in {"inline", "between", "rootInline", "trail"} PROVE Owner(Prior)' = heap'[val'].pos
      OBVIOUS
    <3>1. \/ (InsertMember \/ InlineComment \/ RootInline \/ CollectHeadComments \/ ConsumeTrailing)
             /\ pc \in {"insert", "inline", "between", "rootInline", "trail"}
          \/ AppendElement /\ pc = "return"
          \/ ReturnRoot /\ pc = "return"
      BY <1>1, <1>6, Moves
    <3>2. ~ReadsToken
      <4>1. /\ ParseScalar => pc' = "return"
            /\ OpenContainer => pc' = "loop"
            /\ CloseContainer => pc' = "closed"
            /\ ParseKey => pc' = "colon"
            /\ ParseColon => pc' = "keyValue"
            /\ Separator => pc' = "afterComma"
        BY <1>1 DEF ParseScalar, OpenContainer, CloseContainer, ParseKey, ParseColon, Separator, BumpNodeCount
      <4>2. QED
        BY <4>1 DEF ReadsToken
    <3>3. Prior # 0
      BY <1>3, <3>1 DEF AfterValuePlaces
    <3>4. Prior' = p /\ Owner(p)' = Owner(p)
      BY <1>4, <3>2, <3>3, PriorStays
    <3>5. Owner(Prior)' = Owner(p)'
      BY <3>4 DEF Owner
    <3>6. ~ParseScalar /\ ~ReturnContainer /\ ~MakeMember
      BY <1>1 DEF ParseScalar, ReturnContainer, MakeMember, BumpNodeCount
    <3>7. val' = val
      BY <3>6, ValNext
    <3>8. val \in 1..Len(heap)
      <4>1. pc \in {"insert", "inline", "between", "return"} => val \in 1..Len(heap)
        BY <1>1 DEF Young
      <4>2. pc \in {"rootInline", "trail"} => val = 1 /\ heap # <<>>
        BY <1>1 DEF Rooted, Ending
      <4>3. heap # <<>> => 1 \in 1..Len(heap)
        BY EmptySeq, LenProperties DEF IInv, TypeOK, ParserTypeOK
      <4>4. QED
        BY <3>1, <4>1, <4>2, <4>3
    <3>9. heap'[val'].pos = heap[val].pos
      BY <3>7, <3>8, NodeStays
    <3>10. CASE pc \in {"insert", "inline", "between", "rootInline", "trail"}
      <4>1. Owner(p) = heap[val].pos
        BY <1>1, <1>4, <3>10 DEF Positioned
      <4>2. QED
        BY <3>4, <3>5, <3>9, <4>1
    <3>11. CASE pc = "return"
      <4>1. Owner(p) = ChildOf(input, heap[val].pos)
        BY <1>1, <1>4, <3>11 DEF Positioned, Owner
      <4>2. ~Within(input, heap[val].pos, "{")
        <5>1. CASE ReturnRoot
          <6>1. stack = <<>> /\ val = 1 /\ heap # <<>>
            BY <1>1, <3>11, <5>1 DEF ReturnRoot, Rooted
          <6>2. Around(input, heap[val].pos) = 0
            BY <1>1, <6>1 DEF Rooted
          <6>3. QED
            BY <6>2 DEF Within
        <5>2. CASE AppendElement
          <6>1. stack # <<>> /\ heap[stack[Len(stack)].node].kind = "array"
            BY <5>2 DEF AppendElement, InArray, Container, Top
          <6>2. Around(input, heap[val].pos) = Opened[Len(stack)]
            BY <1>1, <3>11, <6>1 DEF Returned, Fits
          <6>3. Top.node \in 1..Len(heap) /\ Opened[Len(stack)] = heap[Top.node].pos /\ Top = stack[Len(stack)]
            BY <6>1, TopOpened
          <6>4. input[heap[Top.node].pos].k = "["
            BY <1>1, <6>1, <6>3 DEF Sorts
          <6>5. QED
            BY <6>2, <6>3, <6>4 DEF Within
        <5>3. QED
          BY <3>1, <3>11, <5>1, <5>2
      <4>3. QED
        BY <3>4, <3>5, <3>9, <4>1, <4>2, ElementPlace
    <3>12. QED
      BY <3>1, <3>10, <3>11
  <2>5. pc' = "afterComma" => Owner(Before(input, Prior))' = heap'[val'].pos
    <3> SUFFICES ASSUME pc' = "afterComma" PROVE Owner(Before(input, Prior))' = heap'[val'].pos
      OBVIOUS
    <3>1. Separator /\ pc = "between"
      BY <1>1, <1>6, Moves
    <3>2. have /\ UNCHANGED input /\ Prior' = At /\ At = Consumed + 1
      BY <3>1, Significant DEF ReadsToken
    <3>3. Before(input', Prior') = p
      BY <1>4, <3>2 DEF Prior
    <3>4. Owner(Before(input, Prior))' = Owner(p)
      BY <3>2, <3>3 DEF Owner
    <3>5. ~ParseScalar /\ ~ReturnContainer /\ ~MakeMember
      BY <1>1 DEF ParseScalar, ReturnContainer, MakeMember, BumpNodeCount
    <3>6. val' = val /\ val \in 1..Len(heap)
      BY <1>1, <3>1, <3>5, ValNext DEF Young
    <3>7. heap'[val'].pos = heap[val].pos
      BY <3>6, NodeStays
    <3>8. QED
      BY <1>1, <1>4, <3>1, <3>4, <3>7 DEF Positioned
  <2>6. QED
    BY <2>1, <2>2, <2>3, <2>4, <2>5 DEF Positioned
<1>7. QED
  BY <1>5, <1>6

\* When a node's own slots change.
LEMMA HeadNext ==
  ASSUME IInv, [Next]_vars, NEW n \in 1..Len(heap), ~((AppendElement \/ ReturnRoot) /\ n = val)
  PROVE  heap'[n].headComment = heap[n].headComment
<1>1. "headComment" \in Slots
  BY DEF Slots
<1>2. PICK old : old = heap[n]["headComment"]
  OBVIOUS
<1>3. ~Receives(n, "headComment")
  BY DEF Receives
<1>4. heap'[n]["headComment"] = old
  BY <1>1, <1>2, <1>3, SlotNext
<1>5. QED
  BY <1>2, <1>4

OwnWritten(n) ==
  \/ ReturnContainer /\ n = Top.node
  \/ InlineComment /\ Inline # <<>> /\ n = Current
  \/ RootInline /\ n = val
  \/ AttachAfterComma /\ n = Current /\ heap[n].comment = <<>>

LEMMA OwnNext ==
  ASSUME IInv, [Next]_vars, NEW n \in 1..Len(heap)
  PROVE  heap'[n].comment = IF OwnWritten(n) THEN Given ELSE heap[n].comment
<1>1. "comment" \in Slots
  BY DEF Slots
<1>2. PICK old : old = heap[n]["comment"]
  OBVIOUS
<1>3. Receives(n, "comment") <=> OwnWritten(n)
  BY DEF Receives, OwnWritten
<1>4. heap'[n]["comment"] = IF Receives(n, "comment") THEN Written(old, "comment") ELSE old
  BY <1>1, <1>2, SlotNext
<1>5. Written(old, "comment") = Given
  BY DEF Written
<1>6. QED
  BY <1>2, <1>3, <1>4, <1>5

\* A container has no comment of its own while it is open, a value none before
\* it is placed; a member has the head comment that waits in the frame.
Bare ==
  Working =>
    /\ \A m \in 1..Len(stack) :
         heap[stack[m].node].headComment = <<>> /\ heap[stack[m].node].comment = <<>>
    /\ pc = "return" => heap[val].headComment = <<>>
    /\ pc = "insert" => heap[val].headComment = Top.pendingHead

\* What the writers of a node's own comment are given is the last child or a closed container.
LEMMA OwnApart ==
  ASSUME IInv, Indexed, Parsing, Working, Young, NEW m \in 1..Len(stack)
  PROVE  /\ (InlineComment \/ AttachAfterComma) => stack[m].node < Current
         /\ ~RootInline /\ ~ReturnRoot
         /\ AppendElement => stack[m].node < val
         /\ ReturnContainer /\ m # Len(stack) => stack[m].node < Top.node
<1>1. /\ InlineComment => pc = "inline"
      /\ AttachAfterComma => pc = "afterComma"
      /\ RootInline => pc = "rootInline"
      /\ ReturnRoot => stack = <<>>
      /\ AppendElement => pc = "return"
  BY DEF InlineComment, AttachAfterComma, RootInline, ReturnRoot, AppendElement
<1>2. Len(stack) \in Nat /\ Len(stack) # 0 /\ stack # <<>>
  <2>1. Len(stack) \in Nat /\ (stack = <<>> <=> Len(stack) = 0)
    BY Facts, StackEmpty
  <2>2. QED
    BY <2>1
<1>3. pc = "rootInline" => stack = <<>>
  BY DEF Parsing, Located, ValueRead
<1>4. m # Len(stack) => stack[m].node < Top.node
  <2>1. m # Len(stack) => m < Len(stack) /\ Len(stack) \in 1..Len(stack)
    BY <1>2
  <2>2. Top = stack[Len(stack)]
    BY DEF Top
  <2>3. QED
    BY <2>1, <2>2 DEF Indexed, Nested
<1>5. /\ pc \in {"inline", "afterComma"} => stack[m].node < Current
      /\ pc = "return" => stack[m].node < val
  BY DEF Young
<1>6. QED
  BY <1>1, <1>2, <1>3, <1>4, <1>5

LEMMA BareNext ==
  ASSUME IInv, IInv', Indexed, Parsing, Lasts(heap, heap'), [Next]_vars, Matching, Young, Bare
  PROVE  Bare'
<1> SUFFICES ASSUME Working' PROVE Bare'
  BY DEF Bare
<1>1. Working /\ pc' \notin {"error", "overNodes"}
  BY WorkingBefore
<1>2. Len(stack) \in Nat /\ Len(stack') \in Nat /\ Len(heap) \in Nat
  BY Facts DEF IInv, TypeOK, ParserTypeOK
<1>3. {"headComment", "comment"} \subseteq Slots
  BY DEF Slots
<1>4. ASSUME NEW m \in 1..Len(stack')
      PROVE  heap'[stack'[m].node].headComment = <<>> /\ heap'[stack'[m].node].comment = <<>>
  <2>1. CASE m \in 1..Len(stack)
    <3>1. PICK n : n = stack[m].node
      OBVIOUS
    <3>2. n \in 1..Len(heap) /\ stack'[m].node = n
      BY <2>1, <3>1, FrameStays
    <3>3. heap[n].headComment = <<>> /\ heap[n].comment = <<>>
      BY <1>1, <2>1, <3>1 DEF Bare
    <3>4. ReturnContainer => m # Len(stack)
      <4>1. ReturnContainer => Len(stack') = Len(stack) - 1
        BY FramesLeft
      <4>2. QED
        BY <1>2, <4>1
    <3>5. /\ InlineComment \/ AttachAfterComma => n < Current
          /\ ~RootInline /\ ~ReturnRoot
          /\ AppendElement => n < val
          /\ ReturnContainer => n < Top.node
      BY <1>1, <2>1, <3>1, <3>4, OwnApart
    <3>6. /\ InlineComment \/ AttachAfterComma => n # Current
          /\ AppendElement => n # val
          /\ ReturnContainer => n # Top.node
      <4>1. n \in Nat
        BY <3>2
      <4>2. \A x : n < x => n # x
        BY <4>1
      <4>3. QED
        BY <3>5, <4>2
    <3>7. heap'[n].headComment = heap[n].headComment
      BY <3>2, <3>5, <3>6, HeadNext
    <3>8. heap'[n].comment = heap[n].comment
      BY <3>2, <3>5, <3>6, OwnNext DEF OwnWritten
    <3>9. QED
      BY <3>2, <3>3, <3>7, <3>8
  <2>2. CASE m \notin 1..Len(stack)
    <3>1. OpenContainer /\ m = Len(stack) + 1 /\ stack'[m].node = Len(heap) + 1 /\ Len(heap') = Len(heap) + 1
      BY <1>2, <2>2, StackNext
    <3>2. PICK n : n = Len(heap) + 1
      OBVIOUS
    <3>3. n \in 1..Len(heap') /\ n \notin 1..Len(heap)
      BY <1>2, <3>1, <3>2
    <3>4. ~MakeMember
      BY <3>1 DEF OpenContainer, MakeMember, ExpectsValue
    <3>5. heap'[n]["headComment"] = <<>> /\ heap'[n]["comment"] = <<>>
      BY <1>3, <3>3, <3>4, NewSlots
    <3>6. QED
      BY <3>1, <3>2, <3>5
  <2>3. QED
    BY <2>1, <2>2
<1>5. CASE Looking
  <2>1. UNCHANGED <<pc, stack, heap, val>>
    BY <1>5, LookKeeps
  <2>2. Top' = Top
    BY <2>1 DEF Top
  <2>3. QED
    BY <1>1, <2>1, <2>2 DEF Bare
<1>6. CASE ~Looking
  <2>1. ASSUME ParseScalar \/ MakeMember
        PROVE  /\ val' \in 1..Len(heap') /\ val' \notin 1..Len(heap)
               /\ heap'[val']["headComment"] = IF MakeMember THEN Top.pendingHead ELSE <<>>
    <3>1. PICK n : n = Len(heap) + 1
      OBVIOUS
    <3>2. val' = n
      BY <2>1, <3>1, ValNext
    <3>3. n \in 1..Len(heap') /\ n \notin 1..Len(heap)
      <4>1. n \in 0..Len(heap')
        BY <3>2, Facts DEF IInv, TypeOK, ParserTypeOK
      <4>2. QED
        BY <1>2, <3>1, <4>1
    <3>4. heap'[n]["headComment"] = IF MakeMember THEN Top.pendingHead ELSE <<>>
      BY <1>3, <3>3, NewSlots
    <3>5. QED
      BY <3>2, <3>3, <3>4
  <2>2. pc' = "return" => heap'[val'].headComment = <<>>
    <3> SUFFICES ASSUME pc' = "return" PROVE heap'[val'].headComment = <<>>
      OBVIOUS
    <3>1. ~MakeMember
      BY <1>1 DEF MakeMember, BumpNodeCount
    <3>2. CASE ParseScalar
      <4>1. heap'[val']["headComment"] = <<>>
        BY <2>1, <3>1, <3>2
      <4>2. QED
        BY <4>1
    <3>3. CASE ~ParseScalar
      <4>1. ReturnContainer
        BY <1>1, <1>6, <3>3, Moves
      <4>2. val' = Top.node /\ stack # <<>>
        BY <4>1, ValNext, FramesLeft
      <4>3. Top.node \in 1..Len(heap) /\ Len(stack) \in 1..Len(stack) /\ Top = stack[Len(stack)]
        BY <4>2, TopOpened
      <4>4. heap[Top.node].headComment = <<>>
        BY <1>1, <4>3 DEF Bare
      <4>5. ~AppendElement /\ ~ReturnRoot
        BY <4>1 DEF ReturnContainer, AppendElement, ReturnRoot
      <4>6. QED
        BY <4>2, <4>3, <4>4, <4>5, HeadNext
    <3>4. QED
      BY <3>2, <3>3
  <2>3. pc' = "insert" => heap'[val'].headComment = Top'.pendingHead
    <3> SUFFICES ASSUME pc' = "insert" PROVE heap'[val'].headComment = Top'.pendingHead
      OBVIOUS
    <3>1. MakeMember
      BY <1>1, <1>6, Moves
    <3>2. Top' = Top
      BY <3>1 DEF MakeMember, Top
    <3>3. heap'[val']["headComment"] = Top.pendingHead
      BY <2>1, <3>1
    <3>4. QED
      BY <3>2, <3>3
  <2>4. QED
    BY <1>4, <2>2, <2>3 DEF Bare
<1>7. QED
  BY <1>5, <1>6

-----------------------------------------------------------------------------
(* The comment on a value's line. *)

\* Where the lookahead stands once a value has ended: right after its last
\* token, or after the comment its closing delimiter was followed by.
Untaken == Consumed = Prior /\ (Closes(input[Prior]) => have /\ ~IsComment(Look))
Taken == Closes(input[Prior]) /\ Consumed = Prior + 1 /\ IsComment(input[Prior + 1])
\* The comment a container took.
Own == IF Taken THEN NonBlank(<<Prior + 1>>) ELSE <<>>

LEMMA OneComment ==
  ASSUME NEW j
  PROVE  /\ NonBlank(<<j>>) = IF input[j].v # "blank" THEN <<j>> ELSE <<>>
         /\ NonBlank(<<j>>)' = IF input'[j].v # "blank" THEN <<j>> ELSE <<>>
<1>1. DOMAIN <<j>> = {1} /\ <<j>>[1] = j
  OBVIOUS
<1>2. (\E i \in DOMAIN <<j>> : input[<<j>>[i]].v # "blank") <=> input[j].v # "blank"
  BY <1>1
<1>3. (\E i \in DOMAIN <<j>> : input'[<<j>>[i]].v # "blank") <=> input'[j].v # "blank"
  BY <1>1
<1>4. QED
  BY <1>2, <1>3 DEF NonBlank

\* A comment with text is not blank, and the other way round.
LEMMA TextOrBlank ==
  ASSUME IInv, NEW j \in 1..At, IsComment(input[j])
  PROVE  IsText(j) <=> input[j].v # "blank"
<1>1. input[j] \in Alphabet
  BY Facts, ElementOfSeq DEF At
<1>2. input[j].v \in {"text", "blank"}
  BY <1>1, AlphabetAssumption DEF IsComment, Comments
<1>3. "text" # "blank"
  OBVIOUS
<1>4. QED
  BY <1>2, <1>3 DEF IsText

\* A step that reads no comment moves no edge.
LEMMA EdgeKept ==
  ASSUME IInv, Parsing, [Next]_vars, Working', Prior # 0, Scan \/ UNCHANGED <<input, have>>
  PROVE  /\ Untaken => Untaken'
         /\ Taken => Taken' /\ (IsText(Prior + 1)' <=> IsText(Prior + 1))
         /\ Untaken \/ Taken => Own' = Own
         /\ Untaken => Own = <<>>
<1>1. Consumed \in Nat /\ Prior \in 0..Consumed /\ At \in Nat
  BY Significant
<1>2. Untaken => ~Taken
  BY <1>1 DEF Untaken, Taken
<1>3. CASE UNCHANGED <<input, have>>
  <2>1. UNCHANGED <<Untaken, Taken, Own>> /\ (IsText(Prior + 1)' <=> IsText(Prior + 1))
    BY <1>3 DEF Untaken, Taken, Own, IsText, Prior, Consumed, At, Look, NonBlank
  <2>2. QED
    BY <1>2, <2>1 DEF Own
<1>4. CASE Scan
  <2>1. ~have /\ have' = TRUE /\ ~ReadsToken
    <3>1. ~have /\ have' = TRUE
      BY <1>4 DEF Scan
    <3>2. QED
      BY <3>1, Significant
  <2>2. PICK p : p = Prior
    OBVIOUS
  <2>3. Prior' = p /\ p \in 1..At /\ input'[p] = input[p]
    BY <2>1, <2>2, PriorStays
  <2>4. Consumed' = Consumed /\ Consumed = At
    BY <2>1, ConsumedNext DEF Consumed
  <2>5. Untaken => Untaken'
    BY <2>1, <2>2, <2>3, <2>4 DEF Untaken, Closes
  <2>6. ASSUME Taken
        PROVE  /\ p + 1 \in 1..At /\ input'[p + 1] = input[p + 1] /\ Taken'
               /\ IsText(Prior + 1)' <=> IsText(Prior + 1)
    <3>1. Consumed = p + 1
      BY <2>2, <2>6 DEF Taken
    <3>2. p + 1 \in 1..At
      BY <2>3, <2>4, <3>1
    <3>3. input'[p + 1] = input[p + 1]
      BY <3>2, TokensGrown DEF SameToken
    <3>4. Taken'
      BY <2>2, <2>3, <2>4, <2>6, <3>3 DEF Taken, Closes, IsComment
    <3>5. IsText(Prior + 1)' <=> IsText(Prior + 1)
      BY <2>2, <2>3, <3>3 DEF IsText, IsComment
    <3>6. QED
      BY <3>2, <3>3, <3>4, <3>5
  <2>7. Taken => Own' = Own
    <3> SUFFICES ASSUME Taken PROVE Own' = Own
      OBVIOUS
    <3>1. Taken' /\ input'[p + 1] = input[p + 1]
      BY <2>6
    <3>2. Own = NonBlank(<<p + 1>>)
      BY <2>2 DEF Own
    <3>3. PICK j : j = p + 1
      OBVIOUS
    <3>4. Own' = NonBlank(<<j>>)'
      BY <2>3, <3>1, <3>3 DEF Own, NonBlank
    <3>5. QED
      BY <3>1, <3>2, <3>3, <3>4, OneComment
  <2>8. Untaken => Own' = Own
    <3> SUFFICES ASSUME Untaken PROVE Own' = Own
      OBVIOUS
    <3>1. Untaken' /\ ~Taken
      BY <1>2, <2>5
    <3>2. ~Taken'
      <4>1. Prior' = p /\ Consumed' = p
        BY <2>3, <3>1 DEF Untaken
      <4>2. p # p + 1
        BY <2>3
      <4>3. QED
        BY <4>1, <4>2 DEF Taken
    <3>3. QED
      BY <3>1, <3>2 DEF Own
  <2>9. QED
    BY <1>2, <2>5, <2>6, <2>7, <2>8 DEF Own
<1>5. QED
  BY <1>3, <1>4

\* What a step leaves that may read a comment right where a value ended.
Edge ==
  Working =>
    /\ pc \in {"closed", "afterComma"} => Consumed = Prior
    /\ pc = "closed" => Closes(input[Prior])
    /\ pc \in {"return", "insert", "inline"} => Untaken \/ Taken
    /\ pc = "rootInline" => Untaken \/ (Taken /\ ~IsText(Prior + 1))
    /\ pc = "return" => heap[val].comment = Own
    /\ pc = "inline" => heap[val].comment = IF InArray THEN Own ELSE <<>>
    /\ pc \in {"insert", "rootInline"} => heap[val].comment = <<>>

\* Right after a token that is not a closing delimiter nothing is taken.
LEMMA ReadUntaken ==
  ASSUME IInv, Parsing, [Next]_vars, Working', ReadsToken, ~Closes(Look)
  PROVE  Untaken' /\ Own' = <<>>
<1>1. UNCHANGED input /\ Prior' = At /\ Consumed' = At
  BY Significant
<1>2. ~Closes(input'[Prior'])
  BY <1>1 DEF Look
<1>3. QED
  BY <1>1, <1>2 DEF Untaken, Taken, Own

\* The container that returns has taken the comment next to its closing delimiter, if there is one.
LEMMA ReturnEdge ==
  ASSUME IInv, Parsing, [Next]_vars, Working', ReturnContainer, Edge
  PROVE  /\ Untaken' \/ Taken'
         /\ heap'[val'].comment = Own'
<1>1. Working /\ pc = "closed" /\ have /\ UNCHANGED input /\ have' = (Look.k \notin Comments)
  BY WorkingBefore DEF ReturnContainer, TakeInline
<1>2. Consumed = Prior /\ Closes(input[Prior])
  BY <1>1 DEF Edge
<1>3. PICK p : p = Prior
  OBVIOUS
<1>4. ~ReadsToken
  BY <1>1 DEF ReturnContainer, ReadsToken, ParseScalar, OpenContainer, CloseContainer, ParseKey, ParseColon,
     Separator, AtClose, ExpectsValue
<1>5. Prior' = p /\ p \in Nat /\ At = p + 1
  <2>1. Prior' = p /\ Consumed \in Nat /\ Consumed = p
    BY <1>2, <1>3, <1>4, Significant
  <2>2. At = Consumed + 1
    BY <1>1, PlacesAhead
  <2>3. QED
    BY <2>1, <2>2
<1>6. heap'[val'].comment = Inline
  <2>1. stack # <<>> /\ val' = Top.node
    BY FramesLeft, ValNext
  <2>2. Top.node \in 1..Len(heap)
    BY <2>1, TopOpened
  <2>3. Given = Inline
    BY <1>1 DEF Given
  <2>4. QED
    BY <2>1, <2>2, <2>3, OwnNext DEF OwnWritten
<1>7. CASE Look.k \in Comments
  <2>1. have' = FALSE /\ Consumed' = p + 1
    BY <1>1, <1>5, <1>7 DEF Consumed, At
  <2>2. IsComment(input[p + 1])
    BY <1>5, <1>7 DEF Look, IsComment, Comments
  <2>3. Taken'
    BY <1>1, <1>2, <1>3, <1>5, <2>1, <2>2 DEF Taken
  <2>4. Inline = NonBlank(<<p + 1>>)
    BY <1>5, <1>7 DEF Inline
  <2>5. Own' = NonBlank(<<p + 1>>)
    BY <1>1, <1>5, <2>3 DEF Own, NonBlank
  <2>6. QED
    BY <1>6, <2>3, <2>4, <2>5
<1>8. CASE Look.k \notin Comments
  <2>1. have' = TRUE /\ Consumed' = p
    <3>1. have' = TRUE
      BY <1>1, <1>8
    <3>2. Consumed' = Consumed
      BY <1>1, <3>1 DEF Consumed, At
    <3>3. QED
      BY <1>2, <1>3, <3>1, <3>2
  <2>2. ~IsComment(Look')
    BY <1>1, <1>8 DEF Look, At, IsComment, Comments
  <2>3. Untaken'
    BY <1>5, <2>1, <2>2 DEF Untaken
  <2>4. ~Taken'
    <3>1. p # p + 1
      BY <1>5
    <3>2. QED
      BY <1>5, <2>1, <3>1 DEF Taken
  <2>5. Own' = <<>> /\ Inline = <<>>
    BY <1>8, <2>4 DEF Own, Inline
  <2>6. QED
    BY <1>6, <2>3, <2>5
<1>9. QED
  BY <1>7, <1>8
LEMMA EdgeNext ==
  ASSUME IInv, IInv', Indexed, Parsing, Lasts(heap, heap'), [Next]_vars, Matching, Rooted, Young, Edge
  PROVE  Edge'
<1> SUFFICES ASSUME Working' PROVE Edge'
  BY DEF Edge
<1>1. Working /\ pc' \notin {"error", "overNodes"}
  BY WorkingBefore
<1>2. Len(stack) \in Nat /\ Len(heap) \in Nat
  BY Facts
<1>3. pc \in AfterValuePlaces => Prior # 0
  BY DEF Parsing, Located, ValueRead, AfterValue
<1>4. pc = "afterComma" => Prior # 0
  BY DEF Parsing, Located, CommaRead, AfterComma
<1>5. CASE Looking
  <2>1. UNCHANGED <<pc, stack, heap, val>> /\ (Scan \/ UNCHANGED <<input, have>>)
    BY <1>5, LookKeeps
  <2>2. InArray' <=> InArray
    BY <2>1 DEF InArray, Container, Top
  <2>3. CASE pc \in {"return", "insert", "inline", "rootInline"}
    <3>1. /\ Untaken => Untaken'
          /\ Taken => Taken' /\ (IsText(Prior + 1)' <=> IsText(Prior + 1))
          /\ Untaken \/ Taken => Own' = Own
      BY <1>3, <2>1, <2>3, EdgeKept DEF AfterValuePlaces
    <3>2. pc' = "rootInline" => Untaken' \/ (Taken' /\ ~IsText(Prior + 1)')
      BY <1>1, <2>1, <3>1 DEF Edge
    <3>3. pc' \in {"return", "insert", "inline"} => (Untaken' \/ Taken') /\ Own' = Own
      BY <1>1, <2>1, <3>1 DEF Edge
    <3>4. pc' \notin {"closed", "afterComma"}
      BY <2>1, <2>3
    <3>5. QED
      BY <1>1, <2>1, <2>2, <3>2, <3>3, <3>4 DEF Edge
  <2>4. CASE pc \in {"closed", "afterComma"}
    <3>1. ~ReadsToken
      <4>1. pc # "between" /\ pc # "loop" /\ pc \notin {"value", "keyValue", "colon"}
        BY <2>4
      <4>2. QED
        BY <4>1 DEF ReadsToken, ParseScalar, OpenContainer, CloseContainer, ParseKey, ParseColon, Separator, AtClose,
           ExpectsValue
    <3>2. PICK p : p = Prior
      OBVIOUS
    <3>3. Prior' = p /\ input'[p] = input[p]
      BY <1>3, <1>4, <2>4, <3>1, <3>2, PriorStays DEF AfterValuePlaces
    <3>4. Consumed' = Consumed
      <4>1. CASE Scan
        <5>1. ~have
          BY <4>1 DEF Scan
        <5>2. QED
          BY <5>1, ConsumedNext
      <4>2. CASE UNCHANGED <<input, have>>
        BY <4>2 DEF Consumed, At
      <4>3. QED
        BY <2>1, <4>1, <4>2
    <3>5. QED
      BY <1>1, <2>1, <2>4, <3>2, <3>3, <3>4 DEF Edge, Closes
  <2>5. CASE pc \notin {"return", "insert", "inline", "rootInline", "closed", "afterComma"}
    BY <2>1, <2>5 DEF Edge
  <2>6. QED
    BY <2>3, <2>4, <2>5
<1>6. CASE ~Looking
  <2>1. pc' \in {"closed", "afterComma"} => Consumed' = Prior' /\ (pc' = "closed" => Closes(input'[Prior']))
    <3> SUFFICES ASSUME pc' \in {"closed", "afterComma"}
                 PROVE  Consumed' = Prior' /\ (pc' = "closed" => Closes(input'[Prior']))
      OBVIOUS
    <3>1. CloseContainer \/ (Separator /\ pc' = "afterComma")
      BY <1>1, <1>6, Moves
    <3>2. UNCHANGED input /\ Prior' = At /\ Consumed' = At
      BY <3>1, Significant DEF ReadsToken
    <3>3. CloseContainer => Closes(Look)
      BY DEF CloseContainer, AtClose, SeesClose, Sees, Closes
    <3>4. Separator => pc' = "afterComma"
      BY DEF Separator
    <3>5. QED
      BY <3>1, <3>2, <3>3 DEF Look
  <2>2. pc' = "return" => (Untaken' \/ Taken') /\ heap'[val'].comment = Own'
    <3> SUFFICES ASSUME pc' = "return" PROVE (Untaken' \/ Taken') /\ heap'[val'].comment = Own'
      OBVIOUS
    <3>1. CASE ParseScalar
      <4>1. ReadsToken /\ ~Closes(Look)
        BY <3>1 DEF ReadsToken, ParseScalar, Scalars, Closes
      <4>2. Untaken' /\ Own' = <<>>
        BY <4>1, ReadUntaken
      <4>3. heap'[val'].comment = <<>>
        <5>1. PICK n : n = Len(heap) + 1
          OBVIOUS
        <5>2. val' = n
          BY <3>1, <5>1, ValNext
        <5>3. n \in 0..Len(heap') /\ Len(heap') \in Nat
          BY <5>2 DEF IInv, TypeOK, ParserTypeOK
        <5>4. n \in 1..Len(heap') /\ n \notin 1..Len(heap)
          BY <1>2, <5>1, <5>3
        <5>5. "comment" \in Slots /\ "comment" # "headComment"
          BY DEF Slots
        <5>6. heap'[n]["comment"] = <<>>
          BY <5>4, <5>5, NewSlots
        <5>7. QED
          BY <5>2, <5>6
      <4>4. QED
        BY <4>2, <4>3
    <3>2. CASE ~ParseScalar
      <4>1. ReturnContainer
        BY <1>1, <1>6, <3>2, Moves
      <4>2. QED
        BY <4>1, ReturnEdge
    <3>3. QED
      BY <3>1, <3>2
  <2>3. ASSUME pc' \in {"insert", "inline", "rootInline"}
        PROVE  /\ MakeMember \/ InsertMember \/ AppendElement \/ ReturnRoot
               /\ pc \in {"return", "insert"}
               /\ Untaken => Untaken'
               /\ Taken => Taken' /\ (IsText(Prior + 1)' <=> IsText(Prior + 1))
               /\ Untaken \/ Taken => Own' = Own
    <3>1. /\ MakeMember \/ InsertMember \/ AppendElement \/ ReturnRoot
          /\ pc \in {"return", "insert"}
      BY <1>1, <1>6, <2>3, Moves
    <3>2. UNCHANGED <<input, have>>
      BY <3>1 DEF MakeMember, InsertMember, AppendElement, ReturnRoot
    <3>3. Prior # 0
      BY <1>3, <3>1 DEF AfterValuePlaces
    <3>4. QED
      BY <3>1, <3>2, <3>3, EdgeKept
  <2>4. ASSUME pc' \in {"inline", "rootInline"}
        PROVE  val' = val /\ heap'[val].comment = heap[val].comment
    <3>1. InsertMember \/ AppendElement \/ ReturnRoot
      <4>1. ~MakeMember
        BY <1>1, <2>4 DEF MakeMember, BumpNodeCount
      <4>2. QED
        BY <2>3, <2>4, <4>1
    <3>2. pc \in {"return", "insert"}
      BY <2>3, <2>4
    <3>3. ~ParseScalar /\ ~ReturnContainer /\ ~MakeMember
      BY <1>1, <2>4 DEF ParseScalar, ReturnContainer, MakeMember, BumpNodeCount
    <3>4. val \in 1..Len(heap)
      BY <1>1, <3>2 DEF Young
    <3>5. ~OwnWritten(val)
      BY <3>2, <3>3 DEF OwnWritten, InlineComment, RootInline, AttachAfterComma
    <3>6. QED
      BY <3>3, <3>4, <3>5, ValNext, OwnNext
  <2>5. pc' = "insert" => heap'[val'].comment = <<>>
    <3> SUFFICES ASSUME pc' = "insert" PROVE heap'[val'].comment = <<>>
      OBVIOUS
    <3>1. MakeMember
      BY <1>1, <1>6, Moves
    <3>2. PICK n : n = Len(heap) + 1
      OBVIOUS
    <3>3. val' = n
      BY <3>1, <3>2, ValNext
    <3>4. n \in 0..Len(heap') /\ Len(heap') \in Nat
      BY <3>3 DEF IInv, TypeOK, ParserTypeOK
    <3>5. n \in 1..Len(heap') /\ n \notin 1..Len(heap)
      BY <1>2, <3>2, <3>4
    <3>6. "comment" \in Slots /\ "comment" # "headComment"
      BY DEF Slots
    <3>7. heap'[n]["comment"] = <<>>
      BY <3>5, <3>6, NewSlots
    <3>8. QED
      BY <3>3, <3>7
  <2>6. pc' = "inline" => heap'[val'].comment = IF InArray' THEN Own' ELSE <<>>
    <3> SUFFICES ASSUME pc' = "inline" PROVE heap'[val'].comment = IF InArray' THEN Own' ELSE <<>>
      OBVIOUS
    <3>1. (InsertMember /\ pc = "insert") \/ (AppendElement /\ pc = "return")
      BY <1>1, <1>6, Moves
    <3>2. val' = val /\ heap'[val].comment = heap[val].comment /\ Own' = Own
      BY <1>1, <2>3, <2>4, <3>1 DEF Edge
    <3>3. /\ InsertMember => InObject
          /\ AppendElement => InArray
      <4>1. InsertMember => pc = "insert"
        BY DEF InsertMember
      <4>2. QED
        BY <4>1 DEF AppendElement, Indexed, MemberHeld
    <3>4. InArray' <=> AppendElement /\ pc = "return"
      <4>1. stack # <<>>
        BY <3>1, <3>3 DEF InObject, InArray
      <4>2. ~OpenContainer /\ ~ReturnContainer
        BY <3>1 DEF OpenContainer, ReturnContainer, ExpectsValue
      <4>3. Len(stack') = Len(stack)
        BY <4>2, StackNext
      <4>4. PICK m \in Nat : m = Len(stack)
        BY <1>2
      <4>5. m \in 1..Len(stack) /\ m \in 1..Len(stack') /\ stack' # <<>>
        <5>1. Len(stack) # 0 /\ (stack' = <<>> <=> Len(stack') = 0)
          BY <4>1, StackEmpty
        <5>2. m # 0
          BY <4>4, <5>1
        <5>3. m \in 1..m
          BY <5>2
        <5>4. QED
          BY <4>3, <4>4, <5>1, <5>2, <5>3
      <4>6. heap'[stack'[m].node].kind = heap[stack[m].node].kind
        BY <4>5, FrameStays
      <4>7. InArray' <=> heap[stack[m].node].kind = "array"
        BY <4>3, <4>4, <4>5, <4>6 DEF InArray, Container, Top
      <4>8. InsertMember => heap[stack[m].node].kind = "object"
        BY <3>3, <4>4 DEF InObject, Container, Top
      <4>9. AppendElement => heap[stack[m].node].kind = "array"
        BY <3>3, <4>4 DEF InArray, Container, Top
      <4>10. QED
        BY <3>1, <4>7, <4>8, <4>9
    <3>5. QED
      BY <1>1, <3>1, <3>2, <3>4 DEF Edge
  <2>7. pc' = "rootInline" => /\ heap'[val'].comment = <<>>
                              /\ Untaken' \/ (Taken' /\ ~IsText(Prior + 1)')
    <3> SUFFICES ASSUME pc' = "rootInline"
                 PROVE  heap'[val'].comment = <<>> /\ (Untaken' \/ (Taken' /\ ~IsText(Prior + 1)'))
      OBVIOUS
    <3>1. ReturnRoot /\ pc = "return"
      BY <1>1, <1>6, Moves
    <3>2. heap[val].comment = <<>>
      BY <3>1 DEF ReturnRoot
    <3>3. Own = <<>> /\ (Untaken \/ Taken)
      BY <1>1, <3>1, <3>2 DEF Edge
    <3>4. Taken => ~IsText(Prior + 1)
      <4> SUFFICES ASSUME Taken PROVE ~IsText(Prior + 1)
        OBVIOUS
      <4>1. PICK j : j = Prior + 1
        OBVIOUS
      <4>2. j = Consumed /\ IsComment(input[j])
        BY <4>1 DEF Taken
      <4>3. j \in 1..At
        <5>1. Consumed <= At /\ At \in Nat /\ Consumed \in Nat /\ Prior \in 0..Consumed
          BY Significant, PlacesAhead
        <5>2. QED
          BY <4>1, <4>2, <5>1
      <4>4. NonBlank(<<j>>) = <<>>
        BY <3>3, <4>1 DEF Own
      <4>5. input[j].v = "blank"
        BY <4>4, OneComment
      <4>6. QED
        BY <4>1, <4>2, <4>3, <4>5, TextOrBlank
    <3>5. QED
      BY <2>3, <2>4, <3>2, <3>3, <3>4
  <2>8. QED
    BY <1>1, <2>1, <2>2, <2>3, <2>5, <2>6, <2>7 DEF Edge
<1>7. QED
  BY <1>5, <1>6

\* Where a comment would be read for the line it is on, no call that collects
\* comments is: the lookahead there is already known not to be one.
NextInline ==
  Working => (pc \in {"lead", "loop", "between", "trail"} /\ Inlined(Consumed + 1) => have /\ ~IsComment(Look))

\* A comment two tokens or more after the last significant one is on no value's line,
\* but for the second one after a closing delimiter.
LEMMA PastLine ==
  ASSUME NEW i \in Nat, NEW p \in Nat, p = Before(input, i), Inlined(i)
  PROVE  /\ p # 0 /\ (i = p + 1 \/ i = p + 2)
         /\ i = p + 1 => input[p].k = "," \/ EndsValue(input, p)
         /\ i = p + 2 => /\ Closes(input[p]) /\ IsComment(input[p + 1])
                         /\ Around(input, i) # 0 \/ ~IsText(p + 1)
<1>1. p + 1 # p + 2
  OBVIOUS
<1>2. QED
  BY <1>1 DEF Inlined

\* The text up to the lookahead says it of the token after the lookahead too.
LEMMA InlinedScanned ==
  ASSUME IInv, [Next]_vars, NEW i, i = At + 1, Inlined(i)'
  PROVE  Inlined(i)
<1>1. At \in Nat /\ Agree(input, input', At) /\ i \in 1..At + 1 /\ i \in Nat \ {0}
  <2>1. At \in Nat /\ Agree(input, input', At)
    BY TextGrown
  <2>2. QED
    BY <2>1
<1>2. Before(input', i) = Before(input, i) /\ Around(input', i) = Around(input, i)
  BY <1>1, AgreeBefore, AgreeAround
<1>3. PICK p : p = Before(input, i)
  OBVIOUS
<1>4. p \in 0..i - 1
  BY <1>1, <1>3, BeforeType
<1>5. p # 0
  BY <1>2, <1>3 DEF Inlined
<1>6. p \in 1..At
  BY <1>1, <1>4, <1>5
<1>7. input'[p] = input[p] /\ (EndsValue(input', p) <=> EndsValue(input, p))
  BY <1>6, TokensGrown DEF SameToken
<1>8. i = p + 2 => input'[p + 1] = input[p + 1]
  <2>1. i = p + 2 => p + 1 \in 1..At
    BY <1>1, <1>6
  <2>2. QED
    BY <2>1, TokensGrown DEF SameToken
<1>9. i = p + 2 => (IsComment(input'[p + 1]) <=> IsComment(input[p + 1])) /\ (IsText(p + 1)' <=> IsText(p + 1))
  BY <1>8 DEF IsComment, IsText
<1>10. Closes(input'[p]) <=> Closes(input[p])
  BY <1>7 DEF Closes
<1>11. QED
  BY <1>2, <1>3, <1>5, <1>7, <1>9, <1>10 DEF Inlined

LEMMA InlinedSame ==
  ASSUME UNCHANGED input, NEW i
  PROVE  (Inlined(i)' <=> Inlined(i)) /\ (IsText(i)' <=> IsText(i))
BY DEF Inlined, IsText

LEMMA NextInlineNext ==
  ASSUME IInv, IInv', Indexed, Parsing, Lasts(heap, heap'), [Next]_vars, Matching, Rooted, Young, Edge,
         NextInline
  PROVE  NextInline'
<1> SUFFICES ASSUME Working' PROVE NextInline'
  BY DEF NextInline
<1>1. PICK c \in Nat : c = Consumed'
  BY Significant
<1>2. PICK j \in Nat \ {0} : j = c + 1
  OBVIOUS
<1> SUFFICES ASSUME pc' \in {"lead", "loop", "between", "trail"}, Inlined(j)' PROVE have' /\ ~IsComment(Look')
  BY <1>1, <1>2 DEF NextInline, Inlined
<1>3. j = Consumed' + 1
  BY <1>1, <1>2
<1>4. j \in Nat /\ Inlined(j)'
  OBVIOUS
<1>5. Working /\ pc' \notin {"error", "overNodes"}
  BY WorkingBefore
<1>6. Consumed \in Nat /\ Consumed' \in Nat /\ At \in Nat /\ Prior \in 0..Consumed
  BY Significant
<1>7. PICK p : p = Prior
  OBVIOUS
<1>8. p \in Nat
  BY <1>6, <1>7
<1>9. have => At = Consumed + 1
  BY PlacesAhead
<1>10. CASE Scan
  <2>1. ~have /\ have' = TRUE /\ UNCHANGED pc
    <3>1. ~have /\ have' = TRUE
      BY <1>10 DEF Scan
    <3>2. Looking
      <4>1. pc' = pc
        BY <1>10 DEF Scan
      <4>2. QED
        BY <1>10, <4>1 DEF Looking
    <3>3. QED
      BY <3>1, <3>2, LookKeeps
  <2>2. Consumed' = Consumed /\ Consumed = At
    BY <2>1, ConsumedNext DEF Consumed
  <2>3. j = At + 1
    BY <1>3, <2>2
  <2>4. Inlined(j)
    BY <1>4, <2>3, InlinedScanned
  <2>5. Inlined(Consumed + 1)
    BY <1>3, <2>2, <2>4
  <2>6. QED
    BY <1>5, <2>1, <2>5 DEF NextInline
<1>11. CASE ~Scan
  <2>1. UNCHANGED input /\ Inlined(j) /\ At' = At
    <3>1. UNCHANGED input
      BY <1>11, Reads
    <3>2. QED
      BY <1>4, <3>1, InlinedSame DEF At
  <2>2. PICK q : q = Before(input, j)
    OBVIOUS
  <2>3. q = Prior'
    BY <1>3, <2>1, <2>2 DEF Prior
  <2>4. q \in Nat
    <3>1. q \in 0..j - 1
      BY <2>2, BeforeType
    <3>2. QED
      BY <3>1
  <2>5. /\ q # 0 /\ (j = q + 1 \/ j = q + 2)
        /\ j = q + 1 => input[q].k = "," \/ EndsValue(input, q)
        /\ j = q + 2 => /\ Closes(input[q]) /\ IsComment(input[q + 1])
                        /\ Around(input, j) # 0 \/ ~IsText(q + 1)
    BY <1>4, <2>1, <2>2, <2>4, PastLine
  <2>6. CASE UNCHANGED vars
    <3>1. UNCHANGED <<pc, have, input>>
      BY <2>6 DEF vars, pvars
    <3>2. UNCHANGED <<Consumed, Look>>
      BY <3>1 DEF Consumed, Look, At
    <3>3. Inlined(Consumed + 1)
      BY <1>3, <2>1, <3>2
    <3>4. QED
      BY <1>5, <3>1, <3>2, <3>3 DEF NextInline
  <2>7. CASE OpenContainer
    <3>1. q = At /\ Consumed' = At /\ Opens(input[At])
      <4>1. Look.k \in {"{", "["}
        BY <2>7 DEF OpenContainer, Openers
      <4>2. ReadsToken
        BY <2>7 DEF ReadsToken
      <4>3. QED
        BY <2>3, <4>1, <4>2, Significant DEF Opens, Look
    <3>2. input[q].k # "," /\ ~EndsValue(input, q)
      BY <3>1, ArmsApart
    <3>3. j = q + 1
      BY <1>3, <3>1
    <3>4. QED
      BY <2>5, <3>2, <3>3
  <2>8. CASE CloseAhead
    <3>1. UNCHANGED <<input, have>> /\ have /\ Closes(Look)
      BY <2>8 DEF CloseAhead, SeesClose, Sees, Closes
    <3>2. Look' = Look
      BY <3>1 DEF Look, At
    <3>3. QED
      BY <3>1, <3>2 DEF Closes, IsComment
  <2>9. CASE ReturnRoot
    <3>1. pc = "return" /\ stack = <<>> /\ UNCHANGED <<input, have>> /\ heap[val].comment # <<>>
      BY <2>9 DEF ReturnRoot
    <3>2. Own # <<>>
      BY <1>5, <3>1 DEF Edge
    <3>3. Taken /\ NonBlank(<<p + 1>>) # <<>>
      BY <1>7, <3>2 DEF Own
    <3>4. Consumed = p + 1 /\ IsComment(input[p + 1])
      BY <1>7, <3>3 DEF Taken
    <3>5. Consumed' = Consumed
      BY <3>1 DEF Consumed, At
    <3>6. q = p /\ j = p + 2
      <4>1. Prior' = p
        BY <1>7, <3>1 DEF Prior, Consumed, At
      <4>2. QED
        BY <1>3, <1>8, <2>3, <3>4, <3>5, <4>1
    <3>7. IsText(p + 1)
      <4>1. p + 1 \in 1..At
        <5>1. Consumed <= At
          BY PlacesAhead
        <5>2. QED
          BY <1>6, <1>8, <3>4, <5>1
      <4>2. PICK k : k = p + 1
        OBVIOUS
      <4>3. NonBlank(<<k>>) # <<>>
        BY <3>3, <4>2
      <4>4. input[k].v # "blank"
        BY <4>3, OneComment
      <4>5. QED
        BY <3>4, <4>1, <4>2, <4>4, TextOrBlank
    <3>8. Around(input, j) = 0
      <4>1. Len(stack) = 0 /\ Live = 0
        BY <3>1, StackEmpty DEF Live
      <4>2. Nests(input, Consumed, 0, Opened)
        <5>1. Nests(input, Consumed, Live, Opened)
          BY <3>1 DEF Parsing, Balanced
        <5>2. QED
          BY <4>1, <5>1
      <4>3. Around(input, Consumed + 1) = 0
        BY <1>6, <4>2, NestsAround
      <4>4. QED
        BY <1>3, <3>5, <4>3
    <3>9. j # p + 1
      BY <1>8, <3>6
    <3>10. QED
      BY <2>5, <3>6, <3>7, <3>8, <3>9
  <2>10. ASSUME have, have' = FALSE, ~ReadsToken PROVE q = p /\ j = At + 1
    <3>1. Prior' = p
      BY <1>7, <2>10, Significant
    <3>2. Consumed' = At
      BY <2>1, <2>10 DEF Consumed
    <3>3. QED
      BY <1>3, <2>3, <3>1, <3>2
  <2>11. CASE InlineComment \/ RootInline \/ AttachAfterComma
    <3>1. have /\ have' = (Look.k \notin Comments) /\ pc \in {"inline", "rootInline", "afterComma"}
      BY <2>11 DEF InlineComment, RootInline, AttachAfterComma, TakeInline
    <3>2. CASE Look.k \notin Comments
      <4>1. have' /\ Look' = Look
        BY <2>1, <3>1, <3>2 DEF Look
      <4>2. QED
        BY <3>2, <4>1 DEF IsComment, Comments
    <3>3. CASE Look.k \in Comments
      <4>1. have' = FALSE /\ IsComment(Look)
        BY <3>1, <3>3 DEF IsComment, Comments
      <4>2. ~ReadsToken
        BY <4>1, Significant DEF IsBlankSpace
      <4>3. q = p /\ j = At + 1 /\ At = Consumed + 1
        BY <1>9, <2>10, <3>1, <4>1, <4>2
      <4>4. pc = "afterComma" => Consumed = p /\ input[p].k = ","
        BY <1>5, <1>7 DEF Edge, Parsing, Located, CommaRead, AfterComma
      <4>5. pc \in {"inline", "rootInline"} => (Consumed = p /\ ~Closes(input[p])) \/ Consumed = p + 1
        BY <1>5, <1>7, <4>1 DEF Edge, Untaken, Taken
      <4>6. pc = "afterComma" => ~Closes(input[p])
        BY <4>4 DEF Closes
      <4>7. (Consumed = p /\ ~Closes(input[p])) \/ Consumed = p + 1
        BY <3>1, <4>4, <4>5, <4>6
      <4>8. /\ Consumed = p => j = q + 2
            /\ Consumed = p + 1 => j = q + 3
        BY <1>8, <4>3
      <4>9. q + 2 # q + 1 /\ q + 3 # q + 1 /\ q + 3 # q + 2
        BY <2>4
      <4>10. QED
        BY <2>5, <4>3, <4>7, <4>8, <4>9
    <3>4. QED
      BY <3>2, <3>3
  <2>12. CASE CollectHeadComments \/ ConsumeTrailing
    <3>1. have /\ have' = FALSE /\ UNCHANGED pc /\ Look.k \in Comments \cup {"nl"}
      BY <2>12 DEF CollectHeadComments, ConsumeTrailing, Sees, Bump
    <3>2. ~ReadsToken
      BY <3>1, Significant DEF IsBlankSpace, IsComment, Comments
    <3>3. q = p /\ j = At + 1 /\ At = Consumed + 1
      BY <1>9, <2>10, <3>1, <3>2
    <3>4. j # q + 1
      <4>1. Consumed \in Nat /\ p <= Consumed
        BY <1>6, <1>7
      <4>2. QED
        BY <1>8, <3>3, <4>1
    <3>5. j = q + 2 /\ Closes(input[q]) /\ IsComment(input[q + 1])
      BY <2>5, <3>4
    <3>6. At = p + 1
      BY <1>6, <1>8, <3>3, <3>5
    <3>7. IsComment(Look)
      BY <3>3, <3>5, <3>6 DEF Look
    <3>8. Inlined(Consumed + 1)
      <4>1. EndsValue(input, p) /\ p # 0
        BY <2>5, <3>3, <3>5 DEF EndsValue
      <4>2. Before(input, Consumed + 1) = p /\ Consumed + 1 = p + 1
        BY <1>7, <3>3, <3>6 DEF Prior
      <4>3. QED
        BY <4>1, <4>2 DEF Inlined
    <3>9. pc \in {"lead", "loop", "between", "trail"}
      BY <3>1
    <3>10. QED
      BY <1>5, <3>1, <3>7, <3>8, <3>9 DEF NextInline
  <2>13. QED
    <3>1. \/ UNCHANGED vars \/ OpenContainer \/ CloseAhead \/ ReturnRoot
          \/ InlineComment \/ RootInline \/ AttachAfterComma \/ CollectHeadComments \/ ConsumeTrailing
      BY <1>5, <1>11, Moves DEF Looking
    <3>2. ReturnRoot => pc' # "return"
      BY DEF ReturnRoot
    <3>3. QED
      BY <2>6, <2>7, <2>8, <2>9, <2>11, <2>12, <3>1
<1>12. QED
  BY <1>10, <1>11

-----------------------------------------------------------------------------
(* Comments being collected, and head comments that wait. *)

Increasing(t) == \A a, b \in DOMAIN t : a < b => t[a] < t[b]

LEMMA IncreasingAppend ==
  ASSUME NEW t \in Seq(Nat), NEW x \in Nat, Increasing(t), \A i \in Range(t) : i < x
  PROVE  Increasing(Append(t, x)) /\ Range(Append(t, x)) = Range(t) \cup {x}
<1>1. /\ Len(t) \in Nat /\ DOMAIN t = 1..Len(t) /\ DOMAIN Append(t, x) = 1..Len(t) + 1
      /\ Append(t, x)[Len(t) + 1] = x /\ \A a \in 1..Len(t) : Append(t, x)[a] = t[a]
  OBVIOUS
<1>2. \A a \in 1..Len(t) : t[a] < x
  BY <1>1 DEF Range
<1>3. ASSUME NEW a \in 1..Len(t) + 1, NEW b \in 1..Len(t) + 1, a < b
      PROVE  Append(t, x)[a] < Append(t, x)[b]
  <2>1. a \in 1..Len(t)
    BY <1>1, <1>3
  <2>2. CASE b = Len(t) + 1
    BY <1>1, <1>2, <2>1, <2>2
  <2>3. CASE b # Len(t) + 1
    <3>1. b \in 1..Len(t)
      BY <1>1, <2>3
    <3>2. t[a] < t[b]
      BY <1>1, <1>3, <2>1, <3>1 DEF Increasing
    <3>3. QED
      BY <1>1, <2>1, <3>1, <3>2
  <2>4. QED
    BY <2>2, <2>3
<1>4. QED
  BY <1>1, <1>3, RangeAppended DEF Increasing

LEMMA RangeJoined ==
  ASSUME NEW s \in Seq(Nat), NEW t \in Seq(Nat)
  PROVE  Range(s \o t) = Range(s) \cup Range(t) /\ s \o t \in Seq(Nat)
<1>1. /\ Len(s) \in Nat /\ Len(t) \in Nat /\ DOMAIN s = 1..Len(s) /\ DOMAIN t = 1..Len(t)
      /\ DOMAIN (s \o t) = 1..Len(s) + Len(t) /\ s \o t \in Seq(Nat)
  OBVIOUS
<1>2. \A a \in 1..Len(s) : a \in 1..Len(s) + Len(t) /\ (s \o t)[a] = s[a]
  BY <1>1
<1>3. \A b \in 1..Len(t) : Len(s) + b \in 1..Len(s) + Len(t) /\ (s \o t)[Len(s) + b] = t[b]
  BY <1>1
<1>4. \A c \in 1..Len(s) + Len(t) : c \in 1..Len(s) \/ \E b \in 1..Len(t) : c = Len(s) + b
  <2> SUFFICES ASSUME NEW c \in 1..Len(s) + Len(t), c \notin 1..Len(s)
               PROVE  \E b \in 1..Len(t) : c = Len(s) + b
    OBVIOUS
  <2>1. c - Len(s) \in 1..Len(t) /\ c = Len(s) + (c - Len(s))
    BY <1>1
  <2>2. QED
    BY <2>1
<1>5. ASSUME NEW v \in Range(s \o t) PROVE v \in Range(s) \cup Range(t)
  <2>1. PICK c \in 1..Len(s) + Len(t) : v = (s \o t)[c]
    BY <1>1 DEF Range
  <2>2. CASE c \in 1..Len(s)
    BY <1>1, <1>2, <2>1, <2>2 DEF Range
  <2>3. ASSUME NEW b \in 1..Len(t), c = Len(s) + b PROVE v \in Range(t)
    <3>1. v = t[b]
      BY <1>3, <2>1, <2>3
    <3>2. QED
      BY <1>1, <3>1 DEF Range
  <2>4. QED
    BY <1>4, <2>2, <2>3
<1>6. Range(s) \cup Range(t) \subseteq Range(s \o t)
  BY <1>1, <1>2, <1>3 DEF Range
<1>7. QED
  BY <1>1, <1>5, <1>6

LEMMA IncreasingJoined ==
  ASSUME NEW s \in Seq(Nat), NEW t \in Seq(Nat), Increasing(s), Increasing(t),
         \A i \in Range(s) : \A j \in Range(t) : i < j
  PROVE  Increasing(s \o t)
<1>1. /\ Len(s) \in Nat /\ Len(t) \in Nat /\ DOMAIN s = 1..Len(s) /\ DOMAIN t = 1..Len(t)
      /\ DOMAIN (s \o t) = 1..Len(s) + Len(t)
  OBVIOUS
<1>2. \A a \in 1..Len(s) : (s \o t)[a] = s[a]
  BY <1>1
<1>3. ASSUME NEW b \in 1..Len(s) + Len(t), b \notin 1..Len(s)
      PROVE  b - Len(s) \in 1..Len(t) /\ (s \o t)[b] = t[b - Len(s)]
  BY <1>1, <1>3
<1>4. \A a \in 1..Len(s) : \A b \in 1..Len(t) : s[a] < t[b]
  BY <1>1 DEF Range
<1> SUFFICES ASSUME NEW a \in 1..Len(s) + Len(t), NEW b \in 1..Len(s) + Len(t), a < b
             PROVE  (s \o t)[a] < (s \o t)[b]
  BY <1>1 DEF Increasing
<1>5. CASE b \in 1..Len(s)
  <2>1. a \in 1..Len(s)
    BY <1>1, <1>5
  <2>2. s[a] < s[b]
    BY <1>1, <1>5, <2>1 DEF Increasing
  <2>3. QED
    BY <1>2, <1>5, <2>1, <2>2
<1>6. CASE b \notin 1..Len(s) /\ a \in 1..Len(s)
  <2>1. b - Len(s) \in 1..Len(t) /\ (s \o t)[b] = t[b - Len(s)]
    BY <1>3, <1>6
  <2>2. QED
    BY <1>2, <1>4, <1>6, <2>1
<1>7. CASE b \notin 1..Len(s) /\ a \notin 1..Len(s)
  <2>1. b - Len(s) \in 1..Len(t) /\ (s \o t)[b] = t[b - Len(s)]
    BY <1>3, <1>7
  <2>2. a - Len(s) \in 1..Len(t) /\ (s \o t)[a] = t[a - Len(s)]
    BY <1>3, <1>7
  <2>3. a - Len(s) < b - Len(s)
    BY <1>1
  <2>4. t[a - Len(s)] < t[b - Len(s)]
    BY <1>1, <2>1, <2>2, <2>3 DEF Increasing
  <2>5. QED
    BY <2>1, <2>2, <2>4
<1>8. QED
  BY <1>5, <1>6, <1>7

LEMMA IncreasingShort ==
  /\ Increasing(<<>>) /\ Range(<<>>) = {}
  /\ \A x : Increasing(<<x>>) /\ Range(<<x>>) = {x}
<1>1. DOMAIN <<>> = {} /\ \A x : DOMAIN <<x>> = {1} /\ <<x>>[1] = x
  OBVIOUS
<1>2. ~(1 < 1)
  OBVIOUS
<1>3. QED
  BY <1>1, <1>2 DEF Increasing, Range

LEMMA NonBlankKept ==
  ASSUME NEW t
  PROVE  NonBlank(t) = t \/ NonBlank(t) = <<>>
BY DEF NonBlank

\* A comment token that has been consumed.
Entry(i) == i \in 1..Consumed /\ IsComment(input[i])

LEMMA EntryStays ==
  ASSUME IInv, Parsing, [Next]_vars, NEW i, Entry(i)
  PROVE  Entry(i)' /\ i \in 1..Consumed /\ i \in 1..At /\ i \in Nat \ {0} /\ SameToken(i)
<1>1. i \in 1..Consumed /\ IsComment(input[i])
  BY DEF Entry
<1>2. Consumed \in Nat /\ Consumed' \in Nat /\ Consumed <= Consumed'
  BY PlacesRead
<1>3. At \in Nat /\ Consumed <= At
  BY PlacesAhead, Facts
<1>4. i \in 1..At /\ i \in Nat \ {0}
  BY <1>1, <1>2, <1>3
<1>5. i \in 1..Consumed'
  BY <1>1, <1>2
<1>6. SameToken(i)
  BY <1>4, TokensGrown
<1>7. QED
  BY <1>1, <1>4, <1>5, <1>6 DEF Entry, SameToken, IsComment

GatherPlaces == {"lead", "loop", "between", "trail", "done"}
LEMMA AccNext ==
  ASSUME [Next]_vars, Working'
  PROVE  /\ \/ acc' = acc
            \/ Collecting /\ IsComment(Look) /\ acc' = Append(acc, At)
            \/ acc' = <<>>
         /\ ReadsToken /\ ~ParseColon => acc' = <<>>
         /\ pc' \notin GatherPlaces => acc' = <<>> \/ (acc' = acc /\ pc \notin GatherPlaces)
<1>1. /\ ParseScalar => acc' = <<>>
      /\ OpenContainer => acc' = <<>>
      /\ CloseContainer => acc' = <<>>
      /\ ParseKey => acc' = <<>>
      /\ Separator => acc' = <<>>
      /\ BeginRoot => acc' = <<>>
      /\ CloseAhead => acc' = <<>>
  BY DEF ParseScalar, OpenContainer, CloseContainer, ParseKey, Separator, BeginRoot, CloseAhead
<1>2. /\ Looking => UNCHANGED <<pc, acc>>
      /\ SkipDroppedComments => acc' = acc
      /\ ReturnContainer => acc' = acc
      /\ ParseColon => acc' = acc
      /\ MakeMember => acc' = acc
      /\ InsertMember => acc' = acc
      /\ AppendElement => acc' = acc
      /\ InlineComment => acc' = acc
      /\ AttachAfterComma => acc' = acc
      /\ ReturnRoot => acc' = acc
      /\ RootInline => acc' = acc
      /\ Finish => acc' = acc
  BY LookKeeps DEF SkipDroppedComments, ReturnContainer, ParseColon, MakeMember, InsertMember, AppendElement,
     InlineComment, AttachAfterComma, ReturnRoot, RootInline, Finish
<1>3. /\ CollectHeadComments => /\ Look.k \in Comments \cup {"nl"}
                                /\ acc' = IF Look.k = "nl" THEN acc ELSE Append(acc, At)
      /\ ConsumeTrailing => /\ Look.k \in Comments \cup {"nl"}
                            /\ acc' = IF Look.k = "nl" THEN acc ELSE Append(acc, At)
  BY DEF CollectHeadComments, ConsumeTrailing, Sees
<1>4. Collecting => acc' = acc \/ (IsComment(Look) /\ acc' = Append(acc, At))
  BY <1>3 DEF Collecting, IsComment, Comments
<1>5. pc' \notin {"error", "overNodes"}
  BY WorkingBefore
<1>6. ReadsToken /\ ~ParseColon => acc' = <<>>
  BY <1>1 DEF ReadsToken
<1>7. QED
  BY <1>1, <1>2, <1>4, <1>5, <1>6, Moves DEF GatherPlaces, Collecting

\* What has been collected follows the last significant token, is on no
\* value's line, and waits only where it is about to be stored.
Gathered ==
  Working =>
    /\ Increasing(acc)
    /\ \A i \in Range(acc) : Entry(i) /\ Before(input, i) = Prior /\ ~Inlined(i)
    /\ pc \notin GatherPlaces => acc = <<>>

LEMMA GatheredNext ==
  ASSUME IInv, IInv', Parsing, [Next]_vars, NextInline, Gathered
  PROVE  Gathered'
<1> SUFFICES ASSUME Working' PROVE Gathered'
  BY DEF Gathered
<1>1. Working /\ pc' \notin {"error", "overNodes"}
  BY WorkingBefore
<1>2. /\ Increasing(acc)
      /\ \A i \in Range(acc) : Entry(i) /\ Before(input, i) = Prior /\ ~Inlined(i)
      /\ pc \notin GatherPlaces => acc = <<>>
  BY <1>1 DEF Gathered
<1>3. acc \in Seq(Nat)
  BY Facts DEF Text
<1>4. pc' \notin GatherPlaces => acc' = <<>>
  BY <1>2, AccNext
<1>5. ASSUME ~ReadsToken, NEW i \in Range(acc)
      PROVE  Entry(i)' /\ Before(input', i) = Prior' /\ ~Inlined(i)'
  <2>1. Entry(i) /\ Before(input, i) = Prior /\ ~Inlined(i)
    BY <1>2
  <2>2. Entry(i)' /\ i \in 1..At /\ SameToken(i)
    BY <2>1, EntryStays
  <2>3. Prior' = Prior
    BY <1>5, Significant
  <2>4. ~Inlined(i)'
    BY <2>1, <2>2, InlinedGrown
  <2>5. QED
    BY <2>1, <2>2, <2>3, <2>4 DEF SameToken
<1>6. CASE acc' = <<>>
  <2>1. Range(acc') = {} /\ Increasing(acc')
    BY <1>6, IncreasingShort
  <2>2. QED
    BY <1>6, <2>1 DEF Gathered
<1>7. CASE acc' = acc /\ acc # <<>>
  <2>1. ~ReadsToken
    <3>1. ParseColon => pc = "colon"
      BY DEF ParseColon
    <3>2. ~ParseColon
      BY <1>2, <1>7, <3>1 DEF GatherPlaces
    <3>3. QED
      BY <1>7, <3>2, AccNext
  <2>2. QED
    BY <1>2, <1>4, <1>5, <1>7, <2>1 DEF Gathered
<1>8. CASE Collecting /\ IsComment(Look) /\ acc' = Append(acc, At)
  <2>1. have /\ have' = FALSE /\ UNCHANGED input /\ pc \in {"lead", "loop", "between", "trail"}
    BY <1>8 DEF Collecting, CollectHeadComments, ConsumeTrailing, Sees, Bump
  <2>2. ~ReadsToken
    BY <1>8, Significant DEF IsBlankSpace
  <2>3. Prior' = Prior /\ Consumed \in Nat /\ At = Consumed + 1 /\ Consumed' = At
    <3>1. Consumed' = At
      BY <2>1 DEF Consumed, At
    <3>2. QED
      BY <2>1, <2>2, <3>1, Significant, PlacesAhead
  <2>4. ~Inlined(At)
    BY <1>1, <1>8, <2>1, <2>3 DEF NextInline
  <2>5. Entry(At)' /\ Before(input', At) = Prior' /\ ~Inlined(At)'
    <3>1. Entry(At)'
      <4>1. At \in 1..Consumed' /\ At' = At
        BY <2>1, <2>3 DEF At
      <4>2. QED
        BY <1>8, <2>1, <4>1 DEF Entry, Look
    <3>2. Before(input', At) = Prior'
      BY <2>1, <2>3 DEF Prior
    <3>3. At' = At
      BY <2>1 DEF At
    <3>4. PICK j : j = At
      OBVIOUS
    <3>5. ~Inlined(j)'
      BY <2>1, <2>4, <3>4, InlinedSame
    <3>6. QED
      BY <3>1, <3>2, <3>3, <3>4, <3>5
  <2>6. \A i \in Range(acc) : i < At
    <3> SUFFICES ASSUME NEW i \in Range(acc) PROVE i < At
      OBVIOUS
    <3>1. i \in 1..Consumed
      BY <1>2 DEF Entry
    <3>2. QED
      BY <2>3, <3>1
  <2>7. Increasing(acc') /\ Range(acc') = Range(acc) \cup {At}
    <3>1. At \in Nat
      BY <2>3
    <3>2. QED
      BY <1>2, <1>3, <1>8, <2>6, <3>1, IncreasingAppend
  <2>8. PICK j : j = At
    OBVIOUS
  <2>9. Entry(j)' /\ Before(input', j) = Prior' /\ ~Inlined(j)'
    <3>1. At' = At
      BY <2>1 DEF At
    <3>2. QED
      BY <2>5, <2>8, <3>1
  <2>10. QED
    BY <1>4, <1>5, <2>2, <2>7, <2>8, <2>9 DEF Gathered
<1>9. QED
  BY <1>6, <1>7, <1>8, AccNext

\* An insertion leaves no head comment waiting in the frame.
LEMMA InsertedPending ==
  ASSUME IInv, InsertMember, pc' # "error"
  PROVE  \E f \in Frame : SetTop(f) /\ f.pendingHead = <<>>
<1> DEFINE i == Duplicate
           children == Superseding(Container.children, i)
           found == [Top EXCEPT !.removed = IF i = 0 THEN @ ELSE @ + 1,
                                !.pendingHead = <<>>, !.justConsumedComma = FALSE]
           f == AddToIndex(children, found)
<1>1. stack # <<>>
  BY DEF InsertMember, IInv, InsideContainer
<1>2. Top \in Frame /\ Top.removed \in Nat
  BY <1>1, FrameTypes DEF Frame
<1>3. SetTop(f)
  BY DEF InsertMember, Fail, Stop
<1>4. found \in Frame /\ found.pendingHead = <<>>
  <2>1. Top.removed + 1 \in Nat
    BY <1>2
  <2> HIDE DEF i
  <2>2. QED
    BY <1>2, <2>1, EmptySeq DEF Frame, Text
<1>5. children \in Seq(Nat)
  <2>1. Container.children \in Seq(Nat) /\ val \in Nat
    BY <1>1, FrameTypes, Facts DEF Node
  <2>2. [Container.children EXCEPT ![i] = 0] \in Seq(Nat)
    BY <2>1, ExceptNat
  <2> HIDE DEF i
  <2>3. QED
    BY <2>1, <2>2, AppendProperties DEF Superseding
<1> HIDE DEF found, children
<1>6. f \in Frame
  BY <1>4, <1>5, AddToIndexType
<1>7. f.pendingHead = found.pendingHead
  BY <1>4 DEF AddToIndex, Frame
<1>8. QED
  BY <1>3, <1>4, <1>6, <1>7

LEMMA HoldHeadWaits ==
  ASSUME IInv, NEW m \in 1..Len(stack)
  PROVE  HoldHead[m].pendingHead = IF pc = "loop" /\ m = Len(stack) THEN NonBlank(acc) ELSE stack[m].pendingHead
<1> DEFINE i == Len(stack)
           f == [stack[i] EXCEPT !.pendingHead = NonBlank(acc)]
<1>1. ASSUME i \in 1..Len(stack) PROVE f \in Frame /\ f.pendingHead = NonBlank(acc)
  <2>1. stack[i] \in Frame
    BY <1>1, Facts, ElementOfSeq
  <2>2. QED
    BY <2>1, Facts, FrameUpdate DEF Frame
<1>2. HoldHead = IF pc = "loop" THEN [stack EXCEPT ![i] = f] ELSE stack
  BY DEF HoldHead
<1> HIDE DEF f
<1>3. CASE pc = "loop"
  <2>1. \A j \in 1..Len(stack) : HoldHead[j] = IF j = i THEN f ELSE stack[j]
    BY <1>1, <1>2, <1>3, Facts, StackUpdate
  <2>2. QED
    BY <1>1, <1>3, <2>1
<1>4. QED
  BY <1>2, <1>3

\* The steps that store a collected head comment in the frame, and those that empty it.
Holding == ParseKey \/ ((ParseScalar \/ OpenContainer) /\ pc = "loop")
LEMMA WaitsNext ==
  ASSUME IInv, IInv', [Next]_vars, Working', NEW m \in 1..Len(stack')
  PROVE  \/ /\ m \in 1..Len(stack)
            /\ stack'[m].pendingHead = IF m = Len(stack) /\ Holding THEN NonBlank(acc)
                                       ELSE IF m = Len(stack) /\ (AppendElement \/ InsertMember) THEN <<>>
                                       ELSE stack[m].pendingHead
         \/ OpenContainer /\ m = Len(stack) + 1 /\ stack'[m].pendingHead = <<>>
<1>1. Len(stack) \in Nat /\ Len(stack') \in Nat /\ pc' # "error"
  BY WorkingBefore, Facts
<1>2. ASSUME OpenContainer, m \notin 1..Len(stack)
      PROVE  m = Len(stack) + 1 /\ stack'[m].pendingHead = <<>>
  <2>1. m = Len(stack) + 1 /\ stack'[m] = NewFrame(Len(heap) + 1)
    BY <1>1, <1>2, FramesOpened
  <2>2. QED
    BY <2>1 DEF NewFrame
<1>3. m \in 1..Len(stack) \/ OpenContainer
  BY <1>1, StackNext
<1> SUFFICES ASSUME m \in 1..Len(stack)
             PROVE  stack'[m].pendingHead = IF m = Len(stack) /\ Holding THEN NonBlank(acc)
                                       ELSE IF m = Len(stack) /\ (AppendElement \/ InsertMember) THEN <<>>
                                       ELSE stack[m].pendingHead
  BY <1>2, <1>3
<1>4. stack # <<>>
  BY <1>1, StackEmpty
<1>5. ASSUME NEW f \in Frame, SetTop(f)
      PROVE  stack'[m] = IF m = Len(stack) THEN f ELSE stack[m]
  BY <1>4, <1>5, SetTopAt
<1>6. /\ ParseKey => pc = "loop" /\ Sees({"str"})
      /\ (ParseScalar => Sees(Scalars)) /\ (OpenContainer => Sees(Openers))
      /\ (AppendElement => pc = "return") /\ (InsertMember => pc = "insert")
      /\ (ParseScalar \/ OpenContainer => pc \in {"value", "keyValue", "loop"})
  BY DEF ParseKey, ParseScalar, OpenContainer, AppendElement, InsertMember, ExpectsValue, Sees
<1>7. CASE InsertMember
  <2>1. ~Holding /\ ~AppendElement
    BY <1>6, <1>7 DEF Holding
  <2>2. PICK f \in Frame : SetTop(f) /\ f.pendingHead = <<>>
    BY <1>1, <1>7, InsertedPending
  <2>3. QED
    BY <1>5, <1>7, <2>1, <2>2
<1>8. CASE AppendElement
  <2> DEFINE f == [Top EXCEPT !.pendingHead = <<>>, !.justConsumedComma = FALSE]
  <2>1. f \in Frame /\ f.pendingHead = <<>>
    BY <1>4, FrameTypes, EmptySeq DEF Frame, Text
  <2>2. SetTop(f)
    BY <1>8 DEF AppendElement
  <2> HIDE DEF f
  <2>3. ~Holding
    BY <1>6, <1>8 DEF Holding
  <2>4. QED
    BY <1>5, <1>8, <2>1, <2>2, <2>3
<1>9. CASE ParseKey
  <2> DEFINE f == [Top EXCEPT !.pendingHead = NonBlank(acc), !.key = Look.v, !.keyPos = At]
  <2>1. SetTop(f) /\ Sees({"str"})
    BY <1>9 DEF ParseKey
  <2>2. At > 0
    BY <2>1, Facts, EmptySeq DEF Sees, IInv, HeldToken, At
  <2>3. Look.v \in Keys
    BY <2>1, <2>2, TokenTypes DEF Sees, IInv
  <2>4. f \in Frame /\ f.pendingHead = NonBlank(acc)
    BY <1>4, <2>3, FrameTypes, Facts DEF Frame
  <2> HIDE DEF f
  <2>5. ~AppendElement /\ ~InsertMember
    BY <1>6, <1>9
  <2>6. QED
    BY <1>5, <1>9, <2>1, <2>4, <2>5 DEF Holding
<1>10. CASE ParseScalar \/ OpenContainer
  <2>1. stack'[m] = HoldHead[m]
    <3>1. CASE ParseScalar
      BY <3>1 DEF ParseScalar
    <3>2. CASE OpenContainer
      <4>1. HoldHead \in Seq(Frame) /\ NewFrame(Len(heap) + 1) \in Frame /\ Len(HoldHead) = Len(stack)
        BY HoldHeadType, NewFrameType, Facts
      <4>2. stack' = Append(HoldHead, NewFrame(Len(heap) + 1))
        BY <3>2 DEF OpenContainer
      <4>3. QED
        BY <4>1, <4>2, AppendProperties
    <3>3. QED
      BY <1>10, <3>1, <3>2
  <2>2. ~AppendElement /\ ~InsertMember
    BY <1>6, <1>10
  <2>3. ~ParseKey
    BY <1>10, Reads
  <2>4. QED
    BY <1>10, <2>1, <2>2, <2>3, HoldHeadWaits DEF Holding
<1>11. CASE ~(InsertMember \/ AppendElement \/ ParseKey \/ ParseScalar \/ OpenContainer)
  <2>1. stack'[m].pendingHead = stack[m].pendingHead
    <3>1. CASE ReturnContainer
      BY <3>1, FramesLeft
    <3>2. CASE Separator
      <4> DEFINE f == [Top EXCEPT !.justConsumedComma = TRUE]
      <4>1. f \in Frame /\ f.pendingHead = Top.pendingHead
        BY <1>4, FrameTypes DEF Frame
      <4>2. SetTop(f)
        BY <3>2 DEF Separator
      <4> HIDE DEF f
      <4>3. QED
        BY <1>5, <4>1, <4>2 DEF Top
    <3>3. CASE ~(ReturnContainer \/ Separator)
      <4>1. /\ Looking => UNCHANGED stack
            /\ CollectHeadComments => UNCHANGED stack
            /\ ConsumeTrailing => UNCHANGED stack
            /\ SkipDroppedComments => UNCHANGED stack
            /\ BeginRoot => UNCHANGED stack
            /\ CloseContainer => UNCHANGED stack
            /\ ParseColon => UNCHANGED stack
            /\ MakeMember => UNCHANGED stack
            /\ InlineComment => UNCHANGED stack
            /\ CloseAhead => UNCHANGED stack
            /\ AttachAfterComma => UNCHANGED stack
            /\ ReturnRoot => UNCHANGED stack
            /\ RootInline => UNCHANGED stack
            /\ Finish => UNCHANGED stack
        BY LookKeeps DEF CollectHeadComments, ConsumeTrailing, SkipDroppedComments, BeginRoot,
           CloseContainer, ParseColon, MakeMember, InlineComment, CloseAhead, AttachAfterComma, ReturnRoot,
           RootInline, Finish
      <4>2. pc' \notin {"error", "overNodes"}
        BY WorkingBefore
      <4>3. UNCHANGED stack
        BY <1>11, <3>3, <4>1, <4>2, Moves
      <4>4. QED
        BY <4>3
    <3>4. QED
      BY <3>1, <3>2, <3>3
  <2>2. QED
    BY <1>11, <2>1 DEF Holding
<1>12. QED
  BY <1>7, <1>8, <1>9, <1>10, <1>11

LEMMA HeadStays ==
  ASSUME IInv, [Next]_vars, NEW i \in 1..At, NEW q, IsHead(i, q)
  PROVE  IsHead(i, q)' /\ q \in 1..At
<1>1. Ahead(i, q) /\ q \in 1..At
  <2>1. Ahead(i, q) /\ q \in i..At /\ At \in Nat
    BY Facts DEF IsHead, Ahead
  <2>2. QED
    BY <2>1
<1>2. Ahead(i, q)'
  BY <1>1, SettledGrown
<1>3. SameToken(i) /\ SameToken(q)
  BY <1>1, TokensGrown
<1>4. ~Closes(input'[q])
  BY <1>3 DEF SameToken, IsHead, Closes
<1>5. PICK p : p = Before(input, i)
  OBVIOUS
<1>6. p # 0 => p \in 1..At
  <2>1. i \in Nat \ {0} /\ At \in Nat
    BY Facts
  <2>2. p \in 0..i - 1
    BY <1>5, <2>1, BeforeType
  <2>3. QED
    BY <2>1, <2>2
<1>7. Before(input', i) = p /\ (p # 0 => input'[p] = input[p])
  BY <1>3, <1>5, <1>6, TokensGrown DEF SameToken
<1>8. p = 0 \/ Opens(input'[p]) \/ (input'[p].k = "," /\ i # p + 1)
  BY <1>5, <1>7 DEF IsHead, Opens
<1>9. QED
  BY <1>1, <1>2, <1>4, <1>7, <1>8 DEF IsHead

\* Nothing but blanks is between what has been collected and the token ahead.
LEMMA CollectedAhead ==
  ASSUME IInv, Parsing, Working, Gathered, have, ~IsBlankSpace(Look), NEW i \in Range(acc)
  PROVE  /\ Entry(i) /\ Before(input, i) = Prior /\ ~Inlined(i) /\ Ahead(i, At)
         /\ i \in 1..At /\ i \in Nat \ {0} /\ Around(input, i) = Around(input, At)
<1>1. Entry(i) /\ Before(input, i) = Prior /\ ~Inlined(i)
  BY DEF Gathered
<1>2. PICK c \in Nat : c = Consumed
  BY ConsumedType
<1>3. PICK p : p = Prior
  OBVIOUS
<1>4. At = c + 1 /\ i \in 1..c /\ i \in Nat \ {0}
  BY <1>1, <1>2, PlacesAhead DEF Entry
<1>5. p \in 0..i - 1
  BY <1>1, <1>3, <1>4, BeforeType
<1>6. \A j \in p + 1..c : IsBlankSpace(input[j])
  <2>1. p = Before(input, c + 1)
    BY <1>2, <1>3 DEF Prior
  <2>2. QED
    BY <2>1, BlankRun
<1>7. \A j \in i..c : IsBlankSpace(input[j])
  <2>1. \A j \in i..c : j \in p + 1..c
    BY <1>4, <1>5
  <2>2. QED
    BY <1>6, <2>1
<1>8. Ahead(i, At)
  <2>1. At \in i..At /\ At - 1 = c
    BY <1>4
  <2>2. QED
    BY <1>7, <2>1 DEF Ahead, Look
<1>9. Around(input, i) = Around(input, At)
  <2>1. i <= c + 1
    BY <1>4
  <2>2. QED
    BY <1>4, <1>7, <2>1, AroundRun
<1>10. i \in 1..At
  BY <1>4
<1>11. QED
  BY <1>1, <1>4, <1>8, <1>9, <1>10

\* What has been collected is the head comment of the token ahead, when a
\* value or a key is read there.
LEMMA CollectedHead ==
  ASSUME IInv, Parsing, Working, Gathered, have, ~IsBlankSpace(Look), ~Closes(Look),
         pc = "lead" \/ (pc = "loop" /\ ~SeesClose), NEW i \in Range(acc)
  PROVE  IsHead(i, At) /\ Entry(i)
<1>1. Entry(i) /\ Before(input, i) = Prior /\ ~Inlined(i) /\ Ahead(i, At)
  BY CollectedAhead
<1>2. PICK p : p = Prior
  OBVIOUS
<1>3. p = 0 \/ Opens(input[p]) \/ (input[p].k = "," /\ i # p + 1)
  <2>1. CASE pc = "lead"
    BY <1>2, <2>1 DEF Parsing, Located, ValueAwaited
  <2>2. CASE pc = "loop"
    <3>1. stack # <<>> /\ (p = Opened[Len(stack)] \/ AfterComma)
      BY <1>2, <2>2 DEF Parsing, Located, CommaRead
    <3>2. CASE p = Opened[Len(stack)]
      <4>1. Live = Len(stack) /\ Len(stack) \in 1..Len(stack)
        BY <2>2, <3>1, TopOpened DEF Live
      <4>2. Nests(input, Consumed, Len(stack), Opened)
        <5>1. Nests(input, Consumed, Live, Opened)
          BY <2>2 DEF Parsing, Balanced
        <5>2. QED
          BY <4>1, <5>1
      <4>3. Consumed \in Nat /\ Len(stack) \in Nat
        BY ConsumedType, Facts
      <4>4. Opens(input[Opened[Len(stack)]])
        BY <4>1, <4>2, <4>3, NestsPlaces
      <4>5. QED
        BY <3>2, <4>4
    <3>3. CASE AfterComma
      <4>1. p # 0 /\ input[p].k = ","
        BY <1>2, <3>3 DEF AfterComma
      <4>2. i # p + 1
        BY <1>1, <1>2, <4>1 DEF Inlined
      <4>3. QED
        BY <4>1, <4>2
    <3>4. QED
      BY <3>1, <3>2, <3>3
  <2>3. QED
    BY <2>1, <2>2
<1>4. QED
  BY <1>1, <1>2, <1>3 DEF IsHead, Look

MemberPlaces == {"colon", "keyValue", "return", "insert"}
\* The innermost frame keeps a head comment only while its member or element is read.
Idle == Working => (stack # <<>> /\ pc \notin MemberPlaces => Top.pendingHead = <<>>)

LEMMA IdleNext ==
  ASSUME IInv, IInv', [Next]_vars, Idle
  PROVE  Idle'
<1> SUFFICES ASSUME Working', stack' # <<>>, pc' \notin MemberPlaces PROVE Top'.pendingHead = <<>>
  BY DEF Idle
<1>1. Working /\ pc' \notin {"error", "overNodes"}
  BY WorkingBefore
<1>2. Len(stack) \in Nat /\ Len(stack') \in Nat /\ Len(stack') \in 1..Len(stack')
  <2>1. Len(stack) \in Nat /\ Len(stack') \in Nat /\ Len(stack') # 0
    BY Facts, StackEmpty
  <2>2. QED
    BY <2>1
<1>3. PICK m : m = Len(stack')
  OBVIOUS
<1>4. m \in 1..Len(stack') /\ Top' = stack'[m]
  BY <1>2, <1>3 DEF Top
<1>5. /\ (m \in 1..Len(stack)
           /\ stack'[m].pendingHead = IF m = Len(stack) /\ Holding THEN NonBlank(acc)
                                      ELSE IF m = Len(stack) /\ (AppendElement \/ InsertMember) THEN <<>>
                                      ELSE stack[m].pendingHead)
      \/ (OpenContainer /\ m = Len(stack) + 1 /\ stack'[m].pendingHead = <<>>)
  BY <1>4, WaitsNext
<1>6. CASE OpenContainer
  <2>1. m = Len(stack) + 1
    <3>1. Len(stack') = Len(stack) + 1
      BY <1>6, FramesOpened
    <3>2. QED
      BY <1>3, <3>1
  <2>2. m \notin 1..Len(stack)
    BY <1>2, <2>1
  <2>3. QED
    BY <1>4, <1>5, <2>2
<1>7. CASE ~OpenContainer
  <2>1. pc' # "return" /\ ~ReturnContainer
    BY DEF MemberPlaces, ReturnContainer
  <2>2. m = Len(stack) /\ m \in 1..Len(stack)
    BY <1>3, <1>5, <1>7, <2>1, StackNext
  <2>3. ~Holding
    <3>1. (ParseKey => pc' = "colon") /\ (ParseScalar => pc' \in {"return", "overNodes"})
      BY DEF ParseKey, ParseScalar, BumpNodeCount
    <3>2. QED
      BY <1>1, <1>7, <2>1, <3>1 DEF Holding, MemberPlaces
  <2>4. CASE AppendElement \/ InsertMember
    BY <1>4, <1>5, <1>7, <2>2, <2>3, <2>4
  <2>5. CASE ~(AppendElement \/ InsertMember)
    <3>1. pc \notin MemberPlaces
      <4>1. ReturnRoot => UNCHANGED stack /\ stack = <<>>
        BY DEF ReturnRoot
      <4>2. ~ReturnRoot
        BY <4>1
      <4>3. pc' # "colon" /\ pc' # "keyValue" /\ pc' # "return" /\ pc' # "insert"
        BY DEF MemberPlaces
      <4>4. Looking => pc' = pc
        BY LookKeeps
      <4>5. QED
        BY <1>1, <1>7, <2>5, <4>2, <4>3, <4>4, Moves DEF MemberPlaces
    <3>2. stack # <<>>
      BY <1>2, <2>2, StackEmpty
    <3>3. stack[m].pendingHead = <<>>
      BY <1>1, <2>2, <3>1, <3>2 DEF Idle, Top
    <3>4. QED
      BY <1>4, <1>5, <1>7, <2>3, <2>5, <3>3
  <2>6. QED
    BY <2>4, <2>5
<1>8. QED
  BY <1>6, <1>7

\* Where the member or the element stands that a frame's head comment waits for.
HeadPos(m) ==
  IF heap[stack[m].node].kind = "object" THEN stack[m].keyPos
  ELSE IF m < Len(stack) THEN heap[stack[m + 1].node].pos ELSE heap[val].pos

LEMMA HeadPosNext ==
  ASSUME IInv, IInv', Indexed, Parsing, Lasts(heap, heap'), [Next]_vars, Matching, Rooted, Young, Idle, Working',
         NEW m \in 1..Len(stack), m \in 1..Len(stack'), stack[m].pendingHead # <<>>,
         ~(m = Len(stack) /\ Holding)
  PROVE  HeadPos(m)' = HeadPos(m)
<1>1. Working /\ pc' \notin {"error", "overNodes"} /\ Len(stack) \in Nat /\ Len(stack') \in Nat
  BY WorkingBefore, Facts
<1>2. /\ heap'[stack'[m].node].kind = heap[stack[m].node].kind
      /\ (ParseKey /\ m = Len(stack)) \/ stack'[m].keyPos = stack[m].keyPos
  BY FrameStays
<1>3. CASE heap[stack[m].node].kind = "object"
  BY <1>2, <1>3 DEF HeadPos, Holding
<1>4. CASE heap[stack[m].node].kind # "object" /\ m < Len(stack)
  <2>1. PICK o : o = m + 1
    OBVIOUS
  <2>2. o \in 1..Len(stack) /\ HeadPos(m) = heap[stack[o].node].pos
    <3>1. o \in 1..Len(stack)
      BY <1>1, <1>4, <2>1
    <3>2. QED
      BY <1>4, <2>1, <3>1 DEF HeadPos
  <2>3. CASE m < Len(stack')
    <3>1. o \in 1..Len(stack')
      BY <1>1, <2>1, <2>3
    <3>2. Opened'[o] = Opened[o]
      BY <2>2, <3>1, FrameStays
    <3>3. Opened[o] = heap[stack[o].node].pos /\ Opened'[o] = heap'[stack'[o].node].pos
      BY <2>2, <3>1 DEF Opened
    <3>4. HeadPos(m)' = heap'[stack'[o].node].pos
      BY <1>2, <1>4, <2>1, <2>3 DEF HeadPos
    <3>5. QED
      BY <2>2, <3>2, <3>3, <3>4
  <2>4. CASE ~(m < Len(stack'))
    <3>1. ReturnContainer /\ o = Len(stack)
      BY <1>1, <1>4, <2>1, <2>4, StackNext
    <3>2. val' = Top.node /\ stack[o] = Top
      BY <3>1, ValNext DEF Top
    <3>3. HeadPos(m)' = heap'[val'].pos
      BY <1>2, <1>4, <2>4 DEF HeadPos
    <3>4. Top.node \in 1..Len(heap)
      <4>1. stack # <<>>
        BY <1>1, StackEmpty
      <4>2. QED
        BY <4>1, TopOpened
    <3>5. heap'[Top.node].pos = heap[Top.node].pos
      BY <3>4, NodeStays
    <3>6. QED
      BY <2>2, <3>2, <3>3, <3>5
  <2>5. QED
    BY <2>3, <2>4
<1>5. CASE heap[stack[m].node].kind # "object" /\ ~(m < Len(stack))
  <2>1. m = Len(stack) /\ stack # <<>> /\ stack[m] = Top /\ ~InObject
    <3>1. m = Len(stack) /\ stack # <<>>
      BY <1>1, <1>5, StackEmpty
    <3>2. QED
      BY <1>5, <3>1 DEF InObject, Container, Top
  <2>2. pc \in {"return", "insert"}
    <3>1. pc \in MemberPlaces
      BY <1>1, <2>1 DEF Idle
    <3>2. pc \notin {"colon", "keyValue"}
      BY <1>1, <2>1 DEF Rooted
    <3>3. QED
      BY <3>1, <3>2 DEF MemberPlaces
  <2>3. ~ParseScalar /\ ~OpenContainer /\ ~ReturnContainer /\ ~MakeMember
    <3>1. /\ (ParseScalar \/ OpenContainer => pc \in {"value", "keyValue", "loop"})
          /\ (ReturnContainer => pc = "closed") /\ (MakeMember => InObject)
      BY DEF ParseScalar, OpenContainer, ReturnContainer, MakeMember, ExpectsValue
    <3>2. QED
      BY <2>1, <2>2, <3>1
  <2>4. val' = val /\ Len(stack') = Len(stack) /\ val \in 1..Len(heap)
    BY <1>1, <2>2, <2>3, ValNext, StackNext DEF Young
  <2>5. heap'[val].pos = heap[val].pos
    BY <2>4, NodeStays
  <2>6. QED
    BY <1>2, <1>5, <2>4, <2>5 DEF HeadPos
<1>6. QED
  BY <1>3, <1>4, <1>5

\* A waiting head comment stands before the member or the element it waits for.
HeadsHeld ==
  Working => \A m \in 1..Len(stack) :
    /\ Increasing(stack[m].pendingHead)
    /\ \A i \in Range(stack[m].pendingHead) : Entry(i) /\ IsHead(i, HeadPos(m))

LEMMA HeadsHeldNext ==
  ASSUME IInv, IInv', Indexed, Parsing, Lasts(heap, heap'), [Next]_vars, Matching, Rooted, Young, Gathered, Idle,
         HeadsHeld
  PROVE  HeadsHeld'
<1> SUFFICES ASSUME Working', NEW m \in 1..Len(stack')
             PROVE  /\ Increasing(stack'[m].pendingHead)
                    /\ \A i \in Range(stack'[m].pendingHead) : Entry(i)' /\ IsHead(i, HeadPos(m))'
  BY DEF HeadsHeld
<1>1. Working /\ pc' \notin {"error", "overNodes"} /\ Len(stack) \in Nat /\ Len(stack') \in Nat
  BY WorkingBefore, Facts
<1>2. CASE stack'[m].pendingHead = <<>>
  BY <1>2, IncreasingShort
<1>3. CASE stack'[m].pendingHead # <<>> /\ m = Len(stack) /\ Holding
  <2>1. m \in 1..Len(stack) /\ stack'[m].pendingHead = NonBlank(acc) /\ pc = "loop"
    <3>1. m \in 1..Len(stack)
      BY <1>1, <1>3
    <3>2. m # Len(stack) + 1
      BY <1>1, <1>3
    <3>3. pc = "loop"
      BY <1>3 DEF Holding, ParseKey
    <3>4. QED
      BY <1>3, <3>1, <3>2, <3>3, WaitsNext
  <2>2. stack'[m].pendingHead = acc
    BY <1>3, <2>1, NonBlankKept
  <2>3. have /\ UNCHANGED input /\ ~IsBlankSpace(Look) /\ At = Consumed + 1
    <3>1. ReadsToken
      BY <1>3 DEF Holding, ReadsToken
    <3>2. QED
      BY <3>1, Significant
  <2>4. ~Closes(Look)
    BY <1>3 DEF Holding, Closes, ParseKey, ParseScalar, OpenContainer, Sees, Scalars, Openers
  <2>5. ~SeesClose
    BY <2>4 DEF SeesClose, Sees, Closes
  <2>6. HeadPos(m)' = At
    <3>1. CASE ParseKey
      <4>1. InObject /\ stack'[Len(stack)].keyPos = At /\ UNCHANGED heap /\ stack'[Len(stack)].node = Top.node
        BY <3>1, KeyStep
      <4>2. heap'[stack'[m].node].kind = "object"
        BY <1>3, <4>1 DEF InObject, Container
      <4>3. QED
        BY <1>3, <4>1, <4>2 DEF HeadPos
    <3>2. CASE (ParseScalar \/ OpenContainer) /\ pc = "loop"
      <4>1. InArray
        BY <1>1, <3>2, ValueCalls
      <4>2. heap'[stack'[m].node].kind = "array"
        <5>1. heap[stack[m].node].kind = "array"
          BY <1>3, <4>1 DEF InArray, Container, Top
        <5>2. QED
          BY <2>1, <5>1, FrameStays
      <4>3. CASE ParseScalar
        <5>1. Len(stack') = Len(stack)
          BY <4>3, HoldHeadType DEF ParseScalar
        <5>2. val' = Len(heap) + 1
          BY <4>3, ValNext
        <5>3. heap'[Len(heap) + 1].pos = At
          <6>1. PICK x \in Node : heap' = Append(heap, x) /\ x.pos = At
            BY <4>3, Allocated
          <6>2. QED
            BY <6>1, Facts, AppendProperties
        <5>4. HeadPos(m)' = heap'[val'].pos
          <6>1. ~(m < Len(stack'))
            BY <1>1, <1>3, <5>1
          <6>2. QED
            BY <4>2, <6>1 DEF HeadPos
        <5>5. QED
          BY <5>2, <5>3, <5>4
      <4>4. CASE OpenContainer
        <5>1. Len(stack') = Len(stack) + 1 /\ stack'[Len(stack) + 1].node = Len(heap) + 1
          <6>1. Len(stack') = Len(stack) + 1 /\ stack'[Len(stack) + 1] = NewFrame(Len(heap) + 1)
            BY <4>4, FramesOpened
          <6>2. QED
            BY <6>1 DEF NewFrame
        <5>2. heap'[Len(heap) + 1].pos = At
          <6>1. PICK x \in Node : heap' = Append(heap, x) /\ x.pos = At
            BY <4>4, Allocated
          <6>2. QED
            BY <6>1, Facts, AppendProperties
        <5>3. HeadPos(m)' = heap'[stack'[m + 1].node].pos
          <6>1. m < Len(stack')
            BY <1>1, <1>3, <5>1
          <6>2. QED
            BY <4>2, <6>1 DEF HeadPos
        <5>4. QED
          BY <1>3, <5>1, <5>2, <5>3
      <4>5. QED
        BY <3>2, <4>3, <4>4
    <3>3. QED
      BY <1>3, <3>1, <3>2 DEF Holding
  <2>7. ASSUME NEW i \in Range(acc) PROVE Entry(i)' /\ IsHead(i, HeadPos(m))'
    <3>1. IsHead(i, At) /\ Entry(i)
      BY <1>1, <2>1, <2>3, <2>4, <2>5, CollectedHead
    <3>2. Entry(i)' /\ i \in 1..At
      BY <3>1, EntryStays
    <3>3. PICK q : q = At
      OBVIOUS
    <3>4. IsHead(i, q)'
      BY <3>1, <3>2, <3>3, HeadStays
    <3>5. QED
      BY <2>6, <3>2, <3>3, <3>4 DEF IsHead, Ahead
  <2>8. Increasing(acc)
    BY <1>1 DEF Gathered
  <2>9. QED
    BY <2>2, <2>7, <2>8
<1>4. CASE stack'[m].pendingHead # <<>> /\ ~(m = Len(stack) /\ Holding)
  <2>1. m \in 1..Len(stack) /\ stack'[m].pendingHead = stack[m].pendingHead
    BY <1>4, WaitsNext
  <2>2. HeadPos(m)' = HeadPos(m)
    BY <1>4, <2>1, HeadPosNext
  <2>3. PICK q : q = HeadPos(m)
    OBVIOUS
  <2>4. Increasing(stack[m].pendingHead) /\ \A i \in Range(stack[m].pendingHead) : Entry(i) /\ IsHead(i, q)
    BY <1>1, <2>1, <2>3 DEF HeadsHeld
  <2>5. ASSUME NEW i \in Range(stack[m].pendingHead) PROVE Entry(i)' /\ IsHead(i, HeadPos(m))'
    <3>1. Entry(i) /\ IsHead(i, q)
      BY <2>4
    <3>2. Entry(i)' /\ i \in 1..At
      BY <3>1, EntryStays
    <3>3. IsHead(i, q)'
      BY <3>1, <3>2, HeadStays
    <3>4. QED
      BY <2>2, <2>3, <3>2, <3>3 DEF IsHead, Ahead
  <2>6. QED
    BY <2>1, <2>4, <2>5
<1>5. QED
  BY <1>2, <1>3, <1>4

-----------------------------------------------------------------------------
(* The document's head comment. *)

\* The document's own head comment stands before the first value, once that is read.
LeadHeld ==
  Working =>
    /\ Increasing(lead)
    /\ pc = "lead" => lead = <<>>
    /\ \A i \in Range(lead) :
         Entry(i) /\ IF heap = <<>> THEN Closes(Look) \/ IsHead(i, At) ELSE IsHead(i, heap[1].pos)

LEMMA LeadHeldNext ==
  ASSUME IInv, IInv', Indexed, Parsing, Lasts(heap, heap'), [Next]_vars, Matching, Rooted, Gathered, LeadHeld
  PROVE  LeadHeld'
<1> SUFFICES ASSUME Working'
             PROVE  /\ Increasing(lead')
                    /\ pc' = "lead" => lead' = <<>>
                    /\ \A i \in Range(lead') :
                         Entry(i)' /\ IF heap' = <<>> THEN Closes(Look)' \/ IsHead(i, At)'
                                      ELSE IsHead(i, heap[1].pos)'
  BY DEF LeadHeld
<1>1. Working /\ pc' \notin {"error", "overNodes"} /\ heap \in Seq(Node) /\ Len(heap) \in Nat
  BY WorkingBefore, Facts
<1>2. CASE BeginRoot
  <2>1. /\ pc = "lead" /\ have /\ ~IsBlankSpace(Look) /\ lead' = NonBlank(acc) /\ pc' = "value"
        /\ UNCHANGED <<input, have, heap>>
    BY <1>2 DEF BeginRoot, IsBlankSpace, IsComment, Comments
  <2>2. heap = <<>> /\ Increasing(acc)
    BY <1>1, <2>1 DEF Rooted, Gathered
  <2>3. ASSUME NEW i \in Range(acc) PROVE Entry(i) /\ (Closes(Look) \/ IsHead(i, At))
    <3>1. Entry(i)
      BY <1>1, <2>1, CollectedAhead
    <3>2. QED
      BY <1>1, <2>1, <3>1, CollectedHead
  <2>4. ASSUME NEW i \in Range(acc) PROVE Entry(i)' /\ (Closes(Look)' \/ IsHead(i, At)')
    <3>1. Entry(i) /\ (Closes(Look) \/ IsHead(i, At))
      BY <2>3
    <3>2. Entry(i)' <=> Entry(i)
      BY <2>1 DEF Entry, Consumed, At
    <3>3. (Closes(Look)' <=> Closes(Look)) /\ (IsHead(i, At)' <=> IsHead(i, At))
      BY <2>1 DEF IsHead, Ahead, At, Look, Closes
    <3>4. QED
      BY <3>1, <3>2, <3>3
  <2>5. lead' = acc \/ lead' = <<>>
    BY <2>1, NonBlankKept
  <2>6. QED
    BY <2>1, <2>2, <2>4, <2>5, IncreasingShort
<1>3. CASE ~BeginRoot
  <2>1. UNCHANGED lead
    BY <1>3, LeadNext
  <2>2. pc' = "lead" => pc = "lead"
    <3>1. Looking => pc' = pc
      BY LookKeeps
    <3>2. QED
      BY <1>1, <1>3, <3>1, Moves
  <2>3. Increasing(lead) /\ (pc = "lead" => lead = <<>>)
    BY <1>1 DEF LeadHeld
  <2>4. ASSUME NEW i \in Range(lead)
        PROVE  Entry(i)' /\ IF heap' = <<>> THEN Closes(Look)' \/ IsHead(i, At)' ELSE IsHead(i, heap[1].pos)'
    <3>1. Entry(i) /\ IF heap = <<>> THEN Closes(Look) \/ IsHead(i, At) ELSE IsHead(i, heap[1].pos)
      BY <1>1 DEF LeadHeld
    <3>2. Entry(i)' /\ i \in 1..At
      BY <3>1, EntryStays
    <3>3. CASE heap = <<>>
      <4>1. pc = "value" /\ have
        <5>1. pc \in {"lead", "value"}
          BY <1>1, <3>3 DEF Rooted
        <5>2. lead # <<>>
          BY IncreasingShort
        <5>3. QED
          BY <2>3, <5>1, <5>2 DEF Parsing, Located, ValueAwaited
      <4>2. Looking \/ ParseScalar \/ OpenContainer
        BY <1>1, <4>1, Moves
      <4>3. CASE Looking
        <5>1. UNCHANGED <<input, have, heap>>
          <6>1. ~Scan
            BY <4>1 DEF Scan
          <6>2. QED
            BY <4>3, <6>1, LookKeeps
        <5>2. (Closes(Look)' <=> Closes(Look)) /\ (IsHead(i, At)' <=> IsHead(i, At))
          BY <5>1 DEF IsHead, Ahead, At, Look, Closes
        <5>3. QED
          BY <3>1, <3>2, <3>3, <5>1, <5>2
      <4>4. CASE ParseScalar \/ OpenContainer
        <5>1. ~Closes(Look)
          BY <4>4 DEF Closes, ParseScalar, OpenContainer, Scalars, Openers
        <5>2. PICK x \in Node : heap' = Append(heap, x) /\ x.pos = At
          BY <4>4, Allocated
        <5>3. heap' # <<>> /\ heap'[1].pos = At
          BY <1>1, <3>3, <5>2, AppendProperties
        <5>4. PICK q : q = At
          OBVIOUS
        <5>5. IsHead(i, q)'
          BY <3>1, <3>2, <3>3, <5>1, <5>4, HeadStays
        <5>6. QED
          BY <3>2, <5>3, <5>4, <5>5 DEF IsHead, Ahead
      <4>5. QED
        BY <4>2, <4>3, <4>4
    <3>4. CASE heap # <<>>
      <4>1. 1 \in 1..Len(heap)
        BY <1>1, <3>4, EmptySeq
      <4>2. 1 \in 1..Len(heap') /\ heap'[1].pos = heap[1].pos
        BY <1>1, <4>1, NodeStays
      <4>3. heap' # <<>>
        BY <4>2
      <4>4. PICK q : q = heap[1].pos
        OBVIOUS
      <4>5. IsHead(i, q)'
        BY <3>1, <3>2, <3>4, <4>4, HeadStays
      <4>6. QED
        BY <3>2, <4>2, <4>3, <4>4, <4>5 DEF IsHead, Ahead
    <3>5. QED
      BY <3>3, <3>4
  <2>5. QED
    BY <2>1, <2>2, <2>3, <2>4
<1>4. QED
  BY <1>2, <1>3

-----------------------------------------------------------------------------
(* The comments a step writes into a slot belong there. *)

LEMMA InlineIs ==
  ASSUME IInv, have, NEW i \in Range(Inline)
  PROVE  /\ i = At /\ IsComment(Look) /\ At = Consumed + 1 /\ Before(input, At) = Prior
         /\ At \in Nat \ {0} /\ Consumed \in Nat /\ Inline = <<At>>
<1>1. Inline # <<>>
  BY IncreasingShort
<1>2. Inline = NonBlank(<<At>>) /\ IsComment(Look)
  BY <1>1 DEF Inline, IsComment, Comments
<1>3. Inline = <<At>>
  BY <1>1, <1>2, OneComment
<1>4. i = At
  BY <1>3, IncreasingShort
<1>5. Consumed \in Nat /\ At \in Nat \ {0} /\ At = Consumed + 1
  BY ConsumedType DEF Consumed
<1>6. Before(input, At) = Prior
  BY <1>5 DEF Prior
<1>7. QED
  BY <1>2, <1>3, <1>4, <1>5, <1>6

LEMMA ClosingGiven ==
  ASSUME IInv, Parsing, Working, Gathered, CloseContainer \/ CloseAhead, NEW i \in Range(NonBlank(acc))
  PROVE  PlacedAt(i, heap[Top.node].pos, "footComment") /\ Entry(i)
<1>1. have /\ pc \in {"loop", "between"} /\ Closes(Look) /\ ~IsBlankSpace(Look) /\ stack # <<>>
  BY DEF CloseContainer, CloseAhead, AtClose, SeesClose, Sees, Closes, IsBlankSpace, IsComment, InObject, InArray
<1>2. i \in Range(acc)
  <2>1. NonBlank(acc) = acc \/ NonBlank(acc) = <<>>
    BY NonBlankKept
  <2>2. QED
    BY <2>1, IncreasingShort
<1>3. /\ Entry(i) /\ Before(input, i) = Prior /\ ~Inlined(i) /\ Ahead(i, At)
      /\ i \in Nat \ {0} /\ Around(input, i) = Around(input, At)
  BY <1>1, <1>2, CollectedAhead
<1>4. /\ Around(input, At) = Opened[Len(stack)] /\ Around(input, At) # 0
      /\ Opens(input[Opened[Len(stack)]]) /\ Opened[Len(stack)] = heap[Top.node].pos
  <2>1. /\ Around(input, At) = Opened[Len(stack)] /\ Around(input, At) # 0
        /\ input[Opened[Len(stack)]].k = IF InObject THEN "{" ELSE "["
    BY <1>1, AheadFacts
  <2>2. Opened[Len(stack)] = heap[Top.node].pos
    BY <1>1, TopOpened
  <2>3. QED
    BY <2>1, <2>2 DEF Opens
<1>5. Prior # 0 /\ (Opens(input[Prior]) \/ input[Prior].k = "," \/ EndsValue(input, Prior))
  <2>1. CASE pc = "loop"
    BY <1>4, <2>1 DEF Parsing, Located, CommaRead, AfterComma, AfterValue
  <2>2. CASE pc = "between"
    BY <2>2 DEF Parsing, Located, ValueRead, AfterValuePlaces, AfterValue
  <2>3. QED
    BY <1>1, <2>1, <2>2
<1>6. Hangs(i)
  BY <1>3, <1>5 DEF Hangs
<1>7. PICK q : q = At
  OBVIOUS
<1>8. PlacedAt(i, Around(input, i), "footComment")
  BY <1>1, <1>3, <1>4, <1>5, <1>6, <1>7, FootPlace DEF Look
<1>9. QED
  BY <1>3, <1>4, <1>8

LEMMA SeparatingGiven ==
  ASSUME IInv, Parsing, Working, Gathered, Young, Positioned, Separator, NEW i \in Range(NonBlank(acc))
  PROVE  PlacedAt(i, heap[Current].pos, "footComment") /\ Entry(i)
<1>1. have /\ pc = "between" /\ ~Closes(Look) /\ ~IsBlankSpace(Look)
  BY DEF Separator, Sees, Closes, IsBlankSpace, IsComment
<1>2. i \in Range(acc)
  <2>1. NonBlank(acc) = acc \/ NonBlank(acc) = <<>>
    BY NonBlankKept
  <2>2. QED
    BY <2>1, IncreasingShort
<1>3. /\ Entry(i) /\ Before(input, i) = Prior /\ ~Inlined(i) /\ Ahead(i, At)
      /\ i \in Nat \ {0} /\ Around(input, i) = Around(input, At)
  BY <1>1, <1>2, CollectedAhead
<1>4. Prior # 0 /\ EndsValue(input, Prior) /\ stack # <<>>
  BY <1>1 DEF Parsing, Located, ValueRead, AfterValuePlaces, AfterValue
<1>5. Around(input, At) # 0
  BY <1>1, <1>4, AheadFacts
<1>6. Owner(Prior) = heap[Current].pos
  BY <1>1 DEF Young, Positioned
<1>7. PICK q, p : q = At /\ p = Prior
  OBVIOUS
<1>8. PlacedAt(i, Owner(p), "footComment")
  BY <1>1, <1>3, <1>4, <1>5, <1>7, EndPlace DEF Look
<1>9. QED
  BY <1>3, <1>6, <1>7, <1>8

LEMMA FinishGiven ==
  ASSUME IInv, Parsing, Working, Gathered, Positioned, Finish, NEW i \in Range(NonBlank(acc))
  PROVE  PlacedAt(i, heap[val].pos, "trailComment") /\ Entry(i)
<1>1. have /\ pc = "trail" /\ ~IsBlankSpace(Look)
  BY DEF Finish, Sees, IsBlankSpace, IsComment
<1>2. i \in Range(acc)
  <2>1. NonBlank(acc) = acc \/ NonBlank(acc) = <<>>
    BY NonBlankKept
  <2>2. QED
    BY <2>1, IncreasingShort
<1>3. /\ Entry(i) /\ Before(input, i) = Prior /\ ~Inlined(i) /\ Ahead(i, At)
      /\ i \in Nat \ {0} /\ Around(input, i) = Around(input, At)
  BY <1>1, <1>2, CollectedAhead
<1>4. Prior # 0 /\ EndsValue(input, Prior) /\ stack = <<>>
  BY <1>1 DEF Parsing, Located, ValueRead, AfterValuePlaces, AfterValue
<1>5. Around(input, At) = 0
  BY <1>1, <1>4, AheadFacts
<1>6. Owner(Prior) = heap[val].pos
  BY <1>1 DEF Positioned
<1>7. PICK q, p : q = At /\ p = Prior
  OBVIOUS
<1>8. PlacedAt(i, Owner(p), "trailComment")
  BY <1>1, <1>3, <1>4, <1>5, <1>7, EndPlace
<1>9. QED
  BY <1>3, <1>6, <1>7, <1>8

LEMMA ReturnGiven ==
  ASSUME IInv, Parsing, Working, Edge, Positioned, ReturnContainer, NEW i \in Range(Inline)
  PROVE  PlacedAt(i, heap[Top.node].pos, "comment")
<1>1. have /\ pc = "closed"
  BY DEF ReturnContainer
<1>2. i = At /\ At = Consumed + 1 /\ Before(input, At) = Prior /\ At \in Nat \ {0}
  BY <1>1, InlineIs
<1>3. /\ Consumed = Prior /\ Closes(input[Prior]) /\ Prior # 0 /\ EndsValue(input, Prior)
      /\ StartOf(input, Prior) = heap[Top.node].pos
  BY <1>1 DEF Edge, Positioned, Parsing, Located, ValueRead, AfterValuePlaces, AfterValue
<1>4. PICK p : p = Prior
  OBVIOUS
<1>5. Inlined(i)
  BY <1>2, <1>3 DEF Inlined
<1>6. i = p + 1 /\ p = Before(input, i) /\ p # 0 /\ EndsValue(input, p) /\ Closes(input[p])
  BY <1>2, <1>3, <1>4
<1>7. i \in Nat \ {0}
  BY <1>2
<1>8. QED
  BY <1>3, <1>4, <1>5, <1>6, <1>7, InlinePlace

LEMMA InlineGiven ==
  ASSUME IInv, Parsing, Working, Edge, Young, Positioned, InlineComment \/ RootInline, NEW i \in Range(Inline)
  PROVE  PlacedAt(i, heap[val].pos, "comment")
<1>1. have /\ pc \in {"inline", "rootInline"}
  BY DEF InlineComment, RootInline
<1>2. /\ i = At /\ At = Consumed + 1 /\ Before(input, At) = Prior /\ At \in Nat \ {0} /\ IsComment(Look)
      /\ Consumed \in Nat
  BY <1>1, InlineIs
<1>3. /\ Prior # 0 /\ EndsValue(input, Prior) /\ Owner(Prior) = heap[val].pos
      /\ pc = "inline" => stack # <<>>
  BY <1>1 DEF Positioned, Parsing, Located, ValueRead, AfterValuePlaces, AfterValue
<1>4. PICK p : p = Prior
  OBVIOUS
<1>5. Untaken \/ (Taken /\ (Around(input, At) # 0 \/ ~IsText(Prior + 1)))
  <2>1. CASE pc = "inline"
    <3>1. Around(input, At) # 0
      BY <1>1, <1>3, <2>1, AheadFacts
    <3>2. QED
      BY <2>1, <3>1 DEF Edge
  <2>2. CASE pc = "rootInline"
    BY <2>2 DEF Edge
  <2>3. QED
    BY <1>1, <2>1, <2>2
<1>6. Inlined(i) /\ ~(Closes(input[p]) /\ i = p + 1)
  <2>1. CASE Untaken
    <3>1. Consumed = Prior /\ ~Closes(input[Prior])
      BY <1>2, <2>1 DEF Untaken
    <3>2. QED
      BY <1>2, <1>3, <1>4, <3>1 DEF Inlined
  <2>2. CASE Taken /\ (Around(input, At) # 0 \/ ~IsText(Prior + 1))
    <3>1. Closes(input[Prior]) /\ Consumed = Prior + 1 /\ IsComment(input[Prior + 1])
      BY <2>2 DEF Taken
    <3>2. PICK c : c = Consumed
      OBVIOUS
    <3>3. p \in 0..c /\ c \in Nat
      <4>1. p = Before(input, c + 1) /\ c \in Nat
        BY <1>2, <1>4, <3>2 DEF Prior
      <4>2. QED
        BY <4>1, BlankRun
    <3>4. i = p + 2
      BY <1>2, <1>4, <3>1, <3>2, <3>3
    <3>5. i # p + 1
      BY <3>3, <3>4
    <3>6. QED
      BY <1>2, <1>3, <1>4, <2>2, <3>1, <3>4, <3>5 DEF Inlined
  <2>3. QED
    BY <1>5, <2>1, <2>2
<1>7. i \in Nat \ {0} /\ p = Before(input, i) /\ p # 0 /\ EndsValue(input, p)
  BY <1>2, <1>3, <1>4
<1>8. QED
  BY <1>3, <1>4, <1>6, <1>7, InlinePlace

LEMMA CommaGiven ==
  ASSUME IInv, Parsing, Working, Edge, Young, Positioned, AttachAfterComma, NEW i \in Range(Inline),
         NEW slot \in {"comment", "footComment"}
  PROVE  PlacedAt(i, heap[Current].pos, slot)
<1>1. have /\ pc = "afterComma"
  BY DEF AttachAfterComma
<1>2. i = At /\ At = Consumed + 1 /\ Before(input, At) = Prior /\ At \in Nat \ {0}
  BY <1>1, InlineIs
<1>3. /\ Consumed = Prior /\ Prior # 0 /\ input[Prior].k = ","
      /\ Owner(Before(input, Prior)) = heap[val].pos /\ Current = val
  BY <1>1 DEF Edge, Young, Positioned, Parsing, Located, CommaRead, AfterComma
<1>4. PICK p : p = Prior
  OBVIOUS
<1>5. i = p + 1 /\ p = Before(input, i) /\ p # 0 /\ input[p].k = "," /\ i \in Nat \ {0}
  BY <1>2, <1>3, <1>4
<1>6. QED
  BY <1>3, <1>4, <1>5, CommaPlace

LEMMA HeadGiven ==
  ASSUME IInv, Parsing, Working, Rooted, HeadsHeld, LeadHeld
  PROVE  /\ AppendElement => \A i \in Range(Top.pendingHead) : PlacedAt(i, heap[val].pos, "headComment") /\ Entry(i)
         /\ MakeMember => \A i \in Range(Top.pendingHead) : PlacedAt(i, Top.keyPos, "headComment") /\ Entry(i)
         /\ ReturnRoot => \A i \in Range(lead) : PlacedAt(i, heap[val].pos, "headComment") /\ Entry(i)
<1>1. ASSUME NEW i, NEW q, Entry(i), IsHead(i, q) PROVE PlacedAt(i, q, "headComment")
  <2>1. i \in Nat \ {0}
    BY <1>1, Facts DEF Entry
  <2>2. QED
    BY <1>1, <2>1, HeadPlace
<1>2. stack # <<>> => Len(stack) \in 1..Len(stack) /\ stack[Len(stack)] = Top
  BY TopOpened
<1>3. stack # <<>> => \A i \in Range(Top.pendingHead) : Entry(i) /\ IsHead(i, HeadPos(Len(stack)))
  BY <1>2 DEF HeadsHeld
<1>4. CASE AppendElement
  <2>1. stack # <<>> /\ Container.kind = "array"
    BY <1>4 DEF AppendElement, InArray
  <2>2. HeadPos(Len(stack)) = heap[val].pos
    <3>1. Len(stack) \in Nat
      BY Facts
    <3>2. QED
      BY <1>2, <2>1, <3>1 DEF HeadPos, Container
  <2>3. ~MakeMember /\ ~ReturnRoot
    BY <2>1 DEF MakeMember, InObject, ReturnRoot
  <2>4. PICK q : q = heap[val].pos
    OBVIOUS
  <2>5. \A i \in Range(Top.pendingHead) : Entry(i) /\ IsHead(i, q)
    BY <1>3, <2>1, <2>2, <2>4
  <2>6. QED
    BY <1>1, <2>3, <2>4, <2>5
<1>5. CASE MakeMember
  <2>1. stack # <<>> /\ Container.kind = "object"
    BY <1>5 DEF MakeMember, InObject
  <2>2. HeadPos(Len(stack)) = Top.keyPos
    BY <1>2, <2>1 DEF HeadPos, Container
  <2>3. ~AppendElement /\ ~ReturnRoot
    BY <2>1 DEF AppendElement, InArray, ReturnRoot
  <2>4. PICK q : q = Top.keyPos
    OBVIOUS
  <2>5. \A i \in Range(Top.pendingHead) : Entry(i) /\ IsHead(i, q)
    BY <1>3, <2>1, <2>2, <2>4
  <2>6. QED
    BY <1>1, <2>3, <2>4, <2>5
<1>6. CASE ReturnRoot
  <2>1. pc = "return" /\ stack = <<>>
    BY <1>6 DEF ReturnRoot
  <2>2. val = 1 /\ heap # <<>>
    BY <2>1 DEF Rooted
  <2>3. ~AppendElement /\ ~MakeMember
    BY <2>1 DEF AppendElement, InArray, MakeMember, InObject
  <2>4. PICK q : q = heap[val].pos
    OBVIOUS
  <2>5. \A i \in Range(lead) : Entry(i) /\ IsHead(i, q)
    BY <2>2, <2>4 DEF LeadHeld
  <2>6. QED
    BY <1>1, <2>3, <2>4, <2>5
<1>7. QED
  BY <1>4, <1>5, <1>6

\* Which comments a step that writes a slot gives it.
LEMMA GivenIs ==
  /\ CloseContainer \/ CloseAhead \/ Separator \/ Finish => Given = NonBlank(acc)
  /\ AppendElement => Given = Top.pendingHead
  /\ ReturnRoot => Given = lead
  /\ ReturnContainer \/ InlineComment \/ RootInline \/ AttachAfterComma => Given = Inline
BY WritersApart DEF Given

\* The lookahead taken as a value's own comment.
TakenNow(i) == i = At /\ have /\ have' = FALSE /\ IsComment(Look) /\ At \in Nat \ {0}

LEMMA GivenPlaced ==
  ASSUME IInv, Parsing, Working, Rooted, Young, Positioned, Edge, Gathered, HeadsHeld, LeadHeld,
         NEW n \in 1..Len(heap), NEW slot \in Slots, Receives(n, slot), NEW i \in Range(Given)
  PROVE  PlacedAt(i, heap[n].pos, slot) /\ (Entry(i) \/ TakenNow(i)) /\ UNCHANGED input
<1>1. ASSUME have, TakeInline, i \in Range(Inline) PROVE TakenNow(i)
  <2>1. i = At /\ IsComment(Look) /\ At \in Nat \ {0}
    BY <1>1, InlineIs
  <2>2. have' = FALSE
    BY <1>1, <2>1 DEF TakeInline, IsComment, Comments
  <2>3. QED
    BY <1>1, <2>1, <2>2 DEF TakenNow
<1>2. CASE (CloseContainer \/ CloseAhead) /\ n = Top.node /\ slot = "footComment"
  <2>1. UNCHANGED input /\ i \in Range(NonBlank(acc))
    BY <1>2, GivenIs DEF CloseContainer, CloseAhead
  <2>2. QED
    BY <1>2, <2>1, ClosingGiven
<1>3. CASE Separator /\ n = Current /\ slot = "footComment"
  <2>1. UNCHANGED input /\ i \in Range(NonBlank(acc))
    BY <1>3, GivenIs DEF Separator
  <2>2. QED
    BY <1>3, <2>1, SeparatingGiven
<1>4. CASE ReturnContainer /\ n = Top.node /\ slot = "comment"
  <2>1. UNCHANGED input /\ i \in Range(Inline) /\ have /\ TakeInline
    BY <1>4, GivenIs DEF ReturnContainer
  <2>2. QED
    BY <1>1, <1>4, <2>1, ReturnGiven
<1>5. CASE AppendElement /\ n = val /\ slot = "headComment"
  <2>1. UNCHANGED input /\ i \in Range(Top.pendingHead)
    BY <1>5, GivenIs DEF AppendElement
  <2>2. QED
    BY <1>5, <2>1, HeadGiven
<1>6. CASE ReturnRoot /\ n = val /\ slot = "headComment"
  <2>1. UNCHANGED input /\ i \in Range(lead)
    BY <1>6, GivenIs DEF ReturnRoot
  <2>2. QED
    BY <1>6, <2>1, HeadGiven
<1>7. CASE InlineComment /\ Inline # <<>> /\ n = Current /\ slot = "comment"
  <2>1. UNCHANGED input /\ i \in Range(Inline) /\ have /\ TakeInline /\ pc = "inline"
    BY <1>7, GivenIs DEF InlineComment
  <2>2. Current = val
    BY <2>1 DEF Young
  <2>3. QED
    BY <1>1, <1>7, <2>1, <2>2, InlineGiven
<1>8. CASE RootInline /\ n = val /\ slot = "comment"
  <2>1. UNCHANGED input /\ i \in Range(Inline) /\ have /\ TakeInline
    BY <1>8, GivenIs DEF RootInline
  <2>2. QED
    BY <1>1, <1>8, <2>1, InlineGiven
<1>9. CASE AttachAfterComma /\ n = Current /\ slot = IF heap[n].comment = <<>> THEN "comment" ELSE "footComment"
  <2>1. UNCHANGED input /\ i \in Range(Inline) /\ have /\ TakeInline
    BY <1>9, GivenIs DEF AttachAfterComma
  <2>2. slot \in {"comment", "footComment"}
    BY <1>9
  <2>3. QED
    BY <1>1, <1>9, <2>1, <2>2, CommaGiven
<1>10. CASE Finish /\ n = val /\ slot = "trailComment"
  <2>1. UNCHANGED input /\ i \in Range(NonBlank(acc))
    BY <1>10, GivenIs DEF Finish
  <2>2. QED
    BY <1>10, <2>1, FinishGiven
<1>11. QED
  BY <1>2, <1>3, <1>4, <1>5, <1>6, <1>7, <1>8, <1>9, <1>10 DEF Receives

LEMMA PlacedStays ==
  ASSUME IInv, Parsing, [Next]_vars, NEW i, NEW pos, NEW slot, PlacedAt(i, pos, slot),
         Entry(i) \/ (UNCHANGED input /\ TakenNow(i))
  PROVE  PlacedAt(i, pos, slot)' /\ Entry(i)'
<1>1. CASE Entry(i)
  <2>1. i \in 1..Consumed /\ Entry(i)'
    BY <1>1, EntryStays
  <2>2. Settled(i) /\ <<pos, slot>> \in Places(i)
    BY DEF PlacedAt
  <2>3. Places(i)' = Places(i) /\ Settled(i)'
    BY <2>1, <2>2, PlacesGrown
  <2>4. QED
    BY <2>1, <2>2, <2>3 DEF PlacedAt
<1>2. CASE UNCHANGED input /\ TakenNow(i)
  <2>1. i \in 1..At /\ i = At /\ have' = FALSE /\ IsComment(input[At])
    BY <1>2 DEF TakenNow, Look
  <2>2. Consumed' = At /\ input'[i] = input[i]
    BY <1>2, <2>1 DEF Consumed, At
  <2>3. Entry(i)'
    BY <2>1, <2>2 DEF Entry
  <2>4. Settled(i)'
    BY <2>1, SettledGrown DEF PlacedAt
  <2>5. Places(i)' = Places(i)
    BY <1>2 DEF Places, BetweenKeyAndValue, Owner, IsText
  <2>6. QED
    BY <2>3, <2>4, <2>5 DEF PlacedAt
<1>3. QED
  BY <1>1, <1>2

\* A slot written has what it had and what it is given.
LEMMA WrittenRange ==
  ASSUME IInv, NEW n \in 1..Len(heap), NEW slot \in Slots, Receives(n, slot), NEW old, old = heap[n][slot]
  PROVE  /\ Given \in Seq(Nat) /\ old \in Seq(Nat)
         /\ slot # "comment" => Range(Written(old, slot)) = Range(old) \cup Range(Given)
<1>1. old \in Seq(Nat)
  <2>1. heap[n] \in Node
    BY Facts
  <2>2. QED
    BY <2>1 DEF Node, Text, Slots
<1>2. Given \in Seq(Nat)
  <2>1. NonBlank(acc) \in Seq(Nat) /\ Inline \in Seq(Nat) /\ lead \in Seq(Nat)
    BY NonBlankType, InlineType DEF IInv, TypeOK, ParserTypeOK, Text
  <2>2. stack # <<>> => Top.pendingHead \in Seq(Nat)
    <3>1. stack # <<>> => Top \in Frame
      BY TopOpened, Facts
    <3>2. QED
      BY <3>1 DEF Frame, Text
  <2>3. QED
    BY <2>1, <2>2 DEF Given
<1>3. Range(old \o Given) = Range(old) \cup Range(Given) /\ Range(Given \o old) = Range(old) \cup Range(Given)
  BY <1>1, <1>2, RangeJoined
<1>4. QED
  BY <1>1, <1>2, <1>3 DEF Written

\* Every comment kept in a slot is one already read, in a slot where it belongs.
SlotsPlaced ==
  Working =>
    \A n \in 1..Len(heap) : \A slot \in Slots :
      \A i \in Range(heap[n][slot]) : Entry(i) /\ PlacedAt(i, heap[n].pos, slot)

LEMMA SlotsPlacedNext ==
  ASSUME IInv, IInv', Indexed, Parsing, Lasts(heap, heap'), [Next]_vars, Matching, Rooted, Young, Positioned, Edge,
         Gathered, HeadsHeld, LeadHeld, SlotsPlaced
  PROVE  SlotsPlaced'
<1> SUFFICES ASSUME Working', NEW n \in 1..Len(heap'), NEW slot \in Slots, NEW i \in Range(heap'[n][slot])
             PROVE  Entry(i)' /\ PlacedAt(i, heap[n].pos, slot)'
  BY DEF SlotsPlaced, Slots
<1>1. Working /\ pc' \notin {"error", "overNodes"}
  BY WorkingBefore
<1>2. CASE n \in 1..Len(heap)
  <2>1. PICK old : old = heap[n][slot]
    OBVIOUS
  <2>2. PICK pos : pos = heap[n].pos /\ heap'[n].pos = pos
    BY <1>1, <1>2, NodeStays
  <2>3. \A j \in Range(old) : Entry(j) /\ PlacedAt(j, pos, slot)
    BY <1>1, <1>2, <2>1, <2>2 DEF SlotsPlaced
  <2>4. heap'[n][slot] = IF Receives(n, slot) THEN Written(old, slot) ELSE old
    BY <1>2, <2>1, SlotNext
  <2>5. PlacedAt(i, pos, slot) /\ (Entry(i) \/ (UNCHANGED input /\ TakenNow(i)))
    <3>1. CASE Receives(n, slot)
      <4>1. i \in Range(old) \/ i \in Range(Given)
        <5>1. CASE slot = "comment"
          BY <2>4, <3>1, <5>1 DEF Written
        <5>2. CASE slot # "comment"
          BY <1>2, <2>1, <2>4, <3>1, <5>2, WrittenRange
        <5>3. QED
          BY <5>1, <5>2
      <4>2. CASE i \in Range(old)
        BY <2>3, <4>2
      <4>3. CASE i \in Range(Given)
        BY <1>1, <1>2, <2>2, <3>1, <4>3, GivenPlaced
      <4>4. QED
        BY <4>1, <4>2, <4>3
    <3>2. CASE ~Receives(n, slot)
      BY <2>3, <2>4, <3>2
    <3>3. QED
      BY <3>1, <3>2
  <2>6. PlacedAt(i, pos, slot)' /\ Entry(i)'
    BY <2>5, PlacedStays
  <2>7. QED
    BY <2>2, <2>6 DEF PlacedAt
<1>3. CASE n \notin 1..Len(heap)
  <2>1. /\ n = Len(heap) + 1
        /\ heap'[n][slot] = IF MakeMember /\ slot = "headComment" THEN Top.pendingHead ELSE <<>>
    BY <1>3, NewSlots
  <2>2. MakeMember /\ slot = "headComment" /\ i \in Range(Top.pendingHead)
    BY <2>1, IncreasingShort
  <2>3. PICK pos : pos = Top.keyPos /\ heap'[n].pos = pos
    <3>1. heap' = Append(heap, Member) /\ Member.pos = Top.keyPos
      BY <2>2 DEF MakeMember, Member, NewNode
    <3>2. heap'[n] = Member
      BY <2>1, <3>1, Facts, AppendProperties
    <3>3. QED
      BY <3>1, <3>2
  <2>4. PlacedAt(i, pos, slot) /\ Entry(i)
    BY <1>1, <2>2, <2>3, HeadGiven
  <2>5. PlacedAt(i, pos, slot)' /\ Entry(i)'
    BY <2>4, PlacedStays
  <2>6. QED
    BY <2>3, <2>5 DEF PlacedAt
<1>4. QED
  BY <1>2, <1>3

-----------------------------------------------------------------------------
(* The comments of a slot are in order, and a node has one of its own. *)

\* What is being collected was read after all that a slot holds.
Later ==
  Working =>
    (pc # "done" =>
       \A i \in Range(acc) : \A n \in 1..Len(heap) : \A slot \in Slots :
         \A j \in Range(heap[n][slot]) : j < i)

\* No step writes a slot and goes on collecting.
LEMMA SlotsQuiet ==
  ASSUME IInv, IInv', [Next]_vars, Gathered, Working', pc' # "done", acc' # <<>>,
         NEW n \in 1..Len(heap'), NEW slot \in Slots
  PROVE  heap'[n][slot] = <<>> \/ (n \in 1..Len(heap) /\ heap'[n][slot] = heap[n][slot])
<1>1. Working /\ (pc \notin GatherPlaces => acc = <<>>)
  BY WorkingBefore DEF Gathered
<1>2. ~(CloseContainer \/ CloseAhead \/ Separator)
  BY DEF CloseContainer, CloseAhead, Separator
<1>3. ~(ReturnContainer \/ AppendElement \/ ReturnRoot \/ InlineComment \/ RootInline \/ AttachAfterComma \/ MakeMember)
  <2>1. ReturnContainer \/ AppendElement \/ ReturnRoot \/ InlineComment \/ RootInline \/ AttachAfterComma \/ MakeMember
          => acc' = acc /\ pc \in {"closed", "return", "inline", "rootInline", "afterComma"}
    <3>1. ReturnContainer => acc' = acc /\ pc = "closed"
      BY DEF ReturnContainer
    <3>2. AppendElement => acc' = acc /\ pc = "return"
      BY DEF AppendElement
    <3>3. ReturnRoot => acc' = acc /\ pc = "return"
      BY DEF ReturnRoot
    <3>4. InlineComment => acc' = acc /\ pc = "inline"
      BY DEF InlineComment
    <3>5. RootInline => acc' = acc /\ pc = "rootInline"
      BY DEF RootInline
    <3>6. AttachAfterComma => acc' = acc /\ pc = "afterComma"
      BY DEF AttachAfterComma
    <3>7. MakeMember => acc' = acc /\ pc = "return"
      BY DEF MakeMember
    <3>8. QED
      BY <3>1, <3>2, <3>3, <3>4, <3>5, <3>6, <3>7
  <2>2. QED
    BY <1>1, <2>1 DEF GatherPlaces
<1>4. ~Finish
  BY DEF Finish
<1>5. CASE n \in 1..Len(heap)
  BY <1>2, <1>3, <1>4, <1>5, UnwrittenSlots
<1>6. CASE n \notin 1..Len(heap)
  BY <1>3, <1>6, NewSlots
<1>7. QED
  BY <1>5, <1>6

LEMMA LaterNext ==
  ASSUME IInv, IInv', Parsing, [Next]_vars, Gathered, SlotsPlaced, Later
  PROVE  Later'
<1> SUFFICES ASSUME Working', pc' # "done", NEW i \in Range(acc'), NEW n \in 1..Len(heap'), NEW slot \in Slots,
                    NEW j \in Range(heap'[n][slot])
             PROVE  j < i
  BY DEF Later, Slots
<1>1. Working /\ pc' \notin {"error", "overNodes"}
  BY WorkingBefore
<1>2. n \in 1..Len(heap) /\ j \in Range(heap[n][slot])
  <2>1. acc' # <<>> /\ heap'[n][slot] # <<>>
    BY IncreasingShort
  <2>2. QED
    BY <2>1, SlotsQuiet
<1>3. Entry(j)
  BY <1>1, <1>2 DEF SlotsPlaced
<1>4. pc # "done"
  <2>1. Looking => pc' = pc
    BY LookKeeps
  <2>2. QED
    BY <1>1, <2>1, Moves
<1>5. CASE i \in Range(acc)
  BY <1>1, <1>2, <1>4, <1>5 DEF Later
<1>6. CASE i \notin Range(acc)
  <2>1. Collecting /\ acc' = Append(acc, At)
    <3>1. acc' # <<>>
      BY IncreasingShort
    <3>2. QED
      BY <1>6, <3>1, AccNext
  <2>2. have
    BY <2>1 DEF Collecting, CollectHeadComments, ConsumeTrailing, Sees
  <2>3. At \in Nat /\ acc \in Seq(Nat)
    BY Facts DEF IInv, TypeOK, ParserTypeOK, Text
  <2>4. i = At
    BY <1>6, <2>1, <2>3, RangeAppended
  <2>5. j \in 1..At - 1
    BY <1>3, <2>2 DEF Entry, Consumed
  <2>6. QED
    BY <2>3, <2>4, <2>5
<1>7. QED
  BY <1>5, <1>6

\* What a slot is given was read after what its node has, head comments apart.
LEMMA GivenLater ==
  ASSUME IInv, Working, SlotsPlaced, Later, NEW n \in 1..Len(heap), NEW slot \in Slots, Receives(n, slot),
         slot # "headComment", NEW i \in Range(Given), NEW other \in Slots, NEW j \in Range(heap[n][other])
  PROVE  j < i
<1>1. Entry(j)
  BY DEF SlotsPlaced
<1>2. CASE CloseContainer \/ CloseAhead \/ Separator \/ Finish
  <2>1. i \in Range(acc)
    <3>1. i \in Range(NonBlank(acc))
      BY <1>2, GivenIs
    <3>2. NonBlank(acc) = acc \/ NonBlank(acc) = <<>>
      BY NonBlankKept
    <3>3. QED
      BY <3>1, <3>2, IncreasingShort
  <2>2. pc # "done"
    BY <1>2, WritersApart
  <2>3. QED
    BY <2>1, <2>2 DEF Later
<1>3. CASE ReturnContainer \/ InlineComment \/ RootInline \/ AttachAfterComma
  <2>1. have /\ i \in Range(Inline)
    BY <1>3, GivenIs DEF ReturnContainer, InlineComment, RootInline, AttachAfterComma
  <2>2. i = At /\ At = Consumed + 1 /\ Consumed \in Nat
    BY <2>1, InlineIs
  <2>3. j \in 1..Consumed
    BY <1>1 DEF Entry
  <2>4. QED
    BY <2>2, <2>3
<1>4. CASE AppendElement \/ ReturnRoot
  <2>1. slot = "headComment"
    BY <1>4, WritersApart DEF Receives
  <2>2. QED
    BY <2>1
<1>5. QED
  BY <1>2, <1>3, <1>4 DEF Receives

LEMMA IdleHeap ==
  ASSUME [Next]_vars, ~Working
  PROVE  UNCHANGED heap
<1>1. pc \in {"error", "overNodes"}
  BY DEF Working
<1>2. CASE UNCHANGED vars
  BY <1>2 DEF vars, pvars
<1>3. CASE Next
  <2>1. Scan => UNCHANGED heap
    BY DEF Scan
  <2>2. OverNodes => UNCHANGED heap
    BY DEF OverNodes
  <2>3. Scan \/ OverNodes
    BY <1>1, <1>3 DEF Next, ParseValue, ParseScalar, OpenContainer, TooDeep, NotAValue,
      CollectHeadComments, SkipDroppedComments, StrictTrailingComma, CloseContainer, ReturnContainer,
      AppendElement, ParseKey, NotAKey, ParseColon, NotAColon, MakeMember, RefuseDuplicate, InsertMember,
      InlineComment, Separator, CloseAhead, NotASeparator, AttachAfterComma, BeginRoot, NoRoot, ReturnRoot,
      RootInline, ConsumeTrailing, Finish, ExtraData, ExpectsValue, AtClose
  <2>4. QED
    BY <2>1, <2>2, <2>3
<1>4. QED
  BY <1>2, <1>3

\* The comments joined in a slot keep their order in the text.
SlotsRise == \A n \in 1..Len(heap) : \A slot \in Slots : Increasing(heap[n][slot])

LEMMA GivenRises ==
  ASSUME IInv, Working, Gathered, HeadsHeld, LeadHeld, NEW n \in 1..Len(heap), NEW slot \in Slots, Receives(n, slot)
  PROVE  Increasing(Given)
<1>1. Increasing(acc) /\ Increasing(lead)
  BY DEF Gathered, LeadHeld
<1>2. Increasing(NonBlank(acc))
  BY <1>1, NonBlankKept, IncreasingShort
<1>3. Increasing(Inline)
  <2>1. Inline = <<>> \/ Inline = NonBlank(<<At>>)
    BY DEF Inline
  <2>2. QED
    BY <2>1, NonBlankKept, IncreasingShort
<1>4. stack # <<>> => Increasing(Top.pendingHead)
  <2>1. stack # <<>> => Len(stack) \in 1..Len(stack) /\ stack[Len(stack)] = Top
    BY TopOpened
  <2>2. QED
    BY <2>1 DEF HeadsHeld
<1>5. QED
  BY <1>1, <1>2, <1>3, <1>4 DEF Given

LEMMA SlotsRiseNext ==
  ASSUME IInv, IInv', [Next]_vars, Bare, Gathered, HeadsHeld, LeadHeld, SlotsPlaced, Later, SlotsRise
  PROVE  SlotsRise'
<1>1. CASE ~Working
  <2>1. UNCHANGED heap
    BY <1>1, IdleHeap
  <2>2. QED
    BY <2>1 DEF SlotsRise
<1>2. CASE Working
  <2> SUFFICES ASSUME NEW n \in 1..Len(heap'), NEW slot \in Slots PROVE Increasing(heap'[n][slot])
    BY DEF SlotsRise, Slots
  <2>1. CASE n \in 1..Len(heap)
    <3>1. PICK old : old = heap[n][slot]
      OBVIOUS
    <3>2. heap'[n][slot] = IF Receives(n, slot) THEN Written(old, slot) ELSE old
      BY <2>1, <3>1, SlotNext
    <3>3. Increasing(old)
      BY <2>1, <3>1 DEF SlotsRise
    <3>4. CASE Receives(n, slot)
      <4>1. Increasing(Given) /\ Given \in Seq(Nat) /\ old \in Seq(Nat)
        BY <1>2, <2>1, <3>1, <3>4, GivenRises, WrittenRange
      <4>2. CASE slot = "comment"
        BY <3>2, <3>4, <4>1, <4>2 DEF Written
      <4>3. CASE slot = "headComment"
        <5>1. pc = "return" /\ n = val
          BY <3>4, <4>3, WritersApart DEF Receives
        <5>2. old = <<>>
          BY <1>2, <3>1, <4>3, <5>1 DEF Bare
        <5>3. Written(old, slot) = Given
          BY <4>1, <4>3, <5>2 DEF Written
        <5>4. QED
          BY <3>2, <3>4, <4>1, <5>3
      <4>4. CASE slot # "comment" /\ slot # "headComment"
        <5>1. \A j \in Range(old) : \A i \in Range(Given) : j < i
          BY <1>2, <2>1, <3>1, <3>4, <4>4, GivenLater
        <5>2. ~ReturnRoot
          BY <3>4, <4>4, WritersApart DEF Receives
        <5>3. Written(old, slot) = old \o Given
          BY <4>4, <5>2 DEF Written
        <5>4. Increasing(old \o Given)
          BY <3>3, <4>1, <5>1, IncreasingJoined
        <5>5. QED
          BY <3>2, <3>4, <5>3, <5>4
      <4>5. QED
        BY <4>2, <4>3, <4>4
    <3>5. QED
      BY <3>2, <3>3, <3>4
  <2>2. CASE n \notin 1..Len(heap)
    <3>1. heap'[n][slot] = IF MakeMember /\ slot = "headComment" THEN Top.pendingHead ELSE <<>>
      BY <2>2, NewSlots
    <3>2. MakeMember => Increasing(Top.pendingHead)
      <4>1. MakeMember => stack # <<>>
        BY DEF MakeMember, InObject
      <4>2. stack # <<>> => Len(stack) \in 1..Len(stack) /\ stack[Len(stack)] = Top
        BY TopOpened
      <4>3. QED
        BY <1>2, <4>1, <4>2 DEF HeadsHeld
    <3>3. QED
      BY <3>1, <3>2, IncreasingShort
  <2>3. QED
    BY <2>1, <2>2
<1>3. QED
  BY <1>1, <1>2

\* A node has at most one own comment, and it is not among its foot comments.
Single ==
  Working =>
    \A n \in 1..Len(heap) :
      /\ heap[n].comment = <<>> \/ \E x \in Nat : heap[n].comment = <<x>>
      /\ \A i \in Range(heap[n].comment) : i \notin Range(heap[n].footComment)

LEMMA SingleNext ==
  ASSUME IInv, IInv', [Next]_vars, Gathered, SlotsPlaced, Later, Single
  PROVE  Single'
<1> SUFFICES ASSUME Working', NEW n \in 1..Len(heap')
             PROVE  /\ heap'[n].comment = <<>> \/ \E x \in Nat : heap'[n].comment = <<x>>
                    /\ \A i \in Range(heap'[n].comment) : i \notin Range(heap'[n].footComment)
  BY DEF Single
<1>1. Working
  BY WorkingBefore
<1>2. CASE n \in 1..Len(heap)
  <2>1. PICK own, foot : own = heap[n]["comment"] /\ foot = heap[n]["footComment"]
    OBVIOUS
  <2>2. "comment" \in Slots /\ "footComment" \in Slots
    BY DEF Slots
  <2>3. /\ own = <<>> \/ \E x \in Nat : own = <<x>>
        /\ \A i \in Range(own) : i \notin Range(foot)
        /\ own \in Seq(Nat) /\ foot \in Seq(Nat)
    <3>1. heap[n] \in Node
      BY <1>2, Facts
    <3>2. heap[n].comment \in Seq(Nat) /\ heap[n].footComment \in Seq(Nat)
      BY <3>1 DEF Node, Text
    <3>3. QED
      BY <1>1, <1>2, <2>1, <3>2 DEF Single
  <2>4. heap'[n]["comment"] = IF Receives(n, "comment") THEN Given ELSE own
    <3>1. heap'[n]["comment"] = IF Receives(n, "comment") THEN Written(own, "comment") ELSE own
      BY <1>2, <2>1, <2>2, SlotNext
    <3>2. QED
      BY <3>1 DEF Written
  <2>5. heap'[n]["footComment"] = IF Receives(n, "footComment") THEN Written(foot, "footComment") ELSE foot
    BY <1>2, <2>1, <2>2, SlotNext
  <2>6. ~(Receives(n, "comment") /\ Receives(n, "footComment"))
    BY WritersApart DEF Receives
  <2>7. Receives(n, "comment") => (Given = <<>> \/ \E x \in Nat : Given = <<x>>)
    <3>1. Receives(n, "comment") => ReturnContainer \/ InlineComment \/ RootInline \/ AttachAfterComma
      BY DEF Receives
    <3>2. Receives(n, "comment") => Given = Inline
      BY <3>1, GivenIs
    <3>3. Inline = <<>> \/ Inline = <<At>>
      BY NonBlankKept DEF Inline
    <3>4. At \in Nat
      BY Facts
    <3>5. QED
      BY <3>2, <3>3, <3>4
  <2>8. Receives(n, "comment") => \A i \in Range(Given) : i \notin Range(foot)
    <3>1. ASSUME Receives(n, "comment"), NEW i \in Range(Given), i \in Range(foot) PROVE FALSE
      <4>1. i < i
        BY <1>1, <1>2, <2>1, <2>2, <3>1, GivenLater
      <4>2. i \in Nat
        BY <2>3, <3>1 DEF Range
      <4>3. QED
        BY <4>1, <4>2
    <3>2. QED
      BY <3>1
  <2>9. Receives(n, "footComment") => \A i \in Range(own) : i \notin Range(Written(foot, "footComment"))
    <3>1. ASSUME Receives(n, "footComment"), NEW i \in Range(own), i \in Range(Written(foot, "footComment")) PROVE FALSE
      <4>1. i \in Range(foot) \/ i \in Range(Given)
        BY <1>2, <2>1, <2>2, <3>1, WrittenRange
      <4>2. i \in Range(Given)
        BY <2>3, <3>1, <4>1
      <4>3. i < i
        BY <1>1, <1>2, <2>1, <2>2, <3>1, <4>2, GivenLater
      <4>4. i \in Nat
        BY <2>3, <3>1 DEF Range
      <4>5. QED
        BY <4>3, <4>4
    <3>2. QED
      BY <3>1
  <2>10. QED
    BY <2>3, <2>4, <2>5, <2>6, <2>7, <2>8, <2>9
<1>3. CASE n \notin 1..Len(heap)
  <2>1. heap'[n]["comment"] = <<>>
    <3>1. "comment" \in Slots
      BY DEF Slots
    <3>2. QED
      BY <1>3, <3>1, NewSlots
  <2>2. QED
    BY <2>1, IncreasingShort
<1>4. QED
  BY <1>2, <1>3

-----------------------------------------------------------------------------
(* No comment is lost. *)

InSlot(i) == \E n \in 1..Len(heap) : \E slot \in Slots : i \in Range(heap[n][slot])
Waits(i) == i \in Range(acc) \/ i \in Range(lead) \/ \E m \in 1..Len(stack) : i \in Range(stack[m].pendingHead)
Lost(i) == Overwritten(i) /\ i < Consumed
Kept(i) == Waits(i) \/ InSlot(i) \/ BetweenKeyAndValue(i) \/ Lost(i)

LEMMA GivenKept ==
  ASSUME IInv, IInv', Lasts(heap, heap'), [Next]_vars, Matching, Working', NEW n \in 1..Len(heap), NEW slot \in Slots,
         Receives(n, slot), NEW i \in Range(Given)
  PROVE  InSlot(i)'
<1>1. PICK old : old = heap[n][slot]
  OBVIOUS
<1>2. heap'[n][slot] = Written(old, slot)
  BY <1>1, SlotNext
<1>3. i \in Range(Written(old, slot))
  <2>1. CASE slot = "comment"
    BY <2>1 DEF Written
  <2>2. CASE slot # "comment"
    BY <1>1, <2>2, WrittenRange
  <2>3. QED
    BY <2>1, <2>2
<1>4. n \in 1..Len(heap')
  BY NodeStays
<1>5. QED
  BY <1>2, <1>3, <1>4 DEF InSlot, Slots

LEMMA TextTaken ==
  ASSUME IInv, NEW i, IsText(i)
  PROVE  /\ i \in Range(acc) => NonBlank(acc) = acc
         /\ i = At => Inline = <<At>> /\ i \in Range(Inline)
<1>1. input[i].v # "blank"
  BY DEF IsText
<1>2. i \in Range(acc) => NonBlank(acc) = acc
  BY <1>1 DEF NonBlank, Range
<1>3. i = At => Inline = <<At>>
  <2>1. i = At => NonBlank(<<At>>) = <<At>>
    BY <1>1, OneComment
  <2>2. i = At => Look.k \in Comments
    BY DEF IsText, IsComment, Comments, Look
  <2>3. QED
    BY <2>1, <2>2 DEF Inline
<1>4. QED
  BY <1>2, <1>3, IncreasingShort

\* The steps that go past a comment.
LEMMA CommentTaken ==
  ASSUME [Next]_vars, Working', have, have' = FALSE, IsComment(Look)
  PROVE  \/ Collecting \/ SkipDroppedComments
         \/ ReturnContainer \/ InlineComment \/ RootInline \/ AttachAfterComma
<1>1. Working /\ pc' \notin {"error", "overNodes"}
  BY WorkingBefore
<1>2. Looking => UNCHANGED have
  <2>1. Looking => Scan \/ UNCHANGED have
    BY LookKeeps
  <2>2. QED
    BY <2>1 DEF Scan
<1>3. BeginRoot \/ MakeMember \/ InsertMember \/ AppendElement \/ CloseAhead \/ ReturnRoot \/ Finish => UNCHANGED have
  BY DEF BeginRoot, MakeMember, InsertMember, AppendElement, CloseAhead, ReturnRoot, Finish
<1>4. ~(ParseScalar \/ OpenContainer \/ CloseContainer \/ ParseKey \/ ParseColon \/ Separator)
  BY DEF ParseScalar, OpenContainer, CloseContainer, ParseKey, ParseColon, Separator, AtClose, SeesClose, Sees,
    IsComment, Scalars, Openers
<1>5. QED
  BY <1>1, <1>2, <1>3, <1>4, Moves DEF Collecting

LEMMA TakenKept ==
  ASSUME IInv, IInv', Parsing, Lasts(heap, heap'), [Next]_vars, Matching, Rooted, Young, Working',
         have, have' = FALSE, NEW i, i = At, IsText(i)
  PROVE  Kept(i)' /\ UNCHANGED input
<1>1. Working /\ IsComment(Look) /\ i \in Range(Inline) /\ IsBlankSpace(Look)
  BY WorkingBefore, TextTaken DEF IsText, Look, IsBlankSpace
<1>2. UNCHANGED input
  <2>1. ~ReadsToken
    BY <1>1, Significant
  <2>2. QED
    BY <2>1, QuietSteps
<1>3. CASE Collecting
  <2>1. acc' = Append(acc, At)
    BY <1>1, <1>3 DEF Collecting, CollectHeadComments, ConsumeTrailing, IsComment
  <2>2. At \in Nat /\ acc \in Seq(Nat)
    BY Facts DEF IInv, TypeOK, ParserTypeOK, Text
  <2>3. i \in Range(acc')
    BY <2>1, <2>2, RangeAppended
  <2>4. QED
    BY <1>2, <2>3 DEF Kept, Waits
<1>4. CASE SkipDroppedComments
  <2>1. pc \in {"colon", "keyValue"}
    BY <1>4 DEF SkipDroppedComments
  <2>2. BetweenKeyAndValue(At)
    BY <2>1, BetweenAhead DEF CommentPlaces
  <2>3. BetweenKeyAndValue(i)'
    BY <1>2, <2>2 DEF BetweenKeyAndValue
  <2>4. QED
    BY <1>2, <2>3 DEF Kept
<1>5. CASE ReturnContainer
  <2>1. stack # <<>>
    BY <1>5, FramesLeft
  <2>2. Top.node \in 1..Len(heap) /\ Receives(Top.node, "comment") /\ "comment" \in Slots /\ Given = Inline
    BY <1>5, <2>1, TopOpened, GivenIs DEF Receives, Slots
  <2>3. QED
    BY <1>1, <1>2, <2>2, GivenKept DEF Kept
<1>6. CASE InlineComment
  <2>1. pc = "inline" /\ Inline # <<>>
    BY <1>1, <1>6, IncreasingShort DEF InlineComment
  <2>2. Current \in 1..Len(heap) /\ Receives(Current, "comment") /\ "comment" \in Slots /\ Given = Inline
    BY <1>1, <1>6, <2>1, GivenIs DEF Young, Receives, Slots
  <2>3. QED
    BY <1>1, <1>2, <2>2, GivenKept DEF Kept
<1>7. CASE RootInline
  <2>1. pc = "rootInline" /\ val = 1 /\ heap # <<>>
    BY <1>1, <1>7 DEF RootInline, Rooted, Ending
  <2>2. val \in 1..Len(heap) /\ Receives(val, "comment") /\ "comment" \in Slots /\ Given = Inline
    BY <1>7, <2>1, GivenIs, Facts, EmptySeq DEF Receives, Slots
  <2>3. QED
    BY <1>1, <1>2, <2>2, GivenKept DEF Kept
<1>8. CASE AttachAfterComma
  <2>1. pc = "afterComma"
    BY <1>8 DEF AttachAfterComma
  <2>2. PICK slot \in Slots : slot = IF heap[Current].comment = <<>> THEN "comment" ELSE "footComment"
    BY DEF Slots
  <2>3. Current \in 1..Len(heap) /\ Receives(Current, slot) /\ Given = Inline
    BY <1>1, <1>8, <2>1, <2>2, GivenIs DEF Young, Receives
  <2>4. QED
    BY <1>1, <1>2, <2>3, GivenKept DEF Kept
<1>9. QED
  BY <1>1, <1>3, <1>4, <1>5, <1>6, <1>7, <1>8, CommentTaken

\* A comment being collected goes on waiting or into a slot.
LEMMA CollectedKept ==
  ASSUME IInv, IInv', Parsing, Lasts(heap, heap'), [Next]_vars, Matching, Rooted, Young, Gathered, Working',
         NEW i \in Range(acc), IsText(i)
  PROVE  (Waits(i) \/ InSlot(i))'
<1>1. Working /\ NonBlank(acc) = acc
  BY WorkingBefore, TextTaken
<1>2. pc \in GatherPlaces
  BY <1>1, IncreasingShort DEF Gathered
<1>3. CASE i \in Range(acc')
  BY <1>3 DEF Waits
<1>4. CASE i \notin Range(acc')
  <2>1. acc' # acc
    BY <1>4
  <2>2. ~Collecting
    <3>1. Collecting => acc' = acc \/ acc' = Append(acc, At)
      BY DEF Collecting, CollectHeadComments, ConsumeTrailing
    <3>2. At \in Nat /\ acc \in Seq(Nat)
      BY Facts DEF IInv, TypeOK, ParserTypeOK, Text
    <3>3. Range(Append(acc, At)) = Range(acc) \cup {At}
      BY <3>2, RangeAppended
    <3>4. QED
      BY <1>4, <2>1, <3>1, <3>3
  <2>3. ~Looking
    <3>1. Looking => acc' = acc
      BY LookKeeps
    <3>2. QED
      BY <2>1, <3>1
  <2>4. \/ BeginRoot \/ CloseContainer \/ Separator \/ CloseAhead
        \/ ParseKey \/ ((ParseScalar \/ OpenContainer) /\ pc = "loop")
    <3>1. SkipDroppedComments \/ ParseColon \/ MakeMember \/ InsertMember \/ Finish => acc' = acc
      BY DEF SkipDroppedComments, ParseColon, MakeMember, InsertMember, Finish
    <3>2. pc' \notin {"error", "overNodes"}
      BY WorkingBefore
    <3>3. QED
      BY <1>2, <2>1, <2>2, <2>3, <3>1, <3>2, Moves DEF Collecting, GatherPlaces
  <2>5. CASE BeginRoot
    BY <1>1, <2>5 DEF BeginRoot, Waits
  <2>6. CASE CloseContainer \/ CloseAhead
    <3>1. stack # <<>>
      BY <2>6 DEF CloseContainer, CloseAhead, AtClose, SeesClose, InObject, InArray
    <3>2. Top.node \in 1..Len(heap) /\ Receives(Top.node, "footComment") /\ "footComment" \in Slots /\ Given = acc
      BY <1>1, <2>6, <3>1, TopOpened, GivenIs DEF Receives, Slots
    <3>3. QED
      BY <3>2, GivenKept
  <2>7. CASE Separator
    <3>1. pc = "between"
      BY <2>7 DEF Separator
    <3>2. Current \in 1..Len(heap) /\ Receives(Current, "footComment") /\ "footComment" \in Slots /\ Given = acc
      BY <1>1, <2>7, <3>1, GivenIs DEF Young, Receives, Slots
    <3>3. QED
      BY <3>2, GivenKept
  <2>8. CASE ParseKey \/ ((ParseScalar \/ OpenContainer) /\ pc = "loop")
    <3>1. Holding /\ stack # <<>>
      <4>1. ParseKey => stack # <<>>
        BY DEF ParseKey, InObject
      <4>2. pc = "loop" => stack # <<>>
        BY DEF Parsing, Located, CommaRead
      <4>3. QED
        BY <2>8, <4>1, <4>2 DEF Holding
    <3>2. PICK m : m = Len(stack)
      OBVIOUS
    <3>3. m \in 1..Len(stack) /\ m \in 1..Len(stack')
      <4>1. ~ReturnContainer
        <5>1. ReturnContainer => pc = "closed"
          BY DEF ReturnContainer
        <5>2. Holding => pc = "loop"
          BY DEF Holding, ParseKey
        <5>3. QED
          BY <3>1, <5>1, <5>2
      <4>2. Len(stack) \in 1..Len(stack) /\ Len(stack) \in Nat
        BY <3>1, TopOpened, Facts
      <4>3. Len(stack') = Len(stack) \/ Len(stack') = Len(stack) + 1
        BY <4>1, StackNext
      <4>4. QED
        BY <3>2, <4>2, <4>3
    <3>4. m # Len(stack) + 1
      BY <3>2, <3>3
    <3>5. stack'[m].pendingHead = acc
      BY <1>1, <3>1, <3>2, <3>3, <3>4, WaitsNext
    <3>6. QED
      BY <3>3, <3>5 DEF Waits
  <2>9. QED
    BY <2>4, <2>5, <2>6, <2>7, <2>8
<1>5. QED
  BY <1>3, <1>4

\* A head comment that waits goes on waiting or to its member or element.
LEMMA WaitingKept ==
  ASSUME IInv, IInv', Lasts(heap, heap'), [Next]_vars, Matching, Young, Bare, Idle, Working',
         NEW m \in 1..Len(stack), NEW i \in Range(stack[m].pendingHead)
  PROVE  (Waits(i) \/ InSlot(i))'
<1>1. Working /\ Len(stack) \in Nat /\ stack # <<>> /\ Len(stack) \in 1..Len(stack) /\ stack[Len(stack)] = Top
  <2>1. stack # <<>>
    BY StackEmpty
  <2>2. QED
    BY <2>1, WorkingBefore, Facts, TopOpened
<1>2. m = Len(stack) => pc \in MemberPlaces
  BY <1>1, IncreasingShort DEF Idle
<1>3. ~(m = Len(stack) /\ (Holding \/ ReturnContainer))
  <2>1. ReturnContainer => pc = "closed"
    BY DEF ReturnContainer
  <2>2. Holding => pc = "loop"
    BY DEF Holding, ParseKey
  <2>3. QED
    BY <1>2, <2>1, <2>2 DEF MemberPlaces
<1>4. m \in 1..Len(stack')
  <2>1. /\ Len(stack) \in Nat
        /\ \/ Len(stack') = Len(stack) + 1
           \/ ReturnContainer /\ Len(stack') = Len(stack) - 1
           \/ Len(stack') = Len(stack)
    BY StackNext
  <2>2. QED
    BY <1>3, <2>1
<1>5. CASE m = Len(stack) /\ AppendElement
  <2>1. pc = "return"
    BY <1>5 DEF AppendElement
  <2>2. val \in 1..Len(heap) /\ Receives(val, "headComment") /\ "headComment" \in Slots /\ Given = Top.pendingHead
    BY <1>1, <1>5, <2>1, GivenIs DEF Young, Receives, Slots
  <2>3. i \in Range(Given)
    BY <1>1, <1>5, <2>2
  <2>4. QED
    BY <2>2, <2>3, GivenKept
<1>6. CASE m = Len(stack) /\ InsertMember
  <2>1. pc = "insert"
    BY <1>6 DEF InsertMember
  <2>2. val \in 1..Len(heap) /\ heap[val].headComment = Top.pendingHead
    BY <1>1, <2>1 DEF Young, Bare
  <2>3. ~AppendElement /\ ~ReturnRoot
    BY <2>1, WritersApart
  <2>4. heap'[val].headComment = heap[val].headComment /\ val \in 1..Len(heap')
    BY <2>2, <2>3, HeadNext, NodeStays
  <2>5. PICK n \in 1..Len(heap') : n = val
    BY <2>4
  <2>6. i \in Range(heap'[n]["headComment"]) /\ "headComment" \in Slots
    BY <1>1, <1>6, <2>2, <2>4, <2>5 DEF Slots
  <2>7. QED
    BY <2>6 DEF InSlot, Slots
<1>7. CASE ~(m = Len(stack) /\ (AppendElement \/ InsertMember))
  <2>1. m # Len(stack) + 1
    BY <1>1
  <2>2. stack'[m].pendingHead = stack[m].pendingHead
    BY <1>3, <1>4, <1>7, <2>1, WaitsNext
  <2>3. QED
    BY <1>4, <2>2 DEF Waits
<1>8. QED
  BY <1>5, <1>6, <1>7

\* The comment a second one on its line replaces is one parseArray overwrites.
LEMMA OverwrittenNow ==
  ASSUME IInv, Parsing, Working, Edge, InlineComment, Inline # <<>>, InArray, NEW i \in Range(Own)
  PROVE  Overwritten(i) /\ i = Consumed /\ have /\ UNCHANGED input /\ have' = FALSE /\ At = Consumed + 1
<1>1. have /\ pc = "inline" /\ TakeInline /\ UNCHANGED input
  BY DEF InlineComment
<1>2. Taken /\ i = Prior + 1
  <2>1. Own # <<>>
    BY IncreasingShort
  <2>2. Taken /\ Own = NonBlank(<<Prior + 1>>)
    BY <2>1 DEF Own
  <2>3. Own = <<Prior + 1>>
    BY <2>1, <2>2, OneComment
  <2>4. QED
    BY <2>2, <2>3, IncreasingShort
<1>3. Closes(input[Prior]) /\ Consumed = Prior + 1
  BY <1>2 DEF Taken
<1>4. At \in Range(Inline)
  <2>1. Inline = NonBlank(<<At>>)
    BY DEF Inline
  <2>2. QED
    BY <2>1, OneComment, IncreasingShort
<1>5. IsComment(Look) /\ At = Consumed + 1 /\ At \in Nat \ {0} /\ Consumed \in Nat
  BY <1>1, <1>4, InlineIs
<1>6. IsText(At)
  <2>1. Inline = NonBlank(<<At>>)
    BY DEF Inline
  <2>2. input[At].v # "blank"
    BY <2>1, OneComment
  <2>3. At \in 1..At
    BY <1>5
  <2>4. QED
    BY <1>5, <2>2, <2>3, TextOrBlank DEF Look
<1>7. Prior # 0
  BY <1>1 DEF Parsing, Located, ValueRead, AfterValuePlaces, AfterValue
<1>8. PICK c, p : c \in Nat /\ c = Consumed /\ p = Prior
  BY <1>5
<1>9. /\ p \in 0..c /\ \A j \in p + 1..c : IsBlankSpace(input[j])
      /\ \A j \in p + 1..c + 1 : Before(input, j) = p
  <2>1. p = Before(input, c + 1) /\ c \in Nat
    BY <1>8 DEF Prior
  <2>2. QED
    BY <2>1, BlankRun
<1>10. i = c /\ i = p + 1 /\ i \in Nat \ {0} /\ c = p + 1
  BY <1>2, <1>3, <1>8, <1>9
<1>11. Before(input, i) = p
  BY <1>9, <1>10
<1>12. Around(input, i) = Around(input, At)
  <2>1. i <= c + 1 /\ c \in Nat /\ \A j \in i..c : IsBlankSpace(input[j])
    BY <1>8, <1>9, <1>10
  <2>2. Around(input, i) = Around(input, c + 1)
    BY <1>10, <2>1, AroundRun
  <2>3. QED
    BY <1>5, <1>8, <2>2
<1>13. Within(input, i, "[")
  <2>1. Within(input, At, "[")
    BY <1>1, AheadFacts
  <2>2. QED
    BY <1>12, <2>1 DEF Within
<1>14. i + 1 = At /\ p = i - 1 /\ p # 0 /\ Closes(input[p])
  <2>1. i + 1 = c + 1 /\ p = i - 1
    BY <1>9, <1>10
  <2>2. p # 0 /\ Closes(input[p]) /\ At = c + 1
    BY <1>3, <1>5, <1>7, <1>8
  <2>3. QED
    BY <2>1, <2>2
<1>15. Overwritten(i)
  BY <1>6, <1>11, <1>13, <1>14 DEF Overwritten
<1>16. have' = FALSE
  BY <1>1, <1>5 DEF TakeInline, IsComment, Comments
<1>17. QED
  BY <1>1, <1>5, <1>8, <1>10, <1>15, <1>16

\* A comment in a slot stays, but for an overwritten one.
LEMMA SlottedKept ==
  ASSUME IInv, IInv', Parsing, Lasts(heap, heap'), [Next]_vars, Matching, Rooted, Young, Bare, Edge, Working',
         NEW n \in 1..Len(heap), NEW slot \in Slots, NEW i \in Range(heap[n][slot])
  PROVE  (InSlot(i) \/ Lost(i))'
<1>1. Working /\ n \in 1..Len(heap')
  BY WorkingBefore, NodeStays
<1>2. PICK old : old = heap[n][slot]
  OBVIOUS
<1>3. heap'[n][slot] = IF Receives(n, slot) THEN Written(old, slot) ELSE old
  BY <1>2, SlotNext
<1>4. CASE ~Receives(n, slot) \/ slot # "comment"
  <2>1. i \in Range(heap'[n][slot])
    <3>1. CASE ~Receives(n, slot)
      BY <1>2, <1>3, <3>1
    <3>2. CASE Receives(n, slot) /\ slot # "comment"
      <4>1. Range(Written(old, slot)) = Range(old) \cup Range(Given)
        BY <1>2, <3>2, WrittenRange
      <4>2. QED
        BY <1>2, <1>3, <3>2, <4>1
    <3>3. QED
      BY <1>4, <3>1, <3>2
  <2>2. QED
    BY <1>1, <2>1 DEF InSlot, Slots
<1>5. CASE Receives(n, slot) /\ slot = "comment"
  <2>1. i \in Range(heap[n].comment) /\ heap[n].comment # <<>>
    BY <1>5, IncreasingShort
  <2>2. ~(ReturnContainer /\ n = Top.node)
    <3>1. ReturnContainer => Len(stack) \in 1..Len(stack) /\ stack[Len(stack)] = Top
      BY TopOpened, FramesLeft
    <3>2. ReturnContainer => heap[Top.node].comment = <<>>
      BY <1>1, <3>1 DEF Bare
    <3>3. QED
      BY <2>1, <3>2
  <2>3. ~(RootInline /\ n = val)
    <3>1. RootInline => pc = "rootInline"
      BY DEF RootInline
    <3>2. QED
      BY <1>1, <2>1, <3>1 DEF Edge
  <2>4. InlineComment /\ Inline # <<>> /\ n = Current
    BY <1>5, <2>1, <2>2, <2>3 DEF Receives
  <2>5. pc = "inline" /\ n = val
    <3>1. pc = "inline"
      BY <2>4 DEF InlineComment
    <3>2. QED
      BY <1>1, <2>4, <3>1 DEF Young
  <2>6. InArray /\ i \in Range(Own)
    <3>1. heap[n].comment = IF InArray THEN Own ELSE <<>>
      BY <1>1, <2>5 DEF Edge
    <3>2. QED
      BY <2>1, <3>1
  <2>7. Overwritten(i) /\ i = Consumed /\ have /\ UNCHANGED input /\ have' = FALSE /\ At = Consumed + 1
    BY <1>1, <2>4, <2>6, OverwrittenNow
  <2>8. Overwritten(i)'
    BY <2>7 DEF Overwritten, IsText
  <2>9. i < Consumed'
    <3>1. Consumed' = At
      BY <2>7 DEF Consumed, At
    <3>2. Consumed \in Nat
      BY ConsumedType
    <3>3. QED
      BY <2>7, <3>1, <3>2
  <2>10. QED
    BY <2>8, <2>9 DEF Lost
<1>6. QED
  BY <1>4, <1>5

LEMMA LostKept ==
  ASSUME IInv, Parsing, [Next]_vars, NEW i \in 1..Consumed, IsText(i)
  PROVE  /\ BetweenKeyAndValue(i) => BetweenKeyAndValue(i)'
         /\ Lost(i) => Lost(i)'
<1>1. Entry(i) /\ Entry(i)' /\ SameToken(i) /\ i \in 1..At /\ At \in Nat
  <2>1. Entry(i)
    BY DEF Entry, IsText
  <2>2. QED
    BY <2>1, EntryStays, Facts
<1>2. BetweenKeyAndValue(i) => BetweenKeyAndValue(i)'
  <2>1. i \in Dropped \/ ~BetweenKeyAndValue(i)
    BY DEF Dropped, IsText
  <2>2. Dropped \subseteq Dropped'
    BY DroppedNext
  <2>3. i \in Dropped' => BetweenKeyAndValue(i)'
    BY DEF Dropped
  <2>4. QED
    BY <2>1, <2>2, <2>3
<1>3. ASSUME Lost(i) PROVE Lost(i)'
  <2>1. PICK p, r, q : p = Before(input, i) /\ r = i + 1 /\ q = Around(input, i)
    OBVIOUS
  <2>2. /\ p # 0 /\ p = i - 1 /\ Closes(input[p]) /\ q # 0 /\ input[q].k = "[" /\ IsText(r) /\ i < Consumed
    BY <1>3, <2>1 DEF Lost, Overwritten, Within
  <2>3. Consumed \in Nat
    BY ConsumedType
  <2>4. Entry(r) /\ p \in 1..At
    <3>1. r \in 1..Consumed /\ p \in 1..At
      BY <1>1, <2>1, <2>2, <2>3
    <3>2. QED
      BY <2>2, <3>1 DEF Entry, IsText
  <2>5. Entry(r)' /\ SameToken(r) /\ SameToken(p)
    BY <2>4, EntryStays, TokensGrown
  <2>6. q \in 1..At
    <3>1. i \in Nat \ {0} /\ q \in 0..i - 1
      BY <1>1, <2>1, AroundType
    <3>2. QED
      BY <1>1, <2>2, <3>1
  <2>7. SameToken(q)
    BY <2>6, TokensGrown
  <2>8. /\ Before(input', i) = p /\ Around(input', i) = q
        /\ input'[p] = input[p] /\ input'[q] = input[q] /\ input'[r] = input[r]
    BY <1>1, <2>1, <2>5, <2>7 DEF SameToken
  <2>9. IsText(r)'
    BY <2>2, <2>8 DEF IsText
  <2>10. Overwritten(i)'
    BY <2>1, <2>2, <2>8, <2>9 DEF Overwritten, Within
  <2>11. i < Consumed'
    <3>1. r \in 1..Consumed'
      BY <2>5 DEF Entry
    <3>2. Consumed' \in Nat
      <4>1. Consumed' = Consumed + 1 \/ Consumed' = Consumed
        BY ConsumedNext
      <4>2. QED
        BY <2>3, <4>1
    <3>3. QED
      BY <1>1, <2>1, <3>1, <3>2
  <2>12. QED
    BY <2>10, <2>11 DEF Lost
<1>4. QED
  BY <1>2, <1>3

\* No comment with text that is read gets lost, but between a key and its
\* value or overwritten.
KeptAll == Working => \A i \in 1..Consumed : IsText(i) => Kept(i)

LEMMA KeptAllNext ==
  ASSUME IInv, IInv', Indexed, Parsing, Lasts(heap, heap'), [Next]_vars, Matching, Rooted, Young, Bare, Edge,
         Gathered, Idle, LeadHeld, KeptAll
  PROVE  KeptAll'
<1> SUFFICES ASSUME Working', NEW i \in 1..Consumed', IsText(i)'
             PROVE  Kept(i)'
  BY DEF KeptAll
<1>1. Working
  BY WorkingBefore
<1>2. CASE i \in 1..Consumed
  <2>1. IsText(i)
    <3>1. i \in 1..At
      <4>1. At \in Nat
        BY Facts
      <4>2. QED
        BY <1>2, <4>1 DEF Consumed
    <3>2. SameToken(i)
      BY <3>1, TokensGrown
    <3>3. QED
      BY <3>2 DEF SameToken, IsText
  <2>2. Kept(i)
    BY <1>1, <1>2, <2>1 DEF KeptAll
  <2>3. CASE i \in Range(acc)
    BY <2>1, <2>3, CollectedKept DEF Kept
  <2>4. CASE i \in Range(lead)
    <3>1. UNCHANGED lead
      <4>1. BeginRoot => pc = "lead"
        BY DEF BeginRoot
      <4>2. pc # "lead"
        BY <1>1, <2>4, IncreasingShort DEF LeadHeld
      <4>3. QED
        BY <4>1, <4>2, LeadNext
    <3>2. QED
      BY <2>4, <3>1 DEF Kept, Waits
  <2>5. CASE \E m \in 1..Len(stack) : i \in Range(stack[m].pendingHead)
    BY <2>5, WaitingKept DEF Kept
  <2>6. CASE InSlot(i)
    <3>1. PICK n \in 1..Len(heap), slot \in Slots : i \in Range(heap[n][slot])
      BY <2>6 DEF InSlot
    <3>2. QED
      BY <3>1, SlottedKept DEF Kept
  <2>7. CASE BetweenKeyAndValue(i) \/ Lost(i)
    BY <1>2, <2>1, <2>7, LostKept DEF Kept
  <2>8. QED
    BY <2>2, <2>3, <2>4, <2>5, <2>6, <2>7 DEF Kept, Waits
<1>3. CASE i \notin 1..Consumed
  <2>1. have /\ have' = FALSE /\ i = At /\ At \in Nat \ {0}
    <3>1. Consumed \in Nat /\ At \in Nat
      BY ConsumedType, Facts
    <3>2. have /\ have' = FALSE /\ Consumed' = Consumed + 1 /\ At = Consumed + 1
      BY <1>3, ConsumedNext
    <3>3. QED
      BY <1>3, <3>1, <3>2
  <2>2. IsText(i)
    <3>1. i \in 1..At
      BY <2>1
    <3>2. SameToken(i)
      BY <3>1, TokensGrown
    <3>3. QED
      BY <3>2 DEF SameToken, IsText
  <2>3. QED
    BY <2>1, <2>2, TakenKept
<1>4. QED
  BY <1>2, <1>3

-----------------------------------------------------------------------------
(* The end of the parse. *)

\* After the value, what parseRoot and consumeTrailing collected is in its slots.
Settling ==
  Working =>
    /\ pc \in Ending => \A i \in Range(lead) : i \in Range(heap[val].headComment)
    /\ pc = "done" => \A i \in Range(acc) : IsText(i) => i \in Range(heap[val].trailComment)

LEMMA SettlingNext ==
  ASSUME IInv, IInv', Parsing, [Next]_vars, Rooted, Gathered, Settling
  PROVE  Settling'
<1> SUFFICES ASSUME Working', pc' \in Ending
             PROVE  /\ \A i \in Range(lead') : i \in Range(heap'[val'].headComment)
                    /\ pc' = "done" => \A i \in Range(acc') : IsText(i)' => i \in Range(heap'[val'].trailComment)
  BY DEF Settling, Ending
<1>1. Working /\ pc' \notin {"error", "overNodes"}
  BY WorkingBefore
<1>2. (Looking /\ pc' = pc) \/ ConsumeTrailing \/ ReturnRoot \/ RootInline \/ Finish
  <2>1. Looking => pc' = pc
    BY LookKeeps
  <2>2. QED
    BY <1>1, <2>1, Moves DEF Ending
<1>3. val \in 1..Len(heap) /\ heap[val] \in Node
  <2>1. pc \in Ending \/ (pc = "return" /\ stack = <<>>)
    <3>1. /\ (ConsumeTrailing => pc = "trail") /\ (RootInline => pc = "rootInline") /\ (Finish => pc = "trail")
          /\ (ReturnRoot => pc = "return" /\ stack = <<>>)
      BY DEF ConsumeTrailing, RootInline, Finish, ReturnRoot
    <3>2. QED
      BY <1>2, <3>1 DEF Ending
  <2>2. val = 1 /\ heap # <<>>
    BY <1>1, <2>1 DEF Rooted, Ending
  <2>3. QED
    BY <2>2, Facts, EmptySeq
<1>4. CASE Looking /\ pc' = pc
  <2>1. UNCHANGED <<heap, acc, val, lead, pc>>
    BY <1>4, LookKeeps
  <2>2. ASSUME NEW i \in Range(acc) PROVE IsText(i)' <=> IsText(i)
    <3>1. Entry(i)
      BY <1>1 DEF Gathered
    <3>2. SameToken(i)
      BY <3>1, EntryStays
    <3>3. QED
      BY <3>2 DEF SameToken, IsText
  <2>3. QED
    BY <1>1, <2>1, <2>2 DEF Settling
<1>5. CASE ConsumeTrailing
  <2>1. UNCHANGED <<heap, val, lead, pc>> /\ pc = "trail"
    BY <1>5 DEF ConsumeTrailing
  <2>2. QED
    BY <1>1, <2>1 DEF Settling, Ending
<1>6. CASE ReturnRoot
  <2>1. UNCHANGED <<val, lead>> /\ pc' # "done"
    BY <1>6 DEF ReturnRoot
  <2>2. Receives(val, "headComment") /\ "headComment" \in Slots /\ Given = lead
    BY <1>6, GivenIs DEF Receives, Slots
  <2>3. PICK old : old = heap[val]["headComment"]
    OBVIOUS
  <2>4. PICK n \in 1..Len(heap) : n = val
    BY <1>3
  <2>5. Receives(n, "headComment") /\ old = heap[n]["headComment"]
    BY <2>2, <2>3, <2>4
  <2>6. heap'[n]["headComment"] = Written(old, "headComment")
    BY <2>2, <2>5, SlotNext
  <2>7. Range(Written(old, "headComment")) = Range(old) \cup Range(Given)
    BY <2>2, <2>5, WrittenRange
  <2>8. heap'[val'].headComment = heap'[n]["headComment"]
    BY <2>1, <2>4
  <2>9. QED
    BY <2>1, <2>2, <2>6, <2>7, <2>8
<1>7. CASE RootInline
  <2>1. UNCHANGED <<val, lead>> /\ pc = "rootInline" /\ pc' = "trail"
    BY <1>7 DEF RootInline
  <2>2. heap'[val].headComment = heap[val].headComment
    BY <1>3, <2>1, HeadNext, WritersApart
  <2>3. QED
    BY <1>1, <2>1, <2>2 DEF Settling, Ending
<1>8. CASE Finish
  <2>1. UNCHANGED <<val, lead, acc, input>> /\ pc = "trail"
    BY <1>8 DEF Finish
  <2>2. heap'[val].headComment = heap[val].headComment
    BY <1>3, <2>1, HeadNext, WritersApart
  <2>3. Receives(val, "trailComment") /\ "trailComment" \in Slots /\ Given = NonBlank(acc)
    BY <1>8, GivenIs DEF Receives, Slots
  <2>4. PICK n \in 1..Len(heap) : n = val
    BY <1>3
  <2>5. PICK old : old = heap[n]["trailComment"]
    OBVIOUS
  <2>6. Receives(n, "trailComment")
    BY <2>3, <2>4
  <2>7. heap'[n]["trailComment"] = Written(old, "trailComment")
    BY <2>3, <2>5, <2>6, SlotNext
  <2>8. Range(Written(old, "trailComment")) = Range(old) \cup Range(Given)
    BY <2>3, <2>5, <2>6, WrittenRange
  <2>9. ASSUME NEW i \in Range(acc), IsText(i) PROVE i \in Range(heap'[val'].trailComment)
    <3>1. NonBlank(acc) = acc
      BY <2>9, TextTaken
    <3>2. heap'[val'].trailComment = heap'[n]["trailComment"]
      BY <2>1, <2>4
    <3>3. QED
      BY <2>3, <2>7, <2>8, <2>9, <3>1, <3>2
  <2>10. \A i : IsText(i)' <=> IsText(i)
    BY <2>1 DEF IsText
  <2>11. QED
    BY <1>1, <2>1, <2>2, <2>9, <2>10 DEF Settling, Ending
<1>9. QED
  BY <1>2, <1>4, <1>5, <1>6, <1>7, <1>8

\* What is around a closing delimiter's container is around what follows it.
Enclosed ==
  Working => \A p \in 1..Consumed : \A q :
    q = p + 1 /\ Closes(input[p]) /\ Around(input, q) # 0 =>
      Around(input, StartOf(input, p)) = Around(input, q)

LEMMA EnclosedNext ==
  ASSUME IInv, IInv', Parsing, Lasts(heap, heap'), [Next]_vars, Matching, Enclosed
  PROVE  Enclosed'
<1> SUFFICES ASSUME Working', NEW p \in 1..Consumed', NEW q, q = p + 1, Closes(input'[p]), Around(input', q) # 0
             PROVE  Around(input', StartOf(input', p)) = Around(input', q)
  BY DEF Enclosed
<1>1. Working /\ pc' \notin {"error", "overNodes"} /\ Consumed \in Nat /\ At \in Nat
  BY WorkingBefore, ConsumedType, Facts
<1>2. Agree(input, input', At)
  BY TextGrown
<1>3. p \in 1..At /\ q \in 1..At + 1 /\ p \in Nat \ {0}
  <2>1. (Consumed' = Consumed /\ Consumed <= At) \/ Consumed' = At
    <3>1. Consumed' = Consumed \/ (Consumed' = Consumed + 1 /\ At = Consumed + 1)
      BY ConsumedNext
    <3>2. Consumed <= At
      BY <1>1 DEF Consumed
    <3>3. QED
      BY <3>1, <3>2
  <2>2. p \in 1..At
    BY <1>1, <2>1
  <2>3. QED
    BY <1>1, <2>2
<1>4. input'[p] = input[p] /\ StartOf(input', p) = StartOf(input, p) /\ Around(input', q) = Around(input, q)
  BY <1>1, <1>2, <1>3, TokensGrown, AgreeAround DEF SameToken
<1>5. PICK o : o = StartOf(input, p)
  OBVIOUS
<1>6. o = Around(input, p) /\ o \in 0..p - 1
  BY <1>3, <1>4, <1>5, AroundType DEF StartOf, OpenerOf
<1>7. Around(input', o) = Around(input, o)
  <2>1. CASE o = 0
    <3>1. \A s : {j \in 1..0 - 1 : Opens(s[j]) /\ \A k \in j..0 - 1 : Surplus(s, j, k) > 0} = {}
      OBVIOUS
    <3>2. \A s : Around(s, 0) = 0
      BY <3>1, LargestEmpty DEF Around
    <3>3. QED
      BY <2>1, <3>2
  <2>2. CASE o # 0
    <3>1. o \in 1..At
      BY <1>1, <1>3, <1>6, <2>2
    <3>2. QED
      BY <3>1, TokensGrown DEF SameToken
  <2>3. QED
    BY <2>1, <2>2
<1>8. CASE p \in 1..Consumed
  BY <1>1, <1>4, <1>5, <1>7, <1>8 DEF Enclosed
<1>9. CASE p \notin 1..Consumed
  <2>1. have /\ have' = FALSE /\ p = At /\ At = Consumed + 1 /\ UNCHANGED input /\ Consumed' = At
    <3>1. have /\ have' = FALSE /\ Consumed' = Consumed + 1 /\ At = Consumed + 1 /\ UNCHANGED input
      BY <1>9, ConsumedNext
    <3>2. QED
      BY <1>1, <1>9, <3>1
  <2>2. Closes(Look)
    BY <1>4, <2>1 DEF Look
  <2>3. CloseContainer
    <3>1. ~IsBlankSpace(Look)
      BY <2>2 DEF Closes, IsBlankSpace, IsComment
    <3>2. ReadsToken
      BY <2>1, <3>1, QuietSteps
    <3>3. ~(ParseScalar \/ OpenContainer \/ ParseKey \/ ParseColon \/ Separator)
      BY <2>2 DEF Closes, ParseScalar, OpenContainer, ParseKey, ParseColon, Separator, Sees, Scalars, Openers
    <3>4. QED
      BY <3>2, <3>3 DEF ReadsToken
  <2>4. PICK n \in Nat : n = Len(stack)
    BY Facts
  <2>5. pc = "loop" /\ pc' = "closed" /\ stack # <<>> /\ UNCHANGED stack /\ n # 0
    <3>1. pc = "loop" /\ pc' = "closed" /\ stack # <<>> /\ UNCHANGED stack
      BY <2>3 DEF CloseContainer, AtClose, SeesClose, InObject, InArray
    <3>2. QED
      BY <2>4, <3>1, StackEmpty
  <2>6. o = Opened[n]
    <3>1. Around(input, At) = Opened[Len(stack)]
      BY <2>1, <2>5, AheadFacts
    <3>2. QED
      BY <1>6, <2>1, <2>4, <3>1
  <2>7. PICK m \in Nat : m = n - 1
    BY <2>4, <2>5
  <2>8. Around(input', q) = IF m = 0 THEN 0 ELSE Opened'[m]
    <3>1. Parsing'
      BY NextParsing
    <3>2. Live' = Len(stack) - 1
      BY <2>5 DEF Live
    <3>3. PICK s, c, P : s = input' /\ c = Consumed' /\ P = Opened'
      OBVIOUS
    <3>4. Nests(input', Consumed', Live', Opened')
      BY <1>1, <3>1 DEF Parsing, Balanced
    <3>5. Nests(s, c, m, P) /\ c \in Nat
      BY <1>1, <2>1, <2>4, <2>7, <3>2, <3>3, <3>4
    <3>6. Around(s, c + 1) = IF m = 0 THEN 0 ELSE P[m]
      BY <3>5, NestsAround
    <3>7. c + 1 = q
      BY <2>1, <3>3
    <3>8. QED
      BY <3>3, <3>6, <3>7
  <2>9. m # 0
    BY <2>8
  <2>10. m \in 1..Len(stack) /\ m < Len(stack) /\ m + 1 = n /\ m \in 1..Len(stack')
    BY <2>4, <2>5, <2>7, <2>9
  <2>11. Opened'[m] = Opened[m]
    BY <2>10, FrameStays
  <2>12. Fits(Opened[m + 1], m)
    BY <1>1, <2>10 DEF Matching, Building, Returned
  <2>13. Around(input, o) = Opened[m]
    BY <2>6, <2>10, <2>12 DEF Fits
  <2>14. QED
    BY <1>4, <1>5, <1>7, <2>8, <2>9, <2>11, <2>13
<1>10. QED
  BY <1>8, <1>9

\* The rules name one place, or the two slots an inline comment after a comma may go to.
LEMMA PlacesOne ==
  ASSUME NEW i \in Nat \ {0}, Settled(i), NEW o, NEW s, NEW a, NEW t, <<o, s>> \in Places(i), <<a, t>> \in Places(i)
  PROVE  o = a /\ (s = t \/ (s \in {"comment", "footComment"} /\ t \in {"comment", "footComment"}))
<1>1. PICK p : p = Before(input, i)
  OBVIOUS
<1>2. p = 0 \/ Opens(input[p]) \/ input[p].k = "," \/ EndsValue(input, p)
  <2>1. Inlined(i) => input[p].k = "," \/ EndsValue(input, p)
    BY <1>1 DEF Inlined, EndsValue
  <2>2. Hangs(i) => p = 0 \/ Opens(input[p]) \/ input[p].k = "," \/ EndsValue(input, p)
    BY <1>1 DEF Hangs
  <2>3. QED
    BY <2>1, <2>2 DEF Settled
<1>3. CASE p = 0
  <2>1. Places(i) = {<<After(input, i), "headComment">>}
    BY <1>1, <1>3 DEF Places
  <2>2. QED
    BY <2>1
<1>4. CASE p # 0 /\ input[p].k = "," /\ i = p + 1
  <2>1. ~BetweenKeyAndValue(i) /\ ~Opens(input[p]) /\ ~EndsValue(input, p)
    BY <1>1, <1>4, ArmsApart DEF BetweenKeyAndValue
  <2>2. PICK w : w = Owner(Before(input, p))
    OBVIOUS
  <2>3. Places(i) = {<<w, "comment">>, <<w, "footComment">>}
    BY <1>1, <1>4, <2>1, <2>2 DEF Places
  <2>4. QED
    BY <2>3
<1>5. CASE p # 0 /\ (Opens(input[p]) \/ (input[p].k = "," /\ i # p + 1))
  <2>1. ~BetweenKeyAndValue(i) /\ ~EndsValue(input, p) /\ ~(input[p].k = "," /\ i = p + 1)
    BY <1>1, <1>5, ArmsApart DEF BetweenKeyAndValue
  <2>2. PICK q, w : q = After(input, i) /\ w = Around(input, i)
    OBVIOUS
  <2>3. Places(i) = IF Closes(input[q]) THEN {<<w, "footComment">>} ELSE {<<q, "headComment">>}
    BY <1>1, <1>5, <2>1, <2>2 DEF Places
  <2>4. QED
    BY <2>3
<1>6. CASE p # 0 /\ EndsValue(input, p)
  <2>1. ~BetweenKeyAndValue(i) /\ ~Opens(input[p]) /\ input[p].k # ","
    BY <1>1, <1>6, ArmsApart DEF BetweenKeyAndValue
  <2>2. \E z, slot : Places(i) = {<<z, slot>>}
    BY <1>1, <1>6, <2>1 DEF Places
  <2>3. QED
    BY <2>2
<1>7. QED
  BY <1>2, <1>3, <1>4, <1>5, <1>6

LEMMA HeldIs ==
  ASSUME IInv, NEW i, NEW x
  PROVE  x \in Held(i) <=> \E n \in 1..Len(heap) : \E slot \in Slots :
                             x = <<heap[n].pos, slot>> /\ i \in Range(heap[n][slot])
<1>1. DOMAIN heap = 1..Len(heap)
  BY HeapSlots
<1>2. ASSUME x \in Held(i)
      PROVE  \E n \in 1..Len(heap) : \E slot \in Slots : x = <<heap[n].pos, slot>> /\ i \in Range(heap[n][slot])
  <2>1. PICK h \in (1..Len(heap)) \X Slots : i \in Range(heap[h[1]][h[2]]) /\ x = <<heap[h[1]].pos, h[2]>>
    BY <1>1, <1>2 DEF Held
  <2>2. h[1] \in 1..Len(heap) /\ h[2] \in Slots
    OBVIOUS
  <2>3. QED
    BY <2>1, <2>2
<1>3. ASSUME NEW n \in 1..Len(heap), NEW slot \in Slots, x = <<heap[n].pos, slot>>, i \in Range(heap[n][slot])
      PROVE  x \in Held(i)
  <2>1. PICK h : h = <<n, slot>>
    OBVIOUS
  <2>2. h \in (1..Len(heap)) \X Slots /\ h[1] = n /\ h[2] = slot
    BY <2>1
  <2>3. i \in Range(heap[h[1]][h[2]]) /\ x = <<heap[h[1]].pos, h[2]>>
    BY <1>3, <2>2
  <2>4. QED
    BY <1>1, <2>2, <2>3 DEF Held
<1>4. QED
  BY <1>2, <1>3

LEMMA HeldOnce ==
  ASSUME IInv, Working, Matching, SlotsPlaced, Single, NEW i, NEW x \in Held(i), NEW y \in Held(i)
  PROVE  x = y
<1>1. PICK n \in 1..Len(heap), s \in Slots : x = <<heap[n].pos, s>> /\ i \in Range(heap[n][s])
  BY HeldIs
<1>2. PICK m \in 1..Len(heap), t \in Slots : y = <<heap[m].pos, t>> /\ i \in Range(heap[m][t])
  BY HeldIs
<1>3. PICK o, a : o = heap[n].pos /\ a = heap[m].pos
  OBVIOUS
<1>4. Entry(i) /\ PlacedAt(i, o, s) /\ PlacedAt(i, a, t)
  BY <1>1, <1>2, <1>3 DEF SlotsPlaced
<1>5. i \in Nat \ {0} /\ Settled(i) /\ <<o, s>> \in Places(i) /\ <<a, t>> \in Places(i)
  BY <1>4, ConsumedType DEF Entry, PlacedAt
<1>6. o = a /\ (s = t \/ (s \in {"comment", "footComment"} /\ t \in {"comment", "footComment"}))
  BY <1>5, PlacesOne
<1>7. n = m
  BY <1>3, <1>6 DEF Matching, Sited, Apart
<1>8. s = t
  <2>1. SUFFICES ASSUME s # t PROVE FALSE
    OBVIOUS
  <2>2. i \in Range(heap[n].comment) /\ i \in Range(heap[n].footComment)
    BY <1>1, <1>2, <1>6, <1>7, <2>1
  <2>3. QED
    BY <2>2 DEF Single
<1>9. QED
  BY <1>1, <1>2, <1>7, <1>8

LEMMA HeldSome ==
  ASSUME IInv, Parsing, Accepted, Rooted, KeptAll, Settling, NEW i \in 1..Consumed, IsText(i),
         ~BetweenKeyAndValue(i), ~Lost(i)
  PROVE  InSlot(i)
<1>1. Working /\ stack = <<>> /\ Len(stack) = 0 /\ pc = "done"
  BY AtTheEnd
<1>2. val \in 1..Len(heap)
  <2>1. val = 1 /\ heap # <<>>
    BY <1>1 DEF Rooted, Ending
  <2>2. QED
    BY <2>1, Facts, EmptySeq
<1>3. PICK n \in 1..Len(heap) : n = val
  BY <1>2
<1>4. Waits(i) \/ InSlot(i)
  BY <1>1 DEF KeptAll, Kept
<1>5. CASE i \in Range(acc)
  <2>1. i \in Range(heap[n]["trailComment"]) /\ "trailComment" \in Slots
    BY <1>1, <1>3, <1>5 DEF Settling, Slots
  <2>2. QED
    BY <2>1 DEF InSlot
<1>6. CASE i \in Range(lead)
  <2>1. i \in Range(heap[n]["headComment"]) /\ "headComment" \in Slots
    BY <1>1, <1>3, <1>6 DEF Settling, Slots, Ending
  <2>2. QED
    BY <2>1 DEF InSlot
<1>7. QED
  BY <1>1, <1>4, <1>5, <1>6 DEF Waits

\* A comment that another replaced is in no slot.
LEMMA OverwrittenGone ==
  ASSUME IInv, Parsing, Accepted, Matching, Rooted, SlotsPlaced, Single, KeptAll, Settling, Enclosed,
         NEW i \in 1..Consumed, Overwritten(i), InSlot(i)
  PROVE  FALSE
<1>1. Working /\ Consumed \in Nat /\ At \in Nat
  BY AtTheEnd, ConsumedType, Facts
<1>2. PICK n \in 1..Len(heap), s \in Slots : i \in Range(heap[n][s])
  BY DEF InSlot
<1>3. PICK p, j, c : p = Before(input, i) /\ j = i + 1 /\ c = Consumed
  OBVIOUS
<1>4. p # 0 /\ p = i - 1 /\ Closes(input[p]) /\ Within(input, i, "[") /\ IsText(j) /\ IsComment(input[j])
  BY <1>3 DEF Overwritten, IsText
<1>5. i = p + 1 /\ j = p + 2 /\ i \in Nat \ {0} /\ j \in Nat \ {0} /\ p \in 1..c /\ c \in Nat
  <2>1. p \in 0..i - 1
    BY <1>1, <1>3, BeforeType
  <2>2. QED
    BY <1>1, <1>3, <1>4, <2>1
<1>6. Entry(i) /\ IsBlankSpace(input[i])
  BY <1>1, <1>2 DEF SlotsPlaced, Entry, IsBlankSpace
<1>7. EndsValue(input, p) /\ ~(input[p].k = ":" \/ IsKey(input, p)) /\ ~Opens(input[p]) /\ input[p].k # ","
  BY <1>4, ArmsApart DEF EndsValue
<1>8. Before(input, j) = p /\ Around(input, j) = Around(input, i)
  <2>1. Before(input, i + 1) = Before(input, i)
    <3>1. PICK r : r = Before(input, i + 1)
      OBVIOUS
    <3>2. r \in 0..i /\ (r # 0 => ~IsBlankSpace(input[r]))
      <4>1. i + 1 \in Nat \ {0} /\ (i + 1) - 1 = i
        BY <1>5
      <4>2. QED
        BY <3>1, <4>1, BeforeType
    <3>3. i \in r + 1..i + 1
      BY <1>5, <1>6, <3>2
    <3>4. QED
      BY <1>5, <3>1, <3>3, BlankRun
  <2>2. Around(input, i + 1) = Around(input, i)
    BY <1>5, <1>6, AroundBlank
  <2>3. QED
    BY <1>3, <2>1, <2>2
<1>9. PICK o, w : o = StartOf(input, p) /\ w = Around(input, i)
  OBVIOUS
<1>10. w # 0 /\ input[w].k = "["
  BY <1>4, <1>9 DEF Within
<1>11. Inlined(i) /\ Inlined(j)
  <2>1. IsComment(input[p + 1])
    BY <1>5, <1>6 DEF Entry
  <2>2. QED
    BY <1>3, <1>4, <1>5, <1>7, <1>8, <1>9, <1>10, <2>1 DEF Inlined
<1>12. <<o, "comment">> \in Places(i)
  <2>1. PlacedAt(i, o, "comment")
    BY <1>3, <1>4, <1>5, <1>7, <1>9, <1>11, InlinePlace
  <2>2. QED
    BY <2>1 DEF PlacedAt
<1>13. Owner(p) = o
  <2>1. Around(input, o) = w
    BY <1>1, <1>3, <1>4, <1>5, <1>9, <1>10 DEF Enclosed
  <2>2. ~Within(input, o, "{")
    BY <1>10, <2>1 DEF Within
  <2>3. ChildOf(input, o) = o
    BY <2>2, ElementPlace
  <2>4. QED
    BY <1>9, <2>3 DEF Owner
<1>14. <<o, "comment">> \in Places(j)
  <2>1. j # p + 1
    BY <1>5
  <2>2. PlacedAt(j, Owner(p), "comment")
    BY <1>5, <1>7, <1>8, <1>11, <1>4, <2>1, InlinePlace
  <2>3. QED
    BY <1>13, <2>2 DEF PlacedAt
<1>15. s = "comment" /\ heap[n].pos = o
  <2>1. PICK z : z = heap[n].pos
    OBVIOUS
  <2>2. <<z, s>> \in Places(i)
    BY <1>1, <1>2, <2>1 DEF SlotsPlaced, PlacedAt
  <2>3. Places(i) = {<<o, "comment">>}
    BY <1>3, <1>4, <1>5, <1>7, <1>9 DEF Places, BetweenKeyAndValue
  <2>4. QED
    BY <2>1, <2>2, <2>3
<1>16. j \in 1..Consumed
  <2>1. i < At
    <3>1. have => At = Consumed + 1
      BY <1>1 DEF Consumed
    <3>2. CASE have
      BY <1>1, <3>1, <3>2
    <3>3. CASE ~have
      <4>1. Look.k = "eof" /\ Consumed = At
        BY <3>3 DEF Parsing, Located, LanguageExact, Consumed
      <4>2. i # At
        BY <1>6, <4>1 DEF Entry, IsComment, Look
      <4>3. QED
        BY <1>1, <4>1, <4>2
    <3>4. QED
      BY <3>2, <3>3
  <2>2. j \in 1..At
    BY <1>1, <1>3, <1>5, <2>1
  <2>3. Look.k = "eof"
    BY DEF Parsing, Located, LanguageExact
  <2>4. j # At
    BY <1>4, <2>3 DEF IsComment, Look
  <2>5. At - 1 <= Consumed
    BY <1>1 DEF Consumed
  <2>6. QED
    BY <1>1, <1>5, <2>2, <2>4, <2>5
<1>17. InSlot(j)
  <2>1. ~BetweenKeyAndValue(j)
    BY <1>7, <1>8 DEF BetweenKeyAndValue
  <2>2. ~Lost(j)
    <3>1. p # j - 1
      BY <1>5
    <3>2. QED
      BY <1>8, <3>1 DEF Lost, Overwritten
  <2>3. QED
    BY <1>4, <1>16, <2>1, <2>2, HeldSome
<1>18. PICK m \in 1..Len(heap), t \in Slots : j \in Range(heap[m][t])
  BY <1>17 DEF InSlot
<1>19. t = "comment" /\ heap[m].pos = o
  <2>1. PICK z : z = heap[m].pos
    OBVIOUS
  <2>2. <<z, t>> \in Places(j) /\ Settled(j)
    BY <1>1, <1>18, <2>1 DEF SlotsPlaced, PlacedAt
  <2>3. Places(j) = {<<o, "comment">>}
    <3>1. j # p + 1 /\ IsComment(input[p + 1])
      BY <1>5, <1>6 DEF Entry
    <3>2. QED
      BY <1>4, <1>5, <1>7, <1>8, <1>9, <1>10, <1>13, <3>1 DEF Places, BetweenKeyAndValue
  <2>4. QED
    BY <2>1, <2>2, <2>3
<1>20. m = n
  BY <1>1, <1>15, <1>19 DEF Matching, Sited, Apart
<1>21. i \in Range(heap[n].comment) /\ j \in Range(heap[n].comment)
  BY <1>2, <1>15, <1>18, <1>19, <1>20
<1>22. i # j
  BY <1>3, <1>5
<1>23. heap[n].comment = <<>> \/ \E x \in Nat : heap[n].comment = <<x>>
  BY <1>1 DEF Single
<1>24. PICK own : own = heap[n].comment
  OBVIOUS
<1>25. CASE own = <<>>
  BY <1>21, <1>24, <1>25, IncreasingShort
<1>26. CASE \E x \in Nat : own = <<x>>
  <2>1. PICK x \in Nat : own = <<x>>
    BY <1>26
  <2>2. Range(own) = {x}
    BY <2>1, IncreasingShort
  <2>3. QED
    BY <1>21, <1>22, <1>24, <2>2
<1>27. QED
  BY <1>23, <1>24, <1>25, <1>26

\* What the parser keeps of the comments while it reads.
Associating ==
  /\ Rooted /\ Young /\ Positioned /\ Bare /\ Edge /\ NextInline
  /\ Gathered /\ Idle /\ HeadsHeld /\ LeadHeld
  /\ SlotsPlaced /\ Later /\ SlotsRise /\ Single
  /\ KeptAll /\ Settling /\ Enclosed

LEMMA CommentsFollow ==
  ASSUME IInv, Parsing, Matching, Associating
  PROVE  CommentsWhereRulesSay
<1>1. DOMAIN heap = 1..Len(heap)
  BY HeapSlots
<1>2. ASSUME Accepted, NEW i \in TextComments
      PROVE  /\ Held(i) \subseteq Places(i)
             /\ Cardinality(Held(i)) = IF BetweenKeyAndValue(i) \/ Overwritten(i) THEN 0 ELSE 1
  <2>1. Working /\ At \in Nat
    BY <1>2, AtTheEnd, Facts
  <2>2. IsText(i) /\ i \in 1..Consumed
    <3>1. IsText(i) /\ i \in 1..At
      BY <1>2 DEF TextComments
    <3>2. Look.k = "eof"
      BY <1>2 DEF Parsing, Located, LanguageExact
    <3>3. i # At
      BY <3>1, <3>2 DEF IsText, IsComment, Look
    <3>4. Consumed = At \/ Consumed = At - 1
      BY DEF Consumed
    <3>5. QED
      BY <2>1, <3>1, <3>3, <3>4
  <2>3. ASSUME NEW x \in Held(i) PROVE x \in Places(i) /\ InSlot(i)
    <3>1. PICK n \in 1..Len(heap), s \in Slots : x = <<heap[n].pos, s>> /\ i \in Range(heap[n][s])
      BY HeldIs
    <3>2. PlacedAt(i, heap[n].pos, s)
      BY <2>1, <3>1 DEF Associating, SlotsPlaced
    <3>3. QED
      BY <3>1, <3>2 DEF PlacedAt, InSlot
  <2>4. CASE BetweenKeyAndValue(i)
    <3>1. Places(i) = {}
      <4>1. PICK p : p = Before(input, i)
        OBVIOUS
      <4>2. p # 0 /\ (input[p].k = ":" \/ IsKey(input, p))
        BY <2>4, <4>1 DEF BetweenKeyAndValue
      <4>3. ~Opens(input[p]) /\ input[p].k # "," /\ ~EndsValue(input, p)
        BY <4>2, ArmsApart
      <4>4. QED
        BY <2>4, <4>1, <4>2, <4>3 DEF Places
    <3>2. Held(i) = {}
      BY <2>3, <3>1
    <3>3. QED
      BY <2>4, <3>2, FS_EmptySet
  <2>5. CASE Overwritten(i)
    <3>1. ~InSlot(i)
      BY <1>2, <2>2, <2>5, OverwrittenGone DEF Associating
    <3>2. Held(i) = {}
      BY <2>3, <3>1
    <3>3. QED
      BY <2>5, <3>2, FS_EmptySet
  <2>6. CASE ~BetweenKeyAndValue(i) /\ ~Overwritten(i)
    <3>1. InSlot(i)
      BY <1>2, <2>2, <2>6, HeldSome DEF Associating, Lost
    <3>2. PICK x : x \in Held(i)
      BY <3>1, HeldIs DEF InSlot
    <3>3. \A y \in Held(i) : y = x
      BY <2>1, <3>2, HeldOnce DEF Associating
    <3>4. Held(i) = {x}
      BY <3>2, <3>3
    <3>5. QED
      BY <2>3, <2>6, <3>4, FS_Singleton
  <2>7. QED
    BY <2>4, <2>5, <2>6
<1>3. \A n \in DOMAIN heap : \A slot \in Slots : Increasing(heap[n][slot])
  BY <1>1 DEF Associating, SlotsRise
<1>4. QED
  BY <1>2, <1>3 DEF CommentsWhereRulesSay, Increasing

-----------------------------------------------------------------------------
(* The theorem. *)

LEMMA InitAssociating == ASSUME Init PROVE Associating
<1>1. /\ heap = <<>> /\ stack = <<>> /\ input = <<>> /\ have = FALSE /\ pc = "lead" /\ acc = <<>> /\ lead = <<>>
  BY DEF Init, ParserInit
<1>2. Len(heap) = 0 /\ Len(stack) = 0 /\ Consumed = 0 /\ 1..0 = {}
  BY <1>1 DEF Consumed, At
<1>3. Rooted /\ Young /\ Positioned /\ Bare /\ Edge
  BY <1>1, <1>2 DEF Rooted, Young, Positioned, Bare, Edge, Ending
<1>4. NextInline
  <2>1. Before(input, 0 + 1) \in 0..0
    BY BeforeType
  <2>2. Before(input, Consumed + 1) = 0
    BY <1>2, <2>1
  <2>3. ~Inlined(Consumed + 1)
    BY <2>2 DEF Inlined
  <2>4. QED
    BY <2>3 DEF NextInline
<1>5. Gathered /\ Idle /\ HeadsHeld /\ LeadHeld
  BY <1>1, <1>2, IncreasingShort DEF Gathered, GatherPlaces, Idle, HeadsHeld, LeadHeld
<1>6. SlotsPlaced /\ Later /\ SlotsRise /\ Single
  BY <1>1, <1>2 DEF SlotsPlaced, Later, SlotsRise, Single
<1>7. KeptAll /\ Settling /\ Enclosed
  BY <1>1, <1>2 DEF KeptAll, Settling, Enclosed, Ending
<1>8. QED
  BY <1>3, <1>4, <1>5, <1>6, <1>7 DEF Associating

LEMMA NextAssociating ==
  IInv /\ IInv' /\ Indexed /\ Parsing /\ Matching /\ Associating /\ [Next]_vars => Associating'
<1> SUFFICES ASSUME IInv, IInv', Indexed, Parsing, Matching, Associating, [Next]_vars PROVE Associating'
  OBVIOUS
<1>1. Lasts(heap, heap')
  BY NodesLast
<1>2. /\ Rooted /\ Young /\ Positioned /\ Bare /\ Edge /\ NextInline
      /\ Gathered /\ Idle /\ HeadsHeld /\ LeadHeld
      /\ SlotsPlaced /\ Later /\ SlotsRise /\ Single
      /\ KeptAll /\ Settling /\ Enclosed
  BY DEF Associating
<1>3. Rooted' /\ Young'
  BY <1>1, <1>2, RootedNext, YoungNext
<1>4. Positioned' /\ Bare'
  BY <1>1, <1>2, <1>3, PositionedNext, BareNext
<1>5. Edge' /\ NextInline'
  BY <1>1, <1>2, EdgeNext, NextInlineNext
<1>6. Gathered' /\ Idle'
  BY <1>2, GatheredNext, IdleNext
<1>7. HeadsHeld' /\ LeadHeld'
  BY <1>1, <1>2, HeadsHeldNext, LeadHeldNext
<1>8. SlotsPlaced'
  BY <1>1, <1>2, SlotsPlacedNext
<1>9. Later' /\ SlotsRise' /\ Single'
  BY <1>2, LaterNext, SlotsRiseNext, SingleNext
<1>10. KeptAll'
  BY <1>1, <1>2, KeptAllNext
<1>11. Settling' /\ Enclosed'
  BY <1>1, <1>2, SettlingNext, EnclosedNext
<1>12. QED
  BY <1>3, <1>4, <1>5, <1>6, <1>7, <1>8, <1>9, <1>10, <1>11 DEF Associating

\* When parse succeeds every comment with text is in the one slot of the one
\* node that the association rules of parser.go name, those between a key and
\* its value and those parseArray overwrites in none; and at every moment the
\* comments joined in a slot are in source order.
THEOREM CommentsArePlaced == Spec => []CommentsWhereRulesSay
<1>1. Init => Associating
  BY InitAssociating
<1>2. IInv /\ IInv' /\ Indexed /\ Parsing /\ Matching /\ Associating /\ [Next]_vars => Associating'
  BY NextAssociating
<1>3. IInv /\ Parsing /\ Matching /\ Associating => CommentsWhereRulesSay
  BY CommentsFollow
<1>4. Init => Matching
  BY InitMatching
<1>5. IInv /\ IInv' /\ Indexed /\ Parsing /\ Matching /\ [Next]_vars => Matching'
  BY NextMatching
<1>6. QED
  BY <1>1, <1>2, <1>3, <1>4, <1>5, Inductive, AlwaysIndexed, AlwaysParsing, PTL DEF Spec
=============================================================================
