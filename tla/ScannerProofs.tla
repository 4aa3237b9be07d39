---------------------------- MODULE ScannerProofs ----------------------------
(***************************************************************************)
(* Theorems about Scanner, for every source: the positions it hands out,    *)
(* what follows a line comment, that its tokens are the lexemes of the      *)
(* source, and the texts of its comments.                                   *)
(***************************************************************************)
EXTENDS Scanner, TLAPS, SequenceTheorems, FiniteSetTheorems

-----------------------------------------------------------------------------
(* Line ends. *)

LEMMA LineEndsFinite ==
  ASSUME NEW n \in Nat
  PROVE  /\ IsFiniteSet(LineEnds(src, n)) /\ Cardinality(LineEnds(src, n)) \in Nat
         /\ LineEnds(src, n) \subseteq 1..n
<1>1. LineEnds(src, n) \subseteq 1..n
  BY DEF LineEnds
<1>2. IsFiniteSet(1..n)
  BY FS_Interval
<1>3. IsFiniteSet(LineEnds(src, n))
  BY <1>1, <1>2, FS_Subset
<1>4. QED
  BY <1>1, <1>3, FS_CardinalityType

\* One byte further: one more line end, or none.
LEMMA LineEndsNext ==
  ASSUME NEW n \in Nat
  PROVE  /\ EndsLine(src, n + 1) =>
              /\ LineEnds(src, n + 1) = LineEnds(src, n) \cup {n + 1}
              /\ Cardinality(LineEnds(src, n + 1)) = Cardinality(LineEnds(src, n)) + 1
         /\ ~EndsLine(src, n + 1) => LineEnds(src, n + 1) = LineEnds(src, n)
<1>1. CASE EndsLine(src, n + 1)
  <2>1. LineEnds(src, n + 1) = LineEnds(src, n) \cup {n + 1}
    BY <1>1 DEF LineEnds
  <2>2. n + 1 \notin LineEnds(src, n)
    BY DEF LineEnds
  <2>3. QED
    BY <1>1, <2>1, <2>2, LineEndsFinite, FS_AddElement
<1>2. CASE ~EndsLine(src, n + 1)
  BY <1>2 DEF LineEnds
<1>3. QED
  BY <1>1, <1>2

\* advance keeps positions exact.
LEMMA MovedPosition ==
  ASSUME NEW p \in Position, IsPosition(src, p), Len(src) \in Nat, p.offset < Len(src)
  PROVE  /\ Moved(p) \in Position /\ IsPosition(src, Moved(p))
         /\ Moved(p).offset = p.offset + 1
<1> DEFINE n == p.offset
<1>1. n \in Nat /\ p.line \in Nat /\ p.col \in Nat
  BY DEF Position
<1>2. PICK b \in LineEnds(src, n) \cup {0} :
        (\A i \in LineEnds(src, n) : i <= b) /\ p.col = n - b + 1
  BY DEF IsPosition
<1>3. LineEnds(src, n) \subseteq 1..n /\ n + 1 \in Nat
  <2> HIDE DEF n
  <2>1. LineEnds(src, n) \subseteq 1..n
    BY <1>1, LineEndsFinite
  <2>2. QED
    BY <1>1, <2>1
<1>4. b \in Nat /\ b <= n
  BY <1>1, <1>2, <1>3
<1>5. p.line = 1 + Cardinality(LineEnds(src, n)) /\ Cardinality(LineEnds(src, n)) \in Nat
  BY <1>1, LineEndsFinite DEF IsPosition
<1>6. CASE EndsLine(src, n + 1)
  <2>1. Moved(p) = [line |-> p.line + 1, col |-> 1, offset |-> n + 1]
    BY <1>1, <1>6 DEF Moved, EndsLine, ByteAt
  <2>2. LineEnds(src, n + 1) = LineEnds(src, n) \cup {n + 1}
        /\ Cardinality(LineEnds(src, n + 1)) = Cardinality(LineEnds(src, n)) + 1
    BY <1>1, <1>6, LineEndsNext
  <2>3. \A i \in LineEnds(src, n + 1) : i <= n + 1
    BY <1>1, <1>3, <2>2
  <2>4. n + 1 \in LineEnds(src, n + 1) \cup {0}
    BY <2>2
  <2>5. p.line + 1 = 1 + Cardinality(LineEnds(src, n + 1))
    BY <1>5, <2>2
  <2>6. Moved(p).col = Moved(p).offset - (n + 1) + 1
    BY <1>1, <2>1
  <2>7. Moved(p).offset = n + 1 /\ Moved(p).line = p.line + 1
    BY <2>1
  <2>8. IsPosition(src, Moved(p))
    BY <2>3, <2>4, <2>5, <2>6, <2>7 DEF IsPosition
  <2>9. QED
    BY <1>1, <2>1, <2>8 DEF Position
<1>7. CASE ~EndsLine(src, n + 1)
  <2>1. Moved(p) = [line |-> p.line, col |-> p.col + 1, offset |-> n + 1]
    BY <1>1, <1>7 DEF Moved, EndsLine, ByteAt
  <2>2. LineEnds(src, n + 1) = LineEnds(src, n)
    BY <1>1, <1>7, LineEndsNext
  <2>3. Moved(p).offset = n + 1 /\ Moved(p).line = p.line /\ Moved(p).col = p.col + 1
    BY <2>1
  <2>4. Moved(p).col = Moved(p).offset - b + 1
    BY <1>1, <1>2, <1>4, <2>3
  <2>5. Moved(p).line = 1 + Cardinality(LineEnds(src, n + 1))
    BY <1>5, <2>2, <2>3
  <2>6. IsPosition(src, Moved(p))
    BY <1>2, <2>2, <2>3, <2>4, <2>5 DEF IsPosition
  <2>7. QED
    BY <1>1, <2>1, <2>6 DEF Position
<1>8. QED
  BY <1>6, <1>7

\* So does going along bytes that end no line.
LEMMA AlongPosition ==
  ASSUME NEW p \in Position, NEW n \in Nat, IsPosition(src, p),
         \A i \in p.offset + 1..p.offset + n : src[i] \notin {"cr", "lf"}
  PROVE  Along(p, n) \in Position /\ IsPosition(src, Along(p, n))
         /\ Along(p, n).offset = p.offset + n
<1>1. p.offset \in Nat /\ p.line \in Nat /\ p.col \in Nat
  BY DEF Position
<1>2. /\ Along(p, n) \in Position
      /\ Along(p, n).line = p.line /\ Along(p, n).col = p.col + n
      /\ Along(p, n).offset = p.offset + n
  BY <1>1 DEF Along, Position
<1>3. LineEnds(src, p.offset + n) = LineEnds(src, p.offset)
  BY <1>1 DEF LineEnds, EndsLine
<1>4. PICK b \in LineEnds(src, p.offset) \cup {0} :
        (\A i \in LineEnds(src, p.offset) : i <= b) /\ p.col = p.offset - b + 1
  BY DEF IsPosition
<1>5. LineEnds(src, p.offset) \subseteq 1..p.offset
  BY <1>1, LineEndsFinite
<1>6. b \in Nat
  BY <1>1, <1>4, <1>5
<1>7. Along(p, n).col = Along(p, n).offset - b + 1
  BY <1>1, <1>2, <1>4, <1>6
<1>8. Along(p, n).line = 1 + Cardinality(LineEnds(src, Along(p, n).offset))
  BY <1>2, <1>3 DEF IsPosition
<1>9. IsPosition(src, Along(p, n))
  BY <1>2, <1>3, <1>4, <1>7, <1>8 DEF IsPosition
<1>10. QED
  BY <1>2, <1>9

-----------------------------------------------------------------------------
(* Every action keeps the types and the positions. *)

Inv == TypeOK /\ PositionsExact

TokenSet == [kind : TokenKinds, pos : Position, from : Nat, upTo : Nat, text : Seq(Byte)]

LEMMA Lengths == ASSUME TypeOK PROVE Len(src) \in Nat /\ at.offset \in Nat /\ start.offset \in Nat
BY DEF TypeOK, Position

\* The byte the scanner sees is one of the source.
LEMMA SeenByte ==
  ASSUME TypeOK
  PROVE  /\ ~AtEnd => at.offset < Len(src) /\ ByteAt(at.offset) \in Byte
         /\ \A B : Sees(B) => ~AtEnd /\ src[at.offset + 1] \in B
         /\ \A B : SeesNext(B) => at.offset + 2 <= Len(src) /\ src[at.offset + 2] \in B
<1>1. Len(src) \in Nat /\ at.offset \in Nat /\ src \in Seq(Byte)
  BY Lengths DEF TypeOK
<1>2. ~AtEnd => at.offset < Len(src) /\ ByteAt(at.offset) \in Byte
  BY <1>1 DEF AtEnd, ByteAt
<1>3. \A B : Sees(B) => ~AtEnd /\ src[at.offset + 1] \in B
  BY DEF Sees, ByteAt
<1>4. \A B : SeesNext(B) => at.offset + 2 <= Len(src) /\ src[at.offset + 2] \in B
  BY <1>1 DEF SeesNext, ByteAt
<1>5. QED
  BY <1>2, <1>3, <1>4

LEMMA AtMoved ==
  ASSUME Inv, ~AtEnd
  PROVE  /\ Moved(at) \in Position /\ IsPosition(src, Moved(at))
         /\ Moved(at).offset = at.offset + 1 /\ at.offset + 1 <= Len(src)
<1>1. at \in Position /\ IsPosition(src, at) /\ Len(src) \in Nat
  BY Lengths DEF Inv, TypeOK, PositionsExact
<1>2. at.offset < Len(src)
  BY SeenByte DEF Inv
<1>3. at.offset \in Nat
  BY Lengths DEF Inv
<1>4. QED
  BY <1>1, <1>2, <1>3, MovedPosition

LEMMA AtOverBreak ==
  ASSUME Inv, ~AtEnd
  PROVE  /\ OverBreak \in Position /\ IsPosition(src, OverBreak)
         /\ OverBreak.offset \in Nat
         /\ at.offset <= OverBreak.offset /\ OverBreak.offset <= Len(src)
<1>1. /\ Moved(at) \in Position /\ IsPosition(src, Moved(at))
      /\ Moved(at).offset = at.offset + 1 /\ at.offset + 1 <= Len(src)
  BY AtMoved
<1>2. at.offset \in Nat /\ Len(src) \in Nat
  BY Lengths DEF Inv
<1>3. CASE Sees({"cr"}) /\ SeesNext({"lf"})
  <2>1. OverBreak = Moved(Moved(at))
    BY <1>3 DEF OverBreak
  <2>2. Moved(at).offset < Len(src)
    BY <1>1, <1>2, <1>3, SeenByte DEF Inv
  <2>3. /\ Moved(Moved(at)) \in Position /\ IsPosition(src, Moved(Moved(at)))
        /\ Moved(Moved(at)).offset = at.offset + 2
    BY <1>1, <1>2, <2>2, MovedPosition
  <2>4. QED
    BY <1>1, <1>2, <2>1, <2>2, <2>3
<1>4. CASE ~(Sees({"cr"}) /\ SeesNext({"lf"}))
  <2>1. OverBreak = Moved(at)
    BY <1>4 DEF OverBreak
  <2>2. QED
    BY <1>1, <1>2, <2>1
<1>5. QED
  BY <1>3, <1>4

\* Along bytes of the source that end no line.
LEMMA AtAlong ==
  ASSUME Inv, NEW n \in Nat, at.offset + n <= Len(src),
         \A i \in at.offset + 1..at.offset + n : src[i] \notin {"cr", "lf"}
  PROVE  /\ Along(at, n) \in Position /\ IsPosition(src, Along(at, n))
         /\ Along(at, n).offset = at.offset + n
BY AlongPosition DEF Inv, TypeOK, PositionsExact

\* A step that only moves the scan, to an exact position of the source.
LEMMA Scanned ==
  ASSUME Inv, at' \in Position, IsPosition(src, at'), at.offset <= at'.offset,
         at'.offset <= Len(src), mode' \in Modes,
         start' = start \/ start' = at, buf' \in Seq(Byte), hasCR' \in BOOLEAN,
         UNCHANGED <<src, toks, err>>
  PROVE  Inv'
<1>1. TypeOK'
  <2>1. at'.offset \in 0..Len(src')
    BY DEF Position
  <2>2. start' \in Position /\ start'.offset <= at'.offset
    <3>1. start \in Position /\ start.offset <= at.offset /\ at \in Position
      BY DEF Inv, TypeOK
    <3>2. start.offset \in Nat /\ at.offset \in Nat /\ at'.offset \in Nat
      BY <3>1 DEF Position
    <3>3. QED
      BY <3>1, <3>2
  <2>3. /\ src' \in Seq(Byte) /\ err' \in Position
        /\ toks' \in Seq([kind : TokenKinds, pos : Position, from : Nat, upTo : Nat,
                          text : Seq(Byte)])
    BY DEF Inv, TypeOK
  <2>4. QED
    BY <2>1, <2>2, <2>3 DEF TypeOK
<1>2. PositionsExact'
  BY DEF Inv, PositionsExact
<1>3. QED
  BY <1>1, <1>2 DEF Inv

\* A step that appends a token.
LEMMA Emitted ==
  ASSUME Inv, NEW kind \in TokenKinds, NEW pos \in Position, NEW from \in Nat, NEW to \in Position,
         NEW text \in Seq(Byte), Emit(kind, pos, from, to, text),
         IsPosition(src, pos), IsPosition(src, to), at.offset <= to.offset, to.offset <= Len(src)
  PROVE  Inv'
<1> DEFINE t == Token(kind, pos, from, to.offset, text)
<1>1. t \in TokenSet /\ t.pos = pos
  BY DEF TokenSet, Token, Position
<1>2. /\ toks' = Append(toks, t) /\ at' = to /\ mode' = "next"
      /\ UNCHANGED <<src, start, buf, hasCR, err>>
  BY DEF Emit
<1>3. toks \in Seq(TokenSet) /\ \A k \in DOMAIN toks : IsPosition(src, toks[k].pos)
  BY DEF Inv, TypeOK, PositionsExact, TokenSet
<1> HIDE DEF t
<1>4. toks' \in Seq(TokenSet) /\ \A k \in DOMAIN toks' : IsPosition(src, toks'[k].pos)
  BY <1>1, <1>2, <1>3
<1>5. TypeOK'
  <2>1. start.offset <= at'.offset /\ at'.offset \in 0..Len(src')
    <3>1. start.offset \in Nat /\ at.offset \in Nat /\ to.offset \in Nat /\ start.offset <= at.offset
      BY Lengths DEF Inv, TypeOK, Position
    <3>2. QED
      BY <1>2, <3>1
  <2>2. src' \in Seq(Byte) /\ start' \in Position /\ err' \in Position /\ at' \in Position
        /\ buf' \in Seq(Byte) /\ hasCR' \in BOOLEAN
    BY <1>2 DEF Inv, TypeOK
  <2>3. mode' \in Modes
    BY <1>2 DEF Modes
  <2>4. QED
    BY <1>2, <1>4, <2>1, <2>2, <2>3 DEF TypeOK, TokenSet
<1>6. PositionsExact'
  BY <1>2, <1>4 DEF Inv, PositionsExact
<1>7. QED
  BY <1>5, <1>6 DEF Inv

\* A step that refuses the source, at the scan or at the start of its token.
LEMMA Refused ==
  ASSUME Inv, Fail(at) \/ Fail(start)
  PROVE  Inv'
<1>1. /\ mode' = "failed" /\ (err' = at \/ err' = start)
      /\ UNCHANGED <<src, at, start, buf, hasCR, toks>>
  BY DEF Fail
<1>2. TypeOK'
  BY <1>1 DEF Inv, TypeOK, Modes
<1>3. PositionsExact'
  BY <1>1 DEF Inv, PositionsExact
<1>4. QED
  BY <1>2, <1>3 DEF Inv

\* The text of a comment is a sequence of bytes.
LEMMA CommentText ==
  ASSUME TypeOK, NEW n \in Nat
  PROVE  TextFrom(n) \in Seq(Byte)
<1>1. src \in Seq(Byte) /\ at.offset \in Nat /\ at.offset <= Len(src) /\ n + 1 \in Nat /\ n + 1 >= 1
  BY DEF TypeOK, Position
<1>2. \A i \in n + 1..at.offset : i \in 1..Len(src)
  BY <1>1
<1>3. QED
  BY <1>1, <1>2, SubSeqProperties DEF TextFrom

\* The steps between two tokens.
LEMMA BetweenSteps ==
  ASSUME Inv, SkipBlank \/ EndOfInput \/ Newline \/ Punctuate \/ Unexpected
  PROVE  Inv'
<1>1. TypeOK /\ at \in Position /\ IsPosition(src, at) /\ mode \in Modes
  BY DEF Inv, TypeOK, PositionsExact
<1>2. at.offset \in Nat /\ Len(src) \in Nat /\ at.offset <= Len(src)
  BY <1>1, Lengths DEF TypeOK
<1>3. <<>> \in Seq(Byte) /\ "eof" \in TokenKinds /\ "nl" \in TokenKinds
  BY DEF TokenKinds
<1>4. CASE SkipBlank
  <2>1. ~AtEnd /\ at' = Moved(at) /\ UNCHANGED <<src, mode, start, toks, err, buf, hasCR>>
    BY <1>4 DEF SkipBlank, Advance, Sees
  <2>2. buf \in Seq(Byte) /\ hasCR \in BOOLEAN
    BY <1>1 DEF TypeOK
  <2>3. QED
    BY <1>1, <1>2, <2>1, <2>2, AtMoved, Scanned
<1>5. CASE EndOfInput
  <2> DEFINE t == Token("eof", at, at.offset, at.offset, <<>>)
  <2>1. t \in TokenSet /\ t.pos = at
    BY <1>1, <1>2, <1>3 DEF TokenSet, Token
  <2>2. toks' = Append(toks, t) /\ mode' = "done" /\ UNCHANGED <<src, at, start, buf, hasCR, err>>
    BY <1>5 DEF EndOfInput
  <2>3. toks \in Seq(TokenSet) /\ \A k \in DOMAIN toks : IsPosition(src, toks[k].pos)
    BY DEF Inv, TypeOK, PositionsExact, TokenSet
  <2> HIDE DEF t
  <2>4. toks' \in Seq(TokenSet) /\ \A k \in DOMAIN toks' : IsPosition(src, toks'[k].pos)
    BY <1>1, <2>1, <2>2, <2>3
  <2>5. mode' \in Modes
    BY <2>2 DEF Modes
  <2>6. TypeOK'
    BY <1>1, <2>2, <2>4, <2>5 DEF TypeOK, TokenSet
  <2>7. PositionsExact'
    BY <2>2, <2>4 DEF Inv, PositionsExact
  <2>8. QED
    BY <2>6, <2>7 DEF Inv
<1>6. CASE Newline
  <2>1. ~AtEnd /\ Emit("nl", OverBreak, at.offset, OverBreak, <<>>)
    BY <1>6 DEF Newline, Sees
  <2>2. QED
    BY <1>2, <1>3, <2>1, AtOverBreak, Emitted
<1>7. CASE Punctuate
  <2>1. ~AtEnd /\ ByteAt(at.offset) \in Punctuation
        /\ Emit(ByteAt(at.offset), at, at.offset, Moved(at), <<>>)
    BY <1>7 DEF Punctuate, Sees
  <2>2. ByteAt(at.offset) \in TokenKinds
    BY <2>1 DEF TokenKinds
  <2>3. /\ Moved(at) \in Position /\ IsPosition(src, Moved(at))
        /\ at.offset <= Moved(at).offset /\ Moved(at).offset <= Len(src)
    BY <1>2, <2>1, AtMoved
  <2>4. QED
    BY <1>1, <1>2, <1>3, <2>1, <2>2, <2>3, Emitted
<1>8. CASE Unexpected
  BY <1>8, Refused DEF Unexpected
<1>9. QED
  BY <1>4, <1>5, <1>6, <1>7, <1>8

\* Entering a token over n bytes that end no line.
LEMMA Entered ==
  ASSUME Inv, NEW next \in Modes, NEW n \in Nat, Enter(next, n), at.offset + n <= Len(src),
         \A i \in at.offset + 1..at.offset + n : src[i] \notin {"cr", "lf"}
  PROVE  Inv'
<1>1. /\ mode' = next /\ start' = at /\ at' = Along(at, n) /\ buf' = <<>> /\ hasCR' = FALSE
      /\ UNCHANGED <<src, toks, err>>
  BY DEF Enter
<1>2. at' \in Position /\ IsPosition(src, at') /\ at'.offset = at.offset + n
  BY <1>1, AtAlong
<1>3. at.offset <= at'.offset /\ at'.offset <= Len(src)
  BY <1>2, Lengths DEF Inv
<1>4. buf' \in Seq(Byte) /\ hasCR' \in BOOLEAN
  <2>1. buf' = <<>> /\ hasCR' = FALSE
    BY <1>1
  <2>2. <<>> \in Seq(Byte)
    OBVIOUS
  <2>3. QED
    BY <2>1, <2>2
<1>5. QED
  BY <1>1, <1>2, <1>3, <1>4, Scanned

LEMMA CommentSteps ==
  ASSUME Inv, \/ OpenComment \/ EndLineComment \/ CommentByte \/ BadCommentByte
              \/ BlockCarriage \/ EndBlockComment
  PROVE  Inv'
<1>1. /\ TypeOK /\ at \in Position /\ start \in Position /\ mode \in Modes
      /\ IsPosition(src, at) /\ IsPosition(src, start)
      /\ buf \in Seq(Byte) /\ hasCR \in BOOLEAN
  BY DEF Inv, TypeOK, PositionsExact
<1>2. /\ at.offset \in Nat /\ start.offset \in Nat /\ start.offset + 2 \in Nat
      /\ Len(src) \in Nat /\ at.offset <= Len(src)
  BY <1>1, Lengths DEF TypeOK
<1>3. TextFrom(start.offset + 2) \in Seq(Byte)
  BY <1>1, <1>2, CommentText
<1>4. CASE OpenComment
  <2>1. CASE StrictJSON
    BY <1>4, <2>1, Refused DEF OpenComment
  <2>2. CASE ~StrictJSON
    <3>1. PICK next \in {"line", "block"} : Enter(next, 2)
      BY <1>4, <2>2 DEF OpenComment
    <3>2. /\ at.offset + 2 <= Len(src) /\ src[at.offset + 1] \in {"/"}
          /\ src[at.offset + 2] \in {"/", "*"}
      BY <1>1, <1>4, SeenByte DEF OpenComment
    <3>3. \A i \in at.offset + 1..at.offset + 2 : src[i] \notin {"cr", "lf"}
      BY <1>2, <3>2
    <3>4. next \in Modes /\ 2 \in Nat
      BY DEF Modes
    <3>5. QED
      BY <3>1, <3>2, <3>3, <3>4, Entered
  <2>3. QED
    BY <2>1, <2>2
<1>5. CASE EndLineComment
  <2>1. Emit("line", start, start.offset, at, TextFrom(start.offset + 2))
    BY <1>5 DEF EndLineComment
  <2>2. "line" \in TokenKinds
    BY DEF TokenKinds
  <2>3. at.offset <= at.offset
    BY <1>2
  <2>4. QED
    BY <1>1, <1>2, <1>3, <2>1, <2>2, <2>3, Emitted
<1>6. CASE CommentByte
  <2>1. /\ ~AtEnd /\ at' = Moved(at) /\ UNCHANGED <<src, mode, start, toks, err, hasCR>>
        /\ buf' = IF hasCR THEN Append(buf, ByteAt(at.offset)) ELSE buf
    BY <1>6 DEF CommentByte, Advance
  <2>2. ByteAt(at.offset) \in Byte
    BY <1>1, <2>1, SeenByte
  <2>3. buf' \in Seq(Byte) /\ hasCR' \in BOOLEAN
    BY <1>1, <2>1, <2>2
  <2>4. QED
    BY <1>1, <1>2, <2>1, <2>3, AtMoved, Scanned
<1>7. CASE BadCommentByte
  BY <1>7, Refused DEF BadCommentByte
<1>8. CASE BlockCarriage
  <2>1. /\ ~AtEnd /\ at' = OverBreak /\ UNCHANGED <<src, mode, start, toks, err>>
        /\ hasCR' = TRUE /\ buf' = Append(IF hasCR THEN buf ELSE TextFrom(start.offset + 2), "lf")
    BY <1>8 DEF BlockCarriage, Sees, Carriage
  <2>2. "lf" \in Byte
    BY DEF Byte, Controls
  <2>3. buf' \in Seq(Byte) /\ hasCR' \in BOOLEAN
    BY <1>1, <1>3, <2>1, <2>2
  <2>4. QED
    BY <1>1, <1>2, <2>1, <2>3, AtOverBreak, Scanned
<1>9. CASE EndBlockComment
  <2>1. PICK text \in Seq(Byte) : Emit("block", start, start.offset, Along(at, 2), text)
    BY <1>1, <1>3, <1>9 DEF EndBlockComment
  <2>2. /\ at.offset + 2 <= Len(src) /\ src[at.offset + 1] \in {"*"}
        /\ src[at.offset + 2] \in {"/"}
    BY <1>1, <1>9, SeenByte DEF EndBlockComment
  <2>3. \A i \in at.offset + 1..at.offset + 2 : src[i] \notin {"cr", "lf"}
    BY <1>2, <2>2
  <2>4. /\ Along(at, 2) \in Position /\ IsPosition(src, Along(at, 2))
        /\ Along(at, 2).offset = at.offset + 2
    BY <2>2, <2>3, AtAlong
  <2>5. at.offset <= Along(at, 2).offset /\ Along(at, 2).offset <= Len(src)
    BY <1>2, <2>2, <2>4
  <2>6. "block" \in TokenKinds
    BY DEF TokenKinds
  <2>7. QED
    BY <1>1, <1>2, <2>1, <2>4, <2>5, <2>6, Emitted
<1>10. QED
  BY <1>4, <1>5, <1>6, <1>7, <1>8, <1>9

\* The six places an escape takes.
LEMMA SixAfter ==
  ASSUME NEW n \in Nat, NEW i \in n + 1..n + 6
  PROVE  i = n + 1 \/ i = n + 2 \/ i = n + 3 \/ i = n + 4 \/ i = n + 5 \/ i = n + 6
<1>1. i \in Int /\ n + 1 <= i /\ i <= n + 6
  OBVIOUS
<1>2. QED
  BY <1>1

LEMMA StringSteps ==
  ASSUME Inv, \/ OpenString \/ StringByte \/ BadStringByte \/ CloseString \/ ScanEscape
              \/ Unterminated
  PROVE  Inv'
<1>1. /\ TypeOK /\ at \in Position /\ start \in Position /\ mode \in Modes
      /\ IsPosition(src, at) /\ IsPosition(src, start)
      /\ buf \in Seq(Byte) /\ hasCR \in BOOLEAN
  BY DEF Inv, TypeOK, PositionsExact
<1>2. /\ at.offset \in Nat /\ start.offset \in Nat
      /\ Len(src) \in Nat /\ at.offset <= Len(src)
  BY <1>1, Lengths DEF TypeOK
<1>3. CASE OpenString
  <2>1. Enter("string", 1) /\ Sees({"quote"})
    BY <1>3 DEF OpenString
  <2>2. at.offset + 1 <= Len(src) /\ src[at.offset + 1] \in {"quote"}
    BY <1>1, <1>2, <2>1, SeenByte
  <2>3. \A i \in at.offset + 1..at.offset + 1 : src[i] \notin {"cr", "lf"}
    BY <1>2, <2>2
  <2>4. "string" \in Modes /\ 1 \in Nat
    BY DEF Modes
  <2>5. QED
    BY <2>1, <2>2, <2>3, <2>4, Entered
<1>4. CASE StringByte
  <2>1. ~AtEnd /\ at' = Moved(at) /\ UNCHANGED <<src, mode, start, toks, err, buf, hasCR>>
    BY <1>4 DEF StringByte, Advance
  <2>2. QED
    BY <1>1, <1>2, <2>1, AtMoved, Scanned
<1>5. CASE BadStringByte
  BY <1>5, Refused DEF BadStringByte
<1>6. CASE CloseString
  <2>1. ~AtEnd /\ Emit("string", start, start.offset, Moved(at), <<>>)
    BY <1>6 DEF CloseString, Sees
  <2>2. "string" \in TokenKinds /\ <<>> \in Seq(Byte)
    BY DEF TokenKinds
  <2>3. /\ Moved(at) \in Position /\ IsPosition(src, Moved(at))
        /\ at.offset <= Moved(at).offset /\ Moved(at).offset <= Len(src)
    BY <1>2, <2>1, AtMoved
  <2>4. QED
    BY <1>1, <1>2, <2>1, <2>2, <2>3, Emitted
<1>7. CASE ScanEscape
  <2>1. CASE EscapeLength = 0
    BY <1>7, <2>1, Refused DEF ScanEscape
  <2>2. CASE EscapeLength # 0
    <3>1. at' = Along(at, EscapeLength) /\ UNCHANGED <<src, mode, start, buf, hasCR, toks, err>>
      BY <1>7, <2>2 DEF ScanEscape
    <3>2. Sees({"backslash"})
      BY <1>7 DEF ScanEscape
    <3>3. src[at.offset + 1] = "backslash"
      BY <1>1, <3>2, SeenByte
    <3>4. PICK n \in {2, 6} : EscapeLength = n /\ at.offset + n <= Len(src)
                              /\ \A i \in at.offset + 1..at.offset + n : src[i] \notin {"cr", "lf"}
      <4>1. CASE SeesNext(Simple)
        <5>1. at.offset + 2 <= Len(src) /\ src[at.offset + 2] \in Simple
          BY <1>1, <4>1, SeenByte
        <5>2. src[at.offset + 2] \notin {"cr", "lf"}
          BY <5>1 DEF Simple
        <5>3. \A i \in at.offset + 1..at.offset + 2 : src[i] \notin {"cr", "lf"}
          BY <1>2, <3>3, <5>2
        <5>4. EscapeLength = 2
          BY <4>1 DEF EscapeLength
        <5>5. QED
          BY <5>1, <5>3, <5>4
      <4>2. CASE ~SeesNext(Simple)
        <5>1. Unicode /\ EscapeLength = 6
          BY <2>2, <4>2 DEF EscapeLength
        <5>2. at.offset + 6 <= Len(src) /\ \A i \in 2..5 : src[at.offset + i + 1] \in HexDigits
          BY <5>1 DEF Unicode, ByteAt
        <5>3. SeesNext({"u"})
          BY <5>1 DEF Unicode
        <5>4. src[at.offset + 2] \in {"u"}
          BY <1>1, <5>3, SeenByte
        <5>5. /\ src[at.offset + 3] \in HexDigits /\ src[at.offset + 4] \in HexDigits
              /\ src[at.offset + 5] \in HexDigits /\ src[at.offset + 6] \in HexDigits
          <6>1. \A i \in 2..5 : src[(at.offset + i) + 1] \in HexDigits
            BY <5>2
          <6>2. /\ src[(at.offset + 2) + 1] \in HexDigits /\ src[(at.offset + 3) + 1] \in HexDigits
                /\ src[(at.offset + 4) + 1] \in HexDigits /\ src[(at.offset + 5) + 1] \in HexDigits
            <7>1. 2 \in 2..5 /\ 3 \in 2..5 /\ 4 \in 2..5 /\ 5 \in 2..5
              OBVIOUS
            <7>2. QED
              BY <6>1, <7>1
          <6>3. /\ (at.offset + 2) + 1 = at.offset + 3 /\ (at.offset + 3) + 1 = at.offset + 4
                /\ (at.offset + 4) + 1 = at.offset + 5 /\ (at.offset + 5) + 1 = at.offset + 6
            BY <1>2
          <6>4. QED
            BY <6>2, <6>3
        <5>6. \A b \in HexDigits : b \notin {"cr", "lf"}
          BY DEF HexDigits, Digits
        <5>7. \A i \in at.offset + 1..at.offset + 6 :
                \/ i = at.offset + 1 \/ i = at.offset + 2 \/ i = at.offset + 3
                \/ i = at.offset + 4 \/ i = at.offset + 5 \/ i = at.offset + 6
          BY <1>2, SixAfter
        <5>8. \A i \in at.offset + 1..at.offset + 6 : src[i] \notin {"cr", "lf"}
          BY <3>3, <5>4, <5>5, <5>6, <5>7
        <5>9. QED
          BY <5>1, <5>2, <5>8
      <4>3. QED
        BY <4>1, <4>2
    <3>5. n \in Nat
      OBVIOUS
    <3>6. at' \in Position /\ IsPosition(src, at') /\ at'.offset = at.offset + n
      BY <3>1, <3>4, <3>5, AtAlong
    <3>7. at.offset <= at'.offset /\ at'.offset <= Len(src)
      BY <1>2, <3>4, <3>5, <3>6
    <3>8. mode' \in Modes /\ buf' \in Seq(Byte) /\ hasCR' \in BOOLEAN
      BY <1>1, <3>1
    <3>9. QED
      BY <3>1, <3>6, <3>7, <3>8, Scanned
  <2>3. QED
    BY <2>1, <2>2
<1>8. CASE Unterminated
  BY <1>8, Refused DEF Unterminated
<1>9. QED
  BY <1>3, <1>4, <1>5, <1>6, <1>7, <1>8

LEMMA NumberSteps ==
  ASSUME Inv, OpenNumber \/ NumberByte \/ EndNumber \/ BadNumber
  PROVE  Inv'
<1>1. /\ TypeOK /\ at \in Position /\ start \in Position /\ mode \in Modes
      /\ IsPosition(src, at) /\ IsPosition(src, start)
      /\ buf \in Seq(Byte) /\ hasCR \in BOOLEAN
  BY DEF Inv, TypeOK, PositionsExact
<1>2. /\ at.offset \in Nat /\ start.offset \in Nat
      /\ Len(src) \in Nat /\ at.offset <= Len(src)
  BY <1>1, Lengths DEF TypeOK
<1>3. CASE OpenNumber
  <2>1. "minus" \in Modes
    BY DEF Modes, NumberParts
  <2>2. CASE Sees({"-"})
    <3>1. Enter("minus", 1)
      BY <1>3, <2>2 DEF OpenNumber
    <3>2. at.offset + 1 <= Len(src) /\ src[at.offset + 1] \in {"-"}
      BY <1>1, <1>2, <2>2, SeenByte
    <3>3. \A i \in at.offset + 1..at.offset + 1 : src[i] \notin {"cr", "lf"}
      BY <1>2, <3>2
    <3>4. 1 \in Nat
      OBVIOUS
    <3>5. QED
      BY <2>1, <3>1, <3>2, <3>3, <3>4, Entered
  <2>3. CASE ~Sees({"-"})
    <3>1. Enter("minus", 0)
      BY <1>3, <2>3 DEF OpenNumber
    <3>2. at.offset + 0 <= Len(src) /\ 0 \in Nat
      BY <1>2
    <3>3. \A i \in at.offset + 1..at.offset + 0 : src[i] \notin {"cr", "lf"}
      BY <1>2
    <3>4. QED
      BY <2>1, <3>1, <3>2, <3>3, Entered
  <2>4. QED
    BY <2>2, <2>3
<1>4. CASE NumberByte
  <2>1. /\ Part # "none" /\ mode' = Part /\ at' = Moved(at)
        /\ UNCHANGED <<src, start, buf, hasCR, toks, err>>
    BY <1>4 DEF NumberByte
  <2>2. ~AtEnd
    BY <2>1 DEF Part
  <2>3. mode' = PartAfter(mode, ByteAt(at.offset))
    BY <2>1, <2>2 DEF Part
  <2>4. mode' \in Modes
    BY <2>1, <2>3 DEF PartAfter, Modes, NumberParts
  <2>5. /\ Moved(at) \in Position /\ IsPosition(src, Moved(at))
        /\ at.offset <= Moved(at).offset /\ Moved(at).offset <= Len(src)
    BY <1>2, <2>2, AtMoved
  <2>6. QED
    BY <1>1, <2>1, <2>4, <2>5, Scanned
<1>5. CASE EndNumber
  <2>1. Emit("number", start, start.offset, at, <<>>)
    BY <1>5 DEF EndNumber
  <2>2. "number" \in TokenKinds /\ <<>> \in Seq(Byte) /\ at.offset <= at.offset
    BY <1>2 DEF TokenKinds
  <2>3. QED
    BY <1>1, <1>2, <2>1, <2>2, Emitted
<1>6. CASE BadNumber
  BY <1>6, Refused DEF BadNumber
<1>7. QED
  BY <1>3, <1>4, <1>5, <1>6

LEMMA WordStep ==
  ASSUME Inv, ScanLiteralWord
  PROVE  Inv'
<1> DEFINE word == Words[ByteAt(at.offset)]
<1>1. /\ TypeOK /\ at \in Position /\ IsPosition(src, at)
      /\ at.offset \in Nat /\ Len(src) \in Nat
  BY Lengths DEF Inv, TypeOK, PositionsExact
<1>2. ByteAt(at.offset) \in {"t", "n"}
  BY DEF ScanLiteralWord, Sees, Words
<1>3. /\ Len(word) = 4
      /\ word[1] \notin {"cr", "lf"} /\ word[2] \notin {"cr", "lf"}
      /\ word[3] \notin {"cr", "lf"} /\ word[4] \notin {"cr", "lf"}
  <2>1. word = <<"t", "r", "u", "e">> \/ word = <<"n", "u", "l", "l">>
    BY <1>2 DEF Words
  <2>2. QED
    BY <2>1
<1>4. IF IsWord(at.offset, word)
      THEN Emit("word", at, at.offset, Along(at, Len(word)), <<>>)
      ELSE Fail(at)
  BY DEF ScanLiteralWord
<1> HIDE DEF word
<1>5. CASE ~IsWord(at.offset, word)
  BY <1>4, <1>5, Refused
<1>6. CASE IsWord(at.offset, word)
  <2>1. at.offset + 4 <= Len(src) /\ SubSeq(src, at.offset + 1, at.offset + 4) = word
    BY <1>3, <1>6 DEF IsWord
  <2>2. \A i \in at.offset + 1..at.offset + 4 : src[i] \in Byte
    BY <1>1, <2>1 DEF TypeOK
  <2>3. \A i \in 1..4 : word[i] = src[at.offset + i]
    <3>1. /\ at.offset + 1 \in Int /\ at.offset + 4 \in Int
          /\ (at.offset + 4) - (at.offset + 1) + 1 = 4
      BY <1>1
    <3>2. \A i \in 1..4 : word[i] = src[(at.offset + 1) + i - 1]
      <4> DEFINE from == at.offset + 1
                 upTo == at.offset + 4
      <4>1. \A i \in 1..upTo - from + 1 : SubSeq(src, from, upTo)[i] = src[from + i - 1]
        <5>1. from \in Int /\ upTo \in Int /\ \A i \in from..upTo : src[i] \in Byte
          BY <2>2, <3>1
        <5> HIDE DEF from, upTo
        <5>2. QED
          BY <5>1, SubSeqProperties
      <4>2. upTo - from + 1 = 4 /\ SubSeq(src, from, upTo) = word
        BY <2>1, <3>1
      <4> HIDE DEF from, upTo
      <4>3. \A i \in 1..4 : word[i] = src[from + i - 1]
        BY <4>1, <4>2
      <4>4. QED
        BY <4>3 DEF from
    <3>3. \A i \in 1..4 : (at.offset + 1) + i - 1 = at.offset + i
      BY <1>1
    <3>4. QED
      BY <3>2, <3>3
  <2>4. /\ src[at.offset + 1] \notin {"cr", "lf"} /\ src[at.offset + 2] \notin {"cr", "lf"}
        /\ src[at.offset + 3] \notin {"cr", "lf"} /\ src[at.offset + 4] \notin {"cr", "lf"}
    BY <1>3, <2>3
  <2>5. \A i \in at.offset + 1..at.offset + 4 :
          \/ i = at.offset + 1 \/ i = at.offset + 2 \/ i = at.offset + 3 \/ i = at.offset + 4
    BY <1>1
  <2>6. \A i \in at.offset + 1..at.offset + 4 : src[i] \notin {"cr", "lf"}
    BY <2>4, <2>5
  <2>7. 4 \in Nat
    OBVIOUS
  <2>8. /\ Along(at, 4) \in Position /\ IsPosition(src, Along(at, 4))
        /\ Along(at, 4).offset = at.offset + 4
    BY <2>1, <2>6, <2>7, AtAlong
  <2>9. at.offset <= Along(at, 4).offset /\ Along(at, 4).offset <= Len(src)
    BY <1>1, <2>1, <2>8
  <2>10. Emit("word", at, at.offset, Along(at, 4), <<>>)
    BY <1>3, <1>4, <1>6
  <2>11. "word" \in TokenKinds /\ <<>> \in Seq(Byte)
    BY DEF TokenKinds
  <2>12. QED
    BY <1>1, <2>8, <2>9, <2>10, <2>11, Emitted
<1>7. QED
  BY <1>5, <1>6

-----------------------------------------------------------------------------
(* The theorems. *)

LEMMA InvInit == Init => Inv
<1> SUFFICES ASSUME Init PROVE Inv
  OBVIOUS
<1>1. /\ src \in Sources /\ at = [line |-> 1, col |-> 1, offset |-> 0] /\ mode = "next"
      /\ start = at /\ buf = <<>> /\ hasCR = FALSE /\ toks = <<>> /\ err = at
  BY DEF Init
<1>2. src \in Seq(Byte) /\ Len(src) \in Nat
  BY <1>1, SourcesAssumption
<1>3. at \in Position /\ at.offset = 0 /\ at.line = 1 /\ at.col = 1
  BY <1>1 DEF Position
<1>4. TypeOK
  <2>1. at.offset \in 0..Len(src) /\ start.offset <= at.offset
    BY <1>1, <1>2, <1>3
  <2>2. mode \in Modes
    BY <1>1 DEF Modes
  <2>3. buf \in Seq(Byte) /\ hasCR \in BOOLEAN
        /\ toks \in Seq([kind : TokenKinds, pos : Position, from : Nat, upTo : Nat,
                         text : Seq(Byte)])
    <3>1. <<>> \in Seq(Byte) /\ <<>> \in Seq(TokenSet)
      OBVIOUS
    <3>2. buf = <<>> /\ hasCR = FALSE /\ toks = <<>>
      BY <1>1
    <3>3. QED
      BY <3>1, <3>2 DEF TokenSet
  <2>4. start \in Position /\ err \in Position
    BY <1>1, <1>3
  <2>5. QED
    BY <1>2, <1>3, <2>1, <2>2, <2>3, <2>4 DEF TypeOK
<1>5. IsPosition(src, at)
  <2>1. LineEnds(src, 0) = {} /\ Cardinality({}) = 0
    BY FS_EmptySet DEF LineEnds
  <2>2. QED
    BY <1>3, <2>1 DEF IsPosition
<1>6. PositionsExact
  <2>1. DOMAIN toks = {}
    BY <1>1
  <2>2. start = at /\ err = at
    BY <1>1
  <2>3. QED
    BY <1>5, <2>1, <2>2 DEF PositionsExact
<1>7. QED
  BY <1>4, <1>6 DEF Inv

LEMMA InvNext == Inv /\ [Next]_vars => Inv'
<1> SUFFICES ASSUME Inv, [Next]_vars PROVE Inv'
  OBVIOUS
<1>1. CASE UNCHANGED vars
  BY <1>1 DEF vars, Inv, TypeOK, PositionsExact
<1>2. CASE Next
  BY <1>2, BetweenSteps, CommentSteps, StringSteps, NumberSteps, WordStep DEF Next
<1>3. QED
  BY <1>1, <1>2

\* Types: no loop of the scanner passes the end of the source, whatever it
\* looks ahead at.
THEOREM TypeCorrect == Spec => []TypeOK
<1>1. Inv => TypeOK
  BY DEF Inv
<1>2. QED
  BY InvInit, InvNext, <1>1, PTL DEF Spec

\* Every position the scanner hands out (advance, position, syntaxError) is
\* the line and column of its offset, for every source.
THEOREM PositionsCorrect == Spec => []PositionsExact
<1>1. Inv => PositionsExact
  BY DEF Inv
<1>2. QED
  BY InvInit, InvNext, <1>1, PTL DEF Spec

-----------------------------------------------------------------------------
(* What follows a line comment. *)

\* After a line comment the scan stands where its line ends.
LineStands ==
  (toks # <<>> /\ toks[Len(toks)].kind = "line") =>
    \/ mode \in {"done", "failed"}
    \/ mode = "next" /\ (AtEnd \/ Sees({"cr", "lf"}))

LineInv == LineStands /\ LineCommentEndsLine

\* A step that appends no token, from where the scan sees no line end, keeps it.
LEMMA NoToken ==
  ASSUME TypeOK, LineInv, toks' = toks,
         \/ mode' = "failed"
         \/ mode \notin {"next", "done", "failed"}
         \/ mode = "next" /\ ~AtEnd /\ ~Sees({"cr", "lf"})
  PROVE  LineInv'
<1>1. LineCommentEndsLine'
  BY DEF LineInv, LineCommentEndsLine
<1>2. LineStands'
  BY DEF LineInv, LineStands
<1>3. QED
  BY <1>1, <1>2 DEF LineInv

\* A step that appends a token where the last one may stand before it.
LEMMA OneToken ==
  ASSUME TypeOK, LineInv, NEW t, toks' = Append(toks, t),
         t.kind = "line" => mode' = "next" /\ (AtEnd' \/ Sees({"cr", "lf"})'),
         \/ t.kind \in {"nl", "eof"}
         \/ mode \notin {"next", "done", "failed"}
         \/ mode = "next" /\ ~AtEnd /\ ~Sees({"cr", "lf"})
  PROVE  LineInv'
<1>1. toks \in Seq(TokenSet) /\ Len(toks) \in Nat
  BY DEF TypeOK, TokenSet
<1>2. Len(toks') = Len(toks) + 1 /\ toks'[Len(toks) + 1] = t
      /\ \A k \in 1..Len(toks) : toks'[k] = toks[k]
  BY <1>1
<1>3. LineStands'
  BY <1>1, <1>2 DEF LineStands
<1>4. LineCommentEndsLine'
  <2> SUFFICES ASSUME NEW k \in 2..Len(toks'), toks'[k - 1].kind = "line"
               PROVE  toks'[k].kind \in {"nl", "eof"}
    BY DEF LineCommentEndsLine
  <2>1. k \in Nat /\ k - 1 \in 1..Len(toks) /\ toks'[k - 1] = toks[k - 1]
    BY <1>1, <1>2
  <2>2. CASE k <= Len(toks)
    <3>1. k \in 2..Len(toks) /\ toks'[k] = toks[k]
      BY <1>2, <2>1, <2>2
    <3>2. QED
      BY <2>1, <3>1 DEF LineInv, LineCommentEndsLine
  <2>3. CASE k = Len(toks) + 1
    <3>1. toks # <<>> /\ toks[Len(toks)].kind = "line"
      BY <1>1, <2>1, <2>3
    <3>2. t.kind \in {"nl", "eof"}
      BY <3>1 DEF LineInv, LineStands
    <3>3. QED
      BY <1>2, <2>3, <3>2
  <2>4. QED
    BY <1>1, <1>2, <2>1, <2>2, <2>3
<1>5. QED
  BY <1>3, <1>4 DEF LineInv

LEMMA LineNoToken ==
  ASSUME TypeOK, LineInv,
         \/ SkipBlank \/ Unexpected \/ OpenComment \/ CommentByte \/ BadCommentByte
         \/ BlockCarriage \/ OpenString \/ StringByte \/ BadStringByte \/ ScanEscape
         \/ Unterminated \/ OpenNumber \/ NumberByte \/ BadNumber
  PROVE  LineInv'
<1>1. CASE SkipBlank
  <2>1. mode = "next" /\ ~AtEnd /\ ~Sees({"cr", "lf"}) /\ toks' = toks
    BY <1>1 DEF SkipBlank, Advance, Sees, Blanks
  <2>2. QED
    BY <2>1, NoToken
<1>2. CASE Unexpected \/ BadCommentByte \/ BadStringByte \/ Unterminated \/ BadNumber
  <2>1. mode' = "failed" /\ toks' = toks
    BY <1>2 DEF Unexpected, BadCommentByte, BadStringByte, Unterminated, BadNumber, Fail
  <2>2. QED
    BY <2>1, NoToken
<1>3. CASE OpenComment
  <2>1. mode = "next" /\ ~AtEnd /\ ~Sees({"cr", "lf"}) /\ toks' = toks
    BY <1>3 DEF OpenComment, Enter, Fail, Sees
  <2>2. QED
    BY <2>1, NoToken
<1>4. CASE CommentByte \/ BlockCarriage
  <2>1. mode \notin {"next", "done", "failed"} /\ toks' = toks
    BY <1>4 DEF CommentByte, BlockCarriage, Advance
  <2>2. QED
    BY <2>1, NoToken
<1>5. CASE OpenString
  <2>1. mode = "next" /\ ~AtEnd /\ ~Sees({"cr", "lf"}) /\ toks' = toks
    BY <1>5 DEF OpenString, Enter, Sees
  <2>2. QED
    BY <2>1, NoToken
<1>6. CASE StringByte \/ ScanEscape
  <2>1. mode \notin {"next", "done", "failed"} /\ toks' = toks
    BY <1>6 DEF StringByte, ScanEscape, Advance, Fail
  <2>2. QED
    BY <2>1, NoToken
<1>7. CASE OpenNumber
  <2>1. mode = "next" /\ ~AtEnd /\ ~Sees({"cr", "lf"}) /\ toks' = toks
    BY <1>7 DEF OpenNumber, Enter, Sees, Digits
  <2>2. QED
    BY <2>1, NoToken
<1>8. CASE NumberByte
  <2>1. mode \notin {"next", "done", "failed"} /\ toks' = toks
    BY <1>8 DEF NumberByte, NumberParts
  <2>2. QED
    BY <2>1, NoToken
<1>9. QED
  BY <1>1, <1>2, <1>3, <1>4, <1>5, <1>6, <1>7, <1>8

LEMMA LineOneToken ==
  ASSUME TypeOK, LineInv,
         \/ EndOfInput \/ Newline \/ Punctuate \/ EndLineComment \/ EndBlockComment
         \/ CloseString \/ EndNumber \/ ScanLiteralWord
  PROVE  LineInv'
<1>1. CASE EndOfInput
  <2>1. PICK t : t.kind = "eof" /\ toks' = Append(toks, t)
    BY <1>1 DEF EndOfInput, Token
  <2>2. QED
    BY <2>1, OneToken
<1>2. CASE Newline
  <2>1. PICK t : t.kind = "nl" /\ toks' = Append(toks, t)
    BY <1>2 DEF Newline, Emit, Token
  <2>2. QED
    BY <2>1, OneToken
<1>3. CASE Punctuate
  <2>1. PICK t : t.kind \in Punctuation /\ toks' = Append(toks, t)
    BY <1>3 DEF Punctuate, Emit, Token, Sees
  <2>2. mode = "next" /\ ~AtEnd /\ ~Sees({"cr", "lf"})
    BY <1>3 DEF Punctuate, Sees, Punctuation
  <2>3. t.kind # "line"
    BY <2>1 DEF Punctuation
  <2>4. QED
    BY <2>1, <2>2, <2>3, OneToken
<1>4. CASE EndLineComment
  <2>1. PICK t : t.kind = "line" /\ toks' = Append(toks, t)
    BY <1>4 DEF EndLineComment, Emit, Token
  <2>2. mode \notin {"next", "done", "failed"}
    BY <1>4 DEF EndLineComment
  <2>3. AtEnd \/ Sees({"cr", "lf"})
    BY <1>4 DEF EndLineComment
  <2>4. at' = at /\ src' = src /\ mode' = "next"
    BY <1>4 DEF EndLineComment, Emit
  <2>5. AtEnd' \/ Sees({"cr", "lf"})'
    BY <2>3, <2>4 DEF AtEnd, Sees, ByteAt
  <2>6. QED
    BY <2>1, <2>2, <2>4, <2>5, OneToken
<1>5. CASE EndBlockComment \/ CloseString \/ EndNumber
  <2>1. PICK t : t.kind \in {"block", "string", "number"} /\ toks' = Append(toks, t)
    BY <1>5 DEF EndBlockComment, CloseString, EndNumber, Emit, Token
  <2>2. mode \notin {"next", "done", "failed"}
    BY <1>5 DEF EndBlockComment, CloseString, EndNumber, Complete
  <2>3. QED
    BY <2>1, <2>2, OneToken
<1>6. CASE ScanLiteralWord
  <2>1. mode = "next" /\ ~AtEnd /\ ~Sees({"cr", "lf"})
    BY <1>6 DEF ScanLiteralWord, Sees, Words
  <2>2. CASE IsWord(at.offset, Words[ByteAt(at.offset)])
    <3>1. PICK t : t.kind = "word" /\ toks' = Append(toks, t)
      BY <1>6, <2>2 DEF ScanLiteralWord, Emit, Token
    <3>2. QED
      BY <2>1, <3>1, OneToken
  <2>3. CASE ~IsWord(at.offset, Words[ByteAt(at.offset)])
    <3>1. mode' = "failed" /\ toks' = toks
      BY <1>6, <2>3 DEF ScanLiteralWord, Fail
    <3>2. QED
      BY <3>1, NoToken
  <2>4. QED
    BY <2>2, <2>3
<1>7. QED
  BY <1>1, <1>2, <1>3, <1>4, <1>5, <1>6

\* What the parser takes from the scanner (CanFollow in Parser): the token
\* after a line comment is a line break or the end of the input, so that no
\* value, comma or bracket is ever on the comment's line after it.
THEOREM LineCommentLast == Spec => []LineCommentEndsLine
<1>1. Init => LineInv
  <2>1. toks = <<>> => LineInv
    BY DEF LineInv, LineStands, LineCommentEndsLine
  <2>2. QED
    BY <2>1 DEF Init
<1>2. TypeOK /\ LineInv /\ [Next]_vars => LineInv'
  <2> SUFFICES ASSUME TypeOK, LineInv, [Next]_vars PROVE LineInv'
    OBVIOUS
  <2>1. CASE UNCHANGED vars
    BY <2>1 DEF vars, LineInv, LineStands, LineCommentEndsLine, AtEnd, Sees, ByteAt
  <2>2. CASE Next
    BY <2>2, LineNoToken, LineOneToken DEF Next
  <2>3. QED
    BY <2>1, <2>2
<1>3. LineInv => LineCommentEndsLine
  BY DEF LineInv
<1>4. QED
  BY <1>1, <1>2, <1>3, TypeCorrect, PTL DEF Spec

-----------------------------------------------------------------------------
(* What the scan has read of a token. *)

\* Where the last token ends, and where the one after it starts.
LastEnd == IF toks = <<>> THEN 0 ELSE Last(toks).upTo
IsNext(n) == n \in LastEnd..Len(src) - 1 /\ In(LastEnd, n, Blanks) /\ src[n + 1] \notin Blanks

\* What stands between the start i of a comment or a string and the scan at n.
LineSoFar(i, n) ==
  /\ ~StrictJSON /\ i + 2 <= n /\ src[i + 1] = "/" /\ src[i + 2] = "/"
  /\ In(i, n, Byte \ {"cr", "lf", "ctl"})
BlockSoFar(i, n) ==
  /\ ~StrictJSON /\ i + 2 <= n /\ src[i + 1] = "/" /\ src[i + 2] = "*"
  /\ In(i, n, Byte \ {"ctl"})
  /\ \A m \in i + 2..n - 1 : m + 2 <= Len(src) => ~(src[m + 1] = "*" /\ src[m + 2] = "/")
StringSoFar(i, n) ==
  /\ i + 1 <= n /\ src[i + 1] = "quote" /\ ~Escaped(n + 1, i + 1)
  /\ \A m \in i + 2..n :
       /\ src[m] \notin Controls
       /\ src[m] = "quote" => Escaped(m, i + 1)
       /\ Escaped(m, i + 1) =>
            \/ src[m] \in Simple
            \/ src[m] = "u" /\ m + 4 <= n /\ \A k \in m + 1..m + 4 : src[k] \in HexDigits

\* The digits of a number that starts at i start at DigitsFrom(i).
DigitsFrom(i) == IF src[i + 1] = "-" THEN i + 1 ELSE i
\* Each part of the number grammar, by what it says of the bytes up to n.
Decimal(s, n) == \E a \in s..n : IsInt(s, a) /\ IsFrac(a, n)
NumberFrom(part, s, n) ==
  CASE part = "minus" -> n = s
    [] part = "zero" -> n = s + 1 /\ src[n] = "0"
    [] part = "int" -> DigitRun(s, n) /\ src[s + 1] # "0"
    [] part = "point" -> s < n /\ IsInt(s, n - 1) /\ src[n] = "."
    [] part = "frac" -> Decimal(s, n) /\ ~IsInt(s, n)
    [] part = "exp" -> s < n /\ Decimal(s, n - 1) /\ src[n] = "e"
    [] part = "sign" -> s + 1 < n /\ Decimal(s, n - 2) /\ src[n - 1] = "e" /\ src[n] \in {"+", "-"}
    [] part = "expdigits" -> \E b \in s..n - 1 : Decimal(s, b) /\ IsExp(b, n)
NumberSoFar(part, i, n) ==
  src[i + 1] \in {"-"} \cup Digits /\ NumberFrom(part, DigitsFrom(i), n)

\* The tokens are lexemes that tile the source.
Tiled ==
  \A k \in DOMAIN toks :
    LET t == toks[k]
        before == IF k = 1 THEN 0 ELSE toks[k - 1].upTo
    IN  /\ Lexeme(t.kind, t.from, t.upTo)
        /\ before <= t.from /\ In(before, t.from, Blanks)
\* Between tokens there are blanks only; within one, what has been read of it.
Between == mode = "next" => LastEnd \in 0..at.offset /\ In(LastEnd, at.offset, Blanks)
Within ==
  /\ mode \in {"line", "block", "string"} \cup NumberParts => IsNext(start.offset)
  /\ mode = "line" => LineSoFar(start.offset, at.offset)
  /\ mode = "block" => BlockSoFar(start.offset, at.offset)
  /\ mode = "string" => StringSoFar(start.offset, at.offset)
  /\ mode \in NumberParts => NumberSoFar(mode, start.offset, at.offset)
\* A source is refused where no lexeme starts.
Barren(n) == \A kind \in TokenKinds : \A j \in n..Len(src) : ~Lexeme(kind, n, j)
Justified ==
  mode = "failed" => \E n \in 0..Len(src) : IsNext(n) /\ Barren(n) /\ err.offset \in n..at.offset

Lexed == Tiled /\ Between /\ Within /\ Justified

\* These are about the source only, which no step changes.
LEMMA BytesKept ==
  ASSUME UNCHANGED src, NEW i, NEW j, NEW B
  PROVE  /\ In(i, j, B)' <=> In(i, j, B)
         /\ Slice(i, j)' = Slice(i, j)
         /\ Escaped(i, j)' <=> Escaped(i, j)
BY DEF In, Slice, Escaped, BackslashesBefore

LEMMA NumbersKept ==
  ASSUME UNCHANGED src, NEW i, NEW j
  PROVE  /\ DigitRun(i, j)' <=> DigitRun(i, j)
         /\ IsInt(i, j)' <=> IsInt(i, j)
         /\ IsFrac(i, j)' <=> IsFrac(i, j)
         /\ IsExp(i, j)' <=> IsExp(i, j)
         /\ IsNumber(i, j)' <=> IsNumber(i, j)
         /\ NumberStops(i, j)' <=> NumberStops(i, j)
<1>1. DigitRun(i, j)' <=> DigitRun(i, j)
  BY DEF DigitRun, In
<1>2. IsInt(i, j)' <=> IsInt(i, j)
  BY DEF IsInt, DigitRun, In
<1>3. IsFrac(i, j)' <=> IsFrac(i, j)
  BY DEF IsFrac, DigitRun, In
<1>4. IsExp(i, j)' <=> IsExp(i, j)
  BY DEF IsExp, DigitRun, In
<1>5. IsNumber(i, j)' <=> IsNumber(i, j)
  BY DEF IsNumber, IsInt, IsFrac, IsExp, DigitRun, In
<1>6. NumberStops(i, j)' <=> NumberStops(i, j)
  BY DEF NumberStops, IsInt, DigitRun, In
<1>7. QED
  BY <1>1, <1>2, <1>3, <1>4, <1>5, <1>6

LEMMA LexemesKept ==
  ASSUME UNCHANGED src, NEW kind, NEW i, NEW j
  PROVE  Lexeme(kind, i, j)' <=> Lexeme(kind, i, j)
<1>1. IsString(i, j)' <=> IsString(i, j)
  BY DEF IsString, Escaped, BackslashesBefore
<1>2. IsLineComment(i, j)' <=> IsLineComment(i, j)
  BY DEF IsLineComment, In, Slice
<1>3. IsBlockComment(i, j)' <=> IsBlockComment(i, j)
  BY DEF IsBlockComment, In, Slice
<1>4. IsNumber(i, j)' /\ NumberStops(i, j)' <=> IsNumber(i, j) /\ NumberStops(i, j)
  BY NumbersKept
<1> HIDE DEF IsString, IsLineComment, IsBlockComment, IsNumber, NumberStops
<1>5. QED
  BY <1>1, <1>2, <1>3, <1>4 DEF Lexeme, Slice

LEMMA ReadKept ==
  ASSUME UNCHANGED src, NEW i, NEW n, NEW part
  PROVE  /\ LineSoFar(i, n)' <=> LineSoFar(i, n)
         /\ BlockSoFar(i, n)' <=> BlockSoFar(i, n)
         /\ StringSoFar(i, n)' <=> StringSoFar(i, n)
         /\ NumberSoFar(part, i, n)' <=> NumberSoFar(part, i, n)
<1>1. LineSoFar(i, n)' <=> LineSoFar(i, n)
  BY DEF LineSoFar, In
<1>2. BlockSoFar(i, n)' <=> BlockSoFar(i, n)
  BY DEF BlockSoFar, In
<1>3. StringSoFar(i, n)' <=> StringSoFar(i, n)
  BY DEF StringSoFar, Escaped, BackslashesBefore
<1>4. NumberSoFar(part, i, n)' <=> NumberSoFar(part, i, n)
  BY DEF NumberSoFar, NumberFrom, DigitsFrom, Decimal, IsInt, IsFrac, IsExp, DigitRun, In
<1>5. QED
  BY <1>1, <1>2, <1>3, <1>4

-----------------------------------------------------------------------------
(* Slices. *)

LEMMA SliceBytes ==
  ASSUME TypeOK, NEW i \in Nat, NEW j \in Nat, i <= j, j <= Len(src)
  PROVE  /\ Len(Slice(i, j)) = j - i
         /\ \A k \in 1..j - i : Slice(i, j)[k] = src[i + k]
         /\ Slice(i, j) \in Seq(Byte)
<1>1. src \in Seq(Byte) /\ Len(src) \in Nat /\ i + 1 \in Int /\ j \in Int /\ i + 1 <= j + 1
  BY Lengths DEF TypeOK
<1>2. CASE i + 1 <= j
  <2>1. i + 1 \in 1..Len(src) + 1 /\ j \in i..Len(src)
    BY <1>1, <1>2
  <2>2. QED
    BY <1>1, <1>2, <2>1, SubSeqProperties DEF Slice
<1>3. CASE i = j
  BY <1>1, <1>3, SubSeqProperties DEF Slice
<1>4. QED
  BY <1>2, <1>3

LEMMA SliceIs ==
  ASSUME TypeOK, NEW i \in Nat, NEW j \in Nat, i <= j, j <= Len(src), NEW w \in Seq(Byte),
         Len(w) = j - i, \A k \in 1..j - i : w[k] = src[i + k]
  PROVE  Slice(i, j) = w
<1>1. /\ Len(Slice(i, j)) = j - i /\ \A k \in 1..j - i : Slice(i, j)[k] = src[i + k]
      /\ Slice(i, j) \in Seq(Byte)
  BY SliceBytes
<1>2. Len(Slice(i, j)) = Len(w) /\ \A k \in 1..Len(w) : Slice(i, j)[k] = w[k]
  BY <1>1
<1>3. QED
  BY <1>1, <1>2, SeqEqual

LEMMA SourceByte ==
  ASSUME TypeOK, NEW n \in Nat, n < Len(src)
  PROVE  src[n + 1] \in Byte
<1>1. src \in Seq(Byte) /\ n + 1 \in 1..Len(src)
  BY Lengths DEF TypeOK
<1>2. QED
  BY <1>1, ElementOfSeq

LEMMA SliceOne ==
  ASSUME TypeOK, NEW i \in Nat, NEW j \in Nat, i <= j, j <= Len(src), NEW x
  PROVE  Slice(i, j) = <<x>> <=> j = i + 1 /\ src[i + 1] = x
<1>1. /\ Len(Slice(i, j)) = j - i /\ \A k \in 1..j - i : Slice(i, j)[k] = src[i + k]
  BY SliceBytes
<1>2. ASSUME Slice(i, j) = <<x>> PROVE j = i + 1 /\ src[i + 1] = x
  BY <1>1, <1>2
<1>3. ASSUME j = i + 1, src[i + 1] = x PROVE Slice(i, j) = <<x>>
  <2>1. x \in Byte
    <3>1. i < Len(src)
      BY <1>3, Lengths
    <3>2. QED
      BY <1>3, <3>1, SourceByte
  <2>2. <<x>> \in Seq(Byte) /\ Len(<<x>>) = j - i /\ \A k \in 1..j - i : <<x>>[k] = src[i + k]
    BY <1>3, <2>1
  <2>3. QED
    BY <2>2, SliceIs
<1>4. QED
  BY <1>2, <1>3

LEMMA SliceTwo ==
  ASSUME TypeOK, NEW i \in Nat, NEW j \in Nat, i <= j, j <= Len(src), NEW x, NEW y
  PROVE  Slice(i, j) = <<x, y>> <=> j = i + 2 /\ src[i + 1] = x /\ src[i + 2] = y
<1>1. /\ Len(Slice(i, j)) = j - i /\ \A k \in 1..j - i : Slice(i, j)[k] = src[i + k]
  BY SliceBytes
<1>2. ASSUME Slice(i, j) = <<x, y>> PROVE j = i + 2 /\ src[i + 1] = x /\ src[i + 2] = y
  BY <1>1, <1>2
<1>3. ASSUME j = i + 2, src[i + 1] = x, src[i + 2] = y PROVE Slice(i, j) = <<x, y>>
  <2>1. x \in Byte
    <3>1. i < Len(src)
      BY <1>3, Lengths
    <3>2. QED
      BY <1>3, <3>1, SourceByte
  <2>2. y \in Byte
    <3>1. (i + 1) + 1 = i + 2 /\ i + 1 \in Nat /\ i + 1 < Len(src)
      BY <1>3, Lengths
    <3>2. src[(i + 1) + 1] \in Byte
      BY <3>1, SourceByte
    <3>3. QED
      BY <1>3, <3>1, <3>2
  <2>3. /\ <<x, y>> \in Seq(Byte) /\ Len(<<x, y>>) = j - i
        /\ \A k \in 1..j - i : <<x, y>>[k] = src[i + k]
    BY <1>3, <2>1, <2>2
  <2>4. QED
    BY <2>3, SliceIs
<1>4. QED
  BY <1>2, <1>3

\* The same at a known end.
LEMMA TwoBytes ==
  ASSUME TypeOK, NEW i \in Nat, i + 2 <= Len(src), NEW x, NEW y
  PROVE  Slice(i, i + 2) = <<x, y>> <=> src[i + 1] = x /\ src[i + 2] = y
<1>1. PICK j \in Nat : j = i + 2 /\ i <= j /\ j <= Len(src)
  OBVIOUS
<1>2. /\ Len(Slice(i, j)) = j - i /\ \A k \in 1..j - i : Slice(i, j)[k] = src[i + k]
  BY <1>1, SliceBytes
<1>3. ASSUME Slice(i, j) = <<x, y>> PROVE src[i + 1] = x /\ src[i + 2] = y
  BY <1>1, <1>2, <1>3
<1>4. ASSUME src[i + 1] = x, src[i + 2] = y PROVE Slice(i, j) = <<x, y>>
  <2>1. x \in Byte
    <3>1. i < Len(src)
      BY <1>1, Lengths
    <3>2. QED
      BY <1>4, <3>1, SourceByte
  <2>2. y \in Byte
    <3>1. (i + 1) + 1 = i + 2 /\ i + 1 \in Nat /\ i + 1 < Len(src)
      BY <1>1, Lengths
    <3>2. src[(i + 1) + 1] \in Byte
      BY <3>1, SourceByte
    <3>3. QED
      BY <1>4, <3>1, <3>2
  <2>3. /\ <<x, y>> \in Seq(Byte) /\ Len(<<x, y>>) = j - i
        /\ \A k \in 1..j - i : <<x, y>>[k] = src[i + k]
    BY <1>1, <1>4, <2>1, <2>2
  <2>4. QED
    BY <1>1, <2>3, SliceIs
<1>5. QED
  BY <1>1, <1>3, <1>4

\* A keyword is one of two, of four bytes.
LEMMA WordBytes ==
  ASSUME NEW b \in DOMAIN Words
  PROVE  /\ b \in {"t", "n"} /\ Words[b] \in Seq(Byte) /\ Len(Words[b]) = 4 /\ Words[b][1] = b
         /\ \A k \in 1..4 : Words[b][k] \notin {"cr", "lf"}
<1>1. b \in {"t", "n"} /\ Words[b] = IF b = "t" THEN <<"t", "r", "u", "e">> ELSE <<"n", "u", "l", "l">>
  BY DEF Words
<1>2. CASE b = "t"
  <2>1. Words[b] = <<"t", "r", "u", "e">> /\ {"t", "r", "u", "e"} \subseteq Byte
    BY <1>1, <1>2 DEF Byte, Letters
  <2>2. QED
    BY <1>2, <2>1
<1>3. CASE b = "n"
  <2>1. Words[b] = <<"n", "u", "l", "l">> /\ {"n", "u", "l"} \subseteq Byte
    BY <1>1, <1>3 DEF Byte, Letters
  <2>2. QED
    BY <1>3, <2>1
<1>4. QED
  BY <1>1, <1>2, <1>3

LEMMA SliceWord ==
  ASSUME TypeOK, NEW i \in Nat, NEW j \in Nat, i <= j, j <= Len(src), NEW b \in DOMAIN Words,
         Slice(i, j) = Words[b]
  PROVE  j = i + 4 /\ src[i + 1] = b
<1>1. /\ Len(Slice(i, j)) = j - i /\ \A k \in 1..j - i : Slice(i, j)[k] = src[i + k]
  BY SliceBytes
<1>2. Len(Words[b]) = 4 /\ Words[b][1] = b
  BY WordBytes
<1>3. j - i = 4
  BY <1>1, <1>2
<1>4. Slice(i, j)[1] = src[i + 1]
  BY <1>1, <1>3
<1>5. QED
  BY <1>2, <1>3, <1>4

\* What a lexeme that starts at i < Len(src) begins with.
LEMMA LexemeStarts ==
  ASSUME TypeOK, NEW i \in Nat, NEW j \in Nat, i < Len(src), i <= j, j <= Len(src),
         NEW kind \in TokenKinds, Lexeme(kind, i, j)
  PROVE  \/ kind = "nl" /\ src[i + 1] \in {"cr", "lf"}
         \/ kind \in Punctuation /\ src[i + 1] = kind
         \/ kind = "line" /\ IsLineComment(i, j) /\ src[i + 1] = "/" /\ i + 2 <= j /\ src[i + 2] = "/"
         \/ kind = "block" /\ IsBlockComment(i, j) /\ src[i + 1] = "/" /\ i + 2 <= j /\ src[i + 2] = "*"
         \/ kind = "string" /\ IsString(i, j) /\ src[i + 1] = "quote"
         \/ kind = "number" /\ IsNumber(i, j) /\ NumberStops(i, j) /\ src[i + 1] \in {"-"} \cup Digits
         \/ /\ kind = "word" /\ src[i + 1] \in DOMAIN Words /\ j = i + 4
            /\ Slice(i, j) = Words[src[i + 1]]
            /\ j < Len(src) => src[j + 1] \notin Letters \cup Digits \cup {"_"}
<1>1. CASE kind = "nl"
  <2>1. \/ Slice(i, j) = <<"cr">> \/ Slice(i, j) = <<"lf">> \/ Slice(i, j) = <<"cr", "lf">>
    BY <1>1 DEF Lexeme, Punctuation
  <2>2. Slice(i, j) = <<"cr">> => src[i + 1] = "cr"
    BY SliceOne
  <2>3. Slice(i, j) = <<"lf">> => src[i + 1] = "lf"
    BY SliceOne
  <2>4. Slice(i, j) = <<"cr", "lf">> => src[i + 1] = "cr"
    BY SliceTwo
  <2>5. QED
    BY <1>1, <2>1, <2>2, <2>3, <2>4
<1>2. CASE kind \in Punctuation
  <2>1. Slice(i, j) = <<kind>>
    BY <1>2 DEF Lexeme, Punctuation
  <2>2. QED
    BY <1>2, <2>1, SliceOne
<1>3. CASE kind = "line"
  <2>1. IsLineComment(i, j)
    BY <1>3 DEF Lexeme, Punctuation
  <2>2. i + 2 \in Nat /\ i + 2 <= j /\ i + 2 <= Len(src) /\ Slice(i, i + 2) = <<"/", "/">>
    BY <2>1, Lengths DEF IsLineComment
  <2>3. src[i + 1] = "/" /\ src[i + 2] = "/"
    BY <2>2, TwoBytes
  <2>4. QED
    BY <1>3, <2>1, <2>2, <2>3
<1>4. CASE kind = "block"
  <2>1. IsBlockComment(i, j)
    BY <1>4 DEF Lexeme, Punctuation
  <2>2. i + 2 \in Nat /\ i + 2 <= j /\ i + 2 <= Len(src) /\ Slice(i, i + 2) = <<"/", "*">>
    BY <2>1, Lengths DEF IsBlockComment
  <2>3. src[i + 1] = "/" /\ src[i + 2] = "*"
    BY <2>2, TwoBytes
  <2>4. QED
    BY <1>4, <2>1, <2>2, <2>3
<1>5. CASE kind = "string"
  <2>1. IsString(i, j)
    BY <1>5 DEF Lexeme, Punctuation
  <2>2. QED
    BY <1>5, <2>1 DEF IsString
<1>6. CASE kind = "number"
  <2>1. IsNumber(i, j) /\ NumberStops(i, j)
    BY <1>6 DEF Lexeme, Punctuation
  <2>2. src[i + 1] \in {"-"} \cup Digits
    BY <2>1 DEF IsNumber, IsInt, DigitRun, In
  <2>3. QED
    BY <1>6, <2>1, <2>2
<1>7. CASE kind = "word"
  <2>1. PICK b \in DOMAIN Words :
          /\ Slice(i, j) = Words[b]
          /\ j < Len(src) => src[j + 1] \notin Letters \cup Digits \cup {"_"}
    BY <1>7 DEF Lexeme, Punctuation
  <2>2. j = i + 4 /\ src[i + 1] = b
    BY <2>1, SliceWord
  <2>3. QED
    BY <1>7, <2>1, <2>2
<1>8. CASE kind = "eof"
  BY <1>8 DEF Lexeme, Punctuation
<1>9. QED
  BY <1>1, <1>2, <1>3, <1>4, <1>5, <1>6, <1>7, <1>8 DEF TokenKinds

-----------------------------------------------------------------------------
(* The tokens so far and the one after them. *)

LEMMA TokenEnds ==
  ASSUME TypeOK
  PROVE  /\ Len(toks) \in Nat /\ DOMAIN toks = 1..Len(toks)
         /\ LastEnd = IF Len(toks) = 0 THEN 0 ELSE toks[Len(toks)].upTo
         /\ LastEnd \in Nat
<1>1. toks \in Seq(TokenSet)
  BY DEF TypeOK, TokenSet
<1>2. /\ Len(toks) \in Nat /\ DOMAIN toks = 1..Len(toks)
      /\ toks = <<>> <=> Len(toks) = 0
  BY <1>1, LenProperties, EmptySeq
<1>3. LastEnd = IF Len(toks) = 0 THEN 0 ELSE toks[Len(toks)].upTo
  BY <1>2 DEF LastEnd, Last
<1>4. CASE Len(toks) = 0
  BY <1>2, <1>3, <1>4
<1>5. CASE Len(toks) # 0
  <2>1. Len(toks) \in 1..Len(toks)
    BY <1>2, <1>5
  <2>2. toks[Len(toks)] \in TokenSet
    BY <1>1, <2>1, ElementOfSeq
  <2>3. QED
    BY <1>2, <1>3, <1>5, <2>2 DEF TokenSet
<1>6. QED
  BY <1>4, <1>5

\* One place starts the next token.
LEMMA NextUnique ==
  ASSUME TypeOK, NEW n, NEW m, IsNext(n), IsNext(m)
  PROVE  n = m
<1>1. n \in LastEnd..Len(src) - 1 /\ m \in LastEnd..Len(src) - 1 /\ LastEnd \in Nat /\ Len(src) \in Nat
  BY TokenEnds, Lengths DEF IsNext
<1>2. n < m => src[n + 1] \in Blanks
  BY <1>1 DEF IsNext, In
<1>3. m < n => src[m + 1] \in Blanks
  BY <1>1 DEF IsNext, In
<1>4. QED
  BY <1>1, <1>2, <1>3 DEF IsNext

\* What the invariant says is what is promised.
LEMMA LexedSuffices ==
  ASSUME TypeOK, Lexed
  PROVE  TokensAreLexemes
<1>1. ASSUME mode = "failed"
      PROVE  LET done == IF toks = <<>> THEN 0 ELSE Last(toks).upTo
                 from == CHOOSE n \in done..Len(src) - 1 :
                           In(done, n, Blanks) /\ src[n + 1] \notin Blanks
             IN  /\ \A kind \in TokenKinds : \A j \in from..Len(src) : ~Lexeme(kind, from, j)
                 /\ err.offset \in from..at.offset
  <2> DEFINE from == CHOOSE n \in LastEnd..Len(src) - 1 :
                       In(LastEnd, n, Blanks) /\ src[n + 1] \notin Blanks
  <2>1. PICK n \in 0..Len(src) : IsNext(n) /\ Barren(n) /\ err.offset \in n..at.offset
    BY <1>1 DEF Lexed, Justified
  <2>2. \E m \in LastEnd..Len(src) - 1 : In(LastEnd, m, Blanks) /\ src[m + 1] \notin Blanks
    BY <2>1 DEF IsNext
  <2>3. /\ from \in LastEnd..Len(src) - 1
        /\ In(LastEnd, from, Blanks) /\ src[from + 1] \notin Blanks
    BY <2>2
  <2>4. IsNext(from)
    BY <2>3 DEF IsNext
  <2>5. from = n
    <3> HIDE DEF from
    <3> QED
      BY <2>1, <2>4, NextUnique
  <2>6. /\ \A kind \in TokenKinds : \A j \in from..Len(src) : ~Lexeme(kind, from, j)
        /\ err.offset \in from..at.offset
    <3> HIDE DEF from
    <3> QED
      BY <2>1, <2>5 DEF Barren
  <2>7. QED
    BY <2>6 DEF LastEnd
<1>2. QED
  BY <1>1 DEF Lexed, Tiled, TokensAreLexemes

LEMMA NextKept ==
  ASSUME UNCHANGED <<src, toks>>, NEW n
  PROVE  IsNext(n)' <=> IsNext(n)
BY DEF IsNext, LastEnd, In

LEMMA TiledSame ==
  ASSUME Tiled, UNCHANGED <<src, toks>>
  PROVE  Tiled'
<1>1. SUFFICES ASSUME NEW k \in DOMAIN toks
               PROVE  LET t == toks[k]
                          before == IF k = 1 THEN 0 ELSE toks[k - 1].upTo
                      IN  /\ Lexeme(t.kind, t.from, t.upTo)'
                          /\ before <= t.from /\ In(before, t.from, Blanks)'
  BY DEF Tiled
<1>2. PICK t, b : t = toks[k] /\ b = IF k = 1 THEN 0 ELSE toks[k - 1].upTo
  OBVIOUS
<1>3. PICK kind, i, j : kind = t.kind /\ i = t.from /\ j = t.upTo
  OBVIOUS
<1>4. Lexeme(kind, i, j) /\ b <= i /\ In(b, i, Blanks)
  BY <1>2, <1>3 DEF Tiled
<1>5. Lexeme(kind, i, j)' /\ In(b, i, Blanks)'
  BY <1>4, LexemesKept, BytesKept
<1>6. QED
  BY <1>2, <1>3, <1>4, <1>5

\* A step that appends a token.
LEMMA TiledMore ==
  ASSUME TypeOK, Tiled, UNCHANGED src, NEW t, toks' = Append(toks, t),
         Lexeme(t.kind, t.from, t.upTo), LastEnd <= t.from, In(LastEnd, t.from, Blanks)
  PROVE  Tiled' /\ LastEnd' = t.upTo
<1>1. Len(toks) \in Nat /\ DOMAIN toks = 1..Len(toks) /\ toks \in Seq(TokenSet)
  BY TokenEnds DEF TypeOK, TokenSet
<1>2. /\ Len(toks') = Len(toks) + 1 /\ DOMAIN toks' = 1..Len(toks) + 1
      /\ \A k \in 1..Len(toks) : toks'[k] = toks[k]
      /\ toks'[Len(toks) + 1] = t
  BY <1>1
<1>3. LastEnd' = t.upTo
  <2>1. toks' # <<>>
    BY <1>1, <1>2
  <2>2. QED
    BY <1>2, <2>1 DEF LastEnd, Last
<1>4. ASSUME NEW k \in 1..Len(toks) + 1
      PROVE  (LET u == toks[k]
                  before == IF k = 1 THEN 0 ELSE toks[k - 1].upTo
              IN  /\ Lexeme(u.kind, u.from, u.upTo)
                  /\ before <= u.from /\ In(before, u.from, Blanks))'
  <2>1. PICK u, b : u = toks'[k] /\ b = IF k = 1 THEN 0 ELSE toks'[k - 1].upTo
    OBVIOUS
  <2>2. PICK kind, i, j : kind = u.kind /\ i = u.from /\ j = u.upTo
    OBVIOUS
  <2>3. Lexeme(kind, i, j) /\ b <= i /\ In(b, i, Blanks)
    <3>1. CASE k = Len(toks) + 1
      <4>1. u = t
        BY <1>2, <2>1, <3>1
      <4>2. b = LastEnd
        <5>1. CASE Len(toks) = 0
          BY <5>1, <2>1, <3>1, TokenEnds
        <5>2. CASE Len(toks) # 0
          <6>1. k - 1 = Len(toks) /\ k # 1 /\ k - 1 \in 1..Len(toks)
            BY <1>1, <3>1, <5>2
          <6>2. QED
            BY <1>2, <2>1, <5>2, <6>1, TokenEnds
        <5>3. QED
          BY <5>1, <5>2
      <4>3. QED
        BY <2>2, <4>1, <4>2
    <3>2. CASE k # Len(toks) + 1
      <4>1. k \in DOMAIN toks /\ (k # 1 => k - 1 \in 1..Len(toks))
        BY <1>1, <1>4, <3>2
      <4>2. u = toks[k] /\ b = IF k = 1 THEN 0 ELSE toks[k - 1].upTo
        BY <1>1, <1>2, <2>1, <4>1
      <4>3. QED
        BY <2>2, <4>1, <4>2 DEF Tiled
    <3>3. QED
      BY <3>1, <3>2
  <2>4. Lexeme(kind, i, j)' /\ In(b, i, Blanks)'
    BY <2>3, LexemesKept, BytesKept
  <2>5. QED
    BY <2>1, <2>2, <2>3, <2>4
<1>5. Tiled'
  BY <1>2, <1>4 DEF Tiled
<1>6. QED
  BY <1>3, <1>5

-----------------------------------------------------------------------------
(* The kinds of steps. *)

Inside == {"line", "block", "string"} \cup NumberParts
\* What has been read of a token of this mode from i to n.
Reading(m, i, n) ==
  /\ m = "line" => LineSoFar(i, n)
  /\ m = "block" => BlockSoFar(i, n)
  /\ m = "string" => StringSoFar(i, n)
  /\ m \in NumberParts => NumberSoFar(m, i, n)

\* A token is returned.
LEMMA TokenReturned ==
  ASSUME TypeOK, Lexed, NEW kind, NEW pos, NEW from \in Nat, NEW to \in Position, NEW text,
         Emit(kind, pos, from, to, text),
         Lexeme(kind, from, to.offset), LastEnd <= from, In(LastEnd, from, Blanks)
  PROVE  Lexed'
<1>1. PICK t : t = Token(kind, pos, from, to.offset, text)
  OBVIOUS
<1>2. t.kind = kind /\ t.from = from /\ t.upTo = to.offset /\ to.offset \in Nat
  BY <1>1 DEF Token, Position
<1>3. toks' = Append(toks, t) /\ at' = to /\ mode' = "next" /\ src' = src
  BY <1>1 DEF Emit
<1>4. Tiled' /\ LastEnd' = to.offset
  BY <1>2, <1>3, TiledMore DEF Lexed
<1>5. Between'
  <2>1. LastEnd' \in 0..at'.offset /\ at'.offset = LastEnd'
    BY <1>2, <1>3, <1>4
  <2>2. In(LastEnd, at.offset, Blanks)'
    BY <2>1, <1>2, <1>4 DEF In
  <2>3. QED
    BY <2>1, <2>2 DEF Between
<1>6. Within' /\ Justified'
  BY <1>3 DEF Within, Justified, NumberParts
<1>7. QED
  BY <1>4, <1>5, <1>6 DEF Lexed

\* A source is refused.
LEMMA SourceRefused ==
  ASSUME TypeOK, Lexed, NEW pos, Fail(pos), NEW n \in 0..Len(src), IsNext(n), Barren(n),
         pos.offset \in n..at.offset
  PROVE  Lexed'
<1>1. UNCHANGED <<src, toks, at>> /\ mode' = "failed" /\ err' = pos
  BY DEF Fail
<1>2. Tiled' /\ IsNext(n)'
  BY <1>1, TiledSame, NextKept DEF Lexed
<1>3. Barren(n)'
  <2>1. SUFFICES ASSUME NEW kind \in TokenKinds, NEW j \in n..Len(src) PROVE ~Lexeme(kind, n, j)'
    BY <1>1 DEF Barren
  <2>2. ~Lexeme(kind, n, j)
    BY DEF Barren
  <2>3. QED
    BY <1>1, <2>2, LexemesKept
<1>4. Justified'
  BY <1>1, <1>2, <1>3 DEF Justified
<1>5. Between' /\ Within'
  BY <1>1 DEF Between, Within, NumberParts
<1>6. QED
  BY <1>2, <1>4, <1>5 DEF Lexed

\* A byte of a token is read, or its first ones.
LEMMA TokenRead ==
  ASSUME TypeOK, Lexed, UNCHANGED <<src, toks>>, mode' \in Inside, NEW i, i = start'.offset,
         IsNext(i), NEW n, n = at'.offset, NEW m, m = mode', Reading(m, i, n)
  PROVE  Lexed'
<1>1. Tiled' /\ IsNext(i)'
  BY TiledSame, NextKept DEF Lexed
<1>2. Reading(m, i, n)'
  BY ReadKept DEF Reading
<1>3. Within'
  BY <1>1, <1>2 DEF Within, Reading
<1>4. Between' /\ Justified'
  BY DEF Between, Justified, Inside, NumberParts
<1>5. QED
  BY <1>1, <1>3, <1>4 DEF Lexed

\* A token starts at the scan, which has blanks only behind it.
LEMMA NextHere ==
  ASSUME TypeOK, Lexed, mode = "next", ~AtEnd, ByteAt(at.offset) \notin Blanks
  PROVE  /\ IsNext(at.offset) /\ at.offset \in 0..Len(src)
         /\ LastEnd <= at.offset /\ In(LastEnd, at.offset, Blanks) /\ at.offset \in Nat
<1>1. LastEnd \in 0..at.offset /\ In(LastEnd, at.offset, Blanks)
  BY DEF Lexed, Between
<1>2. at.offset < Len(src) /\ at.offset \in Nat /\ Len(src) \in Nat /\ LastEnd \in Nat
  BY SeenByte, Lengths, TokenEnds
<1>3. QED
  BY <1>1, <1>2 DEF IsNext, ByteAt

\* Within a token its start is known.
LEMMA NextStart ==
  ASSUME TypeOK, Lexed, mode \in Inside
  PROVE  /\ IsNext(start.offset) /\ start.offset \in 0..Len(src) - 1 /\ start.offset \in Nat
         /\ LastEnd <= start.offset /\ In(LastEnd, start.offset, Blanks)
         /\ start.offset \in 0..at.offset /\ at.offset \in 0..Len(src)
         /\ Reading(mode, start.offset, at.offset)
<1>1. IsNext(start.offset)
  BY DEF Lexed, Within, Inside
<1>2. Reading(mode, start.offset, at.offset)
  BY DEF Lexed, Within, Reading
<1>3. at.offset \in Nat /\ Len(src) \in Nat /\ LastEnd \in Nat /\ start.offset \in Nat
  BY Lengths, TokenEnds
<1>4. start.offset <= at.offset /\ at.offset \in 0..Len(src)
  BY DEF TypeOK
<1>5. QED
  BY <1>1, <1>2, <1>3, <1>4 DEF IsNext

-----------------------------------------------------------------------------
(* Between two tokens. *)

LEMMA MovedOffset == Moved(at).offset = at.offset + 1 /\ Moved(Moved(at)).offset = at.offset + 1 + 1
<1>1. ASSUME NEW p PROVE Moved(p).offset = p.offset + 1
  BY DEF Moved
<1>2. QED
  BY <1>1

LEMMA SkipBlankLexed ==
  ASSUME Inv, Lexed, SkipBlank
  PROVE  Lexed'
<1>1. /\ mode = "next" /\ mode' = "next" /\ at' = Moved(at) /\ UNCHANGED <<src, toks, start>>
      /\ src[at.offset + 1] \in Blanks
  BY SeenByte DEF SkipBlank, Advance, Inv
<1>2. at'.offset = at.offset + 1 /\ at.offset \in Nat
  BY <1>1, MovedOffset, Lengths DEF Inv
<1>3. LastEnd' = LastEnd /\ LastEnd \in Nat
  BY <1>1, TokenEnds DEF LastEnd, Inv
<1>4. LastEnd \in 0..at.offset /\ In(LastEnd, at.offset, Blanks)
  BY <1>1 DEF Lexed, Between
<1>5. In(LastEnd, at.offset, Blanks)'
  <2>1. ASSUME NEW m \in LastEnd + 1..at.offset + 1 PROVE src[m] \in Blanks
    BY <1>1, <1>2, <1>3, <1>4, <2>1 DEF In
  <2>2. QED
    BY <1>1, <1>2, <1>3, <2>1 DEF In
<1>6. Between'
  BY <1>2, <1>3, <1>4, <1>5 DEF Between
<1>7. Tiled' /\ Within' /\ Justified'
  BY <1>1, TiledSame DEF Lexed, Within, Justified, NumberParts
<1>8. QED
  BY <1>6, <1>7 DEF Lexed

LEMMA EndOfInputLexed ==
  ASSUME Inv, Lexed, EndOfInput
  PROVE  Lexed'
<1>1. PICK t : t = Token("eof", at, at.offset, at.offset, <<>>)
  OBVIOUS
<1>2. t.kind = "eof" /\ t.from = at.offset /\ t.upTo = at.offset
  BY <1>1 DEF Token
<1>3. /\ mode = "next" /\ toks' = Append(toks, t) /\ mode' = "done" /\ src' = src
  BY <1>1 DEF EndOfInput
<1>4. at.offset = Len(src)
  BY Lengths DEF EndOfInput, AtEnd, Inv, TypeOK
<1>5. Lexeme("eof", at.offset, at.offset)
  BY <1>4 DEF Lexeme, Punctuation
<1>6. LastEnd <= at.offset /\ In(LastEnd, at.offset, Blanks)
  <2>1. LastEnd \in 0..at.offset /\ In(LastEnd, at.offset, Blanks)
    BY <1>3 DEF Lexed, Between
  <2>2. QED
    BY <2>1, Lengths DEF Inv
<1>7. Tiled'
  BY <1>2, <1>3, <1>5, <1>6, TiledMore DEF Lexed, Inv
<1>8. Between' /\ Within' /\ Justified'
  BY <1>3 DEF Between, Within, Justified, NumberParts
<1>9. QED
  BY <1>7, <1>8 DEF Lexed

\* A line break takes the LF after a CR along.
LEMMA BreakLexeme ==
  ASSUME TypeOK, NEW i \in Nat, i < Len(src), src[i + 1] \in {"cr", "lf"}, NEW j \in Nat, j <= Len(src),
         j = IF src[i + 1] = "cr" /\ i + 2 <= Len(src) /\ src[i + 2] = "lf" THEN i + 2 ELSE i + 1
  PROVE  Lexeme("nl", i, j)
<1>1. Len(src) \in Nat /\ i <= j
  BY Lengths
<1>2. PICK w : w = <<"cr", "lf">>
  OBVIOUS
<1>3. ASSUME NEW l \in Nat, i <= l, l <= Len(src)
      PROVE  Slice(i, l) = <<"cr", "lf">> <=> l = i + 2 /\ src[i + 1] = "cr" /\ src[i + 2] = "lf"
  <2>1. w \in Seq(Byte) /\ Len(w) = 2 /\ w[1] = "cr" /\ w[2] = "lf"
    BY <1>2 DEF Byte, Controls
  <2>2. /\ Len(Slice(i, l)) = l - i /\ \A k \in 1..l - i : Slice(i, l)[k] = src[i + k]
    BY <1>3, SliceBytes
  <2>3. ASSUME Slice(i, l) = w PROVE l = i + 2 /\ src[i + 1] = "cr" /\ src[i + 2] = "lf"
    <3>1. l - i = 2
      BY <2>1, <2>2, <2>3
    <3>2. Slice(i, l)[1] = src[i + 1] /\ Slice(i, l)[2] = src[i + 2]
      BY <2>2, <3>1
    <3>3. QED
      BY <1>3, <2>1, <2>3, <3>1, <3>2
  <2>4. ASSUME l = i + 2, src[i + 1] = "cr", src[i + 2] = "lf" PROVE Slice(i, l) = w
    <3>1. Len(w) = l - i /\ \A k \in 1..l - i : w[k] = src[i + k]
      BY <2>1, <2>4
    <3>2. QED
      BY <1>3, <2>1, <3>1, SliceIs
  <2>5. QED
    BY <1>2, <2>3, <2>4
<1>4. Slice(i, j) \in {<<"cr">>, <<"lf">>, <<"cr", "lf">>}
  <2>1. CASE j = i + 2
    <3>1. Slice(i, j) = <<"cr", "lf">>
      BY <1>1, <1>3, <2>1
    <3>2. QED
      BY <3>1
  <2>2. CASE j = i + 1
    <3>1. PICK z : z = src[i + 1]
      OBVIOUS
    <3>2. Slice(i, j) = <<z>>
      BY <1>1, <2>2, <3>1, SliceOne
    <3>3. QED
      BY <3>1, <3>2
  <2>3. QED
    BY <2>1, <2>2
<1>5. ASSUME j < Len(src), Slice(i, j + 1) = <<"cr", "lf">> PROVE FALSE
  <2>1. PICK l \in Nat : l = j + 1 /\ i <= l /\ l <= Len(src)
    BY <1>1, <1>5
  <2>2. l = i + 2 /\ src[i + 1] = "cr" /\ src[i + 2] = "lf"
    BY <1>3, <1>5, <2>1
  <2>3. QED
    BY <1>1, <1>5, <2>1, <2>2
<1>6. QED
  BY <1>4, <1>5 DEF Lexeme, Punctuation

LEMMA NewlineLexed ==
  ASSUME Inv, Lexed, Newline
  PROVE  Lexed'
<1>1. PICK i, j : i = at.offset /\ j = OverBreak.offset
  OBVIOUS
<1>2. /\ mode = "next" /\ ~AtEnd /\ src[i + 1] \in {"cr", "lf"} /\ i \in Nat /\ i < Len(src)
      /\ Emit("nl", OverBreak, i, OverBreak, <<>>)
  BY <1>1, SeenByte, Lengths DEF Newline, Inv
<1>3. OverBreak \in Position /\ j \in Nat /\ j <= Len(src)
  BY <1>1, <1>2, AtOverBreak
<1>4. /\ i \in 0..Len(src) /\ LastEnd <= i /\ In(LastEnd, i, Blanks)
  BY <1>1, <1>2, NextHere DEF Inv, ByteAt, Blanks
<1>5. j = IF src[i + 1] = "cr" /\ i + 2 <= Len(src) /\ src[i + 2] = "lf" THEN i + 2 ELSE i + 1
  <2>1. Sees({"cr"}) <=> src[i + 1] = "cr"
    BY <1>1, <1>2 DEF Sees, ByteAt
  <2>2. SeesNext({"lf"}) <=> i + 2 <= Len(src) /\ src[i + 2] = "lf"
    BY <1>1, <1>2, Lengths DEF SeesNext, ByteAt, Inv
  <2>3. QED
    BY <1>1, <1>2, <2>1, <2>2, MovedOffset DEF OverBreak
<1>6. Lexeme("nl", i, j)
  BY <1>2, <1>3, <1>5, BreakLexeme DEF Inv
<1>7. QED
  BY <1>1, <1>2, <1>3, <1>4, <1>6, TokenReturned DEF Inv

LEMMA PunctuateLexed ==
  ASSUME Inv, Lexed, Punctuate
  PROVE  Lexed'
<1> DEFINE i == at.offset
<1>1. /\ mode = "next" /\ ~AtEnd /\ src[i + 1] \in Punctuation /\ i \in Nat /\ i < Len(src)
      /\ Len(src) \in Nat
      /\ Emit(src[i + 1], at, i, Moved(at), <<>>)
  BY SeenByte, Lengths DEF Punctuate, Inv, ByteAt
<1>2. Moved(at) \in Position /\ Moved(at).offset = i + 1
  BY <1>1, AtMoved
<1>3. /\ LastEnd <= i /\ In(LastEnd, i, Blanks)
  BY <1>1, NextHere DEF Inv, ByteAt, Blanks, Punctuation
<1>4. Lexeme(src[i + 1], i, i + 1)
  <2>1. Slice(i, i + 1) = <<src[i + 1]>>
    <3>1. PICK j \in Nat : j = i + 1 /\ i <= j /\ j <= Len(src)
      BY <1>1
    <3>2. QED
      BY <1>1, <3>1, SliceOne DEF Inv
  <2>2. QED
    BY <1>1, <2>1 DEF Lexeme, Punctuation
<1>5. QED
  BY <1>1, <1>2, <1>3, <1>4, TokenReturned DEF Inv

\* No lexeme starts with these bytes.
LEMMA NoLexeme ==
  ASSUME TypeOK, NEW i \in Nat, i < Len(src),
         src[i + 1] \notin {"cr", "lf", "quote", "-"} \cup Digits \cup Punctuation \cup DOMAIN Words,
         src[i + 1] = "/" /\ i + 2 <= Len(src) /\ src[i + 2] \in {"/", "*"} => StrictJSON
  PROVE  Barren(i)
<1> SUFFICES ASSUME NEW kind \in TokenKinds, NEW j \in i..Len(src), Lexeme(kind, i, j) PROVE FALSE
  BY DEF Barren
<1>1. j \in Nat /\ i <= j /\ j <= Len(src) /\ Len(src) \in Nat
  BY Lengths
<1>2. \/ kind = "line" /\ IsLineComment(i, j) /\ src[i + 1] = "/" /\ i + 2 <= j /\ src[i + 2] = "/"
      \/ kind = "block" /\ IsBlockComment(i, j) /\ src[i + 1] = "/" /\ i + 2 <= j /\ src[i + 2] = "*"
  BY <1>1, LexemeStarts
<1>3. ~StrictJSON
  BY <1>2 DEF IsLineComment, IsBlockComment
<1>4. QED
  BY <1>1, <1>2, <1>3

LEMMA UnexpectedLexed ==
  ASSUME Inv, Lexed, Unexpected
  PROVE  Lexed'
<1> DEFINE i == at.offset
<1>1. /\ mode = "next" /\ ~AtEnd /\ i \in Nat /\ i < Len(src) /\ Len(src) \in Nat /\ Fail(at)
  BY SeenByte, Lengths DEF Unexpected, Inv
<1>2. \/ src[i + 1] \notin Blanks \cup {"cr", "lf", "/", "quote", "-"} \cup Digits
                                  \cup Punctuation \cup DOMAIN Words
      \/ src[i + 1] = "/" /\ ~(i + 1 < Len(src) /\ src[i + 2] \in {"/", "*"})
  BY <1>1 DEF Unexpected, Sees, SeesNext, ByteAt
<1>3. src[i + 1] \notin {"cr", "lf", "quote", "-"} \cup Digits \cup Punctuation \cup DOMAIN Words
  BY <1>2 DEF Digits, Punctuation, Words
<1>4. Barren(i)
  BY <1>1, <1>2, <1>3, NoLexeme DEF Inv
<1>5. IsNext(i) /\ i \in 0..Len(src)
  BY <1>1, <1>2, NextHere DEF Inv, ByteAt, Blanks
<1>6. QED
  BY <1>1, <1>4, <1>5, SourceRefused DEF Inv

-----------------------------------------------------------------------------
(* Comments. *)

LEMMA SliceMark ==
  ASSUME TypeOK, NEW i \in Nat, i + 2 <= Len(src), NEW w \in Seq(Byte), Len(w) = 2
  PROVE  Slice(i, i + 2) = w <=> src[i + 1] = w[1] /\ src[i + 2] = w[2]
<1>1. PICK j \in Nat : j = i + 2 /\ i <= j /\ j <= Len(src) /\ j - i = 2
  OBVIOUS
<1>2. /\ Len(Slice(i, j)) = j - i /\ \A k \in 1..j - i : Slice(i, j)[k] = src[i + k]
  BY <1>1, SliceBytes
<1>3. Slice(i, j)[1] = src[i + 1] /\ Slice(i, j)[2] = src[i + 2]
  BY <1>1, <1>2
<1>4. ASSUME src[i + 1] = w[1], src[i + 2] = w[2] PROVE Slice(i, j) = w
  <2>1. Len(w) = j - i /\ \A k \in 1..j - i : w[k] = src[i + k]
    BY <1>1, <1>4
  <2>2. QED
    BY <1>1, <2>1, SliceIs
<1>5. QED
  BY <1>1, <1>3, <1>4

\* The three marks of comments.
LEMMA Marks ==
  ASSUME TypeOK, NEW i \in Nat, i + 2 <= Len(src)
  PROVE  /\ Slice(i, i + 2) = <<"/", "/">> <=> src[i + 1] = "/" /\ src[i + 2] = "/"
         /\ Slice(i, i + 2) = <<"/", "*">> <=> src[i + 1] = "/" /\ src[i + 2] = "*"
         /\ Slice(i, i + 2) = <<"*", "/">> <=> src[i + 1] = "*" /\ src[i + 2] = "/"
<1>1. PICK u, v, w : u = <<"/", "/">> /\ v = <<"/", "*">> /\ w = <<"*", "/">>
  OBVIOUS
<1>2. /\ u \in Seq(Byte) /\ Len(u) = 2 /\ u[1] = "/" /\ u[2] = "/"
      /\ v \in Seq(Byte) /\ Len(v) = 2 /\ v[1] = "/" /\ v[2] = "*"
      /\ w \in Seq(Byte) /\ Len(w) = 2 /\ w[1] = "*" /\ w[2] = "/"
  BY <1>1 DEF Byte
<1>3. /\ Slice(i, i + 2) = u <=> src[i + 1] = "/" /\ src[i + 2] = "/"
      /\ Slice(i, i + 2) = v <=> src[i + 1] = "/" /\ src[i + 2] = "*"
      /\ Slice(i, i + 2) = w <=> src[i + 1] = "*" /\ src[i + 2] = "/"
  BY <1>2, SliceMark
<1>4. QED
  BY <1>1, <1>3

LEMMA OpenCommentLexed ==
  ASSUME Inv, Lexed, OpenComment
  PROVE  Lexed'
<1>1. PICK i : i = at.offset
  OBVIOUS
<1>2. /\ mode = "next" /\ ~AtEnd /\ src[i + 1] = "/" /\ i \in Nat /\ i < Len(src) /\ Len(src) \in Nat
      /\ i + 2 <= Len(src) /\ src[i + 2] \in {"/", "*"}
  BY <1>1, SeenByte, Lengths DEF OpenComment, Inv
<1>3. IsNext(i) /\ i \in 0..Len(src)
  BY <1>1, <1>2, NextHere DEF Inv, ByteAt, Blanks
<1>4. CASE StrictJSON
  <2>1. Barren(i)
    BY <1>2, <1>4, NoLexeme DEF Inv, Digits, Punctuation, Words
  <2>2. Fail(at)
    BY <1>4 DEF OpenComment
  <2>3. QED
    BY <1>1, <1>2, <1>3, <2>1, <2>2, SourceRefused DEF Inv
<1>5. CASE ~StrictJSON
  <2>1. PICK m : m = IF SeesNext({"/"}) THEN "line" ELSE "block"
    OBVIOUS
  <2>2. Enter(m, 2)
    BY <1>5, <2>1 DEF OpenComment
  <2>3. UNCHANGED <<src, toks>> /\ mode' = m /\ start'.offset = i /\ at'.offset = i + 2
    BY <1>1, <2>2 DEF Enter, Along
  <2>4. m = "line" => src[i + 2] = "/"
    BY <1>1, <2>1, SeenByte DEF Inv
  <2>5. m = "block" => src[i + 2] = "*"
    BY <1>1, <1>2, <2>1 DEF SeesNext, ByteAt
  <2>6. \A B : {"/", "*"} \subseteq B => In(i, i + 2, B)
    BY <1>2 DEF In
  <2>7. {"/", "*"} \subseteq Byte \ {"cr", "lf", "ctl"} /\ {"/", "*"} \subseteq Byte \ {"ctl"}
    BY DEF Byte
  <2>8. In(i, i + 2, Byte \ {"cr", "lf", "ctl"}) /\ In(i, i + 2, Byte \ {"ctl"})
    BY <2>6, <2>7
  <2>9. Reading(m, i, i + 2)
    BY <1>2, <1>5, <2>1, <2>4, <2>5, <2>8 DEF Reading, LineSoFar, BlockSoFar, NumberParts
  <2>10. QED
    BY <1>3, <2>1, <2>3, <2>9, TokenRead DEF Inv, Inside
<1>6. QED
  BY <1>4, <1>5

LEMMA EndLineCommentLexed ==
  ASSUME Inv, Lexed, EndLineComment
  PROVE  Lexed'
<1>1. PICK i, n : i = start.offset /\ n = at.offset
  OBVIOUS
<1>2. mode = "line"
  BY DEF EndLineComment
<1>3. /\ IsNext(i) /\ i \in Nat /\ LastEnd <= i /\ In(LastEnd, i, Blanks)
      /\ n \in 0..Len(src) /\ LineSoFar(i, n) /\ Len(src) \in Nat
  BY <1>1, <1>2, NextStart, Lengths DEF Inv, Inside, Reading
<1>4. n < Len(src) => src[n + 1] \in {"cr", "lf"}
  BY <1>1, <1>3 DEF EndLineComment, AtEnd, Sees, ByteAt
<1>5. i + 2 <= n /\ src[i + 1] = "/" /\ src[i + 2] = "/" /\ i + 2 <= Len(src)
  BY <1>3 DEF LineSoFar
<1>6. Slice(i, i + 2) = <<"/", "/">>
  BY <1>3, <1>5, Marks DEF Inv
<1>7. Lexeme("line", i, n)
  BY <1>3, <1>4, <1>6 DEF Lexeme, Punctuation, IsLineComment, LineSoFar
<1>8. QED
  BY <1>1, <1>3, <1>7, TokenReturned DEF EndLineComment, Inv, TypeOK

LEMMA EndBlockCommentLexed ==
  ASSUME Inv, Lexed, EndBlockComment
  PROVE  Lexed'
<1>1. PICK i, n, j : i = start.offset /\ n = at.offset /\ j = n + 2
  OBVIOUS
<1>2. mode = "block"
  BY DEF EndBlockComment
<1>3. /\ IsNext(i) /\ i \in Nat /\ LastEnd <= i /\ In(LastEnd, i, Blanks)
      /\ n \in 0..Len(src) /\ BlockSoFar(i, n) /\ Len(src) \in Nat
  BY <1>1, <1>2, NextStart, Lengths DEF Inv, Inside, Reading
<1>4. n + 2 <= Len(src) /\ src[n + 1] = "*" /\ src[n + 2] = "/" /\ j \in Nat
  BY <1>1, <1>3, SeenByte DEF EndBlockComment, Inv
<1>5. i + 2 <= n /\ src[i + 1] = "/" /\ src[i + 2] = "*" /\ i + 2 <= Len(src)
  BY <1>3, <1>4 DEF BlockSoFar
<1>6. Slice(i, i + 2) = <<"/", "*">>
  BY <1>3, <1>5, Marks DEF Inv
<1>7. Slice(j - 2, j) = <<"*", "/">>
  <2>1. Slice(n, n + 2) = <<"*", "/">>
    BY <1>3, <1>4, Marks DEF Inv
  <2>2. j - 2 = n
    BY <1>1, <1>3
  <2>3. QED
    BY <1>1, <2>1, <2>2
<1>8. In(i, j, Byte \ {"ctl"})
  <2>1. "*" \in Byte \ {"ctl"} /\ "/" \in Byte \ {"ctl"}
    BY DEF Byte
  <2>2. In(i, n, Byte \ {"ctl"})
    BY <1>3 DEF BlockSoFar
  <2>3. ASSUME NEW m \in i + 1..j PROVE src[m] \in Byte \ {"ctl"}
    <3>1. m \in i + 1..n \/ m = n + 1 \/ m = n + 2
      BY <1>1, <1>3
    <3>2. QED
      BY <1>4, <2>1, <2>2, <3>1 DEF In
  <2>4. QED
    BY <2>3 DEF In
<1>9. \A m \in i + 2..j - 3 : Slice(m, m + 2) # <<"*", "/">>
  <2>1. SUFFICES ASSUME NEW m \in i + 2..j - 3 PROVE Slice(m, m + 2) # <<"*", "/">>
    OBVIOUS
  <2>2. m \in Nat /\ m + 2 <= Len(src) /\ m \in i + 2..n - 1
    BY <1>1, <1>3, <1>4
  <2>3. ~(src[m + 1] = "*" /\ src[m + 2] = "/")
    BY <1>3, <2>2 DEF BlockSoFar
  <2>4. QED
    BY <2>2, <2>3, Marks DEF Inv
<1>10. Lexeme("block", i, j)
  <2>1. i + 4 <= j
    BY <1>1, <1>3, <1>5
  <2>2. QED
    BY <1>3, <1>6, <1>7, <1>8, <1>9, <2>1 DEF Lexeme, Punctuation, IsBlockComment, BlockSoFar
<1>11. Along(at, 2) \in Position /\ Along(at, 2).offset = j
  <2>1. at \in Position
    BY DEF Inv, TypeOK
  <2>2. QED
    BY <1>1, <2>1 DEF Along, Position
<1>12. QED
  BY <1>1, <1>3, <1>10, <1>11, TokenReturned DEF EndBlockComment, Inv

LEMMA CommentByteLexed ==
  ASSUME Inv, Lexed, CommentByte \/ BlockCarriage
  PROVE  Lexed'
<1>1. PICK i, n, m : i = start.offset /\ n = at.offset /\ m = mode
  OBVIOUS
<1>2. /\ mode \in {"line", "block"} /\ ~AtEnd /\ UNCHANGED <<src, toks, start, mode>>
      /\ at' = Moved(at) \/ at' = OverBreak
  BY DEF CommentByte, BlockCarriage, Advance, Sees
<1>3. /\ IsNext(i) /\ n \in 0..Len(src) /\ Reading(m, i, n) /\ Len(src) \in Nat /\ i \in Nat
      /\ n < Len(src) /\ src[n + 1] \in Byte
  BY <1>1, <1>2, NextStart, Lengths, SeenByte DEF Inv, Inside, ByteAt
<1>4. CASE m = "line"
  <2>1. CommentByte /\ at' = Moved(at)
    BY <1>1, <1>4 DEF CommentByte, BlockCarriage, Advance
  <2>2. at'.offset = n + 1
    BY <1>1, <2>1, MovedOffset
  <2>3. src[n + 1] \in Byte \ {"cr", "lf", "ctl"}
    BY <1>1, <1>2, <1>3, <1>4, <2>1 DEF CommentByte, Sees, ByteAt
  <2>4. LineSoFar(i, n)
    BY <1>3, <1>4 DEF Reading
  <2>5. In(i, n + 1, Byte \ {"cr", "lf", "ctl"})
    BY <1>3, <2>3, <2>4 DEF LineSoFar, In
  <2>6. LineSoFar(i, n + 1)
    BY <1>3, <2>4, <2>5 DEF LineSoFar
  <2>7. QED
    BY <1>1, <1>2, <1>3, <1>4, <2>2, <2>6, TokenRead DEF Inv, Inside, Reading, NumberParts
<1>5. CASE m = "block"
  <2>1. BlockSoFar(i, n)
    BY <1>3, <1>5 DEF Reading
  \* One more byte, if it does not end the comment; a CR and its LF are two.
  <2>2. ASSUME NEW l \in Nat, i <= l, BlockSoFar(i, l), src[l + 1] \in Byte \ {"ctl"},
               l + 2 <= Len(src) => ~(src[l + 1] = "*" /\ src[l + 2] = "/")
        PROVE  BlockSoFar(i, l + 1)
    <3>1. In(i, l + 1, Byte \ {"ctl"})
      BY <1>3, <2>2 DEF BlockSoFar, In
    <3>2. ASSUME NEW k \in i + 2..(l + 1) - 1, k + 2 <= Len(src)
          PROVE  ~(src[k + 1] = "*" /\ src[k + 2] = "/")
      <4>1. k \in i + 2..l - 1 \/ k = l
        BY <1>3, <2>2
      <4>2. QED
        BY <2>2, <3>2, <4>1 DEF BlockSoFar
    <3>3. QED
      BY <1>3, <2>2, <3>1, <3>2 DEF BlockSoFar
  <2>3. src[n + 1] \in Byte \ {"ctl"} /\ (n + 2 <= Len(src) => ~(src[n + 1] = "*" /\ src[n + 2] = "/"))
    <3>1. CASE CommentByte
      BY <1>1, <1>2, <1>3, <1>5, <3>1 DEF CommentByte, Sees, SeesNext, ByteAt
    <3>2. CASE BlockCarriage
      BY <1>1, <1>2, <1>3, <3>2 DEF BlockCarriage, Sees, ByteAt
    <3>3. QED
      BY <3>1, <3>2
  <2>4. i <= n
    BY <1>3, <2>1 DEF BlockSoFar
  <2>5. BlockSoFar(i, n + 1)
    BY <1>3, <2>1, <2>2, <2>3, <2>4
  <2>6. CASE at' = Moved(at)
    <3>1. at'.offset = n + 1
      BY <1>1, <2>6, MovedOffset
    <3>2. QED
      BY <1>1, <1>2, <1>3, <1>5, <2>5, <3>1, TokenRead DEF Inv, Inside, Reading, NumberParts
  <2>7. CASE at' # Moved(at)
    <3>1. Sees({"cr"}) /\ SeesNext({"lf"}) /\ at' = Moved(Moved(at))
      BY <1>2, <2>7 DEF OverBreak
    <3>2. PICK l \in Nat : l = n + 1
      BY <1>3
    <3>3. at'.offset = l + 1 /\ src[l + 1] = "lf"
      BY <1>1, <1>3, <3>1, <3>2, MovedOffset, SeenByte DEF Inv
    <3>4. BlockSoFar(i, l + 1)
      <4>1. "lf" \in Byte \ {"ctl"}
        BY DEF Byte, Controls
      <4>2. i <= l /\ BlockSoFar(i, l) /\ src[l + 1] \in Byte \ {"ctl"} /\ src[l + 1] # "*"
        BY <1>3, <2>4, <2>5, <3>2, <3>3, <4>1
      <4>3. QED
        BY <2>2, <4>2
    <3>5. QED
      BY <1>1, <1>2, <1>3, <1>5, <3>3, <3>4, TokenRead DEF Inv, Inside, Reading, NumberParts
  <2>8. QED
    BY <2>6, <2>7
<1>6. QED
  BY <1>1, <1>2, <1>4, <1>5

\* A line comment with a byte that may not be in it.
LEMMA BadLine ==
  ASSUME TypeOK, NEW i \in Nat, i < Len(src), NEW n \in Nat, n < Len(src), LineSoFar(i, n), src[n + 1] = "ctl"
  PROVE  Barren(i)
<1> SUFFICES ASSUME NEW kind \in TokenKinds, NEW j \in i..Len(src), Lexeme(kind, i, j) PROVE FALSE
  BY DEF Barren
<1>1. j \in Nat /\ i <= j /\ j <= Len(src) /\ Len(src) \in Nat
  BY Lengths
<1>2. src[i + 1] = "/" /\ src[i + 2] = "/" /\ i + 2 <= n /\ In(i, n, Byte \ {"cr", "lf", "ctl"})
  BY DEF LineSoFar
<1>3. IsLineComment(i, j)
  BY <1>1, <1>2, LexemeStarts DEF Digits, Punctuation, Words
<1>4. n + 1 <= j => FALSE
  <2>1. n + 1 <= j => n + 1 \in i + 1..j
    BY <1>1, <1>2
  <2>2. In(i, j, Byte \ {"cr", "lf", "ctl"})
    BY <1>3 DEF IsLineComment
  <2>3. QED
    BY <2>1, <2>2 DEF In
<1>5. j < n => FALSE
  <2>1. j < n => src[j + 1] \in {"cr", "lf"} /\ j + 1 \in i + 1..n
    BY <1>1, <1>3 DEF IsLineComment
  <2>2. QED
    BY <1>2, <2>1 DEF In
<1>6. j = n => FALSE
  BY <1>3 DEF IsLineComment
<1>7. QED
  BY <1>1, <1>4, <1>5, <1>6

\* A block comment with a byte that may not be in it, or without its end.
LEMMA BadBlock ==
  ASSUME TypeOK, NEW i \in Nat, i < Len(src), NEW n \in Nat, BlockSoFar(i, n),
         n = Len(src) \/ (n < Len(src) /\ src[n + 1] = "ctl")
  PROVE  Barren(i)
<1> SUFFICES ASSUME NEW kind \in TokenKinds, NEW j \in i..Len(src), Lexeme(kind, i, j) PROVE FALSE
  BY DEF Barren
<1>1. j \in Nat /\ i <= j /\ j <= Len(src) /\ Len(src) \in Nat
  BY Lengths
<1>2. src[i + 1] = "/" /\ src[i + 2] = "*" /\ i + 2 <= n
  BY DEF BlockSoFar
<1>3. IsBlockComment(i, j)
  BY <1>1, <1>2, LexemeStarts DEF Digits, Punctuation, Words
<1>4. j <= n \/ (n < Len(src) /\ src[n + 1] = "ctl" /\ n + 1 <= j)
  BY <1>1
<1>5. j <= n
  BY <1>1, <1>2, <1>3, <1>4 DEF IsBlockComment, In
<1>6. PICK m \in Nat : m = j - 2 /\ m + 2 = j /\ m \in i + 2..n - 1 /\ m + 2 <= Len(src)
  BY <1>1, <1>3, <1>5 DEF IsBlockComment
<1>7. Slice(m, m + 2) = <<"*", "/">>
  BY <1>3, <1>6 DEF IsBlockComment
<1>8. src[m + 1] = "*" /\ src[m + 2] = "/"
  BY <1>6, <1>7, Marks
<1>9. QED
  BY <1>6, <1>8 DEF BlockSoFar

LEMMA BadCommentByteLexed ==
  ASSUME Inv, Lexed, BadCommentByte
  PROVE  Lexed'
<1>1. PICK i, n, m : i = start.offset /\ n = at.offset /\ m = mode
  OBVIOUS
<1>2. m \in {"line", "block"} /\ ~AtEnd /\ src[n + 1] = "ctl" /\ Fail(at)
  BY <1>1, SeenByte DEF BadCommentByte, Inv
<1>3. /\ IsNext(i) /\ n \in 0..Len(src) /\ Reading(m, i, n) /\ Len(src) \in Nat /\ i \in Nat
      /\ n < Len(src) /\ i \in 0..n /\ i < Len(src) /\ i \in 0..Len(src)
  BY <1>1, <1>2, NextStart, Lengths, SeenByte DEF Inv, Inside, ByteAt
<1>4. Barren(i)
  <2>1. CASE m = "line"
    BY <1>2, <1>3, <2>1, BadLine DEF Inv, Reading
  <2>2. CASE m = "block"
    BY <1>2, <1>3, <2>2, BadBlock DEF Inv, Reading
  <2>3. QED
    BY <1>2, <2>1, <2>2
<1>5. at.offset \in i..at.offset
  BY <1>1, <1>3
<1>6. QED
  BY <1>2, <1>3, <1>4, <1>5, SourceRefused DEF Inv

-----------------------------------------------------------------------------
(* Strings. *)

LEMMA EscapedFirst ==
  ASSUME NEW s \in Nat
  PROVE  ~Escaped(s + 1, s)
<1> DEFINE run == {m \in s + 1..(s + 1) - 1 : \A k \in m..(s + 1) - 1 : src[k] = "backslash"}
<1>1. run = {}
  OBVIOUS
<1>2. Cardinality(run) = 0
  BY <1>1, FS_EmptySet
<1>3. BackslashesBefore(s + 1, s) = 0
  BY <1>2 DEF BackslashesBefore
<1>4. QED
  BY <1>3 DEF Escaped

\* A byte is escaped by a backslash that is not.
LEMMA EscapedNext ==
  ASSUME NEW s \in Nat, NEW n \in Nat, s + 1 <= n
  PROVE  Escaped(n + 1, s) <=> src[n] = "backslash" /\ ~Escaped(n, s)
<1> DEFINE Run(l) == {m \in s + 1..l - 1 : \A k \in m..l - 1 : src[k] = "backslash"}
<1>1. /\ Escaped(n, s) <=> Cardinality(Run(n)) % 2 = 1
      /\ Escaped(n + 1, s) <=> Cardinality(Run(n + 1)) % 2 = 1
  BY DEF Escaped, BackslashesBefore
<1>2. IsFiniteSet(Run(n)) /\ Cardinality(Run(n)) \in Nat
  <2>1. IsFiniteSet(s + 1..n - 1)
    BY FS_Interval
  <2>2. Run(n) \subseteq s + 1..n - 1
    OBVIOUS
  <2>3. QED
    BY <2>1, <2>2, FS_Subset, FS_CardinalityType
<1>3. CASE src[n] # "backslash"
  <2>1. Run(n + 1) = {}
    BY <1>3
  <2>2. Cardinality(Run(n + 1)) = 0
    BY <2>1, FS_EmptySet
  <2>3. QED
    BY <1>1, <1>3, <2>2
<1>4. CASE src[n] = "backslash"
  <2>1. Run(n + 1) = Run(n) \cup {n} /\ n \notin Run(n)
    BY <1>4
  <2>2. Cardinality(Run(n + 1)) = Cardinality(Run(n)) + 1
    BY <1>2, <2>1, FS_AddElement
  <2>3. \A c \in Nat : (c + 1) % 2 = 1 <=> ~(c % 2 = 1)
    OBVIOUS
  <2>4. QED
    BY <1>1, <1>2, <1>4, <2>2, <2>3
<1>5. QED
  BY <1>3, <1>4

LEMMA OpenStringLexed ==
  ASSUME Inv, Lexed, OpenString
  PROVE  Lexed'
<1>1. PICK i : i = at.offset
  OBVIOUS
<1>2. /\ mode = "next" /\ ~AtEnd /\ src[i + 1] = "quote" /\ i \in Nat /\ i < Len(src)
      /\ Enter("string", 1)
  BY <1>1, SeenByte, Lengths DEF OpenString, Inv
<1>3. IsNext(i)
  BY <1>1, <1>2, NextHere DEF Inv, ByteAt, Blanks
<1>4. UNCHANGED <<src, toks>> /\ mode' = "string" /\ start'.offset = i /\ at'.offset = i + 1
  BY <1>1, <1>2 DEF Enter, Along
<1>5. StringSoFar(i, i + 1)
  <2>1. ~Escaped((i + 1) + 1, i + 1)
    BY <1>2, EscapedFirst
  <2>2. i + 2..i + 1 = {}
    BY <1>2
  <2>3. QED
    BY <1>2, <2>1, <2>2 DEF StringSoFar
<1>6. QED
  BY <1>3, <1>4, <1>5, TokenRead DEF Inv, Inside, Reading, NumberParts

\* What a string says of its bytes up to n holds of its bytes up to l when it
\* holds of those between.
LEMMA StringGoesOn ==
  ASSUME NEW i \in Nat, NEW n \in Nat, NEW l \in Nat, n <= l, StringSoFar(i, n), ~Escaped(l + 1, i + 1),
         \A m \in n + 1..l :
           /\ src[m] \notin Controls
           /\ src[m] # "quote" \/ Escaped(m, i + 1)
           /\ Escaped(m, i + 1) =>
                \/ src[m] \in Simple
                \/ src[m] = "u" /\ m + 4 <= l /\ \A k \in m + 1..m + 4 : src[k] \in HexDigits
  PROVE  StringSoFar(i, l)
<1>1. i + 1 <= n /\ src[i + 1] = "quote"
  BY DEF StringSoFar
<1>2. ASSUME NEW m \in i + 2..l
      PROVE  /\ src[m] \notin Controls
             /\ src[m] = "quote" => Escaped(m, i + 1)
             /\ Escaped(m, i + 1) =>
                  \/ src[m] \in Simple
                  \/ src[m] = "u" /\ m + 4 <= l /\ \A k \in m + 1..m + 4 : src[k] \in HexDigits
  <2>1. CASE m <= n
    <3>1. m \in i + 2..n
      BY <1>2, <2>1
    <3>2. m + 4 <= n => m + 4 <= l
      BY <1>2
    <3>3. QED
      BY <3>1, <3>2 DEF StringSoFar
  <2>2. CASE ~(m <= n)
    <3>1. m \in n + 1..l
      BY <1>2, <2>2
    <3>2. QED
      BY <3>1
  <2>3. QED
    BY <2>1, <2>2
<1>3. QED
  BY <1>1, <1>2 DEF StringSoFar

LEMMA StringByteLexed ==
  ASSUME Inv, Lexed, StringByte
  PROVE  Lexed'
<1>1. PICK i, n : i = start.offset /\ n = at.offset
  OBVIOUS
<1>2. mode = "string" /\ ~AtEnd /\ at' = Moved(at) /\ UNCHANGED <<src, toks, start, mode>>
  BY DEF StringByte, Advance
<1>3. /\ IsNext(i) /\ n \in Nat /\ StringSoFar(i, n) /\ i \in Nat
      /\ src[n + 1] \notin {"quote", "backslash"} \cup Controls
  BY <1>1, <1>2, NextStart, Lengths DEF Inv, Inside, Reading, StringByte, Sees, ByteAt
<1>4. PICK l \in Nat : l = n + 1
  BY <1>3
<1>5. i + 1 <= n /\ ~Escaped(l, i + 1)
  BY <1>3, <1>4 DEF StringSoFar
<1>6. ~Escaped(l + 1, i + 1)
  BY <1>3, <1>4, <1>5, EscapedNext
<1>7. \A m \in n + 1..l :
        src[m] \notin Controls /\ src[m] # "quote" /\ ~Escaped(m, i + 1)
  BY <1>3, <1>4, <1>5
<1>8. StringSoFar(i, l)
  <2>1. n <= l
    BY <1>3, <1>4
  <2>2. QED
    BY <1>3, <1>6, <1>7, <2>1, StringGoesOn
<1>9. at'.offset = l
  BY <1>1, <1>2, <1>4, MovedOffset
<1>10. QED
  BY <1>1, <1>2, <1>3, <1>8, <1>9, TokenRead DEF Inv, Inside, Reading, NumberParts

LEMMA ScanEscapeLexed ==
  ASSUME Inv, Lexed, ScanEscape, EscapeLength # 0
  PROVE  Lexed'
<1>1. PICK i, n, e : i = start.offset /\ n = at.offset /\ e = EscapeLength
  OBVIOUS
<1>2. /\ mode = "string" /\ ~AtEnd /\ at' = Along(at, e) /\ UNCHANGED <<src, toks, start, mode>>
  BY <1>1 DEF ScanEscape, Sees
<1>3. /\ IsNext(i) /\ n \in Nat /\ StringSoFar(i, n) /\ i \in Nat /\ src[n + 1] = "backslash"
  BY <1>1, <1>2, NextStart, Lengths DEF Inv, Inside, Reading, ScanEscape, Sees, ByteAt
<1>4. i + 1 <= n /\ ~Escaped(n + 1, i + 1)
  BY <1>3 DEF StringSoFar
<1>5. PICK s \in Nat : s = i + 1
  BY <1>3
<1>6. \A k \in Nat : s + 1 <= k => (Escaped(k + 1, s) <=> src[k] = "backslash" /\ ~Escaped(k, s))
  BY EscapedNext
<1>7. PICK a \in Nat : a = n + 1
  BY <1>3
<1>8. PICK b \in Nat : b = n + 2 /\ b = a + 1
  BY <1>3, <1>7
<1>9. Escaped(b, s) /\ ~Escaped(a, s) /\ s + 1 <= a
  BY <1>3, <1>4, <1>5, <1>6, <1>7, <1>8
<1>10. ~Escaped(b + 1, s)
  BY <1>5, <1>6, <1>8, <1>9
<1>11. "backslash" \notin Controls /\ Simple \cap Controls = {}
  BY DEF Simple, Controls
<1>12. CASE e = 2
  <2>1. src[b] \in Simple
    <3>1. SeesNext(Simple)
      BY <1>1, <1>12 DEF EscapeLength
    <3>2. QED
      BY <1>1, <1>8, <3>1, SeenByte DEF Inv
  <2>2. \A m \in n + 1..b : m = a \/ m = b
    BY <1>3, <1>7, <1>8
  <2>3. \A m \in n + 1..b :
          /\ src[m] \notin Controls
          /\ src[m] # "quote" \/ Escaped(m, s)
          /\ Escaped(m, s) => src[m] \in Simple
    BY <1>3, <1>7, <1>9, <1>11, <2>1, <2>2
  <2>4. n <= b
    BY <1>3, <1>8
  <2>5. StringSoFar(i, b)
    BY <1>3, <1>5, <1>10, <2>3, <2>4, StringGoesOn
  <2>6. at'.offset = b
    BY <1>1, <1>2, <1>8, <1>12 DEF Along
  <2>7. QED
    BY <1>1, <1>2, <1>3, <2>5, <2>6, TokenRead DEF Inv, Inside, Reading, NumberParts
<1>13. CASE e = 6
  <2>1. Unicode
    BY <1>1, <1>13 DEF EscapeLength
  <2>2. src[b] = "u"
    BY <1>1, <1>8, <2>1, SeenByte DEF Unicode, Inv
  <2>3. PICK c, d, f, g \in Nat : c = n + 3 /\ d = n + 4 /\ f = n + 5 /\ g = n + 6
    BY <1>3
  <2>4. src[c] \in HexDigits /\ src[d] \in HexDigits /\ src[f] \in HexDigits /\ src[g] \in HexDigits
    <3>1. \A k \in 2..5 : src[n + k + 1] \in HexDigits
      BY <1>1, <2>1 DEF Unicode, ByteAt
    <3>2. n + 2 + 1 = c /\ n + 3 + 1 = d /\ n + 4 + 1 = f /\ n + 5 + 1 = g
      BY <1>3, <2>3
    <3>3. QED
      BY <3>1, <3>2
  <2>5. \A h \in HexDigits : h \notin Controls /\ h # "quote" /\ h # "backslash"
    BY DEF HexDigits, Digits, Controls
  <2>6. /\ ~Escaped(c, s) /\ ~Escaped(d, s) /\ ~Escaped(f, s) /\ ~Escaped(g, s) /\ ~Escaped(g + 1, s)
    <3>1. c = b + 1 /\ d = c + 1 /\ f = d + 1 /\ g = f + 1 /\ s + 1 <= c /\ s + 1 <= d /\ s + 1 <= f /\ s + 1 <= g
      BY <1>3, <1>7, <1>8, <1>9, <2>3
    <3>2. ~Escaped(c, s)
      BY <1>10, <3>1
    <3>3. ~Escaped(d, s)
      BY <1>6, <2>4, <2>5, <3>1
    <3>4. ~Escaped(f, s)
      BY <1>6, <2>4, <2>5, <3>1
    <3>5. ~Escaped(g, s)
      BY <1>6, <2>4, <2>5, <3>1
    <3>6. ~Escaped(g + 1, s)
      BY <1>6, <2>4, <2>5, <3>1
    <3>7. QED
      BY <3>2, <3>3, <3>4, <3>5, <3>6
  <2>7. \A m \in n + 1..g : m = a \/ m = b \/ m = c \/ m = d \/ m = f \/ m = g
    BY <1>3, <1>7, <1>8, <2>3
  <2>8. b + 4 <= g /\ \A k \in b + 1..b + 4 : src[k] \in HexDigits
    <3>1. \A k \in b + 1..b + 4 : k = c \/ k = d \/ k = f \/ k = g
      BY <1>3, <1>8, <2>3
    <3>2. QED
      BY <1>3, <1>8, <2>3, <2>4, <3>1
  <2>9. \A m \in n + 1..g :
          /\ src[m] \notin Controls
          /\ src[m] # "quote" \/ Escaped(m, s)
          /\ Escaped(m, s) => m = b
    <3>1. src[a] = "backslash" /\ "u" \notin Controls
      BY <1>3, <1>7 DEF Controls
    <3>2. QED
      BY <1>9, <1>11, <2>2, <2>4, <2>5, <2>6, <2>7, <3>1
  <2>10. \A m \in n + 1..g :
           /\ src[m] \notin Controls
           /\ src[m] # "quote" \/ Escaped(m, s)
           /\ Escaped(m, s) =>
                \/ src[m] \in Simple
                \/ src[m] = "u" /\ m + 4 <= g /\ \A k \in m + 1..m + 4 : src[k] \in HexDigits
    BY <2>2, <2>8, <2>9
  <2>11. n <= g
    BY <1>3, <2>3
  <2>12. StringSoFar(i, g)
    BY <1>3, <1>5, <2>6, <2>10, <2>11, StringGoesOn
  <2>13. at'.offset = g
    BY <1>1, <1>2, <1>13, <2>3 DEF Along
  <2>14. QED
    BY <1>1, <1>2, <1>3, <2>12, <2>13, TokenRead DEF Inv, Inside, Reading, NumberParts
<1>14. QED
  BY <1>1, <1>12, <1>13 DEF EscapeLength

LEMMA CloseStringLexed ==
  ASSUME Inv, Lexed, CloseString
  PROVE  Lexed'
<1>1. PICK i, n : i = start.offset /\ n = at.offset
  OBVIOUS
<1>2. mode = "string" /\ ~AtEnd
  BY DEF CloseString, Sees
<1>3. /\ i \in Nat /\ LastEnd <= i /\ In(LastEnd, i, Blanks)
      /\ n \in Nat /\ StringSoFar(i, n) /\ src[n + 1] = "quote"
  BY <1>1, <1>2, NextStart, Lengths, SeenByte DEF Inv, Inside, Reading, CloseString
<1>4. PICK j \in Nat : j = n + 1 /\ j - 1 = n
  BY <1>3
<1>5. /\ i + 1 < j /\ src[i + 1] = "quote" /\ src[j] = "quote" /\ ~Escaped(j, i + 1)
      /\ \A m \in i + 2..j - 1 :
           /\ src[m] \notin Controls
           /\ src[m] = "quote" => Escaped(m, i + 1)
           /\ Escaped(m, i + 1) =>
                \/ src[m] \in Simple
                \/ src[m] = "u" /\ m + 4 <= j - 1 /\ \A k \in m + 1..m + 4 : src[k] \in HexDigits
  BY <1>3, <1>4 DEF StringSoFar
<1>6. IsString(i, j)
  BY <1>5 DEF IsString
<1>7. Lexeme("string", i, j)
  BY <1>6 DEF Lexeme, Punctuation
<1>8. Moved(at) \in Position /\ Moved(at).offset = j
  BY <1>1, <1>2, <1>4, AtMoved
<1>9. QED
  BY <1>1, <1>3, <1>7, <1>8, TokenReturned DEF CloseString, Inv

\* A string with a byte or an escape that may not be in it, or without its end.
LEMMA BadString ==
  ASSUME TypeOK, NEW i \in Nat, i < Len(src), NEW n \in Nat, StringSoFar(i, n), n <= Len(src),
         \/ n = Len(src)
         \/ src[n + 1] \in Controls
         \/ /\ src[n + 1] = "backslash"
            /\ ~(n + 2 <= Len(src) /\ src[n + 2] \in Simple)
            /\ ~(/\ n + 2 <= Len(src) /\ src[n + 2] = "u" /\ n + 6 <= Len(src)
                 /\ \A k \in n + 3..n + 6 : src[k] \in HexDigits)
  PROVE  Barren(i)
<1> SUFFICES ASSUME NEW kind \in TokenKinds, NEW j \in i..Len(src), Lexeme(kind, i, j) PROVE FALSE
  BY DEF Barren
<1>1. j \in Nat /\ i <= j /\ j <= Len(src) /\ Len(src) \in Nat
  BY Lengths
<1>2. src[i + 1] = "quote" /\ i + 1 <= n /\ ~Escaped(n + 1, i + 1)
  BY DEF StringSoFar
<1>3. IsString(i, j)
  BY <1>1, <1>2, LexemeStarts DEF Digits, Punctuation, Words
<1>4. i + 1 < j /\ src[j] = "quote" /\ ~Escaped(j, i + 1)
  BY <1>3 DEF IsString
<1>5. j > n
  <2>1. j <= n => j \in i + 2..n
    BY <1>1, <1>4
  <2>2. QED
    BY <1>1, <1>4, <2>1 DEF StringSoFar
<1>6. src[n + 1] \notin Controls
  <2>1. "quote" \notin Controls
    BY DEF Controls
  <2>2. j = n + 1 \/ n + 1 \in i + 2..j - 1
    BY <1>1, <1>2, <1>5
  <2>3. QED
    BY <1>3, <1>4, <2>1, <2>2 DEF IsString
<1>7. src[n + 1] = "backslash"
  BY <1>1, <1>5, <1>6
<1>8. PICK b \in Nat : b = n + 2 /\ b = (n + 1) + 1 /\ j # n + 1
  BY <1>4, <1>7
<1>9. Escaped(b, i + 1)
  <2>1. PICK a, s \in Nat : a = n + 1 /\ s = i + 1 /\ s + 1 <= a /\ b = a + 1
    BY <1>2, <1>8
  <2>2. Escaped(a + 1, s) <=> src[a] = "backslash" /\ ~Escaped(a, s)
    BY <2>1, EscapedNext
  <2>3. QED
    BY <1>2, <1>7, <2>1, <2>2
<1>10. b \in i + 2..j - 1
  BY <1>1, <1>2, <1>4, <1>5, <1>8, <1>9
<1>11. \/ src[b] \in Simple
       \/ src[b] = "u" /\ b + 4 <= j - 1 /\ \A k \in b + 1..b + 4 : src[k] \in HexDigits
  BY <1>3, <1>9, <1>10 DEF IsString
<1>12. b <= Len(src) /\ (b + 4 <= j - 1 => n + 6 <= Len(src)) /\ b + 1 = n + 3 /\ b + 4 = n + 6
  BY <1>1, <1>8, <1>10
<1>13. QED
  BY <1>1, <1>5, <1>6, <1>7, <1>8, <1>11, <1>12

\* A string or a block comment is refused.
LEMMA RefusedLexed ==
  ASSUME Inv, Lexed, \/ BadStringByte
                     \/ Unterminated
                     \/ ScanEscape /\ EscapeLength = 0
  PROVE  Lexed'
<1>1. PICK i, n, m, p : i = start.offset /\ n = at.offset /\ m = mode /\ p = IF Unterminated THEN start ELSE at
  OBVIOUS
<1>2. m \in {"block", "string"} /\ Fail(p)
  BY <1>1 DEF BadStringByte, Unterminated, ScanEscape, Sees
<1>3. /\ IsNext(i) /\ n \in Nat /\ n <= Len(src) /\ Reading(m, i, n) /\ Len(src) \in Nat /\ i \in Nat
      /\ i <= n /\ i < Len(src) /\ i \in 0..Len(src)
  BY <1>1, <1>2, NextStart, Lengths DEF Inv, Inside
<1>4. CASE Unterminated
  <2>1. n = Len(src)
    BY <1>1, <1>3, <1>4 DEF Unterminated, AtEnd
  <2>2. Barren(i)
    <3>1. CASE m = "block"
      <4>1. BlockSoFar(i, n)
        BY <1>3, <3>1 DEF Reading
      <4>2. n = Len(src) \/ (n < Len(src) /\ src[n + 1] = "ctl")
        BY <2>1
      <4>3. QED
        BY <1>3, <4>1, <4>2, BadBlock DEF Inv
    <3>2. CASE m = "string"
      BY <1>3, <2>1, <3>2, BadString DEF Inv, Reading
    <3>3. QED
      BY <1>2, <3>1, <3>2
  <2>3. p.offset \in i..at.offset
    BY <1>1, <1>3, <1>4
  <2>4. QED
    BY <1>2, <1>3, <2>2, <2>3, SourceRefused DEF Inv
<1>5. CASE ~Unterminated
  <2>1. m = "string" /\ ~AtEnd /\ n < Len(src)
    BY <1>1, <1>5, SeenByte DEF BadStringByte, ScanEscape, Sees, Inv
  <2>2. CASE BadStringByte
    <3>1. src[n + 1] \in Controls
      BY <1>1, <2>2, SeenByte DEF BadStringByte, Inv
    <3>2. Barren(i)
      BY <1>3, <2>1, <3>1, BadString DEF Inv, Reading
    <3>3. p.offset \in i..at.offset
      BY <1>1, <1>3, <1>5
    <3>4. QED
      BY <1>2, <1>3, <3>2, <3>3, SourceRefused DEF Inv
  <2>3. CASE ScanEscape /\ EscapeLength = 0
    <3>1. src[n + 1] = "backslash"
      BY <1>1, <2>3, SeenByte DEF ScanEscape, Inv
    <3>2. ~SeesNext(Simple) /\ ~Unicode
      BY <2>3 DEF EscapeLength
    <3>3. ~(n + 2 <= Len(src) /\ src[n + 2] \in Simple)
      BY <1>1, <1>3, <3>2 DEF SeesNext, ByteAt
    <3>4. ASSUME n + 2 <= Len(src), src[n + 2] = "u", n + 6 <= Len(src),
                 \A k \in n + 3..n + 6 : src[k] \in HexDigits
          PROVE  FALSE
      <4>1. SeesNext({"u"})
        BY <1>1, <1>3, <3>4 DEF SeesNext, ByteAt
      <4>2. ASSUME NEW k \in 2..5 PROVE ByteAt(at.offset + k) \in HexDigits
        <5>1. at.offset + k + 1 \in n + 3..n + 6
          BY <1>1, <1>3
        <5>2. QED
          BY <3>4, <5>1 DEF ByteAt
      <4>3. QED
        BY <1>1, <3>2, <3>4, <4>1, <4>2 DEF Unicode
    <3>5. StringSoFar(i, n)
      BY <1>3, <2>1 DEF Reading
    <3>6. Barren(i)
      BY <1>3, <3>1, <3>3, <3>4, <3>5, BadString DEF Inv
    <3>7. p.offset \in i..at.offset
      BY <1>1, <1>3, <1>5
    <3>8. QED
      BY <1>2, <1>3, <3>6, <3>7, SourceRefused DEF Inv
  <2>4. QED
    BY <1>5, <2>2, <2>3
<1>6. QED
  BY <1>4, <1>5

-----------------------------------------------------------------------------
(* Numbers. *)

LEMMA StartOfDigits ==
  ASSUME NEW i \in Nat
  PROVE  DigitsFrom(i) \in Nat /\ DigitsFrom(i) \in {i, i + 1} /\ (DigitsFrom(i) = i + 1 <=> src[i + 1] = "-")
BY DEF DigitsFrom

\* Each byte takes the number to its next part.
LEMMA NumberNext ==
  ASSUME NEW s \in Nat, NEW n \in Nat, NEW part \in NumberParts, NumberFrom(part, s, n),
         NEW q, q = PartAfter(part, src[n + 1]), q # "none"
  PROVE  q \in NumberParts /\ NumberFrom(q, s, n + 1)
<1>1. PICK l \in Nat : l = n + 1
  OBVIOUS
<1>2. src[l] = src[n + 1] /\ l - 1 = n /\ l - 2 = n - 1
  BY <1>1
<1>3. "." \notin Digits /\ "e" \notin Digits /\ "-" \notin Digits /\ "+" \notin Digits
  BY DEF Digits
<1>4. CASE part = "minus"
  <2>1. n = s
    BY <1>4 DEF NumberFrom
  <2>2. (src[l] = "0" /\ q = "zero") \/ (src[l] \in Digits /\ src[l] # "0" /\ q = "int")
    BY <1>2, <1>4 DEF PartAfter
  <2>3. src[l] \in Digits => DigitRun(s, l)
    BY <1>1, <2>1 DEF DigitRun, In
  <2>4. QED
    BY <1>1, <2>1, <2>2, <2>3 DEF NumberFrom, NumberParts, Digits
<1>5. CASE part \in {"zero", "int"}
  <2>1. IsInt(s, n) /\ s < n
    <3>1. CASE part = "zero"
      BY <3>1 DEF NumberFrom, IsInt, DigitRun, In, Digits
    <3>2. CASE part = "int"
      BY <3>2 DEF NumberFrom, IsInt, DigitRun
    <3>3. QED
      BY <1>5, <3>1, <3>2
  <2>2. CASE q = "int"
    <3>1. part = "int" /\ src[l] \in Digits
      BY <1>2, <1>3, <1>5, <2>2 DEF PartAfter
    <3>2. DigitRun(s, n) /\ src[s + 1] # "0"
      BY <3>1 DEF NumberFrom
    <3>3. DigitRun(s, l)
      BY <1>1, <3>1, <3>2 DEF DigitRun, In
    <3>4. QED
      BY <1>1, <2>2, <3>2, <3>3 DEF NumberFrom, NumberParts
  <2>3. CASE q = "point"
    <3>1. src[l] = "."
      BY <1>2, <1>3, <1>5, <2>3 DEF PartAfter
    <3>2. QED
      BY <1>1, <1>2, <2>1, <2>3, <3>1 DEF NumberFrom, NumberParts
  <2>4. CASE q = "exp"
    <3>1. src[l] = "e"
      BY <1>2, <1>3, <1>5, <2>4 DEF PartAfter
    <3>2. Decimal(s, n)
      BY <2>1 DEF Decimal, IsFrac
    <3>3. QED
      BY <1>1, <1>2, <2>1, <2>4, <3>1, <3>2 DEF NumberFrom, NumberParts
  <2>5. QED
    BY <1>5, <2>2, <2>3, <2>4 DEF PartAfter
<1>6. CASE part = "point"
  <2>1. s < n /\ IsInt(s, n - 1) /\ src[n] = "."
    BY <1>6 DEF NumberFrom
  <2>2. q = "frac" /\ src[l] \in Digits
    BY <1>2, <1>6 DEF PartAfter
  <2>3. PICK a \in s..l : a = n - 1 /\ a + 1 = n
    BY <1>1, <2>1
  <2>4. DigitRun(n, l)
    BY <1>1, <2>2 DEF DigitRun, In
  <2>5. IsFrac(a, l)
    BY <1>1, <2>1, <2>3, <2>4 DEF IsFrac
  <2>6. Decimal(s, l)
    BY <2>1, <2>3, <2>5 DEF Decimal
  <2>7. ~IsInt(s, l)
    BY <1>1, <1>3, <2>1 DEF IsInt, DigitRun, In
  <2>8. QED
    BY <1>1, <2>2, <2>6, <2>7 DEF NumberFrom, NumberParts
<1>7. CASE part = "frac"
  <2>1. PICK a \in s..n : IsInt(s, a) /\ IsFrac(a, n) /\ ~IsInt(s, n)
    BY <1>7 DEF NumberFrom, Decimal
  <2>2. a + 1 < n /\ src[a + 1] = "." /\ DigitRun(a + 1, n)
    BY <2>1 DEF IsFrac
  <2>3. CASE q = "frac"
    <3>1. src[l] \in Digits
      BY <1>2, <1>7, <2>3 DEF PartAfter
    <3>2. DigitRun(a + 1, l)
      BY <1>1, <2>2, <3>1 DEF DigitRun, In
    <3>3. IsFrac(a, l) /\ a \in s..l
      BY <1>1, <2>2, <3>2 DEF IsFrac
    <3>4. Decimal(s, l)
      BY <2>1, <3>3 DEF Decimal
    <3>5. ~IsInt(s, l)
      BY <1>1, <1>3, <2>2 DEF IsInt, DigitRun, In
    <3>6. QED
      BY <1>1, <2>3, <3>4, <3>5 DEF NumberFrom, NumberParts
  <2>4. CASE q = "exp"
    <3>1. src[l] = "e"
      BY <1>2, <1>3, <1>7, <2>4 DEF PartAfter
    <3>2. Decimal(s, n)
      BY <2>1 DEF Decimal
    <3>3. QED
      BY <1>1, <1>2, <2>2, <2>4, <3>1, <3>2 DEF NumberFrom, NumberParts
  <2>5. QED
    BY <1>7, <2>3, <2>4 DEF PartAfter
<1>8. CASE part = "exp"
  <2>1. s < n /\ Decimal(s, n - 1) /\ src[n] = "e"
    BY <1>8 DEF NumberFrom
  <2>2. PICK b2 \in s..n : b2 = n - 1 /\ b2 + 1 = n
    BY <2>1
  <2>3. CASE src[l] \in Digits
    <3>1. q = "expdigits"
      BY <1>2, <1>3, <1>8, <2>3 DEF PartAfter
    <3>2. DigitRun(n, l)
      BY <1>1, <2>3 DEF DigitRun, In
    <3>3. IsExp(b2, l)
      BY <1>1, <2>1, <2>2, <3>2 DEF IsExp
    <3>4. QED
      BY <1>1, <1>2, <2>1, <2>2, <3>1, <3>3 DEF NumberFrom, NumberParts
  <2>4. CASE src[l] \in {"+", "-"}
    <3>1. q = "sign"
      BY <1>2, <1>3, <1>8, <2>4 DEF PartAfter
    <3>2. QED
      BY <1>1, <1>2, <2>1, <2>4, <3>1 DEF NumberFrom, NumberParts
  <2>5. QED
    BY <1>2, <1>8, <2>3, <2>4 DEF PartAfter
<1>9. CASE part = "sign"
  <2>1. s + 1 < n /\ Decimal(s, n - 2) /\ src[n - 1] = "e" /\ src[n] \in {"+", "-"}
    BY <1>9 DEF NumberFrom
  <2>2. PICK b2 \in s..n : b2 = n - 2 /\ b2 + 1 = n - 1 /\ b2 + 2 = n
    BY <2>1
  <2>3. q = "expdigits" /\ src[l] \in Digits
    BY <1>2, <1>9 DEF PartAfter
  <2>4. DigitRun(n, l)
    BY <1>1, <2>3 DEF DigitRun, In
  <2>5. IsExp(b2, l)
    BY <1>1, <2>1, <2>2, <2>4 DEF IsExp
  <2>6. QED
    BY <1>1, <1>2, <2>1, <2>2, <2>3, <2>5 DEF NumberFrom, NumberParts
<1>10. CASE part = "expdigits"
  <2>1. PICK b2 \in s..n - 1 : Decimal(s, b2) /\ IsExp(b2, n)
    BY <1>10 DEF NumberFrom
  <2>2. q = "expdigits" /\ src[l] \in Digits
    BY <1>2, <1>10 DEF PartAfter
  <2>3. \A d \in Nat : DigitRun(d, n) => DigitRun(d, l)
    BY <1>1, <2>2 DEF DigitRun, In
  <2>4. b2 + 1 \in Nat /\ b2 + 2 \in Nat /\ b2 # n /\ (b2 + 1 < n => b2 + 1 < l) /\ (b2 + 2 < n => b2 + 2 < l)
    BY <1>1
  <2>5. IsExp(b2, l)
    BY <2>1, <2>3, <2>4 DEF IsExp
  <2>6. QED
    BY <1>1, <1>2, <2>1, <2>2, <2>5 DEF NumberFrom, NumberParts
<1>11. QED
  BY <1>4, <1>5, <1>6, <1>7, <1>8, <1>9, <1>10 DEF NumberParts

\* A number the scan may stop in is one.
LEMMA NumberWhole ==
  ASSUME NEW s \in Nat, NEW n \in Nat, NEW part \in Complete, NumberFrom(part, s, n)
  PROVE  \E a, b \in s..n : a <= b /\ IsInt(s, a) /\ IsFrac(a, b) /\ IsExp(b, n)
<1>1. CASE part \in {"zero", "int"}
  <2>1. IsInt(s, n) /\ s < n
    <3>1. CASE part = "zero"
      BY <3>1 DEF NumberFrom, IsInt, DigitRun, In, Digits
    <3>2. CASE part = "int"
      BY <3>2 DEF NumberFrom, IsInt, DigitRun
    <3>3. QED
      BY <1>1, <3>1, <3>2
  <2>2. IsFrac(n, n) /\ IsExp(n, n) /\ n \in s..n
    BY <2>1 DEF IsFrac, IsExp
  <2>3. QED
    BY <2>1, <2>2
<1>2. CASE part = "frac"
  <2>1. PICK a \in s..n : IsInt(s, a) /\ IsFrac(a, n)
    BY <1>2 DEF NumberFrom, Decimal
  <2>2. IsExp(n, n) /\ n \in s..n /\ a <= n
    BY <2>1 DEF IsExp
  <2>3. QED
    BY <2>1, <2>2
<1>3. CASE part = "expdigits"
  <2>1. PICK b \in s..n - 1 : Decimal(s, b) /\ IsExp(b, n)
    BY <1>3 DEF NumberFrom
  <2>2. PICK a \in s..b : IsInt(s, a) /\ IsFrac(a, b)
    BY <2>1 DEF Decimal
  <2>3. a \in s..n /\ b \in s..n /\ a <= b
    BY <2>1, <2>2
  <2>4. QED
    BY <2>1, <2>2, <2>3
<1>4. QED
  BY <1>1, <1>2, <1>3 DEF Complete

\* The bytes of a number before its exponent.
LEMMA DecimalBytes ==
  ASSUME NEW i \in Nat, NEW d \in Nat, Decimal(DigitsFrom(i), d)
  PROVE  "e" \notin {src[m] : m \in i + 1..d}
<1>1. PICK s \in Nat : s = DigitsFrom(i) /\ s \in {i, i + 1} /\ (s = i + 1 => src[i + 1] = "-")
  BY StartOfDigits
<1>2. PICK a \in s..d : IsInt(s, a) /\ IsFrac(a, d)
  BY <1>1 DEF Decimal
<1>3. "e" \notin Digits
  BY DEF Digits
<1>4. ASSUME NEW m \in i + 1..d PROVE src[m] # "e"
  <2>1. CASE m <= s
    <3>1. s = i + 1 /\ m = i + 1
      BY <1>1, <2>1
    <3>2. QED
      BY <1>1, <3>1
  <2>2. CASE s < m /\ m <= a
    BY <1>2, <1>3, <2>2 DEF IsInt, DigitRun, In
  <2>3. CASE a < m
    <3>1. a # d /\ src[a + 1] = "." /\ DigitRun(a + 1, d)
      BY <1>2, <2>3 DEF IsFrac
    <3>2. m = a + 1 \/ m \in (a + 1) + 1..d
      BY <1>2, <2>3
    <3>3. QED
      BY <1>3, <3>1, <3>2 DEF DigitRun, In
  <2>4. QED
    BY <1>1, <1>2, <2>1, <2>2, <2>3
<1>5. QED
  BY <1>4

\* No number goes on after the byte at n.
LEMMA NumberEnds ==
  ASSUME NEW i \in Nat, NEW n \in Nat, NEW part \in Complete, NumberSoFar(part, i, n),
         n < Len(src) => PartAfter(part, src[n + 1]) = "none" /\ ~(part = "zero" /\ src[n + 1] \in Digits)
  PROVE  NumberStops(i, n)
<1>1. PICK s \in Nat : s = DigitsFrom(i) /\ s \in {i, i + 1} /\ (s = i + 1 <=> src[i + 1] = "-")
  BY StartOfDigits
<1>2. NumberFrom(part, s, n)
  BY <1>1 DEF NumberSoFar
<1> SUFFICES ASSUME n < Len(src)
             PROVE  /\ src[n + 1] \notin Digits
                    /\ src[n + 1] = "." => ~IsInt(i, n) /\ ~(src[i + 1] = "-" /\ IsInt(i + 1, n))
                    /\ src[n + 1] = "e" => "e" \in {src[m] : m \in i + 1..n}
  BY DEF NumberStops
<1>3. PICK c : c = src[n + 1]
  OBVIOUS
<1>4. PartAfter(part, c) = "none" /\ ~(part = "zero" /\ c \in Digits)
  BY <1>3
<1>5. "." \notin Digits /\ "e" \notin Digits /\ "-" \notin Digits
  BY DEF Digits
<1>6. c \notin Digits
  BY <1>4, <1>5 DEF PartAfter, Complete
<1>7. c = "." => part \in {"frac", "expdigits"}
  BY <1>4, <1>5 DEF PartAfter, Complete
<1>8. c = "e" => part = "expdigits"
  BY <1>4, <1>5 DEF PartAfter, Complete
<1>9. ASSUME part = "expdigits"
      PROVE  "e" \in {src[m] : m \in i + 1..n} /\ ~IsInt(s, n)
  <2>1. PICK b \in s..n - 1 : IsExp(b, n)
    BY <1>2, <1>9 DEF NumberFrom
  <2>2. src[b + 1] = "e" /\ b + 1 \in s + 1..n /\ b + 1 \in i + 1..n
    BY <1>1, <2>1 DEF IsExp
  <2>3. ~IsInt(s, n)
    BY <1>5, <2>2 DEF IsInt, DigitRun, In
  <2>4. QED
    BY <2>2, <2>3
<1>10. part = "frac" => ~IsInt(s, n)
  BY <1>2 DEF NumberFrom
<1>11. ASSUME ~IsInt(s, n) PROVE ~IsInt(i, n) /\ ~(src[i + 1] = "-" /\ IsInt(i + 1, n))
  <2>1. CASE s = i
    BY <1>1, <1>11, <2>1
  <2>2. CASE s = i + 1
    BY <1>1, <1>5, <1>11, <2>2 DEF IsInt, DigitRun, In
  <2>3. QED
    BY <1>1, <2>1, <2>2
<1>12. QED
  BY <1>3, <1>6, <1>7, <1>8, <1>9, <1>10, <1>11

LEMMA OpenNumberLexed ==
  ASSUME Inv, Lexed, OpenNumber
  PROVE  Lexed'
<1>1. PICK i : i = at.offset
  OBVIOUS
<1>2. /\ mode = "next" /\ ~AtEnd /\ src[i + 1] \in {"-"} \cup Digits /\ i \in Nat /\ i < Len(src)
      /\ Enter("minus", IF Sees({"-"}) THEN 1 ELSE 0)
      /\ Sees({"-"}) <=> src[i + 1] = "-"
  BY <1>1, SeenByte, Lengths DEF OpenNumber, Inv, Sees, ByteAt
<1>3. IsNext(i)
  BY <1>1, <1>2, NextHere DEF Inv, ByteAt, Blanks, Digits
<1>4. UNCHANGED <<src, toks>> /\ mode' = "minus" /\ start'.offset = i /\ at'.offset = DigitsFrom(i)
  BY <1>1, <1>2 DEF Enter, Along, DigitsFrom
<1>5. NumberSoFar("minus", i, DigitsFrom(i))
  BY <1>2 DEF NumberSoFar, NumberFrom
<1>6. QED
  BY <1>3, <1>4, <1>5, TokenRead DEF Inv, Inside, Reading, NumberParts

LEMMA NumberByteLexed ==
  ASSUME Inv, Lexed, NumberByte
  PROVE  Lexed'
<1>1. PICK i, n, m, q : i = start.offset /\ n = at.offset /\ m = mode /\ q = Part
  OBVIOUS
<1>2. m \in NumberParts /\ q # "none" /\ mode' = q /\ at' = Moved(at) /\ UNCHANGED <<src, toks, start>>
  BY <1>1 DEF NumberByte
<1>3. /\ IsNext(i) /\ n \in Nat /\ Reading(m, i, n) /\ i \in Nat
  BY <1>1, <1>2, NextStart, Lengths DEF Inv, Inside
<1>4. q = PartAfter(m, src[n + 1])
  BY <1>1, <1>2 DEF Part, ByteAt
<1>5. NumberSoFar(m, i, n) /\ DigitsFrom(i) \in Nat
  BY <1>2, <1>3, StartOfDigits DEF Reading
<1>6. q \in NumberParts /\ NumberSoFar(q, i, n + 1)
  BY <1>2, <1>3, <1>4, <1>5, NumberNext DEF NumberSoFar
<1>7. at'.offset = n + 1
  BY <1>1, <1>2, MovedOffset
<1>8. Reading(q, i, n + 1) /\ q \in Inside
  BY <1>6 DEF Reading, Inside, NumberParts
<1>9. QED
  BY <1>1, <1>2, <1>3, <1>7, <1>8, TokenRead DEF Inv

LEMMA EndNumberLexed ==
  ASSUME Inv, Lexed, EndNumber
  PROVE  Lexed'
<1>1. PICK i, n, m : i = start.offset /\ n = at.offset /\ m = mode
  OBVIOUS
<1>2. m \in Complete /\ Part = "none" /\ ~(m = "zero" /\ Sees(Digits))
  BY <1>1 DEF EndNumber
<1>3. /\ i \in Nat /\ LastEnd <= i /\ In(LastEnd, i, Blanks) /\ i < Len(src) /\ i <= n
      /\ n \in Nat /\ Reading(m, i, n) /\ m \in NumberParts
  BY <1>1, <1>2, NextStart, Lengths DEF Inv, Inside, Complete, NumberParts
<1>4. NumberSoFar(m, i, n)
  BY <1>3 DEF Reading
<1>5. PICK s \in Nat : s = DigitsFrom(i) /\ s \in {i, i + 1} /\ (s = i + 1 => src[i + 1] = "-")
  BY <1>3, StartOfDigits
<1>6. PICK a, b \in s..n : a <= b /\ IsInt(s, a) /\ IsFrac(a, b) /\ IsExp(b, n)
  BY <1>2, <1>3, <1>4, <1>5, NumberWhole DEF NumberSoFar
<1>7. IsNumber(i, n)
  <2>1. a \in i..n /\ b \in i..n /\ s <= a
    BY <1>3, <1>5, <1>6
  <2>2. QED
    BY <1>3, <1>5, <1>6, <2>1 DEF IsNumber
<1>8. NumberStops(i, n)
  <2>1. n < Len(src) => PartAfter(m, src[n + 1]) = "none" /\ ~(m = "zero" /\ src[n + 1] \in Digits)
    BY <1>1, <1>2, <1>3, Lengths DEF Part, AtEnd, Sees, ByteAt, Inv
  <2>2. QED
    BY <1>2, <1>3, <1>4, <2>1, NumberEnds
<1>9. Lexeme("number", i, n)
  BY <1>7, <1>8 DEF Lexeme, Punctuation
<1>10. QED
  BY <1>1, <1>3, <1>9, TokenReturned DEF EndNumber, Inv, TypeOK

\* A number in its parts.
LEMMA PartsOfNumber ==
  ASSUME NEW i \in Nat, NEW j \in Nat, IsNumber(i, j), NEW s \in Nat, s = DigitsFrom(i)
  PROVE  \E a, b \in s..j : a <= b /\ IsInt(s, a) /\ IsFrac(a, b) /\ IsExp(b, j)
<1>1. s \in {i, i + 1} /\ (s = i + 1 <=> src[i + 1] = "-")
  BY StartOfDigits
<1>2. PICK r \in {i, i + 1}, a \in i..j, b \in i..j :
        /\ r = i + 1 => src[i + 1] = "-"
        /\ r <= a /\ a <= b
        /\ IsInt(r, a) /\ IsFrac(a, b) /\ IsExp(b, j)
  BY DEF IsNumber
<1>3. src[r + 1] \in Digits
  BY <1>2 DEF IsInt, DigitRun, In
<1>4. r = s
  BY <1>1, <1>2, <1>3 DEF Digits
<1>5. a \in s..j /\ b \in s..j
  BY <1>2, <1>4
<1>6. QED
  BY <1>2, <1>4, <1>5

\* Where a number stops, seen from the start of its digits.
LEMMA StopsFrom ==
  ASSUME NEW i \in Nat, NEW j \in Nat, NumberStops(i, j), j < Len(src), NEW s \in Nat, s = DigitsFrom(i)
  PROVE  src[j + 1] \notin Digits /\ (src[j + 1] = "." => ~IsInt(s, j))
<1>1. s \in {i, i + 1} /\ (s = i + 1 <=> src[i + 1] = "-")
  BY StartOfDigits
<1>2. QED
  BY <1>1 DEF NumberStops

\* The integer of a number ends where a run of its digits does.
LEMMA IntegerSame ==
  ASSUME NEW i \in Nat, NEW j \in Nat, j <= Len(src), Len(src) \in Nat, NumberStops(i, j),
         NEW s \in Nat, s = DigitsFrom(i), NEW a \in s..j, NEW b \in a..j,
         IsInt(s, a), IsFrac(a, b), IsExp(b, j),
         NEW c \in Nat, IsInt(s, c), c < Len(src), src[c + 1] \notin Digits
  PROVE  a = c
<1>1. "." \notin Digits /\ "e" \notin Digits
  BY DEF Digits
<1>2. s < a /\ s < c /\ DigitRun(s, a) /\ DigitRun(s, c)
  BY DEF IsInt, DigitRun
<1>3. ~(a > c)
  BY <1>2 DEF DigitRun, In
<1>4. ASSUME a < c PROVE FALSE
  <2>1. src[a + 1] \in Digits
    BY <1>2, <1>4 DEF DigitRun, In
  <2>2. b = a
    BY <1>1, <2>1 DEF IsFrac
  <2>3. j = b
    BY <1>1, <2>1, <2>2 DEF IsExp
  <2>4. j < Len(src)
    BY <1>4, <2>2, <2>3
  <2>5. QED
    BY <2>1, <2>2, <2>3, <2>4, StopsFrom
<1>5. QED
  BY <1>3, <1>4

\* The exponent of a number starts at the first e.
LEMMA DecimalSame ==
  ASSUME NEW i \in Nat, NEW j \in Nat, j <= Len(src), Len(src) \in Nat, NumberStops(i, j),
         NEW s \in Nat, s = DigitsFrom(i), NEW a \in s..j, NEW b \in a..j,
         IsInt(s, a), IsFrac(a, b), IsExp(b, j),
         NEW d \in Nat, Decimal(s, d), d < Len(src), src[d + 1] = "e"
  PROVE  b = d
<1>1. "." \notin Digits /\ "e" \notin Digits
  BY DEF Digits
<1>2. PICK c \in s..d : IsInt(s, c) /\ IsFrac(c, d)
  BY DEF Decimal
<1>3. c \in Nat /\ c < Len(src) /\ src[c + 1] \notin Digits
  BY <1>1, <1>2 DEF IsFrac
<1>4. a = c
  BY <1>2, <1>3, IntegerSame
<1>5. CASE c = d
  BY <1>4, <1>5 DEF IsFrac
<1>6. CASE c # d
  <2>1. src[a + 1] = "." /\ DigitRun(a + 1, d) /\ a + 1 < d
    BY <1>2, <1>4, <1>6 DEF IsFrac
  <2>2. b # a
    <3>1. SUFFICES ASSUME b = a PROVE FALSE
      OBVIOUS
    <3>2. j = a
      BY <2>1, <3>1 DEF IsExp
    <3>3. QED
      BY <1>3, <1>4, <2>1, <3>2, StopsFrom
  <2>3. DigitRun(a + 1, b) /\ a + 1 < b
    BY <2>2 DEF IsFrac
  <2>4. ~(b > d)
    BY <1>1, <2>1, <2>3 DEF DigitRun, In
  <2>5. ASSUME b < d PROVE FALSE
    <3>1. src[b + 1] \in Digits
      BY <2>1, <2>3, <2>5 DEF DigitRun, In
    <3>2. j = b
      BY <1>1, <3>1 DEF IsExp
    <3>3. QED
      BY <2>5, <3>1, <3>2, StopsFrom
  <2>6. QED
    BY <2>4, <2>5
<1>7. QED
  BY <1>5, <1>6

\* Where the scan of a number cannot go on, no number starts.
LEMMA NoNumber ==
  ASSUME NEW i \in Nat, NEW n \in Nat, n <= Len(src), Len(src) \in Nat, NEW part \in NumberParts,
         NumberSoFar(part, i, n), n < Len(src) => PartAfter(part, src[n + 1]) = "none",
         part \notin Complete \/ (part = "zero" /\ n < Len(src) /\ src[n + 1] \in Digits),
         NEW j \in Nat, j <= Len(src), IsNumber(i, j), NumberStops(i, j)
  PROVE  FALSE
<1>1. PICK s \in Nat : s = DigitsFrom(i)
  BY StartOfDigits
<1>2. NumberFrom(part, s, n)
  BY <1>1 DEF NumberSoFar
<1>3. PICK a \in s..j, b \in s..j : a <= b /\ IsInt(s, a) /\ IsFrac(a, b) /\ IsExp(b, j)
  BY <1>1, PartsOfNumber
<1>4. a \in s..j /\ b \in a..j /\ s < a /\ src[s + 1] \in Digits
  BY <1>3 DEF IsInt, DigitRun, In
<1>5. "." \notin Digits /\ "e" \notin Digits /\ "-" \notin Digits /\ "+" \notin Digits
  BY DEF Digits
<1>6. CASE part = "minus"
  <2>1. n = s /\ n < Len(src)
    BY <1>2, <1>4, <1>6 DEF NumberFrom
  <2>2. PICK c : c = src[n + 1]
    OBVIOUS
  <2>3. c \in Digits /\ PartAfter(part, c) = "none"
    BY <1>4, <2>1, <2>2
  <2>4. QED
    BY <1>6, <2>3 DEF PartAfter
<1>7. CASE part = "zero"
  <2>1. n = s + 1 /\ src[n] = "0" /\ n < Len(src) /\ src[n + 1] \in Digits
    BY <1>2, <1>7 DEF NumberFrom, Complete
  <2>2. a = n
    BY <1>3, <2>1 DEF IsInt
  <2>3. b = n
    BY <1>3, <1>5, <2>1, <2>2 DEF IsFrac
  <2>4. j = n
    BY <1>3, <1>5, <2>1, <2>3 DEF IsExp
  <2>5. QED
    BY <1>1, <2>1, <2>4, StopsFrom
<1>8. CASE part = "point"
  <2>1. s < n /\ IsInt(s, n - 1) /\ src[n] = "."
    BY <1>2, <1>8 DEF NumberFrom
  <2>2. PICK c \in Nat : c = n - 1 /\ c + 1 = n
    BY <2>1
  <2>3. a = c
    BY <1>1, <1>3, <1>4, <1>5, <2>1, <2>2, IntegerSame
  <2>4. b # a
    <3>1. SUFFICES ASSUME b = a PROVE FALSE
      OBVIOUS
    <3>2. j = a
      BY <1>3, <2>1, <2>2, <2>3, <3>1 DEF IsExp
    <3>3. QED
      BY <1>1, <1>3, <2>1, <2>2, <2>3, <3>2, StopsFrom
  <2>5. n < b /\ DigitRun(n, b)
    BY <1>3, <2>2, <2>3, <2>4 DEF IsFrac
  <2>6. PICK l : l = src[n + 1]
    OBVIOUS
  <2>7. l \in Digits /\ PartAfter(part, l) = "none"
    BY <1>4, <2>5, <2>6 DEF DigitRun, In
  <2>8. QED
    BY <1>8, <2>7 DEF PartAfter
<1>9. ASSUME NEW d \in Nat, d < Len(src), Decimal(s, d), src[d + 1] = "e"
      PROVE  b = d /\ d + 1 < j /\ (\/ DigitRun(d + 1, j)
                                    \/ d + 2 < j /\ src[d + 2] \in {"+", "-"} /\ DigitRun(d + 2, j))
  <2>1. b = d
    BY <1>1, <1>3, <1>4, <1>9, DecimalSame
  <2>2. b # j
    <3>1. "e" \notin {src[m] : m \in i + 1..d}
      BY <1>1, <1>9, DecimalBytes
    <3>2. QED
      BY <1>9, <2>1, <3>1 DEF NumberStops
  <2>3. QED
    BY <1>3, <2>1, <2>2 DEF IsExp
<1>10. CASE part = "exp"
  <2>1. s < n /\ Decimal(s, n - 1) /\ src[n] = "e"
    BY <1>2, <1>10 DEF NumberFrom
  <2>2. PICK d \in Nat : d = n - 1 /\ d + 1 = n /\ d + 2 = n + 1
    BY <2>1
  <2>3. n < j /\ (DigitRun(n, j) \/ src[n + 1] \in {"+", "-"})
    BY <1>9, <2>1, <2>2
  <2>4. PICK l : l = src[n + 1]
    OBVIOUS
  <2>5. l \in Digits \cup {"+", "-"} /\ PartAfter(part, l) = "none"
    BY <2>3, <2>4 DEF DigitRun, In
  <2>6. QED
    BY <1>5, <1>10, <2>5 DEF PartAfter
<1>11. CASE part = "sign"
  <2>1. s + 1 < n /\ Decimal(s, n - 2) /\ src[n - 1] = "e" /\ src[n] \in {"+", "-"}
    BY <1>2, <1>11 DEF NumberFrom
  <2>2. PICK d \in Nat : d = n - 2 /\ d + 1 = n - 1 /\ d + 2 = n
    BY <2>1
  <2>3. DigitRun(n - 1, j) \/ (n < j /\ DigitRun(n, j))
    BY <1>9, <2>1, <2>2
  <2>4. ~DigitRun(n - 1, j)
    BY <1>5, <2>1 DEF DigitRun, In
  <2>5. PICK l : l = src[n + 1]
    OBVIOUS
  <2>6. l \in Digits /\ PartAfter(part, l) = "none"
    BY <2>3, <2>4, <2>5 DEF DigitRun, In
  <2>7. QED
    BY <1>5, <1>11, <2>6 DEF PartAfter
<1>12. QED
  BY <1>6, <1>7, <1>8, <1>10, <1>11 DEF NumberParts, Complete

LEMMA BadNumberLexed ==
  ASSUME Inv, Lexed, BadNumber
  PROVE  Lexed'
<1>1. PICK i, n, m : i = start.offset /\ n = at.offset /\ m = mode
  OBVIOUS
<1>2. m \in NumberParts /\ Part = "none" /\ (m \notin Complete \/ (m = "zero" /\ Sees(Digits))) /\ Fail(start)
  BY <1>1 DEF BadNumber
<1>3. /\ IsNext(i) /\ i \in 0..Len(src) /\ i \in Nat /\ i < Len(src) /\ i \in 0..n /\ n \in Nat /\ n <= Len(src)
      /\ Reading(m, i, n) /\ Len(src) \in Nat
  BY <1>1, <1>2, NextStart, Lengths DEF Inv, Inside
<1>4. NumberSoFar(m, i, n) /\ src[i + 1] \in {"-"} \cup Digits
  BY <1>2, <1>3 DEF Reading, NumberSoFar
<1>5. n < Len(src) => PartAfter(m, src[n + 1]) = "none"
  BY <1>1, <1>2, <1>3 DEF Part, AtEnd, ByteAt
<1>6. m \notin Complete \/ (m = "zero" /\ n < Len(src) /\ src[n + 1] \in Digits)
  BY <1>1, <1>2, <1>3 DEF Sees, AtEnd, ByteAt
<1>7. Barren(i)
  <2>1. SUFFICES ASSUME NEW kind \in TokenKinds, NEW j \in i..Len(src), Lexeme(kind, i, j) PROVE FALSE
    BY DEF Barren
  <2>2. j \in Nat /\ i <= j /\ j <= Len(src)
    BY <1>3
  <2>3. IsNumber(i, j) /\ NumberStops(i, j)
    <3>1. src[i + 1] \notin {"cr", "lf", "/", "quote"} \cup Punctuation \cup DOMAIN Words
      BY <1>4 DEF Digits, Punctuation, Words
    <3>2. QED
      BY <1>3, <2>1, <2>2, <3>1, LexemeStarts DEF Inv
  <2>4. QED
    BY <1>2, <1>3, <1>4, <1>5, <1>6, <2>2, <2>3, NoNumber
<1>8. start.offset \in i..at.offset
  BY <1>1, <1>3
<1>9. QED
  BY <1>2, <1>3, <1>7, <1>8, SourceRefused DEF Inv

-----------------------------------------------------------------------------
(* Words, and every step. *)

LEMMA ScanLiteralWordLexed ==
  ASSUME Inv, Lexed, ScanLiteralWord
  PROVE  Lexed'
<1>1. PICK i, b : i = at.offset /\ b = ByteAt(at.offset)
  OBVIOUS
<1>2. /\ mode = "next" /\ ~AtEnd /\ b \in DOMAIN Words /\ b = src[i + 1]
      /\ IF IsWord(i, Words[b]) THEN Emit("word", at, i, Along(at, Len(Words[b])), <<>>) ELSE Fail(at)
  BY <1>1 DEF ScanLiteralWord, Sees, ByteAt
<1>3. /\ i \in Nat /\ i < Len(src) /\ Len(src) \in Nat /\ at \in Position
      /\ Words[b] \in Seq(Byte) /\ Len(Words[b]) = 4 /\ b \in {"t", "n"}
  BY <1>1, <1>2, SeenByte, Lengths, WordBytes DEF Inv, TypeOK
<1>4. /\ IsNext(i) /\ i \in 0..Len(src) /\ LastEnd <= i /\ In(LastEnd, i, Blanks)
  BY <1>1, <1>2, <1>3, NextHere DEF Inv, Blanks
<1>5. IsWord(i, Words[b]) <=> /\ i + 4 <= Len(src)
                              /\ Slice(i, i + 4) = Words[b]
                              /\ i + 4 < Len(src) => src[i + 4 + 1] \notin Letters \cup Digits \cup {"_"}
  BY <1>3 DEF IsWord, Slice, ByteAt
<1>6. CASE IsWord(i, Words[b])
  <2>1. Lexeme("word", i, i + 4)
    BY <1>2, <1>5, <1>6 DEF Lexeme, Punctuation
  <2>2. PICK to : to = Along(at, 4)
    OBVIOUS
  <2>3. to \in Position /\ to.offset = i + 4 /\ Emit("word", at, i, to, <<>>)
    BY <1>1, <1>2, <1>3, <1>6, <2>2 DEF Along, Position
  <2>4. Lexeme("word", i, to.offset)
    BY <2>1, <2>3
  <2>5. QED
    BY <1>3, <1>4, <2>3, <2>4, TokenReturned DEF Inv
<1>7. CASE ~IsWord(i, Words[b])
  <2>1. Barren(i)
    <3>1. SUFFICES ASSUME NEW kind \in TokenKinds, NEW j \in i..Len(src), Lexeme(kind, i, j) PROVE FALSE
      BY DEF Barren
    <3>2. j \in Nat /\ i <= j /\ j <= Len(src)
      BY <1>3
    <3>3. src[i + 1] \notin {"cr", "lf", "/", "quote", "-"} \cup Punctuation \cup Digits
      BY <1>2, <1>3 DEF Digits, Punctuation
    <3>4. j = i + 4 /\ Slice(i, j) = Words[b] /\ (j < Len(src) => src[j + 1] \notin Letters \cup Digits \cup {"_"})
      BY <1>2, <1>3, <3>1, <3>2, <3>3, LexemeStarts DEF Inv
    <3>5. QED
      BY <1>5, <1>7, <3>2, <3>4
  <2>2. Fail(at) /\ at.offset \in i..at.offset
    BY <1>1, <1>2, <1>3, <1>7
  <2>3. QED
    BY <1>4, <2>1, <2>2, SourceRefused DEF Inv
<1>8. QED
  BY <1>6, <1>7

LEMMA LexedInit == Init => Lexed
<1> SUFFICES ASSUME Init PROVE Lexed
  OBVIOUS
<1>1. toks = <<>> /\ mode = "next" /\ at.offset = 0
  BY DEF Init
<1>2. DOMAIN toks = {} /\ LastEnd = 0
  BY <1>1 DEF LastEnd
<1>3. Tiled
  BY <1>2 DEF Tiled
<1>4. Between
  BY <1>1, <1>2 DEF Between, In
<1>5. Within /\ Justified
  BY <1>1 DEF Within, Justified, NumberParts
<1>6. QED
  BY <1>3, <1>4, <1>5 DEF Lexed

LEMMA LexedStutter ==
  ASSUME Inv, Lexed, UNCHANGED vars
  PROVE  Lexed'
<1>1. UNCHANGED <<src, at, mode, start, toks, err>>
  BY DEF vars
<1>2. Tiled'
  BY <1>1, TiledSame DEF Lexed
<1>3. PICK i, n, m : i = start.offset /\ n = at.offset /\ m = mode
  OBVIOUS
<1>4. CASE m \in Inside
  <2>1. IsNext(i) /\ Reading(m, i, n)
    BY <1>3, <1>4, NextStart DEF Inv
  <2>2. QED
    BY <1>1, <1>3, <1>4, <2>1, TokenRead DEF Inv
<1>5. CASE m \notin Inside
  <2>1. Within'
    BY <1>1, <1>3, <1>5 DEF Within, Inside
  <2>2. Between'
    <3>1. SUFFICES ASSUME mode = "next" PROVE LastEnd' \in 0..at.offset /\ In(LastEnd, at.offset, Blanks)'
      BY <1>1 DEF Between
    <3>2. LastEnd \in 0..at.offset /\ In(LastEnd, at.offset, Blanks)
      BY <3>1 DEF Lexed, Between
    <3>3. QED
      BY <1>1, <3>2 DEF LastEnd, In
  <2>3. Justified'
    <3>1. SUFFICES ASSUME mode = "failed" PROVE Justified'
      BY <1>1 DEF Justified
    <3>2. PICK l \in 0..Len(src) : IsNext(l) /\ Barren(l) /\ err.offset \in l..at.offset
      BY <3>1 DEF Lexed, Justified
    <3>3. IsNext(l)'
      BY <1>1, <3>2, NextKept
    <3>4. Barren(l)'
      <4>1. SUFFICES ASSUME NEW kind \in TokenKinds, NEW j \in l..Len(src) PROVE ~Lexeme(kind, l, j)'
        BY <1>1 DEF Barren
      <4>2. ~Lexeme(kind, l, j)
        BY <3>2 DEF Barren
      <4>3. QED
        BY <1>1, <4>2, LexemesKept
    <3>5. QED
      BY <1>1, <3>2, <3>3, <3>4 DEF Justified
  <2>4. QED
    BY <1>2, <2>1, <2>2, <2>3 DEF Lexed
<1>6. QED
  BY <1>4, <1>5

LEMMA LexedNext ==
  ASSUME Inv, Lexed, [Next]_vars
  PROVE  Lexed'
<1>1. CASE SkipBlank \/ EndOfInput \/ Newline \/ Punctuate \/ Unexpected
  BY <1>1, SkipBlankLexed, EndOfInputLexed, NewlineLexed, PunctuateLexed, UnexpectedLexed
<1>2. CASE OpenComment \/ EndLineComment \/ CommentByte \/ BadCommentByte \/ BlockCarriage \/ EndBlockComment
  BY <1>2, OpenCommentLexed, EndLineCommentLexed, CommentByteLexed, BadCommentByteLexed, EndBlockCommentLexed
<1>3. CASE OpenString \/ StringByte \/ CloseString
  BY <1>3, OpenStringLexed, StringByteLexed, CloseStringLexed
<1>4. CASE BadStringByte \/ Unterminated
  BY <1>4, RefusedLexed
<1>5. CASE ScanEscape
  BY <1>5, ScanEscapeLexed, RefusedLexed
<1>6. CASE OpenNumber \/ NumberByte \/ EndNumber \/ BadNumber
  BY <1>6, OpenNumberLexed, NumberByteLexed, EndNumberLexed, BadNumberLexed
<1>7. CASE ScanLiteralWord
  BY <1>7, ScanLiteralWordLexed
<1>8. CASE UNCHANGED vars
  BY <1>8, LexedStutter
<1>9. QED
  BY <1>1, <1>2, <1>3, <1>4, <1>5, <1>6, <1>7, <1>8 DEF Next

\* Every token the scanner returns is a lexeme of its kind, whatever was
\* looked ahead at; only spaces and tabs lie between two tokens, and a source
\* is refused only where no lexeme starts (scanNext and the scan functions it
\* calls, for every source and with or without StrictJSON).
THEOREM TokensLexical == Spec => []TokensAreLexemes
<1>1. Init => Inv
  BY InvInit
<1>2. Inv /\ [Next]_vars => Inv'
  BY InvNext
<1>3. Inv /\ Lexed /\ [Next]_vars => Lexed'
  BY LexedNext
<1>4. Inv /\ Lexed => TokensAreLexemes
  BY LexedSuffices DEF Inv
<1>5. QED
  BY <1>1, <1>2, <1>3, <1>4, LexedInit, PTL DEF Spec

-----------------------------------------------------------------------------
(* The text of a comment. *)

\* The bytes of a body that its text has: all but the LF of a CR LF.
Kept(body) == {i \in DOMAIN body : ~(body[i] = "lf" /\ i > 1 /\ body[i - 1] = "cr")}
Rank(body, i) == Cardinality({n \in Kept(body) : n <= i})
Written(b) == IF b = "cr" THEN "lf" ELSE b
\* text is body with every line break turned into LF.
Normal(text, body) ==
  /\ Len(text) = Cardinality(Kept(body))
  /\ \A i \in Kept(body) : text[Rank(body, i)] = Written(body[i])

LEMMA KeptFinite ==
  ASSUME NEW body \in Seq(Byte)
  PROVE  /\ Kept(body) \subseteq 1..Len(body) /\ IsFiniteSet(Kept(body)) /\ Cardinality(Kept(body)) \in Nat
         /\ \A i \in Kept(body) : Rank(body, i) \in 1..Cardinality(Kept(body))
<1>1. Kept(body) \subseteq 1..Len(body)
  BY DEF Kept
<1>2. Len(body) \in Nat /\ IsFiniteSet(1..Len(body))
  BY FS_Interval
<1>3. IsFiniteSet(Kept(body)) /\ Cardinality(Kept(body)) \in Nat
  BY <1>1, <1>2, FS_Subset, FS_CardinalityType
<1>4. ASSUME NEW i \in Kept(body) PROVE Rank(body, i) \in 1..Cardinality(Kept(body))
  <2>1. PICK S : S = {n \in Kept(body) : n <= i}
    OBVIOUS
  <2>2. S \subseteq Kept(body) /\ i \in S
    BY <1>1, <2>1
  <2>3. IsFiniteSet(S) /\ Cardinality(S) \in Nat /\ Cardinality(S) <= Cardinality(Kept(body))
    BY <1>3, <2>2, FS_Subset, FS_CardinalityType
  <2>4. Cardinality(S) # 0
    BY <2>2, <2>3, FS_EmptySet
  <2>5. QED
    BY <1>3, <2>1, <2>3, <2>4 DEF Rank
<1>5. QED
  BY <1>1, <1>3, <1>4

\* One more byte that is written.
LEMMA NormalByte ==
  ASSUME NEW body \in Seq(Byte), NEW text \in Seq(Byte), Normal(text, body), NEW b \in Byte,
         ~(b = "lf" /\ body # <<>> /\ body[Len(body)] = "cr")
  PROVE  Normal(Append(text, Written(b)), Append(body, b))
<1>1. PICK L \in Nat : L = Len(body)
  OBVIOUS
<1>2. PICK more, longer : more = Append(body, b) /\ longer = Append(text, Written(b))
  OBVIOUS
<1>3. /\ more \in Seq(Byte) /\ Len(more) = L + 1 /\ more[L + 1] = b /\ \A i \in 1..L : more[i] = body[i]
      /\ DOMAIN more = 1..L + 1 /\ DOMAIN body = 1..L
  BY <1>1, <1>2
<1>4. L + 1 \in Kept(more)
  <2>1. CASE L = 0
    BY <1>3, <2>1 DEF Kept
  <2>2. CASE L # 0
    <3>1. body # <<>> /\ (L + 1) - 1 = L /\ L \in 1..L
      BY <1>1, <2>2
    <3>2. more[(L + 1) - 1] = body[Len(body)]
      BY <1>1, <1>3, <3>1
    <3>3. QED
      BY <1>3, <3>1, <3>2 DEF Kept
  <2>3. QED
    BY <2>1, <2>2
<1>5. Kept(more) = Kept(body) \cup {L + 1}
  <2>1. ASSUME NEW i \in 1..L PROVE i \in Kept(more) <=> i \in Kept(body)
    <3>1. i > 1 => i - 1 \in 1..L
      OBVIOUS
    <3>2. QED
      BY <1>3, <3>1 DEF Kept
  <2>2. Kept(more) \subseteq 1..L + 1 /\ Kept(body) \subseteq 1..L
    BY <1>3 DEF Kept
  <2>3. QED
    BY <1>1, <1>4, <2>1, <2>2
<1>6. /\ IsFiniteSet(Kept(body)) /\ Kept(body) \subseteq 1..L /\ L + 1 \notin Kept(body)
      /\ Cardinality(Kept(body)) \in Nat
  BY <1>1, KeptFinite
<1>7. Cardinality(Kept(more)) = Cardinality(Kept(body)) + 1
  BY <1>5, <1>6, FS_AddElement
<1>8. Len(text) = Cardinality(Kept(body)) /\ Len(text) \in Nat
  BY DEF Normal
<1>9. /\ Len(longer) = Len(text) + 1 /\ longer[Len(text) + 1] = Written(b)
      /\ \A r \in 1..Len(text) : longer[r] = text[r]
  BY <1>2
<1>10. ASSUME NEW i \in Kept(more) PROVE longer[Rank(more, i)] = Written(more[i])
  <2>1. CASE i = L + 1
    <3>1. {n \in Kept(more) : n <= i} = Kept(more)
      BY <1>5, <1>6, <2>1
    <3>2. QED
      BY <1>3, <1>7, <1>8, <1>9, <2>1, <3>1 DEF Rank
  <2>2. CASE i # L + 1
    <3>1. i \in Kept(body) /\ i \in 1..L
      BY <1>5, <1>6, <2>2
    <3>2. {n \in Kept(more) : n <= i} = {n \in Kept(body) : n <= i}
      BY <1>5, <1>6, <3>1
    <3>3. Rank(more, i) = Rank(body, i) /\ Rank(body, i) \in 1..Len(text)
      BY <1>8, <3>1, <3>2, KeptFinite DEF Rank
    <3>4. QED
      BY <1>3, <1>9, <3>1, <3>3 DEF Normal
  <2>3. QED
    BY <2>1, <2>2
<1>11. QED
  BY <1>2, <1>7, <1>8, <1>9, <1>10 DEF Normal

\* The LF of a CR LF is not written.
LEMMA NormalBreak ==
  ASSUME NEW body \in Seq(Byte), NEW text \in Seq(Byte), Normal(text, body), body # <<>>, body[Len(body)] = "cr"
  PROVE  Normal(text, Append(body, "lf"))
<1>1. PICK L \in Nat : L = Len(body) /\ L > 0
  OBVIOUS
<1>2. PICK b \in Byte : b = "lf"
  <2>1. "lf" \in Byte
    BY DEF Byte, Controls
  <2>2. QED
    BY <2>1
<1> PICK more : more = Append(body, b)
  OBVIOUS
<1>3. /\ Len(more) = L + 1 /\ more[L + 1] = "lf" /\ (\A i \in 1..L : more[i] = body[i])
      /\ DOMAIN more = 1..L + 1 /\ DOMAIN body = 1..L
  BY <1>1, <1>2
<1>4. L + 1 \notin Kept(more)
  <2>1. (L + 1) - 1 = L /\ L \in 1..L /\ L + 1 > 1
    BY <1>1
  <2>2. more[(L + 1) - 1] = "cr"
    BY <1>1, <1>3, <2>1
  <2>3. QED
    BY <1>3, <2>1, <2>2 DEF Kept
<1>5. Kept(more) = Kept(body)
  <2>1. ASSUME NEW i \in 1..L PROVE i \in Kept(more) <=> i \in Kept(body)
    <3>1. i > 1 => i - 1 \in 1..L
      OBVIOUS
    <3>2. QED
      BY <1>3, <3>1 DEF Kept
  <2>2. Kept(more) \subseteq 1..L + 1 /\ Kept(body) \subseteq 1..L
    BY <1>3 DEF Kept
  <2>3. \A i \in 1..L + 1 : i \in 1..L \/ i = L + 1
    BY <1>1
  <2>4. L + 1 \notin 1..L /\ 1..L \subseteq 1..L + 1
    BY <1>1
  <2>5. \A i : i \in Kept(more) <=> i \in Kept(body)
    BY <1>4, <2>1, <2>2, <2>3, <2>4
  <2>6. QED
    BY <2>5
<1>6. \A i \in Kept(body) : Rank(more, i) = Rank(body, i) /\ more[i] = body[i]
  BY <1>3, <1>5, KeptFinite, <1>1 DEF Rank
<1>7. QED
  BY <1>2, <1>5, <1>6 DEF Normal

\* A body without a CR is its own text.
LEMMA NormalItself ==
  ASSUME NEW body \in Seq(Byte), \A i \in 1..Len(body) : body[i] # "cr"
  PROVE  Normal(body, body)
<1>1. PICK L \in Nat : L = Len(body)
  OBVIOUS
<1>2. Kept(body) = 1..L
  <2>1. ASSUME NEW i \in 1..L PROVE i \in Kept(body)
    <3>1. i > 1 => i - 1 \in 1..Len(body)
      BY <1>1
    <3>2. QED
      BY <1>1, <3>1 DEF Kept
  <2>2. QED
    BY <1>1, <2>1 DEF Kept
<1>3. Cardinality(1..L) = L
  BY FS_Interval
<1>4. ASSUME NEW i \in 1..L PROVE Rank(body, i) = i
  <2>1. {n \in Kept(body) : n <= i} = 1..i
    BY <1>2
  <2>2. Cardinality(1..i) = i
    BY FS_Interval
  <2>3. QED
    BY <2>1, <2>2 DEF Rank
<1>5. QED
  BY <1>1, <1>2, <1>3, <1>4 DEF Normal, Written

\* The bytes of a block comment so far, as buf has them from the first CR on.
BlockText(i, n) ==
  /\ IF hasCR THEN Normal(buf, Slice(i + 2, n)) ELSE In(i + 2, n, Byte \ {"cr"})
  /\ src[n] = "cr" => ~(n < Len(src) /\ src[n + 1] = "lf")
Worded(t) == t.kind \in {"line", "block"} => Normal(t.text, Body(t))
TextInv ==
  /\ \A t \in Range(toks) : Worded(t)
  /\ mode = "block" => BlockText(start.offset, at.offset)

LEMMA WordedSuffices == (\A t \in Range(toks) : Worded(t)) => CommentTextNormalised
BY DEF Range, Worded, CommentTextNormalised, Normal, Kept, Rank, Written

LEMMA WordedKept ==
  ASSUME UNCHANGED src, NEW t
  PROVE  Worded(t)' <=> Worded(t)
BY DEF Worded, Normal, Kept, Rank, Body, Slice

LEMMA SliceMore ==
  ASSUME TypeOK, NEW i \in Nat, NEW n \in Nat, i <= n, n < Len(src)
  PROVE  Slice(i, n + 1) = Append(Slice(i, n), src[n + 1]) /\ Slice(i, n) \in Seq(Byte) /\ src[n + 1] \in Byte
<1>1. Len(src) \in Nat /\ n <= Len(src)
  BY Lengths
<1>2. /\ Len(Slice(i, n)) = n - i /\ \A k \in 1..n - i : Slice(i, n)[k] = src[i + k]
      /\ Slice(i, n) \in Seq(Byte)
  BY <1>1, SliceBytes
<1>3. src[n + 1] \in Byte
  BY SourceByte
<1>4. PICK w : w = Append(Slice(i, n), src[n + 1])
  OBVIOUS
<1>5. PICK j \in Nat : j = n + 1 /\ i <= j /\ j <= Len(src)
  BY <1>1
<1>6. w \in Seq(Byte) /\ Len(w) = j - i
  BY <1>2, <1>3, <1>4, <1>5
<1>7. ASSUME NEW k \in 1..j - i PROVE w[k] = src[i + k]
  <2>1. CASE k \in 1..n - i
    BY <1>2, <1>4, <2>1
  <2>2. CASE k = n + 1 - i
    <3>1. PICK s \in Seq(Byte), x \in Byte : s = Slice(i, n) /\ x = src[n + 1]
      BY <1>2, <1>3
    <3>2. k = Len(s) + 1 /\ i + k = n + 1
      BY <1>2, <2>2, <3>1
    <3>3. w[Len(s) + 1] = x
      BY <1>4, <3>1
    <3>4. QED
      BY <3>1, <3>2, <3>3
  <2>3. QED
    BY <1>5, <2>1, <2>2
<1>8. Slice(i, j) = w
  BY <1>5, <1>6, <1>7, SliceIs
<1>9. QED
  BY <1>2, <1>3, <1>4, <1>5, <1>8

LEMMA TextQuiet ==
  ASSUME TextInv, UNCHANGED <<src, toks>>, mode' # "block"
  PROVE  TextInv'
BY WordedKept DEF TextInv

LEMMA TextToken ==
  ASSUME TypeOK, TextInv, UNCHANGED src, NEW t, toks' = Append(toks, t), Worded(t), mode' # "block"
  PROVE  TextInv'
<1>1. \A u \in Range(toks') : u = t \/ u \in Range(toks)
  <2>1. PICK L \in Nat : L = Len(toks) /\ DOMAIN toks = 1..L
    BY DEF TypeOK
  <2>2. DOMAIN toks' = 1..L + 1 /\ toks'[L + 1] = t /\ \A k \in 1..L : toks'[k] = toks[k]
    BY <2>1 DEF TypeOK
  <2>3. \A k \in 1..L + 1 : k \in 1..L \/ k = L + 1
    BY <2>1
  <2>4. QED
    BY <2>1, <2>2, <2>3 DEF Range
<1>2. ASSUME NEW u, u \in Range(toks') PROVE Worded(u)'
  <2>1. Worded(u)
    BY <1>1, <1>2 DEF TextInv
  <2>2. QED
    BY <2>1, WordedKept
<1>3. QED
  BY <1>2 DEF TextInv, Range

\* A body without a CR, read from the source.
LEMMA NormalSlice ==
  ASSUME TypeOK, NEW i \in Nat, NEW n \in Nat, i <= n, n <= Len(src), In(i, n, Byte \ {"cr"})
  PROVE  Normal(Slice(i, n), Slice(i, n))
<1>1. /\ Len(Slice(i, n)) = n - i /\ \A k \in 1..n - i : Slice(i, n)[k] = src[i + k]
      /\ Slice(i, n) \in Seq(Byte)
  BY SliceBytes
<1>2. \A k \in 1..n - i : i + k \in i + 1..n
  OBVIOUS
<1>3. \A k \in 1..Len(Slice(i, n)) : Slice(i, n)[k] # "cr"
  BY <1>1, <1>2 DEF In
<1>4. QED
  BY <1>1, <1>3, NormalItself

\* What has been read of a block comment, and its text.
LEMMA BlockRead ==
  ASSUME Inv, Lexed, TextInv, mode = "block", NEW i, NEW n, i = start.offset, n = at.offset
  PROVE  /\ i \in Nat /\ n \in Nat /\ i + 2 \in Nat /\ i + 2 <= n /\ n <= Len(src) /\ src[i + 2] = "*"
         /\ Slice(i + 2, n) \in Seq(Byte) /\ buf \in Seq(Byte) /\ hasCR \in BOOLEAN
         /\ Normal(IF hasCR THEN buf ELSE TextFrom(i + 2), Slice(i + 2, n))
         /\ (IF hasCR THEN buf ELSE TextFrom(i + 2)) \in Seq(Byte)
         /\ Slice(i + 2, n) # <<>> => Slice(i + 2, n)[Len(Slice(i + 2, n))] = src[n]
<1>1. /\ i \in Nat /\ n \in Nat /\ i + 2 <= n /\ n <= Len(src) /\ src[i + 2] = "*"
  BY NextStart, Lengths DEF Inv, Inside, Reading, BlockSoFar
<1>2. PICK m \in Nat : m = i + 2 /\ m <= n
  BY <1>1
<1>3. /\ Slice(m, n) \in Seq(Byte) /\ Len(Slice(m, n)) = n - m
      /\ \A k \in 1..n - m : Slice(m, n)[k] = src[m + k]
  BY <1>1, <1>2, SliceBytes DEF Inv
<1>4. TextFrom(m) = Slice(m, n)
  BY DEF TextFrom, Slice
<1>5. IF hasCR THEN Normal(buf, Slice(m, n)) ELSE In(m, n, Byte \ {"cr"})
  BY <1>2 DEF TextInv, BlockText
<1>6. Normal(IF hasCR THEN buf ELSE TextFrom(m), Slice(m, n))
  BY <1>1, <1>2, <1>4, <1>5, NormalSlice DEF Inv
<1>7. buf \in Seq(Byte) /\ hasCR \in BOOLEAN
  BY DEF Inv, TypeOK
<1>8. ASSUME Slice(m, n) # <<>> PROVE Slice(m, n)[Len(Slice(m, n))] = src[n]
  <2> PICK s \in Seq(Byte) : s = Slice(m, n)
    BY <1>3
  <2> Len(s) # 0 /\ Len(s) \in Nat
    BY <1>8
  <2>1. n - m \in 1..n - m /\ m + (n - m) = n
    BY <1>1, <1>2, <1>3
  <2>2. QED
    BY <1>3, <2>1
<1>9. QED
  BY <1>1, <1>2, <1>3, <1>4, <1>6, <1>7, <1>8

LEMMA OpenCommentText ==
  ASSUME Inv, Lexed, TextInv, OpenComment
  PROVE  TextInv'
<1>1. CASE StrictJSON
  BY <1>1, TextQuiet DEF OpenComment, Fail
<1>2. CASE ~StrictJSON
  <2>1. PICK i : i = at.offset
    OBVIOUS
  <2>2. /\ UNCHANGED <<src, toks>> /\ start'.offset = i /\ at'.offset = i + 2 /\ hasCR' = FALSE
        /\ src[i + 2] \in {"/", "*"} /\ i \in Nat
    BY <1>2, <2>1, Lengths DEF OpenComment, Enter, Along, SeesNext, ByteAt, Inv
  <2>3. BlockText(i, i + 2)'
    BY <2>2 DEF BlockText, In
  <2>4. BlockText(start.offset, at.offset)'
    BY <2>2, <2>3
  <2>5. QED
    BY <2>2, <2>4, WordedKept DEF TextInv
<1>3. QED
  BY <1>1, <1>2

LEMMA CommentByteText ==
  ASSUME Inv, Lexed, TextInv, CommentByte
  PROVE  TextInv'
<1>1. UNCHANGED <<src, toks, mode, start, hasCR>> /\ at' = Moved(at) /\ mode \in {"line", "block"}
  BY DEF CommentByte, Advance
<1>2. SUFFICES ASSUME mode = "block" PROVE TextInv'
  BY <1>1, TextQuiet
<1>3. PICK i, n : i = start.offset /\ n = at.offset
  OBVIOUS
<1>4. PICK b : b = src[n + 1]
  OBVIOUS
<1>5. /\ i \in Nat /\ n \in Nat /\ i + 2 <= n /\ n < Len(src) /\ Len(src) \in Nat
      /\ b \notin {"cr", "ctl"} /\ buf' = IF hasCR THEN Append(buf, b) ELSE buf
  BY <1>2, <1>3, <1>4, BlockRead, SeenByte, Lengths DEF CommentByte, Sees, ByteAt, Inv
<1>6. PICK m \in Nat : m = i + 2 /\ m <= n
  BY <1>5
<1>7. Slice(m, n + 1) = Append(Slice(m, n), b) /\ Slice(m, n) \in Seq(Byte) /\ b \in Byte
  BY <1>4, <1>5, <1>6, SliceMore DEF Inv
<1>8. IF hasCR THEN Normal(buf, Slice(m, n)) ELSE In(m, n, Byte \ {"cr"})
  BY <1>2, <1>3, <1>6 DEF TextInv, BlockText
<1>9. ~(b = "lf" /\ Slice(m, n) # <<>> /\ Slice(m, n)[Len(Slice(m, n))] = "cr")
  <2>1. src[n] = "cr" => b # "lf"
    BY <1>2, <1>3, <1>4, <1>5 DEF TextInv, BlockText
  <2>2. QED
    BY <1>2, <1>3, <1>6, <2>1, BlockRead
<1>10. CASE hasCR
  <2>1. buf \in Seq(Byte) /\ Written(b) = b
    BY <1>5 DEF Inv, TypeOK, Written
  <2>2. Normal(Append(buf, Written(b)), Append(Slice(m, n), b))
    BY <1>7, <1>8, <1>9, <1>10, <2>1, NormalByte
  <2>3. Normal(buf', Slice(m, n + 1))
    BY <1>5, <1>7, <1>10, <2>1, <2>2
  <2>4. QED
    BY <1>1, <1>3, <1>4, <1>5, <1>6, <1>10, <2>3, WordedKept, MovedOffset DEF TextInv, BlockText, Slice
<1>11. CASE ~hasCR
  <2>1. In(m, n + 1, Byte \ {"cr"})
    BY <1>4, <1>5, <1>6, <1>7, <1>8, <1>11 DEF In
  <2>2. QED
    BY <1>1, <1>3, <1>4, <1>5, <1>6, <1>11, <2>1, WordedKept, MovedOffset DEF TextInv, BlockText, In
<1>12. QED
  BY <1>10, <1>11

LEMMA BlockCarriageText ==
  ASSUME Inv, Lexed, TextInv, BlockCarriage
  PROVE  TextInv'
<1>1. /\ UNCHANGED <<src, toks, mode, start>> /\ mode = "block" /\ hasCR' = TRUE /\ at' = OverBreak
      /\ buf' = Carriage
  BY DEF BlockCarriage
<1>2. PICK i, n : i = start.offset /\ n = at.offset
  OBVIOUS
<1>3. PICK m, text : m = i + 2 /\ text = IF hasCR THEN buf ELSE TextFrom(m)
  OBVIOUS
<1>4. /\ i \in Nat /\ n \in Nat /\ m \in Nat /\ m <= n /\ n < Len(src) /\ Len(src) \in Nat
      /\ src[n + 1] = "cr" /\ text \in Seq(Byte) /\ Normal(text, Slice(m, n))
      /\ buf' = Append(text, "lf")
  BY <1>1, <1>2, <1>3, BlockRead, SeenByte, Lengths DEF BlockCarriage, Carriage, Inv
<1>5. PICK b \in Byte : b = "cr" /\ Written(b) = "lf"
  <2>1. "cr" \in Byte
    BY DEF Byte, Controls
  <2>2. QED
    BY <2>1 DEF Written
<1>6. Slice(m, n + 1) = Append(Slice(m, n), b) /\ Slice(m, n) \in Seq(Byte)
  BY <1>4, <1>5, SliceMore DEF Inv
<1>7. Normal(buf', Slice(m, n + 1))
  <2>1. Normal(Append(text, Written(b)), Append(Slice(m, n), b))
    BY <1>4, <1>5, <1>6, NormalByte
  <2>2. QED
    BY <1>4, <1>5, <1>6, <2>1
<1>8. ASSUME NEW l, l = at'.offset, Normal(buf', Slice(m, l)), src[l] = "cr" => ~(l < Len(src) /\ src[l + 1] = "lf")
      PROVE  TextInv'
  <2>1. BlockText(i, l)'
    BY <1>1, <1>3, <1>8 DEF BlockText, Normal, Kept, Rank, Slice
  <2>2. QED
    BY <1>1, <1>2, <1>8, <2>1, WordedKept DEF TextInv
<1>9. CASE n + 1 < Len(src) /\ src[n + 2] = "lf"
  <2>1. PICK l \in Nat : l = n + 1 /\ l + 1 = n + 2 /\ l < Len(src) /\ m <= l
    BY <1>4, <1>9
  <2>2. /\ Slice(m, l + 1) = Append(Slice(m, l), "lf") /\ Slice(m, l) \in Seq(Byte)
    BY <1>4, <1>9, <2>1, SliceMore DEF Inv
  <2>3. Slice(m, l) # <<>> /\ Slice(m, l)[Len(Slice(m, l))] = "cr"
    BY <1>5, <1>6, <2>1
  <2>4. buf' \in Seq(Byte)
    <3>1. "lf" \in Byte
      BY DEF Byte, Controls
    <3>2. QED
      BY <1>4, <3>1
  <2>5. Normal(buf', Slice(m, l + 1))
    <3>1. PICK t \in Seq(Byte) : t = buf'
      BY <2>4
    <3>2. Normal(t, Append(Slice(m, l), "lf"))
      BY <1>7, <2>1, <2>2, <2>3, <3>1, NormalBreak
    <3>3. QED
      BY <2>2, <3>1, <3>2
  <2>6. at'.offset = l + 1
    BY <1>1, <1>2, <1>4, <1>9, <2>1, MovedOffset DEF OverBreak, Sees, SeesNext, AtEnd, ByteAt
  <2>7. src[l + 1] # "cr"
    BY <1>9, <2>1
  <2>8. QED
    BY <1>8, <2>5, <2>6, <2>7
<1>10. CASE ~(n + 1 < Len(src) /\ src[n + 2] = "lf")
  <2>1. at'.offset = n + 1 /\ (n + 1) + 1 = n + 2
    BY <1>1, <1>2, <1>4, <1>10, MovedOffset DEF OverBreak, SeesNext, ByteAt
  <2>2. PICK l : l = n + 1 /\ l + 1 = n + 2
    BY <2>1
  <2>3. QED
    BY <1>7, <1>8, <1>10, <2>1, <2>2
<1>11. QED
  BY <1>9, <1>10

LEMMA EndCommentText ==
  ASSUME Inv, Lexed, TextInv, EndLineComment \/ EndBlockComment
  PROVE  TextInv'
<1>1. PICK i, n : i = start.offset /\ n = at.offset
  OBVIOUS
<1>2. CASE EndLineComment
  <2>1. /\ i \in Nat /\ n \in Nat /\ i + 2 <= n /\ n <= Len(src) /\ LineSoFar(i, n)
    BY <1>1, <1>2, NextStart, Lengths DEF EndLineComment, Inv, Inside, Reading, LineSoFar
  <2>2. PICK m \in Nat : m = i + 2 /\ m <= n
    BY <2>1
  <2>3. In(m, n, Byte \ {"cr"})
    BY <2>1, <2>2 DEF LineSoFar, In
  <2>4. Normal(Slice(m, n), Slice(m, n))
    BY <2>1, <2>2, <2>3, NormalSlice DEF Inv
  <2>5. PICK t : t = Token("line", start, i, n, Slice(m, n))
    OBVIOUS
  <2>6. Worded(t)
    BY <2>2, <2>4, <2>5 DEF Worded, Body, Token
  <2>7. UNCHANGED src /\ toks' = Append(toks, t) /\ mode' # "block"
    BY <1>1, <1>2, <2>2, <2>5 DEF EndLineComment, Emit, TextFrom, Slice
  <2>8. QED
    BY <2>6, <2>7, TextToken DEF Inv
<1>3. CASE EndBlockComment
  <2>1. PICK text : text = IF hasCR THEN buf ELSE TextFrom(i + 2)
    OBVIOUS
  <2>2. /\ i \in Nat /\ n \in Nat /\ Normal(text, Slice(i + 2, n)) /\ (n + 2) - 2 = n
    BY <1>1, <1>3, <2>1, BlockRead DEF EndBlockComment
  <2>3. PICK t : t = Token("block", start, i, n + 2, text)
    OBVIOUS
  <2>4. Worded(t)
    BY <2>2, <2>3 DEF Worded, Body, Token
  <2>5. UNCHANGED src /\ toks' = Append(toks, t) /\ mode' # "block"
    BY <1>1, <1>3, <2>1, <2>3 DEF EndBlockComment, Emit, Along
  <2>6. QED
    BY <2>4, <2>5, TextToken DEF Inv
<1>4. QED
  BY <1>2, <1>3

LEMMA TextNext ==
  ASSUME Inv, Lexed, TextInv, [Next]_vars
  PROVE  TextInv'
<1>1. CASE OpenComment \/ CommentByte \/ BlockCarriage \/ EndLineComment \/ EndBlockComment
  BY <1>1, OpenCommentText, CommentByteText, BlockCarriageText, EndCommentText
<1>2. CASE \/ SkipBlank \/ Unexpected \/ BadCommentByte \/ OpenString \/ StringByte \/ BadStringByte
           \/ ScanEscape \/ Unterminated \/ OpenNumber \/ NumberByte \/ BadNumber
  <2>1. UNCHANGED <<src, toks>>
    BY <1>2 DEF SkipBlank, Advance, Unexpected, Fail, BadCommentByte, OpenString, StringByte, BadStringByte,
                ScanEscape, Unterminated, OpenNumber, NumberByte, BadNumber, Enter
  <2>2. mode' # "block"
    <3>1. CASE Unexpected \/ BadCommentByte \/ BadStringByte \/ Unterminated \/ BadNumber
      BY <3>1 DEF Unexpected, Fail, BadCommentByte, BadStringByte, Unterminated, BadNumber
    <3>2. CASE SkipBlank \/ OpenString \/ StringByte \/ ScanEscape \/ OpenNumber
      BY <3>2 DEF SkipBlank, Advance, OpenString, StringByte, ScanEscape, OpenNumber, Enter, Fail
    <3>3. CASE NumberByte
      BY <3>3 DEF NumberByte, Part, PartAfter
    <3>4. QED
      BY <1>2, <3>1, <3>2, <3>3
  <2>3. QED
    BY <2>1, <2>2, TextQuiet
<1>3. CASE Newline \/ Punctuate \/ CloseString \/ EndNumber
  <2>1. PICK kind, pos, from, to, text : Emit(kind, pos, from, to, text) /\ kind \notin {"line", "block"}
    <3>1. CASE Newline
      BY <3>1 DEF Newline
    <3>2. CASE Punctuate
      BY <3>2 DEF Punctuate, Sees, Punctuation
    <3>3. CASE CloseString
      BY <3>3 DEF CloseString
    <3>4. CASE EndNumber
      BY <3>4 DEF EndNumber
    <3>5. QED
      BY <1>3, <3>1, <3>2, <3>3, <3>4
  <2>2. PICK t : t = Token(kind, pos, from, to.offset, text)
    OBVIOUS
  <2>3. Worded(t)
    BY <2>1, <2>2 DEF Worded, Token
  <2>4. QED
    BY <2>1, <2>2, <2>3, TextToken DEF Emit, Inv
<1>4. CASE EndOfInput
  <2>1. PICK t : t = Token("eof", at, at.offset, at.offset, <<>>)
    OBVIOUS
  <2>2. Worded(t)
    BY <2>1 DEF Worded, Token
  <2>3. QED
    BY <1>4, <2>1, <2>2, TextToken DEF EndOfInput, Inv
<1>5. CASE ScanLiteralWord
  <2>1. CASE IsWord(at.offset, Words[ByteAt(at.offset)])
    <3>1. PICK to : to = Along(at, Len(Words[ByteAt(at.offset)]))
      OBVIOUS
    <3>2. PICK t : t = Token("word", at, at.offset, to.offset, <<>>)
      OBVIOUS
    <3>3. Worded(t)
      BY <3>2 DEF Worded, Token
    <3>4. QED
      BY <1>5, <2>1, <3>1, <3>2, <3>3, TextToken DEF ScanLiteralWord, Emit, Inv
  <2>2. CASE ~IsWord(at.offset, Words[ByteAt(at.offset)])
    BY <1>5, <2>2, TextQuiet DEF ScanLiteralWord, Fail
  <2>3. QED
    BY <2>1, <2>2
<1>6. CASE UNCHANGED vars
  <2>1. UNCHANGED <<src, at, mode, start, buf, hasCR, toks>>
    BY <1>6 DEF vars
  <2>2. BlockText(start.offset, at.offset)' <=> BlockText(start.offset, at.offset)
    BY <2>1 DEF BlockText, Normal, Kept, Rank, Slice, In
  <2>3. QED
    BY <2>1, <2>2, WordedKept DEF TextInv
<1>7. QED
  BY <1>1, <1>2, <1>3, <1>4, <1>5, <1>6 DEF Next

\* The text of every comment is its body with CR, LF and CR LF each turned
\* into one LF, also where scanBlockComment goes over from a slice of the
\* source to a copy at the first CR.
THEOREM TextsNormalised == Spec => []CommentTextNormalised
<1>1. Init => TextInv
  <2>1. toks = <<>> /\ mode = "next" => TextInv
    BY DEF TextInv, Range
  <2>2. QED
    BY <2>1 DEF Init
<1>2. Inv /\ Lexed /\ TextInv /\ [Next]_vars => TextInv'
  BY TextNext
<1>3. TextInv => CommentTextNormalised
  BY WordedSuffices DEF TextInv
<1>4. QED
  BY <1>1, <1>2, <1>3, InvInit, InvNext, LexedInit, LexedNext, PTL DEF Spec
=============================================================================
