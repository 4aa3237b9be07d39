------------------------------- MODULE Scanner -------------------------------
(***************************************************************************)
(* The scanner of scanner.go, byte by byte: one step per turn of its loops. *)
(*                                                                         *)
(* A byte is one member of its class: "0", "1" and "8" stand for the digits, *)
(* "ctl" for the control characters without a use, "x" for the ASCII bytes  *)
(* that start no token; "E2", "80" and "A8" are bytes of UTF-8.  Offsets    *)
(* count from 0, as in the code; src[n + 1] is the byte at offset n.  toks  *)
(* is a history variable: next hands the tokens to the parser one at a time. *)
(***************************************************************************)
EXTENDS Integers, Sequences, FiniteSets, SequencesExt

CONSTANTS
  Sources,     \* the sources to scan
  StrictJSON   \* scanner.strictJSON

Blanks == {"sp", "tab"}
Controls == {"ctl", "cr", "lf", "tab"}
Digits == {"0", "1", "8"}
Letters == {"t", "r", "u", "e", "n", "l", "b", "c", "d"}
HexDigits == Digits \cup {"b", "c", "d", "e"}
Punctuation == {"{", "}", "[", "]", ":", ","}
Byte == Blanks \cup Controls \cup Letters \cup Digits \cup Punctuation
        \cup {"quote", "backslash", "/", "*", "-", "+", ".", "_", "x", "<", "E2", "80", "A8"}

\* The keywords, by the byte they start with.
Words == [b \in {"t", "n"} |-> IF b = "t" THEN <<"t", "r", "u", "e">> ELSE <<"n", "u", "l", "l">>]

ASSUME SourcesAssumption == Sources \subseteq Seq(Byte)
ASSUME StrictAssumption == StrictJSON \in BOOLEAN

VARIABLES
  src,    \* scanner.src
  at,     \* scanner.line, scanner.col and scanner.pos
  mode,   \* where the scan stands
  start,  \* the position of the token being scanned
  buf,    \* scanBlockComment's buf
  hasCR,  \* scanBlockComment's hasCR
  toks,   \* history: the tokens returned
  err     \* the position of the error returned

vars == <<src, at, mode, start, buf, hasCR, toks, err>>

-----------------------------------------------------------------------------
(* Positions. *)

AtEnd == at.offset >= Len(src)
ByteAt(n) == src[n + 1]
Sees(bytes) == ~AtEnd /\ ByteAt(at.offset) \in bytes
SeesNext(bytes) == at.offset + 1 < Len(src) /\ ByteAt(at.offset + 1) \in bytes

\* Mutant: both bytes of CR LF start a line.
MovedTwice(p) ==
  IF ByteAt(p.offset) \in {"lf", "cr"}
  THEN [line |-> p.line + 1, col |-> 1, offset |-> p.offset + 1]
  ELSE [line |-> p.line, col |-> p.col + 1, offset |-> p.offset + 1]

\* advance: the position after the byte at p.
Moved(p) ==
  LET b == ByteAt(p.offset)
      crlf == p.offset + 1 < Len(src) /\ ByteAt(p.offset + 1) = "lf"
  IN  IF b = "lf" \/ (b = "cr" /\ ~crlf)
      THEN [line |-> p.line + 1, col |-> 1, offset |-> p.offset + 1]
      ELSE [line |-> p.line, col |-> p.col + 1, offset |-> p.offset + 1]

\* advance over n bytes that hold no line break.
Along(p, n) == [line |-> p.line, col |-> p.col + n, offset |-> p.offset + n]

\* CR, LF and CR LF are one line break each.
OverBreak ==
  IF Sees({"cr"}) /\ SeesNext({"lf"}) THEN Moved(Moved(at)) ELSE Moved(at)

-----------------------------------------------------------------------------
(* Results. *)

Token(kind, pos, from, upTo, text) ==
  [kind |-> kind, pos |-> pos, from |-> from, upTo |-> upTo, text |-> text]

\* A token that ends at to; pos is the position it carries.
Emit(kind, pos, from, to, text) ==
  /\ toks' = Append(toks, Token(kind, pos, from, to.offset, text))
  /\ at' = to
  /\ mode' = "next"
  /\ UNCHANGED <<src, start, buf, hasCR, err>>

Fail(pos) ==
  /\ mode' = "failed"
  /\ err' = pos
  /\ UNCHANGED <<src, at, start, buf, hasCR, toks>>

\* One more byte, in the same loop.
Advance == at' = Moved(at) /\ UNCHANGED <<src, mode, start, toks, err>>

Enter(next, n) ==
  /\ mode' = next
  /\ start' = at
  /\ at' = Along(at, n)
  /\ buf' = <<>> /\ hasCR' = FALSE
  /\ UNCHANGED <<src, toks, err>>

-----------------------------------------------------------------------------
(* next and scanNext. *)

SkipBlank ==
  /\ mode = "next" /\ Sees(Blanks)
  /\ Advance /\ UNCHANGED <<buf, hasCR>>

EndOfInput ==
  /\ mode = "next" /\ AtEnd
  /\ toks' = Append(toks, Token("eof", at, at.offset, at.offset, <<>>))
  /\ mode' = "done"
  /\ UNCHANGED <<src, at, start, buf, hasCR, err>>

\* The token of a line break carries the position after it.
Newline ==
  /\ mode = "next" /\ Sees({"cr", "lf"})
  /\ Emit("nl", OverBreak, at.offset, OverBreak, <<>>)

Punctuate ==
  /\ mode = "next" /\ Sees(Punctuation)
  /\ Emit(ByteAt(at.offset), at, at.offset, Moved(at), <<>>)

Unexpected ==
  /\ mode = "next" /\ ~AtEnd
  /\ \/ ByteAt(at.offset) \notin Blanks \cup {"cr", "lf", "/", "quote", "-"} \cup Digits
                                 \cup Punctuation \cup DOMAIN Words
     \/ Sees({"/"}) /\ ~SeesNext({"/", "*"})
  /\ Fail(at)

-----------------------------------------------------------------------------
(* Comments. *)

OpenComment ==
  /\ mode = "next" /\ Sees({"/"}) /\ SeesNext({"/", "*"})
  /\ IF StrictJSON THEN Fail(at)
     ELSE Enter(IF SeesNext({"/"}) THEN "line" ELSE "block", 2)

TextFrom(n) == SubSeq(src, n + 1, at.offset)

\* Mutant: the line break belongs to the comment.
EndLineWithBreak ==
  /\ mode = "line" /\ (AtEnd \/ Sees({"cr", "lf"}))
  /\ Emit("line", start, start.offset, IF AtEnd THEN at ELSE OverBreak, TextFrom(start.offset + 2))

EndLineComment ==
  /\ mode = "line" /\ (AtEnd \/ Sees({"cr", "lf"}))
  /\ Emit("line", start, start.offset, at, TextFrom(start.offset + 2))

\* A byte of a line comment, of a block comment before its first CR, or of one after it.
CommentByte ==
  /\ mode \in {"line", "block"} /\ ~AtEnd
  /\ ~Sees({"cr", "ctl"}) /\ ~(mode = "line" /\ Sees({"lf"}))
  /\ ~(mode = "block" /\ Sees({"*"}) /\ SeesNext({"/"}))
  /\ buf' = IF hasCR THEN Append(buf, ByteAt(at.offset)) ELSE buf
  /\ Advance /\ UNCHANGED hasCR

BadCommentByte ==
  /\ mode \in {"line", "block"} /\ Sees({"ctl"})
  /\ Fail(at)

\* Mutant: the bytes before the first CR are forgotten.
CarriageLoses == IF hasCR THEN Append(buf, "lf") ELSE <<"lf">>

\* buf after a CR: the first one copies the body so far.
Carriage == Append(IF hasCR THEN buf ELSE TextFrom(start.offset + 2), "lf")

\* CR and CR LF inside a block comment become LF in its text.
BlockCarriage ==
  /\ mode = "block" /\ Sees({"cr"})
  /\ buf' = Carriage
  /\ hasCR' = TRUE
  /\ at' = OverBreak
  /\ UNCHANGED <<src, mode, start, toks, err>>

EndBlockComment ==
  /\ mode = "block" /\ Sees({"*"}) /\ SeesNext({"/"})
  /\ Emit("block", start, start.offset, Along(at, 2),
          IF hasCR THEN buf ELSE TextFrom(start.offset + 2))

-----------------------------------------------------------------------------
(* Strings. *)

OpenString ==
  /\ mode = "next" /\ Sees({"quote"})
  /\ Enter("string", 1)

StringByte ==
  /\ mode = "string" /\ ~AtEnd
  /\ ~Sees({"quote", "backslash"} \cup Controls)
  /\ Advance /\ UNCHANGED <<buf, hasCR>>

BadStringByte ==
  /\ mode = "string" /\ Sees(Controls)
  /\ Fail(at)

CloseString ==
  /\ mode = "string" /\ Sees({"quote"})
  /\ Emit("string", start, start.offset, Moved(at), <<>>)

\* The bytes that may follow a backslash alone, and the four of \u.
Simple == {"quote", "backslash", "/", "b", "n", "r", "t"}

Unicode ==
  /\ SeesNext({"u"})
  /\ at.offset + 6 <= Len(src)
  /\ \A i \in 2..5 : ByteAt(at.offset + i) \in HexDigits

EscapeLength == IF SeesNext(Simple) THEN 2 ELSE IF Unicode THEN 6 ELSE 0

ScanEscape ==
  /\ mode = "string" /\ Sees({"backslash"})
  /\ IF EscapeLength = 0 THEN Fail(at)
     ELSE /\ at' = Along(at, EscapeLength)
          /\ UNCHANGED <<src, mode, start, buf, hasCR, toks, err>>

\* Mutant: a block comment may stay open for ever.
UnterminatedString == mode = "string" /\ AtEnd /\ Fail(start)

Unterminated ==
  /\ mode \in {"string", "block"} /\ AtEnd
  /\ Fail(start)

-----------------------------------------------------------------------------
(* Numbers: the part of the grammar the scan is in, after the bytes so far. *)

NumberParts == {"minus", "zero", "int", "point", "frac", "exp", "sign", "expdigits"}
Complete == {"zero", "int", "frac", "expdigits"}

PartAfter(part, b) ==
  CASE part = "minus" /\ b = "0" -> "zero"
    [] part = "minus" /\ b \in Digits \ {"0"} -> "int"
    [] part = "int" /\ b \in Digits -> "int"
    [] part \in {"point", "frac"} /\ b \in Digits -> "frac"
    [] part \in {"exp", "sign", "expdigits"} /\ b \in Digits -> "expdigits"
    [] part \in {"zero", "int"} /\ b = "." -> "point"
    [] part \in {"zero", "int", "frac"} /\ b = "e" -> "exp"
    [] part = "exp" /\ b \in {"+", "-"} -> "sign"
    [] OTHER -> "none"

Part == IF AtEnd THEN "none" ELSE PartAfter(mode, ByteAt(at.offset))

OpenNumber ==
  /\ mode = "next" /\ Sees({"-"} \cup Digits)
  /\ Enter("minus", IF Sees({"-"}) THEN 1 ELSE 0)

NumberByte ==
  /\ mode \in NumberParts /\ Part # "none"
  /\ mode' = Part
  /\ at' = Moved(at)
  /\ UNCHANGED <<src, start, buf, hasCR, toks, err>>

EndNumber ==
  /\ mode \in Complete /\ Part = "none"
  /\ ~(mode = "zero" /\ Sees(Digits))
  /\ Emit("number", start, start.offset, at, <<>>)

BadNumber ==
  /\ mode \in NumberParts /\ Part = "none"
  /\ mode \notin Complete \/ (mode = "zero" /\ Sees(Digits))
  /\ Fail(start)

-----------------------------------------------------------------------------
(* Keywords. *)

\* Mutant: the byte after the word does not matter.
IsWordPrefix(n, word) == n + Len(word) <= Len(src) /\ SubSeq(src, n + 1, n + Len(word)) = word

\* word stands at offset n and no identifier goes on after it.
IsWord(n, word) ==
  /\ n + Len(word) <= Len(src)
  /\ SubSeq(src, n + 1, n + Len(word)) = word
  /\ n + Len(word) < Len(src) =>
       ByteAt(n + Len(word)) \notin Letters \cup Digits \cup {"_"}

ScanLiteralWord ==
  /\ mode = "next" /\ Sees(DOMAIN Words)
  /\ LET word == Words[ByteAt(at.offset)]
     IN  IF IsWord(at.offset, word)
         THEN Emit("word", at, at.offset, Along(at, Len(word)), <<>>)
         ELSE Fail(at)

-----------------------------------------------------------------------------
Init ==
  /\ src \in Sources
  /\ at = [line |-> 1, col |-> 1, offset |-> 0]
  /\ mode = "next"
  /\ start = at
  /\ buf = <<>> /\ hasCR = FALSE
  /\ toks = <<>>
  /\ err = at

Next ==
  \/ SkipBlank \/ EndOfInput \/ Newline \/ Punctuate \/ Unexpected
  \/ OpenComment \/ EndLineComment \/ CommentByte \/ BadCommentByte
  \/ BlockCarriage \/ EndBlockComment
  \/ OpenString \/ StringByte \/ BadStringByte \/ CloseString \/ ScanEscape \/ Unterminated
  \/ OpenNumber \/ NumberByte \/ EndNumber \/ BadNumber
  \/ ScanLiteralWord

Spec == Init /\ [][Next]_vars

\* The parser asks for tokens until the end of the input or an error.
FairSpec == Spec /\ WF_vars(Next)

-----------------------------------------------------------------------------
Position == [line : Nat, col : Nat, offset : Nat]
Modes == {"next", "line", "block", "string", "done", "failed"} \cup NumberParts
TokenKinds == {"eof", "nl", "line", "block", "string", "number", "word"} \cup Punctuation

\* Every variable has its type, and no offset lies past the source.
TypeOK ==
  /\ src \in Seq(Byte)
  /\ at \in Position /\ start \in Position /\ err \in Position
  /\ at.offset \in 0..Len(src) /\ start.offset <= at.offset
  /\ mode \in Modes
  /\ buf \in Seq(Byte) /\ hasCR \in BOOLEAN
  /\ toks \in Seq([kind : TokenKinds, pos : Position, from : Nat, upTo : Nat, text : Seq(Byte)])

\* In the source s, a line ends at LF, and at a CR that no LF follows.
EndsLine(s, i) == s[i] = "lf" \/ (s[i] = "cr" /\ ~(i < Len(s) /\ s[i + 1] = "lf"))
LineEnds(s, n) == {i \in 1..n : EndsLine(s, i)}

\* The line and the column of p are those of its offset: one more than the
\* line ends before it, and the distance to the last of them.
IsPosition(s, p) ==
  /\ p.line = 1 + Cardinality(LineEnds(s, p.offset))
  /\ \E b \in LineEnds(s, p.offset) \cup {0} :
       /\ \A i \in LineEnds(s, p.offset) : i <= b
       /\ p.col = p.offset - b + 1

\* Every position the scanner is at, puts in a token or in an error is the
\* line and column of its offset, over every mix of CR, LF and CR LF, in and
\* out of comments (advance's split handling of CR LF).
PositionsExact ==
  /\ IsPosition(src, at) /\ IsPosition(src, start) /\ IsPosition(src, err)
  /\ \A k \in DOMAIN toks : IsPosition(src, toks[k].pos)

-----------------------------------------------------------------------------
(* The lexical grammar, stated on slices of the source. *)

Slice(i, j) == SubSeq(src, i + 1, j)
In(i, j, bytes) == \A n \in i + 1..j : src[n] \in bytes

DigitRun(i, j) == i < j /\ In(i, j, Digits)
IsInt(i, j) == DigitRun(i, j) /\ (src[i + 1] = "0" => j = i + 1)
IsFrac(i, j) == i = j \/ (i + 1 < j /\ src[i + 1] = "." /\ DigitRun(i + 1, j))
IsExp(i, j) ==
  i = j \/ /\ i + 1 < j /\ src[i + 1] = "e"
           /\ \/ DigitRun(i + 1, j)
              \/ i + 2 < j /\ src[i + 2] \in {"+", "-"} /\ DigitRun(i + 2, j)
\* RFC 8259, section 6.
IsNumber(i, j) ==
  \E s \in {i, i + 1} : \E a, b \in i..j :
    /\ s = i + 1 => i < Len(src) /\ src[i + 1] = "-"
    /\ s <= a /\ a <= b
    /\ IsInt(s, a) /\ IsFrac(a, b) /\ IsExp(b, j)
\* A number may not run on into what could only have been more of a number.
NumberStops(i, j) ==
  j < Len(src) =>
    /\ ~(src[j + 1] \in Digits)
    /\ src[j + 1] = "." => ~IsInt(i, j) /\ ~(src[i + 1] = "-" /\ IsInt(i + 1, j))
    /\ src[j + 1] = "e" => "e" \in {src[n] : n \in i + 1..j}

\* The byte at index n is escaped: an odd number of backslashes ends before it.
BackslashesBefore(n, i) ==
  LET run == {m \in i + 1..n - 1 : \A k \in m..n - 1 : src[k] = "backslash"} IN Cardinality(run)
Escaped(n, i) == BackslashesBefore(n, i) % 2 = 1
IsString(i, j) ==
  /\ i + 1 < j /\ src[i + 1] = "quote" /\ src[j] = "quote" /\ ~Escaped(j, i + 1)
  /\ \A n \in i + 2..j - 1 :
       /\ src[n] \notin Controls
       /\ src[n] = "quote" => Escaped(n, i + 1)
       /\ Escaped(n, i + 1) =>
            \/ src[n] \in Simple
            \/ /\ src[n] = "u" /\ n + 4 <= j - 1
               /\ \A k \in n + 1..n + 4 : src[k] \in HexDigits

IsLineComment(i, j) ==
  /\ ~StrictJSON
  /\ i + 2 <= j /\ Slice(i, i + 2) = <<"/", "/">>
  /\ In(i, j, Byte \ {"cr", "lf", "ctl"})
  /\ j < Len(src) => src[j + 1] \in {"cr", "lf"}
IsBlockComment(i, j) ==
  /\ ~StrictJSON
  /\ i + 4 <= j /\ Slice(i, i + 2) = <<"/", "*">> /\ Slice(j - 2, j) = <<"*", "/">>
  /\ In(i, j, Byte \ {"ctl"})
  /\ \A n \in i + 2..j - 3 : Slice(n, n + 2) # <<"*", "/">>

Lexeme(kind, i, j) ==
  CASE kind = "eof" -> i = j /\ i = Len(src)
    [] kind = "nl" -> Slice(i, j) \in {<<"cr">>, <<"lf">>, <<"cr", "lf">>}
                      /\ ~(j < Len(src) /\ Slice(i, j + 1) = <<"cr", "lf">>)
    [] kind \in Punctuation -> Slice(i, j) = <<kind>>
    [] kind = "line" -> IsLineComment(i, j)
    [] kind = "block" -> IsBlockComment(i, j)
    [] kind = "string" -> IsString(i, j)
    [] kind = "number" -> IsNumber(i, j) /\ NumberStops(i, j)
    [] kind = "word" -> \E b \in DOMAIN Words : /\ Slice(i, j) = Words[b]
                                                /\ j < Len(src) =>
                                                     src[j + 1] \notin Letters \cup Digits \cup {"_"}

\* Every token is a lexeme of its kind, and the tokens tile the source: only
\* spaces and tabs lie between two of them, whatever the scan looked ahead at.
\* The scanner refuses a source only where no lexeme starts, and the error
\* lies between there and where the scan stopped.
TokensAreLexemes ==
  /\ \A k \in DOMAIN toks :
       LET t == toks[k]
           before == IF k = 1 THEN 0 ELSE toks[k - 1].upTo
       IN  /\ Lexeme(t.kind, t.from, t.upTo)
           /\ before <= t.from /\ In(before, t.from, Blanks)
  /\ mode = "failed" =>
    LET done == IF toks = <<>> THEN 0 ELSE Last(toks).upTo
        from == CHOOSE n \in done..Len(src) - 1 :
                  In(done, n, Blanks) /\ src[n + 1] \notin Blanks
    IN  /\ \A kind \in TokenKinds : \A j \in from..Len(src) : ~Lexeme(kind, from, j)
        /\ err.offset \in from..at.offset

\* A comment's text is its body with every line break turned into LF.
Body(t) == IF t.kind = "line" THEN Slice(t.from + 2, t.upTo) ELSE Slice(t.from + 2, t.upTo - 2)
CommentTextNormalised ==
  \A k \in DOMAIN toks : toks[k].kind \in {"line", "block"} =>
    LET body == Body(toks[k])
        kept == {i \in DOMAIN body : ~(body[i] = "lf" /\ i > 1 /\ body[i - 1] = "cr")}
        text == toks[k].text
    IN  /\ Len(text) = Cardinality(kept)
        /\ \A i \in kept :
             text[Cardinality({n \in kept : n <= i})] = IF body[i] = "cr" THEN "lf" ELSE body[i]

\* What the parser relies on (CanFollow in Parser): a line comment is
\* followed by a line break or the end of the input.
LineCommentEndsLine ==
  \A k \in 2..Len(toks) : toks[k - 1].kind = "line" => toks[k].kind \in {"nl", "eof"}

\* Every scan ends: each loop consumes a byte at each turn or leaves.
Terminates == <>(mode \in {"done", "failed"})
=============================================================================
