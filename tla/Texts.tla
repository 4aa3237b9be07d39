-------------------------------- MODULE Texts --------------------------------
(***************************************************************************)
(* What the texts of the scanner's tokens mean: unquoteString of strings.go  *)
(* and canonicalNumber of patch.go; and how relayoutString of encode.go      *)
(* writes a string again.                                                    *)
(*                                                                         *)
(* The inside of a string is a sequence of code points, as its bytes decode; *)
(* a byte that is part of none is BadByte.                                   *)
(***************************************************************************)
EXTENDS Scanner

CONSTANTS MaxInt   \* math.MaxInt

MinInt == -MaxInt - 1

ASSUME MaxIntAssumption == MaxInt \in Nat

-----------------------------------------------------------------------------
(* UTF-8. *)

BadByte == -1
Replacement == 65533   \* utf8.RuneError

Ascii ==
  "tab" :> 9 @@ "lf" :> 10 @@ "cr" :> 13 @@ "ctl" :> 1 @@ "sp" :> 32 @@ "quote" :> 34 @@ "backslash" :> 92
  @@ "*" :> 42 @@ "+" :> 43 @@ "," :> 44 @@ "-" :> 45 @@ "." :> 46 @@ "/" :> 47 @@ ":" :> 58 @@ "<" :> 60
  @@ "0" :> 48 @@ "1" :> 49 @@ "8" :> 56 @@ "[" :> 91 @@ "]" :> 93 @@ "_" :> 95 @@ "{" :> 123 @@ "}" :> 125
  @@ "b" :> 98 @@ "c" :> 99 @@ "d" :> 100 @@ "e" :> 101 @@ "l" :> 108 @@ "n" :> 110 @@ "r" :> 114
  @@ "t" :> 116 @@ "u" :> 117 @@ "x" :> 120
Continuation == "80" :> 0 @@ "A8" :> 40

\* utf8.DecodeRuneInString: E2 leads a code point of three bytes.
IsRune(s, i) ==
  i > 0 /\ i + 2 <= Len(s) /\ s[i] = "E2" /\ {s[i + 1], s[i + 2]} \subseteq DOMAIN Continuation

CodePoints(s) ==
  LET starts == SelectSeq([i \in DOMAIN s |-> i], LAMBDA i : ~IsRune(s, i - 1) /\ ~IsRune(s, i - 2))
  IN  [j \in DOMAIN starts |->
        LET i == starts[j]
        IN  CASE IsRune(s, i) -> 8192 + 64 * Continuation[s[i + 1]] + Continuation[s[i + 2]]
              [] s[i] \in DOMAIN Ascii -> Ascii[s[i]]
              [] OTHER -> BadByte]

-----------------------------------------------------------------------------
(* unquoteString. *)

Quote == 34
Backslash == 92
\* decodeEscape: the letter after the backslash, and what it stands for.
Escapes == Quote :> Quote @@ Backslash :> Backslash @@ 47 :> 47 @@ 98 :> 8 @@ 102 :> 12 @@ 110 :> 10 @@ 114 :> 13 @@ 116 :> 9

\* parseHex4.
HexValue(c) == IF c \in 48..57 THEN c - 48 ELSE IF c \in 97..102 THEN c - 87 ELSE IF c \in 65..70 THEN c - 55 ELSE -1
IsHex4(s, i) == i + 3 <= Len(s) /\ \A k \in i..(i + 3) : HexValue(s[k]) >= 0
Hex4(s, i) == 4096 * HexValue(s[i]) + 256 * HexValue(s[i + 1]) + 16 * HexValue(s[i + 2]) + HexValue(s[i + 3])

IsHigh(r) == r \in 55296..56319
IsLow(r) == r \in 56320..57343
\* utf16.DecodeRune.
Combined(high, low) == 65536 + 1024 * (high - 55296) + (low - 56320)

IsUnicode(s, i) == i + 5 <= Len(s) /\ s[i] = Backslash /\ s[i + 1] = 117 /\ IsHex4(s, i + 2)

Rune(r, size) == [rune |-> r, size |-> size]
\* An error; the scanner is to rule it out.
NoRune == Rune(-2, 0)

\* Mutant: a high surrogate takes the next escape along, whatever it is.
UnicodeGreedy(s, i) ==
  LET first == Hex4(s, i + 2)
      second == Hex4(s, i + 8)
  IN  CASE ~IsHigh(first) /\ ~IsLow(first) -> Rune(first, 6)
        [] IsHigh(first) /\ IsUnicode(s, i + 6) -> Rune(IF IsLow(second) THEN Combined(first, second) ELSE Replacement, 12)
        [] OTHER -> Rune(Replacement, 6)

\* decodeUnicodeEscape.
UnicodeAt(s, i) ==
  LET first == Hex4(s, i + 2)
      second == Hex4(s, i + 8)
  IN  CASE ~IsHigh(first) /\ ~IsLow(first) -> Rune(first, 6)
        [] IsHigh(first) /\ IsUnicode(s, i + 6) /\ IsLow(second) -> Rune(Combined(first, second), 12)
        [] OTHER -> Rune(Replacement, 6)

\* One turn of unquoteString's loop.
RuneAt(s, i) ==
  CASE s[i] = BadByte -> Rune(Replacement, 1)
    [] s[i] \notin {BadByte, Backslash} -> Rune(s[i], 1)
    [] s[i] = Backslash /\ i < Len(s) /\ s[i + 1] \in DOMAIN Escapes -> Rune(Escapes[s[i + 1]], 2)
    [] IsUnicode(s, i) -> UnicodeAt(s, i)
    [] OTHER -> NoRune

Unquote(s) ==
  LET from[i \in 1..(Len(s) + 1)] ==
        IF i > Len(s) THEN <<>>
        ELSE LET r == RuneAt(s, i)
             IN  IF r = NoRune THEN <<r.rune>> ELSE <<r.rune>> \o from[i + r.size]
  IN  from[1]

-----------------------------------------------------------------------------
(* writeQuotedString and relayoutString. *)

HtmlRunes == {60, 62, 38, 8232, 8233}

HexDigit(n) == IF n < 10 THEN 48 + n ELSE 87 + n
Unicode4(r) == <<Backslash, 117, HexDigit(r \div 4096), HexDigit((r \div 256) % 16), HexDigit((r \div 16) % 16), HexDigit(r % 16)>>

\* Mutant: a backslash is written alone.
WrittenRaw(r, html) ==
  IF r = Quote THEN <<Backslash, r>>
  ELSE IF r < 32 \/ (html /\ r \in HtmlRunes) THEN Unicode4(r) ELSE <<r>>

\* What is written for a code point; the slash is not escaped.
Written(r, html) ==
  LET letters == {c \in DOMAIN Escapes \ {47} : Escapes[c] = r}
  IN  IF letters # {} THEN <<Backslash, CHOOSE c \in letters : TRUE>>
      ELSE IF r < 32 \/ (html /\ r \in HtmlRunes) THEN Unicode4(r) ELSE <<r>>

Quoted(value, html) == FlattenSeq([i \in DOMAIN value |-> Written(value[i], html)])

\* relayoutString: as it is in the source, if nothing in it must be escaped.
Relaid(s, html) ==
  IF BadByte \in ToSet(s) \/ (html /\ ToSet(s) \cap HtmlRunes # {}) THEN Quoted(Unquote(s), html) ELSE s

-----------------------------------------------------------------------------
(* canonicalNumber and numbersEqual.  A text is the bytes of a number token. *)

\* Where the first b of s is, and past its end if there is none (strings.Cut).
CutAt(s, b) == Min({i \in DOMAIN s : s[i] = b} \cup {Len(s) + 1})
Worth == "0" :> 0 @@ "1" :> 1 @@ "8" :> 8

\* strconv.Atoi, for the digits after a sign.
Atoi(s) ==
  LET unsigned == SelectSeq(s, LAMBDA b : b \in Digits)
      n == FoldLeft(LAMBDA v, b : 10 * v + Worth[b], 0, unsigned)
  IN  IF s[1] = "-" THEN -n ELSE n

Unsigned(s) == IF s[1] = "-" THEN Tail(s) ELSE s
Mantissa(s) == SubSeq(Unsigned(s), 1, CutAt(Unsigned(s), "e") - 1)
HasExponent(s) == \E i \in DOMAIN s : s[i] = "e"
Exponent(s) == IF HasExponent(s) THEN Atoi(SubSeq(s, CutAt(s, "e") + 1, Len(s))) ELSE 0
DigitsOf(s) == SelectSeq(Mantissa(s), LAMBDA b : b \in Digits)
FracLength(s) == Len(DigitsOf(s)) - (CutAt(Mantissa(s), ".") - 1)

NotNumber == [neg |-> FALSE, digits |-> <<"x">>, exp |-> 0]
ZeroNumber == [neg |-> FALSE, digits |-> <<>>, exp |-> 0]

\* Mutant: the last exponent is not looked at again.
RangeUnchecked(exp, shift) == TRUE

\* The sum is an int, asked without adding.
SumInRange(exp, shift) == (shift > 0 => exp <= MaxInt - shift) /\ (shift < 0 => exp >= MinInt - shift)

Canonical(s) ==
  LET digits == DigitsOf(s)
      nonzero == {i \in DOMAIN digits : digits[i] # "0"}
      trimmed == SubSeq(digits, Min(nonzero), Max(nonzero))
      shift == Len(digits) - Max(nonzero) - FracLength(s)
  IN  CASE Exponent(s) \notin MinInt..MaxInt -> NotNumber
        [] Exponent(s) \in MinInt..MaxInt /\ nonzero = {} -> ZeroNumber
        [] OTHER -> IF SumInRange(Exponent(s), shift)
                    THEN [neg |-> s[1] = "-", digits |-> trimmed, exp |-> Exponent(s) + shift] ELSE NotNumber

NumbersEqual(a, b) == a = b \/ (Canonical(a) = Canonical(b) /\ Canonical(a) # NotNumber)

-----------------------------------------------------------------------------
(* RFC 8259, section 7: the code units of a string. *)

\* A character begins at i: it is no letter or digit of an escape.
Backslashes(s, i) == Cardinality({m \in 1..(i - 1) : \A k \in m..(i - 1) : s[k] = Backslash})
IsEscaped(s, i) == Backslashes(s, i) % 2 = 1
Begins(s, i) == ~IsEscaped(s, i) /\ \A m \in Max({1, i - 4})..(i - 1) : ~(s[m] = 117 /\ IsEscaped(s, m))

Unit(s, i) ==
  CASE s[i] # Backslash -> [code |-> s[i], unicode |-> FALSE]
    [] s[i] = Backslash /\ s[i + 1] = 117 -> [code |-> Hex4(s, i + 2), unicode |-> TRUE]
    [] OTHER -> [code |-> Escapes[s[i + 1]], unicode |-> FALSE]
Units(s) ==
  LET begins == SelectSeq([i \in DOMAIN s |-> i], LAMBDA i : Begins(s, i))
  IN  [j \in DOMAIN begins |-> Unit(s, begins[j])]

\* A high and a low surrogate side by side are one code point; one alone is none.
Pairs(u, j) == j \in 1..(Len(u) - 1) /\ IsHigh(u[j].code) /\ IsLow(u[j + 1].code)
Meaning(s) ==
  LET u == Units(s)
      kept == SelectSeq([j \in DOMAIN u |-> j], LAMBDA j : ~Pairs(u, j - 1))
  IN  [k \in DOMAIN kept |->
        LET j == kept[k]
            c == u[j].code
        IN  CASE Pairs(u, j) -> Combined(c, u[j + 1].code)
              [] c = BadByte \/ (~Pairs(u, j) /\ (IsHigh(c) \/ IsLow(c))) -> Replacement
              [] OTHER -> c]

Inside(t) == CodePoints(SubSeq(src, t.from + 2, t.upTo - 1))
Strings == {t \in ToSet(toks) : t.kind = "string"}

\* unquoteString's result is the meaning, and no error.
Decodes(s) == Unquote(s) = Meaning(s)

\* What relayoutString writes is one string of valid UTF-8 with the same
\* value, and where HTML is escaped none of it is left.
Requotes(s, html) ==
  LET w == Relaid(s, html)
  IN  /\ Unquote(w) = Unquote(s)
      /\ \A i \in DOMAIN w : w[i] >= 32 /\ (w[i] = Quote => IsEscaped(w, i))
      /\ html => ToSet(w) \cap HtmlRunes = {}

\* Every string the scanner lets through unquotes without an error to the
\* code points RFC 8259 gives it, over every mix of escapes, surrogates that
\* stand alone or in pairs, and bytes that are no UTF-8; and written again it
\* reads as the same (unquoteString, relayoutString).
StringsSurvive ==
  mode = "done" =>
    \A t \in Strings : Decodes(Inside(t)) /\ \A html \in BOOLEAN : Requotes(Inside(t), html)

-----------------------------------------------------------------------------
(* The value of a number: its sign, and its digits at their powers of ten. *)

Places(s) ==
  LET digits == DigitsOf(s)
  IN  {<<Exponent(s) + Len(digits) - FracLength(s) - i, digits[i]>> : i \in {j \in DOMAIN digits : digits[j] # "0"}}
NumberValue(s) == [neg |-> s[1] = "-" /\ Places(s) # {}, places |-> Places(s)]
\* The exponent, as written and at the last digit, is an int.
Representable(s) ==
  /\ Exponent(s) \in MinInt..MaxInt
  /\ Places(s) = {} \/ Min({p[1] : p \in Places(s)}) \in MinInt..MaxInt

\* Two numbers are equal for a patch's test if and only if they have one
\* value, however they are written, up to the exponents an int can hold;
\* past them only a number of the same text is equal (numbersEqual).
NumbersCompareByValue ==
  mode = "done" =>
    \A t, u \in {v \in ToSet(toks) : v.kind = "number"} :
      LET a == Slice(t.from, t.upTo)
          b == Slice(u.from, u.upTo)
      IN  NumbersEqual(a, b) <=>
            a = b \/ (NumberValue(a) = NumberValue(b) /\ Representable(a) /\ Representable(b))
=============================================================================
