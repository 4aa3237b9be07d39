------------------------------ MODULE MCScanner ------------------------------
(* Small sets of sources for Scanner and Texts. *)
EXTENDS Texts

UpTo(bytes, n) == UNION {[1..k -> bytes] : k \in 0..n}
After(head, rest) == {head \o s : s \in rest}

CommentSources == UpTo({"/", "*", "cr", "lf", "x", "ctl"}, 5)
  \cup After(<<"/", "*">>, UpTo({"*", "/", "cr", "lf", "x"}, 6))

NumberSources == UpTo({"-", "+", ".", "0", "1", "e"}, 6) \cup UpTo({"-", ".", "0", "1", "e", ","}, 4)
StringSources == After(<<"quote">>, UpTo({"quote", "backslash", "u", "0", "n", "tab"}, 5))
  \cup After(<<"quote", "backslash", "u">>, UpTo({"0", "x", "quote"}, 6))
WordSources == UpTo({"t", "r", "u", "e", "_", "sp", ","}, 5)
  \cup After(<<"n", "u">>, UpTo({"l", "0", "["}, 4))

\* Strings of whole escapes, surrogates and bytes of UTF-8; what an escape
\* lacks, the next piece may look like.
UnicodePieces ==
  {<<"backslash", "u", "d", "8", "0", "0">>, <<"backslash", "u", "d", "c", "0", "1">>, <<"backslash", "u", "0", "0", "0", "1">>,
   <<"backslash", "backslash">>, <<"backslash", "quote">>, <<"backslash", "/">>, <<"u", "d", "c", "1", "1">>}
Utf8Pieces == {<<"E2", "80", "A8">>, <<"E2">>, <<"80">>, <<"<">>, <<"backslash", "u", "d", "8", "1", "1">>, <<"backslash", "backslash">>}
InQuotes(texts) == {<<"quote">> \o s \o <<"quote">> : s \in texts}
Joined(pieces, n) == UNION {{FlattenSeq(s) : s \in [1..k -> pieces]} : k \in 0..n}
TextSources == InQuotes(Joined(UnicodePieces, 3) \cup Joined(Utf8Pieces, 4))

\* Two numbers, with exponents at both ends of int: 11 and -12.
Mantissas == {<<"0">>, <<"-", "0", ".", "0">>, <<"1">>, <<"1", "0">>, <<"1", "0", "0">>, <<"-", "1">>, <<"1", ".", "0">>, <<"0", ".", "1">>,
              <<"0", ".", "0", "1">>, <<"1", "0", ".", "1", "0">>, <<"1", ".", "0", "1">>}
Exponents == {<<>>, <<"0">>, <<"+", "1">>, <<"1", "0">>, <<"1", "1">>, <<"-", "1">>, <<"-", "1", "0">>, <<"-", "1", "1">>, <<"1", "8">>}
Numbers == {m \o (IF e = <<>> THEN <<>> ELSE <<"e">> \o e) : m \in Mantissas, e \in Exponents}
PairSources == {a \o <<",">> \o b : a, b \in Numbers}

AllSources == CommentSources \cup NumberSources \cup StringSources \cup WordSources \cup TextSources \cup PairSources
=============================================================================
