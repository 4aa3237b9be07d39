----------------------------- MODULE MCDocument -----------------------------
(* Small alphabets for Document and Decoder, and instances of their options. *)
EXTENDS Document

Punctuation == {Tok(k) : k \in {"{", "}", "[", "]", ":", ","}}
KeyTokens == {StrTok(k) : k \in Keys}
OneKey == {StrTok("a")}
AllTokens == Punctuation \cup KeyTokens
  \cup {Tok("scalar"), Tok("nl"), Tok("eof"), Tok("err")}
  \cup {CommentTok(k, t) : k \in Comments, t \in {"text", "blank"}}
GrammarTokens == Punctuation \cup KeyTokens \cup {Tok("scalar"), Tok("eof"), Tok("err")}
\* Comments of both kinds, blank or not, around every kind of token; errors left to GrammarTokens.
CommentTokens == Punctuation \cup OneKey \cup {Tok("scalar"), Tok("nl"), Tok("eof")}
  \cup {CommentTok("line", "text"), CommentTok("block", "text"), CommentTok("block", "blank")}
ArrayCommentTokens == {Tok(k) : k \in {"[", "]", ",", "scalar", "nl", "eof"}}
  \cup {CommentTok("block", "text"), CommentTok("block", "blank")}
MemberCommentTokens == {Tok(k) : k \in {"{", "}", ":", ",", "scalar", "eof"}} \cup OneKey
  \cup {CommentTok("block", "text")}
BlankMemberTokens == MemberCommentTokens \cup {CommentTok("block", "blank")}
ObjectTokens == {Tok(k) : k \in {"{", "}", ":", ",", "scalar", "eof", "err"}} \cup KeyTokens

UpTo(tokens, length) == [tokens |-> tokens, length |-> length]
GrammarBounds == {UpTo(GrammarTokens, 7), UpTo(ObjectTokens, 12)}
StrictBounds == {UpTo(GrammarTokens, 8)}
CommentBounds == {UpTo(CommentTokens, 6), UpTo(ArrayCommentTokens, 7),
                  UpTo(BlankMemberTokens, 8), UpTo(MemberCommentTokens, 9)}
TextBounds == GrammarBounds \cup CommentBounds
=============================================================================
