------------------------------- MODULE MCFormat -------------------------------
(* Alphabets and encoder options for Format. *)
EXTENDS Format

MCOptions(indent, arrayMultiline, trailingComma, strict) ==
  [indent |-> indent, arrayMultiline |-> arrayMultiline, trailingComma |-> trailingComma, strict |-> strict]

PrettyOptions == {MCOptions(TRUE, FALSE, comma, FALSE) : comma \in BOOLEAN}
PlainOptions == {MCOptions(indent, TRUE, TRUE, strict) : indent \in {FALSE}, strict \in BOOLEAN}
                  \cup {MCOptions(indent, FALSE, FALSE, TRUE) : indent \in BOOLEAN}

LineComment == CommentTok("line", "text")
BlockComment == CommentTok("block", "text")
BlankComment == CommentTok("line", "blank")
AllOptions == PrettyOptions \cup PlainOptions
AllTokens == {Tok(k) : k \in {"{", "}", "[", "]", ":", ",", "scalar", "nl", "eof"}}
               \cup {StrTok(k) : k \in Keys} \cup {LineComment, BlockComment, BlankComment}
ArrayTokens == {Tok(k) : k \in {"[", "]", ",", "scalar", "nl", "eof"}} \cup {BlockComment, BlankComment}
MemberTokens == {Tok(k) : k \in {"{", "}", ":", ",", "scalar", "eof"}}
                  \cup {StrTok(k) : k \in Keys} \cup {BlockComment}
PlainTokens == {Tok(k) : k \in {"{", "}", ":", ",", "scalar", "eof"}} \cup {StrTok(k) : k \in Keys}
UpTo(tokens, length) == [tokens |-> tokens, length |-> length]
RewrittenBounds == {UpTo(AllTokens, 60)}
SmallBounds == {UpTo(AllTokens, 4), UpTo(ArrayTokens, 6), UpTo(MemberTokens, 8),
                UpTo(PlainTokens, 10)}
=============================================================================
