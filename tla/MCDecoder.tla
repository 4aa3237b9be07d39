------------------------------ MODULE MCDecoder ------------------------------
(* Small alphabets for Decoder. *)
EXTENDS Decoder

StreamTokens == {Tok(k) : k \in {"{", "}", "[", "]", ":", ",", "scalar", "nl", "eof", "err"}}
  \cup {StrTok(k) : k \in Keys} \cup {CommentTok("block", "text")}
LineTokens == {Tok(k) : k \in {"[", "]", "scalar", "nl", "eof", "err"}}
  \cup {CommentTok("line", "text"), CommentTok("block", "text")}
\* Objects only, so that several values with keys fit.
LimitTokens == {Tok(k) : k \in {"{", "}", ":", "scalar", "eof"}} \cup {StrTok(k) : k \in Keys}

UpTo(tokens, length) == [tokens |-> tokens, length |-> length]
AllTokens == StreamTokens \cup LineTokens
AllBounds == {UpTo(StreamTokens, 3), UpTo(LineTokens, 4), UpTo(LimitTokens, 9)}
=============================================================================
