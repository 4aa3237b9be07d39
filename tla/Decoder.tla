------------------------------- MODULE Decoder -------------------------------
(***************************************************************************)
(* The stream Decoder of unmarshal.go: Decode and More calls of one         *)
(* goroutine, in any order, over one reader and one parser.                 *)
(*                                                                         *)
(* The reader hands out units; the tokens of what was read are generated    *)
(* by Parser's Scan.  consumed, an offset in the code, is the number of     *)
(* tokens before that offset.  values and promise are history                *)
(* variables: the code does not keep them.                                  *)
(***************************************************************************)
EXTENDS Parser, JWCC

CONSTANTS
  MaxDocumentSize,  \* decoderOptions.maxDocumentSize in units, 0 for no limit
  MaxInput          \* bound: the units the reader holds

ASSUME ReaderAssumption ==
  MaxDocumentSize \in Nat /\ MaxInput \in Nat

VARIABLES
  call,       \* the method running, or "none"
  ret,        \* what the last call returned
  lead,       \* nextValue's lead
  loaded,     \* dec.loaded
  err,        \* dec.err, or "none"
  consumed,   \* dec.consumed
  values,     \* history: the spans of the values returned
  promise     \* history: the last answer of More since the last Decode

dvars == <<call, ret, lead, loaded, err, consumed, values, promise>>
vars == <<pvars, dvars>>

NoErr == "none"
Answer(kind) == [kind |-> kind, err |-> NoErr]
Refusal(reason) == [kind |-> "error", err |-> reason]

Return(answer) ==
  /\ ret' = answer
  /\ call' = "none"
  /\ pc' = "idle"
  /\ promise' = IF call = "More" /\ loaded' THEN answer.kind ELSE "none"

-----------------------------------------------------------------------------
(* The calls. *)

Call(method) ==
  /\ call = "none"
  /\ call' = method
  /\ pc' = "begin"
  /\ UNCHANGED <<input, have, stack, heap, acc, val, depth, keys, nodes, warnings, result>>
  /\ UNCHANGED <<ret, lead, loaded, err, consumed, values, promise>>

\* More answers FALSE where Decode would return an error of ensureLoaded or dec.err.
Refuse(reason) == Return(IF call = "More" THEN Answer("end") ELSE Refusal(reason))

\* io.ReadAll returns an error: what it read is dropped, loaded stays false, so
\* that the next call reads on as if nothing had been read.
LoadFails ==
  /\ pc = "begin" /\ ~loaded
  /\ loaded' = loaded
  /\ Refuse("read")
  /\ UNCHANGED <<input, have, stack, heap, acc, val, depth, keys, nodes, warnings, result>>
  /\ UNCHANGED <<lead, err, consumed, values>>

\* io.ReadAll succeeds: with a limit it stops one unit past it.
Load ==
  /\ pc = "begin" /\ ~loaded
  /\ \E n \in 0..MaxInput :
       /\ MaxDocumentSize > 0 => n <= MaxDocumentSize + 1
       /\ loaded' = TRUE
       /\ \/ /\ Exceeds(n, MaxDocumentSize)
             /\ err' = "size"
             /\ Refuse("size")
          \/ /\ ~Exceeds(n, MaxDocumentSize)   \* stripBOM fails: a UTF-16 or UTF-32 mark
             /\ n >= 2
             /\ err' = "bom"
             /\ Refuse("bom")
          \/ /\ ~Exceeds(n, MaxDocumentSize)
             /\ UNCHANGED <<err, call, ret, promise, pc>>
  /\ UNCHANGED <<input, have, stack, heap, acc, val, depth, keys, nodes, warnings, result>>
  /\ UNCHANGED <<lead, consumed, values>>

\* Mutants: the error is reported once and forgotten; the call waits for the error to go.
StickyOnce ==
  /\ pc = "begin" /\ loaded /\ err # NoErr
  /\ loaded' = loaded /\ err' = NoErr
  /\ Refuse(err)
  /\ UNCHANGED <<input, have, stack, heap, acc, val, depth, keys, nodes, warnings, result>>
  /\ UNCHANGED <<lead, consumed, values>>
StickySpins == pc = "begin" /\ loaded /\ err # NoErr /\ UNCHANGED vars

\* dec.err is set: every later call returns it.
Sticky ==
  /\ pc = "begin" /\ loaded /\ err # NoErr
  /\ loaded' = loaded
  /\ Refuse(err)
  /\ UNCHANGED <<input, have, stack, heap, acc, val, depth, keys, nodes, warnings, result>>
  /\ UNCHANGED <<lead, err, consumed, values>>

\* Mutant: the limits count over the whole stream.
ResetDepthOnly == depth' = (IF call = "Decode" THEN 0 ELSE depth) /\ UNCHANGED <<keys, nodes>>

ResetCounters ==
  IF call = "Decode" THEN depth' = 0 /\ keys' = 0 /\ nodes' = 0
                     ELSE UNCHANGED <<depth, keys, nodes>>

\* nextValue resets the counters of the per-value limits; More goes straight
\* to the comments before the next value.
Begin ==
  /\ pc = "begin" /\ loaded /\ err = NoErr
  /\ ResetCounters
  /\ heap' = <<>> /\ val' = 0   \* the tree of the previous value is the caller's
  /\ acc' = <<>>
  /\ pc' = "lead"
  /\ UNCHANGED <<input, have, stack, warnings, result, dvars>>

AtNext == pc = "lead" /\ have /\ Look.k \notin Comments \cup {"nl"}

\* Mutant: More takes a token the scanner refuses for the end.
MoreAnswerEnd == IF Look.k \in {"eof", "err"} THEN "end" ELSE "more"

MoreAnswer == IF Look.k = "eof" THEN "end" ELSE "more"

MoreAnswers ==
  /\ call = "More" /\ AtNext
  /\ loaded' = loaded
  /\ Return(Answer(MoreAnswer))
  /\ UNCHANGED <<input, have, stack, heap, acc, val, depth, keys, nodes, warnings, result>>
  /\ UNCHANGED <<lead, err, consumed, values>>

DecodeEOF ==
  /\ call = "Decode" /\ AtNext /\ Look.k = "eof"
  /\ loaded' = loaded
  /\ Return(Answer("eof"))
  /\ UNCHANGED <<input, have, stack, heap, acc, val, depth, keys, nodes, warnings, result>>
  /\ UNCHANGED <<lead, err, consumed, values>>

BeginValue ==
  /\ call = "Decode" /\ AtNext /\ Look.k # "eof"
  /\ lead' = NonBlank(acc)
  /\ acc' = <<>>
  /\ pc' = "value"
  /\ UNCHANGED <<input, have, stack, heap, val, depth, keys, nodes, warnings, result>>
  /\ UNCHANGED <<call, ret, loaded, err, consumed, values, promise>>

\* Mutant: the lookahead counts as consumed.
ValueEndAhead == At

\* valueEnd: the offset of a lookahead already scanned, which for a line break
\* is the offset after it, else the scanner's own past spaces and tabs.
ValueEnd == IF have /\ Look.k # "nl" THEN At - 1 ELSE At

ReturnValue ==
  /\ pc = "return" /\ stack = <<>>
  /\ heap' = [heap EXCEPT ![val].headComment = lead \o @]
  /\ consumed' = ValueEnd
  /\ values' = Append(values, [from |-> heap[val].pos, upTo |-> ValueEnd])
  /\ loaded' = loaded
  /\ Return(Answer("value"))
  /\ UNCHANGED <<input, have, stack, acc, val, depth, keys, nodes, warnings, result>>
  /\ UNCHANGED <<lead, err>>

\* parseValue failed: its error becomes dec.err.
ParseFails ==
  /\ pc = "error"
  /\ err' = result.kind
  /\ loaded' = loaded
  /\ Return(Refusal(result.kind))
  /\ UNCHANGED <<input, have, stack, heap, acc, val, depth, keys, nodes, warnings, result>>
  /\ UNCHANGED <<lead, consumed, values>>

-----------------------------------------------------------------------------
Init ==
  /\ input = <<>> /\ have = FALSE
  /\ pc = "idle" /\ stack = <<>>
  /\ heap = <<>> /\ acc = <<>> /\ val = 0
  /\ depth = 0 /\ keys = 0 /\ nodes = 0
  /\ warnings = <<>> /\ result = [kind |-> "none", at |-> 0]
  /\ call = "none" /\ ret = Answer("none") /\ lead = <<>>
  /\ loaded = FALSE /\ err = NoErr /\ consumed = 0
  /\ values = <<>> /\ promise = "none"

\* The steps of a method once it is called.
Run ==
  \/ ParseValue /\ UNCHANGED dvars
  \/ LoadFails \/ Load \/ Sticky \/ Begin
  \/ MoreAnswers \/ DecodeEOF \/ BeginValue \/ ReturnValue \/ ParseFails

Next == Run \/ \E method \in {"Decode", "More"} : Call(method)

Spec == Init /\ [][Next]_vars

\* A call runs on its caller's goroutine until it returns; whether there is
\* another call is up to the caller.
FairSpec == Spec /\ WF_vars(Run)

-----------------------------------------------------------------------------
\* Once dec.err is set it never changes, and every Decode that returns, even
\* after calls of More, returns that very error (unmarshal.go's nextValue).
ErrorIsSticky ==
  [][err # NoErr => /\ err' = err
                    /\ call = "Decode" /\ call' = "none" => ret' = Refusal(err)
                    /\ call = "More" /\ call' = "none" => ret'.kind = "end"]_vars

\* More says what the next Decode will do: after TRUE it returns a value or
\* an error, never io.EOF; after FALSE io.EOF or the error already reported.
MoreIsTruthful ==
  [][call = "Decode" /\ call' = "none" =>
       CASE promise = "more" -> ret'.kind \in {"value", "error"}
         [] promise = "end" -> ret'.kind = "eof" \/ ret' = Refusal(err)
         [] OTHER -> TRUE]_vars

ValueSpan(n) == (IF n = 1 THEN 0 ELSE values[n - 1].upTo) + 1 .. values[n].upTo
Significant(S) == {i \in S : ~IsBlankSpace(input[i])}

\* FuzzDecoder's claim: the input between successive values of InputOffset is
\* one value with comments and blank space around it, whose nesting is closed.
SliceHoldsOneValue ==
  \A n \in DOMAIN values :
    LET tokens == Significant(ValueSpan(n))
        first == Min(tokens)
        last == Max(tokens)
    IN  /\ tokens # {} /\ first = values[n].from
        /\ StartsValue(input[first])
        /\ IF Opens(input[first])
           THEN /\ Closes(input[last]) /\ OpenerOf(input, last) = first
           ELSE tokens = {first}

ValuesIn(from, upTo) == Cardinality({i \in from..upTo : IsValueStart(input, i)})
KeysIn(from, upTo) == Cardinality({i \in from..upTo : IsKey(input, i)})

\* "The other limits apply to each value separately": each value returned is
\* within them on its own, and a value refused exceeds one on its own.
LimitsPerValue ==
  /\ \A n \in DOMAIN values :
       LET from == values[n].from
           upTo == values[n].upTo
       IN  /\ MaxNodes > 0 => ValuesIn(from, upTo) + KeysIn(from, upTo) <= MaxNodes
           /\ MaxKeys > 0 => KeysIn(from, upTo) <= MaxKeys
           /\ MaxDepth > 0 => \A i \in from..upTo : Surplus(input, from, i) <= MaxDepth
  /\ LET from == consumed + 1
     IN  /\ err = "nodes" => ValuesIn(from, At) + KeysIn(from, At) > MaxNodes
         /\ err = "keys" => KeysIn(from, At) > MaxKeys
         /\ err = "depth" => Surplus(input, from, At) > MaxDepth

\* Every call returns.
CallsReturn == call # "none" ~> call = "none"

=============================================================================
