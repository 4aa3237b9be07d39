---------------------------- MODULE DecoderProofs ----------------------------
(***************************************************************************)
(* Theorems about Decoder, for every reader, alphabet, option and limit:    *)
(* which answers its calls may give after an error or an answer of More,    *)
(* and what the values they return hold.  The second half reads a Decode    *)
(* call as a parse of the text of its value alone, so that what             *)
(* LanguageProofs says of parse holds of each value of a stream.            *)
(***************************************************************************)
EXTENDS Decoder, JWCCProofs, TLAPS, SequenceTheorems

-----------------------------------------------------------------------------
(* The inductive invariant. *)

\* Where a call stands: before it has looked for a value, or reading one.
Outside == {"idle", "begin"}
BeforeValue == Outside \cup {"lead"}

\* A call runs if and only if the parser is not idle; More stops before the value.
CallsOK ==
  /\ call \in {"none", "Decode", "More"}
  /\ call = "none" <=> pc = "idle"
  /\ call = "More" => pc \in BeforeValue
\* Only a decoder that is loaded and has no error reads on.
ErrorsOK ==
  /\ pc \notin Outside => loaded /\ err = NoErr
  /\ err # NoErr => loaded
\* What More has seen is still the lookahead when the next Decode looks.
PromiseKept ==
  /\ promise \in {"none", "more", "end"}
  /\ promise # "none" => loaded
  /\ promise = "more" /\ pc \in BeforeValue =>
       err = NoErr /\ have /\ Look.k \notin Comments \cup {"nl", "eof"}
  /\ promise = "end" => pc \in BeforeValue /\ (err # NoErr \/ (have /\ Look.k = "eof"))
IInv == CallsOK /\ ErrorsOK /\ PromiseKept

LEMMA InitIInv == ASSUME Init PROVE IInv
BY DEF Init, IInv, CallsOK, ErrorsOK, PromiseKept, Outside, BeforeValue

-----------------------------------------------------------------------------
(* The steps of parseValue, which Decode runs and More only begins. *)

LEMMA ErrorReturns ==
  ASSUME OverNodes \/ TooDeep \/ NotAValue \/ StrictTrailingComma \/ NotAKey \/ NotAColon
           \/ RefuseDuplicate \/ NotASeparator
  PROVE  pc \notin BeforeValue /\ pc' = "error"
BY DEF OverNodes, TooDeep, NotAValue, StrictTrailingComma, NotAKey, NotAColon, RefuseDuplicate,
       NotASeparator, AtClose, ExpectsValue, Fail, Stop, BeforeValue, Outside

LEMMA ValueSteps ==
  ASSUME ParseScalar \/ OpenContainer \/ SkipDroppedComments \/ CloseContainer \/ ReturnContainer
           \/ AppendElement \/ ParseKey \/ ParseColon \/ MakeMember \/ InsertMember
           \/ InlineComment \/ Separator \/ CloseAhead \/ AttachAfterComma
  PROVE  pc \notin BeforeValue /\ pc' \notin BeforeValue
<1>1. CASE ParseScalar \/ OpenContainer \/ MakeMember
  BY <1>1 DEF ParseScalar, OpenContainer, MakeMember, ExpectsValue, BumpNodeCount, BeforeValue, Outside
<1>2. CASE InsertMember
  BY <1>2 DEF InsertMember, Fail, Stop, BeforeValue, Outside
<1>3. CASE SkipDroppedComments \/ CloseContainer \/ ReturnContainer \/ AppendElement \/ ParseKey
             \/ ParseColon
  BY <1>3 DEF SkipDroppedComments, CloseContainer, ReturnContainer, AppendElement, ParseKey,
              ParseColon, AtClose, BeforeValue, Outside
<1>4. CASE InlineComment \/ Separator \/ CloseAhead \/ AttachAfterComma
  BY <1>4 DEF InlineComment, Separator, CloseAhead, AttachAfterComma, BeforeValue, Outside
<1>5. QED
  BY <1>1, <1>2, <1>3, <1>4

\* Before a value a step only looks for the next token or takes a comment or a
\* line break; in a value it stays there.
LEMMA ParserSteps ==
  ASSUME ParseValue
  PROVE  \/ pc = "lead" /\ pc' = "lead" /\ (~have \/ Look.k \in Comments \cup {"nl"})
         \/ pc \notin BeforeValue /\ pc' \notin BeforeValue
<1>1. CASE Scan
  BY <1>1 DEF Scan, Peeks, BeforeValue, Outside
<1>2. CASE CollectHeadComments
  BY <1>2 DEF CollectHeadComments, Sees, BeforeValue, Outside
<1>3. CASE OverNodes \/ TooDeep \/ NotAValue \/ StrictTrailingComma \/ NotAKey \/ NotAColon
             \/ RefuseDuplicate \/ NotASeparator
  BY <1>3, ErrorReturns DEF BeforeValue, Outside
<1>4. QED
  BY <1>1, <1>2, <1>3, ValueSteps DEF ParseValue

LEMMA ParseValueIInv == ASSUME IInv, ParseValue, UNCHANGED dvars PROVE IInv'
<1>1. UNCHANGED <<call, loaded, err, promise>>
  BY DEF dvars
<1>2. CASE pc \notin BeforeValue /\ pc' \notin BeforeValue
  BY <1>1, <1>2 DEF IInv, CallsOK, ErrorsOK, PromiseKept, BeforeValue, Outside
<1>3. CASE pc = "lead" /\ pc' = "lead" /\ (~have \/ Look.k \in Comments \cup {"nl"})
  <2>1. err = NoErr /\ loaded
    BY <1>3 DEF IInv, ErrorsOK, Outside
  <2>2. promise = "none"
    BY <1>3, <2>1 DEF IInv, PromiseKept, BeforeValue, Comments
  <2>3. QED
    BY <1>1, <1>3, <2>1, <2>2 DEF IInv, CallsOK, ErrorsOK, PromiseKept, BeforeValue, Outside
<1>4. QED
  BY <1>2, <1>3, ParserSteps

-----------------------------------------------------------------------------
(* The steps of Decode and More themselves. *)

LEMMA CallIInv ==
  ASSUME IInv, NEW method \in {"Decode", "More"}, Call(method) PROVE IInv'
<1>1. /\ call = "none" /\ call' = method /\ pc' = "begin"
      /\ UNCHANGED <<input, have, loaded, err, promise>>
  BY DEF Call
<1>2. pc = "idle"
  BY <1>1 DEF IInv, CallsOK
<1>3. QED
  BY <1>1, <1>2 DEF IInv, CallsOK, ErrorsOK, PromiseKept, BeforeValue, Outside, Look, At

\* A call that returns an error known before it reads, or the reader's.
LEMMA RefusalIInv ==
  ASSUME IInv, NEW reason, pc = "begin", Refuse(reason),
         UNCHANGED <<input, have>>,
         IF loaded' THEN err' # NoErr ELSE ~loaded /\ err' = err
  PROVE  IInv'
<1>1. pc' = "idle" /\ call' = "none" /\ call \in {"Decode", "More"}
  BY DEF Refuse, Return, IInv, CallsOK
<1>2. promise' = IF call = "More" /\ loaded' THEN "end" ELSE "none"
  BY DEF Refuse, Return, Answer
<1>3. err' # NoErr => loaded'
  BY DEF IInv, ErrorsOK
<1>4. QED
  BY <1>1, <1>2, <1>3 DEF IInv, CallsOK, ErrorsOK, PromiseKept, BeforeValue, Outside

LEMMA LoadIInv == ASSUME IInv, Load PROVE IInv'
<1>1. pc = "begin" /\ ~loaded /\ loaded' = TRUE /\ UNCHANGED <<input, have>>
  BY DEF Load
<1>2. err = NoErr /\ promise = "none"
  BY <1>1 DEF IInv, ErrorsOK, PromiseKept
<1>3. CASE UNCHANGED <<err, call, ret, promise, pc>>
  BY <1>1, <1>2, <1>3 DEF IInv, CallsOK, ErrorsOK, PromiseKept, BeforeValue, Outside
<1>4. CASE \E reason \in {"size", "bom"} : err' = reason /\ Refuse(reason)
  BY <1>1, <1>4, RefusalIInv DEF NoErr
<1>5. QED
  BY <1>3, <1>4 DEF Load

LEMMA BeforeReadingIInv == ASSUME IInv, LoadFails \/ Sticky PROVE IInv'
<1>1. CASE LoadFails
  BY <1>1, RefusalIInv DEF LoadFails
<1>2. CASE Sticky
  BY <1>2, RefusalIInv DEF Sticky
<1>3. QED
  BY <1>1, <1>2

LEMMA BeginIInv == ASSUME IInv, Begin PROVE IInv'
<1>1. /\ pc = "begin" /\ pc' = "lead" /\ loaded /\ err = NoErr
      /\ UNCHANGED <<input, have, call, loaded, err, promise>>
  BY DEF Begin, dvars
<1>2. QED
  BY <1>1 DEF IInv, CallsOK, ErrorsOK, PromiseKept, BeforeValue, Outside, Look, At

LEMMA MoreAnswersIInv == ASSUME IInv, MoreAnswers PROVE IInv'
<1>1. /\ pc = "lead" /\ have /\ Look.k \notin Comments \cup {"nl"} /\ call = "More"
      /\ UNCHANGED <<input, have, loaded, err>>
  BY DEF MoreAnswers, AtNext
<1>2. loaded /\ err = NoErr
  BY <1>1 DEF IInv, ErrorsOK, Outside
<1>3. pc' = "idle" /\ call' = "none" /\ promise' = MoreAnswer
  BY <1>1, <1>2 DEF MoreAnswers, Return, Answer
<1>4. Look' = Look
  BY <1>1 DEF Look, At
<1>5. QED
  BY <1>1, <1>2, <1>3, <1>4
  DEF IInv, CallsOK, ErrorsOK, PromiseKept, MoreAnswer, BeforeValue, Outside

LEMMA DecodeReturnsIInv == ASSUME IInv, DecodeEOF \/ ReturnValue \/ ParseFails PROVE IInv'
<1>1. pc \notin Outside /\ loaded' = loaded
  BY DEF DecodeEOF, ReturnValue, ParseFails, AtNext, Outside
<1>2. call # "More"
  BY DEF DecodeEOF, ReturnValue, ParseFails, IInv, CallsOK, BeforeValue, Outside
<1>3. pc' = "idle" /\ call' = "none" /\ promise' = "none"
  BY <1>2 DEF DecodeEOF, ReturnValue, ParseFails, Return
<1>4. loaded
  BY <1>1 DEF IInv, ErrorsOK
<1>5. QED
  BY <1>1, <1>3, <1>4 DEF IInv, CallsOK, ErrorsOK, PromiseKept, BeforeValue, Outside

LEMMA BeginValueIInv == ASSUME IInv, BeginValue PROVE IInv'
<1>1. /\ pc = "lead" /\ pc' = "value" /\ call = "Decode" /\ have /\ Look.k # "eof"
      /\ UNCHANGED <<input, have, call, loaded, err, promise>>
  BY DEF BeginValue, AtNext
<1>2. loaded /\ err = NoErr
  BY <1>1 DEF IInv, ErrorsOK, Outside
<1>3. promise # "end"
  BY <1>1, <1>2 DEF IInv, PromiseKept
<1>4. QED
  BY <1>1, <1>2, <1>3 DEF IInv, CallsOK, ErrorsOK, PromiseKept, BeforeValue, Outside

LEMMA NextIInv == ASSUME IInv, [Next]_vars PROVE IInv'
<1>1. CASE UNCHANGED vars
  BY <1>1 DEF vars, pvars, dvars, IInv, CallsOK, ErrorsOK, PromiseKept, Look, At
<1>2. QED
  BY <1>1, ParseValueIInv, CallIInv, LoadIInv, BeforeReadingIInv, BeginIInv, MoreAnswersIInv,
     DecodeReturnsIInv, BeginValueIInv DEF Next, Run

\* A decoder reads only while it has no error, and what More has looked at
\* is what the next Decode finds, over every order of calls.
THEOREM Inductive == Spec => []IInv
BY InitIInv, NextIInv, PTL DEF Spec

-----------------------------------------------------------------------------
(* What a call that returns says. *)

\* The steps that return: with the reader's error, with an error set before
\* or just now, with More's answer, or from reading a value.
LEMMA Returns ==
  ASSUME IInv, [Next]_vars, call # "none", call' = "none"
  PROVE  LoadFails \/ Load \/ Sticky \/ MoreAnswers \/ DecodeEOF \/ ReturnValue \/ ParseFails
<1>1. call' # call
  OBVIOUS
<1>2. ~UNCHANGED vars /\ ~UNCHANGED dvars
  BY <1>1 DEF vars, dvars
<1>3. ~Begin /\ ~BeginValue /\ ~\E method \in {"Decode", "More"} : Call(method)
  BY <1>1 DEF Begin, BeginValue, Call, dvars
<1>4. QED
  BY <1>2, <1>3 DEF Next, Run

LEMMA StickyStep ==
  ASSUME IInv, [Next]_vars, err # NoErr
  PROVE  /\ err' = err
         /\ call = "Decode" /\ call' = "none" => ret' = Refusal(err)
         /\ call = "More" /\ call' = "none" => ret'.kind = "end"
<1>1. loaded /\ pc \in Outside
  BY DEF IInv, ErrorsOK
<1>2. ~ParseValue /\ ~LoadFails /\ ~Load /\ ~Begin /\ ~MoreAnswers /\ ~DecodeEOF
      /\ ~BeginValue /\ ~ReturnValue /\ ~ParseFails
  BY <1>1, ParserSteps DEF LoadFails, Load, Begin, MoreAnswers, DecodeEOF, BeginValue, ReturnValue,
     ParseFails, AtNext, Outside, BeforeValue
<1>3. CASE Sticky
  BY <1>3 DEF Sticky, Refuse, Return, Answer
<1>4. CASE \E method \in {"Decode", "More"} : Call(method)
  BY <1>4 DEF Call
<1>5. CASE UNCHANGED vars
  BY <1>5 DEF vars, dvars
<1>6. QED
  BY <1>2, <1>3, <1>4, <1>5 DEF Next, Run

\* An error of the decoder stays as it is, and each later Decode returns it,
\* whatever is called in between and whatever the reader still holds.
THEOREM ErrorsStick == Spec => ErrorIsSticky
<1>1. IInv /\ [Next]_vars =>
        [err # NoErr => /\ err' = err
                        /\ call = "Decode" /\ call' = "none" => ret' = Refusal(err)
                        /\ call = "More" /\ call' = "none" => ret'.kind = "end"]_vars
  BY StickyStep
<1>2. QED
  BY <1>1, Inductive, PTL DEF Spec, ErrorIsSticky

LEMMA TruthStep ==
  ASSUME IInv, [Next]_vars, call = "Decode", call' = "none"
  PROVE  CASE promise = "more" -> ret'.kind \in {"value", "error"}
           [] promise = "end" -> ret'.kind = "eof" \/ ret' = Refusal(err)
           [] OTHER -> TRUE
<1> SUFFICES ASSUME promise # "none"
             PROVE  IF promise = "more" THEN ret'.kind \in {"value", "error"}
                    ELSE ret'.kind = "eof" \/ ret' = Refusal(err)
  BY DEF IInv, PromiseKept
<1>1. loaded
  BY DEF IInv, PromiseKept
<1>2. ~LoadFails /\ ~Load /\ ~MoreAnswers
  BY <1>1 DEF LoadFails, Load, MoreAnswers
<1>3. CASE Sticky
  <2>1. promise # "more"
    BY <1>3 DEF Sticky, IInv, PromiseKept, BeforeValue, Outside
  <2>2. ret' = Refusal(err)
    BY <1>3 DEF Sticky, Refuse, Return
  <2>3. QED
    BY <2>1, <2>2
<1>4. CASE DecodeEOF
  <2>1. promise # "more"
    BY <1>4 DEF DecodeEOF, AtNext, IInv, PromiseKept, BeforeValue, Outside
  <2>2. ret'.kind = "eof"
    BY <1>4 DEF DecodeEOF, Return, Answer
  <2>3. QED
    BY <2>1, <2>2
<1>5. CASE ReturnValue \/ ParseFails
  <2>1. promise = "more"
    BY <1>5 DEF ReturnValue, ParseFails, IInv, PromiseKept, BeforeValue, Outside
  <2>2. ret'.kind \in {"value", "error"}
    BY <1>5 DEF ReturnValue, ParseFails, Return, Answer, Refusal
  <2>3. QED
    BY <2>1, <2>2
<1>6. QED
  BY <1>2, <1>3, <1>4, <1>5, Returns

\* What More has said, the next Decode does: a value or an error where it has
\* promised one, the end or the error already there where it has not.
THEOREM MoreTruthful == Spec => MoreIsTruthful
<1>1. IInv /\ [Next]_vars =>
        [call = "Decode" /\ call' = "none" =>
           CASE promise = "more" -> ret'.kind \in {"value", "error"}
             [] promise = "end" -> ret'.kind = "eof" \/ ret' = Refusal(err)
             [] OTHER -> TRUE]_vars
  BY TruthStep
<1>2. QED
  BY <1>1, Inductive, PTL DEF Spec, MoreIsTruthful

-----------------------------------------------------------------------------
(* One value as parse would read it. *)

\* The tokens before the value of a call: those valueEnd counts, but not a line
\* break that is still the lookahead.
Skipped == IF consumed # 0 /\ input[consumed].k = "nl" THEN consumed - 1 ELSE consumed
\* The text of the call by itself: all before it is read as line breaks.
Alone == [i \in 1..Len(input) |-> IF i <= Skipped THEN Tok("nl") ELSE input[i]]

WithBreaks(tokens) == tokens \cup {Tok("nl")}
Doc == INSTANCE LanguageProofs
         WITH input <- Alone, Alphabet <- WithBreaks(Alphabet),
              Bounds <- {[tokens |-> WithBreaks(b.tokens), length |-> b.length] : b \in Bounds}

LEMMA SameCardinality == ASSUME NEW S PROVE Doc!Cardinality(S) = Cardinality(S)
BY Zenon DEF Doc!Cardinality, Cardinality

LEMMA SameLargest == ASSUME NEW S PROVE Doc!Largest(S) = Largest(S)
<1>1. Doc!Max(S) = Max(S)
  BY Zenon DEF Doc!Max, Max
<1>2. QED
  BY <1>1 DEF Doc!Largest, Largest

LEMMA SameTokens ==
  ASSUME NEW t
  PROVE  /\ Doc!IsComment(t) <=> IsComment(t)
         /\ Doc!IsBlankSpace(t) <=> IsBlankSpace(t)
         /\ Doc!Opens(t) <=> Opens(t)
         /\ Doc!Closes(t) <=> Closes(t)
         /\ Doc!StartsValue(t) <=> StartsValue(t)
BY DEF Doc!IsComment, IsComment, Doc!IsBlankSpace, IsBlankSpace, Doc!Opens, Opens, Doc!Closes, Closes,
       Doc!StartsValue, StartsValue

LEMMA SamePlaces ==
  ASSUME NEW s, NEW i
  PROVE  /\ Doc!Before(s, i) = Before(s, i)
         /\ Doc!Around(s, i) = Around(s, i)
         /\ Doc!OpenAt(s, i) = OpenAt(s, i)
         /\ \A j : Doc!Surplus(s, i, j) = Surplus(s, i, j)
         /\ Doc!Depth(s, i) = Depth(s, i)
         /\ Doc!IsKey(s, i) <=> IsKey(s, i)
         /\ Doc!IsValueStart(s, i) <=> IsValueStart(s, i)
         /\ Doc!EndsValue(s, i) <=> EndsValue(s, i)
         /\ Doc!StartOf(s, i) = StartOf(s, i)
<1>1. Doc!Before(s, i) = Before(s, i)
  BY SameLargest, SameTokens DEF Doc!Before, Before
<1>2. ASSUME NEW h, NEW j PROVE Doc!Surplus(s, h, j) = Surplus(s, h, j)
  BY SameCardinality, SameTokens DEF Doc!Surplus, Surplus
<1>3. Doc!Around(s, i) = Around(s, i) /\ Doc!OpenAt(s, i) = OpenAt(s, i)
  BY <1>2, SameLargest, SameTokens DEF Doc!Around, Around, Doc!OpenAt, OpenAt
<1>4. Doc!IsKey(s, i) <=> IsKey(s, i)
  BY <1>1, <1>3 DEF Doc!IsKey, IsKey, Doc!Within, Within
<1>5. QED
  BY <1>1, <1>2, <1>3, <1>4, SameTokens
  DEF Doc!Depth, Depth, Doc!IsValueStart, IsValueStart, Doc!EndsValue, EndsValue, Doc!StartOf, StartOf,
      Doc!OpenerOf, OpenerOf

-----------------------------------------------------------------------------
(* A step of parseValue is one on the text of the call by itself. *)

Consumed == IF have THEN At - 1 ELSE At
\* A call of Decode has begun to look for its value.
Reading == call = "Decode" /\ pc \notin Outside

\* The tokens scanned, and how many of them values before took.
Scanned ==
  /\ input \in Seq(Alphabet) /\ have \in BOOLEAN /\ acc \in Seq(Nat)
  /\ have => input # <<>>
  /\ consumed \in 0..At
  /\ Skipped \in 0..Consumed
\* What is collected was scanned in this call, or was ahead of the last.
Here == Scanned /\ \A i \in DOMAIN acc : acc[i] \in Skipped + 1..Consumed

LEMMA HereTypes ==
  ASSUME Scanned
  PROVE  /\ At \in Nat /\ Consumed \in Nat /\ Skipped \in Nat /\ consumed \in Nat
         /\ Consumed <= At /\ At <= Consumed + 1
         /\ (have => At = Consumed + 1 /\ Skipped < At) /\ (~have => At = Consumed)
         /\ \A i \in 1..At : input[i] \in Alphabet
<1>1. Len(input) \in Nat /\ (input # <<>> => Len(input) # 0) /\ \A i \in 1..Len(input) : input[i] \in Alphabet
  BY LenProperties, EmptySeq, ElementOfSeq DEF Scanned
<1>2. have => At # 0
  BY <1>1 DEF Scanned, At
<1>3. QED
  BY <1>1, <1>2 DEF Scanned, Consumed, At

LEMMA AloneIs ==
  ASSUME Scanned
  PROVE  /\ Alone \in Seq(WithBreaks(Alphabet)) /\ Len(Alone) = At
         /\ \A i \in 1..At : Alone[i] = IF i <= Skipped THEN Tok("nl") ELSE input[i]
<1>1. At \in Nat /\ \A i \in 1..At : input[i] \in Alphabet
  BY HereTypes
<1>2. Alone \in [1..At -> WithBreaks(Alphabet)]
  BY <1>1 DEF Alone, WithBreaks, At
<1>3. Alone \in Seq(WithBreaks(Alphabet)) /\ Len(Alone) = At
  BY <1>1, <1>2
<1>4. QED
  BY <1>3 DEF Alone, At

LEMMA AloneKept ==
  ASSUME UNCHANGED <<input, consumed>>
  PROVE  Alone' = Alone /\ Skipped' = Skipped
BY DEF Alone, Skipped

\* The operators that do not look at the input.
LEMMA SameParts ==
  /\ Doc!NoText = NoText /\ Doc!Comments = Comments /\ Doc!Openers = Openers /\ Doc!Closers = Closers
  /\ Doc!Scalars = Scalars
  /\ Doc!Top = Top /\ Doc!Container = Container /\ Doc!Current = Current
  /\ (Doc!InObject <=> InObject) /\ (Doc!InArray <=> InArray)
  /\ \A x, y, z : Doc!NewNode(x, y, z) = NewNode(x, y, z)
  /\ \A x : Doc!NewFrame(x) = NewFrame(x)
  /\ \A x, y : Doc!Exceeds(x, y) <=> Exceeds(x, y)
  /\ Doc!Member = Member
<1>1. Doc!NoText = NoText /\ Doc!Comments = Comments /\ Doc!Openers = Openers /\ Doc!Closers = Closers
      /\ Doc!Scalars = Scalars
  BY DEF Doc!NoText, NoText, Doc!Comments, Comments, Doc!Openers, Openers, Doc!Closers, Closers,
         Doc!Scalars, Scalars
<1>2. Doc!Top = Top
  BY DEF Doc!Top, Top
<1>3. Doc!Container = Container
  BY <1>2 DEF Doc!Container, Container
<1>4. Doc!Current = Current
  BY <1>3, Zenon DEF Doc!Current, Current, Doc!Last, Last
<1>5. (Doc!InObject <=> InObject) /\ (Doc!InArray <=> InArray)
  BY <1>3 DEF Doc!InObject, InObject, Doc!InArray, InArray
<1>6. ASSUME NEW x, NEW y, NEW z PROVE Doc!NewNode(x, y, z) = NewNode(x, y, z)
  BY DEF Doc!NewNode, NewNode
<1>7. ASSUME NEW x PROVE Doc!NewFrame(x) = NewFrame(x)
  BY <1>1 DEF Doc!NewFrame, NewFrame
<1>8. ASSUME NEW x, NEW y PROVE Doc!Exceeds(x, y) <=> Exceeds(x, y)
  BY DEF Doc!Exceeds, Exceeds
<1>9. Doc!Member = Member
  BY <1>2, <1>6 DEF Doc!Member, Member
<1>10. QED
  BY <1>1, <1>2, <1>3, <1>4, <1>5, <1>6, <1>7, <1>8, <1>9

LEMMA SameSearch ==
  /\ \A c, x : Doc!PlacesOf(c, x) = PlacesOf(c, x)
  /\ \A S : Doc!LastOf(S) = LastOf(S)
  /\ \A c, f : Doc!AddToIndex(c, f) = AddToIndex(c, f)
  /\ Doc!Duplicate = Duplicate
  /\ \A c, i : Doc!Superseding(c, i) = Superseding(c, i)
<1>1. ASSUME NEW c, NEW x PROVE Doc!PlacesOf(c, x) = PlacesOf(c, x)
  BY DEF Doc!PlacesOf, PlacesOf
<1>2. ASSUME NEW S PROVE Doc!LastOf(S) = LastOf(S) /\ Doc!FirstOf(S) = FirstOf(S)
  BY Zenon DEF Doc!LastOf, LastOf, Doc!FirstOf, FirstOf
<1>3. ASSUME NEW c, NEW f PROVE Doc!AddToIndex(c, f) = AddToIndex(c, f)
  BY <1>1, <1>2 DEF Doc!AddToIndex, AddToIndex
<1>4. ASSUME NEW c, NEW f, NEW x PROVE Doc!Find(c, f, x) = Find(c, f, x)
  BY <1>1, <1>2 DEF Doc!Find, Find
<1>5. Doc!Duplicate = Duplicate
  BY <1>4, SameParts DEF Doc!Duplicate, Duplicate
<1>6. ASSUME NEW c, NEW i PROVE Doc!Superseding(c, i) = Superseding(c, i)
  BY DEF Doc!Superseding, Superseding
<1>7. QED
  BY <1>1, <1>2, <1>3, <1>5, <1>6

\* Those that look at the lookahead and at what is collected.
LEMMA SameLook ==
  ASSUME Here
  PROVE  /\ Doc!At = At /\ Doc!Consumed = Consumed
         /\ have => Doc!Look = Look
         /\ \A x : Doc!Sees(x) <=> Sees(x)
         /\ Doc!NonBlank(acc) = NonBlank(acc)
         /\ have => Doc!Inline = Inline
         /\ \A x, y : Doc!Fail(x, y) <=> Fail(x, y)
         /\ \A x, y : Doc!Stop(x, y) <=> Stop(x, y)
<1>1. Doc!At = At /\ Doc!Consumed = Consumed
  BY AloneIs DEF Here, Doc!At, At, Doc!Consumed, Consumed
<1>2. ASSUME NEW i \in Skipped + 1..At PROVE Alone[i] = input[i]
  BY AloneIs, HereTypes DEF Here
<1>3. have => Doc!Look = Look
  BY <1>1, <1>2, HereTypes DEF Here, Doc!Look, Look
<1>4. ASSUME NEW x PROVE Doc!Sees(x) <=> Sees(x)
  BY <1>3 DEF Doc!Sees, Sees
<1>5. Doc!NonBlank(acc) = NonBlank(acc)
  <2>1. \A i \in DOMAIN acc : Alone[acc[i]] = input[acc[i]]
    BY <1>2, HereTypes DEF Here
  <2>2. QED
    BY <2>1 DEF Doc!NonBlank, NonBlank
<1>6. ASSUME have PROVE Doc!Inline = Inline
  <2>1. Alone[At] = input[At]
    BY <1>2, <1>6, HereTypes DEF Here
  <2>2. Doc!NonBlank(<<At>>) = NonBlank(<<At>>)
    BY <2>1 DEF Doc!NonBlank, NonBlank
  <2>3. QED
    BY <1>1, <1>3, <1>6, <2>2, SameParts DEF Doc!Inline, Inline
<1>7. ASSUME NEW x, NEW y PROVE Doc!Stop(x, y) <=> Stop(x, y)
  BY <1>1, <1>4 DEF Doc!Stop, Stop
<1>8. ASSUME NEW x, NEW y PROVE Doc!Fail(x, y) <=> Fail(x, y)
  BY <1>7 DEF Doc!Fail, Fail
<1>9. QED
  BY <1>1, <1>3, <1>4, <1>5, <1>6, <1>7, <1>8

LEMMA SameBump ==
  /\ \A next : Doc!BumpNodeCount(next) <=> BumpNodeCount(next)
  /\ Doc!Bump <=> Bump
  /\ \A f : Doc!SetTop(f) <=> SetTop(f)
BY SameParts DEF Doc!BumpNodeCount, BumpNodeCount, Doc!Bump, Bump, Doc!SetTop, SetTop

LEMMA ScanAlone == ASSUME Here, Scan, UNCHANGED consumed PROVE Doc!Scan
<1>1. PICK t \in Alphabet :
        /\ ~have /\ Peeks /\ CanFollow(t) /\ input' = Append(input, t) /\ have' = TRUE
        /\ UNCHANGED <<pc, stack, heap, acc, val, depth, keys, nodes, warnings, result>>
  BY DEF Scan
<1>2. Alone' = Append(Alone, t)
  <2>1. Len(input') = At + 1 /\ (\A i \in 1..At : input'[i] = input[i]) /\ input'[At + 1] = t
    BY <1>1, HereTypes DEF Here, Scanned, At
  <2>2. Skipped' = Skipped
    <3>1. consumed # 0 => consumed \in 1..At
      BY HereTypes DEF Here, Scanned
    <3>2. QED
      BY <2>1, <3>1 DEF Skipped
  <2>3. /\ DOMAIN Alone' = 1..At + 1
        /\ Alone' = [i \in 1..At + 1 |-> IF i <= Skipped THEN Tok("nl") ELSE input'[i]]
    BY <2>1, <2>2 DEF Alone, Tok
  <2>4. \A i \in 1..At : Alone'[i] = Alone[i]
    BY <2>1, <2>3, AloneIs, HereTypes DEF Here
  <2>5. Alone'[At + 1] = t
    <3>1. At + 1 \in 1..At + 1 /\ ~(At + 1 <= Skipped)
      BY HereTypes, <1>1 DEF Here, Scanned
    <3>2. QED
      BY <2>1, <2>3, <3>1
  <2>6. /\ Append(Alone, t) \in Seq(WithBreaks(Alphabet)) /\ Len(Append(Alone, t)) = At + 1
        /\ \A i \in 1..At : Append(Alone, t)[i] = Alone[i]
        /\ Append(Alone, t)[At + 1] = t
    <3>1. t \in WithBreaks(Alphabet)
      BY DEF WithBreaks
    <3>2. QED
      BY <3>1, AloneIs, AppendProperties DEF Here
  <2>7. \A i \in 1..At + 1 : Append(Alone, t)[i] = Alone'[i]
    <3>1. \A i \in 1..At + 1 : i \in 1..At \/ i = At + 1
      BY HereTypes DEF Here
    <3>2. QED
      BY <2>4, <2>5, <2>6, <3>1
  <2>8. QED
    <3>1. Append(Alone, t) = [i \in 1..At + 1 |-> Append(Alone, t)[i]]
      BY <2>6, LenProperties
    <3>2. Alone' = [i \in 1..At + 1 |-> Alone'[i]]
      BY <2>3
    <3>3. QED
      BY <2>7, <3>1, <3>2
<1>3. Doc!CanFollow(t)
  <2>1. ASSUME t.k \notin {"eof", "err"}
        PROVE Doc!Explored({[tokens |-> WithBreaks(b.tokens), length |-> b.length] : b \in Bounds}, t)
    <3>1. PICK b \in Bounds : At < b.length /\ Range(input) \cup {t} \subseteq b.tokens
      BY <1>1, <2>1 DEF CanFollow, Explored
    <3>2. \A x \in Doc!Range(Alone) : x \in WithBreaks(b.tokens)
      <4>1. SUFFICES ASSUME NEW i \in DOMAIN Alone PROVE Alone[i] \in WithBreaks(b.tokens)
        BY DEF Doc!Range
      <4>2. i \in 1..At
        BY DEF Alone, At
      <4>3. input[i] \in Range(input)
        BY <4>2, HereTypes DEF Range, At, Here, Scanned
      <4>4. QED
        BY <3>1, <4>2, <4>3, AloneIs DEF Here, WithBreaks
    <3>3. DEFINE B == [tokens |-> WithBreaks(b.tokens), length |-> b.length]
    <3>4. B \in {[tokens |-> WithBreaks(a.tokens), length |-> a.length] : a \in Bounds}
      OBVIOUS
    <3>5. Doc!At < B.length /\ Doc!Range(Alone) \cup {t} \subseteq B.tokens
      BY <3>1, <3>2, SameLook DEF WithBreaks
    <3>6. QED
      BY <3>4, <3>5 DEF Doc!Explored
  <2>2. Doc!At > 0 /\ Doc!Look.k = "line" => t.k \in {"nl", "eof"}
    <3>1. SUFFICES ASSUME At > 0, Doc!Look.k = "line" PROVE t.k \in {"nl", "eof"}
      BY SameLook
    <3>2. Doc!Look = Alone[At] /\ At \in 1..At
      BY <3>1, SameLook, HereTypes DEF Here, Doc!Look
    <3>3. Alone[At] = input[At]
      BY <3>1, <3>2, AloneIs DEF Here, Tok
    <3>4. QED
      BY <1>1, <3>1, <3>2, <3>3 DEF CanFollow, Look
  <2>3. StrictJSON => t.k \notin Doc!Comments
    BY <1>1, SameParts DEF CanFollow
  <2>4. QED
    BY <2>1, <2>2, <2>3 DEF Doc!CanFollow
<1>4. Doc!Peeks
  BY <1>1 DEF Doc!Peeks, Peeks
<1>5. QED
  BY <1>1, <1>2, <1>3, <1>4 DEF Doc!Scan, WithBreaks

LEMMA RefusalsAlone ==
  ASSUME Here, UNCHANGED consumed,
         OverNodes \/ TooDeep \/ NotAValue \/ StrictTrailingComma \/ NotAKey \/ NotAColon
           \/ RefuseDuplicate \/ NotASeparator
  PROVE  \/ Doc!OverNodes \/ Doc!TooDeep \/ Doc!NotAValue \/ Doc!StrictTrailingComma \/ Doc!NotAKey
         \/ Doc!NotAColon \/ Doc!RefuseDuplicate \/ Doc!NotASeparator
<1>1. UNCHANGED input
  BY DEF OverNodes, TooDeep, NotAValue, StrictTrailingComma, NotAKey, NotAColon, RefuseDuplicate,
         NotASeparator
<1>2. UNCHANGED Alone
  BY <1>1, AloneKept
<1>3. CASE OverNodes
  BY <1>2, <1>3, SameLook DEF OverNodes, Doc!OverNodes
<1>4. CASE TooDeep
  BY <1>2, <1>4, SameLook, SameParts DEF TooDeep, Doc!TooDeep, ExpectsValue, Doc!ExpectsValue
<1>5. CASE NotAValue
  BY <1>2, <1>5, SameLook, SameParts
  DEF NotAValue, Doc!NotAValue, ExpectsValue, Doc!ExpectsValue, ClosesInstead, Doc!ClosesInstead
<1>6. CASE StrictTrailingComma
  BY <1>2, <1>6, SameLook, SameParts
  DEF StrictTrailingComma, Doc!StrictTrailingComma, AtClose, Doc!AtClose, SeesClose, Doc!SeesClose,
      TrailingComma, Doc!TrailingComma
<1>7. CASE NotAKey
  BY <1>2, <1>7, SameLook, SameParts DEF NotAKey, Doc!NotAKey
<1>8. CASE NotAColon
  BY <1>2, <1>8, SameLook, SameParts DEF NotAColon, Doc!NotAColon
<1>9. CASE RefuseDuplicate
  BY <1>2, <1>9, SameLook, SameParts, SameSearch DEF RefuseDuplicate, Doc!RefuseDuplicate
<1>10. CASE NotASeparator
  BY <1>2, <1>10, SameLook, SameParts DEF NotASeparator, Doc!NotASeparator
<1>11. QED
  BY <1>3, <1>4, <1>5, <1>6, <1>7, <1>8, <1>9, <1>10

LEMMA ValuesAlone ==
  ASSUME Here, UNCHANGED consumed,
         ParseScalar \/ OpenContainer \/ CloseContainer \/ ReturnContainer \/ AppendElement
           \/ MakeMember \/ InsertMember
  PROVE  \/ Doc!ParseScalar \/ Doc!OpenContainer \/ Doc!CloseContainer \/ Doc!ReturnContainer
         \/ Doc!AppendElement \/ Doc!MakeMember \/ Doc!InsertMember
<1>1. UNCHANGED input
  BY DEF ParseScalar, OpenContainer, CloseContainer, ReturnContainer, AppendElement, MakeMember, InsertMember
<1>2. UNCHANGED Alone
  BY <1>1, AloneKept
<1>3. (Doc!ExpectsValue <=> ExpectsValue) /\ Doc!HoldHead = HoldHead
  BY SameLook, SameParts DEF ExpectsValue, Doc!ExpectsValue, HoldHead, Doc!HoldHead
<1>4. CASE ParseScalar
  BY <1>2, <1>3, <1>4, SameLook, SameParts, SameBump DEF ParseScalar, Doc!ParseScalar, ExpectsValue
<1>5. CASE OpenContainer
  BY <1>2, <1>3, <1>5, SameLook, SameParts, SameBump
  DEF OpenContainer, Doc!OpenContainer, ExpectsValue, EnterDepth, Doc!EnterDepth
<1>6. CASE CloseContainer
  <2>1. \A c : Doc!RemoveNil(c) = RemoveNil(c)
    BY Zenon DEF Doc!RemoveNil, RemoveNil
  <2>2. (Doc!AtClose <=> AtClose) /\ (Doc!TrailingComma <=> TrailingComma) /\ Doc!Span = Span
    BY SameLook, SameParts
    DEF AtClose, Doc!AtClose, SeesClose, Doc!SeesClose, TrailingComma, Doc!TrailingComma, Span, Doc!Span
  <2>3. QED
    BY <1>2, <1>6, <2>1, <2>2, SameLook, SameParts, SameBump DEF CloseContainer, Doc!CloseContainer
<1>7. CASE ReturnContainer
  <2>1. Doc!Front(stack) = Front(stack)
    BY Zenon DEF Doc!Front, Front
  <2>2. QED
    BY <1>2, <1>7, <2>1, SameLook, SameParts
    DEF ReturnContainer, Doc!ReturnContainer, TakeInline, Doc!TakeInline, ExitDepth, Doc!ExitDepth
<1>8. CASE AppendElement
  BY <1>2, <1>8, SameParts, SameBump DEF AppendElement, Doc!AppendElement
<1>9. CASE MakeMember
  BY <1>2, <1>9, SameParts, SameBump DEF MakeMember, Doc!MakeMember
<1>10. CASE InsertMember
  <2>1. \A x, y : Doc!Warned(x, y) = Warned(x, y)
    BY DEF Doc!Warned, Warned
  <2>2. QED
    BY <1>2, <1>10, <2>1, SameLook, SameParts, SameSearch, SameBump DEF InsertMember, Doc!InsertMember
<1>11. QED
  BY <1>4, <1>5, <1>6, <1>7, <1>8, <1>9, <1>10

LEMMA RestAlone ==
  ASSUME Here, UNCHANGED consumed,
         CollectHeadComments \/ SkipDroppedComments \/ ParseKey \/ ParseColon \/ InlineComment
           \/ Separator \/ CloseAhead \/ AttachAfterComma
  PROVE  \/ Doc!CollectHeadComments \/ Doc!SkipDroppedComments \/ Doc!ParseKey \/ Doc!ParseColon
         \/ Doc!InlineComment \/ Doc!Separator \/ Doc!CloseAhead \/ Doc!AttachAfterComma
<1>1. UNCHANGED input
  BY DEF CollectHeadComments, SkipDroppedComments, ParseKey, ParseColon, InlineComment, Separator,
         CloseAhead, AttachAfterComma
<1>2. UNCHANGED Alone
  BY <1>1, AloneKept
<1>3. \A x, y : Doc!Warned(x, y) = Warned(x, y)
  BY DEF Doc!Warned, Warned
<1>4. have => (Doc!TakeInline <=> TakeInline)
  BY SameLook, SameParts DEF Doc!TakeInline, TakeInline
<1>5. Doc!SeesClose <=> SeesClose
  BY SameLook, SameParts DEF Doc!SeesClose, SeesClose
<1>6. CASE CollectHeadComments
  BY <1>2, <1>6, SameLook, SameParts, SameBump DEF CollectHeadComments, Doc!CollectHeadComments, Sees
<1>7. CASE SkipDroppedComments
  BY <1>2, <1>3, <1>7, SameLook, SameParts, SameBump DEF SkipDroppedComments, Doc!SkipDroppedComments, Sees
<1>8. CASE ParseKey
  BY <1>2, <1>8, SameLook, SameParts, SameBump DEF ParseKey, Doc!ParseKey, Sees
<1>9. CASE ParseColon
  BY <1>2, <1>9, SameLook, SameBump DEF ParseColon, Doc!ParseColon
<1>10. CASE InlineComment
  BY <1>2, <1>4, <1>10, SameLook, SameParts DEF InlineComment, Doc!InlineComment
<1>11. CASE Separator
  BY <1>2, <1>11, SameLook, SameParts, SameBump DEF Separator, Doc!Separator
<1>12. CASE CloseAhead
  BY <1>2, <1>5, <1>12, SameLook, SameParts DEF CloseAhead, Doc!CloseAhead
<1>13. CASE AttachAfterComma
  <2>1. \A h, n, x : Doc!Attach(h, n, x) = Attach(h, n, x)
    BY DEF Doc!Attach, Attach
  <2>2. QED
    BY <1>2, <1>4, <1>13, <2>1, SameLook, SameParts DEF AttachAfterComma, Doc!AttachAfterComma
<1>14. QED
  BY <1>6, <1>7, <1>8, <1>9, <1>10, <1>11, <1>12, <1>13

\* A call of Decode reads its value as parse reads a text: each step is one of
\* parse on the text of the call by itself.
LEMMA StepAlone ==
  ASSUME Here, (ParseValue /\ UNCHANGED dvars) \/ BeginValue \/ UNCHANGED vars
  PROVE  [Doc!Next]_Doc!vars
<1>1. CASE ParseValue /\ UNCHANGED dvars
  <2>1. UNCHANGED <<consumed, lead>>
    BY <1>1 DEF dvars
  <2>2. Doc!ParseValue
    BY <1>1, <2>1, ScanAlone, RefusalsAlone, ValuesAlone, RestAlone DEF ParseValue, Doc!ParseValue
  <2>3. QED
    BY <2>1, <2>2 DEF Doc!Next
<1>2. CASE BeginValue
  <2>1. UNCHANGED Alone
    BY <1>2, AloneKept DEF BeginValue
  <2>2. Doc!BeginRoot
    BY <1>2, <2>1, SameLook, SameParts DEF BeginValue, AtNext, Doc!BeginRoot
  <2>3. QED
    BY <2>2 DEF Doc!Next
<1>3. CASE UNCHANGED vars
  <2>1. UNCHANGED Alone
    BY <1>3, AloneKept DEF vars, pvars, dvars
  <2>2. QED
    BY <1>3, <2>1 DEF vars, pvars, dvars, Doc!vars, Doc!pvars
<1>4. QED
  BY <1>1, <1>2, <1>3

\* What parse keeps while it reads the text of the call.
ParsedAlone == Doc!IInv /\ Doc!Indexed /\ Doc!Parsing /\ Doc!Measured /\ Doc!RootRead

LEMMA AlphabetAlone ==
  /\ WithBreaks(Alphabet) \subseteq Doc!Token
  /\ Doc!Tok("eof") \in WithBreaks(Alphabet)
  /\ \A t \in WithBreaks(Alphabet) : t.k = "str" => t.v \in Keys
  /\ \A t \in WithBreaks(Alphabet) : t.k \in Doc!Comments => t.v \in {"text", "blank"}
  /\ {"text", "blank", Doc!NoText} \cap Keys = {}
<1>1. Doc!Token = Token
  BY SameParts DEF Doc!Token, Token, Doc!Kinds, Kinds
<1>2. Tok("nl") \in Token /\ Tok("nl").k = "nl" /\ Doc!Tok("eof") = Tok("eof")
  BY SameParts DEF Tok, Token, Kinds, Doc!Tok
<1>3. "nl" # "str" /\ "nl" \notin Comments
  BY DEF Comments
<1>4. QED
  BY <1>1, <1>2, <1>3, SameParts, AlphabetAssumption DEF WithBreaks

LEMMA OptionsAlone ==
  /\ MaxDepth \in Nat /\ MaxKeys \in Nat /\ MaxNodes \in Nat
  /\ \A b \in {[tokens |-> WithBreaks(a.tokens), length |-> a.length] : a \in Bounds} :
       b.tokens \subseteq WithBreaks(Alphabet) /\ b.length \in Nat
  /\ MemberIndexMin \in Nat \ {0}
  /\ StrictJSON \in BOOLEAN /\ AllowDuplicateKeys \in BOOLEAN
BY OptionsAssumption DEF WithBreaks

LEMMA ParsedNext ==
  ASSUME ParsedAlone, [Doc!Next]_Doc!vars
  PROVE  ParsedAlone'
<1>1. Doc!IInv'
  BY Doc!NextIInv, AlphabetAlone, OptionsAlone DEF ParsedAlone
<1>2. Doc!Indexed'
  BY <1>1, Doc!NextIndexed, AlphabetAlone, OptionsAlone DEF ParsedAlone
<1>3. Doc!Parsing'
  BY <1>1, Doc!NextParsing, AlphabetAlone, OptionsAlone DEF ParsedAlone
<1>4. Doc!Measured'
  BY <1>1, Doc!NextMeasured, AlphabetAlone, OptionsAlone DEF ParsedAlone
<1>5. Doc!RootRead'
  BY <1>1, Doc!RootNext, Doc!NodesLast, AlphabetAlone, OptionsAlone DEF ParsedAlone
<1>6. QED
  BY <1>1, <1>2, <1>3, <1>4, <1>5 DEF ParsedAlone

\* Before the first significant token.
Fresh ==
  /\ Here /\ lead \in Text /\ warnings \in Seq(Warning) /\ result \in Outcome
  /\ pc = "lead" /\ stack = <<>> /\ heap = <<>> /\ acc = <<>> /\ val = 0
  /\ depth = 0 /\ keys = 0 /\ nodes = 0
  /\ \A i \in Skipped + 1..Consumed : IsBlankSpace(input[i])

LEMMA FreshTypes == ASSUME Fresh PROVE Doc!IInv /\ Doc!Indexed
<1>1. Alone \in Seq(WithBreaks(Alphabet)) /\ have \in BOOLEAN /\ (have => Alone # <<>>)
  BY AloneIs, HereTypes, EmptySeq DEF Fresh, Here, Scanned
<1>2. Doc!Text = Text /\ Doc!Warning = Warning /\ Doc!Outcome = Outcome
  BY DEF Doc!Text, Text, Doc!Warning, Warning, Doc!Outcome, Outcome
<1>3. /\ Len(stack) = 0 /\ Len(heap) = 0 /\ 1..0 = {}
      /\ heap \in Seq(Doc!Node) /\ stack \in Seq(Doc!Frame) /\ acc \in Doc!Text
  BY EmptySeq DEF Fresh, Doc!Text
<1>4. Doc!TypeOK
  BY <1>1, <1>2, <1>3 DEF Fresh, Doc!TypeOK, Doc!ParserTypeOK, Doc!PcValues
<1>5. Doc!LimitsHold
  BY <1>3, OptionsAssumption DEF Fresh, Doc!LimitsHold
<1>6. Doc!FramesOK /\ Doc!InsideContainer /\ Doc!HeldToken
  BY <1>1, <1>3 DEF Fresh, Doc!FramesOK, Doc!InsideContainer, Doc!HeldToken
<1>7. Doc!Indexed
  BY <1>3
  DEF Fresh, Doc!Indexed, Doc!HeldKids, Doc!Nested, Doc!RootFirst, Doc!KeysKnown, Doc!MemberHeld,
      Doc!IndexOK
<1>8. QED
  BY <1>4, <1>5, <1>6, <1>7 DEF Doc!IInv

\* A text of blank space only.
LEMMA BlankText ==
  ASSUME NEW s, NEW c \in Nat, \A i \in 1..c : IsBlankSpace(s[i])
  PROVE  /\ Before(s, c + 1) = 0 /\ Around(s, c + 1) = 0 /\ OpenAt(s, c + 1) = {}
         /\ \A i \in 0..c : Depth(s, i) = 0
         /\ \A i \in 1..c : ~IsKey(s, i) /\ ~IsValueStart(s, i)
<1>1. \A i \in 1..c : ~Opens(s[i]) /\ ~Closes(s[i]) /\ ~StartsValue(s[i]) /\ s[i].k # "str"
  BY DEF IsBlankSpace, IsComment, Opens, Closes, StartsValue
<1>2. {j \in 1..c + 1 - 1 : ~IsBlankSpace(s[j])} = {}
  OBVIOUS
<1>3. Before(s, c + 1) = 0
  BY <1>2, LargestEmpty DEF Before
<1>4. OpenAt(s, c + 1) = {}
  BY <1>1 DEF OpenAt
<1>5. Around(s, c + 1) = 0
  BY <1>4, LargestEmpty DEF Around, OpenAt
<1>6. ASSUME NEW i \in 0..c PROVE Depth(s, i) = 0
  <2>1. {k \in 1..i : Opens(s[k])} = {} /\ {k \in 1..i : Closes(s[k])} = {}
    BY <1>1
  <2>2. Cardinality({}) = 0
    BY FS_EmptySet
  <2>3. QED
    BY <2>1, <2>2 DEF Depth, Surplus
<1>7. \A i \in 1..c : ~IsKey(s, i) /\ ~IsValueStart(s, i)
  BY <1>1 DEF IsKey, IsValueStart
<1>8. QED
  BY <1>3, <1>4, <1>5, <1>6, <1>7

LEMMA FreshParsed == ASSUME Fresh PROVE ParsedAlone
<1>1. Consumed \in Nat /\ Consumed <= At /\ At \in Nat /\ Doc!Consumed = Consumed /\ Doc!At = At
  BY HereTypes, SameLook DEF Fresh, Here
<1>2. \A i \in 1..Consumed : IsBlankSpace(Alone[i])
  <2>1. IsBlankSpace(Tok("nl"))
    BY DEF IsBlankSpace, Tok
  <2>2. QED
    BY <1>1, <2>1, AloneIs, HereTypes DEF Fresh, Here
<1>3. /\ Before(Alone, Consumed + 1) = 0 /\ OpenAt(Alone, Consumed + 1) = {}
      /\ \A i \in 0..Consumed : Depth(Alone, i) = 0
      /\ \A i \in 1..Consumed : ~IsKey(Alone, i) /\ ~IsValueStart(Alone, i)
  BY <1>1, <1>2, BlankText
<1>4. Len(stack) = 0 /\ Len(heap) = 0 /\ 1..0 = {} /\ Doc!Live = 0 /\ Doc!Prior = 0
  BY <1>1, <1>3, EmptySeq, SamePlaces DEF Fresh, Doc!Live, Doc!Prior
<1>5. Doc!Parsing
  <2>1. Doc!Nests(Alone, Doc!Consumed, Doc!Live, Doc!Opened)
    BY <1>1, <1>3, <1>4, SamePlaces DEF Doc!Nests
  <2>2. Doc!Balanced
    BY <1>4, <2>1 DEF Doc!Balanced
  <2>3. Doc!Located
    BY <1>4 DEF Fresh, Doc!Located, Doc!ValueAwaited, Doc!ValueRead, Doc!CommaRead, Doc!AfterValuePlaces
  <2>4. Doc!Viable(Alone, Doc!Consumed, StrictJSON)
    BY <1>1, <1>2, SameTokens DEF Doc!Viable, Doc!Allowed
  <2>5. Doc!LanguageExact
    BY <2>4 DEF Fresh, Doc!LanguageExact, Doc!Accepted
  <2>6. QED
    BY <2>2, <2>3, <2>5 DEF Doc!Parsing
<1>6. Doc!Measured
  <2>1. Doc!Starts = {} /\ Doc!KeysRead = {} /\ Doc!WaitingFrames = {}
    BY <1>1, <1>3, <1>4, SamePlaces DEF Doc!Starts, Doc!KeysRead, Doc!WaitingFrames
  <2>2. Cardinality({}) = 0
    BY FS_EmptySet
  <2>3. Doc!Counted
    BY <1>4, <2>1, <2>2, SameCardinality DEF Fresh, Doc!Counted
  <2>4. Doc!Deep
    <3>1. Consumed \in 0..Consumed /\ \A i \in 1..Consumed : i \in 0..Consumed
      BY <1>1
    <3>2. QED
      BY <1>1, <1>3, <1>4, <3>1, SamePlaces, OptionsAssumption DEF Doc!Deep
  <2>5. Doc!Placed
    BY <1>4, <2>1 DEF Fresh, Doc!Placed, Doc!KeyNodes, Doc!MemberKids, Doc!Pending, Doc!Inserting
  <2>6. Doc!PastLimit
    BY DEF Fresh, Doc!PastLimit
  <2>7. QED
    BY <2>3, <2>4, <2>5, <2>6 DEF Doc!Measured
<1>7. Doc!RootRead
  BY DEF Fresh, Doc!RootRead
<1>8. QED
  BY <1>5, <1>6, <1>7, FreshTypes DEF ParsedAlone

LEMMA FreshNext == (Fresh => ParsedAlone)'
<1>1. Fresh => ParsedAlone
  BY FreshParsed
<1>2. QED
  BY <1>1, PTL

-----------------------------------------------------------------------------
(* The values returned, as spans of a text s. *)

SpanOf(vs, n) == (IF n = 1 THEN 0 ELSE vs[n - 1].upTo) + 1 .. vs[n].upTo
\* The n-th span holds one value from its place f on, closed at the last
\* significant token of the span.
HoldsValue(s, S, f) ==
  LET tokens == {i \in S : ~IsBlankSpace(s[i])}
  IN  /\ f \in tokens /\ \A i \in tokens : f <= i
      /\ StartsValue(s[f])
      /\ IF Opens(s[f])
         THEN \E l \in tokens : (\A i \in tokens : i <= l) /\ Closes(s[l]) /\ OpenerOf(s, l) = f
         ELSE tokens = {f}
StartsFrom(s, f, u) == Cardinality({i \in f..u : IsValueStart(s, i)})
KeysFrom(s, f, u) == Cardinality({i \in f..u : IsKey(s, i)})
WithinAll(s, v) ==
  /\ MaxNodes > 0 => StartsFrom(s, v.from, v.upTo) + KeysFrom(s, v.from, v.upTo) <= MaxNodes
  /\ MaxKeys > 0 => KeysFrom(s, v.from, v.upTo) <= MaxKeys
  /\ MaxDepth > 0 => \A i \in v.from..v.upTo : Surplus(s, v.from, i) <= MaxDepth
PastOne(s, f, u, reason) ==
  /\ reason = "nodes" => StartsFrom(s, f, u) + KeysFrom(s, f, u) > MaxNodes
  /\ reason = "keys" => KeysFrom(s, f, u) > MaxKeys
  /\ reason = "depth" => Surplus(s, f, u) > MaxDepth

-----------------------------------------------------------------------------
(* The inductive invariant, beside IInv. *)

\* Between values nothing is open, and only blank space has been read since.
BetweenValues ==
  /\ OpenAt(input, Skipped + 1) = {}
  /\ err = NoErr /\ pc \in BeforeValue =>
       stack = <<>> /\ \A i \in Skipped + 1..Consumed : IsBlankSpace(input[i])
\* Each value ends where dec.consumed stood after it, and starts after the one before.
ValuesPlaced ==
  /\ values \in Seq([from : Nat, upTo : Nat])
  /\ consumed = IF values = <<>> THEN 0 ELSE values[Len(values)].upTo
  /\ \A n \in 1..Len(values) : values[n].from \in 1..values[n].upTo /\ values[n].upTo <= consumed
ValuesRead ==
  /\ \A n \in 1..Len(values) :
       HoldsValue(input, SpanOf(values, n), values[n].from) /\ WithinAll(input, values[n])
  /\ PastOne(input, consumed + 1, At, err)
CallTypes ==
  /\ lead \in Text /\ warnings \in Seq(Warning) /\ result \in Outcome
  /\ pc = "error" => result.kind # "none"
Streaming ==
  /\ Scanned /\ (pc \notin Outside => Here)
  /\ CallTypes /\ BetweenValues /\ ValuesPlaced /\ ValuesRead
  /\ Reading => ParsedAlone

-----------------------------------------------------------------------------
(* The values returned keep their place when more is read. *)

LEMMA HoldsKept ==
  ASSUME NEW s, NEW r, NEW m \in Nat, Agree(s, r, m), NEW S \in SUBSET (1..m), NEW f, HoldsValue(s, S, f)
  PROVE  HoldsValue(r, S, f)
<1>1. \A i \in S : r[i] = s[i] /\ OpenerOf(r, i) = OpenerOf(s, i)
  <2>1. \A i \in S : i \in 1..m /\ i \in 1..m + 1
    OBVIOUS
  <2>2. QED
    BY <2>1, AgreeAround DEF Agree, OpenerOf
<1>2. {i \in S : ~IsBlankSpace(r[i])} = {i \in S : ~IsBlankSpace(s[i])}
  BY <1>1
<1>3. QED
  BY <1>1, <1>2 DEF HoldsValue

LEMMA CountsKept ==
  ASSUME NEW s, NEW r, NEW m \in Nat, Agree(s, r, m), NEW f \in Nat \ {0}, NEW u \in Nat, u <= m
  PROVE  /\ StartsFrom(r, f, u) = StartsFrom(s, f, u) /\ KeysFrom(r, f, u) = KeysFrom(s, f, u)
         /\ \A i \in f..u : Surplus(r, f, i) = Surplus(s, f, i)
<1>1. \A i \in f..u : i \in 1..m /\ i \in Nat /\ i <= m
  OBVIOUS
<1>2. \A i \in f..u : (IsKey(r, i) <=> IsKey(s, i)) /\ (IsValueStart(r, i) <=> IsValueStart(s, i))
  <2>1. \A i \in f..u : r[i] = s[i] /\ (IsKey(r, i) <=> IsKey(s, i))
    BY <1>1, AgreeKey DEF Agree
  <2>2. QED
    BY <2>1 DEF IsValueStart
<1>3. {i \in f..u : IsKey(r, i)} = {i \in f..u : IsKey(s, i)}
      /\ {i \in f..u : IsValueStart(r, i)} = {i \in f..u : IsValueStart(s, i)}
  BY <1>2
<1>4. \A i \in f..u : Surplus(r, f, i) = Surplus(s, f, i)
  BY <1>1, AgreeSurplus
<1>5. QED
  BY <1>3, <1>4 DEF StartsFrom, KeysFrom

LEMMA WithinKept ==
  ASSUME NEW s, NEW r, NEW m \in Nat, Agree(s, r, m), NEW v \in [from : Nat, upTo : Nat],
         v.from # 0, v.upTo <= m, WithinAll(s, v)
  PROVE  WithinAll(r, v)
<1>1. v.from \in Nat \ {0} /\ v.upTo \in Nat
  OBVIOUS
<1>2. /\ StartsFrom(r, v.from, v.upTo) = StartsFrom(s, v.from, v.upTo)
      /\ KeysFrom(r, v.from, v.upTo) = KeysFrom(s, v.from, v.upTo)
      /\ \A i \in v.from..v.upTo : Surplus(r, v.from, i) = Surplus(s, v.from, i)
  BY <1>1, CountsKept
<1>3. QED
  BY <1>2 DEF WithinAll

LEMMA ValueTypes ==
  ASSUME ValuesPlaced
  PROVE  /\ Len(values) \in Nat
         /\ \A n \in 1..Len(values) : /\ values[n] \in [from : Nat, upTo : Nat]
                                      /\ values[n].from # 0 /\ values[n].from <= values[n].upTo
                                      /\ values[n].upTo <= consumed
<1>1. values \in Seq([from : Nat, upTo : Nat])
  BY DEF ValuesPlaced
<1>2. Len(values) \in Nat /\ \A n \in 1..Len(values) : values[n] \in [from : Nat, upTo : Nat]
  BY <1>1, LenProperties, ElementOfSeq
<1>3. ASSUME NEW n \in 1..Len(values)
      PROVE  values[n].from # 0 /\ values[n].from <= values[n].upTo /\ values[n].upTo <= consumed
  <2>1. values[n].upTo \in Nat /\ values[n].from \in 1..values[n].upTo /\ values[n].upTo <= consumed
    BY <1>2 DEF ValuesPlaced
  <2>2. QED
    BY <2>1
<1>4. QED
  BY <1>2, <1>3

\* The values and what they hold, after a step that only reads on.
LEMMA ValuesKept ==
  ASSUME ValuesPlaced, ValuesRead, Scanned, UNCHANGED <<values, consumed>>, Agree(input, input', At)
  PROVE  /\ ValuesPlaced'
         /\ \A n \in 1..Len(values) :
              HoldsValue(input', SpanOf(values, n), values[n].from) /\ WithinAll(input', values[n])
<1>1. ValuesPlaced'
  BY DEF ValuesPlaced
<1>2. ASSUME NEW n \in 1..Len(values)
      PROVE  HoldsValue(input', SpanOf(values, n), values[n].from) /\ WithinAll(input', values[n])
  <2>1. At \in Nat /\ consumed \in Nat /\ consumed <= At
    BY HereTypes DEF Scanned
  <2>2. values[n] \in [from : Nat, upTo : Nat] /\ values[n].from # 0 /\ values[n].upTo <= At
    BY <1>2, <2>1, ValueTypes
  <2>3. SpanOf(values, n) \in SUBSET (1..At)
    <3>1. n # 1 => values[n - 1].upTo \in Nat
      <4>1. n # 1 => n - 1 \in 1..Len(values)
        BY <1>2, ValueTypes
      <4>2. \A m \in 1..Len(values) : values[m].upTo \in Nat
        BY ValueTypes
      <4>3. QED
        BY <4>1, <4>2
    <3>2. QED
      BY <2>1, <2>2, <3>1 DEF SpanOf
  <2>4. HoldsValue(input, SpanOf(values, n), values[n].from) /\ WithinAll(input, values[n])
    BY <1>2 DEF ValuesRead
  <2>5. HoldsValue(input', SpanOf(values, n), values[n].from)
    BY <2>1, <2>3, <2>4, HoldsKept
  <2>6. WithinAll(input', values[n])
    BY <2>1, <2>2, <2>4, WithinKept
  <2>7. QED
    BY <2>5, <2>6
<1>3. QED
  BY <1>1, <1>2

-----------------------------------------------------------------------------
(* What a step of parseValue reads and collects. *)

\* The scanner appends a token, or the lookahead may be consumed.
ReadsOn ==
  \/ ~have /\ have' = TRUE /\ \E t \in Alphabet : input' = Append(input, t)
  \/ UNCHANGED input /\ have' \in BOOLEAN /\ (have \/ have' = have)
\* The comments collected are the same, or gone, or one more of them: the lookahead.
Collects == acc' \in {acc, <<>>} \/ (have /\ have' = FALSE /\ acc' = Append(acc, At))

LEMMA StepReads ==
  ASSUME ParseValue, have \in BOOLEAN
  PROVE  ReadsOn /\ Collects /\ (pc' = "error" => result'.kind # "none")
<1>1. CASE Scan
  BY <1>1 DEF Scan, ReadsOn, Collects, Peeks
<1>2. CASE OverNodes \/ TooDeep \/ NotAValue \/ StrictTrailingComma \/ NotAKey \/ NotAColon
             \/ RefuseDuplicate \/ NotASeparator
  <2>1. UNCHANGED <<input, have, acc>>
    BY <1>2 DEF OverNodes, TooDeep, NotAValue, StrictTrailingComma, NotAKey, NotAColon, RefuseDuplicate,
       NotASeparator
  <2>2. \E reason \in {"nodes", "depth", "syntax", "strict", "duplicate"} : \E at : Stop(reason, at)
    BY <1>2 DEF OverNodes, TooDeep, NotAValue, StrictTrailingComma, NotAKey, NotAColon, RefuseDuplicate,
       NotASeparator, Fail
  <2>3. result'.kind # "none"
    BY <2>2 DEF Stop
  <2>4. QED
    BY <2>1, <2>3 DEF ReadsOn, Collects
<1>3. CASE ParseScalar \/ OpenContainer \/ CloseContainer \/ ReturnContainer \/ AppendElement
             \/ MakeMember
  BY <1>3 DEF ParseScalar, OpenContainer, CloseContainer, ReturnContainer, AppendElement, MakeMember,
     ExpectsValue, AtClose, SeesClose, Sees, Bump, TakeInline, BumpNodeCount, ReadsOn, Collects
<1>4. CASE InsertMember
  <2>1. UNCHANGED <<input, have, acc>>
    BY <1>4 DEF InsertMember
  <2>2. pc' = "error" => \E at : Stop("keys", at)
    BY <1>4 DEF InsertMember, Fail
  <2>3. QED
    BY <2>1, <2>2 DEF Stop, ReadsOn, Collects
<1>5. CASE CollectHeadComments \/ SkipDroppedComments \/ ParseKey \/ ParseColon \/ InlineComment
             \/ Separator \/ CloseAhead \/ AttachAfterComma
  BY <1>5 DEF CollectHeadComments, SkipDroppedComments, ParseKey, ParseColon, InlineComment, Separator,
     CloseAhead, AttachAfterComma, Sees, Bump, TakeInline, ReadsOn, Collects
<1>6. QED
  BY <1>1, <1>2, <1>3, <1>4, <1>5 DEF ParseValue

LEMMA ReadFurther ==
  ASSUME Scanned, ReadsOn, UNCHANGED consumed
  PROVE  /\ input' \in Seq(Alphabet) /\ have' \in BOOLEAN /\ (have' => input' # <<>>)
         /\ Skipped' = Skipped /\ Consumed' \in Nat /\ Consumed <= Consumed'
         /\ At' \in Nat /\ At <= At' /\ Agree(input, input', At)
         /\ have /\ have' = FALSE => Consumed' = At
<1>1. input \in Seq(Alphabet) /\ At \in Nat /\ consumed \in 0..At
  BY HereTypes DEF Scanned
<1>2. CASE ~have /\ have' = TRUE /\ \E t \in Alphabet : input' = Append(input, t)
  <2>1. PICK t \in Alphabet : input' = Append(input, t)
    BY <1>2
  <2>2. /\ input' \in Seq(Alphabet) /\ At' = At + 1
        /\ \A i \in 1..At : input'[i] = input[i]
    BY <1>1, <2>1 DEF At
  <2>3. input' # <<>>
    BY <1>1, <2>2, EmptySeq DEF At
  <2>4. Skipped' = Skipped
    <3>1. consumed # 0 => consumed \in 1..At
      BY <1>1
    <3>2. QED
      BY <2>2, <3>1 DEF Skipped
  <2>5. Consumed = At /\ Consumed' = At
    <3>1. have' = TRUE /\ Consumed' = IF have' THEN At' - 1 ELSE At'
      BY <1>2 DEF Consumed
    <3>2. QED
      BY <1>1, <1>2, <2>2, <3>1 DEF Consumed
  <2>6. Agree(input, input', At)
    BY <2>2 DEF Agree
  <2>7. QED
    BY <1>1, <1>2, <2>2, <2>3, <2>4, <2>5, <2>6
<1>3. CASE UNCHANGED input /\ have' \in BOOLEAN /\ (have \/ have' = have)
  <2>1. At' = At /\ Skipped' = Skipped /\ Agree(input, input', At)
    BY <1>3 DEF At, Skipped, Agree
  <2>2. have => At # 0
    BY <1>1, EmptySeq DEF Scanned, At
  <2>3. have' => have
    BY <1>3 DEF Scanned
  <2>4. QED
    BY <1>1, <1>3, <2>1, <2>2, <2>3 DEF Consumed, Scanned
<1>4. QED
  BY <1>2, <1>3 DEF ReadsOn

LEMMA HereNext ==
  ASSUME Here, ReadsOn, Collects, UNCHANGED consumed
  PROVE  Here'
<1>1. /\ input' \in Seq(Alphabet) /\ have' \in BOOLEAN /\ (have' => input' # <<>>)
      /\ Skipped' = Skipped /\ Consumed' \in Nat /\ Consumed <= Consumed'
      /\ At' \in Nat /\ At <= At'
      /\ have /\ have' = FALSE => Consumed' = At
  BY ReadFurther DEF Here
<1>2. /\ At \in Nat /\ Consumed \in Nat /\ Skipped \in Nat /\ Skipped <= Consumed /\ consumed \in 0..At
      /\ (have => Skipped < At) /\ acc \in Seq(Nat) /\ \A i \in DOMAIN acc : acc[i] \in Skipped + 1..Consumed
  BY HereTypes DEF Here, Scanned
<1>3. acc' \in Seq(Nat) /\ \A i \in DOMAIN acc' : acc'[i] \in Skipped + 1..Consumed'
  <2>1. CASE acc' = acc
    BY <1>1, <1>2, <2>1
  <2>2. CASE acc' = <<>>
    BY <2>2
  <2>3. CASE have /\ have' = FALSE /\ acc' = Append(acc, At)
    <3>1. acc' \in Seq(Nat) /\ DOMAIN acc' = 1..Len(acc) + 1 /\ DOMAIN acc = 1..Len(acc) /\ Len(acc) \in Nat
          /\ acc'[Len(acc) + 1] = At /\ \A i \in 1..Len(acc) : acc'[i] = acc[i]
      BY <1>2, <2>3
    <3>2. \A i \in 1..Len(acc) + 1 : i \in 1..Len(acc) \/ i = Len(acc) + 1
      BY <3>1
    <3>3. At \in Skipped + 1..Consumed'
      BY <1>1, <1>2, <2>3
    <3>4. \A i \in 1..Len(acc) : acc[i] \in Skipped + 1..Consumed'
      <4>1. \A i \in 1..Len(acc) : acc[i] \in Skipped + 1..Consumed
        BY <1>2, <3>1
      <4>2. Skipped + 1..Consumed \subseteq Skipped + 1..Consumed'
        BY <1>1, <1>2
      <4>3. QED
        BY <3>1, <4>1, <4>2
    <3>5. QED
      BY <3>1, <3>2, <3>3, <3>4
  <2>4. QED
    BY <2>1, <2>2, <2>3 DEF Collects
<1>4. QED
  BY <1>1, <1>2, <1>3 DEF Here, Scanned

LEMMA LeadSteps ==
  ASSUME ParseValue, pc = "lead"
  PROVE  Scan \/ CollectHeadComments
<1>1. ~(OverNodes \/ TooDeep \/ NotAValue \/ StrictTrailingComma \/ NotAKey \/ NotAColon
          \/ RefuseDuplicate \/ NotASeparator)
  BY ErrorReturns DEF BeforeValue
<1>2. ~(ParseScalar \/ OpenContainer \/ SkipDroppedComments \/ CloseContainer \/ ReturnContainer
          \/ AppendElement \/ ParseKey \/ ParseColon \/ MakeMember \/ InsertMember
          \/ InlineComment \/ Separator \/ CloseAhead \/ AttachAfterComma)
  BY ValueSteps DEF BeforeValue
<1>3. QED
  BY <1>1, <1>2 DEF ParseValue

\* Looking for a value, a step takes a comment, a line break or nothing.
LEMMA LeadNext ==
  ASSUME Scanned, BetweenValues, ParseValue, UNCHANGED dvars
  PROVE  BetweenValues'
<1>1. UNCHANGED <<err, consumed>> /\ ReadsOn
  BY StepReads DEF dvars, Scanned
<1>2. /\ Skipped' = Skipped /\ Agree(input, input', At)
      /\ Skipped \in Nat /\ At \in Nat /\ Skipped <= At /\ Consumed \in Nat /\ Consumed <= At
  <2>1. Skipped' = Skipped /\ Agree(input, input', At)
    BY <1>1, ReadFurther
  <2>2. Skipped \in Nat /\ At \in Nat /\ Consumed \in Nat /\ Consumed <= At
    BY HereTypes
  <2>3. QED
    BY <2>1, <2>2 DEF Scanned
<1>3. OpenAt(input', Skipped + 1) = {}
  <2>1. Skipped + 1 \in 1..At + 1
    BY <1>2
  <2>2. OpenAt(input', Skipped + 1) = OpenAt(input, Skipped + 1)
    BY <1>2, <2>1, AgreeOpen
  <2>3. QED
    BY <2>2 DEF BetweenValues
<1>4. ASSUME err = NoErr, pc' \in BeforeValue
      PROVE  stack' = <<>> /\ \A i \in Skipped + 1..Consumed' : IsBlankSpace(input'[i])
  <2>1. pc = "lead"
    BY <1>4, ParserSteps
  <2>2. stack = <<>> /\ \A i \in Skipped + 1..Consumed : IsBlankSpace(input[i])
    BY <1>4, <2>1 DEF BetweenValues, BeforeValue
  <2>3. CASE Scan
    <3>1. ~have /\ have' = TRUE /\ UNCHANGED stack /\ \E t \in Alphabet : input' = Append(input, t)
      BY <2>3 DEF Scan
    <3>2. Consumed = At
      BY <3>1 DEF Consumed
    <3>3. Consumed' = At
      <4>1. At' = At + 1
        BY <3>1 DEF Scanned, At
      <4>2. QED
        BY <1>2, <3>1, <4>1 DEF Consumed
    <3>4. \A i \in Skipped + 1..At : input'[i] = input[i]
      BY <1>2 DEF Agree
    <3>5. QED
      BY <2>2, <3>1, <3>2, <3>3, <3>4
  <2>4. CASE CollectHeadComments
    <3>1. have /\ Look.k \in Comments \cup {"nl"} /\ UNCHANGED <<input, stack>> /\ have' = FALSE
      BY <2>4 DEF CollectHeadComments, Sees, Bump
    <3>2. At = Consumed + 1 /\ Consumed' = At
      BY <1>2, <3>1 DEF Consumed, At
    <3>3. IsBlankSpace(input[At])
      BY <3>1 DEF Look, IsBlankSpace, IsComment, Comments
    <3>4. \A i \in Skipped + 1..At : i \in Skipped + 1..Consumed \/ i = At
      BY <1>2, <3>2
    <3>5. \A i \in Skipped + 1..At : IsBlankSpace(input[i])
      BY <2>2, <3>3, <3>4
    <3>6. QED
      BY <2>2, <3>1, <3>2, <3>5
  <2>5. QED
    BY <2>1, <2>3, <2>4, LeadSteps
<1>5. QED
  BY <1>1, <1>2, <1>3, <1>4 DEF BetweenValues

\* The types parse keeps, and those a call of its own does.
LEMMA ReadTypes ==
  ASSUME ParsedAlone
  PROVE  warnings \in Seq(Warning) /\ result \in Outcome /\ acc \in Seq(Nat)
<1>1. warnings \in Seq(Doc!Warning) /\ result \in Doc!Outcome
  BY DEF ParsedAlone, Doc!IInv, Doc!TypeOK, Doc!ParserTypeOK
<1>2. Doc!Warning = Warning /\ Doc!Outcome = Outcome
  BY DEF Doc!Warning, Warning, Doc!Outcome, Outcome
<1>3. acc \in Seq(Nat)
  BY DEF ParsedAlone, Doc!IInv, Doc!TypeOK, Doc!ParserTypeOK, Doc!Text
<1>4. QED
  BY <1>1, <1>2, <1>3

LEMMA ReadTypesNext ==
  (ParsedAlone => warnings \in Seq(Warning) /\ result \in Outcome /\ acc \in Seq(Nat))'
<1>1. ParsedAlone => warnings \in Seq(Warning) /\ result \in Outcome /\ acc \in Seq(Nat)
  BY ReadTypes
<1>2. QED
  BY <1>1, PTL

LEMMA ParseValueStreaming ==
  ASSUME IInv, Streaming, ParseValue, UNCHANGED dvars
  PROVE  Streaming'
<1>1. pc \notin Outside /\ pc' \notin Outside /\ UNCHANGED <<call, lead, err, consumed, values>>
  BY ParserSteps DEF dvars, BeforeValue, Outside
<1>2. Here /\ err = NoErr /\ call \in {"Decode", "More"}
  BY <1>1 DEF Streaming, IInv, CallsOK, ErrorsOK, Outside
<1>3. ReadsOn /\ Collects /\ (pc' = "error" => result'.kind # "none")
  BY <1>2, StepReads DEF Here, Scanned
<1>4. Here' /\ Scanned'
  BY <1>1, <1>2, <1>3, HereNext DEF Here
<1>5. (Reading => ParsedAlone)'
  <2>1. SUFFICES ASSUME call = "Decode" PROVE ParsedAlone'
    BY <1>1 DEF Reading
  <2>2. ParsedAlone
    BY <1>1, <2>1 DEF Streaming, Reading
  <2>3. [Doc!Next]_Doc!vars
    BY <1>2, StepAlone
  <2>4. QED
    BY <2>2, <2>3, ParsedNext
<1>6. CallTypes'
  <2>1. CASE call = "Decode"
    <3>1. ParsedAlone'
      BY <1>1, <1>5, <2>1 DEF Reading
    <3>2. warnings' \in Seq(Warning) /\ result' \in Outcome
      BY <3>1, ReadTypesNext
    <3>3. QED
      BY <1>1, <1>3, <3>2 DEF Streaming, CallTypes
  <2>2. CASE call = "More"
    <3>1. pc = "lead"
      BY <1>1, <2>2 DEF IInv, CallsOK, BeforeValue
    <3>2. UNCHANGED <<pc, warnings, result>>
      BY <3>1, LeadSteps DEF Scan, CollectHeadComments
    <3>3. QED
      BY <1>1, <1>3, <3>2 DEF Streaming, CallTypes
  <2>3. QED
    BY <1>2, <2>1, <2>2
<1>7. BetweenValues'
  BY LeadNext DEF Streaming
<1>8. ValuesPlaced' /\ ValuesRead'
  <2>1. Agree(input, input', At)
    BY <1>1, <1>2, <1>3, ReadFurther DEF Here
  <2>2. /\ ValuesPlaced'
        /\ \A n \in 1..Len(values) :
              HoldsValue(input', SpanOf(values, n), values[n].from) /\ WithinAll(input', values[n])
    BY <1>1, <2>1, ValuesKept DEF Streaming
  <2>3. PastOne(input', consumed + 1, At', err')
    BY <1>1, <1>2 DEF PastOne, NoErr
  <2>4. QED
    BY <1>1, <2>2, <2>3 DEF ValuesRead
<1>9. QED
  BY <1>4, <1>5, <1>6, <1>7, <1>8 DEF Streaming

-----------------------------------------------------------------------------
(* The steps that read nothing. *)

LEMMA NothingRead ==
  ASSUME Streaming, UNCHANGED <<input, have, consumed, values>>, acc' \in Seq(Nat)
  PROVE  /\ Scanned' /\ ValuesPlaced' /\ Skipped' = Skipped /\ Consumed' = Consumed /\ At' = At
         /\ OpenAt(input', Skipped' + 1) = {}
         /\ (PastOne(input, consumed + 1, At, err) => PastOne(input', consumed' + 1, At', err'))
              => ValuesRead'
<1>1. Scanned' /\ Skipped' = Skipped /\ Consumed' = Consumed /\ At' = At
  BY DEF Streaming, Scanned, Skipped, Consumed, At
<1>2. /\ ValuesPlaced'
      /\ \A n \in 1..Len(values) :
           HoldsValue(input', SpanOf(values, n), values[n].from) /\ WithinAll(input', values[n])
  BY ValuesKept DEF Streaming, Agree
<1>3. OpenAt(input', Skipped' + 1) = {}
  BY <1>1 DEF Streaming, BetweenValues
<1>4. (PastOne(input, consumed + 1, At, err) => PastOne(input', consumed' + 1, At', err')) => ValuesRead'
  BY <1>2 DEF Streaming, ValuesRead
<1>5. QED
  BY <1>1, <1>2, <1>3, <1>4

\* The steps of a call that stay outside the search for a value, or leave it.
LEMMA OutsideStreaming ==
  ASSUME IInv, Streaming,
         \/ \E method \in {"Decode", "More"} : Call(method)
         \/ LoadFails \/ Load \/ Sticky \/ MoreAnswers \/ DecodeEOF
  PROVE  Streaming'
<1>1. /\ UNCHANGED <<input, have, stack, acc, consumed, values, lead, warnings, result>>
      /\ pc \in BeforeValue
  BY DEF Call, LoadFails, Load, Sticky, MoreAnswers, DecodeEOF, AtNext, IInv, CallsOK, BeforeValue, Outside
<1>2. pc' \in Outside
  BY DEF Call, LoadFails, Load, Sticky, MoreAnswers, DecodeEOF, Refuse, Return, Outside
<1>3. err' = err \/ (err = NoErr /\ err' \in {"size", "bom"})
  <2>1. CASE Load
    BY <2>1 DEF Load, IInv, ErrorsOK
  <2>2. CASE ~Load
    BY <2>2 DEF Call, LoadFails, Sticky, MoreAnswers, DecodeEOF
  <2>3. QED
    BY <2>1, <2>2
<1>4. acc' \in Seq(Nat)
  BY <1>1 DEF Streaming, Scanned
<1>5. /\ Scanned' /\ ValuesPlaced' /\ Skipped' = Skipped /\ Consumed' = Consumed /\ At' = At
      /\ OpenAt(input', Skipped' + 1) = {}
  BY <1>1, <1>4, NothingRead
<1>6. BetweenValues'
  <2>1. err' = NoErr => err = NoErr
    BY <1>3 DEF NoErr
  <2>2. err = NoErr => stack = <<>> /\ \A i \in Skipped + 1..Consumed : IsBlankSpace(input[i])
    BY <1>1 DEF Streaming, BetweenValues
  <2>3. QED
    BY <1>1, <1>5, <2>1, <2>2 DEF BetweenValues
<1>7. ValuesRead'
  <2>1. PastOne(input, consumed + 1, At, err) => PastOne(input', consumed' + 1, At', err')
    BY <1>1, <1>3, <1>5 DEF PastOne
  <2>2. QED
    BY <1>1, <1>4, <2>1, NothingRead
<1>8. CallTypes'
  BY <1>1, <1>2 DEF Streaming, CallTypes, Outside
<1>9. QED
  BY <1>2, <1>5, <1>6, <1>7, <1>8 DEF Streaming, Reading

LEMMA BeginStreaming == ASSUME IInv, Streaming, Begin PROVE Streaming'
<1>1. /\ UNCHANGED <<input, have, stack, consumed, values, lead, warnings, result, err, call>>
      /\ pc = "begin" /\ pc' = "lead" /\ err = NoErr
      /\ heap' = <<>> /\ val' = 0 /\ acc' = <<>>
      /\ call = "Decode" => depth' = 0 /\ keys' = 0 /\ nodes' = 0
  BY DEF Begin, ResetCounters, dvars
<1>2. acc' \in Seq(Nat) /\ DOMAIN acc' = {}
  BY <1>1, EmptySeq
<1>3. /\ Scanned' /\ ValuesPlaced' /\ Skipped' = Skipped /\ Consumed' = Consumed /\ At' = At
      /\ OpenAt(input', Skipped' + 1) = {}
  BY <1>1, <1>2, NothingRead
<1>4. stack = <<>> /\ \A i \in Skipped + 1..Consumed : IsBlankSpace(input[i])
  BY <1>1 DEF Streaming, BetweenValues, BeforeValue, Outside
<1>5. BetweenValues'
  BY <1>1, <1>3, <1>4 DEF BetweenValues
<1>6. ValuesRead'
  <2>1. PastOne(input, consumed + 1, At, err) => PastOne(input', consumed' + 1, At', err')
    BY <1>1, <1>3
  <2>2. QED
    BY <1>1, <1>2, <2>1, NothingRead
<1>7. CallTypes'
  BY <1>1 DEF Streaming, CallTypes
<1>8. Here'
  BY <1>2, <1>3 DEF Here
<1>9. (Reading => ParsedAlone)'
  <2>1. SUFFICES ASSUME call = "Decode" PROVE ParsedAlone'
    BY <1>1 DEF Reading
  <2>2. Fresh'
    <3>1. \A i \in Skipped' + 1..Consumed' : IsBlankSpace(input'[i])
      BY <1>1, <1>3, <1>4
    <3>2. QED
      BY <1>1, <1>4, <1>7, <1>8, <2>1, <3>1 DEF Fresh, CallTypes
  <2>3. QED
    BY <2>2, FreshNext
<1>10. QED
  BY <1>3, <1>5, <1>6, <1>7, <1>8, <1>9 DEF Streaming

LEMMA BeginValueStreaming == ASSUME IInv, Streaming, BeginValue PROVE Streaming'
<1>1. /\ UNCHANGED <<input, have, consumed, values, warnings, result, err, call>>
      /\ pc = "lead" /\ pc' = "value" /\ call = "Decode"
      /\ acc' = <<>> /\ lead' = NonBlank(acc)
  BY DEF BeginValue, AtNext
<1>2. acc' \in Seq(Nat) /\ DOMAIN acc' = {}
  BY <1>1, EmptySeq
<1>3. /\ Scanned' /\ ValuesPlaced' /\ Skipped' = Skipped /\ Consumed' = Consumed /\ At' = At
      /\ OpenAt(input', Skipped' + 1) = {}
  BY <1>1, <1>2, NothingRead
<1>4. BetweenValues'
  BY <1>1, <1>3 DEF BetweenValues, BeforeValue, Outside
<1>5. ValuesRead'
  <2>1. PastOne(input, consumed + 1, At, err) => PastOne(input', consumed' + 1, At', err')
    BY <1>1, <1>3
  <2>2. QED
    BY <1>1, <1>2, <2>1, NothingRead
<1>6. CallTypes'
  <2>1. lead' \in Text
    BY <1>1 DEF Streaming, Scanned, NonBlank, Text
  <2>2. QED
    BY <1>1, <2>1 DEF Streaming, CallTypes
<1>7. Here'
  BY <1>2, <1>3 DEF Here
<1>8. ParsedAlone'
  <2>1. Here /\ ParsedAlone
    BY <1>1 DEF Streaming, Reading, Outside
  <2>2. [Doc!Next]_Doc!vars
    BY <2>1, StepAlone
  <2>3. QED
    BY <2>1, <2>2, ParsedNext
<1>9. QED
  BY <1>3, <1>4, <1>5, <1>6, <1>7, <1>8 DEF Streaming

LEMMA StutterStreaming == ASSUME Streaming, UNCHANGED vars PROVE Streaming'
<1>1. UNCHANGED <<input, have, stack, acc, pc, consumed, values, lead, warnings, result, err, call>>
  BY DEF vars, pvars, dvars
<1>2. acc' \in Seq(Nat)
  BY <1>1 DEF Streaming, Scanned
<1>3. /\ Scanned' /\ ValuesPlaced' /\ Skipped' = Skipped /\ Consumed' = Consumed /\ At' = At
      /\ OpenAt(input', Skipped' + 1) = {}
  BY <1>1, <1>2, NothingRead
<1>4. ValuesRead'
  <2>1. PastOne(input, consumed + 1, At, err) => PastOne(input', consumed' + 1, At', err')
    BY <1>1, <1>3
  <2>2. QED
    BY <1>1, <1>2, <2>1, NothingRead
<1>5. BetweenValues' /\ CallTypes' /\ (Here => Here')
  BY <1>1, <1>3 DEF Streaming, BetweenValues, CallTypes, Here
<1>6. (Reading => ParsedAlone)'
  <2>1. SUFFICES ASSUME Reading PROVE ParsedAlone'
    BY <1>1 DEF Reading
  <2>2. ParsedAlone /\ Here
    BY <2>1 DEF Streaming, Reading
  <2>3. [Doc!Next]_Doc!vars
    BY <2>2, StepAlone
  <2>4. QED
    BY <2>2, <2>3, ParsedNext
<1>7. QED
  BY <1>1, <1>3, <1>4, <1>5, <1>6 DEF Streaming

-----------------------------------------------------------------------------
(* The value read, in the text of the call and in the input. *)

\* Reading a value, the call has its text after Skipped in common with the input.
LEMMA TextAlone ==
  ASSUME Streaming, Here
  PROVE  /\ Skipped \in Nat /\ Consumed \in Nat /\ At \in Nat /\ consumed \in Nat
         /\ Skipped <= Consumed /\ Consumed <= At /\ At <= Consumed + 1
         /\ \A i \in 1..Skipped : IsBlankSpace(Alone[i])
         /\ \A i \in Skipped + 1..At : Alone[i] = input[i]
         /\ Rejoin(input, Alone, Skipped, At)
         /\ Doc!Consumed = Consumed /\ Doc!At = At
         /\ Skipped <= consumed /\ consumed <= Skipped + 1
         /\ consumed = Skipped + 1 => input[consumed].k = "nl"
<1>1. /\ Skipped \in Nat /\ Consumed \in Nat /\ At \in Nat /\ consumed \in Nat
      /\ Consumed <= At /\ At <= Consumed + 1
  BY HereTypes DEF Here
<1>2. Skipped <= Consumed
  BY <1>1 DEF Here, Scanned
<1>3. \A i \in 1..At : Alone[i] = IF i <= Skipped THEN Tok("nl") ELSE input[i]
  BY AloneIs DEF Here
<1>4. \A i \in 1..Skipped : IsBlankSpace(Alone[i])
  BY <1>1, <1>2, <1>3 DEF Tok, IsBlankSpace
<1>5. \A i \in Skipped + 1..At : Alone[i] = input[i]
  BY <1>1, <1>3
<1>6. Rejoin(input, Alone, Skipped, At)
  <2>1. OpenAt(Alone, Skipped + 1) = {}
    BY <1>1, <1>4, BlankText
  <2>2. OpenAt(input, Skipped + 1) = {}
    BY DEF Streaming, BetweenValues
  <2>3. QED
    BY <1>5, <2>1, <2>2 DEF Rejoin
<1>7. Doc!Consumed = Consumed /\ Doc!At = At
  BY SameLook
<1>8. /\ Skipped <= consumed /\ consumed <= Skipped + 1
      /\ consumed = Skipped + 1 => input[consumed].k = "nl"
  BY <1>1 DEF Skipped
<1>9. QED
  BY <1>1, <1>2, <1>4, <1>5, <1>6, <1>7, <1>8

Returning == pc = "return" /\ stack = <<>>
\* Where the value read starts and ends.
First == heap[val].pos
End == Before(Alone, Consumed + 1)

LEMMA ReturningReads ==
  ASSUME IInv, Streaming, Returning
  PROVE  call = "Decode" /\ ParsedAlone /\ Here /\ err = NoErr
BY DEF Returning, IInv, CallsOK, ErrorsOK, Streaming, Reading, BeforeValue, Outside

LEMMA RootAlone ==
  ASSUME IInv, Streaming, Returning
  PROVE  /\ val = 1 /\ First \in 1..Consumed /\ StartsValue(Alone[First])
         /\ \A i \in 1..First - 1 : IsBlankSpace(Alone[i])
         /\ StartOf(Alone, End) = First
         /\ End # 0 /\ EndsValue(Alone, End)
<1>1. ParsedAlone /\ Here /\ pc = "return" /\ stack = <<>>
  BY ReturningReads DEF Returning
<1>2. Doc!Consumed = Consumed
  BY <1>1, SameLook
<1>3. Doc!Prior = End
  BY <1>2, SamePlaces DEF Doc!Prior, End
<1>4. heap # <<>> /\ val = 1 /\ Doc!RootPlace(heap[1].pos) /\ Doc!RootEnded
  BY <1>1 DEF ParsedAlone, Doc!RootRead, Doc!RootEnded
<1>5. /\ First \in 1..Consumed /\ StartsValue(Alone[First])
      /\ \A i \in 1..First - 1 : IsBlankSpace(Alone[i])
      /\ StartOf(Alone, End) = First
  BY <1>2, <1>3, <1>4, SameTokens, SamePlaces DEF Doc!RootPlace, First
<1>6. Doc!AfterValue
  BY <1>1 DEF ParsedAlone, Doc!Parsing, Doc!Located, Doc!ValueRead, Doc!AfterValuePlaces
<1>7. End # 0 /\ EndsValue(Alone, End)
  BY <1>3, <1>6, SamePlaces DEF Doc!AfterValue
<1>8. QED
  BY <1>4, <1>5, <1>7

LEMMA RootHere ==
  ASSUME IInv, Streaming, Returning
  PROVE  /\ First \in Skipped + 1..Consumed /\ First > consumed
         /\ StartsValue(input[First]) /\ \A i \in Skipped + 1..First - 1 : IsBlankSpace(input[i])
         /\ End \in First..Consumed /\ \A i \in End + 1..Consumed : IsBlankSpace(input[i])
         /\ EndsValue(input, End) /\ StartOf(input, End) = First
<1>1. Here
  BY ReturningReads
<1>0. /\ First \in 1..Consumed /\ StartsValue(Alone[First])
      /\ \A i \in 1..First - 1 : IsBlankSpace(Alone[i])
      /\ StartOf(Alone, End) = First
      /\ End # 0 /\ EndsValue(Alone, End)
  BY RootAlone
<1>2. /\ Skipped \in Nat /\ Consumed \in Nat /\ At \in Nat /\ consumed \in Nat
      /\ Skipped <= Consumed /\ Consumed <= At
      /\ \A i \in 1..Skipped : IsBlankSpace(Alone[i])
      /\ \A i \in Skipped + 1..At : Alone[i] = input[i]
      /\ Rejoin(input, Alone, Skipped, At)
      /\ Skipped <= consumed /\ consumed <= Skipped + 1
      /\ consumed = Skipped + 1 => input[consumed].k = "nl"
  BY <1>1, TextAlone
<1>3. \A t : StartsValue(t) => ~IsBlankSpace(t) /\ t.k # "nl"
  BY DEF StartsValue, Opens, IsBlankSpace, IsComment
<1>4. First \in Skipped + 1..Consumed
  BY <1>0, <1>2, <1>3
<1>5. StartsValue(input[First]) /\ ~IsBlankSpace(Alone[First])
  BY <1>0, <1>2, <1>3, <1>4
<1>6. First > consumed
  BY <1>2, <1>3, <1>4, <1>5
<1>7. \A i \in Skipped + 1..First - 1 : IsBlankSpace(input[i])
  BY <1>0, <1>2, <1>4
<1>8. End \in 0..Consumed /\ \A i \in End + 1..Consumed : IsBlankSpace(Alone[i])
  BY <1>2, BlankRun DEF End
<1>9. First <= End
  <2>1. PICK n \in Nat \ {0} : n = Consumed + 1
    BY <1>2
  <2>2. First \in 1..n - 1 /\ ~IsBlankSpace(Alone[First])
    BY <1>2, <1>4, <1>5, <2>1
  <2>3. First <= Before(Alone, n)
    BY <2>2, BeforeLargest
  <2>4. First <= Before(Alone, Consumed + 1)
    BY <2>1, <2>3
  <2>5. QED
    BY <2>4 DEF End
<1>10. End \in First..Consumed /\ \A i \in End + 1..Consumed : IsBlankSpace(input[i])
  BY <1>2, <1>4, <1>8, <1>9
<1>11. End \in Skipped + 1..At /\ End \in Skipped + 1..At + 1
  BY <1>2, <1>4, <1>10
<1>12. EndsValue(input, End)
  BY <1>0, <1>2, <1>11, RejoinKey
<1>13. OpenerOf(input, End) = OpenerOf(Alone, End) /\ input[End] = Alone[End]
  BY <1>2, <1>11, RejoinOpen DEF OpenerOf
<1>14. StartOf(input, End) = First
  BY <1>0, <1>13 DEF StartOf
<1>15. QED
  BY <1>4, <1>5, <1>6, <1>7, <1>10, <1>12, <1>14

\* Past the value, valueEnd counts comments and line breaks only.
LEMMA ValueEndIs ==
  ASSUME Scanned
  PROVE  /\ ValueEnd \in Nat /\ Consumed <= ValueEnd /\ ValueEnd <= At /\ ValueEnd <= Consumed + 1
         /\ \A i \in Consumed + 1..ValueEnd : i = ValueEnd /\ input[i].k = "nl"
<1>1. At \in Nat /\ Consumed \in Nat /\ (have => At = Consumed + 1) /\ (~have => At = Consumed)
  BY HereTypes
<1>2. QED
  BY <1>1 DEF ValueEnd, Look

LEMMA SliceRead ==
  ASSUME IInv, Streaming, Returning
  PROVE  HoldsValue(input, consumed + 1..ValueEnd, First)
<1> DEFINE tokens == {i \in consumed + 1..ValueEnd : ~IsBlankSpace(input[i])}
<1>1. /\ First \in Skipped + 1..Consumed /\ First > consumed
      /\ StartsValue(input[First]) /\ \A i \in Skipped + 1..First - 1 : IsBlankSpace(input[i])
      /\ End \in First..Consumed /\ \A i \in End + 1..Consumed : IsBlankSpace(input[i])
      /\ EndsValue(input, End) /\ StartOf(input, End) = First
  BY RootHere
<1>2. Scanned /\ Skipped \in Nat /\ Consumed \in Nat /\ consumed \in Nat /\ Skipped <= consumed
  BY ReturningReads, TextAlone DEF Here
<1>3. /\ ValueEnd \in Nat /\ Consumed <= ValueEnd
      /\ \A i \in Consumed + 1..ValueEnd : input[i].k = "nl"
  BY <1>2, ValueEndIs
<1>4. \A t : (StartsValue(t) \/ Closes(t) => ~IsBlankSpace(t)) /\ (t.k = "nl" => IsBlankSpace(t))
  BY DEF StartsValue, Opens, Closes, IsBlankSpace, IsComment
<1>5. ASSUME NEW i \in tokens PROVE First <= i /\ i <= End
  <2>1. i \in consumed + 1..ValueEnd /\ ~IsBlankSpace(input[i])
    OBVIOUS
  <2>2. ~(i \in Skipped + 1..First - 1)
    BY <1>1, <2>1
  <2>3. ~(i \in End + 1..Consumed)
    BY <1>1, <2>1
  <2>4. ~(i \in Consumed + 1..ValueEnd)
    BY <1>3, <1>4, <2>1
  <2>5. QED
    BY <1>1, <1>2, <1>3, <2>1, <2>2, <2>3, <2>4
<1>6. First \in tokens
  BY <1>1, <1>2, <1>3, <1>4
<1>7. CASE Opens(input[First])
  <2>1. Closes(input[End])
    <3>1. ~Closes(input[End]) => End = First
      BY <1>1 DEF StartOf
    <3>2. QED
      BY <1>1, <1>7, <3>1 DEF EndsValue, Opens
  <2>2. End \in tokens
    BY <1>1, <1>2, <1>3, <1>4, <2>1
  <2>3. OpenerOf(input, End) = First
    BY <1>1, <2>1 DEF StartOf
  <2>4. QED
    BY <1>1, <1>5, <1>6, <1>7, <2>1, <2>2, <2>3 DEF HoldsValue
<1>8. CASE ~Opens(input[First])
  <2>1. ~Closes(input[End])
    <3>1. SUFFICES ASSUME Closes(input[End]) PROVE FALSE
      OBVIOUS
    <3>2. Around(input, End) = First /\ End \in Nat \ {0} /\ First # 0
      BY <1>1, <1>2, <3>1 DEF StartOf, OpenerOf
    <3>3. Opens(input[First])
      BY <3>2, AroundType
    <3>4. QED
      BY <1>8, <3>3
  <2>2. End = First
    BY <1>1, <2>1 DEF StartOf
  <2>3. tokens = {First}
    BY <1>1, <1>5, <1>6, <2>2
  <2>4. QED
    BY <1>1, <1>5, <1>6, <1>8, <2>3 DEF HoldsValue
<1>9. QED
  BY <1>7, <1>8

LEMMA SameCounts ==
  ASSUME Here, Streaming, NEW f \in Nat, f > Skipped, NEW u \in Nat, Consumed <= u, u <= At,
         \A i \in 1..f - 1 : IsBlankSpace(Alone[i])
  PROVE  /\ {i \in f..u : IsKey(input, i)} = {i \in 1..u : IsKey(Alone, i)}
         /\ {i \in f..u : IsValueStart(input, i)} = {i \in 1..u : IsValueStart(Alone, i)}
<1>1. /\ Skipped \in Nat /\ At \in Nat /\ Rejoin(input, Alone, Skipped, At)
  BY TextAlone
<1>2. \A i \in f..u : i \in Skipped + 1..At
  BY <1>1
<1>3. ASSUME NEW i \in f..u
      PROVE  (IsKey(Alone, i) <=> IsKey(input, i)) /\ (IsValueStart(Alone, i) <=> IsValueStart(input, i))
  BY <1>1, <1>2, RejoinKey
<1>4. \A i \in 1..f - 1 : ~IsKey(Alone, i) /\ ~IsValueStart(Alone, i)
  BY DEF IsKey, IsValueStart, StartsValue, Opens, IsBlankSpace, IsComment
<1>5. \A i \in 1..u : i \in 1..f - 1 \/ i \in f..u
  OBVIOUS
<1>6. \A i \in f..u : i \in 1..u
  BY <1>1
<1>7. QED
  BY <1>3, <1>4, <1>5, <1>6

LEMMA LimitsRead ==
  ASSUME IInv, Streaming, Returning
  PROVE  WithinAll(input, [from |-> First, upTo |-> ValueEnd])
<1>1. ParsedAlone /\ Here /\ Scanned /\ pc = "return" /\ stack = <<>>
  BY ReturningReads DEF Returning, Here
<1>2. /\ Skipped \in Nat /\ Consumed \in Nat /\ At \in Nat /\ Consumed <= At
      /\ \A i \in Skipped + 1..At : Alone[i] = input[i]
      /\ Rejoin(input, Alone, Skipped, At) /\ Doc!Consumed = Consumed
  BY <1>1, TextAlone
<1>3. /\ First \in 1..Consumed /\ \A i \in 1..First - 1 : IsBlankSpace(Alone[i])
  BY RootAlone
<1>4. First \in Skipped + 1..Consumed
  BY RootHere
<1>5. /\ ValueEnd \in Nat /\ Consumed <= ValueEnd /\ ValueEnd <= At /\ ValueEnd <= Consumed + 1
      /\ \A i \in Consumed + 1..ValueEnd : i = ValueEnd /\ input[i].k = "nl"
  BY <1>1, ValueEndIs
<1>6. \A i \in Consumed + 1..ValueEnd : Alone[i] = input[i] /\ ~IsKey(Alone, i) /\ ~IsValueStart(Alone, i)
  <2>1. \A i \in Consumed + 1..ValueEnd : Alone[i] = input[i] /\ Alone[i].k = "nl"
    BY <1>2, <1>4, <1>5
  <2>2. QED
    BY <2>1 DEF IsKey, IsValueStart, StartsValue, Opens
<1>7. \A i \in 1..ValueEnd : i \in 1..Consumed \/ i \in Consumed + 1..ValueEnd
  BY <1>2, <1>5
<1>8. \A i \in 1..Consumed : i \in 1..ValueEnd
  BY <1>2, <1>5
<1>9. /\ {i \in 1..ValueEnd : IsKey(Alone, i)} = Doc!KeysRead
      /\ {i \in 1..ValueEnd : IsValueStart(Alone, i)} = Doc!Starts
  BY <1>2, <1>6, <1>7, <1>8, SamePlaces DEF Doc!KeysRead, Doc!Starts
<1>10. First \in Nat /\ First > Skipped
  BY <1>2, <1>4
<1>11. /\ KeysFrom(input, First, ValueEnd) = Cardinality(Doc!KeysRead)
       /\ StartsFrom(input, First, ValueEnd) = Cardinality(Doc!Starts)
  BY <1>1, <1>3, <1>5, <1>9, <1>10, SameCounts DEF KeysFrom, StartsFrom
<1>12. keys = KeysFrom(input, First, ValueEnd)
       /\ Len(heap) = StartsFrom(input, First, ValueEnd) + KeysFrom(input, First, ValueEnd)
  <2>1. Len(stack) = 0 /\ 1..0 = {}
    BY <1>1, EmptySeq
  <2>2. Cardinality(Doc!WaitingFrames) = 0
    <3>1. Doc!WaitingFrames = {}
      BY <2>1 DEF Doc!WaitingFrames
    <3>2. QED
      BY <3>1, FS_EmptySet
  <2>3. Doc!Working /\ pc # "insert"
    BY <1>1 DEF Doc!Working
  <2>4. /\ Cardinality(Doc!KeysRead) = keys + 0
        /\ Len(heap) = Cardinality(Doc!Starts) + keys + 0
    BY <1>1, <2>2, <2>3, SameCardinality DEF ParsedAlone, Doc!Measured, Doc!Counted
  <2>5. keys \in Nat /\ Cardinality(Doc!Starts) \in Nat
    <3>1. keys \in Nat
      BY <1>1 DEF ParsedAlone, Doc!IInv, Doc!TypeOK, Doc!ParserTypeOK
    <3>2. Doc!Starts \subseteq 1..Consumed
      BY <1>2 DEF Doc!Starts
    <3>3. QED
      <4>1. PICK c \in Int : c = Consumed
        BY <1>2
      <4>2. PICK S : S = Doc!Starts
        OBVIOUS
      <4>3. S \subseteq 1..c /\ 1 \in Int
        BY <3>2, <4>1, <4>2
      <4>4. Cardinality(S) \in Nat
        BY <4>1, <4>3, CountType
      <4>5. QED
        BY <3>1, <4>2, <4>4
  <2>6. QED
    BY <1>11, <2>4, <2>5
<1>13. /\ MaxNodes > 0 => Len(heap) <= MaxNodes
       /\ MaxKeys > 0 => keys <= MaxKeys
  BY <1>1 DEF ParsedAlone, Doc!IInv, Doc!LimitsHold
<1>14. ASSUME MaxDepth > 0, NEW i \in First..ValueEnd PROVE Surplus(input, First, i) <= MaxDepth
  <2>1. \A j \in 1..Consumed : Depth(Alone, j) <= MaxDepth
    BY <1>1, <1>2, <1>14, SamePlaces DEF ParsedAlone, Doc!Measured, Doc!Deep
  <2>2. ASSUME NEW j \in First..Consumed PROVE Surplus(input, First, j) <= MaxDepth
    <3>1. First \in Nat \ {0} /\ j \in 0..Consumed /\ j \in 1..Consumed
      BY <1>2, <1>3
    <3>2. \A l \in First..Consumed : Alone[l] = input[l]
      BY <1>2, <1>4
    <3>3. Depth(Alone, j) = Surplus(input, First, j)
      BY <1>2, <1>3, <3>1, <3>2, DepthFrom
    <3>4. QED
      BY <2>1, <3>1, <3>3
  <2>3. CASE i <= Consumed
    BY <1>2, <1>3, <2>2, <2>3
  <2>4. CASE ~(i <= Consumed)
    <3>1. /\ i = Consumed + 1 /\ input[i].k = "nl" /\ i - 1 = Consumed
          /\ i \in Int /\ First \in Int /\ First <= i
      BY <1>2, <1>3, <1>5, <2>4
    <3>2. Surplus(input, First, i) = Surplus(input, First, i - 1) + Step(input[i])
      BY <3>1, SurplusNext
    <3>3. Step(input[i]) = 0
      BY <3>1 DEF Step, Opens, Closes
    <3>4. Consumed \in First..Consumed
      BY <1>2, <1>3
    <3>5. Surplus(input, First, Consumed) <= MaxDepth /\ Surplus(input, First, Consumed) \in Int
      BY <1>2, <1>3, <2>2, <3>1, <3>4, SurplusType
    <3>6. QED
      BY <3>1, <3>2, <3>3, <3>5
  <2>5. QED
    BY <2>3, <2>4
<1>15. QED
  BY <1>12, <1>13, <1>14 DEF WithinAll

-----------------------------------------------------------------------------
(* The decoder after the value. *)

\* The value has closed all it opened.
LEMMA EndsClosed ==
  ASSUME IInv, Streaming, Returning
  PROVE  OpenAt(input, Consumed + 1) = {}
<1>1. ParsedAlone /\ Here /\ pc = "return" /\ stack = <<>>
  BY ReturningReads DEF Returning
<1>2. /\ Skipped \in Nat /\ Consumed \in Nat /\ At \in Nat /\ Skipped <= Consumed /\ Consumed <= At
      /\ Rejoin(input, Alone, Skipped, At) /\ Doc!Consumed = Consumed
  BY <1>1, TextAlone
<1>3. Doc!Live = 0 /\ 1..0 = {}
  BY <1>1, EmptySeq DEF Doc!Live
<1>4. Doc!Nests(Alone, Doc!Consumed, Doc!Live, Doc!Opened)
  BY <1>1 DEF ParsedAlone, Doc!Parsing, Doc!Balanced
<1>5. OpenAt(Alone, Consumed + 1) = {}
  BY <1>2, <1>3, <1>4, SamePlaces DEF Doc!Nests
<1>6. Consumed + 1 \in Skipped + 1..At + 1
  BY <1>2
<1>7. QED
  BY <1>2, <1>5, <1>6, RejoinOpen

LEMMA ReturnPlaces ==
  ASSUME IInv, Streaming, ReturnValue
  PROVE  /\ Scanned' /\ BetweenValues'
<1>1. /\ Returning /\ consumed' = ValueEnd /\ pc' = "idle"
      /\ UNCHANGED <<input, have, stack, acc, err>>
  BY DEF ReturnValue, Return, Returning
<1>2. Scanned /\ err = NoErr /\ stack = <<>>
  BY <1>1, ReturningReads DEF Here, Returning
<1>3. Consumed \in Nat /\ At \in Nat /\ Consumed <= At
  BY <1>2, HereTypes
<1>4. /\ ValueEnd \in Nat /\ Consumed <= ValueEnd /\ ValueEnd <= At /\ ValueEnd <= Consumed + 1
      /\ \A i \in Consumed + 1..ValueEnd : i = ValueEnd /\ input[i].k = "nl"
  BY <1>2, ValueEndIs
<1>5. At' = At /\ Consumed' = Consumed
  BY <1>1 DEF At, Consumed
<1>6. Skipped' = IF ValueEnd # 0 /\ input[ValueEnd].k = "nl" THEN ValueEnd - 1 ELSE ValueEnd
  BY <1>1 DEF Skipped
<1>7. ValueEnd = Consumed \/ (ValueEnd = Consumed + 1 /\ Skipped' = Consumed)
  BY <1>3, <1>4, <1>6
<1>8. Skipped' = ValueEnd \/ (ValueEnd # 0 /\ Skipped' = ValueEnd - 1 /\ IsBlankSpace(input[ValueEnd]))
  BY <1>6 DEF IsBlankSpace
<1>9. Scanned'
  <2>1. Skipped' \in 0..Consumed /\ consumed' \in 0..At
    BY <1>1, <1>3, <1>4, <1>7, <1>8
  <2>2. QED
    BY <1>1, <1>2, <1>5, <2>1 DEF Scanned
<1>10. OpenAt(input, Skipped' + 1) = {}
  <2>1. OpenAt(input, Consumed + 1) = {}
    BY <1>1, EndsClosed
  <2>2. CASE Skipped' = Consumed
    BY <2>1, <2>2
  <2>3. CASE Skipped' # Consumed
    <3>1. /\ ValueEnd = Consumed /\ Consumed \in Nat \ {0}
          /\ Skipped' + 1 = Consumed /\ IsBlankSpace(input[Consumed])
      BY <1>3, <1>4, <1>7, <1>8, <2>3
    <3>2. OpenAt(input, Consumed + 1) = OpenAt(input, Consumed)
      BY <3>1, OpenBlank
    <3>3. QED
      BY <2>1, <3>1, <3>2
  <2>4. QED
    BY <2>2, <2>3
<1>11. \A i \in Skipped' + 1..Consumed : IsBlankSpace(input[i])
  BY <1>3, <1>4, <1>7, <1>8
<1>12. BetweenValues'
  BY <1>1, <1>2, <1>5, <1>10, <1>11 DEF BetweenValues
<1>13. QED
  BY <1>9, <1>12

LEMMA ReturnValues ==
  ASSUME IInv, Streaming, ReturnValue
  PROVE  ValuesPlaced' /\ ValuesRead'
<1> DEFINE new == [from |-> First, upTo |-> ValueEnd]
           N == Len(values) + 1
<1>1. /\ Returning /\ consumed' = ValueEnd /\ values' = Append(values, new)
      /\ UNCHANGED <<input, err>>
  BY DEF ReturnValue, Returning, First
<1>2. Scanned /\ err = NoErr
  BY <1>1, ReturningReads DEF Here
<1>3. /\ ValueEnd \in Nat /\ Consumed \in Nat /\ Consumed <= ValueEnd /\ consumed \in Nat
  BY <1>2, HereTypes, ValueEndIs
<1>4. /\ First \in Skipped + 1..Consumed /\ First > consumed /\ First \in 1..Consumed
      /\ HoldsValue(input, consumed + 1..ValueEnd, First)
  BY <1>1, RootAlone, RootHere, SliceRead
<1>5. WithinAll(input, new)
  BY <1>1, LimitsRead
<1>6. First \in 1..ValueEnd /\ consumed <= ValueEnd /\ new \in [from : Nat, upTo : Nat]
  BY <1>3, <1>4
<1>7. /\ Len(values) \in Nat /\ values \in Seq([from : Nat, upTo : Nat])
      /\ \A n \in 1..Len(values) : /\ values[n] \in [from : Nat, upTo : Nat]
                                   /\ values[n].from # 0 /\ values[n].from <= values[n].upTo
                                   /\ values[n].upTo <= consumed
      /\ consumed = IF values = <<>> THEN 0 ELSE values[Len(values)].upTo
  BY ValueTypes DEF Streaming, ValuesPlaced
<1> HIDE DEF new
<1>8. /\ values' \in Seq([from : Nat, upTo : Nat]) /\ Len(values') = N /\ values'[N] = new
      /\ \A n \in 1..Len(values) : values'[n] = values[n]
      /\ values' # <<>>
  BY <1>1, <1>6, <1>7, AppendProperties
<1>9. \A n \in 1..N : n \in 1..Len(values) \/ n = N
  BY <1>7
<1>10. new.from = First /\ new.upTo = ValueEnd
  BY DEF new
<1>11. ValuesPlaced'
  <2>1. consumed' = IF values' = <<>> THEN 0 ELSE values'[Len(values')].upTo
    BY <1>1, <1>8, <1>10
  <2>2. ASSUME NEW n \in 1..Len(values)
        PROVE  values'[n].from \in 1..values'[n].upTo /\ values'[n].upTo <= consumed'
    BY <1>1, <1>3, <1>6, <1>7, <1>8
  <2>3. values'[N].from \in 1..values'[N].upTo /\ values'[N].upTo <= consumed'
    BY <1>1, <1>3, <1>6, <1>8, <1>10
  <2>4. QED
    BY <1>8, <1>9, <2>1, <2>2, <2>3 DEF ValuesPlaced
<1>12. ASSUME NEW n \in 1..Len(values)
       PROVE  HoldsValue(input, SpanOf(values', n), values'[n].from) /\ WithinAll(input, values'[n])
  <2>1. HoldsValue(input, SpanOf(values, n), values[n].from) /\ WithinAll(input, values[n])
    BY DEF Streaming, ValuesRead
  <2>2. SpanOf(values', n) = SpanOf(values, n)
    <3>1. n # 1 => n - 1 \in 1..Len(values)
      BY <1>7
    <3>2. QED
      BY <1>8, <3>1 DEF SpanOf
  <2>3. QED
    BY <1>8, <2>1, <2>2
<1>13. HoldsValue(input, SpanOf(values', N), values'[N].from) /\ WithinAll(input, values'[N])
  <2>1. (IF N = 1 THEN 0 ELSE values'[N - 1].upTo) = consumed
    <3>1. CASE values = <<>>
      BY <1>7, <3>1, EmptySeq
    <3>2. CASE values # <<>>
      <4>1. Len(values) # 0
        BY <1>7, <3>2, EmptySeq
      <4>2. N # 1 /\ N - 1 = Len(values) /\ Len(values) \in 1..Len(values)
        BY <1>7, <4>1
      <4>3. QED
        BY <1>7, <1>8, <3>2, <4>2
    <3>3. QED
      BY <3>1, <3>2
  <2>2. SpanOf(values', N) = consumed + 1..ValueEnd
    BY <1>8, <1>10, <2>1 DEF SpanOf
  <2>3. QED
    BY <1>4, <1>5, <1>8, <1>10, <2>2
<1>14. PastOne(input', consumed' + 1, At', err')
  BY <1>1, <1>2 DEF PastOne, NoErr
<1>15. QED
  BY <1>1, <1>8, <1>9, <1>11, <1>12, <1>13, <1>14 DEF ValuesRead

LEMMA ReturnValueStreaming == ASSUME IInv, Streaming, ReturnValue PROVE Streaming'
<1>1. pc' = "idle" /\ UNCHANGED <<lead, warnings, result>>
  BY DEF ReturnValue, Return
<1>2. CallTypes'
  BY <1>1 DEF Streaming, CallTypes
<1>3. QED
  BY <1>1, <1>2, ReturnPlaces, ReturnValues DEF Streaming, Reading, Outside

\* A value refused for a limit is past it on its own.
LEMMA RefusedPast ==
  ASSUME IInv, Streaming, ParseFails
  PROVE  PastOne(input, consumed + 1, At, result.kind)
<1>1. pc = "error" /\ call = "Decode"
  BY DEF ParseFails, IInv, CallsOK, BeforeValue, Outside
<1>2. ParsedAlone /\ Here /\ Scanned
  BY <1>1 DEF Streaming, Reading, Outside, Here
<1>3. /\ Skipped \in Nat /\ Consumed \in Nat /\ At \in Nat /\ consumed \in Nat
      /\ Skipped <= Consumed /\ Consumed <= At
      /\ \A i \in 1..Skipped : IsBlankSpace(Alone[i])
      /\ \A i \in Skipped + 1..At : Alone[i] = input[i]
      /\ Doc!Consumed = Consumed /\ Doc!At = At
      /\ Skipped <= consumed /\ consumed <= Skipped + 1
      /\ consumed = Skipped + 1 => input[consumed].k = "nl"
  BY <1>2, TextAlone
<1>4. consumed <= At
  BY <1>2, <1>3 DEF Scanned
<1>5. \A i \in 1..consumed + 1 - 1 : IsBlankSpace(Alone[i])
  <2>1. consumed = Skipped + 1 => IsBlankSpace(Alone[consumed])
    BY <1>3, <1>4 DEF IsBlankSpace
  <2>2. QED
    BY <1>3, <2>1
<1>6. PICK f \in Nat : f = consumed + 1
  BY <1>3
<1>7. f > Skipped /\ \A i \in 1..f - 1 : IsBlankSpace(Alone[i])
  BY <1>3, <1>5, <1>6
<1>8. /\ {i \in f..At : IsKey(input, i)} = {i \in 1..At : IsKey(Alone, i)}
      /\ {i \in f..At : IsValueStart(input, i)} = {i \in 1..At : IsValueStart(Alone, i)}
  BY <1>2, <1>3, <1>7, SameCounts
<1>9. KeysFrom(input, f, At) = Cardinality(Doc!KeyPlaces)
  BY <1>3, <1>8, SamePlaces DEF KeysFrom, Doc!KeyPlaces
<1>10. StartsFrom(input, f, At) >= Cardinality(Doc!Starts) /\ StartsFrom(input, f, At) \in Nat
       /\ Cardinality(Doc!Starts) \in Nat /\ Cardinality(Doc!KeyPlaces) \in Nat
  <2>1. PICK a \in Nat : a = At
    BY <1>3
  <2>2. PICK S : S = {i \in 1..At : IsValueStart(Alone, i)}
    OBVIOUS
  <2>3. PICK R : R = Doc!Starts
    OBVIOUS
  <2>4. PICK K : K = Doc!KeyPlaces
    OBVIOUS
  <2>5. R \subseteq S /\ S \subseteq 1..a /\ K \subseteq 1..a
    BY <1>3, <2>1, <2>2, <2>3, <2>4, SamePlaces DEF Doc!Starts, Doc!KeyPlaces
  <2>6. IsFiniteSet(S) /\ Cardinality(S) \in Nat /\ Cardinality(R) \in Nat /\ Cardinality(K) \in Nat
    <3>1. R \subseteq 1..a /\ 1 \in Int /\ a \in Int
      BY <2>1, <2>5
    <3>2. QED
      BY <2>5, <3>1, CountType
  <2>7. Cardinality(R) <= Cardinality(S)
    BY <2>5, <2>6, FS_Subset
  <2>8. StartsFrom(input, f, At) = Cardinality(S)
    BY <1>8, <2>2 DEF StartsFrom
  <2>9. QED
    BY <2>3, <2>4, <2>6, <2>7, <2>8
<1>11. Doc!PastLimit
  BY <1>2 DEF ParsedAlone, Doc!Measured
<1>12. /\ result.kind = "nodes" => StartsFrom(input, f, At) + KeysFrom(input, f, At) > MaxNodes
       /\ result.kind = "keys" => KeysFrom(input, f, At) > MaxKeys
  <2>1. /\ result.kind = "nodes" => Cardinality(Doc!Starts) + Cardinality(Doc!KeyPlaces) > MaxNodes
        /\ result.kind = "keys" => Cardinality(Doc!KeyPlaces) > MaxKeys
    BY <1>1, <1>11, SameCardinality DEF Doc!PastLimit
  <2>2. QED
    BY <1>9, <1>10, <2>1, OptionsAssumption
<1>13. ASSUME result.kind = "depth" PROVE Surplus(input, f, At) > MaxDepth
  <2>1. Doc!Deepest(At) /\ ~Doc!Deepest(At - 1)
    BY <1>1, <1>3, <1>11, <1>13 DEF Doc!PastLimit
  <2>2. PICK i \in 1..At : Depth(Alone, i) > MaxDepth
    BY <2>1, SamePlaces DEF Doc!Deepest
  <2>3. i \notin 1..At - 1
    BY <2>1, <2>2, SamePlaces DEF Doc!Deepest
  <2>4. i = At /\ At \in 0..At
    BY <1>3, <2>2, <2>3
  <2>5. f \in Nat \ {0} /\ \A j \in f..At : Alone[j] = input[j]
    BY <1>3, <1>6
  <2>6. Depth(Alone, At) = Surplus(input, f, At)
    BY <1>3, <1>7, <2>4, <2>5, DepthFrom
  <2>7. QED
    BY <2>2, <2>4, <2>6
<1>14. QED
  BY <1>6, <1>12, <1>13 DEF PastOne

LEMMA ParseFailsStreaming == ASSUME IInv, Streaming, ParseFails PROVE Streaming'
<1>1. /\ UNCHANGED <<input, have, stack, acc, consumed, values, lead, warnings, result>>
      /\ pc = "error" /\ pc' = "idle" /\ err' = result.kind
  BY DEF ParseFails, Return
<1>2. acc' \in Seq(Nat)
  BY <1>1 DEF Streaming, Scanned
<1>3. /\ Scanned' /\ ValuesPlaced' /\ Skipped' = Skipped /\ Consumed' = Consumed /\ At' = At
      /\ OpenAt(input', Skipped' + 1) = {}
  BY <1>1, <1>2, NothingRead
<1>4. err' # NoErr
  BY <1>1 DEF Streaming, CallTypes, NoErr
<1>5. BetweenValues'
  BY <1>3, <1>4 DEF BetweenValues
<1>6. ValuesRead'
  <2>1. PastOne(input', consumed' + 1, At', err')
    BY <1>1, <1>3, RefusedPast
  <2>2. QED
    BY <1>1, <1>2, <2>1, NothingRead
<1>7. CallTypes'
  BY <1>1 DEF Streaming, CallTypes
<1>8. QED
  BY <1>1, <1>3, <1>5, <1>6, <1>7 DEF Streaming, Reading, Outside

-----------------------------------------------------------------------------
LEMMA InitStreaming == ASSUME Init PROVE Streaming
<1>1. /\ input = <<>> /\ have = FALSE /\ stack = <<>> /\ acc = <<>> /\ lead = <<>> /\ warnings = <<>>
      /\ values = <<>> /\ consumed = 0 /\ err = NoErr /\ pc = "idle" /\ result = [kind |-> "none", at |-> 0]
  BY DEF Init
<1>2. At = 0 /\ Len(values) = 0 /\ 1..0 = {} /\ Skipped = 0 /\ Consumed = 0 /\ 0 + 1..0 = {}
  BY <1>1, EmptySeq DEF At, Skipped, Consumed
<1>3. Scanned
  <2>1. input \in Seq(Alphabet) /\ acc \in Seq(Nat)
    BY <1>1, EmptySeq
  <2>2. consumed \in 0..At /\ Skipped \in 0..Consumed
    BY <1>1, <1>2
  <2>3. QED
    BY <1>1, <2>1, <2>2 DEF Scanned
<1>4. BetweenValues
  <2>1. OpenAt(input, 0 + 1) = {}
    BY OpenFirst
  <2>2. QED
    BY <1>1, <1>2, <2>1 DEF BetweenValues
<1>5. ValuesPlaced
  BY <1>1, <1>2 DEF ValuesPlaced
<1>6. ValuesRead
  BY <1>1, <1>2 DEF ValuesRead, PastOne, NoErr
<1>7. CallTypes
  BY <1>1 DEF CallTypes, Text, Outcome
<1>8. QED
  BY <1>1, <1>3, <1>4, <1>5, <1>6, <1>7 DEF Streaming, Reading, Outside

LEMMA NextStreaming == ASSUME IInv, Streaming, [Next]_vars PROVE Streaming'
BY ParseValueStreaming, OutsideStreaming, BeginStreaming, BeginValueStreaming, ReturnValueStreaming,
   ParseFailsStreaming, StutterStreaming DEF Next, Run

LEMMA AlwaysStreaming == Spec => []Streaming
<1>1. IInv /\ Streaming /\ [Next]_vars => Streaming'
  BY NextStreaming
<1>2. QED
  BY <1>1, InitStreaming, Inductive, PTL DEF Spec

LEMMA SlicesFollow == ASSUME Streaming PROVE SliceHoldsOneValue
<1> SUFFICES ASSUME NEW n \in DOMAIN values
             PROVE  LET tokens == Significant(ValueSpan(n))
                        first == Min(tokens)
                        last == Max(tokens)
                    IN  /\ tokens # {} /\ first = values[n].from
                        /\ StartsValue(input[first])
                        /\ IF Opens(input[first])
                           THEN Closes(input[last]) /\ OpenerOf(input, last) = first
                           ELSE tokens = {first}
  BY DEF SliceHoldsOneValue
<1> DEFINE S == Significant(ValueSpan(n))
           f == values[n].from
<1>1. n \in 1..Len(values)
  BY DEF Streaming, ValuesPlaced
<1>2. S = {i \in SpanOf(values, n) : ~IsBlankSpace(input[i])}
  BY DEF Significant, ValueSpan, SpanOf
<1>3. /\ f \in S /\ \A i \in S : f <= i
      /\ StartsValue(input[f])
      /\ IF Opens(input[f])
         THEN \E l \in S : (\A i \in S : i <= l) /\ Closes(input[l]) /\ OpenerOf(input, l) = f
         ELSE S = {f}
  BY <1>1, <1>2 DEF Streaming, ValuesRead, HoldsValue
<1>4. S \subseteq Int
  <2>1. values[n].upTo \in Nat /\ (n # 1 => values[n - 1].upTo \in Nat)
    <3>1. \A m \in 1..Len(values) : values[m].upTo \in Nat
      BY ValueTypes DEF Streaming
    <3>2. n # 1 => n - 1 \in 1..Len(values)
      BY <1>1, ValueTypes DEF Streaming
    <3>3. QED
      BY <1>1, <3>1, <3>2
  <2>2. QED
    BY <1>2, <2>1 DEF SpanOf
<1> HIDE DEF S, f
<1>5. Min(S) = f
  <2>1. \A z \in S : (\A y \in S : z <= y) => z = f
    BY <1>3, <1>4
  <2>2. QED
    BY <1>3, <2>1, Zenon DEF Min
<1>6. ASSUME NEW l \in S, \A i \in S : i <= l PROVE Max(S) = l
  <2>1. \A y \in S : l >= y
    BY <1>4, <1>6
  <2>2. \A z \in S : (\A y \in S : z >= y) => z = l
    BY <1>4, <1>6
  <2>3. QED
    BY <2>1, <2>2, Zenon DEF Max
<1>7. S # {} /\ Min(S) = f /\ StartsValue(input[Min(S)])
      /\ IF Opens(input[Min(S)])
         THEN Closes(input[Max(S)]) /\ OpenerOf(input, Max(S)) = Min(S)
         ELSE S = {Min(S)}
  BY <1>3, <1>5, <1>6
<1>8. QED
  BY <1>7 DEF S, f

LEMMA LimitsFollow == ASSUME Streaming PROVE LimitsPerValue
<1>1. DOMAIN values = 1..Len(values)
  BY DEF Streaming, ValuesPlaced
<1>2. \A n \in DOMAIN values : WithinAll(input, values[n])
  BY <1>1 DEF Streaming, ValuesRead
<1>3. PastOne(input, consumed + 1, At, err)
  BY DEF Streaming, ValuesRead
<1>4. QED
  BY <1>2, <1>3 DEF LimitsPerValue, WithinAll, PastOne, ValuesIn, KeysIn, StartsFrom, KeysFrom

\* The input between two successive values of InputOffset is one value with
\* comments and blank space around it, closed where it was opened, whatever
\* calls of More come between and however far the scanner has looked ahead.
THEOREM OneValuePerSlice == Spec => []SliceHoldsOneValue
<1>1. Streaming => SliceHoldsOneValue
  BY SlicesFollow
<1>2. QED
  BY <1>1, AlwaysStreaming, PTL

\* A value returned is within the limits on its own, whatever the stream held
\* before it, and a value refused for a limit is past it on its own.
THEOREM LimitsAreOfOneValue == Spec => []LimitsPerValue
<1>1. Streaming => LimitsPerValue
  BY LimitsFollow
<1>2. QED
  BY <1>1, AlwaysStreaming, PTL

LEMMA ReadingStep ==
  ASSUME IInv, Streaming, [Next]_vars, Reading, Reading'
  PROVE  [Doc!Next]_Doc!vars
<1>1. Here
  BY DEF Streaming, Reading
<1>2. pc \notin Outside /\ pc' \notin Outside
  BY DEF Reading
<1>3. ~LoadFails /\ ~Load /\ ~Sticky /\ ~Begin /\ ~MoreAnswers /\ ~DecodeEOF /\ ~ReturnValue
      /\ ~ParseFails /\ ~\E method \in {"Decode", "More"} : Call(method)
  BY <1>2 DEF LoadFails, Load, Sticky, Begin, MoreAnswers, DecodeEOF, ReturnValue, ParseFails, Call,
     Return, Outside, IInv, CallsOK
<1>4. QED
  BY <1>1, <1>3, StepAlone DEF Next, Run

\* A Decode that reads takes only steps of parse, on the text of its value
\* alone: Decoder implements Document for each of its values.
THEOREM DecodeIsParse == Spec => [][Reading /\ Reading' => [Doc!Next]_Doc!vars]_vars
<1>1. IInv /\ Streaming /\ [Next]_vars => [Reading /\ Reading' => [Doc!Next]_Doc!vars]_vars
  BY ReadingStep
<1>2. QED
  BY <1>1, Inductive, AlwaysStreaming, PTL DEF Spec

\* So what a Decode consumes may begin a text of the language, and it refuses
\* its value only at a token no text may have there.
THEOREM DecodeReadsTheLanguage == Spec => [](Reading => Doc!LanguageExact)
<1>1. Streaming => (Reading => Doc!LanguageExact)
  BY DEF Streaming, ParsedAlone, Doc!Parsing
<1>2. QED
  BY <1>1, AlwaysStreaming, PTL
=============================================================================
