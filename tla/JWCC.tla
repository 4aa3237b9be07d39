-------------------------------- MODULE JWCC --------------------------------
(***************************************************************************)
(* The language of JSON with comments and trailing commas, stated without  *)
(* a parser: which token may stand at place i of a text, given only the     *)
(* significant token before it and the container around it.  The parser is  *)
(* checked against these definitions; they are not translated from it.      *)
(***************************************************************************)
EXTENDS Integers, Sequences, FiniteSets, FiniteSetsExt

IsComment(t) == t.k \in {"line", "block"}
IsBlankSpace(t) == IsComment(t) \/ t.k = "nl"
Opens(t) == t.k \in {"{", "["}
Closes(t) == t.k \in {"}", "]"}
StartsValue(t) == Opens(t) \/ t.k \in {"str", "scalar"}

Largest(S) == IF S = {} THEN 0 ELSE Max(S)

\* The significant token before place i, and the first one at or after it; 0 when there is none.
Before(s, i) == Largest({j \in 1..i - 1 : ~IsBlankSpace(s[j])})
After(s, i) == LET J == {j \in i..Len(s) : ~IsBlankSpace(s[j])} IN IF J = {} THEN 0 ELSE Min(J)

Surplus(s, i, j) ==
  Cardinality({k \in i..j : Opens(s[k])}) - Cardinality({k \in i..j : Closes(s[k])})

\* The opening delimiter of the innermost container open at place i, or 0.
Around(s, i) ==
  Largest({j \in 1..i - 1 : Opens(s[j]) /\ \A k \in j..i - 1 : Surplus(s, j, k) > 0})
\* The opening delimiter that the closing one at place i ends.
OpenerOf(s, i) == Around(s, i)

Within(s, i, delimiter) == Around(s, i) # 0 /\ s[Around(s, i)].k = delimiter

IsKey(s, i) ==
  /\ s[i].k = "str"
  /\ Within(s, i, "{")
  /\ Before(s, i) # 0 /\ s[Before(s, i)].k \in {"{", ","}
IsValueStart(s, i) == StartsValue(s[i]) /\ ~IsKey(s, i)
EndsValue(s, i) == Closes(s[i]) \/ s[i].k = "scalar" \/ (s[i].k = "str" /\ ~IsKey(s, i))

\* Where a value may start: first of all, after ':', in an array after '[' or ','.
ValuePlace(s, i, p) ==
  \/ p = 0
  \/ s[p].k \in {":", "["}
  \/ s[p].k = "," /\ Within(s, i, "[")

Allowed(s, i, strict) ==
  LET p == Before(s, i)
      t == s[i]
      ended == p # 0 /\ EndsValue(s, p)
      closes(open, close) ==
        /\ t.k = close /\ Within(s, i, open)
        /\ \/ ended
           \/ s[p].k = open
           \/ s[p].k = "," /\ ~strict
  IN  \/ IsBlankSpace(t)
      \/ StartsValue(t) /\ ValuePlace(s, i, p)
      \/ IsKey(s, i)
      \/ t.k = ":" /\ p # 0 /\ IsKey(s, p)
      \/ t.k = "," /\ ended /\ Around(s, i) # 0
      \/ closes("{", "}") \/ closes("[", "]")
      \/ t.k = "eof" /\ ended /\ Around(s, i) = 0

\* The first n tokens of s begin some text of the language.
Viable(s, n, strict) == \A i \in 1..n : Allowed(s, i, strict)

\* The token a child of a container is known by: the key of a member, the first token of an element.
ChildOf(s, i) ==
  IF Within(s, i, "{") THEN Largest({j \in 1..i : IsKey(s, j) /\ Around(s, j) = Around(s, i)}) ELSE i
\* The first token of the value that ends at i.
StartOf(s, i) == IF Closes(s[i]) THEN OpenerOf(s, i) ELSE i

Depth(s, i) == Surplus(s, 1, i)
=============================================================================
