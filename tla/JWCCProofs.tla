------------------------------ MODULE JWCCProofs ------------------------------
(***************************************************************************)
(* What the definitions of JWCC give when a text grows by one token: the    *)
(* last significant token, the surplus of opening delimiters and the        *)
(* containers still open.  Nests states the latter as a stack would.        *)
(*                                                                         *)
(* Induction over the naturals is stated with sets instead of predicates,   *)
(* so that the first-order provers can use it.                              *)
(***************************************************************************)
EXTENDS JWCC, TLAPS, FiniteSetTheorems, WellFoundedInduction

-----------------------------------------------------------------------------
(* Induction. *)

\* A set of naturals with 0 and the successor of each of its members is all of them.
LEMMA SetInduction ==
  ASSUME NEW T, 0 \in T, \A n \in Nat : n \in T => n + 1 \in T
  PROVE  \A n \in Nat : n \in T
<1> DEFINE U == Nat \ T
           R == OpToRel(<, Nat)
<1> SUFFICES ASSUME U # {} PROVE FALSE
  OBVIOUS
<1>1. IsWellFoundedOn(R, Nat)
  BY NatLessThanWellFounded
<1>2. \A a, b \in Nat : a < b => <<a, b>> \in R
  BY DEF OpToRel
<1> HIDE DEF R
<1>3. PICK x \in U : \A y \in U : <<y, x>> \notin R
  BY <1>1, WFMin
<1>4. x # 0 /\ x - 1 \in Nat
  BY <1>3
<1>5. x - 1 \notin U
  <2>1. x \in Nat /\ x - 1 < x
    BY <1>3, <1>4
  <2>2. <<x - 1, x>> \in R
    BY <1>2, <1>4, <2>1
  <2>3. QED
    BY <1>3, <2>2
<1>6. QED
  BY <1>3, <1>4, <1>5

-----------------------------------------------------------------------------
(* The largest of a set. *)

LEMMA LargestEmpty == Largest({}) = 0
BY DEF Largest

LEMMA LargestIs ==
  ASSUME NEW S, NEW x \in S, S \subseteq Nat, \A y \in S : y <= x
  PROVE  Largest(S) = x
<1>1. \A y \in S : x >= y
  OBVIOUS
<1>2. \A z \in S : (\A y \in S : z >= y) => z = x
  <2>1. \A z \in S : z >= x /\ x >= z => z = x
    OBVIOUS
  <2>2. QED
    BY <1>1, <2>1
<1>3. (CHOOSE z \in S : \A y \in S : z >= y) = x
  BY <1>1, <1>2, Zenon
<1>4. QED
  BY <1>3 DEF Largest, Max

LEMMA LargestExists ==
  ASSUME NEW n \in Nat, NEW S, S \subseteq 1..n, S # {}
  PROVE  \E x \in S : \A y \in S : y <= x
<1> DEFINE HasLargest(R) == \E x \in R : \A y \in R : y <= x
           T == {m \in Nat : \A R \in SUBSET (1..m) : R # {} => HasLargest(R)}
<1>1. 0 \in T
  <2>1. 1..0 = {}
    OBVIOUS
  <2>2. QED
    BY <2>1
<1>2. ASSUME NEW m \in Nat, m \in T PROVE m + 1 \in T
  <2> SUFFICES ASSUME NEW R \in SUBSET (1..m + 1), R # {} PROVE HasLargest(R)
    OBVIOUS
  <2>1. CASE m + 1 \in R
    BY <2>1
  <2>2. CASE m + 1 \notin R
    <3>1. R \in SUBSET (1..m)
      BY <2>2
    <3>2. QED
      BY <1>2, <3>1
  <2>3. QED
    BY <2>1, <2>2
<1> HIDE DEF T
<1>3. n \in T
  BY <1>1, <1>2, SetInduction
<1>4. QED
  BY <1>3 DEF T

LEMMA LargestType ==
  ASSUME NEW n \in Nat, NEW S, S \subseteq 1..n
  PROVE  Largest(S) \in S \cup {0} /\ (Largest(S) = 0 <=> S = {})
<1>1. CASE S = {}
  BY <1>1, LargestEmpty
<1>2. CASE S # {}
  <2>1. PICK x \in S : \A y \in S : y <= x
    BY <1>2, LargestExists
  <2>2. S \subseteq Nat
    OBVIOUS
  <2>4. Largest(S) = x
    BY <2>1, <2>2, LargestIs
  <2>3. QED
    BY <1>2, <2>1, <2>4
<1>3. QED
  BY <1>1, <1>2

-----------------------------------------------------------------------------
(* The last significant token. *)

LEMMA BeforeFirst == ASSUME NEW s PROVE Before(s, 1) = 0
<1>1. {j \in 1..1 - 1 : ~IsBlankSpace(s[j])} = {}
  OBVIOUS
<1>2. QED
  BY <1>1, LargestEmpty DEF Before

LEMMA BeforeType ==
  ASSUME NEW s, NEW i \in Nat \ {0}
  PROVE  /\ Before(s, i) \in 0..i - 1
         /\ Before(s, i) # 0 => Before(s, i) \in 1..i - 1 /\ ~IsBlankSpace(s[Before(s, i)])
<1> DEFINE S == {j \in 1..i - 1 : ~IsBlankSpace(s[j])}
<1>1. Largest(S) \in S \cup {0}
  BY LargestType
<1>2. QED
  BY <1>1 DEF Before

LEMMA BeforeNext ==
  ASSUME NEW s, NEW i \in Nat \ {0}
  PROVE  Before(s, i + 1) = IF IsBlankSpace(s[i]) THEN Before(s, i) ELSE i
<1> DEFINE S == {j \in 1..i + 1 - 1 : ~IsBlankSpace(s[j])}
<1>1. CASE IsBlankSpace(s[i])
  <2>1. S = {j \in 1..i - 1 : ~IsBlankSpace(s[j])}
    BY <1>1
  <2>2. QED
    BY <1>1, <2>1 DEF Before
<1>2. CASE ~IsBlankSpace(s[i])
  <2>1. i \in S /\ S \subseteq Nat /\ \A y \in S : y <= i
    BY <1>2
  <2> HIDE DEF S
  <2>2. Largest(S) = i
    BY <2>1, LargestIs
  <2>3. QED
    BY <1>2, <2>2 DEF Before, S
<1>3. QED
  BY <1>1, <1>2

-----------------------------------------------------------------------------
(* The surplus of opening delimiters. *)

Step(t) == IF Opens(t) THEN 1 ELSE IF Closes(t) THEN -1 ELSE 0

LEMMA CountType ==
  ASSUME NEW i \in Int, NEW j \in Int, NEW S, S \subseteq i..j
  PROVE  IsFiniteSet(S) /\ Cardinality(S) \in Nat
BY FS_Interval, FS_Subset, FS_CardinalityType

LEMMA SurplusType ==
  ASSUME NEW s, NEW i \in Int, NEW j \in Int
  PROVE  Surplus(s, i, j) \in Int
<1>1. /\ Cardinality({k \in i..j : Opens(s[k])}) \in Nat
      /\ Cardinality({k \in i..j : Closes(s[k])}) \in Nat
  BY CountType
<1>2. QED
  BY <1>1 DEF Surplus

LEMMA SurplusEmpty ==
  ASSUME NEW s, NEW i \in Int, NEW j \in Int, j < i
  PROVE  Surplus(s, i, j) = 0
<1>1. {k \in i..j : Opens(s[k])} = {} /\ {k \in i..j : Closes(s[k])} = {}
  OBVIOUS
<1>2. Cardinality({}) = 0
  BY FS_EmptySet
<1>3. Surplus(s, i, j) = Cardinality({}) - Cardinality({})
  BY <1>1 DEF Surplus
<1>4. QED
  BY <1>2, <1>3

LEMMA SurplusNext ==
  ASSUME NEW s, NEW i \in Int, NEW j \in Int, i <= j
  PROVE  Surplus(s, i, j) = Surplus(s, i, j - 1) + Step(s[j])
<1> DEFINE O == {k \in i..j - 1 : Opens(s[k])}
           C == {k \in i..j - 1 : Closes(s[k])}
           o == {k \in i..j : Opens(s[k])}
           c == {k \in i..j : Closes(s[k])}
<1>1. IsFiniteSet(O) /\ IsFiniteSet(C) /\ Cardinality(O) \in Nat /\ Cardinality(C) \in Nat
  BY CountType
<1>2. j \notin O /\ j \notin C
  OBVIOUS
<1>3. ~(Opens(s[j]) /\ Closes(s[j]))
  BY DEF Opens, Closes
<1>4. /\ o = IF Opens(s[j]) THEN O \cup {j} ELSE O
      /\ c = IF Closes(s[j]) THEN C \cup {j} ELSE C
  OBVIOUS
<1>7. /\ Surplus(s, i, j) = Cardinality(o) - Cardinality(c)
      /\ Surplus(s, i, j - 1) = Cardinality(O) - Cardinality(C)
  BY DEF Surplus
<1> HIDE DEF O, C, o, c
<1>5. /\ Cardinality(o) = Cardinality(O) + IF Opens(s[j]) THEN 1 ELSE 0
      /\ Cardinality(c) = Cardinality(C) + IF Closes(s[j]) THEN 1 ELSE 0
  <2>1. /\ Cardinality(O \cup {j}) = Cardinality(O) + 1
        /\ Cardinality(C \cup {j}) = Cardinality(C) + 1
    BY <1>1, <1>2, FS_AddElement
  <2>2. QED
    BY <1>1, <1>4, <2>1
<1>6. QED
  BY <1>1, <1>3, <1>5, <1>7 DEF Step

-----------------------------------------------------------------------------
(* The containers open at a place. *)

OpenAt(s, i) == {j \in 1..i - 1 : Opens(s[j]) /\ \A k \in j..i - 1 : Surplus(s, j, k) > 0}

LEMMA OpenNext ==
  ASSUME NEW s, NEW i \in Nat \ {0}, NEW j
  PROVE  j \in OpenAt(s, i + 1) <=>
           /\ j \in OpenAt(s, i) \/ (j = i /\ Opens(s[i]))
           /\ Surplus(s, j, i) > 0
<1>1. ASSUME j \in 1..i
      PROVE  (\A k \in j..i : Surplus(s, j, k) > 0)
               <=> (\A k \in j..i - 1 : Surplus(s, j, k) > 0) /\ Surplus(s, j, i) > 0
  <2>1. \A k \in j..i : k \in j..i - 1 \/ k = i
    BY <1>1
  <2>2. i \in j..i /\ j..i - 1 \subseteq j..i
    BY <1>1
  <2>3. QED
    BY <2>1, <2>2
<1>2. j \in OpenAt(s, i + 1) <=> j \in 1..i /\ Opens(s[j]) /\ \A k \in j..i : Surplus(s, j, k) > 0
  BY DEF OpenAt
<1>3. j \in OpenAt(s, i) <=>
        j \in 1..i - 1 /\ Opens(s[j]) /\ \A k \in j..i - 1 : Surplus(s, j, k) > 0
  BY DEF OpenAt
<1>4. \A k \in i..i - 1 : FALSE
  OBVIOUS
<1>5. j \in 1..i <=> j \in 1..i - 1 \/ j = i
  OBVIOUS
<1>6. QED
  BY <1>1, <1>2, <1>3, <1>4, <1>5

LEMMA OpenFirst == ASSUME NEW s PROVE OpenAt(s, 1) = {}
BY DEF OpenAt

\* P[1], ..., P[n] are the opening delimiters of the containers open after
\* the first c tokens, from the outermost to the innermost.
Nests(s, c, n, P) ==
  /\ OpenAt(s, c + 1) = {P[m] : m \in 1..n}
  /\ \A m \in 1..n : Surplus(s, P[m], c) = n - m + 1
  /\ \A l, m \in 1..n : l < m => P[l] < P[m]

LEMMA NestsPlaces ==
  ASSUME NEW s, NEW c \in Nat, NEW n \in Nat, NEW P, Nests(s, c, n, P)
  PROVE  \A m \in 1..n : P[m] \in 1..c /\ Opens(s[P[m]])
BY DEF Nests, OpenAt

LEMMA NestsFirst == ASSUME NEW s, NEW P PROVE Nests(s, 0, 0, P)
<1>1. OpenAt(s, 0 + 1) = {}
  BY OpenFirst
<1>2. QED
  BY <1>1 DEF Nests

LEMMA NestsSame ==
  ASSUME NEW s, NEW c \in Nat, NEW n \in Nat, NEW P, Nests(s, c, n, P),
         NEW Q, \A m \in 1..n : Q[m] = P[m]
  PROVE  Nests(s, c, n, Q)
<1>1. {Q[m] : m \in 1..n} = {P[m] : m \in 1..n}
  OBVIOUS
<1>2. QED
  BY <1>1 DEF Nests

LEMMA NestsAround ==
  ASSUME NEW s, NEW c \in Nat, NEW n \in Nat, NEW P, Nests(s, c, n, P)
  PROVE  Around(s, c + 1) = IF n = 0 THEN 0 ELSE P[n]
<1>1. Around(s, c + 1) = Largest(OpenAt(s, c + 1))
  BY DEF Around, OpenAt
<1>2. CASE n = 0
  <2>1. OpenAt(s, c + 1) = {}
    BY <1>2 DEF Nests
  <2>2. QED
    BY <1>1, <1>2, <2>1, LargestEmpty
<1>3. CASE n # 0
  <2> DEFINE S == OpenAt(s, c + 1)
  <2>1. S = {P[m] : m \in 1..n} /\ n \in 1..n
    BY <1>3 DEF Nests
  <2>2. \A m \in 1..n : P[m] \in Nat
    BY NestsPlaces
  <2>3. \A m \in 1..n : P[m] <= P[n]
    <3>1. \A m \in 1..n : m < n \/ m = n
      OBVIOUS
    <3>2. QED
      BY <2>1, <2>2, <3>1 DEF Nests
  <2> HIDE DEF S
  <2>4. P[n] \in S /\ S \subseteq Nat /\ \A y \in S : y <= P[n]
    BY <2>1, <2>2, <2>3
  <2>5. Largest(S) = P[n]
    BY <2>4, LargestIs
  <2>6. QED
    BY <1>1, <1>3, <2>5 DEF S
<1>4. QED
  BY <1>2, <1>3

LEMMA NestsSurplus ==
  ASSUME NEW s, NEW c \in Nat, NEW n \in Nat, NEW P, Nests(s, c, n, P), NEW m \in 1..n
  PROVE  Surplus(s, P[m], c + 1) = n - m + 1 + Step(s[c + 1])
<1>1. P[m] \in 1..c /\ Surplus(s, P[m], c) = n - m + 1
  BY NestsPlaces DEF Nests
<1>2. Surplus(s, P[m], c + 1) = Surplus(s, P[m], c + 1 - 1) + Step(s[c + 1])
  BY <1>1, SurplusNext
<1>3. QED
  BY <1>1, <1>2

\* The next token is no delimiter.
LEMMA NestsKept ==
  ASSUME NEW s, NEW c \in Nat, NEW n \in Nat, NEW P, Nests(s, c, n, P),
         ~Opens(s[c + 1]), ~Closes(s[c + 1])
  PROVE  Nests(s, c + 1, n, P)
<1>1. Step(s[c + 1]) = 0
  BY DEF Step
<1>2. \A m \in 1..n : Surplus(s, P[m], c + 1) = n - m + 1
  BY <1>1, NestsSurplus
<1>3. \A j : j \in OpenAt(s, c + 1 + 1) <=> j \in OpenAt(s, c + 1) /\ Surplus(s, j, c + 1) > 0
  BY OpenNext
<1>4. \A j \in OpenAt(s, c + 1) : Surplus(s, j, c + 1) > 0
  <2>1. \A m \in 1..n : n - m + 1 > 0
    OBVIOUS
  <2>2. QED
    BY <1>2, <2>1 DEF Nests
<1>5. OpenAt(s, c + 1 + 1) = OpenAt(s, c + 1)
  BY <1>3, <1>4
<1>6. QED
  BY <1>2, <1>5 DEF Nests

\* The next token opens a container.
LEMMA NestsOpened ==
  ASSUME NEW s, NEW c \in Nat, NEW n \in Nat, NEW P, Nests(s, c, n, P), Opens(s[c + 1]),
         NEW Q, \A m \in 1..n : Q[m] = P[m], Q[n + 1] = c + 1
  PROVE  Nests(s, c + 1, n + 1, Q)
<1>1. Step(s[c + 1]) = 1
  BY DEF Step
<1>2. \A m \in 1..n + 1 : m \in 1..n \/ m = n + 1
  OBVIOUS
<1>3. \A m \in 1..n + 1 : Surplus(s, Q[m], c + 1) = n + 1 - m + 1
  <2>1. ASSUME NEW m \in 1..n PROVE Surplus(s, P[m], c + 1) = n + 1 - m + 1
    BY <1>1, NestsSurplus
  <2>2. Surplus(s, c + 1, c + 1) = 1
    <3>1. Surplus(s, c + 1, c + 1) = Surplus(s, c + 1, c + 1 - 1) + Step(s[c + 1])
      BY SurplusNext
    <3>2. Surplus(s, c + 1, c + 1 - 1) = 0
      BY SurplusEmpty
    <3>3. QED
      BY <1>1, <3>1, <3>2
  <2>3. QED
    BY <1>2, <2>1, <2>2
<1>4. \A l, m \in 1..n + 1 : l < m => Q[l] < Q[m]
  <2>1. \A m \in 1..n : P[m] < c + 1
    BY NestsPlaces
  <2>2. QED
    BY <1>2, <2>1 DEF Nests
<1>5. \A j : j \in OpenAt(s, c + 1 + 1) <=>
              (j \in OpenAt(s, c + 1) \/ j = c + 1) /\ Surplus(s, j, c + 1) > 0
  BY OpenNext
<1>6. \A m \in 1..n + 1 : n + 1 - m + 1 > 0
  OBVIOUS
<1>7. OpenAt(s, c + 1) = {P[m] : m \in 1..n}
  BY DEF Nests
<1>8. \A j : j \in OpenAt(s, c + 1 + 1) <=> \E m \in 1..n + 1 : j = Q[m]
  <2>1. \A m \in 1..n + 1 : Surplus(s, Q[m], c + 1) > 0
    BY <1>3, <1>6
  <2>2. ASSUME NEW j PROVE (j \in OpenAt(s, c + 1) \/ j = c + 1) <=> \E m \in 1..n + 1 : j = Q[m]
    <3>1. 1..n \subseteq 1..n + 1 /\ n + 1 \in 1..n + 1
      OBVIOUS
    <3>2. QED
      BY <1>2, <1>7, <3>1
  <2>3. QED
    BY <1>5, <2>1, <2>2
<1>9. OpenAt(s, c + 1 + 1) = {Q[m] : m \in 1..n + 1}
  BY <1>8
<1>10. QED
  BY <1>3, <1>4, <1>9 DEF Nests

\* The next token closes the innermost container.
LEMMA NestsClosed ==
  ASSUME NEW s, NEW c \in Nat, NEW n \in Nat \ {0}, NEW P, Nests(s, c, n, P), Closes(s[c + 1])
  PROVE  Nests(s, c + 1, n - 1, P)
<1>1. Step(s[c + 1]) = -1 /\ ~Opens(s[c + 1])
  BY DEF Step, Opens, Closes
<1>2. \A m \in 1..n : Surplus(s, P[m], c + 1) = n - m
  BY <1>1, NestsSurplus
<1>3. \A m \in 1..n : n - m > 0 <=> m \in 1..n - 1
  OBVIOUS
<1>4. OpenAt(s, c + 1) = {P[m] : m \in 1..n}
  BY DEF Nests
<1>5. \A j : j \in OpenAt(s, c + 1 + 1) <=> j \in OpenAt(s, c + 1) /\ Surplus(s, j, c + 1) > 0
  BY <1>1, OpenNext
<1>6. 1..n - 1 \subseteq 1..n /\ \A m \in 1..n - 1 : n - 1 - m + 1 = n - m
  OBVIOUS
<1>7. \A j : j \in OpenAt(s, c + 1 + 1) <=> \E m \in 1..n - 1 : j = P[m]
  BY <1>2, <1>3, <1>4, <1>5, <1>6
<1>8. OpenAt(s, c + 1 + 1) = {P[m] : m \in 1..n - 1}
  BY <1>7
<1>9. \A m \in 1..n - 1 : Surplus(s, P[m], c + 1) = n - 1 - m + 1
  BY <1>2, <1>6
<1>10. QED
  BY <1>6, <1>8, <1>9 DEF Nests

-----------------------------------------------------------------------------
(* Two texts with the same first tokens. *)

Agree(s, r, n) == \A i \in 1..n : r[i] = s[i]

LEMMA AgreeSurplus ==
  ASSUME NEW s, NEW r, NEW n \in Nat, Agree(s, r, n),
         NEW i \in Nat \ {0}, NEW j \in Nat, j <= n
  PROVE  Surplus(r, i, j) = Surplus(s, i, j)
<1>1. \A k \in i..j : r[k] = s[k]
  BY DEF Agree
<1>2. /\ {k \in i..j : Opens(r[k])} = {k \in i..j : Opens(s[k])}
      /\ {k \in i..j : Closes(r[k])} = {k \in i..j : Closes(s[k])}
  BY <1>1
<1>3. QED
  BY <1>2 DEF Surplus

LEMMA AgreeBefore ==
  ASSUME NEW s, NEW r, NEW n \in Nat, Agree(s, r, n), NEW i \in 1..n + 1
  PROVE  Before(r, i) = Before(s, i)
<1>1. \A j \in 1..i - 1 : r[j] = s[j]
  BY DEF Agree
<1>2. {j \in 1..i - 1 : ~IsBlankSpace(r[j])} = {j \in 1..i - 1 : ~IsBlankSpace(s[j])}
  BY <1>1
<1>3. QED
  BY <1>2 DEF Before

LEMMA AgreeOpen ==
  ASSUME NEW s, NEW r, NEW n \in Nat, Agree(s, r, n), NEW i \in 1..n + 1
  PROVE  OpenAt(r, i) = OpenAt(s, i)
<1>1. \A j \in 1..i - 1 : r[j] = s[j]
  BY DEF Agree
<1>2. \A j \in 1..i - 1 : \A k \in j..i - 1 : Surplus(r, j, k) = Surplus(s, j, k)
  BY AgreeSurplus
<1>3. QED
  BY <1>1, <1>2 DEF OpenAt

LEMMA AgreeAround ==
  ASSUME NEW s, NEW r, NEW n \in Nat, Agree(s, r, n), NEW i \in 1..n + 1
  PROVE  Around(r, i) = Around(s, i)
<1>1. OpenAt(r, i) = OpenAt(s, i)
  BY AgreeOpen
<1>2. Around(r, i) = Largest(OpenAt(r, i)) /\ Around(s, i) = Largest(OpenAt(s, i))
  BY DEF Around, OpenAt
<1>3. QED
  BY <1>1, <1>2

LEMMA AroundType ==
  ASSUME NEW s, NEW i \in Nat \ {0}
  PROVE  Around(s, i) \in 0..i - 1 /\ (Around(s, i) # 0 => Opens(s[Around(s, i)]))
<1>1. Around(s, i) = Largest(OpenAt(s, i)) /\ OpenAt(s, i) \subseteq 1..i - 1
  BY DEF Around, OpenAt
<1>2. Largest(OpenAt(s, i)) \in OpenAt(s, i) \cup {0}
  BY <1>1, LargestType
<1>3. \A j \in OpenAt(s, i) : Opens(s[j])
  BY DEF OpenAt
<1>4. QED
  BY <1>1, <1>2, <1>3

\* A container is open after its opening delimiter at the earliest.
LEMMA AroundBefore ==
  ASSUME NEW s, NEW i \in Nat \ {0}, Before(s, i) = 0
  PROVE  Around(s, i) = 0
<1> DEFINE S == {j \in 1..i - 1 : ~IsBlankSpace(s[j])}
<1>1. S = {}
  <2>1. Largest(S) = 0
    BY DEF Before
  <2>2. S \subseteq 1..i - 1 /\ i - 1 \in Nat
    OBVIOUS
  <2> HIDE DEF S
  <2>3. QED
    BY <2>1, <2>2, LargestType
<1>2. Around(s, i) # 0 => Around(s, i) \in 1..i - 1 /\ Opens(s[Around(s, i)])
  BY AroundType
<1>3. \A t : Opens(t) => ~IsBlankSpace(t)
  BY DEF Opens, IsBlankSpace, IsComment
<1>4. QED
  BY <1>1, <1>2, <1>3

LEMMA AgreeWithin ==
  ASSUME NEW s, NEW r, NEW n \in Nat, Agree(s, r, n), NEW i \in 1..n + 1, NEW d
  PROVE  Within(r, i, d) <=> Within(s, i, d)
<1>1. Around(r, i) = Around(s, i)
  BY AgreeAround
<1>2. Around(s, i) # 0 => Around(s, i) \in 1..n
  BY AroundType
<1>3. QED
  BY <1>1, <1>2 DEF Within, Agree

LEMMA AgreeKey ==
  ASSUME NEW s, NEW r, NEW n \in Nat, Agree(s, r, n), NEW i \in 1..n
  PROVE  IsKey(r, i) <=> IsKey(s, i)
<1>1. Before(r, i) = Before(s, i) /\ r[i] = s[i]
  BY AgreeBefore DEF Agree
<1>2. Before(s, i) # 0 => r[Before(s, i)] = s[Before(s, i)]
  BY BeforeType DEF Agree
<1>3. Within(r, i, "{") <=> Within(s, i, "{")
  <2>1. i \in 1..n + 1
    OBVIOUS
  <2>2. QED
    BY <2>1, AgreeWithin
<1>4. QED
  BY <1>1, <1>2, <1>3 DEF IsKey

LEMMA AgreeEnds ==
  ASSUME NEW s, NEW r, NEW n \in Nat, Agree(s, r, n), NEW i \in 1..n
  PROVE  EndsValue(r, i) <=> EndsValue(s, i)
BY AgreeKey DEF EndsValue, Agree

\* What may come first of all.
LEMMA AllowedFirst ==
  ASSUME NEW s, NEW i \in Nat \ {0}, NEW strict, Before(s, i) = 0
  PROVE  Allowed(s, i, strict) <=> IsBlankSpace(s[i]) \/ StartsValue(s[i])
<1>1. ~Within(s, i, "{") /\ ~Within(s, i, "[")
  BY AroundBefore DEF Within
<1>2. ~IsKey(s, i)
  BY <1>1 DEF IsKey
<1>3. QED
  BY <1>1, <1>2 DEF Allowed, ValuePlace

LEMMA AgreeAllowed ==
  ASSUME NEW s, NEW r, NEW n \in Nat, Agree(s, r, n), NEW i \in 1..n, NEW strict
  PROVE  Allowed(r, i, strict) <=> Allowed(s, i, strict)
<1> DEFINE p == Before(s, i)
<1>1. Before(r, i) = p /\ r[i] = s[i]
  BY AgreeBefore DEF Agree
<1>2. p # 0 => p \in 1..n
  BY BeforeType
<1>3. p # 0 => /\ r[p] = s[p] /\ (EndsValue(r, p) <=> EndsValue(s, p))
               /\ IsKey(r, p) <=> IsKey(s, p)
  BY <1>2, AgreeEnds, AgreeKey DEF Agree
<1>4. \A d : Within(r, i, d) <=> Within(s, i, d)
  BY AgreeWithin
<1>5. Around(r, i) = Around(s, i) /\ (IsKey(r, i) <=> IsKey(s, i))
  BY AgreeAround, AgreeKey
<1>6. CASE p = 0
  <2>1. Before(s, i) = 0 /\ Before(r, i) = 0
    BY <1>1, <1>6
  <2>2. QED
    BY <1>1, <2>1, AllowedFirst
<1>7. CASE p # 0
  BY <1>1, <1>3, <1>4, <1>5, <1>7 DEF Allowed, ValuePlace
<1>8. QED
  BY <1>6, <1>7

LEMMA AgreeViable ==
  ASSUME NEW s, NEW r, NEW n \in Nat, Agree(s, r, n), NEW strict
  PROVE  Viable(r, n, strict) <=> Viable(s, n, strict)
BY AgreeAllowed DEF Viable

LEMMA AgreeNests ==
  ASSUME NEW s, NEW r, NEW c \in Nat, Agree(s, r, c), NEW n \in Nat, NEW P, Nests(s, c, n, P)
  PROVE  Nests(r, c, n, P)
<1>1. OpenAt(r, c + 1) = OpenAt(s, c + 1)
  BY AgreeOpen
<1>2. \A m \in 1..n : Surplus(r, P[m], c) = Surplus(s, P[m], c)
  <2>1. \A m \in 1..n : P[m] \in Nat \ {0}
    BY NestsPlaces
  <2>2. QED
    BY <2>1, AgreeSurplus
<1>3. QED
  BY <1>1, <1>2 DEF Nests

LEMMA AgreeChild ==
  ASSUME NEW s, NEW r, NEW n \in Nat, Agree(s, r, n), NEW i \in 1..n
  PROVE  ChildOf(r, i) = ChildOf(s, i)
<1>1. \A j \in 1..n : (IsKey(r, j) <=> IsKey(s, j)) /\ Around(r, j) = Around(s, j)
  <2>1. \A j \in 1..n : j \in 1..n + 1
    OBVIOUS
  <2>2. QED
    BY <2>1, AgreeKey, AgreeAround
<1>2. \A j \in 1..i : j \in 1..n
  OBVIOUS
<1>3. {j \in 1..i : IsKey(r, j) /\ Around(r, j) = Around(r, i)}
        = {j \in 1..i : IsKey(s, j) /\ Around(s, j) = Around(s, i)}
  BY <1>1, <1>2
<1>4. Within(r, i, "{") <=> Within(s, i, "{")
  <2>1. i \in 1..n + 1
    OBVIOUS
  <2>2. QED
    BY <2>1, AgreeWithin
<1>5. QED
  BY <1>3, <1>4 DEF ChildOf

-----------------------------------------------------------------------------
(* A run of comments and line breaks. *)

LEMMA BeforeLargest ==
  ASSUME NEW s, NEW i \in Nat \ {0}, NEW j \in 1..i - 1, ~IsBlankSpace(s[j])
  PROVE  Before(s, i) # 0 /\ j <= Before(s, i)
<1> DEFINE S == {k \in 1..i - 1 : ~IsBlankSpace(s[k])}
<1>1. j \in S /\ S \subseteq 1..i - 1 /\ i - 1 \in Nat
  OBVIOUS
<1> HIDE DEF S
<1>2. PICK x \in S : \A y \in S : y <= x
  BY <1>1, LargestExists
<1>3. S \subseteq Nat /\ x \in 1..i - 1
  BY <1>1, <1>2
<1>4. Largest(S) = x
  BY <1>2, <1>3, LargestIs
<1>5. Before(s, i) = x
  BY <1>4 DEF Before, S
<1>6. QED
  BY <1>1, <1>2, <1>3, <1>5

LEMMA BlankRun ==
  ASSUME NEW s, NEW c \in Nat, NEW p, p = Before(s, c + 1)
  PROVE  /\ p \in 0..c
         /\ \A j \in p + 1..c : IsBlankSpace(s[j])
         /\ \A i \in p + 1..c + 1 : Before(s, i) = p
<1>1. p \in 0..c /\ (p # 0 => p \in 1..c /\ ~IsBlankSpace(s[p]))
  <2>1. c + 1 \in Nat \ {0} /\ c + 1 - 1 = c
    OBVIOUS
  <2>2. QED
    BY <2>1, BeforeType
<1>2. ASSUME NEW j \in p + 1..c PROVE IsBlankSpace(s[j])
  <2>1. j \in 1..c + 1 - 1 /\ c + 1 \in Nat \ {0} /\ ~(j <= p)
    BY <1>1
  <2>2. QED
    BY <2>1, BeforeLargest
<1>3. ASSUME NEW i \in p + 1..c + 1 PROVE Before(s, i) = p
  <2> DEFINE S == {k \in 1..i - 1 : ~IsBlankSpace(s[k])}
  <2>1. i - 1 \in Nat /\ i - 1 <= c
    BY <1>1
  <2>2. \A k \in S : k <= p
    BY <1>1, <1>2, <2>1
  <2>3. CASE p = 0
    <3>1. S = {}
      BY <2>2, <2>3
    <3>2. QED
      BY <2>3, <3>1, LargestEmpty DEF Before
  <2>4. CASE p # 0
    <3>1. p \in S /\ S \subseteq Nat
      BY <1>1, <2>4
    <3> HIDE DEF S
    <3>2. Largest(S) = p
      BY <2>2, <3>1, LargestIs
    <3>3. QED
      BY <3>2 DEF Before, S
  <2>5. QED
    BY <2>3, <2>4
<1>4. QED
  BY <1>1, <1>2, <1>3

\* A comment or a line break opens and closes nothing.
LEMMA OpenBlank ==
  ASSUME NEW s, NEW i \in Nat \ {0}, IsBlankSpace(s[i])
  PROVE  OpenAt(s, i + 1) = OpenAt(s, i)
<1>1. ~Opens(s[i]) /\ ~Closes(s[i])
  BY DEF IsBlankSpace, IsComment, Opens, Closes
<1>2. ASSUME NEW j \in OpenAt(s, i) PROVE Surplus(s, j, i) > 0
  <2>1. j \in 1..i - 1 /\ Surplus(s, j, i - 1) > 0
    BY DEF OpenAt
  <2>2. Surplus(s, j, i) = Surplus(s, j, i - 1) + 0
    BY <1>1, <2>1, SurplusNext DEF Step
  <2>3. Surplus(s, j, i - 1) \in Int
    BY <2>1, SurplusType
  <2>4. QED
    BY <2>1, <2>2, <2>3
<1>3. ASSUME NEW j PROVE j \in OpenAt(s, i + 1) <=> j \in OpenAt(s, i)
  <2>1. j \in OpenAt(s, i + 1) <=>
           /\ j \in OpenAt(s, i) \/ (j = i /\ Opens(s[i]))
           /\ Surplus(s, j, i) > 0
    BY OpenNext
  <2>2. QED
    BY <1>1, <1>2, <2>1
<1>4. QED
  BY <1>3

LEMMA AroundBlank ==
  ASSUME NEW s, NEW i \in Nat \ {0}, IsBlankSpace(s[i])
  PROVE  Around(s, i + 1) = Around(s, i)
<1>1. Around(s, i + 1) = Largest(OpenAt(s, i + 1)) /\ Around(s, i) = Largest(OpenAt(s, i))
  BY DEF Around, OpenAt
<1>2. QED
  BY <1>1, OpenBlank

-----------------------------------------------------------------------------
(* Two texts with the same tokens after the first k, which leave nothing open. *)

Rejoin(s, r, k, n) ==
  /\ \A i \in k + 1..n : r[i] = s[i]
  /\ OpenAt(s, k + 1) = {} /\ OpenAt(r, k + 1) = {}

LEMMA RejoinSurplus ==
  ASSUME NEW s, NEW r, NEW k \in Nat, NEW n \in Nat, Rejoin(s, r, k, n),
         NEW i \in Nat, i > k, NEW j \in Nat, j <= n
  PROVE  Surplus(r, i, j) = Surplus(s, i, j)
<1>1. \A h \in i..j : r[h] = s[h]
  BY DEF Rejoin
<1>2. /\ {h \in i..j : Opens(r[h])} = {h \in i..j : Opens(s[h])}
      /\ {h \in i..j : Closes(r[h])} = {h \in i..j : Closes(s[h])}
  BY <1>1
<1>3. QED
  BY <1>2 DEF Surplus

LEMMA OpenAfter ==
  ASSUME NEW s, NEW k \in Nat, OpenAt(s, k + 1) = {}, NEW i \in Nat, i > k, NEW j \in OpenAt(s, i)
  PROVE  j > k
<1>1. j \in 1..i - 1 /\ Opens(s[j]) /\ \A h \in j..i - 1 : Surplus(s, j, h) > 0
  BY DEF OpenAt
<1>2. SUFFICES ASSUME ~(j > k) PROVE FALSE
  OBVIOUS
<1>3. j \in 1..k + 1 - 1 /\ \A h \in j..k + 1 - 1 : h \in j..i - 1
  BY <1>1, <1>2
<1>4. j \in OpenAt(s, k + 1)
  BY <1>1, <1>3 DEF OpenAt
<1>5. QED
  BY <1>4

LEMMA RejoinOpen ==
  ASSUME NEW s, NEW r, NEW k \in Nat, NEW n \in Nat, Rejoin(s, r, k, n), NEW i \in k + 1..n + 1
  PROVE  OpenAt(r, i) = OpenAt(s, i) /\ Around(r, i) = Around(s, i)
<1>1. OpenAt(s, k + 1) = {} /\ OpenAt(r, k + 1) = {} /\ i \in Nat /\ i > k
  BY DEF Rejoin
<1>2. ASSUME NEW j \in 1..i - 1, j > k
      PROVE  /\ r[j] = s[j]
             /\ \A h \in j..i - 1 : Surplus(r, j, h) = Surplus(s, j, h)
  <2>1. j \in k + 1..n /\ \A h \in j..i - 1 : h \in Nat /\ h <= n
    BY <1>2
  <2>2. QED
    BY <1>2, <2>1, RejoinSurplus DEF Rejoin
<1>3. ASSUME NEW j PROVE j \in OpenAt(r, i) <=> j \in OpenAt(s, i)
  <2>1. j \in OpenAt(r, i) \/ j \in OpenAt(s, i) => j \in 1..i - 1 /\ j > k
    BY <1>1, OpenAfter DEF OpenAt
  <2>2. QED
    BY <1>2, <2>1 DEF OpenAt
<1>4. OpenAt(r, i) = OpenAt(s, i)
  BY <1>3
<1>5. Around(r, i) = Largest(OpenAt(r, i)) /\ Around(s, i) = Largest(OpenAt(s, i))
  BY DEF Around, OpenAt
<1>6. QED
  BY <1>4, <1>5

\* The last significant token is the same once there is one after the first k.
LEMMA RejoinBefore ==
  ASSUME NEW s, NEW r, NEW k \in Nat, NEW n \in Nat, Rejoin(s, r, k, n), NEW i \in k + 1..n + 1,
         NEW a \in k + 1..i - 1, ~IsBlankSpace(s[a])
  PROVE  /\ Before(r, i) = Before(s, i) /\ Before(s, i) \in a..i - 1
         /\ ~IsBlankSpace(s[Before(s, i)])
<1>1. i \in Nat \ {0} /\ a \in 1..i - 1 /\ ~IsBlankSpace(r[a])
  BY DEF Rejoin
<1>2. /\ Before(s, i) # 0 /\ a <= Before(s, i) /\ Before(r, i) # 0 /\ a <= Before(r, i)
  BY <1>1, BeforeLargest
<1>3. PICK b \in 1..i - 1 : b = Before(s, i) /\ ~IsBlankSpace(s[b])
  BY <1>1, <1>2, BeforeType
<1>4. PICK d \in 1..i - 1 : d = Before(r, i) /\ ~IsBlankSpace(r[d])
  BY <1>1, <1>2, BeforeType
<1>5. b \in k + 1..n /\ d \in k + 1..n
  BY <1>2, <1>3, <1>4
<1>6. r[b] = s[b] /\ r[d] = s[d]
  BY <1>5 DEF Rejoin
<1>7. b <= d
  BY <1>1, <1>3, <1>4, <1>6, BeforeLargest
<1>8. d <= b
  BY <1>1, <1>3, <1>4, <1>6, BeforeLargest
<1>9. QED
  BY <1>2, <1>3, <1>4, <1>7, <1>8

LEMMA RejoinKey ==
  ASSUME NEW s, NEW r, NEW k \in Nat, NEW n \in Nat, Rejoin(s, r, k, n), NEW i \in k + 1..n
  PROVE  /\ IsKey(r, i) <=> IsKey(s, i)
         /\ IsValueStart(r, i) <=> IsValueStart(s, i)
         /\ EndsValue(r, i) <=> EndsValue(s, i)
<1>1. i \in k + 1..n + 1 /\ i \in Nat \ {0} /\ r[i] = s[i]
  BY DEF Rejoin
<1>2. PICK a : a = Around(s, i) /\ a = Around(r, i)
  BY <1>1, RejoinOpen
<1>3. ASSUME a # 0
      PROVE  a \in k + 1..i - 1 /\ Opens(s[a]) /\ ~IsBlankSpace(s[a])
  <2>1. a \in 1..i - 1 /\ Opens(s[a])
    <3>1. Around(s, i) \in 0..i - 1 /\ (Around(s, i) # 0 => Opens(s[Around(s, i)]))
      BY <1>1, AroundType
    <3>2. QED
      BY <1>1, <1>2, <1>3, <3>1
  <2>2. a \in OpenAt(s, i)
    <3>1. Around(s, i) = Largest(OpenAt(s, i)) /\ OpenAt(s, i) \subseteq 1..i - 1 /\ i - 1 \in Nat
      BY <1>1 DEF Around, OpenAt
    <3>2. Largest(OpenAt(s, i)) \in OpenAt(s, i) \cup {0}
      BY <3>1, LargestType
    <3>3. QED
      BY <1>2, <1>3, <3>1, <3>2
  <2>3. a > k
    BY <1>1, <2>2, OpenAfter DEF Rejoin
  <2>4. ~IsBlankSpace(s[a])
    BY <2>1 DEF Opens, IsBlankSpace, IsComment
  <2>5. QED
    BY <2>1, <2>3, <2>4
<1>4. IsKey(r, i) <=> IsKey(s, i)
  <2>1. CASE a = 0
    BY <1>2, <2>1 DEF IsKey, Within
  <2>2. CASE a # 0
    <3>1. r[a] = s[a]
      BY <1>3, <2>2 DEF Rejoin
    <3>2. Before(r, i) = Before(s, i) /\ Before(s, i) \in a..i - 1
      BY <1>1, <1>3, <2>2, RejoinBefore
    <3>3. Before(s, i) \in k + 1..n
      BY <1>3, <2>2, <3>2
    <3>4. r[Before(s, i)] = s[Before(s, i)]
      BY <3>3 DEF Rejoin
    <3>5. QED
      BY <1>1, <1>2, <3>1, <3>2, <3>4 DEF IsKey, Within
  <2>3. QED
    BY <2>1, <2>2
<1>5. QED
  BY <1>1, <1>4 DEF IsValueStart, EndsValue

\* With nothing but blank space before place f, the depth counts from f.
LEMMA DepthFrom ==
  ASSUME NEW s, NEW r, NEW f \in Nat \ {0}, NEW n \in Nat, NEW i \in 0..n,
         \A j \in 1..f - 1 : IsBlankSpace(r[j]), \A j \in f..n : r[j] = s[j]
  PROVE  Depth(r, i) = Surplus(s, f, i)
<1>1. \A j \in 1..f - 1 : ~Opens(r[j]) /\ ~Closes(r[j])
  BY DEF IsBlankSpace, IsComment, Opens, Closes
<1>2. \A j \in 1..i : j \in 1..f - 1 \/ j \in f..n
  OBVIOUS
<1>3. /\ {j \in 1..i : Opens(r[j])} = {j \in f..i : Opens(s[j])}
      /\ {j \in 1..i : Closes(r[j])} = {j \in f..i : Closes(s[j])}
  BY <1>1, <1>2
<1>4. QED
  BY <1>3 DEF Depth, Surplus
=============================================================================
