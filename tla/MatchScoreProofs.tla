--------------------------- MODULE MatchScoreProofs ---------------------------
(***************************************************************************)
(* What TLAPS proves of MatchScore for every number of requirements, every  *)
(* resume and every answer of the model.  The score is a sum over the       *)
(* requirements, so the first part shows that the sums exist and how they   *)
(* compare; then come rounding, the worth of one claim, and the invariants. *)
(***************************************************************************)
EXTENDS MatchScore, WellFoundedInduction, FiniteSetTheorems, TLAPS

-----------------------------------------------------------------------------
(* Induction, over numbers and over sets of requirements.                      *)

LEMMA UpTo ==
  ASSUME NEW n \in Nat, NEW T, 0 \in T, \A k \in 0..n : k \in T /\ k < n => k + 1 \in T
  PROVE  n \in T
<1> DEFINE U == 0..n
           B == {0..k : k \in {j \in 0..n : j \notin T}}
<1>1. IsFiniteSet(U)
  <2>1. 0 \in Int /\ n \in Int
    OBVIOUS
  <2> QED BY <2>1, FS_Interval, Zenon
<1>2. IsWellFoundedOn(StrictSubsetOrdering(U), SUBSET U)
  BY <1>1, FS_StrictSubsetOrderingWellFounded, FS_FiniteSubsetsOfFinite
<1> SUFFICES ASSUME n \notin T PROVE FALSE
  OBVIOUS
<1>3. B \subseteq SUBSET U /\ B # {}
  <2>1. \A k \in 0..n : 0..k \subseteq 0..n
    OBVIOUS
  <2>2. B \subseteq SUBSET U
    BY <2>1, Zenon
  <2>3. n \in {j \in 0..n : j \notin T}
    OBVIOUS
  <2>4. 0..n \in B
    BY <2>3, Zenon
  <2> QED BY <2>2, <2>4, Zenon
<1> HIDE DEF B, U
<1>4. PICK x \in B : \A y \in B : ~(<<y, x>> \in StrictSubsetOrdering(U))
  BY <1>2, <1>3, WFMin
<1>5. PICK k \in 0..n : k \notin T /\ x = 0..k
  BY <1>4, Zenon DEF B
<1>6. k # 0
  BY <1>5
<1>7. k - 1 \in 0..n /\ k - 1 < n /\ k - 1 + 1 = k
  BY <1>5, <1>6
<1>8. k - 1 \notin T
  BY <1>5, <1>7
<1>9. 0..(k - 1) \in B
  BY <1>7, <1>8 DEF B
<1>10. k \in x /\ k \notin 0..(k - 1) /\ 0..(k - 1) \subseteq x
  BY <1>5, <1>6
<1>11. 0..(k - 1) # x
  BY <1>10, Zenon
<1>12. 0..(k - 1) \in SUBSET U /\ x \in SUBSET U
  BY <1>3, <1>4, <1>9, Zenon
<1>13. <<0..(k - 1), x>> \in StrictSubsetOrdering(U)
  BY <1>10, <1>11, <1>12 DEF StrictSubsetOrdering
<1> QED BY <1>4, <1>9, <1>13, Zenon

LEMMA RequirementsFinite ==
  /\ IsFiniteSet(Requirements) /\ Requirements # {} /\ Cardinality(Requirements) = N
  /\ \A r \in Requirements : r \in Nat
<1>1. N \in Nat \ {0}
  BY InputsOK
<1>2. 1 \in Int /\ N \in Int /\ N >= 1
  BY <1>1
<1>3. IsFiniteSet(1..N) /\ Cardinality(1..N) = IF 1 > N THEN 0 ELSE N - 1 + 1
  BY <1>2, FS_Interval, Zenon
<1>4. 1 \in 1..N
  BY <1>2
<1> QED BY <1>2, <1>3, <1>4 DEF Requirements

\* The requirement that a sum over s takes next.
Pick(s) == CHOOSE x \in s : TRUE

LEMMA Picked == ASSUME NEW s, s # {} PROVE Pick(s) \in s
  BY DEF Pick

LEMMA OverRequirements ==
  ASSUME NEW T, {} \in T,
         \A s \in SUBSET Requirements : s # {} /\ s \ {Pick(s)} \in T => s \in T
  PROVE  SUBSET Requirements \subseteq T
<1> DEFINE U == Requirements
           B == (SUBSET U) \ T
<1>1. IsWellFoundedOn(StrictSubsetOrdering(U), SUBSET U)
  BY RequirementsFinite, FS_StrictSubsetOrderingWellFounded, FS_FiniteSubsetsOfFinite
<1>2. SUFFICES ASSUME B # {} PROVE FALSE
  BY Zenon
<1>3. B \subseteq SUBSET U
  OBVIOUS
<1>4. PICK x \in B : \A y \in B : ~(<<y, x>> \in StrictSubsetOrdering(U))
  BY <1>1, <1>2, <1>3, WFMin
<1>5. x # {} /\ x \in SUBSET U
  BY <1>4
<1>6. Pick(x) \in x
  BY <1>5, Picked
<1>7. x \ {Pick(x)} \in SUBSET U /\ x \ {Pick(x)} \notin T
  BY <1>4, <1>5
<1>8. <<x \ {Pick(x)}, x>> \in StrictSubsetOrdering(U)
  BY <1>5, <1>6, <1>7 DEF StrictSubsetOrdering
<1> QED BY <1>4, <1>7, <1>8

-----------------------------------------------------------------------------
(* The sums.                                                                   *)

Step(it, f, s) == IF s = {} THEN 0 ELSE f[Pick(s)] + it[s \ {Pick(s)}]
IsSums(it, f) == it = [s \in SUBSET Requirements |->
                         IF s = {} THEN 0 ELSE f[Pick(s)] + it[s \ {Pick(s)}]]
SumsOf(f) == CHOOSE it : IsSums(it, f)

LEMMA SumIsLast == ASSUME NEW f PROVE Sum(f) = SumsOf(f)[Requirements]
  BY DEF Sum, MapThenSumSet, MapThenFoldSet, SumsOf, IsSums, Pick

Small(k) == {s \in SUBSET Requirements : Cardinality(s) <= k}
SmallSums(it, f, k) == it = [s \in Small(k) |-> Step(it, f, s)]

LEMMA SmallerSet ==
  ASSUME NEW s \in SUBSET Requirements, s # {}
  PROVE  /\ s \ {Pick(s)} \in SUBSET Requirements
         /\ Cardinality(s) \in Nat /\ Cardinality(s \ {Pick(s)}) = Cardinality(s) - 1
         /\ Cardinality(s) <= N
<1>1. IsFiniteSet(s) /\ Cardinality(s) <= N
  BY RequirementsFinite, FS_Subset
<1> QED BY <1>1, Picked, FS_RemoveElement, FS_CardinalityType

LEMMA EmptyIsSmall == ASSUME NEW k \in Nat PROVE {} \in Small(k)
  BY FS_EmptySet DEF Small

\* The sums over the sets of one more requirement, from those of fewer.
LEMMA SmallSumsGrow ==
  ASSUME NEW k \in Nat, NEW f, NEW it, SmallSums(it, f, k)
  PROVE  \E jt : SmallSums(jt, f, k + 1)
<1> DEFINE jt == [s \in Small(k + 1) |-> Step(it, f, s)]
<1>1. ASSUME NEW s \in Small(k + 1), s # {}
      PROVE  s \ {Pick(s)} \in Small(k)
  BY <1>1, SmallerSet DEF Small
<1>2. ASSUME NEW s \in Small(k)
      PROVE  s \in Small(k + 1) /\ jt[s] = it[s]
  <2>1. s \in Small(k + 1)
    <3>1. s \in SUBSET Requirements /\ IsFiniteSet(s)
      BY RequirementsFinite, FS_Subset DEF Small
    <3> QED BY <3>1, FS_CardinalityType DEF Small
  <2>2. it[s] = Step(it, f, s)
    BY Zenon DEF SmallSums
  <2> QED BY <2>1, <2>2
<1>3. ASSUME NEW s \in Small(k + 1)
      PROVE  Step(it, f, s) = Step(jt, f, s)
  BY <1>1, <1>2 DEF Step
<1>4. jt = [s \in Small(k + 1) |-> Step(jt, f, s)]
  BY <1>3
<1> QED BY <1>4 DEF SmallSums

LEMMA SumsExist == ASSUME NEW f PROVE IsSums(SumsOf(f), f)
<1> DEFINE T == {k \in Nat : \E it : SmallSums(it, f, k)}
<1>0. N \in Nat
  BY InputsOK
<1>1. 0 \in T
  <2> DEFINE it == [s \in Small(0) |-> 0]
  <2>1. ASSUME NEW s \in Small(0) PROVE s = {}
    <3>1. IsFiniteSet(s) /\ s \in SUBSET Requirements
      BY RequirementsFinite, FS_Subset DEF Small
    <3> QED BY <3>1, FS_CardinalityType, FS_EmptySet DEF Small
  <2>2. it = [s \in Small(0) |-> Step(it, f, s)]
    BY <2>1 DEF Step
  <2> QED BY <2>2 DEF SmallSums
<1>2. ASSUME NEW k \in T PROVE k + 1 \in T
  BY SmallSumsGrow
<1> HIDE DEF T
<1>3. N \in T
  BY <1>0, <1>1, <1>2, UpTo
<1>4. PICK it : SmallSums(it, f, N)
  BY <1>3 DEF T
<1>5. Small(N) = SUBSET Requirements
  <2>1. ASSUME NEW s \in SUBSET Requirements PROVE Cardinality(s) <= N
    BY RequirementsFinite, FS_Subset
  <2> QED BY <2>1 DEF Small
<1>6. IsSums(it, f)
  BY <1>4, <1>5 DEF SmallSums, IsSums, Step
<1> QED BY <1>6 DEF SumsOf

LEMMA SumStep ==
  ASSUME NEW f, NEW s \in SUBSET Requirements
  PROVE  SumsOf(f)[s] = IF s = {} THEN 0 ELSE f[Pick(s)] + SumsOf(f)[s \ {Pick(s)}]
<1> DEFINE it == SumsOf(f)
<1>1. it = [q \in SUBSET Requirements |-> IF q = {} THEN 0 ELSE f[Pick(q)] + it[q \ {Pick(q)}]]
  BY SumsExist, Zenon DEF IsSums
<1> HIDE DEF it
<1>2. it[s] = IF s = {} THEN 0 ELSE f[Pick(s)] + it[s \ {Pick(s)}]
  BY <1>1, Zenon
<1> QED BY <1>2 DEF it

Worths == [Requirements -> Int]

LEMMA SumsInt ==
  ASSUME NEW f \in Worths, NEW s \in SUBSET Requirements
  PROVE  SumsOf(f)[s] \in Int
<1> DEFINE T == {q \in SUBSET Requirements : SumsOf(f)[q] \in Int}
<1>1. {} \in T
  BY SumStep
<1>2. ASSUME NEW q \in SUBSET Requirements, q # {}, q \ {Pick(q)} \in T
      PROVE  q \in T
  <2>1. Pick(q) \in Requirements
    BY <1>2, Picked
  <2>2. f[Pick(q)] \in Int
    BY <2>1 DEF Worths
  <2>3. SumsOf(f)[q] = f[Pick(q)] + SumsOf(f)[q \ {Pick(q)}]
    BY <1>2, SumStep
  <2> QED BY <1>2, <2>2, <2>3
<1> HIDE DEF T
<1>3. SUBSET Requirements \subseteq T
  BY <1>1, <1>2, OverRequirements
<1> QED BY <1>3 DEF T

LEMMA SumInt == ASSUME NEW f \in Worths PROVE Sum(f) \in Int
  BY SumsInt, SumIsLast

LEMMA Spread ==
  ASSUME NEW a \in Int, NEW b \in Int, NEW x \in Int, NEW y \in Int, NEW v \in Int, NEW w \in Int,
         a * x <= b * v, a * y <= b * w
  PROVE  a * (x + y) <= b * (v + w)
<1>1. a * (x + y) = a * x + a * y /\ b * (v + w) = b * v + b * w
  OBVIOUS
<1>2. a * x \in Int /\ a * y \in Int /\ b * v \in Int /\ b * w \in Int
  OBVIOUS
<1> QED BY <1>1, <1>2

\* What holds of every requirement's share holds of the sums.
LEMMA SumBound ==
  ASSUME NEW a \in Int, NEW b \in Int, NEW f \in Worths, NEW g \in Worths,
         \A r \in Requirements : a * f[r] <= b * g[r]
  PROVE  a * Sum(f) <= b * Sum(g)
<1> DEFINE T == {q \in SUBSET Requirements : a * SumsOf(f)[q] <= b * SumsOf(g)[q]}
<1>1. {} \in T
  <2>1. SumsOf(f)[{}] = 0 /\ SumsOf(g)[{}] = 0
    BY SumStep
  <2> QED BY <2>1
<1>2. ASSUME NEW q \in SUBSET Requirements, q # {}, q \ {Pick(q)} \in T
      PROVE  q \in T
  <2> DEFINE p == q \ {Pick(q)}
  <2>1. Pick(q) \in Requirements /\ p \in SUBSET Requirements
    BY <1>2, Picked
  <2>2. f[Pick(q)] \in Int /\ g[Pick(q)] \in Int /\ SumsOf(f)[p] \in Int /\ SumsOf(g)[p] \in Int
    BY <2>1, SumsInt DEF Worths
  <2>3. a * f[Pick(q)] <= b * g[Pick(q)] /\ a * SumsOf(f)[p] <= b * SumsOf(g)[p]
    BY <1>2, <2>1
  <2>4. a * (f[Pick(q)] + SumsOf(f)[p]) <= b * (g[Pick(q)] + SumsOf(g)[p])
    BY <2>2, <2>3, Spread
  <2>5. SumsOf(f)[q] = f[Pick(q)] + SumsOf(f)[p] /\ SumsOf(g)[q] = g[Pick(q)] + SumsOf(g)[p]
    BY <1>2, SumStep
  <2> QED BY <2>4, <2>5
<1> HIDE DEF T
<1>3. SUBSET Requirements \subseteq T
  BY <1>1, <1>2, OverRequirements
<1>4. Requirements \in T
  BY <1>3
<1> QED BY <1>4, SumIsLast DEF T

\* One share changes the sum by what it changes itself.
LEMMA SumChanged ==
  ASSUME NEW f \in Worths, NEW g \in Worths, NEW r \in Requirements,
         \A q \in Requirements : q # r => f[q] = g[q]
  PROVE  Sum(g) - Sum(f) = g[r] - f[r]
<1> DEFINE T == {q \in SUBSET Requirements :
                   SumsOf(g)[q] - SumsOf(f)[q] = IF r \in q THEN g[r] - f[r] ELSE 0}
<1>1. {} \in T
  <2>1. SumsOf(f)[{}] = 0 /\ SumsOf(g)[{}] = 0
    BY SumStep
  <2> QED BY <2>1
<1>2. ASSUME NEW q \in SUBSET Requirements, q # {}, q \ {Pick(q)} \in T
      PROVE  q \in T
  <2> DEFINE p == q \ {Pick(q)}
  <2>1. Pick(q) \in q /\ Pick(q) \in Requirements /\ p \in SUBSET Requirements
    BY <1>2, Picked
  <2>2. /\ f[Pick(q)] \in Int /\ g[Pick(q)] \in Int /\ SumsOf(f)[p] \in Int /\ SumsOf(g)[p] \in Int
        /\ f[r] \in Int /\ g[r] \in Int
    BY <2>1, SumsInt DEF Worths
  <2>3. SumsOf(g)[p] - SumsOf(f)[p] = IF r \in p THEN g[r] - f[r] ELSE 0
    BY <1>2
  <2>5. SumsOf(f)[q] = f[Pick(q)] + SumsOf(f)[p] /\ SumsOf(g)[q] = g[Pick(q)] + SumsOf(g)[p]
    BY <1>2, SumStep
  <2>6. CASE r = Pick(q)
    <3>1. r \notin p /\ r \in q
      BY <2>1, <2>6
    <3>2. SumsOf(g)[q] - SumsOf(f)[q] = g[r] - f[r]
      BY <2>2, <2>3, <2>5, <2>6, <3>1
    <3> QED BY <3>1, <3>2
  <2>7. CASE r # Pick(q)
    <3>1. r \in p <=> r \in q
      BY <2>7
    <3>2. f[Pick(q)] = g[Pick(q)]
      BY <2>1, <2>7
    <3>3. SumsOf(g)[q] - SumsOf(f)[q] = SumsOf(g)[p] - SumsOf(f)[p]
      BY <2>2, <2>5, <3>2
    <3> QED BY <2>3, <3>1, <3>3
  <2> QED BY <2>6, <2>7
<1> HIDE DEF T
<1>3. Requirements \in T
  BY <1>1, <1>2, OverRequirements
<1> QED BY <1>3, SumIsLast DEF T

\* Positive shares have a positive sum.
LEMMA SumPositive ==
  ASSUME NEW f \in Worths, \A r \in Requirements : f[r] > 0
  PROVE  Sum(f) > 0
<1> DEFINE T == {q \in SUBSET Requirements : SumsOf(f)[q] >= 0 /\ (q # {} => SumsOf(f)[q] > 0)}
<1>1. {} \in T
  BY SumStep
<1>2. ASSUME NEW q \in SUBSET Requirements, q # {}, q \ {Pick(q)} \in T
      PROVE  q \in T
  <2> DEFINE p == q \ {Pick(q)}
  <2>1. Pick(q) \in Requirements /\ p \in SUBSET Requirements
    BY <1>2, Picked
  <2>2. f[Pick(q)] \in Int /\ f[Pick(q)] > 0 /\ SumsOf(f)[p] \in Int /\ SumsOf(f)[p] >= 0
    BY <1>2, <2>1, SumsInt DEF Worths
  <2>3. SumsOf(f)[q] = f[Pick(q)] + SumsOf(f)[p]
    BY <1>2, SumStep
  <2> QED BY <2>2, <2>3
<1> HIDE DEF T
<1>3. Requirements \in T
  BY <1>1, <1>2, OverRequirements
<1> QED BY <1>3, SumIsLast, RequirementsFinite DEF T

-----------------------------------------------------------------------------
(* Rounding.                                                                   *)

LEMMA Quotient ==
  ASSUME NEW a \in Nat, NEW b \in Nat \ {0}
  PROVE  /\ a \div b \in Nat /\ a % b \in 0..(b - 1)
         /\ a = b * (a \div b) + (a % b)
  OBVIOUS

\* The result is a whole number at a distance of at most a half.
LEMMA RoundedNear ==
  ASSUME NEW a \in Nat, NEW b \in Nat \ {0}
  PROVE  /\ RoundHalfEven(a, b) \in Nat
         /\ 2 * (b * RoundHalfEven(a, b)) <= 2 * a + b
         /\ 2 * (b * RoundHalfEven(a, b)) >= 2 * a - b
<1> DEFINE q == a \div b
           m == a % b
           x == RoundHalfEven(a, b)
<1>1. q \in Nat /\ m \in 0..(b - 1) /\ a = b * q + m
  BY Quotient
<1>2. \/ x = q /\ 2 * m <= b
      \/ x = q + 1 /\ 2 * m >= b
  BY <1>1 DEF RoundHalfEven
<1> HIDE DEF q, m, x
<1>3. b * q \in Nat /\ b * (q + 1) = b * q + b
  BY <1>1
<1>4. CASE x = q /\ 2 * m <= b
  <2>1. x \in Nat /\ b * x = a - m /\ m \in Nat
    BY <1>1, <1>3, <1>4
  <2>2. x \in Nat /\ 2 * (b * x) <= 2 * a + b /\ 2 * (b * x) >= 2 * a - b
    BY <1>4, <2>1
  <2> QED BY <2>2 DEF x
<1>5. CASE x = q + 1 /\ 2 * m >= b
  <2>1. x \in Nat /\ b * x = a - m + b /\ m \in 0..(b - 1)
    BY <1>1, <1>3, <1>5
  <2>2. x \in Nat /\ 2 * (b * x) <= 2 * a + b /\ 2 * (b * x) >= 2 * a - b
    BY <1>5, <2>1
  <2> QED BY <2>2 DEF x
<1> QED BY <1>2, <1>4, <1>5

LEMMA Scaled ==
  ASSUME NEW b \in Nat \ {0}, NEW x \in Int, NEW y \in Int, x >= y
  PROVE  b * x >= b * y
  OBVIOUS

LEMMA RoundedGrows ==
  ASSUME NEW a \in Nat, NEW c \in Nat, NEW b \in Nat \ {0}, a <= c
  PROVE  RoundHalfEven(a, b) <= RoundHalfEven(c, b)
<1> DEFINE x == RoundHalfEven(a, b)
           y == RoundHalfEven(c, b)
<1>1. /\ x \in Nat /\ 2 * (b * x) <= 2 * a + b /\ 2 * (b * x) >= 2 * a - b
      /\ y \in Nat /\ 2 * (b * y) <= 2 * c + b /\ 2 * (b * y) >= 2 * c - b
  BY RoundedNear
<1>2. SUFFICES ASSUME x > y PROVE FALSE
  BY <1>1
<1>3. x \in Nat /\ y \in Nat /\ b * x \in Int /\ b * y \in Int
  BY <1>1
<1>4. x >= y + 1 /\ b * (y + 1) = b * y + b
  BY <1>1, <1>2
<1>5. b * x >= b * y + b
  <2>1. y + 1 \in Int /\ x \in Int
    BY <1>1
  <2> QED BY <1>4, <2>1, Scaled
<1>6. a >= c
  <2> DEFINE u == b * x
             v == b * y
  <2>1. u \in Int /\ v \in Int /\ 2 * u <= 2 * a + b /\ 2 * v >= 2 * c - b /\ u >= v + b
    BY <1>1, <1>3, <1>5
  <2> HIDE DEF u, v, x, y
  <2> QED BY <2>1
<1>7. a = c
  BY <1>6
<1>8. x = y
  BY <1>7
<1> QED BY <1>2, <1>3, <1>8

\* A whole number of steps is rounded to itself, and bounds are kept.
LEMMA RoundedExact ==
  ASSUME NEW k \in Nat, NEW b \in Nat \ {0}
  PROVE  RoundHalfEven(b * k, b) = k
<1> DEFINE x == RoundHalfEven(b * k, b)
<1>1. b * k \in Nat
  OBVIOUS
<1>2. x \in Nat /\ 2 * (b * x) <= 2 * (b * k) + b /\ 2 * (b * x) >= 2 * (b * k) - b
  BY <1>1, RoundedNear
<1>3. b * x \in Int /\ b * k \in Int
  BY <1>2
<1>4. CASE x > k
  <2>1. b * x >= b * (k + 1) /\ b * (k + 1) = b * k + b
    BY <1>2, <1>4, Scaled
  <2> QED BY <1>2, <1>3, <2>1
<1>5. CASE k > x
  <2>1. b * k >= b * (x + 1) /\ b * (x + 1) = b * x + b
    BY <1>2, <1>5, Scaled
  <2> QED BY <1>2, <1>3, <2>1
<1> QED BY <1>2, <1>4, <1>5

-----------------------------------------------------------------------------
(* The worth of a claim.  A counted claim cites a span: its corroboration is    *)
(* at least 8.                                                                  *)

ClaimOK(r, c) ==
  /\ c.met \in BOOLEAN /\ c.type \in MatchTypes /\ c.integrity \in 0..2
  /\ c.met => c.type # "none" /\ c.corroboration \in 8..10
  /\ ~c.met => c.type = "none" /\ c.integrity = 2
  /\ c.contribution =
       IF c.met THEN Weight(r) * Satisfaction[c.type] * c.corroboration * c.integrity ELSE 0

ClaimsOK(cs) == \A r \in Requirements : ClaimOK(r, cs[r])

LEMMA Weights ==
  ASSUME catalogue \in Catalogues, NEW r \in Requirements
  PROVE  Weight(r) \in Nat /\ Weight(r) > 0
<1>1. catalogue[r].criticality \in 1..3 /\ catalogue[r].required \in BOOLEAN
  BY InputsOK
<1> QED BY <1>1 DEF Weight

LEMMA Satisfactions ==
  /\ Satisfaction["direct"] = 10 /\ Satisfaction["adjacent"] = 6 /\ Satisfaction["none"] = 0
  /\ \A t \in MatchTypes : Satisfaction[t] \in {0, 6, 10} /\ (t # "none" => Satisfaction[t] > 0)
                           /\ (Satisfaction[t] < 10 <=> t # "direct")
  BY DEF Satisfaction, MatchTypes

LEMMA Corroborations ==
  ASSUME NEW spans, spans \subseteq Spans, spans # {}
  PROVE  Corroboration(spans) \in 8..10
<1> DEFINE k == Cardinality(spans)
           S == {10, 8 + k - 1}
<1>1. IsFiniteSet(spans)
  BY InputsOK, FS_Subset
<1>2. k \in Nat /\ k # 0
  BY <1>1, FS_CardinalityType, FS_EmptySet
<1> HIDE DEF k
<1>3. \E x \in S : \A y \in S : x <= y
  <2>1. CASE 10 <= 8 + k - 1
    BY <1>2, <2>1
  <2>2. CASE 8 + k - 1 <= 10
    BY <1>2, <2>2
  <2> QED BY <1>2, <2>1, <2>2
<1>4. Min(S) \in S /\ \A y \in S : Min(S) <= y
  BY <1>3 DEF Min
<1>5. Min(S) \in 8..10
  BY <1>2, <1>4
<1> QED BY <1>5 DEF Corroboration, k

LEMMA Greatest ==
  ASSUME NEW x \in Int
  PROVE  Max({0, x}) = IF x > 0 THEN x ELSE 0
<1> DEFINE S == {0, x}
<1>1. \E m \in S : \A y \in S : m >= y
  <2>1. CASE x > 0
    BY <2>1
  <2>2. CASE ~(x > 0)
    BY <2>2
  <2> QED BY <2>1, <2>2
<1>2. Max(S) \in S /\ \A y \in S : Max(S) >= y
  BY <1>1 DEF Max
<1> QED BY <1>2

LEMMA Integrities == ASSUME NEW spans PROVE Integrity(spans) \in 0..2
  BY DEF Integrity

\* What one claim gains, in the weight of its requirement.
LEMMA Worth ==
  ASSUME NEW w \in Nat, NEW s \in {0, 6, 10}, NEW c \in 8..10, NEW i \in 0..2
  PROVE  /\ w * s * c * i \in Nat /\ w * s * c * 2 \in Nat
         /\ w * s * c * i <= w * s * c * 2 /\ w * s * c * 2 <= 200 * w
         /\ s < 10 \/ i < 2 => w * s * c * i <= 160 * w
         /\ s = 10 /\ i = 2 => w * s * c * i >= 160 * w
         /\ i = 2 => w * s * c * i = w * s * c * 2
         /\ w > 0 /\ s > 0 /\ i > 0 => w * s * c * i # 0
<1>1. ASSUME NEW k \in {0, 6, 10}, NEW m \in {8, 9, 10}
      PROVE  w * k * m \in Nat /\ w * k * m = (k * m) * w
  BY <1>1
<1>2. s * c \in {0, 48, 54, 60, 80, 90, 100}
  OBVIOUS
<1>3. w * s * c = (s * c) * w
  BY <1>1
<1>4. PICK p \in {0, 48, 54, 60, 80, 90, 100} : p = s * c
  BY <1>2
<1>5. w * s * c = p * w /\ (s = 0 => p = 0) /\ (s = 6 => p \in {48, 54, 60})
      /\ (s = 10 => p \in {80, 90, 100})
  BY <1>3, <1>4
<1> QED BY <1>5

\* What the score is made of.
LEMMA Shares ==
  ASSUME catalogue \in Catalogues, NEW r \in Requirements, NEW cs, ClaimOK(r, cs[r])
  PROVE  /\ Gains(cs, r) \in Nat /\ GainsTrusted(cs, r) \in Nat
         /\ Gains(cs, r) = cs[r].contribution
         /\ Gains(cs, r) <= GainsTrusted(cs, r) /\ GainsTrusted(cs, r) <= 200 * Weight(r)
         /\ IsGap(cs, r) => Gains(cs, r) <= 160 * Weight(r)
         /\ ~IsGap(cs, r) => /\ Gains(cs, r) >= 160 * Weight(r)
                             /\ Gains(cs, r) = GainsTrusted(cs, r)
         /\ Gains(cs, r) # GainsTrusted(cs, r) => /\ IsGap(cs, r)
                                                  /\ Category(cs[r]) = "unverifiable"
<1> DEFINE w == Weight(r)
           s == Satisfaction[cs[r].type]
           c == cs[r].corroboration
           i == cs[r].integrity
<1>1. w \in Nat /\ w > 0
  BY Weights
<1>2. CASE ~cs[r].met
  <2>1. /\ Gains(cs, r) = 0 /\ GainsTrusted(cs, r) = 0 /\ cs[r].contribution = 0 /\ IsGap(cs, r)
    BY <1>2 DEF Gains, GainsTrusted, Counted, IsGap, ClaimOK
  <2> QED BY <1>1, <2>1
<1>3. CASE cs[r].met
  <2>1. /\ cs[r].type \in MatchTypes /\ cs[r].type # "none" /\ c \in 8..10 /\ i \in 0..2
        /\ cs[r].contribution = w * s * c * i
    BY <1>3 DEF ClaimOK
  <2>2. s \in {0, 6, 10} /\ s > 0
    BY <2>1, Satisfactions
  <2>3. Gains(cs, r) = w * s * c * i /\ GainsTrusted(cs, r) = w * s * c * 2
    BY <1>3, <2>1 DEF Gains, GainsTrusted, Counted
  <2>4. IsGap(cs, r) <=> (w * s * c * i = 0 \/ s < 10 \/ i < 2)
    BY <2>3 DEF IsGap
  <2>5. i < 2 => Category(cs[r]) = "unverifiable"
    BY <2>2 DEF Category
  <2> HIDE DEF w, s, c, i
  <2>6. /\ w * s * c * i \in Nat /\ w * s * c * 2 \in Nat
        /\ w * s * c * i <= w * s * c * 2 /\ w * s * c * 2 <= 200 * w
        /\ s < 10 \/ i < 2 => w * s * c * i <= 160 * w
        /\ s = 10 /\ i = 2 => w * s * c * i >= 160 * w
        /\ i = 2 => w * s * c * i = w * s * c * 2
    BY <1>1, <2>1, <2>2, Worth DEF c, i
  <2> DEFINE g == w * s * c * i
             h == w * s * c * 2
  <2> HIDE DEF g, h
  <2>7. /\ g \in Nat /\ h \in Nat /\ g <= h /\ h <= 200 * w
        /\ s < 10 \/ i < 2 => g <= 160 * w
        /\ s = 10 /\ i = 2 => g >= 160 * w
        /\ i = 2 => g = h
    BY <2>6 DEF g, h
  <2>8. i \in 0..2 /\ s \in {0, 6, 10}
    BY <2>1, <2>2 DEF i
  <2>9. IsGap(cs, r) <=> (g = 0 \/ s < 10 \/ i < 2)
    BY <2>4 DEF g
  <2>10. Gains(cs, r) = g /\ GainsTrusted(cs, r) = h /\ cs[r].contribution = g
    BY <2>1, <2>3 DEF g, h, w, s, c, i
  <2>11. /\ IsGap(cs, r) => g <= 160 * w
         /\ ~IsGap(cs, r) => g >= 160 * w /\ g = h
         /\ g # h => IsGap(cs, r) /\ Category(cs[r]) = "unverifiable"
    BY <1>1, <2>5, <2>7, <2>8, <2>9
  <2> QED BY <2>7, <2>10, <2>11 DEF w
<1> QED BY <1>2, <1>3

Earned(cs) == [r \in Requirements |-> Gains(cs, r)]
Granted(cs) == [r \in Requirements |-> GainsTrusted(cs, r)]
Weighed == [r \in Requirements |-> Weight(r)]

LEMMA ShareTypes ==
  ASSUME catalogue \in Catalogues, NEW cs, ClaimsOK(cs)
  PROVE  Earned(cs) \in Worths /\ Granted(cs) \in Worths /\ Weighed \in Worths
<1>1. \A r \in Requirements : Gains(cs, r) \in Nat /\ GainsTrusted(cs, r) \in Nat
  BY Shares DEF ClaimsOK
<1>2. \A r \in Requirements : Weight(r) \in Nat
  BY Weights
<1> QED BY <1>1, <1>2 DEF Earned, Granted, Weighed, Worths

LEMMA WeightIsPositive ==
  ASSUME catalogue \in Catalogues
  PROVE  TotalWeight \in Nat \ {0} /\ TotalWeight = Sum(Weighed)
<1>1. Weighed \in Worths /\ \A r \in Requirements : Weighed[r] > 0
  BY Weights DEF Weighed, Worths
<1>2. TotalWeight = Sum(Weighed)
  BY DEF TotalWeight, Weighed
<1> QED BY <1>1, <1>2, SumPositive, SumInt

Total(cs) == Sum(Earned(cs))
TotalTrusted(cs) == Sum(Granted(cs))

LEMMA Totals ==
  ASSUME catalogue \in Catalogues, NEW cs, ClaimsOK(cs)
  PROVE  /\ Total(cs) \in Nat /\ TotalTrusted(cs) \in Nat
         /\ Total(cs) <= TotalTrusted(cs) /\ TotalTrusted(cs) <= 200 * TotalWeight
<1> DEFINE f == Earned(cs)
           g == Granted(cs)
<1>1. f \in Worths /\ g \in Worths /\ Weighed \in Worths
  BY ShareTypes
<1>2. \A r \in Requirements : 0 * f[r] <= 1 * f[r] /\ 1 * f[r] <= 1 * g[r]
                              /\ 1 * g[r] <= 200 * Weighed[r]
  <2>1. ASSUME NEW r \in Requirements
        PROVE  /\ Gains(cs, r) \in Nat /\ GainsTrusted(cs, r) \in Nat /\ Weight(r) \in Nat
               /\ Gains(cs, r) <= GainsTrusted(cs, r) /\ GainsTrusted(cs, r) <= 200 * Weight(r)
    BY Shares, Weights DEF ClaimsOK
  <2> QED BY <2>1 DEF Earned, Granted, Weighed
<1> HIDE DEF f, g
<1>3. Sum(f) \in Int /\ Sum(g) \in Int /\ Sum(Weighed) \in Int
  BY <1>1, SumInt
<1>4. 0 * Sum(f) <= 1 * Sum(f) /\ 1 * Sum(f) <= 1 * Sum(g) /\ 1 * Sum(g) <= 200 * Sum(Weighed)
  BY <1>1, <1>2, SumBound
<1>5. Sum(f) >= 0 /\ Sum(f) <= Sum(g) /\ Sum(g) <= 200 * Sum(Weighed)
  BY <1>3, <1>4
<1> QED BY <1>3, <1>5, WeightIsPositive DEF Total, TotalTrusted, f, g

LEMMA Results ==
  ASSUME NEW cs
  PROVE  /\ Result(cs).score = Percent(Total(cs)) /\ Result(cs).trusted = Percent(TotalTrusted(cs))
         /\ Result(cs).delta = Percent(TotalTrusted(cs)) - Percent(Total(cs))
         /\ Result(cs).unmet = UnmetRequired(cs)
  BY DEF Result, Total, TotalTrusted, Earned, Granted

\* A percentage is within half a step of the quotient it rounds.
LEMMA Percents ==
  ASSUME catalogue \in Catalogues, NEW x \in Nat
  PROVE  /\ Percent(x) \in Nat
         /\ 2 * (TotalWeight * Percent(x)) <= 10 * x + TotalWeight
         /\ 2 * (TotalWeight * Percent(x)) >= 10 * x - TotalWeight
<1>1. TotalWeight \in Nat \ {0} /\ 5 * x \in Nat /\ 2 * (5 * x) = 10 * x
  BY WeightIsPositive
<1> QED BY <1>1, RoundedNear DEF Percent

LEMMA PercentGrows ==
  ASSUME catalogue \in Catalogues, NEW x \in Nat, NEW y \in Nat, x <= y
  PROVE  Percent(x) <= Percent(y)
<1>1. TotalWeight \in Nat \ {0} /\ 5 * x \in Nat /\ 5 * y \in Nat /\ 5 * x <= 5 * y
  BY WeightIsPositive
<1> QED BY <1>1, RoundedGrows DEF Percent

LEMMA PercentExact ==
  ASSUME catalogue \in Catalogues
  PROVE  200 * TotalWeight \in Nat /\ 160 * TotalWeight \in Nat
         /\ Percent(200 * TotalWeight) = 1000 /\ Percent(160 * TotalWeight) = 800
<1>1. /\ TotalWeight \in Nat \ {0}
      /\ 5 * (200 * TotalWeight) = TotalWeight * 1000 /\ 5 * (160 * TotalWeight) = TotalWeight * 800
  BY WeightIsPositive
<1> QED BY <1>1, RoundedExact DEF Percent

LEMMA ScoreBounds ==
  ASSUME catalogue \in Catalogues, NEW cs, ClaimsOK(cs)
  PROVE  /\ Result(cs).score \in Nat /\ Result(cs).trusted \in Nat
         /\ Result(cs).score <= Result(cs).trusted /\ Result(cs).trusted <= 1000
<1>1. /\ Percent(Total(cs)) \in Nat /\ Percent(TotalTrusted(cs)) \in Nat
      /\ Percent(Total(cs)) <= Percent(TotalTrusted(cs))
  BY Totals, Percents, PercentGrows
<1>2. Percent(TotalTrusted(cs)) <= 1000
  BY Totals, PercentGrows, PercentExact
<1> QED BY <1>1, <1>2, Results

-----------------------------------------------------------------------------
(* What the gap list explains, and what closing gaps is worth.                  *)

LEMMA NothingTaken ==
  ASSUME catalogue \in Catalogues, NEW cs, ClaimsOK(cs),
         \A r \in Requirements : Gains(cs, r) = GainsTrusted(cs, r)
  PROVE  Result(cs).delta = 0
<1>1. Earned(cs) = Granted(cs)
  BY DEF Earned, Granted
<1>2. Percent(Total(cs)) \in Nat /\ Total(cs) = TotalTrusted(cs)
  BY <1>1, Totals, Percents DEF Total, TotalTrusted
<1> QED BY <1>2, Results

LEMMA LossIsExplained ==
  ASSUME catalogue \in Catalogues, NEW cs, ClaimsOK(cs), Result(cs).delta > 0
  PROVE  \E r \in Requirements : IsGap(cs, r) /\ Category(cs[r]) = "unverifiable"
<1>1. PICK r \in Requirements : Gains(cs, r) # GainsTrusted(cs, r)
  BY NothingTaken
<1> QED BY <1>1, Shares DEF ClaimsOK

LEMMA NoGaps ==
  ASSUME catalogue \in Catalogues, NEW cs, ClaimsOK(cs), \A r \in Requirements : ~IsGap(cs, r)
  PROVE  Result(cs).score >= 800 /\ Result(cs).delta = 0
<1>1. \A r \in Requirements : /\ Gains(cs, r) \in Nat /\ Gains(cs, r) >= 160 * Weight(r)
                              /\ Gains(cs, r) = GainsTrusted(cs, r) /\ Weight(r) \in Nat
  BY Shares, Weights DEF ClaimsOK
<1>2. Earned(cs) \in Worths /\ Weighed \in Worths
  BY ShareTypes
<1>3. \A r \in Requirements : 160 * Weighed[r] <= 1 * Earned(cs)[r]
  BY <1>1 DEF Weighed, Earned
<1>4. 160 * Sum(Weighed) <= 1 * Sum(Earned(cs))
  BY <1>2, <1>3, SumBound
<1>5. 160 * TotalWeight \in Nat /\ 160 * TotalWeight <= Total(cs) /\ Total(cs) \in Nat
  BY <1>4, WeightIsPositive, Totals DEF Total
<1>6. Percent(160 * TotalWeight) <= Percent(Total(cs)) /\ Percent(Total(cs)) \in Nat
  BY <1>5, PercentGrows, Percents
<1>7. Result(cs).score >= 800
  BY <1>6, PercentExact, Results
<1> QED BY <1>1, <1>7, NothingTaken

\* The hypothetical claims are worth a clean direct span where gaps are closed.
LEMMA ClosedShares ==
  ASSUME catalogue \in Catalogues, NEW cs, ClaimsOK(cs), NEW C, NEW r \in Requirements
  PROVE  /\ Gains(Hypothetical(cs, C), r) = IF r \in C THEN 160 * Weight(r) ELSE Gains(cs, r)
         /\ Gains(Hypothetical(cs, C), r) \in Nat
<1>1. Gains(cs, r) \in Nat /\ Weight(r) \in Nat
  BY Shares, Weights DEF ClaimsOK
<1>2. Hypothetical(cs, C)[r] = IF r \in C THEN Clean ELSE cs[r]
  BY DEF Hypothetical
<1>3. CASE r \in C
  <2>1. Gains(Hypothetical(cs, C), r) = Weight(r) * 10 * 8 * 2
    BY <1>2, <1>3, Satisfactions DEF Gains, Counted, Clean
  <2> QED BY <1>1, <1>3, <2>1
<1>4. CASE r \notin C
  BY <1>1, <1>2, <1>4 DEF Gains, Counted
<1> QED BY <1>3, <1>4

LEMMA ClosedTotals ==
  ASSUME catalogue \in Catalogues, NEW cs, ClaimsOK(cs), NEW C
  PROVE  Earned(Hypothetical(cs, C)) \in Worths /\ Total(Hypothetical(cs, C)) \in Nat
<1> DEFINE f == Earned(Hypothetical(cs, C))
<1>1. f \in Worths /\ \A r \in Requirements : 0 * f[r] <= 1 * f[r]
  BY ClosedShares DEF Earned, Worths
<1> HIDE DEF f
<1>2. Sum(f) \in Int /\ 0 * Sum(f) <= 1 * Sum(f)
  BY <1>1, SumBound, SumInt
<1>3. Sum(f) \in Nat
  BY <1>2
<1> QED BY <1>1, <1>3 DEF Total, f

LEMMA ClosingGrows ==
  ASSUME catalogue \in Catalogues, NEW cs, ClaimsOK(cs), NEW C, NEW D, C \subseteq D,
         \A r \in D : r \in Requirements /\ IsGap(cs, r)
  PROVE  Projected(cs, C) <= Projected(cs, D)
<1> DEFINE f == Earned(Hypothetical(cs, C))
           g == Earned(Hypothetical(cs, D))
<1>1. f \in Worths /\ g \in Worths
  BY ClosedTotals
<1>2. ASSUME NEW r \in Requirements
      PROVE  f[r] \in Nat /\ g[r] \in Nat /\ f[r] <= g[r]
  <2>1. r \in D => Gains(cs, r) <= 160 * Weight(r)
    BY Shares DEF ClaimsOK
  <2>2. Gains(cs, r) \in Nat /\ Weight(r) \in Nat
    BY Shares, Weights DEF ClaimsOK
  <2> QED BY <2>1, <2>2, ClosedShares DEF Earned
<1>3. \A r \in Requirements : 1 * f[r] <= 1 * g[r]
  BY <1>2
<1> HIDE DEF f, g
<1>4. 1 * Sum(f) <= 1 * Sum(g)
  BY <1>1, <1>3, SumBound
<1>5. Total(Hypothetical(cs, C)) <= Total(Hypothetical(cs, D))
  BY <1>1, <1>4, SumInt DEF Total, f, g
<1> QED BY <1>5, ClosedTotals, PercentGrows, Results DEF Projected

LEMMA ClosingNothing ==
  ASSUME NEW cs
  PROVE  Projected(cs, {}) = Result(cs).score
<1>1. ASSUME NEW r \in Requirements PROVE Hypothetical(cs, {})[r] = cs[r]
  BY DEF Hypothetical
<1>2. Earned(Hypothetical(cs, {})) = Earned(cs)
  BY <1>1 DEF Earned, Gains, Counted
<1> QED BY <1>2, Results DEF Projected, Total

\* Closing one gap adds at most its points, up to the rounding of both scores.
LEMMA ClosingOne ==
  ASSUME catalogue \in Catalogues, NEW cs, ClaimsOK(cs), NEW r \in Requirements
  PROVE  (Projected(cs, {r}) - Result(cs).score - 1) * TotalWeight <= 5 * Points(cs, r)
<1> DEFINE f == Earned(cs)
           g == Earned(Hypothetical(cs, {r}))
           x == Percent(Total(Hypothetical(cs, {r})))
           y == Percent(Total(cs))
           w == TotalWeight
<1>1. /\ Gains(cs, r) \in Nat /\ Weight(r) \in Nat /\ Gains(cs, r) <= 200 * Weight(r)
  BY Shares, Weights DEF ClaimsOK
<1>2. Points(cs, r) = 200 * Weight(r) - Gains(cs, r)
  BY <1>1, Greatest DEF Points
<1>3. Sum(g) - Sum(f) = g[r] - f[r]
  <2>1. f \in Worths /\ g \in Worths
    BY ShareTypes, ClosedTotals
  <2>2. \A q \in Requirements : q # r => f[q] = g[q]
    BY ClosedShares DEF Earned
  <2> QED BY <2>1, <2>2, SumChanged
<1>4. g[r] = 160 * Weight(r) /\ f[r] = Gains(cs, r)
  BY ClosedShares DEF Earned
<1>5. /\ x \in Nat /\ 2 * (w * x) <= 10 * Sum(g) + w /\ Sum(g) \in Nat
      /\ y \in Nat /\ 2 * (w * y) >= 10 * Sum(f) - w /\ Sum(f) \in Nat /\ w \in Nat
  BY Totals, ClosedTotals, Percents, WeightIsPositive DEF Total
<1>6. Projected(cs, {r}) = x /\ Result(cs).score = y
  BY Results DEF Projected
<1> HIDE DEF x, y, w, f, g
<1>7. (x - y - 1) * w = w * x - w * y - w /\ w * x \in Int /\ w * y \in Int
  BY <1>5
<1>8. w * x - w * y - w <= 5 * (200 * Weight(r) - Gains(cs, r))
  <2> DEFINE u == w * x
             v == w * y
  <2>1. /\ u \in Int /\ v \in Int /\ w \in Nat
        /\ 2 * u <= 10 * Sum(g) + w /\ 2 * v >= 10 * Sum(f) - w
        /\ Sum(g) \in Nat /\ Sum(f) \in Nat /\ Sum(g) - Sum(f) = 160 * Weight(r) - Gains(cs, r)
    BY <1>3, <1>4, <1>5, <1>7
  <2> HIDE DEF u, v
  <2>2. u - v - w <= 5 * (200 * Weight(r) - Gains(cs, r))
    BY <1>1, <2>1
  <2> QED BY <2>2 DEF u, v
<1> QED BY <1>2, <1>6, <1>7, <1>8 DEF w

-----------------------------------------------------------------------------
(* The invariant: claims are built in order and stored as they were built, and  *)
(* score and analysis are those of the claims that are stored.                  *)

BuiltInOrder ==
  /\ \E k \in 0..N : Judged = 1..k
  /\ \A r \in Judged : ClaimOK(r, claim[r])

ScoreInv ==
  /\ catalogue \in Catalogues
  /\ BuiltInOrder
  /\ Scored => Judged = Requirements /\ run = Result(claim)
  /\ Analysed => Scored /\ analysis = Analysis(claim)

LEMMA UnmetIsOK == ASSUME NEW r PROVE ClaimOK(r, Unmet)
  BY DEF ClaimOK, Unmet, MatchTypes

LEMMA BuildIsOK ==
  ASSUME NEW r, NEW raw \in RawClaims
  PROVE  ClaimOK(r, Build(r, raw))
<1> DEFINE valid == raw.cited \ {Foreign}
           rejected == (raw.type = "adjacent" /\ ~raw.note) \/ Foreign \in raw.cited
           kept == raw.met /\ raw.type # "none" /\ ~rejected /\ valid # {}
<1>1. CASE ~kept
  <2>1. Build(r, raw) = Unmet
    BY <1>1 DEF Build
  <2> QED BY <2>1, UnmetIsOK
<1>2. CASE kept
  <2>1. valid \subseteq Spans /\ valid # {} /\ raw.type \in MatchTypes /\ raw.type # "none"
    BY <1>2 DEF RawClaims
  <2>2. Corroboration(valid) \in 8..10 /\ Integrity(valid) \in 0..2
    BY <2>1, Corroborations, Integrities
  <2>3. Build(r, raw) =
          [met |-> TRUE, type |-> raw.type, corroboration |-> Corroboration(valid),
           integrity |-> Integrity(valid),
           contribution |-> Weight(r) * Satisfaction[raw.type] * Corroboration(valid)
                            * Integrity(valid)]
    BY <1>2 DEF Build
  <2> HIDE DEF valid, kept, rejected
  <2> QED BY <2>1, <2>2, <2>3 DEF ClaimOK
<1> QED BY <1>1, <1>2

\* Score and analysis read nothing but the catalogue and the claims.
LEMMA AnswersKept ==
  ASSUME UNCHANGED <<catalogue, claim>>
  PROVE  Result(claim)' = Result(claim) /\ Analysis(claim)' = Analysis(claim)
<1>1. TotalWeight' = TotalWeight
  BY DEF TotalWeight, Weight
<1>2. ASSUME NEW r
      PROVE  /\ Gains(claim, r)' = Gains(claim, r)
             /\ GainsTrusted(claim, r)' = GainsTrusted(claim, r)
             /\ IsGap(claim, r)' = IsGap(claim, r) /\ Points(claim, r)' = Points(claim, r)
  BY DEF Gains, GainsTrusted, Counted, IsGap, Points, Weight
<1>3. Result(claim)' = Result(claim)
  BY <1>1, <1>2 DEF Result, Percent, UnmetRequired
<1>4. ASSUME NEW C PROVE Projected(claim, C)' = Projected(claim, C)
  BY <1>1 DEF Projected, Hypothetical, Result, Percent, Gains, Counted, Weight
<1>5. Analysis(claim)' = Analysis(claim)
  <2> DEFINE gaps == {r \in Requirements : IsGap(claim, r)}
             offered == Candidates(claim, gaps)
             Closed(S) == UNION {Linked(gaps, s) : s \in S}
  <2>1. gaps' = gaps
    BY <1>2
  <2>2. ASSUME NEW s PROVE Linked(gaps, s)' = Linked(gaps, s)
    BY <2>1 DEF Linked
  <2>3. offered' = offered
    <3> DEFINE skills == {catalogue[r].skill : r \in gaps}
               ahead(s) == {t \in skills \ {s} :
                 \E r \in Linked(gaps, t) : \A q \in Linked(gaps, s) : Before(claim, r, q)}
    <3>1. ASSUME NEW r, NEW q PROVE Before(claim, r, q)' = Before(claim, r, q)
      BY <1>2 DEF Before
    <3>2. skills' = skills
      BY <2>1
    <3>3. ASSUME NEW s PROVE ahead(s)' = ahead(s)
      BY <2>2, <3>1, <3>2
    <3>4. offered = {s \in skills : Cardinality(ahead(s)) < MaxCandidates}
      BY Zenon DEF Candidates
    <3>5. offered' = {s \in skills : Cardinality(ahead(s)) < MaxCandidates}'
      BY Zenon DEF Candidates
    <3> HIDE DEF skills, ahead, offered
    <3> QED BY <3>2, <3>3, <3>4, <3>5
  <2>4. ASSUME NEW S PROVE Closed(S)' = Closed(S)
    BY <2>2
  <2>5. [S \in SUBSET offered |-> Projected(claim, Closed(S))]' =
        [S \in SUBSET offered |-> Projected(claim, Closed(S))]
    BY <1>4, <2>3, <2>4
  <2>6. [r \in gaps |-> Projected(claim, {r})]' = [r \in gaps |-> Projected(claim, {r})]
    BY <1>4, <2>1
  <2>7. [r \in gaps |-> Category(claim[r])]' = [r \in gaps |-> Category(claim[r])]
    BY <2>1
  <2> QED BY <1>3, <2>1, <2>3, <2>5, <2>6, <2>7, Zenon DEF Analysis
<1> QED BY <1>3, <1>5

LEMMA ScoreInit == Init => ScoreInv
<1>1. 0 \in 0..N /\ 1..0 = {}
  BY InputsOK
<1> SUFFICES ASSUME Init PROVE ScoreInv
  OBVIOUS
<1>2. Judged = {}
  BY DEF Init, Judged
<1> QED BY <1>1, <1>2 DEF Init, ScoreInv, BuiltInOrder, Scored, Analysed

LEMMA ScoreStep ==
  ASSUME ScoreInv, [Next]_vars
  PROVE  ScoreInv'
<1>1. CASE Judge
  <2>1. Judged # Requirements /\ ~Scored /\ ~Analysed
    BY <1>1 DEF Judge, ScoreInv
  <2>2. catalogue' = catalogue /\ ~Scored' /\ ~Analysed'
    BY <1>1, <2>1 DEF Judge, Scored, Analysed
  <2>3. PICK k \in 0..N : Judged = 1..k
    BY DEF ScoreInv, BuiltInOrder
  <2>4. N \in Nat /\ k \in Nat /\ k <= N /\ k # N
    BY <2>1, <2>3, InputsOK DEF Requirements
  <2>5. Cardinality(Judged) = k
    <3>1. 1 \in Int /\ k \in Int
      BY <2>4
    <3>2. Cardinality(1..k) = IF 1 > k THEN 0 ELSE k - 1 + 1
      BY <3>1, FS_Interval, Zenon
    <3> QED BY <2>3, <2>4, <3>2
  <2> DEFINE r == k + 1
  <2>6. PICK c \in {Build(r, raw) : raw \in RawClaims} \cup {Unmet} :
          claim' = [q \in Judged \cup {r} |-> IF q = r THEN c ELSE claim[q]]
    BY <1>1, <2>5 DEF Judge
  <2>7. ClaimOK(r, c)
    BY <2>6, BuildIsOK, UnmetIsOK
  <2>8. Judged' = 1..r /\ r \in 0..N /\ r \notin Judged
    <3>1. Judged' = Judged \cup {r}
      BY <2>6 DEF Judged
    <3>2. (1..k) \cup {k + 1} = 1..(k + 1) /\ k + 1 \in 0..N /\ k + 1 \notin 1..k
      BY <2>4
    <3> QED BY <2>3, <3>1, <3>2
  <2>9. ASSUME NEW q \in Judged' PROVE ClaimOK(q, claim[q])'
    <3>1. q \in Judged \cup {r} /\ claim'[q] = IF q = r THEN c ELSE claim[q]
      BY <2>6 DEF Judged
    <3>2. ClaimOK(q, claim'[q])
      BY <2>7, <3>1 DEF ScoreInv, BuiltInOrder
    <3>3. Weight(q)' = Weight(q)
      BY <2>2 DEF Weight
    <3> QED BY <3>2, <3>3 DEF ClaimOK
  <2>10. BuiltInOrder'
    BY <2>8, <2>9 DEF BuiltInOrder
  <2> QED BY <2>2, <2>10 DEF ScoreInv
<1>2. CASE UNCHANGED <<catalogue, claim>> /\ (Score \/ Analyse \/ UNCHANGED vars)
  <2>1. BuiltInOrder' /\ Judged' = Judged
    BY <1>2 DEF ScoreInv, BuiltInOrder, Judged, ClaimOK, Weight
  <2>2. Result(claim)' = Result(claim) /\ Analysis(claim)' = Analysis(claim)
    BY <1>2, AnswersKept
  <2>3. CASE Score
    <3>1. ~Analysed
      BY <2>3 DEF Score, ScoreInv, Scored
    <3> QED BY <1>2, <2>1, <2>2, <2>3, <3>1 DEF Score, ScoreInv, Scored, Analysed
  <2>4. CASE Analyse
    BY <1>2, <2>1, <2>2, <2>4 DEF Analyse, ScoreInv, Scored, Analysed
  <2>5. CASE UNCHANGED vars
    BY <1>2, <2>1, <2>2, <2>5 DEF vars, ScoreInv, Scored, Analysed
  <2> QED BY <1>2, <2>3, <2>4, <2>5
<1> QED BY <1>1, <1>2 DEF Next, Score, Analyse, vars

LEMMA ScoreInductive == Spec => []ScoreInv
  BY ScoreInit, ScoreStep, PTL DEF Spec

LEMMA ScoredClaims ==
  ASSUME ScoreInv, Scored
  PROVE  catalogue \in Catalogues /\ ClaimsOK(claim) /\ run = Result(claim)
  BY DEF ScoreInv, BuiltInOrder, ClaimsOK

-----------------------------------------------------------------------------
(* The theorems.                                                               *)

\* The two scores of a run keep their order and stay within 0 and 100 through
\* their separate rounding, and the stored contributions add up to the score.
THEOREM ScoresAreSound == Spec => []ScoreIsSound
<1>1. ASSUME ScoreInv, Scored
      PROVE  /\ 0 <= run.score /\ run.score <= run.trusted /\ run.trusted <= 1000
             /\ run.score = Percent(Sum([r \in Requirements |-> claim[r].contribution]))
  <2>1. catalogue \in Catalogues /\ ClaimsOK(claim) /\ run = Result(claim)
    BY <1>1, ScoredClaims
  <2>2. 0 <= run.score /\ run.score <= run.trusted /\ run.trusted <= 1000
    BY <2>1, ScoreBounds
  <2>3. Earned(claim) = [r \in Requirements |-> claim[r].contribution]
    BY <2>1, Shares DEF ClaimsOK, Earned
  <2> QED BY <2>1, <2>2, <2>3, Results DEF Total
<1>2. ScoreInv => ScoreIsSound
  BY <1>1 DEF ScoreIsSound, ScoresInRange, Reconstructible
<1> QED BY <1>2, ScoreInductive, PTL

LEMMA AnalysedClaims ==
  ASSUME ScoreInv, Analysed
  PROVE  /\ catalogue \in Catalogues /\ ClaimsOK(claim) /\ run = Result(claim)
         /\ analysis = Analysis(claim)
  BY ScoredClaims DEF ScoreInv

\* Whatever a score lacks shows in the gap list: the unmet requirements it
\* counts, evidence that is not clean and direct, points that were taken away.
THEOREM GapsExplainScores == Spec => []GapsExplainScore
<1> DEFINE gaps == {r \in Requirements : IsGap(claim, r)}
<1>1. ASSUME ScoreInv, Analysed
      PROVE  /\ catalogue \in Catalogues /\ ClaimsOK(claim) /\ run = Result(claim)
             /\ analysis.gaps = gaps
             /\ analysis.category = [r \in gaps |-> Category(claim[r])]
  BY <1>1, AnalysedClaims DEF Analysis
<1>2. ScoreInv => UnmetAreGaps
  <2> SUFFICES ASSUME ScoreInv, Analysed
               PROVE  run.unmet = Cardinality({r \in analysis.gaps :
                                    catalogue[r].required /\ claim[r].contribution = 0})
    BY DEF UnmetAreGaps
  <2>1. \A r \in Requirements : Gains(claim, r) = claim[r].contribution
    BY <1>1, Shares DEF ClaimsOK
  <2>2. {r \in Requirements : catalogue[r].required /\ Gains(claim, r) = 0} =
        {r \in gaps : catalogue[r].required /\ claim[r].contribution = 0}
    BY <2>1 DEF IsGap
  <2>3. run.unmet = UnmetRequired(claim)
    BY <1>1, Results
  <2> QED BY <1>1, <2>2, <2>3 DEF UnmetRequired
<1>3. ScoreInv => GapsExplainLoss
  <2> SUFFICES ASSUME ScoreInv, Analysed, analysis.gaps = {}
               PROVE  run.score >= 800 /\ run.delta = 0
    BY DEF GapsExplainLoss
  <2> QED BY <1>1, NoGaps
<1>4. ScoreInv => DeltaIsExplained
  <2> SUFFICES ASSUME ScoreInv, Analysed, run.delta > 0
               PROVE  \E r \in analysis.gaps : analysis.category[r] = "unverifiable"
    BY DEF DeltaIsExplained
  <2>1. PICK r \in Requirements : IsGap(claim, r) /\ Category(claim[r]) = "unverifiable"
    BY <1>1, LossIsExplained
  <2>2. r \in gaps
    BY <2>1
  <2> HIDE DEF gaps
  <2> QED BY <1>1, <2>1, <2>2
<1>5. ScoreInv => GapsExplainScore
  BY <1>2, <1>3, <1>4 DEF GapsExplainScore
<1> QED BY <1>5, ScoreInductive, PTL

\* Closing more gaps never projects less, closing none projects the score, and
\* closing one projects at most the points shown for it, rounding aside.
THEOREM ProjectionsHonest == Spec => []ProjectionsAreHonest
<1> DEFINE gaps == {r \in Requirements : IsGap(claim, r)}
           offered == Candidates(claim, gaps)
           Closed(S) == UNION {Linked(gaps, s) : s \in S}
<1>1. ASSUME ScoreInv, Analysed
      PROVE  /\ catalogue \in Catalogues /\ ClaimsOK(claim) /\ run = Result(claim)
             /\ analysis.base = Result(claim) /\ analysis.gaps = gaps
             /\ analysis.candidates = offered
             /\ analysis.projected = [r \in gaps |-> Projected(claim, {r})]
             /\ analysis.combined = [S \in SUBSET offered |-> Projected(claim, Closed(S))]
  <2>1. Analysis(claim) =
          [gaps |-> gaps, category |-> [r \in gaps |-> Category(claim[r])],
           projected |-> [r \in gaps |-> Projected(claim, {r})], candidates |-> offered,
           combined |-> [S \in SUBSET offered |-> Projected(claim, Closed(S))],
           base |-> Result(claim)]
    BY Zenon DEF Analysis
  <2> HIDE DEF gaps, offered, Closed
  <2> QED BY <1>1, <2>1, AnalysedClaims
<1>2. ScoreInv => ProjectionsGrow
  <2> SUFFICES ASSUME ScoreInv, Analysed
               PROVE  /\ analysis.base = run
                      /\ \A r \in analysis.gaps : analysis.projected[r] >= run.score
                      /\ analysis.combined[{}] = run.score
                      /\ \A S, T \in SUBSET analysis.candidates :
                           S \subseteq T => analysis.combined[S] <= analysis.combined[T]
    BY DEF ProjectionsGrow
  <2>1. ASSUME NEW r \in gaps PROVE analysis.projected[r] >= run.score
    <3>1. Projected(claim, {}) <= Projected(claim, {r})
      BY <1>1, <2>1, ClosingGrows
    <3>2. Projected(claim, {}) = run.score /\ Projected(claim, {}) \in Int
      BY <1>1, ClosingNothing, ScoreBounds
    <3>3. Projected(claim, {r}) \in Int
      BY <1>1, ClosedTotals, Percents, Results DEF Projected
    <3>4. analysis.projected[r] = Projected(claim, {r})
      BY <1>1, <2>1, Zenon
    <3> QED BY <3>1, <3>2, <3>3, <3>4
  <2>2. analysis.combined[{}] = run.score
    <3>1. Closed({}) = {}
      OBVIOUS
    <3>2. analysis.combined[{}] = Projected(claim, Closed({}))
      BY <1>1, Zenon
    <3> QED BY <1>1, <3>1, <3>2, ClosingNothing
  <2>3. ASSUME NEW S \in SUBSET offered, NEW T \in SUBSET offered, S \subseteq T
        PROVE  analysis.combined[S] <= analysis.combined[T]
    <3>1. Closed(S) \subseteq Closed(T)
      BY <2>3
    <3>2. \A r \in Closed(T) : r \in Requirements /\ IsGap(claim, r)
      BY DEF Linked
    <3>3. /\ analysis.combined[S] = Projected(claim, Closed(S))
          /\ analysis.combined[T] = Projected(claim, Closed(T))
      BY <1>1, Zenon
    <3> HIDE DEF Closed
    <3> QED BY <1>1, <3>1, <3>2, <3>3, ClosingGrows
  <2> QED BY <1>1, <2>1, <2>2, <2>3
<1>3. ScoreInv => PointsBoundGain
  <2> SUFFICES ASSUME ScoreInv, Analysed, NEW r \in analysis.gaps
               PROVE  (analysis.projected[r] - run.score - 1) * TotalWeight
                        <= 5 * Points(claim, r)
    BY DEF PointsBoundGain
  <2>1. r \in gaps
    BY <1>1
  <2>2. analysis.projected[r] = Projected(claim, {r})
    BY <1>1, <2>1, Zenon
  <2> QED BY <1>1, <2>1, <2>2, ClosingOne
<1>4. ScoreInv => ProjectionsAreHonest
  BY <1>2, <1>3 DEF ProjectionsAreHonest
<1> QED BY <1>4, ScoreInductive, PTL
=============================================================================
