---------------------------- MODULE IntegrityProofs ----------------------------
(***************************************************************************)
(* What TLAPS proves of Integrity for every document: that hidden text is   *)
(* discounted and honest text is not.  A finding and a span meet only as     *)
(* rectangles, so rectangles come first, then the detectors, then the two    *)
(* discounts.                                                               *)
(***************************************************************************)
EXTENDS Integrity, WellFoundedInduction, FiniteSetTheorems, TLAPS

-----------------------------------------------------------------------------
(* Least and greatest numbers.                                                 *)

LEMMA UpTo ==
  ASSUME NEW n \in Nat, NEW T, 0 \in T, \A k \in 0..n : k \in T /\ k < n => k + 1 \in T
  PROVE  n \in T
<1> DEFINE U == 0..n
           B == {0..k : k \in {j \in 0..n : j \notin T}}
<1>1. IsFiniteSet(U)
  <2>1. 0 \in Int /\ n \in Int
    OBVIOUS
  <2> QED BY <2>1, FS_Interval, Zenon
<1>2. IsWellFoundedOn(StrictSubsetOrdering(U), SUBSET U)
  BY <1>1, FS_StrictSubsetOrderingWellFounded, FS_FiniteSubsetsOfFinite
<1> SUFFICES ASSUME n \notin T PROVE FALSE
  OBVIOUS
<1>3. B \subseteq SUBSET U /\ B # {}
  <2>1. \A k \in 0..n : 0..k \subseteq 0..n
    OBVIOUS
  <2>2. B \subseteq SUBSET U
    BY <2>1, Zenon
  <2>3. n \in {j \in 0..n : j \notin T}
    OBVIOUS
  <2>4. 0..n \in B
    BY <2>3, Zenon
  <2> QED BY <2>2, <2>4, Zenon
<1> HIDE DEF B, U
<1>4. PICK x \in B : \A y \in B : ~(<<y, x>> \in StrictSubsetOrdering(U))
  BY <1>2, <1>3, WFMin
<1>5. PICK k \in 0..n : k \notin T /\ x = 0..k
  BY <1>4, Zenon DEF B
<1>6. k # 0
  BY <1>5
<1>7. k - 1 \in 0..n /\ k - 1 < n /\ k - 1 + 1 = k
  BY <1>5, <1>6
<1>8. k - 1 \notin T
  BY <1>5, <1>7
<1>9. 0..(k - 1) \in B
  BY <1>7, <1>8 DEF B
<1>10. k \in x /\ k \notin 0..(k - 1) /\ 0..(k - 1) \subseteq x
  BY <1>5, <1>6
<1>11. 0..(k - 1) # x
  BY <1>10, Zenon
<1>12. 0..(k - 1) \in SUBSET U /\ x \in SUBSET U
  BY <1>3, <1>4, <1>9, Zenon
<1>13. <<0..(k - 1), x>> \in StrictSubsetOrdering(U)
  BY <1>10, <1>11, <1>12 DEF StrictSubsetOrdering
<1> QED BY <1>4, <1>9, <1>13, Zenon

LEMMA LeastOf ==
  ASSUME NEW S, S \subseteq Int, S # {}, NEW lo \in Int, \A x \in S : x >= lo
  PROVE  Min(S) \in S /\ \A y \in S : Min(S) <= y
<1>1. SUFFICES ASSUME ~\E m \in S : \A y \in S : m <= y PROVE FALSE
  BY DEF Min
<1>2. PICK x \in S : TRUE
  OBVIOUS
<1> DEFINE T == {k \in Nat : \A y \in S : y >= lo + k}
           n == x - lo + 1
<1>3. n \in Nat /\ 0 \in T
  BY <1>2
<1>4. ASSUME NEW k \in T PROVE k + 1 \in T
  <2>1. lo + k \notin S
    BY <1>1
  <2>2. ASSUME NEW y \in S PROVE y >= lo + (k + 1)
    <3>1. y \in Int /\ y >= lo + k /\ y # lo + k
      BY <2>1
    <3> QED BY <3>1
  <2> QED BY <2>2
<1> HIDE DEF T
<1>5. n \in T
  BY <1>3, <1>4, UpTo
<1> QED BY <1>2, <1>5 DEF T

LEMMA GreatestOf ==
  ASSUME NEW S, S \subseteq Int, S # {}, NEW hi \in Int, \A x \in S : x <= hi
  PROVE  Max(S) \in S /\ \A y \in S : Max(S) >= y
<1>1. SUFFICES ASSUME ~\E m \in S : \A y \in S : m >= y PROVE FALSE
  BY DEF Max
<1>2. PICK x \in S : TRUE
  OBVIOUS
<1> DEFINE T == {k \in Nat : \A y \in S : y <= hi - k}
           n == hi - x + 1
<1>3. n \in Nat /\ 0 \in T
  BY <1>2
<1>4. ASSUME NEW k \in T PROVE k + 1 \in T
  <2>1. hi - k \notin S
    BY <1>1
  <2>2. ASSUME NEW y \in S PROVE y <= hi - (k + 1)
    <3>1. y \in Int /\ y <= hi - k /\ y # hi - k
      BY <2>1
    <3> QED BY <3>1
  <2> QED BY <2>2
<1> HIDE DEF T
<1>5. n \in T
  BY <1>3, <1>4, UpTo
<1> QED BY <1>2, <1>5 DEF T

LEMMA OfTwo ==
  ASSUME NEW a \in Int, NEW b \in Int
  PROVE  /\ Max({a, b}) = IF a >= b THEN a ELSE b
         /\ Min({a, b}) = IF a <= b THEN a ELSE b
<1>1. \E m \in {a, b} : \A y \in {a, b} : m >= y
  <2>1. CASE a >= b
    BY <2>1
  <2>2. CASE ~(a >= b)
    BY <2>2
  <2> QED BY <2>1, <2>2
<1>2. \E m \in {a, b} : \A y \in {a, b} : m <= y
  <2>1. CASE a <= b
    BY <2>1
  <2>2. CASE ~(a <= b)
    BY <2>2
  <2> QED BY <2>1, <2>2
<1>3. Max({a, b}) \in {a, b} /\ \A y \in {a, b} : Max({a, b}) >= y
  BY <1>1 DEF Max
<1>4. Min({a, b}) \in {a, b} /\ \A y \in {a, b} : Min({a, b}) <= y
  BY <1>2 DEF Min
<1> QED BY <1>3, <1>4

-----------------------------------------------------------------------------
(* Rectangles.                                                                 *)

Length(a, b) == Max({0, b - a})
\* What two intervals share.
Cut(a, b, c, d) == Length(Max({a, c}), Min({b, d}))

LEMMA Cuts ==
  ASSUME NEW a \in Int, NEW b \in Int, NEW c \in Int, NEW d \in Int
  PROVE  /\ Cut(a, b, c, d) \in Nat /\ Length(c, d) \in Nat
         /\ Cut(a, b, c, d) <= Length(c, d)
         /\ Cut(a, b, a, b) = Length(a, b)
         /\ \A e, f \in Int : e <= c /\ d <= f => Cut(a, b, c, d) <= Cut(a, b, e, f)
<1>1. ASSUME NEW x \in Int, NEW y \in Int
      PROVE  Length(x, y) = IF y >= x THEN y - x ELSE 0
  <2>1. Max({0, y - x}) = IF 0 >= y - x THEN 0 ELSE y - x
    BY OfTwo
  <2> QED BY <2>1 DEF Length
<1>2. ASSUME NEW e \in Int, NEW f \in Int
      PROVE  \E l, s \in Int :
               /\ Cut(a, b, e, f) = IF s >= l THEN s - l ELSE 0
               /\ l = IF a >= e THEN a ELSE e
               /\ s = IF b <= f THEN b ELSE f
  <2>1. /\ Max({a, e}) = IF a >= e THEN a ELSE e
        /\ Min({b, f}) = IF b <= f THEN b ELSE f
    BY OfTwo
  <2>2. Max({a, e}) \in Int /\ Min({b, f}) \in Int
    BY <2>1
  <2>3. Cut(a, b, e, f) = IF Min({b, f}) >= Max({a, e}) THEN Min({b, f}) - Max({a, e}) ELSE 0
    BY <1>1, <2>2 DEF Cut
  <2> QED BY <2>1, <2>2, <2>3
<1>3. PICK l \in Int, s \in Int :
        /\ Cut(a, b, c, d) = IF s >= l THEN s - l ELSE 0
        /\ l = IF a >= c THEN a ELSE c
        /\ s = IF b <= d THEN b ELSE d
  BY <1>2
<1>4. Cut(a, b, c, d) \in Nat /\ Length(c, d) \in Nat /\ Cut(a, b, c, d) <= Length(c, d)
  BY <1>1, <1>3
<1>5. Cut(a, b, a, b) = Length(a, b)
  <2>1. Cut(a, b, a, b) = IF b >= a THEN b - a ELSE 0
    BY <1>2
  <2> QED BY <1>1, <2>1
<1>6. ASSUME NEW e \in Int, NEW f \in Int, e <= c, d <= f
      PROVE  Cut(a, b, c, d) <= Cut(a, b, e, f)
  <2>1. PICK m \in Int, t \in Int :
          /\ Cut(a, b, e, f) = IF t >= m THEN t - m ELSE 0
          /\ m = IF a >= e THEN a ELSE e
          /\ t = IF b <= f THEN b ELSE f
    BY <1>2
  <2>2. m <= l /\ s <= t
    BY <1>3, <1>6, <2>1
  <2> QED BY <1>3, <2>1, <2>2
<1> QED BY <1>4, <1>5, <1>6

LEMMA ProductGrows ==
  ASSUME NEW a \in Nat, NEW b \in Nat, NEW c \in Nat, NEW d \in Nat, a <= c, b <= d
  PROVE  a * b <= c * d /\ a * b \in Nat
<1>1. a * b <= c * b /\ c * b <= c * d
  OBVIOUS
<1> QED BY <1>1

LEMMA AreaIs == ASSUME NEW b PROVE Area(b) = Length(b.x0, b.x1) * Length(b.y0, b.y1)
  BY DEF Area, Length

LEMMA CommonIs ==
  ASSUME NEW b, NEW o
  PROVE  Common(b, o) = Cut(b.x0, b.x1, o.x0, o.x1) * Cut(b.y0, b.y1, o.y0, o.y1)
  BY DEF Common, Box, Area, Cut, Length

LEMMA Rectangles ==
  ASSUME NEW b, NEW o, IsBox(b), IsBox(o)
  PROVE  /\ Common(b, o) \in Nat /\ Area(o) \in Nat /\ Common(b, o) <= Area(o)
         /\ Common(b, b) = Area(b)
         /\ \A q : IsBox(q) /\ Inside(o, q) => Common(b, o) <= Common(b, q)
<1>1. /\ b.x0 \in Int /\ b.y0 \in Int /\ b.x1 \in Int /\ b.y1 \in Int
      /\ o.x0 \in Int /\ o.y0 \in Int /\ o.x1 \in Int /\ o.y1 \in Int
  BY DEF IsBox
<1> DEFINE u == Cut(b.x0, b.x1, o.x0, o.x1)
           v == Cut(b.y0, b.y1, o.y0, o.y1)
<1>2. /\ u \in Nat /\ Length(o.x0, o.x1) \in Nat /\ u <= Length(o.x0, o.x1)
      /\ v \in Nat /\ Length(o.y0, o.y1) \in Nat /\ v <= Length(o.y0, o.y1)
  BY <1>1, Cuts
<1>3. /\ Common(b, o) = u * v /\ Area(o) = Length(o.x0, o.x1) * Length(o.y0, o.y1)
  BY CommonIs, AreaIs
<1>4. Common(b, b) = Area(b)
  BY <1>1, Cuts, CommonIs, AreaIs
<1>5. ASSUME NEW q, IsBox(q), Inside(o, q)
      PROVE  Common(b, o) <= Common(b, q)
  <2>1. /\ q.x0 \in Int /\ q.y0 \in Int /\ q.x1 \in Int /\ q.y1 \in Int
        /\ q.x0 <= o.x0 /\ o.x1 <= q.x1 /\ q.y0 <= o.y0 /\ o.y1 <= q.y1
    BY <1>1, <1>5 DEF IsBox, Inside
  <2> DEFINE x == Cut(b.x0, b.x1, q.x0, q.x1)
             y == Cut(b.y0, b.y1, q.y0, q.y1)
  <2>2. x \in Nat /\ y \in Nat /\ u <= x /\ v <= y
    BY <1>1, <2>1, Cuts
  <2>3. Common(b, q) = x * y
    BY CommonIs
  <2> HIDE DEF u, v, x, y
  <2> QED BY <1>2, <1>3, <2>2, <2>3, ProductGrows
<1> HIDE DEF u, v
<1>6. u * v \in Nat /\ u * v <= Length(o.x0, o.x1) * Length(o.y0, o.y1)
  BY <1>2, ProductGrows
<1>7. Length(o.x0, o.x1) * Length(o.y0, o.y1) \in Nat
  BY <1>2, ProductGrows
<1> QED BY <1>3, <1>4, <1>5, <1>6, <1>7

\* What lies around characters of a span lies in the span.
LEMMA AroundCharacters ==
  ASSUME NEW t, SpanOK(t), NEW I, I # {}, I \subseteq DOMAIN t.chars
  PROVE  IsBox(Neighbourhood(t, I)) /\ Inside(Neighbourhood(t, I), t.box)
<1> DEFINE J == {j \in DOMAIN t.chars : \E i \in I : j \in i - 1 .. i + 1}
           B == {t.chars[j] : j \in J}
<1>1. PICK i \in I : i \in 1..Len(t.chars) /\ i \in DOMAIN t.chars /\ Len(t.chars) \in Nat
  BY DEF SpanOK, IsSeq
<1>2. i \in J
  <2>1. i \in i - 1 .. i + 1
    BY <1>1
  <2> QED BY <1>1, <2>1
<1>3. B # {} /\ \A b \in B : IsBox(b) /\ Inside(b, t.box)
  BY <1>2 DEF SpanOK
<1>4. Neighbourhood(t, I) = Around(B)
  BY DEF Neighbourhood
<1> HIDE DEF J, B
<1>5. /\ t.box.x0 \in Int /\ t.box.y0 \in Int /\ t.box.x1 \in Int /\ t.box.y1 \in Int
      /\ \A b \in B : /\ b.x0 \in Int /\ b.y0 \in Int /\ b.x1 \in Int /\ b.y1 \in Int
                      /\ b.x0 >= t.box.x0 /\ b.y0 >= t.box.y0
                      /\ b.x1 <= t.box.x1 /\ b.y1 <= t.box.y1
  BY <1>3 DEF SpanOK, IsBox, Inside
<1> DEFINE X0 == {b.x0 : b \in B}
           Y0 == {b.y0 : b \in B}
           X1 == {b.x1 : b \in B}
           Y1 == {b.y1 : b \in B}
<1>6. /\ X0 \subseteq Int /\ X0 # {} /\ \A x \in X0 : x >= t.box.x0
      /\ Y0 \subseteq Int /\ Y0 # {} /\ \A x \in Y0 : x >= t.box.y0
      /\ X1 \subseteq Int /\ X1 # {} /\ \A x \in X1 : x <= t.box.x1
      /\ Y1 \subseteq Int /\ Y1 # {} /\ \A x \in Y1 : x <= t.box.y1
  BY <1>3, <1>5
<1>7. Around(B) = [x0 |-> Min(X0), y0 |-> Min(Y0), x1 |-> Max(X1), y1 |-> Max(Y1)]
  BY DEF Around, Box
<1> HIDE DEF X0, Y0, X1, Y1
<1>8. Min(X0) \in X0 /\ Min(Y0) \in Y0
  BY <1>5, <1>6, LeastOf
<1>9. Max(X1) \in X1 /\ Max(Y1) \in Y1
  BY <1>5, <1>6, GreatestOf
<1>10. /\ Min(X0) \in Int /\ Min(Y0) \in Int /\ Max(X1) \in Int /\ Max(Y1) \in Int
       /\ Min(X0) >= t.box.x0 /\ Min(Y0) >= t.box.y0
       /\ Max(X1) <= t.box.x1 /\ Max(Y1) <= t.box.y1
  BY <1>6, <1>8, <1>9
<1> QED BY <1>4, <1>7, <1>10 DEF IsBox, Inside

-----------------------------------------------------------------------------
(* The findings of a page.                                                     *)

Reported == UNION {{[page |-> p, severity |-> f.severity, box |-> f.box] :
                      f \in RunOn(document[p])} : p \in DOMAIN document}

LEMMA ReportedOf ==
  /\ \A p \in DOMAIN document : \A f \in RunOn(document[p]) :
       [page |-> p, severity |-> f.severity, box |-> f.box] \in Reported
  /\ \A g \in Reported : \E p \in DOMAIN document : \E f \in RunOn(document[p]) :
       g = [page |-> p, severity |-> f.severity, box |-> f.box]
  BY DEF Reported

Severities == {"info", "suspicious", "high"}
LEMMA SeverityIs == ASSUME NEW high PROVE SeverityIf(high) \in Severities
  BY DEF SeverityIf, Severities

LEMMA SpanIs ==
  ASSUME document \in Documents, NEW s \in Spans
  PROVE  /\ s[1] \in DOMAIN document /\ PageOK(document[s[1]])
         /\ s[2] \in DOMAIN document[s[1]].spans /\ Span(s) = document[s[1]].spans[s[2]]
         /\ SpanOK(Span(s)) /\ Span(s) \in On(document[s[1]])
<1>1. PICK p \in DOMAIN document : \E i \in DOMAIN document[p].spans : s = <<p, i>>
  BY DEF Spans
<1>2. PICK i \in DOMAIN document[p].spans : s = <<p, i>>
  BY <1>1
<1>3. PageOK(document[p])
  BY DocumentsOK
<1> QED BY <1>2, <1>3 DEF Span, On, PageOK

LEMMA FiniteImage ==
  ASSUME NEW S, IsFiniteSet(S), NEW f
  PROVE  IsFiniteSet({f[x] : x \in S})
<1> DEFINE T == {f[x] : x \in S}
           g == [x \in S |-> f[x]]
<1>1. g \in Surjection(S, T)
  BY DEF Surjection
<1> HIDE DEF g, T
<1>2. IsFiniteSet(T)
  BY <1>1, FS_Surjection
<1> QED BY <1>2 DEF T

LEMMA SpansFinite ==
  ASSUME document \in Documents
  PROVE  IsFiniteSet(Spans)
<1> DEFINE Place(p) == {<<p, i>> : i \in DOMAIN document[p].spans}
           All == {Place(p) : p \in DOMAIN document}
<1>1. /\ Len(document) \in Nat /\ DOMAIN document = 1..Len(document)
      /\ \A p \in DOMAIN document : PageOK(document[p])
  BY DocumentsOK DEF IsSeq
<1>2. IsFiniteSet(DOMAIN document)
  <2>1. 1 \in Int /\ Len(document) \in Int
    BY <1>1
  <2> QED BY <1>1, <2>1, FS_Interval, Zenon
<1>3. IsFiniteSet(All)
  <2> DEFINE f == [p \in DOMAIN document |-> Place(p)]
  <2>1. IsFiniteSet({f[p] : p \in DOMAIN document})
    BY <1>2, FiniteImage, Zenon
  <2>2. {f[p] : p \in DOMAIN document} = All
    OBVIOUS
  <2> QED BY <2>1, <2>2
<1>4. ASSUME NEW p \in DOMAIN document PROVE IsFiniteSet(Place(p))
  <2> DEFINE D == DOMAIN document[p].spans
  <2>1. Len(document[p].spans) \in Nat /\ D = 1..Len(document[p].spans)
    BY <1>1 DEF PageOK, IsSeq
  <2>2. 1 \in Int /\ Len(document[p].spans) \in Int
    BY <2>1
  <2>3. IsFiniteSet(D)
    BY <2>1, <2>2, FS_Interval, Zenon
  <2> HIDE DEF D
  <2> DEFINE f == [i \in D |-> <<p, i>>]
  <2>4. IsFiniteSet({f[i] : i \in D})
    BY <2>3, FiniteImage, Zenon
  <2>5. {f[i] : i \in D} = {<<p, i>> : i \in D}
    OBVIOUS
  <2> QED BY <2>4, <2>5 DEF D
<1>5. \A P \in All : IsFiniteSet(P)
  BY <1>4
<1>6. Spans = UNION All
  BY DEF Spans
<1> HIDE DEF All
<1> QED BY <1>3, <1>5, <1>6, FS_UNION

LEMMA Modes ==
  ASSUME NEW p, PageOK(p)
  PROVE  /\ Cardinality(Invisible(p)) \in Nat /\ Visible(p) \in Nat /\ Len(p.spans) \in Nat
         /\ Cardinality(Invisible(p)) + Visible(p) = Len(p.spans)
         /\ Visible(p) = 0 => \A i \in DOMAIN p.spans : p.spans[i].mode = 3
<1> DEFINE D == DOMAIN p.spans
           V == {i \in D : p.spans[i].mode # 3}
<1>1. Len(p.spans) \in Nat /\ D = 1..Len(p.spans)
  BY DEF PageOK, IsSeq
<1>2. IsFiniteSet(D) /\ Cardinality(D) = Len(p.spans)
  <2>1. 1 \in Int /\ Len(p.spans) \in Int
    BY <1>1
  <2>2. /\ IsFiniteSet(1..Len(p.spans))
        /\ Cardinality(1..Len(p.spans)) = IF 1 > Len(p.spans) THEN 0 ELSE Len(p.spans) - 1 + 1
    BY <2>1, FS_Interval, Zenon
  <2> QED BY <1>1, <2>2
<1>3. Invisible(p) \subseteq D /\ V = D \ Invisible(p) /\ D \cap Invisible(p) = Invisible(p)
  BY DEF Invisible
<1>4. IsFiniteSet(V) /\ Cardinality(V) = Cardinality(D) - Cardinality(D \cap Invisible(p))
  <2>1. /\ IsFiniteSet(D \ Invisible(p))
        /\ Cardinality(D \ Invisible(p)) = Cardinality(D) - Cardinality(D \cap Invisible(p))
    BY <1>2, FS_Difference, ZenonT(30)
  <2> QED BY <1>3, <2>1, Zenon
<1>5. Cardinality(Invisible(p)) \in Nat /\ Cardinality(V) \in Nat
  BY <1>2, <1>3, <1>4, FS_Subset, FS_CardinalityType
<1>6. Visible(p) = Cardinality(V)
  BY DEF Visible
<1>7. Visible(p) = 0 => \A i \in D : p.spans[i].mode = 3
  <2>1. Cardinality(V) = 0 => V = {}
    BY <1>4, FS_EmptySet
  <2> QED BY <1>6, <2>1
<1> HIDE DEF V
<1>8. Cardinality(Invisible(p)) + Visible(p) = Len(p.spans)
  <2>1. Cardinality(V) = Len(p.spans) - Cardinality(Invisible(p))
    BY <1>2, <1>3, <1>4, Zenon
  <2> QED BY <1>1, <1>5, <1>6, <2>1
<1> QED BY <1>1, <1>5, <1>6, <1>7, <1>8

\* What either discount looks for.
Over(s, f) == f.page = s[1] /\ Within(Span(s).box, f.box, 1, 2)

\* A finding that holds half of a span is over the span.
LEMMA Marked ==
  ASSUME document \in Documents, findings = Reported, NEW s \in Spans,
         NEW f \in RunOn(document[s[1]]), Within(Span(s).box, f.box, 1, 2)
  PROVE  \E g \in findings : g.severity = f.severity /\ Over(s, g)
<1> DEFINE g == [page |-> s[1], severity |-> f.severity, box |-> f.box]
<1>1. g \in findings
  BY SpanIs, ReportedOf
<1>2. Over(s, g)
  BY DEF Over
<1> QED BY <1>1, <1>2

LEMMA HiddenIsFlagged ==
  ASSUME document \in Documents, findings = Reported, NEW s \in Spans, Drawn(s), Hidden(s)
  PROVE  \E g \in findings : g.severity = "high" /\ Over(s, g)
<1> DEFINE t == Span(s)
           p == document[s[1]]
<1>1. /\ PageOK(p) /\ s[2] \in DOMAIN p.spans /\ t = p.spans[s[2]] /\ SpanOK(t) /\ t \in On(p)
      /\ Area(t.box) > 0 /\ ~t.blank
  BY SpanIs DEF Drawn
<1>2. Within(t.box, t.box, 1, 2)
  <2>1. IsBox(t.box)
    BY <1>1 DEF SpanOK
  <2>2. Common(t.box, t.box) = Area(t.box) /\ Area(t.box) \in Nat
    BY <2>1, Rectangles
  <2> QED BY <1>1, <2>2 DEF Within
<1> SUFFICES \E f \in RunOn(p) : f.severity = "high" /\ Within(t.box, f.box, 1, 2)
  BY <1>1, Marked
<1> HIDE DEF t, p
<1>3. ASSUME NEW by, NEW b, Report(by, "high", b) \in RunOn(p), Within(t.box, b, 1, 2)
      PROVE  \E f \in RunOn(p) : f.severity = "high" /\ Within(t.box, f.box, 1, 2)
  BY <1>3 DEF Report
<1>4. CASE t.mode = 3 /\ (10 * Visible(p) > Len(p.spans) \/ \A i \in p.images : ~CoversHalf(i, p))
  <2>1. s[2] \in Invisible(p)
    BY <1>1, <1>4 DEF Invisible
  <2>2. ~LooksScanned(p)
    BY <1>1, <1>4, Modes DEF LooksScanned, CoversHalf
  <2>3. Report("D1", "high", p.spans[s[2]].box) \in InvisibleRenderMode(p)
    BY <2>1, <2>2 DEF InvisibleRenderMode
  <2>4. Report("D1", "high", t.box) \in RunOn(p)
    BY <1>1, <2>3 DEF RunOn
  <2> QED BY <1>2, <1>3, <2>4
<1>5. CASE t.mode # 3 /\ t.contrast < 11
  <2>1. t.contrast < 16 /\ SeverityIf(t.contrast < 11) = "high"
    BY <1>1, <1>5 DEF SpanOK, SeverityIf
  <2>2. Report("D2", "high", t.box) \in LowContrast(p)
    BY <1>1, <1>5, <2>1 DEF LowContrast
  <2>3. Report("D2", "high", t.box) \in RunOn(p)
    BY <2>2 DEF RunOn
  <2> QED BY <1>2, <1>3, <2>3
<1>6. CASE t.mode # 3 /\ t.size < 2
  <2>1. t.size < 4 /\ SeverityIf(t.size < 2) = "high"
    BY <1>1, <1>6 DEF SpanOK, SeverityIf
  <2>2. Report("D3", "high", t.box) \in MicroType(p)
    BY <1>1, <1>6, <2>1 DEF MicroType
  <2>3. Report("D3", "high", t.box) \in RunOn(p)
    BY <2>2 DEF RunOn
  <2> QED BY <1>2, <1>3, <2>3
<1>7. CASE Common(t.box, p.crop) = 0
  <2>1. ~Within(t.box, p.crop, 1, 2)
    <3>1. Area(t.box) \in Nat
      BY <1>1, Rectangles DEF SpanOK
    <3> QED BY <1>1, <1>7, <3>1 DEF Within
  <2>2. SeverityIf(Common(t.box, p.crop) = 0) = "high"
    BY <1>7 DEF SeverityIf
  <2>3. Report("D4", "high", t.box) \in OffCanvas(p)
    BY <1>1, <2>1, <2>2 DEF OffCanvas
  <2>4. Report("D4", "high", t.box) \in RunOn(p)
    BY <2>3 DEF RunOn
  <2> QED BY <1>2, <1>3, <2>4
<1>8. CASE /\ Within(t.box, p.crop, 1, 2)
           /\ \E i \in p.images : i.seq > t.seq /\ Within(t.box, i.box, 19, 20)
  <2>1. Covered(p, t)
    BY <1>8 DEF Covered
  <2>2. Report("D4", "high", t.box) \in OffCanvas(p)
    BY <1>1, <1>8, <2>1 DEF OffCanvas
  <2>3. Report("D4", "high", t.box) \in RunOn(p)
    BY <2>2 DEF RunOn
  <2> QED BY <1>2, <1>3, <2>3
<1>9. CASE p.ocr /\ \E l \in p.lines : ~l.short /\ l.score < 30 /\ Within(t.box, l.box, 1, 2)
  <2>1. PICK l \in p.lines : p.ocr /\ ~l.short /\ l.score < 30 /\ Within(t.box, l.box, 1, 2)
    BY <1>9
  <2>2. l.score < 72 /\ SeverityIf(l.score < 30) = "high"
    BY <1>1, <2>1 DEF PageOK, SeverityIf
  <2>3. Report("D6", "high", l.box) \in ExtractionDelta(p)
    BY <2>1, <2>2 DEF ExtractionDelta
  <2>4. Report("D6", "high", l.box) \in RunOn(p)
    BY <2>3 DEF RunOn
  <2> QED BY <1>3, <2>1, <2>4
<1>10. \/ t.mode = 3 /\ (10 * Visible(p) > Len(p.spans) \/ \A i \in p.images : ~CoversHalf(i, p))
       \/ t.mode # 3 /\ (t.contrast < 11 \/ t.size < 2)
       \/ Common(t.box, p.crop) = 0
       \/ /\ Within(t.box, p.crop, 1, 2)
          /\ \E i \in p.images : i.seq > t.seq /\ Within(t.box, i.box, 19, 20)
       \/ p.ocr /\ \E l \in p.lines : ~l.short /\ l.score < 30 /\ Within(t.box, l.box, 1, 2)
  BY Zenon DEF Hidden, t, p
<1> QED BY <1>4, <1>5, <1>6, <1>7, <1>8, <1>9, <1>10

\* A finding on a box that shares nothing with a span is not over it.
LEMMA Apart ==
  ASSUME NEW b, NEW o, IsBox(b), IsBox(o), Common(b, o) = 0
  PROVE  ~Within(b, o, 1, 2) /\ ~Within(b, o, 19, 20)
         /\ \A q : IsBox(q) /\ Inside(q, o) => Common(b, q) = 0 /\ ~Within(b, q, 1, 2)
<1>1. Area(b) \in Nat /\ Common(b, o) \in Nat
  BY Rectangles
<1>2. ASSUME NEW q, IsBox(q), Common(b, q) = 0
      PROVE  ~Within(b, q, 1, 2) /\ ~Within(b, q, 19, 20)
  BY <1>1, <1>2 DEF Within
<1>3. ASSUME NEW q, IsBox(q), Inside(q, o) PROVE Common(b, q) = 0
  <2>1. Common(b, q) \in Nat /\ Common(b, q) <= Common(b, o)
    BY <1>3, Rectangles
  <2> QED BY <2>1
<1> QED BY <1>2, <1>3

LEMMA HonestIsUnflagged ==
  ASSUME document \in Documents, findings = Reported, NEW s \in Spans, Honest(s),
         NEW g \in findings, Over(s, g)
  PROVE  g.severity = "info"
<1> DEFINE t == Span(s)
           p == document[s[1]]
<1>1. /\ PageOK(p) /\ s[2] \in DOMAIN p.spans /\ t = p.spans[s[2]] /\ SpanOK(t)
      /\ IsBox(t.box) /\ IsBox(p.crop) /\ \A i \in p.images : IsBox(i.box)
      /\ \A i \in DOMAIN p.spans : SpanOK(p.spans[i]) /\ IsBox(p.spans[i].box)
      /\ \A l \in p.lines : l.score \in Int /\ IsBox(l.box)
  BY SpanIs DEF SpanOK, PageOK
<1>2. PICK f \in RunOn(p) : f.box = g.box /\ f.severity = g.severity
  <2>1. PICK q \in DOMAIN document : \E f \in RunOn(document[q]) :
          g = [page |-> q, severity |-> f.severity, box |-> f.box]
    BY ReportedOf
  <2>2. q = s[1]
    BY <2>1 DEF Over
  <2> QED BY <2>1, <2>2
<1>3. Within(t.box, f.box, 1, 2)
  BY <1>2 DEF Over
<1>4. /\ Area(t.box) > 0 /\ ~t.blank /\ Within(t.box, p.crop, 1, 2)
      /\ t.mode = 3 => Visible(p) = 0 /\ \E i \in p.images : CoversHalf(i, p)
      /\ t.mode # 3 => t.contrast >= 16 /\ t.size >= 4
      /\ \A i \in p.images : i.seq > t.seq => Common(t.box, i.box) = 0
      /\ t.zero = {} /\ t.bidi = {} /\ Cardinality(t.mixed) < 2
      /\ p.ocr => \A l \in p.lines : l.short \/ l.score >= 72 \/ Common(t.box, l.box) = 0
      /\ \A j \in DOMAIN p.spans : j # s[2] => Common(t.box, p.spans[j].box) = 0
  BY DEF Honest, Drawn
<1> HIDE DEF t, p
\* Whatever is marked within the box of a span is marked for this one.
<1>5. ASSUME NEW u \in On(p), NEW b, IsBox(b), Inside(b, u.box), Within(t.box, b, 1, 2)
      PROVE  u = t
  <2>1. PICK j \in DOMAIN p.spans : u = p.spans[j]
    BY DEF On
  <2>2. CASE j = s[2]
    BY <1>1, <2>1, <2>2
  <2>3. CASE j # s[2]
    <3>1. Common(t.box, u.box) = 0 /\ IsBox(u.box)
      BY <1>1, <1>4, <2>1, <2>3
    <3> QED BY <1>1, <1>5, <3>1, Apart
  <2> QED BY <2>2, <2>3
<1>6. ASSUME NEW u \in On(p), Within(t.box, u.box, 1, 2)
      PROVE  u = t
  <2>1. IsBox(u.box) /\ Inside(u.box, u.box)
    BY <1>1 DEF On, IsBox, Inside
  <2> QED BY <1>5, <1>6, <2>1
<1>7. CASE f \in InvisibleRenderMode(p)
  <2>1. CASE t.mode = 3
    <3>1. Cardinality(Invisible(p)) = Len(p.spans) /\ Len(p.spans) \in Nat
      BY <1>1, <1>4, <2>1, Modes
    <3>2. Area(p.crop) > 0
      <4>1. Common(t.box, p.crop) \in Nat /\ Area(p.crop) \in Nat /\ Area(t.box) \in Nat
            /\ Common(t.box, p.crop) <= Area(p.crop)
        BY <1>1, Rectangles
      <4>2. 2 * Common(t.box, p.crop) >= 1 * Area(t.box)
        BY <1>4 DEF Within
      <4> QED BY <1>4, <4>1, <4>2
    <3>3. LooksScanned(p)
      BY <1>4, <2>1, <3>1, <3>2 DEF LooksScanned, CoversHalf
    <3>4. s[2] \in Invisible(p)
      BY <1>1, <2>1 DEF Invisible
    <3>5. f = Report("D1", "info", p.crop)
      BY <1>7, <3>3, <3>4 DEF InvisibleRenderMode
    <3> QED BY <1>2, <3>5 DEF Report
  <2>2. CASE t.mode # 3
    <3>1. CASE f = Report("D1", "info", p.crop)
      BY <1>2, <3>1 DEF Report
    <3>2. CASE \E i \in Invisible(p) : f = Report("D1", "high", p.spans[i].box)
      <4>1. PICK i \in Invisible(p) : f.box = p.spans[i].box
        BY <3>2 DEF Report
      <4>2. i \in DOMAIN p.spans /\ p.spans[i].mode = 3
        BY DEF Invisible
      <4>3. p.spans[i] \in On(p)
        BY <4>2 DEF On
      <4>4. p.spans[i] = t
        BY <1>3, <1>6, <4>1, <4>3
      <4> QED BY <2>2, <4>2, <4>4
    <3> QED BY <1>7, <3>1, <3>2 DEF InvisibleRenderMode
  <2> QED BY <2>1, <2>2
<1>8. f \notin LowContrast(p)
  <2> SUFFICES ASSUME f \in LowContrast(p) PROVE FALSE
    OBVIOUS
  <2>1. PICK u \in On(p) : u.mode # 3 /\ u.contrast < 16 /\ f.box = u.box
    BY DEF LowContrast, Report
  <2>2. u = t
    BY <1>3, <1>6, <2>1
  <2> QED BY <1>1, <1>4, <2>1, <2>2 DEF SpanOK
<1>9. f \notin MicroType(p)
  <2> SUFFICES ASSUME f \in MicroType(p) PROVE FALSE
    OBVIOUS
  <2>1. PICK u \in On(p) : u.mode # 3 /\ u.size < 4 /\ f.box = u.box
    BY DEF MicroType, Report
  <2>2. u = t
    BY <1>3, <1>6, <2>1
  <2> QED BY <1>1, <1>4, <2>1, <2>2 DEF SpanOK
<1>10. f \notin OffCanvas(p)
  <2> SUFFICES ASSUME f \in OffCanvas(p) PROVE FALSE
    OBVIOUS
  <2>1. PICK u \in On(p) : f.box = u.box /\ (~Within(u.box, p.crop, 1, 2) \/ Covered(p, u))
    BY DEF OffCanvas, Report
  <2>2. u = t
    BY <1>3, <1>6, <2>1
  <2>3. PICK i \in p.images : i.seq > t.seq /\ Within(t.box, i.box, 19, 20)
    BY <1>4, <2>1, <2>2 DEF Covered
  <2>4. IsBox(i.box) /\ Common(t.box, i.box) = 0
    BY <1>1, <1>4, <2>3
  <2> QED BY <1>1, <2>3, <2>4, Apart
<1>11. f \notin UnicodeAnomalies(p)
  <2>1. ASSUME NEW u \in On(p), NEW I, I # {}, I \subseteq DOMAIN u.chars,
               f.box = Neighbourhood(u, I)
        PROVE  u = t
    <3>1. SpanOK(u)
      BY <1>1 DEF On
    <3>2. IsBox(f.box) /\ Inside(f.box, u.box)
      BY <2>1, <3>1, AroundCharacters
    <3> QED BY <1>3, <1>5, <3>2
  <2>2. ASSUME NEW u \in On(p)
        PROVE  /\ u.zero \subseteq DOMAIN u.chars /\ u.bidi \subseteq DOMAIN u.chars
               /\ Cardinality(u.mixed) >= 2 =>
                    UNION u.mixed # {} /\ UNION u.mixed \subseteq DOMAIN u.chars
    <3>1. SpanOK(u)
      BY <1>1 DEF On
    <3>2. Cardinality(u.mixed) >= 2 => u.mixed # {}
      BY FS_EmptySet
    <3> QED BY <3>1, <3>2 DEF SpanOK
  <2> SUFFICES ASSUME f \in UnicodeAnomalies(p) PROVE FALSE
    OBVIOUS
  <2>3. PICK u \in On(p) :
          \/ u.zero # {} /\ f.box = Neighbourhood(u, u.zero)
          \/ u.bidi # {} /\ f.box = Neighbourhood(u, u.bidi)
          \/ Cardinality(u.mixed) >= 2 /\ f.box = Neighbourhood(u, UNION u.mixed)
    <3>1. CASE f \in {Report("D5", "suspicious", Neighbourhood(u, u.zero)) :
                        u \in {u \in On(p) : u.zero # {}}}
      BY <3>1 DEF Report
    <3>2. CASE f \in {Report("D5", "high", Neighbourhood(u, u.bidi)) :
                        u \in {u \in On(p) : u.bidi # {}}}
      BY <3>2 DEF Report
    <3>3. CASE f \in {Report("D5", "suspicious", Neighbourhood(u, UNION u.mixed)) :
                        u \in {u \in On(p) : Cardinality(u.mixed) >= 2}}
      <4>1. PICK u \in {u \in On(p) : Cardinality(u.mixed) >= 2} :
              f = Report("D5", "suspicious", Neighbourhood(u, UNION u.mixed))
        BY <3>3
      <4>2. u \in On(p) /\ Cardinality(u.mixed) >= 2
        BY <4>1
      <4>3. f.box = Neighbourhood(u, UNION u.mixed)
        BY <4>1 DEF Report
      <4> QED BY <4>2, <4>3
    <3> QED BY <3>1, <3>2, <3>3 DEF UnicodeAnomalies
  <2>4. u = t
    BY <2>1, <2>2, <2>3
  <2>5. Cardinality(t.mixed) >= 2
    BY <1>4, <2>3, <2>4
  <2>6. Cardinality(t.mixed) \in Nat
    <3>1. Len(t.chars) \in Int /\ 1 \in Int /\ DOMAIN t.chars = 1..Len(t.chars)
      BY <1>1 DEF SpanOK, IsSeq
    <3>2. IsFiniteSet(DOMAIN t.chars)
      BY <3>1, FS_Interval, Zenon
    <3>3. t.mixed \subseteq SUBSET DOMAIN t.chars
      BY <1>1 DEF SpanOK
    <3> QED BY <3>2, <3>3, FS_SUBSET, FS_Subset, FS_CardinalityType
  <2> QED BY <1>4, <2>5, <2>6
<1>12. f \notin ExtractionDelta(p)
  <2> SUFFICES ASSUME f \in ExtractionDelta(p) PROVE FALSE
    OBVIOUS
  <2>1. PICK l \in p.lines : p.ocr /\ ~l.short /\ l.score < 72 /\ f.box = l.box
    BY DEF ExtractionDelta, Report
  <2>2. l.score \in Int /\ IsBox(l.box)
    BY <1>1
  <2>3. Common(t.box, l.box) = 0
    BY <1>4, <2>1, <2>2
  <2> QED BY <1>1, <1>3, <2>1, <2>2, <2>3, Apart
<1> QED BY <1>2, <1>7, <1>8, <1>9, <1>10, <1>11, <1>12 DEF RunOn

-----------------------------------------------------------------------------
(* The two discounts.                                                          *)

LEMMA Bases ==
  ASSUME NEW n \in Nat
  PROVE  /\ Base(n) \in 500..900
         /\ n > 0 => Base(n) >= 600
         /\ n > 0 /\ Shows(n) => 2 * Base(n) > n
<1>1. Base(n) = IF 500 + 100 * n <= 900 THEN 500 + 100 * n ELSE 900
  <2>1. 500 + 100 * n \in Int /\ 900 \in Int
    OBVIOUS
  <2> QED BY <2>1, OfTwo DEF Base
<1> QED BY <1>1 DEF Shows

LEMMA Roundings ==
  ASSUME NEW a \in Nat, NEW b \in Nat \ {0}, NEW v \in Nearest(a, b)
  PROVE  v \in Int /\ 2 * a - b <= 2 * (b * v) /\ 2 * (b * v) <= 2 * a + b
<1>1. a \div b \in Int
  OBVIOUS
<1>2. v \in Int /\ 2 * a - b <= 2 * b * v /\ 2 * b * v <= 2 * a + b
  BY <1>1 DEF Nearest
<1>3. 2 * b * v = 2 * (b * v)
  BY <1>2
<1> QED BY <1>2, <1>3

\* A skill of n mentions keeps its base exactly if c of them, all, are clean.
LEMMA Discounted ==
  ASSUME NEW n \in Nat \ {0}, NEW c \in 0..n,
         NEW v \in IF c = 0 THEN {150} ELSE Nearest(Base(n) * c, n)
  PROVE  /\ c = n => v = Base(n)
         /\ c < n /\ Shows(n) => v < Base(n)
         /\ c = 0 => v = 150
<1> DEFINE b == Base(n)
<1>1. b \in 500..900 /\ b >= 600 /\ (Shows(n) => 2 * b > n)
  BY Bases
<1> HIDE DEF b
<1>2. CASE c = 0
  BY <1>1, <1>2 DEF b
<1>3. CASE c # 0
  <2>1. v \in Nearest(b * c, n) /\ b * c \in Nat
    BY <1>1, <1>3 DEF b
  <2>2. v \in Int /\ 2 * (b * c) - n <= 2 * (n * v) /\ 2 * (n * v) <= 2 * (b * c) + n
    BY <2>1, Roundings
  <2>3. ASSUME c = n PROVE v = b
    <3>1. b * c = n * b
      BY <1>1, <2>3
    <3>2. CASE v > b
      <4>1. n * v >= n * (b + 1) /\ n * (b + 1) = n * b + n
        BY <1>1, <2>2, <3>2
      <4> QED BY <1>1, <2>2, <3>1, <4>1
    <3>3. CASE v < b
      <4>1. n * b >= n * (v + 1) /\ n * (v + 1) = n * v + n
        BY <1>1, <2>2, <3>3
      <4> QED BY <1>1, <2>2, <3>1, <4>1
    <3> QED BY <1>1, <2>2, <3>2, <3>3
  <2>4. ASSUME c < n, 2 * b > n, v >= b PROVE FALSE
    <3>1. n * v >= n * b
      BY <1>1, <2>2, <2>4
    <3>2. b * c <= b * (n - 1) /\ b * (n - 1) = n * b - b
      BY <1>1, <2>4
    <3> DEFINE x == n * v
               y == b * c
               z == n * b
    <3>3. x \in Int /\ y \in Int /\ z \in Int /\ 2 * x <= 2 * y + n /\ x >= z /\ y <= z - b
      BY <1>1, <2>2, <3>1, <3>2
    <3> HIDE DEF x, y, z
    <3> QED BY <1>1, <2>4, <3>3
  <2> QED BY <1>1, <1>3, <2>2, <2>3, <2>4 DEF b
<1> QED BY <1>2, <1>3

Clears(s, found) == \A f \in found : f.severity \in Flagged => ~Over(s, f)
CleanOf(mentions, found) == {s \in mentions : Clears(s, found)}

\* The two overlap tests look for the same.
LEMMA BothTests ==
  /\ \A s, found : OverlapsFlagged(s, found) <=> ~Clears(s, found)
  /\ \A s : Overlapping(s) = {f \in findings : Over(s, f)}
  BY DEF OverlapsFlagged, Clears, Overlapping, Over

LEMMA Confidences ==
  ASSUME document \in Documents, NEW M \in (SUBSET Spans) \ {{}}, NEW found,
         NEW v \in Confidence(M, found)
  PROVE  LET n == Cardinality(M) IN
           /\ n \in Nat /\ n > 0
           /\ (\A s \in M : Clears(s, found)) => v = Base(n)
           /\ (\E s \in M : ~Clears(s, found)) /\ Shows(n) => v < Base(n)
           /\ (\A s \in M : ~Clears(s, found)) => v = 150
<1> DEFINE n == Cardinality(M)
           C == CleanOf(M, found)
           c == Cardinality(C)
<1>1. IsFiniteSet(M)
  BY SpansFinite, FS_Subset
<1>2. n \in Nat /\ n # 0
  BY <1>1, FS_CardinalityType, FS_EmptySet
<1>3. C \subseteq M
  BY DEF CleanOf
<1>4. IsFiniteSet(C) /\ c \in Nat /\ c <= n /\ (c = n <=> C = M)
  BY <1>1, <1>3, FS_Subset, FS_CardinalityType
<1>5. c = 0 <=> C = {}
  BY <1>4, FS_EmptySet
<1>6. v \in IF c = 0 THEN {150} ELSE Nearest(Base(n) * c, n)
  <2>1. {s \in M : ~OverlapsFlagged(s, found)} = C
    BY BothTests DEF CleanOf
  <2> QED BY <2>1, Zenon DEF Confidence
<1> HIDE DEF n, c
<1>7. c \in 0..n /\ n \in Nat \ {0}
  BY <1>2, <1>4
<1>8. /\ c = n => v = Base(n)
      /\ c < n /\ Shows(n) => v < Base(n)
      /\ c = 0 => v = 150
  BY <1>6, <1>7, Discounted
<1>9. (\A s \in M : Clears(s, found)) => c = n
  BY <1>4 DEF CleanOf
<1>10. (\E s \in M : ~Clears(s, found)) => c < n
  <2>1. (\E s \in M : ~Clears(s, found)) => C # M
    BY DEF CleanOf
  <2> QED BY <1>2, <1>4, <2>1
<1>11. (\A s \in M : ~Clears(s, found)) => c = 0
  BY <1>5 DEF CleanOf
<1> QED BY <1>2, <1>8, <1>9, <1>10, <1>11 DEF n

\* The factor of a claim, by the worst that lies over its evidence.
LEMMA Factors ==
  ASSUME NEW M
  PROVE  /\ (\E s \in M : \E g \in findings : g.severity = "high" /\ Over(s, g)) => Factor(M) = 0
         /\ (\A s \in M : Clears(s, findings)) => Factor(M) = 2
         /\ (\A g \in findings : g.severity \in Severities) =>
              (Factor(M) < 2 <=> \E s \in M : ~Clears(s, findings))
<1> DEFINE worst == {f.severity : f \in UNION {Overlapping(s) : s \in M}}
<1>1. Factor(M) = IF "high" \in worst THEN 0 ELSE IF "suspicious" \in worst THEN 1 ELSE 2
  BY DEF Factor
<1>2. \A x : x \in worst <=> \E s \in M : \E g \in findings : x = g.severity /\ Over(s, g)
  <2>1. worst = {f.severity : f \in UNION {{f \in findings : Over(s, f)} : s \in M}}
    BY BothTests
  <2> QED BY <2>1
<1> HIDE DEF worst
<1>3. (\E s \in M : \E g \in findings : g.severity = "high" /\ Over(s, g)) => Factor(M) = 0
  BY <1>1, <1>2
<1>4. (\A s \in M : Clears(s, findings)) => "high" \notin worst /\ "suspicious" \notin worst
  BY <1>2 DEF Clears, Flagged
<1>5. ASSUME \A g \in findings : g.severity \in Severities, NEW s \in M, ~Clears(s, findings)
      PROVE  "high" \in worst \/ "suspicious" \in worst
  BY <1>2, <1>5 DEF Clears, Severities, Flagged
<1> QED BY <1>1, <1>3, <1>4, <1>5

LEMMA SeveritiesReported ==
  ASSUME NEW g \in Reported
  PROVE  g.severity \in Severities
<1>1. PICK p \in DOMAIN document : \E f \in RunOn(document[p]) :
        g = [page |-> p, severity |-> f.severity, box |-> f.box]
  BY ReportedOf
<1>2. PICK f \in RunOn(document[p]) : g.severity = f.severity
  BY <1>1
<1> DEFINE q == document[p]
<1> HIDE DEF q
<1>3. CASE f \in InvisibleRenderMode(q)
  BY <1>2, <1>3 DEF InvisibleRenderMode, Report, Severities
<1>4. CASE f \in LowContrast(q)
  BY <1>2, <1>4, SeverityIs DEF LowContrast, Report
<1>5. CASE f \in MicroType(q)
  BY <1>2, <1>5, SeverityIs DEF MicroType, Report
<1>6. CASE f \in OffCanvas(q)
  BY <1>2, <1>6, SeverityIs DEF OffCanvas, Report, Severities
<1>7. CASE f \in UnicodeAnomalies(q)
  <2>1. f.severity \in {"suspicious", "high"}
    <3>1. CASE f \in {Report("D5", "suspicious", Neighbourhood(u, u.zero)) :
                        u \in {u \in On(q) : u.zero # {}}}
      BY <3>1 DEF Report
    <3>2. CASE f \in {Report("D5", "high", Neighbourhood(u, u.bidi)) :
                        u \in {u \in On(q) : u.bidi # {}}}
      BY <3>2 DEF Report
    <3>3. CASE f \in {Report("D5", "suspicious", Neighbourhood(u, UNION u.mixed)) :
                        u \in {u \in On(q) : Cardinality(u.mixed) >= 2}}
      <4>1. PICK u : f = Report("D5", "suspicious", Neighbourhood(u, UNION u.mixed))
        BY <3>3
      <4> QED BY <4>1 DEF Report
    <3> QED BY <1>7, <3>1, <3>2, <3>3 DEF UnicodeAnomalies
  <2> QED BY <1>2, <2>1 DEF Severities
<1>8. CASE f \in ExtractionDelta(q)
  BY <1>2, <1>8, SeverityIs DEF ExtractionDelta, Report
<1> QED BY <1>2, <1>3, <1>4, <1>5, <1>6, <1>7, <1>8 DEF RunOn, q

-----------------------------------------------------------------------------
(* The invariant: once there is a skill the findings are all that the document  *)
(* gives rise to, and skill and claim are judged by them.                       *)

IntegrityInv ==
  /\ document \in Documents
  /\ skill # Nothing => /\ findings = Reported
                        /\ skill.spans \in (SUBSET Spans) \ {{}}
                        /\ skill.value \in Confidence(skill.spans, findings)
  /\ claim # Nothing => /\ skill # Nothing
                        /\ claim.spans \in (SUBSET Spans) \ {{}}
                        /\ claim.value = Factor(claim.spans)

LEMMA IntegrityInit == Init => IntegrityInv
  BY DEF Init, IntegrityInv

LEMMA PlacesKept ==
  ASSUME UNCHANGED document
  PROVE  Spans' = Spans /\ Reported' = Reported
  BY DEF Spans, Reported

LEMMA IntegrityStep ==
  ASSUME IntegrityInv, [Next]_vars
  PROVE  IntegrityInv'
<1>1. document' = document /\ document \in Documents
  BY DEF Next, Analyse, Judge, vars, IntegrityInv
<1>2. Spans' = Spans /\ Reported' = Reported
  BY <1>1, PlacesKept
<1>3. ASSUME NEW M PROVE Confidence(M, findings)' = Confidence(M, findings')
  BY <1>1 DEF Confidence, OverlapsFlagged, Span
<1>4. CASE Analyse
  <2>1. claim = Nothing /\ claim' = Nothing
    BY <1>4 DEF Analyse, IntegrityInv
  <2>2. findings' = Reported
    BY <1>4 DEF Analyse, Reported
  <2>3. PICK M \in (SUBSET Spans) \ {{}} : \E v \in Confidence(M, findings') :
          skill' = [spans |-> M, value |-> v]
    BY <1>4 DEF Analyse
  <2>4. skill'.spans = M /\ skill'.value \in Confidence(M, findings')
    BY <2>3
  <2>5. skill'.value \in Confidence(skill.spans, findings)'
    BY <1>3, <2>3, <2>4
  <2> QED BY <1>1, <1>2, <2>1, <2>2, <2>3, <2>4, <2>5 DEF IntegrityInv
<1>5. CASE Judge \/ UNCHANGED vars
  <2>1. skill' = skill /\ findings' = findings
    BY <1>5 DEF Judge, vars
  <2>2. ASSUME NEW M PROVE Factor(M)' = Factor(M)
    BY <1>1, <2>1 DEF Factor, Overlapping, Span
  <2>3. skill' # Nothing => /\ findings' = Reported'
                            /\ skill'.spans \in (SUBSET Spans') \ {{}}
                            /\ skill'.value \in Confidence(skill.spans, findings)'
    <3>1. Confidence(skill.spans, findings)' = Confidence(skill.spans, findings)
      BY <1>1, <2>1 DEF Confidence, OverlapsFlagged, Span
    <3> QED BY <1>2, <2>1, <3>1 DEF IntegrityInv
  <2>4. CASE Judge
    <3>1. PICK M \in (SUBSET Spans) \ {{}} : claim' = [spans |-> M, value |-> Factor(M)]
      BY <2>4 DEF Judge
    <3>2. claim'.spans = M /\ claim'.value = Factor(claim.spans)'
      BY <2>2, <3>1
    <3>3. skill' # Nothing
      BY <2>1, <2>4 DEF Judge
    <3> QED BY <1>1, <1>2, <2>3, <3>2, <3>3 DEF IntegrityInv
  <2>5. CASE UNCHANGED vars
    <3>1. claim' = claim /\ Factor(claim.spans)' = Factor(claim.spans)
      BY <2>1, <2>5, <1>1 DEF vars, Factor, Overlapping, Span
    <3> QED BY <1>1, <1>2, <2>1, <2>3, <3>1 DEF IntegrityInv
  <2> QED BY <1>5, <2>4, <2>5
<1> QED BY <1>4, <1>5 DEF Next

LEMMA IntegrityInductive == Spec => []IntegrityInv
  BY IntegrityInit, IntegrityStep, PTL DEF Spec

-----------------------------------------------------------------------------
(* The theorems.                                                               *)

LEMMA HiddenIsNotClean ==
  ASSUME document \in Documents, findings = Reported, NEW s \in Spans, Drawn(s), Hidden(s)
  PROVE  ~Clears(s, findings)
  BY HiddenIsFlagged DEF Clears, Flagged

\* Hidden text is worth nothing in a claim, lowers a skill, and is all of a
\* skill only at the floor; claim and skill agree on what is flagged.
THEOREM HiddenTextDiscounted == Spec => []HiddenIsDiscounted
<1>1. ASSUME IntegrityInv, claim # Nothing, NEW s \in claim.spans, Drawn(s), Hidden(s)
      PROVE  claim.value = 0
  <2>1. /\ document \in Documents /\ findings = Reported /\ s \in Spans
        /\ claim.value = Factor(claim.spans)
    BY <1>1 DEF IntegrityInv
  <2>2. \E g \in findings : g.severity = "high" /\ Over(s, g)
    BY <1>1, <2>1, HiddenIsFlagged
  <2> QED BY <1>1, <2>1, <2>2, Factors
<1>2. ASSUME IntegrityInv, skill # Nothing
      PROVE  LET n == Cardinality(skill.spans) IN
               /\ Shows(n) /\ (\E s \in skill.spans : Drawn(s) /\ Hidden(s)) =>
                    skill.value < Base(n)
               /\ (\A s \in skill.spans : Drawn(s) /\ Hidden(s)) => skill.value = 150
  <2>1. /\ document \in Documents /\ findings = Reported
        /\ skill.spans \in (SUBSET Spans) \ {{}}
        /\ skill.value \in Confidence(skill.spans, findings)
    BY <1>2 DEF IntegrityInv
  <2>2. \A s \in skill.spans : Drawn(s) /\ Hidden(s) => ~Clears(s, findings)
    BY <2>1, HiddenIsNotClean
  <2> QED BY <2>1, <2>2, Confidences
<1>3. ASSUME IntegrityInv, skill # Nothing, skill.spans = claim.spans,
             Shows(Cardinality(skill.spans))
      PROVE  claim.value < 2 <=> skill.value < Base(Cardinality(skill.spans))
  <2> DEFINE n == Cardinality(skill.spans)
             dirty == \E s \in skill.spans : ~Clears(s, findings)
  <2>1. /\ document \in Documents /\ findings = Reported
        /\ skill.spans \in (SUBSET Spans) \ {{}}
        /\ skill.value \in Confidence(skill.spans, findings)
    BY <1>3 DEF IntegrityInv
  <2>2. claim # Nothing
    BY <1>3, <2>1 DEF Nothing
  <2>3. claim.value = Factor(skill.spans)
    BY <1>3, <2>2 DEF IntegrityInv
  <2>4. \A g \in findings : g.severity \in Severities
    BY <2>1, SeveritiesReported
  <2>5. claim.value < 2 <=> dirty
    BY <2>3, <2>4, Factors
  <2>6. n \in Nat /\ Base(n) \in 500..900
    BY <2>1, Confidences, Bases
  <2>7. dirty => skill.value < Base(n)
    BY <1>3, <2>1, Confidences
  <2>8. ~dirty => skill.value = Base(n)
    BY <2>1, Confidences
  <2> HIDE DEF dirty, n
  <2>9. claim.value < 2 <=> skill.value < Base(n)
    BY <2>5, <2>6, <2>7, <2>8
  <2> QED BY <2>9 DEF n
<1>4. ASSUME IntegrityInv, skill = Nothing
      PROVE  /\ skill.spans = {} /\ claim.spans = {} /\ claim.value = 0 /\ skill.value = 0
             /\ Base(Cardinality(skill.spans)) > 0
  <2>1. /\ claim = Nothing /\ claim.spans = {} /\ claim.value = 0
        /\ skill.spans = {} /\ skill.value = 0
    BY <1>4 DEF IntegrityInv, Nothing
  <2>2. Cardinality(skill.spans) = 0
    BY <2>1, FS_EmptySet
  <2>3. Base(0) \in 500..900
    BY Bases
  <2> QED BY <2>1, <2>2, <2>3
<1>5. claim = Nothing => claim.spans = {}
  BY DEF Nothing
<1>6. ASSUME IntegrityInv PROVE HiddenIsDiscounted
  <2>1. CASE skill = Nothing
    BY <1>4, <1>6, <2>1 DEF HiddenIsDiscounted
  <2>2. CASE skill # Nothing
    BY <1>1, <1>2, <1>3, <1>5, <1>6, <2>2 DEF HiddenIsDiscounted
  <2> QED BY <2>1, <2>2
<1> QED BY <1>6, IntegrityInductive, PTL

\* Honest text keeps its full worth, whatever else is in the document, beside
\* lines that OCR does not confirm too, and whether it was set or is the text
\* layer of a scan.
THEOREM HonestTextTrusted == Spec => []HonestIsTrusted
<1>1. ASSUME document \in Documents, findings = Reported, NEW s \in Spans, Honest(s)
      PROVE  Clears(s, findings)
  BY <1>1, HonestIsUnflagged DEF Clears, Flagged
<1>2. ASSUME IntegrityInv, claim # Nothing, \A s \in claim.spans : Honest(s)
      PROVE  claim.value = 2
  <2>1. /\ document \in Documents /\ findings = Reported /\ claim.spans \subseteq Spans
        /\ claim.value = Factor(claim.spans)
    BY <1>2 DEF IntegrityInv
  <2>2. \A s \in claim.spans : Clears(s, findings)
    BY <1>1, <1>2, <2>1
  <2> QED BY <2>1, <2>2, Factors
<1>3. ASSUME IntegrityInv, skill # Nothing, \A s \in skill.spans : Honest(s)
      PROVE  skill.value = Base(Cardinality(skill.spans))
  <2>1. /\ document \in Documents /\ findings = Reported
        /\ skill.spans \in (SUBSET Spans) \ {{}}
        /\ skill.value \in Confidence(skill.spans, findings)
    BY <1>3 DEF IntegrityInv
  <2>2. \A s \in skill.spans : Clears(s, findings)
    BY <1>1, <1>3, <2>1
  <2> QED BY <2>1, <2>2, Confidences
<1>4. IntegrityInv => HonestIsTrusted
  BY <1>2, <1>3 DEF HonestIsTrusted
<1> QED BY <1>4, IntegrityInductive, PTL
=============================================================================
