------------------------------- MODULE Integrity -------------------------------
(***************************************************************************)
(* From the text of a PDF to what it is worth as evidence: the detectors    *)
(* D1 to D6 of packages/integrity, the discount on a skill                  *)
(* (worker/skills.py) and on a claim (worker/matching.py).  The three meet  *)
(* only in rectangles: a detector marks one, and a span is discounted when  *)
(* half of it lies in a marked one.                                         *)
(*                                                                          *)
(* A document is a sequence of pages, a page has spans of text, images in   *)
(* drawing order, and the lines of its text layer with how well OCR agrees  *)
(* with each.  Contrast is in tenths, size in points, a score in percent.   *)
(***************************************************************************)
EXTENDS Integers, Sequences, FiniteSets, FiniteSetsExt

CONSTANT Documents  \* what the uploaded PDF may hold

VARIABLES document,
          findings,  \* what the detectors reported
          skill,     \* what resume_skills says of one skill
          claim      \* what the claim of one requirement says of its evidence

vars == <<document, findings, skill, claim>>

\* Spans are named by their page and their place in it.
Spans == UNION {{<<p, i>> : i \in DOMAIN document[p].spans} : p \in DOMAIN document}
Span(s) == document[s[1]].spans[s[2]]

-----------------------------------------------------------------------------
(* Rectangles.                                                               *)

Box(x0, y0, x1, y1) == [x0 |-> x0, y0 |-> y0, x1 |-> x1, y1 |-> y1]
Area(b) == Max({0, b.x1 - b.x0}) * Max({0, b.y1 - b.y0})
Common(b, o) == Area(Box(Max({b.x0, o.x0}), Max({b.y0, o.y0}),
                         Min({b.x1, o.x1}), Min({b.y1, o.y1})))
\* At least num / den of b lies in o: never, if b has no area.
Within(b, o, num, den) == Area(b) > 0 /\ den * Common(b, o) >= num * Area(b)

\* The smallest rectangle around some rectangles.
Around(boxes) == Box(Min({b.x0 : b \in boxes}), Min({b.y0 : b \in boxes}),
                     Max({b.x1 : b \in boxes}), Max({b.y1 : b \in boxes}))

\* What PyMuPDF reports of a page: the box of a span is drawn around its
\* characters, and whatever is odd about a span is in some of them.
IsBox(b) == {b.x0, b.y0, b.x1, b.y1} \subseteq Int
Inside(b, o) == b.x0 >= o.x0 /\ b.y0 >= o.y0 /\ b.x1 <= o.x1 /\ b.y1 <= o.y1
IsSeq(s) == Len(s) \in Nat /\ DOMAIN s = 1..Len(s)
SpanOK(t) ==
  /\ IsBox(t.box) /\ {t.contrast, t.size} \subseteq Int /\ IsSeq(t.chars)
  /\ \A j \in DOMAIN t.chars : IsBox(t.chars[j]) /\ Inside(t.chars[j], t.box)
  /\ t.zero \cup t.bidi \cup UNION t.mixed \subseteq DOMAIN t.chars /\ {} \notin t.mixed
PageOK(p) ==
  /\ IsBox(p.crop) /\ \A image \in p.images : IsBox(image.box)
  /\ \A l \in p.lines : IsBox(l.box) /\ l.score \in Int
  /\ IsSeq(p.spans) /\ \A i \in DOMAIN p.spans : SpanOK(p.spans[i])
ASSUME DocumentsOK ==
  \A d \in Documents : IsSeq(d) /\ \A p \in DOMAIN d : PageOK(d[p])

-----------------------------------------------------------------------------
(* The detectors, each on the spans of one page.                             *)

On(p) == {p.spans[i] : i \in DOMAIN p.spans}
Report(by, severity, box) == [by |-> by, severity |-> severity, box |-> box]
SeverityIf(high) == IF high THEN "high" ELSE "suspicious"

Invisible(p) == {i \in DOMAIN p.spans : p.spans[i].mode = 3}
LooksScanned(p) ==
  /\ 10 * Cardinality(Invisible(p)) >= 9 * Len(p.spans)
  /\ Area(p.crop) > 0
  /\ \E image \in p.images : 2 * Common(image.box, p.crop) >= Area(p.crop)

InvisibleRenderMode(p) ==
  IF Invisible(p) # {} /\ LooksScanned(p) THEN {Report("D1", "info", p.crop)}
  ELSE {Report("D1", "high", p.spans[i].box) : i \in Invisible(p)}

\* The next two leave invisible text to the first.
LowContrast(p) ==
  {Report("D2", SeverityIf(s.contrast < 11), s.box) :
     s \in {s \in On(p) : s.mode # 3 /\ ~s.blank /\ s.contrast < 16}}
MicroType(p) ==
  {Report("D3", SeverityIf(s.size < 2), s.box) :
     s \in {s \in On(p) : s.mode # 3 /\ ~s.blank /\ s.size < 4}}

\* Mutant: whatever overlaps an image counts as covered by it.
Covered_AnyOrder(p, s) == \E image \in p.images : Within(s.box, image.box, 19, 20)
Covered(p, s) == \E image \in p.images : image.seq > s.seq /\ Within(s.box, image.box, 19, 20)
OffCanvas(p) ==
  LET texts == {s \in On(p) : ~s.blank}
      outside == {s \in texts : ~Within(s.box, p.crop, 1, 2)}
  IN {Report("D4", SeverityIf(Common(s.box, p.crop) = 0), s.box) : s \in outside}
     \cup {Report("D4", "high", s.box) : s \in {s \in texts \ outside : Covered(p, s)}}

\* Around the offending characters and their neighbours, not around the span.
Neighbourhood(s, indices) ==
  Around({s.chars[j] : j \in {j \in DOMAIN s.chars : \E i \in indices : j \in i - 1 .. i + 1}})
UnicodeAnomalies(p) ==
  UNION {{Report("D5", "suspicious", Neighbourhood(s, s.zero)) : s \in {s \in On(p) : s.zero # {}}},
         {Report("D5", "high", Neighbourhood(s, s.bidi)) : s \in {s \in On(p) : s.bidi # {}}},
         {Report("D5", "suspicious", Neighbourhood(s, UNION s.mixed)) :
            s \in {s \in On(p) : Cardinality(s.mixed) >= 2}}}

\* Mutant: a line OCR did not find marks its whole page.
ExtractionDelta_Page(p) ==
  IF ~p.ocr THEN {}
  ELSE {Report("D6", SeverityIf(l.score < 30), p.crop) :
          l \in {l \in p.lines : ~l.short /\ l.score < 72}}
\* Only where OCR read anything.
ExtractionDelta(p) ==
  IF ~p.ocr THEN {}
  ELSE {Report("D6", SeverityIf(l.score < 30), l.box) :
          l \in {l \in p.lines : ~l.short /\ l.score < 72}}

RunOn(p) == InvisibleRenderMode(p) \cup LowContrast(p) \cup MicroType(p) \cup OffCanvas(p)
            \cup UnicodeAnomalies(p) \cup ExtractionDelta(p)

-----------------------------------------------------------------------------
(* What the findings take away.                                              *)

Flagged == {"suspicious", "high"}

\* The test of skills.py, on what the detectors just returned.
OverlapsFlagged(s, found) ==
  \E f \in found : /\ f.severity \in Flagged
                   /\ f.page = s[1] /\ Within(Span(s).box, f.box, 1, 2)

\* The test of matching.py, on the rows of integrity_findings.
\* Mutant: more than half, where skills.py is content with half.
Overlapping_Drifted(s) ==
  {f \in findings : f.page = s[1] /\ 2 * Common(Span(s).box, f.box) > Area(Span(s).box)}
Overlapping(s) == {f \in findings : f.page = s[1] /\ Within(Span(s).box, f.box, 1, 2)}

\* In thousandths, rounded; the float computation may take a tie to either side.
Base(n) == Min({500 + 100 * n, 900})
Nearest(a, b) == {v \in {a \div b, a \div b + 1} : 2 * a - b <= 2 * b * v /\ 2 * b * v <= 2 * a + b}
Confidence(mentions, found) ==
  LET n == Cardinality(mentions)
      clean == Cardinality({s \in mentions : ~OverlapsFlagged(s, found)})
  IN IF clean = 0 THEN {150} ELSE Nearest(Base(n) * clean, n)

\* The integrity factor, in halves.
\* Mutant: a suspicious finding after a high one lowers the severity again.
Factor_Lowered(evidence) ==
  LET worst == {f.severity : f \in UNION {Overlapping(s) : s \in evidence}} IN
    IF "suspicious" \in worst THEN 1 ELSE IF "high" \in worst THEN 0 ELSE 2
Factor(evidence) ==
  LET worst == {f.severity : f \in UNION {Overlapping(s) : s \in evidence}} IN
    IF "high" \in worst THEN 0 ELSE IF "suspicious" \in worst THEN 1 ELSE 2

-----------------------------------------------------------------------------

Nothing == [spans |-> {}, value |-> 0]

Init == document \in Documents /\ findings = {} /\ skill = Nothing /\ claim = Nothing

\* One transaction stores the findings and the skills drawn from them.
Analyse ==
  /\ skill = Nothing
  /\ findings' = UNION {{[page |-> p, severity |-> f.severity, box |-> f.box] :
                           f \in RunOn(document[p])} : p \in DOMAIN document}
  /\ \E mentions \in (SUBSET Spans) \ {{}} : \E value \in Confidence(mentions, findings') :
       skill' = [spans |-> mentions, value |-> value]
  /\ UNCHANGED <<document, claim>>

\* Any later match run, whatever spans the model cites.
Judge ==
  /\ skill # Nothing /\ claim = Nothing
  /\ \E evidence \in (SUBSET Spans) \ {{}} :
       claim' = [spans |-> evidence, value |-> Factor(evidence)]
  /\ UNCHANGED <<document, findings, skill>>

Next == Analyse \/ Judge

Spec == Init /\ [][Next]_vars
-----------------------------------------------------------------------------

Drawn(s) == Area(Span(s).box) > 0 /\ ~Span(s).blank
Visible(p) == Cardinality({i \in DOMAIN p.spans : p.spans[i].mode # 3})
CoversHalf(image, p) == 2 * Common(image.box, p.crop) >= Area(p.crop)

\* What no reader of the page can see: painted by no ink, in the colour of the
\* page, too small, off the page, behind an image, or in a line of the text layer
\* of which OCR finds next to nothing on the page.
Hidden(s) ==
  LET t == Span(s)  p == document[s[1]] IN
    \/ t.mode = 3 /\ (10 * Visible(p) > Len(p.spans) \/ \A i \in p.images : ~CoversHalf(i, p))
    \/ t.mode # 3 /\ (t.contrast < 11 \/ t.size < 2)
    \/ Common(t.box, p.crop) = 0
    \/ /\ Within(t.box, p.crop, 1, 2)
       /\ \E i \in p.images : i.seq > t.seq /\ Within(t.box, i.box, 19, 20)
    \/ p.ocr /\ \E l \in p.lines : ~l.short /\ l.score < 30 /\ Within(t.box, l.box, 1, 2)

\* Rounding shows a single flagged mention among fewer than this many.
Shows(n) == n < 1800

\* Hidden text counts for nothing, although each detector leaves some of it to
\* another: a claim that cites any is worth nothing, and a skill is doubted to
\* the bottom if all its mentions are hidden and somewhat if one is.  The two
\* discounts, each with an overlap test of its own, agree on the same spans.
HiddenIsDiscounted ==
  LET n == Cardinality(skill.spans) IN
    /\ (\E s \in claim.spans : Drawn(s) /\ Hidden(s)) => claim.value = 0
    /\ Shows(n) /\ (\E s \in skill.spans : Drawn(s) /\ Hidden(s)) => skill.value < Base(n)
    /\ skill # Nothing /\ (\A s \in skill.spans : Drawn(s) /\ Hidden(s)) => skill.value = 150
    /\ Shows(n) /\ skill.spans = claim.spans => (claim.value < 2 <=> skill.value < Base(n))

\* Text as honest pages and scans have it: readable or behind no later image,
\* without anomalies, and under no other text, nor under a line that OCR could not
\* confirm.  The page may hold such lines elsewhere.
Honest(s) ==
  LET t == Span(s)  p == document[s[1]] IN
    /\ Drawn(s) /\ Within(t.box, p.crop, 1, 2)
    /\ IF t.mode = 3 THEN Visible(p) = 0 /\ \E i \in p.images : CoversHalf(i, p)
       ELSE t.contrast >= 16 /\ t.size >= 4
    /\ \A i \in p.images : i.seq > t.seq => Common(t.box, i.box) = 0
    /\ t.zero = {} /\ t.bidi = {} /\ Cardinality(t.mixed) < 2
    /\ p.ocr => \A l \in p.lines : l.short \/ l.score >= 72 \/ Common(t.box, l.box) = 0
    /\ \A j \in DOMAIN p.spans : j # s[2] => Common(t.box, p.spans[j].box) = 0

\* Honest text is never discounted for what is hidden elsewhere, on its own page
\* or another, nor for being the text layer of a scan.
HonestIsTrusted ==
  /\ claim # Nothing /\ (\A s \in claim.spans : Honest(s)) => claim.value = 2
  /\ skill # Nothing /\ (\A s \in skill.spans : Honest(s)) =>
       skill.value = Base(Cardinality(skill.spans))
=============================================================================
