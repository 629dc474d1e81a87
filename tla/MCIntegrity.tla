----------------------------- MODULE MCIntegrity -----------------------------
(***************************************************************************)
(* Integrity for TLC: pages of eight by three with a span on the first line,  *)
(* which varies in one or two ways, and another one next to it, under it or *)
(* over it.                                                                 *)
(***************************************************************************)
EXTENDS Integrity

Crop == Box(0, 0, 8, 3)

\* Eight characters of width one; a span without width has them in one place.
Line(x0, x1, y) == Box(x0, y, x1, y + 1)
Chars(box) == [i \in 1..8 |-> IF box.x1 = box.x0 THEN box ELSE Line(box.x0 + i - 1, box.x0 + i, box.y0)]

Text(box, seq) ==
  [box |-> box, seq |-> seq, chars |-> Chars(box), mode |-> 0, blank |-> FALSE,
   contrast |-> 210, size |-> 10, zero |-> {}, bidi |-> {}, mixed |-> {}]

Places == {Line(0, 8, 0), Line(4, 12, 0), Line(6, 14, 0), Line(9, 17, 0), Line(2, 2, 0)}

Looks(t) ==
  {t, [t EXCEPT !.blank = TRUE], [t EXCEPT !.contrast = 13], [t EXCEPT !.contrast = 10],
   [t EXCEPT !.size = 3], [t EXCEPT !.size = 1], [t EXCEPT !.contrast = 16, !.size = 4]}
Marks(t) ==
  {t, [t EXCEPT !.zero = {2}], [t EXCEPT !.zero = {2, 6}], [t EXCEPT !.bidi = {4}],
   [t EXCEPT !.mixed = {1..3, 5..7}], [t EXCEPT !.mixed = {1..3}]}

Firsts == {[t EXCEPT !.mode = m] : m \in {0, 3},
             t \in UNION {Looks(Text(b, 2)) \cup Marks(Text(b, 2))
                          \cup Marks([Text(b, 2) EXCEPT !.contrast = 10]) : b \in Places}}
Below == Text(Line(0, 8, 1), 3)
Seconds == {<<>>, <<Below, Text(Line(0, 8, 2), 4)>>, <<[Below EXCEPT !.mode = 3]>>,
            <<[Text(Line(0, 8, 0), 3) EXCEPT !.contrast = 10]>>}

ImageSets == {{}, {[seq |-> 1, box |-> Crop]}, {[seq |-> 9, box |-> Crop]},
              {[seq |-> 9, box |-> Line(0, 8, 0)]}, {[seq |-> 1, box |-> Box(0, 0, 2, 2)]}}

LineOf(t, score, short) == [box |-> t.box, score |-> score, short |-> short]
Lines(t) == {LineOf(t, 72, FALSE), LineOf(t, 50, FALSE), LineOf(t, 10, FALSE), LineOf(t, 10, TRUE)}

MakePage(t, rest, images, lines, ocr) ==
  [crop |-> Crop, spans |-> <<t>> \o rest, images |-> images, lines |-> lines, ocr |-> ocr]

PlainPage == MakePage(Text(Line(0, 8, 0), 2), <<>>, {}, {}, TRUE)

PdfSet ==
  {<<MakePage(t, rest, images, {}, TRUE)>> : t \in Firsts, rest \in Seconds, images \in ImageSets}
  \cup UNION {{<<MakePage(t, <<[Below EXCEPT !.mode = m]>>, images, {l}, ocr)>> :
                 m \in {0, 3}, images \in {{}, {[seq |-> 1, box |-> Crop]}},
                 l \in Lines(t), ocr \in BOOLEAN}
              : t \in Firsts}
  \cup {<<MakePage(t, <<>>, {}, {}, TRUE), PlainPage>> : t \in Firsts}
=============================================================================
