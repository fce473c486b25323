---------------------------- MODULE MCRecognition ----------------------------
(* Small arguments for the services of Recognition.  Lengths are scaled: a tile of 8 stands *)
(* for 1600 pixels, the 10 an engine is comfortable with for 2000.                          *)
EXTENDS Recognition

Page(w, h, overlap, lines) ==
  [width |-> w, height |-> h, tile |-> 8, overlap |-> overlap, lines |-> lines,
   minConfidence |-> 1, maxLines |-> 2]

\* A cut reading may end before the cut only where the overlap leaves room for it.
Blurs(overlap) == IF overlap >= 3 THEN 0..1 ELSE {0}
Calls(w, h, overlap, lines) ==
  {[page |-> Page(w, h, overlap, lines), blur |-> b] : b \in Blurs(overlap)}

\* One line anywhere on a wide or a high page.
WidePages ==
  UNION {UNION {UNION {Calls(w, 2, o, <<<<x, 0, x + n, 2>>>>) : x \in 0 .. w - n}
                : n \in 1 .. Min({w, 10})} : w \in {9, 11, 12, 14, 17, 19, 24}, o \in {0, 1, 2, 4}}
HighPages ==
  UNION {UNION {UNION {Calls(4, h, o, <<<<1, y, 3, y + n>>>>) : y \in 0 .. h - n}
                : n \in 1 .. 3} : h \in {10, 12, 15, 21}, o \in {1, 3, 4}}

\* Up to three lines that do not touch, on a page of two tiles each way.
Spots == {0, 4, 6, 9} \X {0, 6, 9} \X {3, 7} \X {2}
SpotBox(s) == <<s[1], s[2], s[1] + s[3], s[2] + s[4]>>
FullPages ==
  UNION {Calls(16, 12, o, lines) :
           o \in {2, 3},
           lines \in {l \in UNION {[1..n -> {SpotBox(s) : s \in Spots}] : n \in 2..3} :
                        /\ \A i, j \in DOMAIN l : i # j => SharedArea(l[i], l[j]) = 0
                        /\ \A i \in 1 .. Len(l) - 1 :
                             l[i][2] < l[i + 1][2] \/ (l[i][2] = l[i + 1][2] /\ l[i][1] < l[i + 1][1])
                        /\ \A i \in DOMAIN l : l[i][3] <= 16}}
PagesInUse == WidePages \cup HighPages \cup FullPages

----------------------------------------------------------------------------
\* Pictures on a page of 8 by 8, apart by a gutter at least.
Rects(ws, hs) ==
  UNION {{<<x, y, x + w, y + h>> : x \in 0 .. 8 - w, y \in 0 .. 8 - h} : w \in ws, h \in hs}
Apart(p, q) == -OverlapW(p, q) >= SplitGutterPx \/ -OverlapH(p, q) >= SplitGutterPx

\* A line of one pixel between two pictures that face each other.
Link(p, q) ==
  IF OverlapH(p, q) > 0
  THEN (Min({p[3], q[3]}) .. Max({p[1], q[1]}) - 1) \X {Max({p[2], q[2]})}
  ELSE IF OverlapW(p, q) > 0
  THEN {Max({p[1], q[1]})} \X (Min({p[4], q[4]}) .. Max({p[2], q[2]}) - 1)
  ELSE {}

Layout(pictures, lines, text, under) ==
  [pictures |-> ToSet(pictures), paper |-> TRUE, width |-> 8, height |-> 8, minArea |-> 4,
   text |-> text, under |-> under, joined |-> lines # {} /\ text = <<>>,
   marks |-> UNION {Pixels(p) : p \in ToSet(pictures)} \cup lines]

\* Pictures in the corner of a page whose working copy is of 18 by 18, or 18 by 13.
Moved(p, by) == <<p[1] + 10, p[2] + by, p[3] + 10, p[4] + by>>
Larger(p, q) ==
  {[Layout(<<Moved(p, s[3]), Moved(q, s[3])>>, {}, <<>>, <<>>)
      EXCEPT !.width = s[1], !.height = s[2]] :
     s \in {<<25, 25, 10>>, <<27, 27, 10>>, <<40, 40, 10>>, <<25, 18, 5>>}}

\* Two pictures, with and without a line between them, and on larger pages.
Enlarged ==
  UNION {Larger(p, q) :
         <<p, q>> \in {<<p, q>> \in Rects({2}, {2}) \X Rects({3}, {4}) : Apart(p, q)}}
TwoPictures ==
  UNION {{Layout(<<p, q>>, {}, <<>>, <<>>), Layout(<<p, q>>, Link(p, q), <<>>, <<>>)} :
         <<p, q>> \in {<<p, q>> \in Rects({2, 5}, {2, 3}) \X Rects({3}, {2, 4}) :
                         Apart(p, q)}}
\* Three, joined in a chain.
ThreePictures ==
  {Layout(t, Link(t[1], t[2]) \cup Link(t[2], t[3]), <<>>, <<>>) :
     t \in {t \in Rects({2, 3}, {8}) \X Rects({2, 3}, {2, 3}) \X Rects({2}, {2, 3}) :
              /\ Apart(t[1], t[2]) /\ Apart(t[1], t[3]) /\ Apart(t[2], t[3])}}
\* A picture with a caption of three pixels, one of them ink, that touches it from below,
\* and a second picture to the right.
Captioned ==
  LET caption(p) == <<p[1], p[4], p[1] + 3, p[4] + 1>>
  IN UNION {{[Layout(<<p, q>>, {<<p[1] + i, p[4]>>}, <<caption(p)>>, <<p>>)
                EXCEPT !.height = 18] : i \in 0..2} :
            <<p, q>> \in {<<p, q>> \in Rects({2, 3}, {3, 4}) \X Rects({2, 3}, {3}) :
                            /\ caption(p)[3] <= 8 /\ caption(p)[4] <= 8
                            /\ -OverlapW(p, q) >= 2 /\ q[1] > p[1]}}
\* A framed print on a photo: a ring of paper around it cuts it off.
Framed ==
  {[Layout(<<<<0, 0, 8, 7>>>>, {}, <<>>, <<>>)
     EXCEPT !.marks = @ \ (Pixels(<<r[1], r[2], r[3] + 2, r[4] + 2>>)
                             \ Pixels(<<r[1] + 1, r[2] + 1, r[3] + 1, r[4] + 1>>))] :
     r \in {r \in Rects({2, 3}, {2}) : r[1] >= 1 /\ r[2] >= 1 /\ r[3] <= 5 /\ r[4] <= 4}}
\* A page printed to its edges.
FullBleed ==
  LET layout(w, h, b) == [Layout(<<b>>, {}, <<>>, <<>>)
                            EXCEPT !.paper = FALSE, !.width = w, !.height = h]
  IN {layout(8, 8, <<0, 0, 8, 8>>), layout(5, 3, <<0, 0, 5, 3>>), layout(25, 18, <<0, 0, 18, 13>>)}
LayoutsInUse ==
  TwoPictures \cup ThreePictures \cup Captioned \cup Framed \cup Enlarged \cup FullBleed

----------------------------------------------------------------------------
\* Boxes in quarters of a pixel, in and beyond a page of 4 by 3.
DrawingsInUse ==
  {[box |-> <<x0, y0, x1, y1>>, width |-> 4, height |-> 3] :
     x0 \in -3..9, x1 \in -1..18, y0 \in {-2, 0, 1, 2, 3, 6}, y1 \in {1, 6, 8, 9, 10, 11, 12, 13}}

----------------------------------------------------------------------------
Desk == <<"desk">>
OfficeChair == <<"office", "chair">>
Raw(box, score, wording) == [box |-> box, score |-> score, wording |-> wording]
FindBoxes == {<<0, 0, 8, 8>>, <<0, 0, 10, 8>>, <<5, 0, 12, 9>>, <<9, 9, 16, 16>>,
              <<1, 1, 2, 2>>, <<-3, 10, 5, 20>>}
Answer(raw, candidates, factor, fits) ==
  [raw |-> raw, asked |-> <<Desk, <<>>, OfficeChair, Desk>>, factor |-> factor,
   picture |-> [width |-> 8, height |-> 8], candidates |-> candidates, fits |-> fits]
Whole == Pixels(<<0, 0, 8, 8>>)
Outline(mask, score) == [mask |-> mask, score |-> score]

\* Up to three answers, a mixture of labels, sureness and boxes.
Mixtures ==
  LET raws == {Raw(b, s, w) : b \in FindBoxes, s \in {40, 90}, w \in {Desk, <<"chair">>}}
  IN {Answer(raw, <<Outline(Whole, 90)>>, 1, TRUE) :
        raw \in UNION {[1..n -> raws] : n \in 0..2}}
     \cup {Answer(raw, <<Outline(Whole, 90)>>, 1, TRUE) :
             raw \in [1..3 -> {Raw(b, s, Desk) : b \in FindBoxes, s \in {40, 60, 90}}]}
\* Too many phrases, or none.
Refused ==
  {[Answer(<<Raw(<<0, 0, 8, 8>>, 90, Desk)>>, <<Outline(Whole, 90)>>, 1, TRUE)
      EXCEPT !.asked = a] : a \in {<<>>, <<<<>>>>, <<Desk, OfficeChair, <<"lamp">>>>}}
\* One answer with outlines of every kind, of any part of a pixel.
Outlined ==
  {Answer(<<Raw(<<x, 3, x + w, 7>>, 120, Desk)>>, <<Outline(m, s), Outline(k, 80)>>, f, fits) :
     x \in 0..5, w \in 2..3, s \in {50, 75, 85}, f \in 1..2, fits \in BOOLEAN,
     m \in {Whole, {}, {<<3, 3>>}, Pixels(<<0, 0, 3, 4>>)}, k \in {{}, {<<2, 2>>, <<3, 2>>}}}
AnswersInUse == Mixtures \cup Outlined \cup Refused

----------------------------------------------------------------------------
Categories == [l \in {"desk", "table", "chair"} |->
                 IF l = "chair" THEN "office-chairs" ELSE "workstations"]
Line(codes, sizes, series, rest, confidence) ==
  [codes |-> codes, sizes |-> sizes, series |-> series, rest |-> rest,
   confidence |-> confidence]
Letters == {<<"", "", "">>, <<"width", "depth", "height">>, <<"length", "", "">>,
            <<"width", "width", "">>, <<"", "depth", "">>}
LinesInUse ==
  {Line(<<>>, <<l>>, <<>>, r, c) : l \in Letters, r \in {"none", "short", "long"}, c \in {50, 100}}
  \cup {Line(codes, <<>>, <<>>, "none", c) : codes \in {<<"A-1">>, <<"A-1", "B-2">>}, c \in {50, 100}}
  \cup {Line(<<"A-1">>, <<<<"", "", "">>>>, <<"09 series">>, "short", 100),
        Line(<<>>, <<>>, <<"09 series">>, "none", 100), Line(<<>>, <<>>, <<>>, "short", 100)}
Find(id, panel, label, confidence, status, score) ==
  [id |-> id, panel |-> panel, label |-> label, confidence |-> confidence,
   status |-> status, score |-> score]
OneFind ==
  {<<Find(1, 1, "desk", c, o[1], o[2])>> :
     c \in {30, 40, 60, 100}, o \in {<<"SUCCEEDED", 100>>, <<"LOW_CONFIDENCE", 40>>, <<"FAILED", 90>>,
                               <<"SUCCEEDED", 70>>, <<"NONE", 0>>}}
TwoFinds ==
  {<<f, Find(2, 2, l, c, s, 90)>> :
     f \in {Find(1, 1, "desk", c, "SUCCEEDED", 100) : c \in {30, 100}}, l \in {"chair", "lamp"},
     c \in {50, 100}, s \in {"SUCCEEDED", "FAILED"}}
\* A first page with up to one line, a later one with up to two.
TextsInUse ==
  {[number |-> n, finds |-> f, lines |-> l] :
     n \in 1..2, f \in OneFind \cup TwoFinds \cup {<<>>},
     l \in UNION {[1..k -> LinesInUse] : k \in 0..1}}
  \cup {[number |-> 2, finds |-> f, lines |-> l] :
          f \in OneFind \cup TwoFinds, l \in [1..2 -> LinesInUse]}
=============================================================================
