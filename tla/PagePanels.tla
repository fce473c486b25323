----------------------------- MODULE PagePanels ------------------------------
(* Cutting a page into its photo panels (services/panels.py), and which lines of text       *)
(* belong to which panel.  A picture mask is the set of its marked pixels, <<x, y>>, on a   *)
(* working copy that is shrunk if the page is large.  OpenCV's part, the mask and its blobs,*)
(* is external; gaps narrower than CLOSING_PX, which it fills, are left out.                *)
EXTENDS Boxes, SequencesExt

CONSTANTS
  WorkMaxPx,       \* WORK_MAX_PX
  TextMarginPx,    \* by how much more than a line's box is erased
  SplitGutterPx,   \* SPLIT_GUTTER_PX
  PanelSidePx,     \* MIN_SIDE_PX
  EmptyMarks,      \* EMPTY_MARKS: so few marks in a row or column are a connector line
  EmptyProfile     \* EMPTY_PROFILE, in thousandths of its length: as many as that, too

Pixels(b) == (b[1] .. b[3] - 1) \X (b[2] .. b[4] - 1)

\* Share of a box that is marked, against a share in percent.
MarkedLess(marks, b, percent) ==
  100 * Cardinality(marks \cap Pixels(b)) < percent * Area(b)

\* How much smaller the working copy is, as a fraction <<n, d>>, and its size.
Scale(page) ==
  LET longest == Max({page.width, page.height})
  IN IF longest > WorkMaxPx THEN <<longest, WorkMaxPx>> ELSE <<1, 1>>
WorkSize(page) ==
  <<Round(page.width * Scale(page)[2], Scale(page)[1]),
    Round(page.height * Scale(page)[2], Scale(page)[1])>>

\* A box times n / d, a margin around it, outwards to whole pixels, cut to a size.
Scaled(box, n, d, margin, size) ==
  <<Max({0, (box[1] * n) \div d - margin}), Max({0, (box[2] * n) \div d - margin}),
    Min({size[1], Ceil(box[3] * n, d) + margin}), Min({size[2], Ceil(box[4] * n, d) + margin})>>
ToPageBox(box, page) ==
  Scaled(box, Scale(page)[1], Scale(page)[2], 0, <<page.width, page.height>>)

\* Printed text on paper is no picture; text on a photo stays.
EraseText(page) ==
  LET work(b) == Scaled(b, Scale(page)[2], Scale(page)[1], TextMarginPx, WorkSize(page))
      erase(m, b) == IF Width(b) > 0 /\ Height(b) > 0 /\ MarkedLess(m, b, 45)
                     THEN m \ Pixels(b) ELSE m
  IN FoldLeft(erase, page.marks, [i \in DOMAIN page.text |-> work(page.text[i])])

\* connectedComponentsWithStats: the blobs of marks that touch, corners included.
Blobs(marks) ==
  LET near(p, q) == p[1] - q[1] \in -1..1 /\ p[2] - q[2] \in -1..1
      touching(p, blobs) == {b \in blobs : \E q \in b : near(p, q)}
      join(p, blobs) == (blobs \ touching(p, blobs)) \cup {{p} \cup UNION touching(p, blobs)}
  IN FoldSet(join, {}, marks)

----------------------------------------------------------------------------
(* Splitting a blob where paper runs across it.                            *)

Bounds(m) ==
  LET xs == {p[1] : p \in m}
      ys == {p[2] : p \in m}
  IN <<Min(xs), Min(ys), Max(xs) + 1, Max(ys) + 1>>

\* The empty strips of a mask between two parts that are large enough, [axis, start, end]:
\* axis 1 are rows of paper, 2 columns.
Gutters(m) ==
  LET b == Bounds(m)
      at(axis, i) == {p \in m : p[3 - axis] = i}
      low(axis) == b[3 - axis]
      high(axis) == b[5 - axis]
      length(axis) == b[axis + 2] - b[axis]
      empty(axis, i) == \/ Cardinality(at(axis, i)) <= EmptyMarks
                        \/ 1000 * Cardinality(at(axis, i)) <= EmptyProfile * length(axis)
      run(axis, s, e) == /\ \A i \in s .. e - 1 : empty(axis, i)
                         /\ s = low(axis) \/ ~empty(axis, s - 1)
                         /\ e = high(axis) \/ ~empty(axis, e)
      strips(axis) == {<<axis, s, e>> : s \in low(axis) + PanelSidePx .. high(axis),
                                        e \in low(axis) .. high(axis) - PanelSidePx}
  IN {g \in strips(1) \cup strips(2) : g[3] - g[2] >= SplitGutterPx /\ run(g[1], g[2], g[3])}

\* The widest; of those alike, rows come first, then the lowest position.
Widest(gutters) ==
  CHOOSE g \in gutters : \A h \in gutters \ {g} :
    LET w(s) == s[3] - s[2] IN
    \/ w(g) > w(h)
    \/ w(g) = w(h) /\ (g[1] < h[1] \/ (g[1] = h[1] /\ g[2] < h[2]))

\* Mutant: only the first strip is cut.
SplitOnce(blob) ==
  LET before(m, g) == {p \in m : p[3 - g[1]] < g[2]}
      after(m, g) == {p \in m : p[3 - g[1]] >= g[3]}
  IN IF Gutters(blob) = {} THEN {Bounds(blob)}
     ELSE LET g == Widest(Gutters(blob)) IN {Bounds(before(blob, g)), Bounds(after(blob, g))}

\* The boxes of the pictures in a blob.
Split(blob) ==
  LET before(m, g) == {p \in m : p[3 - g[1]] < g[2]}
      after(m, g) == {p \in m : p[3 - g[1]] >= g[3]}
      boxes[m \in SUBSET blob] ==
        IF m = {} THEN {}
        ELSE IF Gutters(m) = {} THEN {Bounds(m)}
        ELSE LET g == Widest(Gutters(m)) IN boxes[before(m, g)] \cup boxes[after(m, g)]
  IN boxes[blob]

----------------------------------------------------------------------------
(* From boxes to panels.                                                   *)

\* At least three quarters of it lie in a bigger one.
IsInsideAnother(box, boxes) ==
  \E other \in boxes : Area(other) > Area(box) /\ 4 * SharedArea(box, other) >= 3 * Area(box)

\* Rows of tops within 8 percent of the page's height, then left to right.
RowOf(y, height) == IF 2 * height <= 25 THEN y ELSE (25 * y) \div (2 * height)
SortReadingOrder(boxes, height) ==
  LET before(a, b) ==
        \/ RowOf(a[2], height) < RowOf(b[2], height)
        \/ RowOf(a[2], height) = RowOf(b[2], height) /\ a[1] < b[1]
  IN SetToSortSeq(boxes, before)

\* The panels of a page in reading order, in its pixels.  A page whose edge shows no paper is
\* one picture.
DetectPanels(page) ==
  IF ~page.paper THEN <<<<0, 0, page.width, page.height>>>>
  ELSE LET large(b) == Min({Width(b), Height(b)}) >= PanelSidePx /\ Area(b) >= page.minArea
           found == {ToPageBox(b, page) :
                       b \in {b \in UNION {Split(m) : m \in Blobs(EraseText(page))} :
                                large(b) /\ ~MarkedLess(page.marks, b, 12)}}
       IN SortReadingOrder({b \in found : ~IsInsideAnother(b, found)}, page.height)

\* For every panel the lines (by number) that belong to it: those with their centre in it,
\* to the smallest; those just below it and in line with it, to the nearest.
AssignLines(panels, lines, height) ==
  LET centred(p, l) == /\ 2 * p[1] <= l[1] + l[3] /\ l[1] + l[3] <= 2 * p[3]
                       /\ 2 * p[2] <= l[2] + l[4] /\ l[2] + l[4] <= 2 * p[4]
      caption(p, l) == /\ l[2] >= p[4] /\ 100 * (l[2] - p[4]) <= 6 * height
                       /\ 2 * OverlapW(p, l) >= Width(l)
      inside(l) == {i \in DOMAIN panels : centred(panels[i], l)}
      below(l) == {i \in DOMAIN panels : caption(panels[i], l)}
      least(S, size(_)) == Min({i \in S : \A j \in S : size(i) <= size(j)})
      owner(l) == IF inside(l) # {} THEN least(inside(l), LAMBDA i : Area(panels[i]))
                  ELSE IF below(l) # {} THEN least(below(l), LAMBDA i : l[2] - panels[i][4])
                  ELSE 0
  IN [i \in DOMAIN panels |-> {n \in DOMAIN lines : owner(lines[n]) = i}]
=============================================================================
