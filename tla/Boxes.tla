-------------------------------- MODULE Boxes --------------------------------
(* Boxes on a page, <<x0, y0, x1, y1>>, and the rounding of Python that the services which  *)
(* read, cut and edit pages share.  Coordinates are integers in a unit the user chooses;    *)
(* where the code has fractions of a pixel, a pixel is SubPx of them.                       *)
EXTENDS Integers, FiniteSetsExt

Width(b) == b[3] - b[1]
Height(b) == b[4] - b[2]
Area(b) == Width(b) * Height(b)

OverlapW(a, b) == Min({a[3], b[3]}) - Max({a[1], b[1]})
OverlapH(a, b) == Min({a[4], b[4]}) - Max({a[2], b[2]})

\* What two boxes share.
SharedArea(a, b) ==
  IF OverlapW(a, b) > 0 /\ OverlapH(a, b) > 0 THEN OverlapW(a, b) * OverlapH(a, b) ELSE 0

\* round(n / d) of Python: to the nearest, halves to the even neighbour.
Round(n, d) ==
  LET q == n \div d
      r == n % d
  IN IF 2 * r < d \/ (2 * r = d /\ q % 2 = 0) THEN q ELSE q + 1

Ceil(n, d) == -((-n) \div d)

Clip(v, low, high) == Max({low, Min({v, high})})

\* sorted() of Python, which is stable: the items in the order of a key, those alike as they
\* came.  An item's place is the number of those that go before it.
InOrder(items, before(_, _)) ==
  LET first(i, j) == \/ before(items[i], items[j])
                     \/ ~before(items[j], items[i]) /\ i < j
      place(i) == Cardinality({j \in DOMAIN items : first(j, i)}) + 1
  IN [k \in DOMAIN items |-> items[CHOOSE i \in DOMAIN items : place(i) = k]]

-----------------------------------------------------------------------------
(* A panel drawn by an admin, in SubPx to a pixel, on a page of whole pixels.               *)
CONSTANTS SubPx, MinSidePx

\* The smallest side is 20 pixels in the code; that it is even is why rounding halves to the
\* even neighbour refuses no box that is large enough.
ASSUME SubPxAssumption == SubPx \in Nat \ {0}
ASSUME MinSidePxAssumption == MinSidePx \in Nat \ {0} /\ MinSidePx % 2 = 0

NoBox == <<>>

\* Mutant: the smallest side is looked at before the box is cut at the page's edge.
ValidateUnclamped(box, width, height) ==
  LET px == [i \in 1..4 |-> Round(box[i], SubPx)]
  IN IF box[3] <= box[1] \/ box[4] <= box[2] \/ Width(px) < MinSidePx \/ Height(px) < MinSidePx
     THEN NoBox
     ELSE <<Max({0, px[1]}), Max({0, px[2]}), Min({width, px[3]}), Min({height, px[4]})>>

\* The box as whole pixels of the page, or NoBox for a refusal.
ValidateBox(box, width, height) ==
  LET cut == <<Max({0, Round(box[1], SubPx)}), Max({0, Round(box[2], SubPx)}),
               Min({width, Round(box[3], SubPx)}), Min({height, Round(box[4], SubPx)})>>
  IN IF box[3] <= box[1] \/ box[4] <= box[2] \/ Width(cut) < MinSidePx \/ Height(cut) < MinSidePx
     THEN NoBox
     ELSE cut
=============================================================================
