-------------------------------- MODULE Finds --------------------------------
(* Finding the products in a panel's picture (services/detections.py, masks.py,             *)
(* product_finding.py).  Boxes are in SubPx to a pixel, as a model's answers are fractions; *)
(* a mask is the set of its pixels; shares, scores and confidences are percentages.  A      *)
(* picture is [width, height] in pixels.                                                    *)
EXTENDS Boxes, SequencesExt

CONSTANTS
  MaxPrompts,      \* MAX_PROMPTS
  MinProductPx,    \* min_side_px of drop_tiny
  MinScore,        \* product_min_outline_score
  MinCoverage      \* product_min_outline_coverage

----------------------------------------------------------------------------
(* What the finder answers.  A phrase is a sequence of words.              *)

\* The phrases to look for, each once.  A request for none or too many is refused: it raises
\* before any page is tried, which fails the run (PipelineRun); here nothing is found.
ParsePrompts(phrases) ==
  LET add(kept, p) == IF p = <<>> \/ p \in ToSet(kept) THEN kept ELSE Append(kept, p)
      prompts == FoldLeft(add, <<>>, phrases)
  IN IF Len(prompts) \in 1 .. MaxPrompts THEN prompts ELSE <<>>

\* The phrase asked for that a model's wording stands for, or <<>>: the same words, else all
\* of its words there, then the most words in common, then the longest, then the first.
MatchPrompt(wording, prompts) ==
  LET common(p) == Cardinality(ToSet(p) \cap ToSet(wording))
      whole(p) == common(p) = Len(p)
      better(p, q) == \/ whole(p) /\ ~whole(q)
                      \/ whole(p) = whole(q) /\ common(p) > common(q)
                      \/ whole(p) = whole(q) /\ common(p) = common(q) /\ Len(p) > Len(q)
      pick(best, p) == IF common(p) > 0 /\ (best = <<>> \/ better(p, best)) THEN p ELSE best
  IN IF wording \in ToSet(prompts) THEN wording ELSE FoldLeft(pick, <<>>, prompts)

ClampBox(box, picture) ==
  <<Clip(box[1], 0, picture.width * SubPx), Clip(box[2], 0, picture.height * SubPx),
    Clip(box[3], 0, picture.width * SubPx), Clip(box[4], 0, picture.height * SubPx)>>

BoxArea(b) == Max({0, Width(b)}) * Max({0, Height(b)})

\* detect: the model saw the picture shrunk by `factor`; what stands for nothing asked for,
\* or has no area, is dropped.
Detect(raw, prompts, factor, picture) ==
  LET found(r) ==
        [label |-> MatchPrompt(r.wording, prompts), confidence |-> Clip(r.score, 0, 100),
         box |-> ClampBox([i \in 1..4 |-> r.box[i] * factor], picture)]
      add(kept, d) == IF d.label # <<>> /\ BoxArea(d.box) > 0 THEN Append(kept, d) ELSE kept
  IN FoldLeft(add, <<>>, [i \in DOMAIN raw |-> found(raw[i])])

----------------------------------------------------------------------------
(* Tidying.                                                                *)

\* At least one percent of the picture, and not too narrow.
LargeEnough(d, picture) ==
  /\ 100 * BoxArea(d.box) >= picture.width * picture.height * SubPx * SubPx
  /\ Min({Width(d.box), Height(d.box)}) >= MinProductPx * SubPx
DropTiny(detections, picture) ==
  LET add(kept, d) == IF LargeEnough(d, picture) THEN Append(kept, d) ELSE kept
  IN FoldLeft(add, <<>>, detections)

\* Intersection over union reaches a percentage.
IoUReaches(a, b, percent) ==
  LET shared == SharedArea(a, b)
  IN shared > 0 /\ 100 * shared >= percent * (BoxArea(a) + BoxArea(b) - shared)

\* The same thing seen twice: half shared under one label, nearly all under two.
SameObject(c, d) == IoUReaches(c.box, d.box, IF c.label = d.label THEN 50 ELSE 85)

\* Mutant: the finds are gone through as they came.
SuppressInTurn(detections) ==
  LET keep(kept, c) == IF \E k \in DOMAIN kept : SameObject(c, kept[k]) THEN kept
                       ELSE Append(kept, c)
  IN FoldLeft(keep, <<>>, detections)

\* One find per object, the most confident.
SuppressOverlaps(detections) ==
  LET surer(c, d) == c.confidence > d.confidence
      keep(kept, c) == IF \E k \in DOMAIN kept : SameObject(c, kept[k]) THEN kept
                       ELSE Append(kept, c)
  IN FoldLeft(keep, <<>>, InOrder(detections, surer))

\* Cut to the picture, specks dropped, one for each object, in twelve rows of the picture.
Tidy(detections, picture) ==
  LET inside == [i \in DOMAIN detections |->
                   [detections[i] EXCEPT !.box = ClampBox(@, picture)]]
      row(d) == Round(12 * d.box[2], picture.height * SubPx)
      before(c, d) == row(c) < row(d) \/ (row(c) = row(d) /\ c.box[1] < d.box[1])
  IN InOrder(SuppressOverlaps(DropTiny(inside, picture)), before)

----------------------------------------------------------------------------
(* Outlines.                                                               *)

\* The pixels a box touches.
Touched(box, picture) ==
  LET at(v, size) == Clip(v, 0, size)
  IN (at(box[1] \div SubPx, picture.width) .. at(Ceil(box[3], SubPx), picture.width) - 1)
       \X (at(box[2] \div SubPx, picture.height) .. at(Ceil(box[4], SubPx), picture.height) - 1)

ClipToBox(mask, box, picture) == mask \cap Touched(box, picture)

\* Of the outlines rated within ten percent of the best, the largest, then the best rated,
\* then the first: [mask, score].
ChooseMask(candidates, box, picture) ==
  LET clipped == [i \in DOMAIN candidates |->
                    [candidates[i] EXCEPT !.mask = ClipToBox(@, box, picture)]]
      size(c) == Cardinality(c.mask)
      best == Max({c.score : c \in ToSet(candidates)})
      eligible == SelectSeq(clipped, LAMBDA c : c.score >= best - 10)
      larger(b, c) == \/ size(c) > size(b)
                      \/ size(c) = size(b) /\ c.score > b.score
  IN FoldLeft(LAMBDA b, c : IF larger(b, c) THEN c ELSE b, eligible[1], eligible)

\* Does the outline fill at least MinCoverage of the find's box?
Covers(mask, box, picture) ==
  100 * SubPx * SubPx * Cardinality(ClipToBox(mask, box, picture)) >= MinCoverage * BoxArea(box)

NoMask == {}
\* The verdict on an outline.  One of another size than the picture does not fit.
Judge(d, outline, picture) ==
  LET inside == ClipToBox(outline.mask, d.box, picture)
      verdict(status, mask) == [detection |-> d, status |-> status, mask |-> mask]
  IN IF ~outline.fits \/ inside = {} THEN verdict("FAILED", NoMask)
     ELSE IF Clip(outline.score, 0, 100) < MinScore \/ ~Covers(inside, d.box, picture)
     THEN verdict("LOW_CONFIDENCE", inside)
     ELSE verdict("SUCCEEDED", inside)

\* Mutant: a find smaller than a pixel has an empty crop.
PixelBoxExact(box, picture) ==
  <<Max({0, Ceil(box[1], SubPx)}), Max({0, Ceil(box[2], SubPx)}),
    Min({picture.width, box[3] \div SubPx}), Min({picture.height, box[4] \div SubPx})>>

\* The whole pixels of a find's crop, at least one.
PixelBox(box, picture) ==
  LET left == Min({Max({0, box[1] \div SubPx}), picture.width - 1})
      top == Min({Max({0, box[2] \div SubPx}), picture.height - 1})
  IN <<left, top, Min({picture.width, Max({left + 1, Ceil(box[3], SubPx)})}),
       Min({picture.height, Max({top + 1, Ceil(box[4], SubPx)})})>>

\* The pictures of a find, and the pixels of the object its cut-out shows.
RenderFind(found, picture) ==
  LET crop == PixelBox(found.detection.box, picture)
      covered == found.mask \cap ((crop[1] .. crop[3] - 1) \X (crop[2] .. crop[4] - 1))
  IN [found |-> found, cutout |-> covered,
      pictures |-> {"crop"} \cup (IF found.mask = NoMask THEN {} ELSE {"mask"})
                            \cup (IF covered = {} THEN {} ELSE {"cutout", "white", "thumbnail"})]

\* find_products on the models' answers, and the pictures made of each find.  `outlines` gives
\* the three candidates the outliner has for any box.
FindProducts(detections, candidates, fits, picture) ==
  LET tidied == Tidy(detections, picture)
      outline(d) == LET chosen == ChooseMask(candidates, d.box, picture)
                    IN [mask |-> chosen.mask, score |-> chosen.score, fits |-> fits]
  IN [i \in DOMAIN tidied |-> RenderFind(Judge(tidied[i], outline(tidied[i]), picture), picture)]
=============================================================================
