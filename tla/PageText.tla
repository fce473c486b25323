------------------------------ MODULE PageText -------------------------------
(* Reading all the text of one rendered page (services/ocr.py): overlapping tiles, merging  *)
(* of what was read twice, repair of what a tile's edge cut, reading order.                 *)
(* A printed line is its box on the page.  What is read of it is [of, box, confidence,      *)
(* seam]: its text are the characters printed between the box's ends, one to a unit of      *)
(* width; seam tells that it reaches an edge of the tile it was read in.                    *)
EXTENDS Boxes, SequencesExt

CONSTANTS
  ComfortPx,      \* ENGINE_COMFORT_PX
  SeamMarginPx,   \* SEAM_MARGIN_PX
  MinStripPx,     \* the lowest strip a line is read again in
  MinBandPx       \* the least height of a row in the reading order

ASSUME ComfortPxAssumption == ComfortPx \in Nat

----------------------------------------------------------------------------
(* Tiles.                                                                  *)

\* Mutant: as many tiles as there are steps, rounded down.
AxisTooFew(length, tile, overlap) ==
  IF length <= Max({tile, Min({(5 * tile) \div 4, ComfortPx})})
  THEN [origins |-> <<0>>, size |-> length]
  ELSE LET count == Max({2, (length - overlap) \div (tile - overlap)})
       IN [origins |-> [i \in 1..count |-> Round((i - 1) * (length - tile), count - 1)],
           size |-> tile]

\* Origins of the tiles along an axis and their size.
Axis(length, tile, overlap) ==
  IF length <= Max({tile, Min({(5 * tile) \div 4, ComfortPx})})
  THEN [origins |-> <<0>>, size |-> length]
  ELSE LET count == Max({2, Ceil(length - overlap, tile - overlap)})
       IN [origins |-> [i \in 1..count |-> Round((i - 1) * (length - tile), count - 1)],
           size |-> tile]

\* Row by row.
TileBoxes(page, tile, overlap) ==
  LET xs == Axis(page.width, tile, overlap)
      ys == Axis(page.height, tile, overlap)
      row(y) == [i \in DOMAIN xs.origins |->
                   <<xs.origins[i], y, xs.origins[i] + xs.size, y + ys.size>>]
  IN FlattenSeq([j \in DOMAIN ys.origins |-> row(ys.origins[j])])

----------------------------------------------------------------------------
(* The text engine, as read_page_text uses it.                             *)

\* What the engine makes of a printed line in a picture cut from the page: the characters
\* it sees, if at least half of their height is there; surely when all of it is.  The box of
\* a line that is cut may end up to `blur` pixels before the cut.
Readable(line, view) ==
  OverlapW(line, view) > 0 /\ 2 * OverlapH(line, view) >= Height(line)
ReadIn(line, view, blur) ==
  [of |-> line,
   box |-> <<IF line[1] < view[1] THEN view[1] + blur ELSE line[1], Max({line[2], view[2]}),
             IF line[3] > view[3] THEN view[3] - blur ELSE line[3], Min({line[4], view[4]})>>,
   confidence |-> IF line[2] >= view[2] /\ line[4] <= view[4] THEN 2 ELSE 1,
   seam |-> FALSE]

\* The lines with content in page coordinates; a box without extent is no line.
Recognize(page, view, blur) ==
  LET read == [i \in DOMAIN page.lines |-> ReadIn(page.lines[i], view, blur)]
      seen(r) == Readable(r.of, view) /\ Width(r.box) > 0 /\ r.confidence >= page.minConfidence
  IN SelectSeq(read, seen)

\* Does a reading end at an edge of its tile that is not one of the page?
TouchesSeam(box, tile, page) ==
  \/ box[1] - tile[1] <= SeamMarginPx /\ tile[1] > 0
  \/ box[3] - tile[1] >= Width(tile) - SeamMarginPx /\ tile[3] < page.width
  \/ box[2] - tile[2] <= SeamMarginPx /\ tile[2] > 0
  \/ box[4] - tile[2] >= Height(tile) - SeamMarginPx /\ tile[4] < page.height

----------------------------------------------------------------------------
(* Merging.                                                                *)

Length(read) == Width(read.box)

\* At least 0.6 of the narrower and half of the lower box are shared.
IsSameText(a, b) ==
  LET w == OverlapW(a, b)
      h == OverlapH(a, b)
  IN /\ w > 0 /\ h > 0
     /\ 5 * w >= 3 * Min({Width(a), Width(b)})
     /\ 2 * h >= Min({Height(a), Height(b)})

\* Mutant: the surest reading wins, however short.
DropDuplicatesSurest(found) ==
  LET first(a, b) == a.confidence > b.confidence
      keep(kept, item) ==
        IF \E k \in DOMAIN kept : IsSameText(item.box, kept[k].box) THEN kept
        ELSE Append(kept, item)
  IN FoldLeft(keep, <<>>, InOrder(found, first))

\* The longest reading first, then the surest: it wins over its duplicates.
DropDuplicates(found) ==
  LET first(a, b) == \/ Length(a) > Length(b)
                     \/ Length(a) = Length(b) /\ a.confidence > b.confidence
      keep(kept, item) ==
        IF \E k \in DOMAIN kept : IsSameText(item.box, kept[k].box) THEN kept
        ELSE Append(kept, item)
  IN FoldLeft(keep, <<>>, InOrder(found, first))

\* The strip around a reading that may have been cut.
Strip(box, page) ==
  LET w == Min({page.width, Max({page.tile, ComfortPx}), Width(box) + page.tile})
      h == Min({page.height, Max({MinStripPx, 4 * Height(box)})})
      left == Min({Max({0, Round(box[1] + box[3] - w, 2)}), page.width - w})
      top == Min({Max({0, Round(box[2] + box[4] - h, 2)}), page.height - h})
  IN <<left, top, left + w, top + h>>

\* Read again; what was read first stays unless the strip has something longer.
Repair(item, page, blur) ==
  LET better(best, again) ==
        IF IsSameText(again.box, item.box) /\ Length(again) > Length(best) THEN again ELSE best
  IN FoldLeft(better, item, Recognize(page, Strip(item.box, page), blur))

----------------------------------------------------------------------------
(* Reading order.                                                          *)

Middle(read) == read.box[2] + read.box[4]       \* twice the centre

\* Twice the median of the heights.
MedianHeight(reads) ==
  LET low(a, b) == Height(a.box) < Height(b.box)
      s == InOrder(reads, low)
      n == Len(s)
  IN Height(s[(n + 1) \div 2].box) + Height(s[n \div 2 + 1].box)

\* Lines whose centre is within the band of the mean centre of the row before are in it.
ReadingOrder(reads) ==
  IF reads = <<>> THEN <<>>
  ELSE LET lower(a, b) == Middle(a) < Middle(b)
           left(a, b) == a.box[1] < b.box[1]
           sum(row) == FoldLeft(LAMBDA s, r : s + Middle(r), 0, row)
           \* twice the band, times ten: 0.6 of the median, at least MinBandPx
           band == Max({20 * MinBandPx, 6 * MedianHeight(reads)})
           near(row, r) == 10 * (Len(row) * Middle(r) - sum(row)) <= Len(row) * band
           place(rows, r) ==
             IF rows # <<>> /\ near(Last(rows), r)
             THEN Front(rows) \o <<Append(Last(rows), r)>>
             ELSE Append(rows, <<r>>)
           rows == FoldLeft(place, <<>>, InOrder(reads, lower))
       IN FlattenSeq([i \in DOMAIN rows |-> InOrder(rows[i], left)])

----------------------------------------------------------------------------
\* Mutant: what a tile's edge may have cut is not read again.
ReadPageTextOnce(page, blur) ==
  LET tiles == TileBoxes(page, page.tile, page.overlap)
      found == FlattenSeq([k \in DOMAIN tiles |-> Recognize(page, tiles[k], blur)])
  IN ReadingOrder(DropDuplicates(found))

\* The whole of read_page_text: every tile is read, what was read twice dropped, what may
\* have been cut read again, which may make it what another was, and the surest kept.
ReadPageText(page, blur) ==
  LET tiles == TileBoxes(page, page.tile, page.overlap)
      inTile(t) == LET reads == Recognize(page, t, blur)
                   IN [i \in DOMAIN reads |->
                         [reads[i] EXCEPT !.seam = TouchesSeam(reads[i].box, t, page)]]
      found == FlattenSeq([k \in DOMAIN tiles |-> inTile(tiles[k])])
      kept == DropDuplicates(found)
      repaired == [k \in DOMAIN kept |->
                     IF kept[k].seam THEN Repair(kept[k], page, blur) ELSE kept[k]]
      reads == DropDuplicates(repaired)
      surer(a, b) == a.confidence > b.confidence
  IN ReadingOrder(IF Len(reads) > page.maxLines
                  THEN SubSeq(InOrder(reads, surer), 1, page.maxLines) ELSE reads)
=============================================================================
