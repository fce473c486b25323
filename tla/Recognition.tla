----------------------------- MODULE Recognition -----------------------------
(* The services without state that a worker, an admin's drawing and an assembly call: one   *)
(* call with any of the arguments of an instance, and what it answers.                      *)
EXTENDS PageText, PagePanels, Finds, Candidates

CONSTANTS
  Pages,      \* arguments of ReadPageText: pages with printed lines, blur
  Layouts,    \* arguments of DetectPanels: pages with pictures and captions
  Drawings,   \* arguments of ValidateBox
  Answers,    \* arguments of FindProducts: what the models answer for a picture
  Texts       \* arguments of PageCandidate: number, lines and finds of a page

\* What the API lets through: four numbers, and a page of the database.
ASSUME DrawingsAssumption ==
  \A a \in Drawings : a.box \in Int \X Int \X Int \X Int /\ a.width \in Nat /\ a.height \in Nat

\* A model answers a list of boxes with a score and a wording (Detection of base.py), of a picture
\* that has pixels, seen at a whole part of its size.
ASSUME AnswersAssumption ==
  \A a \in Answers :
    /\ a.picture.width \in Nat \ {0} /\ a.picture.height \in Nat \ {0} /\ a.factor \in Nat \ {0}
    /\ a.raw \in Seq([box : Int \X Int \X Int \X Int, score : Int, wording : Seq(STRING)])

\* The finds and the lines of a page as the database has them: sure to a percentage, and each
\* size with three numbers.
ASSUME TextsAssumption ==
  \A a \in Texts :
    /\ a.finds \in Seq([id : Nat, panel : Nat, label : STRING, confidence : 0..100,
                        status : STRING, score : 0..100])
    /\ a.lines \in Seq([codes : Seq(STRING), sizes : Seq([1..3 -> FieldNames]),
                        series : Seq(STRING), rest : STRING, confidence : 0..100])

VARIABLES
  service,    \* the service called, "" before
  arg,        \* its arguments
  answer      \* what it returned

vars == <<service, arg, answer>>

Init == service = "" /\ arg = <<>> /\ answer = <<>>

Call(name, args, op(_)) ==
  /\ service = "" /\ service' = name
  /\ \E a \in args : arg' = a /\ answer' = op(a)

ReadText == Call("read_page_text", Pages, LAMBDA a : ReadPageText(a.page, a.blur))
FindPanels ==
  Call("detect_panels", Layouts,
       LAMBDA a : LET panels == DetectPanels(a)
                  IN [panels |-> panels, owned |-> AssignLines(panels, a.text, a.height)])
DrawBox == Call("validate_box", Drawings, LAMBDA a : ValidateBox(a.box, a.width, a.height))
FindPageProducts ==
  Call("find_products", Answers,
       LAMBDA a : FindProducts(Detect(a.raw, ParsePrompts(a.asked), a.factor, a.picture),
                               a.candidates, a.fits, a.picture))
Group ==
  Call("build_page_candidate", Texts, LAMBDA a : PageCandidate(a.number, a.finds, a.lines))

Next == ReadText \/ FindPanels \/ DrawBox \/ FindPageProducts \/ Group
Spec == Init /\ [][Next]_vars
-----------------------------------------------------------------------------
(* Properties.                                                             *)

Once(s, Test(_)) == Cardinality({i \in DOMAIN s : Test(s[i])}) = 1

\* The tiles of an axis reach from edge to edge, each overlapping the next as asked.
TilesCover(length, tile, overlap) ==
  LET a == Axis(length, tile, overlap)
      n == Len(a.origins)
  IN /\ a.origins[1] = 0 /\ a.origins[n] + a.size = length
     /\ \A i \in 1 .. n - 1 : /\ a.origins[i] < a.origins[i + 1]
                              /\ a.origins[i + 1] + overlap <= a.origins[i] + a.size

\* As wide as a printed line may be to be read whole wherever the tiles' edges fall: the
\* strip around the longest part that a tile sees must reach the end of the line.
SurelyWhole(page) ==
  Min({page.tile + page.overlap, (2 * Max({page.tile, ComfortPx}) + page.overlap) \div 3})

\* A page's tiles cover it, and every printed line that is not wider than SurelyWhole is read
\* whole and once, wherever it lies: whatever tiles cut it, it is not lost, clipped or
\* doubled by the merging and the repair.  Lines side by side come left to right.
PageIsRead ==
  service = "read_page_text" =>
    LET page == arg.page
        short(l) == /\ Width(l) + 2 * arg.blur <= SurelyWhole(page)
                    /\ Height(l) <= page.overlap \/ page.height <= page.tile
    IN /\ TilesCover(page.width, page.tile, page.overlap)
       /\ TilesCover(page.height, page.tile, page.overlap)
       /\ IF Len(page.lines) > page.maxLines THEN Len(answer) = page.maxLines
          ELSE \A l \in ToSet(page.lines) : short(l) =>
                 /\ Once(answer, LAMBDA r : r.of = l)
                 /\ Once(answer, LAMBDA r : r.box = l)
       /\ \A i, j \in DOMAIN answer : i < j =>
            /\ Middle(answer[i]) = Middle(answer[j]) => answer[i].box[1] <= answer[j].box[1]
            /\ answer[j].box[4] + Height(answer[i].box) > answer[i].box[2]

\* Pictures with enough paper between them are panels of their own: one for each, with its
\* edges to within a pixel of the page, whatever the page was shrunk by, but for stubs of thin
\* lines that join some and the margin that goes with a caption that touches it; a picture on
\* a picture is none.  A caption belongs to the picture it is printed under.
PanelsAsPrinted ==
  service = "detect_panels" =>
    LET up == Scale(arg)[1]
        down == Scale(arg)[2]
        whole == <<0, 0, arg.width * down, arg.height * down>>
        cut == IF arg.text = <<>> THEN 0 ELSE TextMarginPx * up
        \* by how much a panel is larger than a picture, at each side
        excess(p, b) == <<p[1] * up - b[1] * down, p[2] * up - b[2] * down,
                          b[3] * down - Min({whole[3], p[3] * up}), b[4] * down - Min({whole[4], p[4] * up})>>
        panelOf(p) == {i \in DOMAIN answer.panels :
                         \A k \in 1..4 : excess(p, answer.panels[i])[k] >= -cut}
    IN /\ Len(answer.panels) = Cardinality(arg.pictures)
       /\ \A p \in arg.pictures : Cardinality(panelOf(p)) = 1
       /\ \A p, q \in arg.pictures : p # q => panelOf(p) # panelOf(q)
       /\ ~arg.joined => \A p \in arg.pictures : \A i \in panelOf(p) :
                           \A k \in 1..4 : excess(p, answer.panels[i])[k] < down
       /\ \A p \in arg.pictures : \A i \in panelOf(p) :
            answer.owned[i] = {l \in DOMAIN arg.text : arg.under[l] = p}

\* A box is refused only if less than the smallest side of it is on the page; what is accepted
\* lies on the page, is large enough, is within half a pixel of what was drawn there, and
\* stays the same when it is sent again.
BoxesAsDrawn ==
  service = "validate_box" =>
    LET visible == <<Max({0, arg.box[1]}), Max({0, arg.box[2]}),
                     Min({arg.width * SubPx, arg.box[3]}), Min({arg.height * SubPx, arg.box[4]})>>
        sent == [i \in 1..4 |-> answer[i] * SubPx]
    IN IF answer = NoBox
       THEN Width(visible) < MinSidePx * SubPx \/ Height(visible) < MinSidePx * SubPx
       ELSE /\ Width(answer) >= MinSidePx /\ Height(answer) >= MinSidePx
            /\ \A i \in 1..4 : 2 * (sent[i] - visible[i]) \in -SubPx .. SubPx
            /\ ValidateBox(sent, arg.width, arg.height) = answer

\* Each object is found once: no two finds are the same thing, what was dropped is the same as
\* a find at least as sure, and tidying again changes nothing.  Every find has its crop, and
\* the other four pictures if it has an outline, whose every pixel the cut-out shows: the
\* empty cut-out render_find guards against cannot happen.
OneFindPerObject ==
  service = "find_products" =>
    LET seen == Detect(arg.raw, ParsePrompts(arg.asked), arg.factor, arg.picture)
        kept == [i \in DOMAIN answer |-> answer[i].found.detection]
    IN /\ \A i, j \in DOMAIN kept : i # j => ~SameObject(kept[i], kept[j])
       /\ \A d \in ToSet(seen) : LargeEnough(d, arg.picture) =>
            \E k \in ToSet(kept) : k = d \/ (SameObject(d, k) /\ k.confidence >= d.confidence)
       /\ Tidy(kept, arg.picture) = kept
       /\ \A f \in ToSet(answer) :
            IF f.found.status = "FAILED" THEN f.pictures = {"crop"}
            ELSE /\ f.pictures = {"crop", "mask", "cutout", "white", "thumbnail"}
                 /\ f.cutout = f.found.mask

\* A candidate that needs no review rests on a code and a size read off its page and on finds
\* and outlines that are not poor on average; it is never flagged as of low confidence.  No
\* number of a size is lost among its fields or in two of them.  What a first page shows is
\* grouped only if the page prints a code or a size.
ReadyIsEvidenced ==
  service = "build_page_candidate" /\ answer.candidate # None =>
    LET draft == answer.candidate[1]
        n == Len(arg.finds)
        total(of(_)) == FoldLeft(LAMBDA s, f : s + of(f), 0, arg.finds)
        needed == AutoReview - 75      \* what the other ingredients cannot make up for
    IN /\ draft.status = "READY" =>
            /\ draft.flags \cap {"NO_MODEL_CODE", "NO_DIMENSIONS", "LOW_CONFIDENCE"} = {}
            /\ 25 * total(LAMBDA f : f.confidence) >= 100 * needed * n
            /\ 25 * total(OutlineComponent) >= 100 * needed * n
       /\ draft.size # {} => Cardinality(ToSet(ExtractSignals(arg.lines).sizes[1].value)) = 3
       /\ arg.number = 1 => ~({"NO_MODEL_CODE", "NO_DIMENSIONS"} \subseteq draft.flags)
       /\ draft.overall \in 0 .. 100 * One
=============================================================================
