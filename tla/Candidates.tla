----------------------------- MODULE Candidates ------------------------------
(* Grouping what was found on a page into one candidate (services/candidates.py), the facts *)
(* picked out of its lines (text_signals.py) and the kind of the page (page_classifier.py). *)
(* A line of text is [codes, sizes, series, rest, confidence]: the sequences of model codes,*)
(* sizes (the letters at their three numbers) and series labels it prints, what else it     *)
(* says ("none", "short" or "long"), and how sure the engine is of it.  Confidences are     *)
(* percentages; a score of 1 is One.  What may be missing is a sequence of at most one.     *)
EXTENDS Integers, SequencesExt, FiniteSetsExt

CONSTANTS
  CategoryOf,     \* CATEGORY_HINTS: a function from some labels to category slugs
  AutoReview,     \* auto_review_threshold, in percent
  LowConfidence   \* low_confidence_threshold, in percent

\* Both are shares in the settings (config.py).
ASSUME ThresholdsAssumption == AutoReview \in 0..100 /\ LowConfidence \in 0..100

\* What the letters at the numbers of a size stand for (_LABEL_FIELDS), "" for no letter.
FieldNames == {"", "width", "depth", "height", "length"}

None == <<>>
One == 6000       \* divisible by a hundred percent and by the numbers of finds in use
Percent(n) == n * (One \div 100)

----------------------------------------------------------------------------
(* Text signals.                                                           *)

\* The fields of three numbers printed as a size, from the letters at them ("" is none):
\* fields named twice are noise, and unnamed numbers take the free ones in the usual order.
DimensionFields(letters) ==
  LET named == {i \in 1..3 : letters[i] # ""}
      usable == \A i, j \in named : letters[i] = letters[j] => i = j
      taken == IF usable THEN {letters[i] : i \in named} ELSE {}
      add(free, f) == IF f \in taken THEN free ELSE Append(free, f)
      free == FoldLeft(add, <<>>, <<"width", "depth", "height">>)
      place(i) == Cardinality({j \in 1..i : ~usable \/ letters[j] = ""})
  IN [i \in 1..3 |-> IF usable /\ letters[i] # "" THEN letters[i] ELSE free[place(i)]]

\* Facts of the lines in order, each with the number of its line.
ExtractSignals(lines) ==
  LET facts(of(_)) == FlattenSeq([n \in DOMAIN lines |->
                        [k \in DOMAIN of(lines[n]) |-> [value |-> of(lines[n])[k], line |-> n]]])
  IN [codes |-> facts(LAMBDA l : l.codes),
      sizes |-> facts(LAMBDA l : [k \in DOMAIN l.sizes |-> DimensionFields(l.sizes[k])]),
      series |-> facts(LAMBDA l : l.series)]

\* What kind of page it is, from its text alone.
ClassifyPage(number, signals) ==
  IF signals.codes # <<>> \/ signals.sizes # <<>> THEN "PRODUCT"
  ELSE IF number = 1 THEN "COVER" ELSE "UNKNOWN"

First(facts) == IF facts = <<>> THEN None ELSE <<facts[1]>>

----------------------------------------------------------------------------
(* Scores.                                                                 *)

Mean(values) == IF values = <<>> THEN 0
                ELSE (FoldLeft(LAMBDA s, v : s + Percent(v), 0, values)) \div Len(values)

\* A failed outline counts as nothing, whatever its score.
OutlineComponent(find) ==
  IF find.status \notin {"FAILED", "NONE"} THEN find.score ELSE 0

\* The rest of the size's line, else a series label; what is too long is no name.
PickName(lines, size, series) ==
  IF size # None /\ lines[size[1].line].rest # "none"
  THEN IF lines[size[1].line].rest = "long" THEN None ELSE <<lines[size[1].line].rest>>
  ELSE IF series = None THEN None ELSE <<series[1].value>>

\* The category most labels stand for; of those alike, the first in reading order.
SuggestCategory(labels) ==
  LET known == SelectSeq(labels, LAMBDA l : l \in DOMAIN CategoryOf)
      slugs == [i \in DOMAIN known |-> CategoryOf[known[i]]]
      count(c) == Cardinality({i \in DOMAIN slugs : slugs[i] = c})
      pick(best, c) == IF best = None \/ count(c) > count(best[1]) THEN <<c>> ELSE best
  IN FoldLeft(pick, None, slugs)

\* Mutant: a code without a size anchors the page as well as both do.
AssociationConfidenceEither(signals) ==
  LET base == IF signals.codes # <<>> \/ signals.sizes # <<>> THEN One ELSE Percent(30)
  IN IF Len(signals.codes) > 1 \/ Len(signals.sizes) > 1 THEN base \div 2 ELSE base

\* How sure it is that the finds belong together.
AssociationConfidence(signals) ==
  LET both == signals.codes # <<>> /\ signals.sizes # <<>>
      either == signals.codes # <<>> \/ signals.sizes # <<>>
      base == IF both THEN One ELSE IF either THEN Percent(60) ELSE Percent(30)
  IN IF Len(signals.codes) > 1 \/ Len(signals.sizes) > 1 THEN base \div 2 ELSE base

MetadataConfidence(name, code, size) == (Len(name) + Len(code) + Len(size)) * (One \div 3)

\* How sure the engine is of the lines they were read from; what is missing counts as zero.
OcrConfidence(lines, name, nameLine, code, size) ==
  LET part(there, weight, n) ==
        IF there = None THEN 0
        ELSE (weight * (IF n \in DOMAIN lines THEN lines[n].confidence ELSE 100) * One) \div 10000
      lineOf(fact) == IF fact = None THEN 0 ELSE fact[1].line
  IN part(code, 40, lineOf(code)) + part(size, 40, lineOf(size)) + part(name, 20, nameLine)

\* overall_confidence, in hundredths of a One.
OverallConfidence(detection, segmentation, ocr, association, metadata) ==
  25 * detection + 25 * segmentation + 15 * ocr + 20 * association + 15 * metadata

----------------------------------------------------------------------------
\* A find is [id, panel, label, confidence, status, score]; its status is "NONE" when no
\* outline was made.
Flags(signals, finds, overall) ==
  LET flag(name, when) == IF when THEN {name} ELSE {}
      someOutline(status) == \E f \in ToSet(finds) : f.status = status
  IN UNION {flag("MULTIPLE_MODEL_CODES_ON_PAGE", Len(signals.codes) > 1),
            flag("MULTIPLE_DIMENSIONS_ON_PAGE", Len(signals.sizes) > 1),
            flag("NO_MODEL_CODE", signals.codes = <<>>),
            flag("NO_DIMENSIONS", signals.sizes = <<>>),
            flag("SOME_OUTLINES_FAILED", someOutline("FAILED")),
            flag("SOME_OUTLINES_LOW_CONFIDENCE", someOutline("LOW_CONFIDENCE")),
            flag("LOW_CONFIDENCE", overall < LowConfidence * One)}

\* One candidate for everything found on a page, None if nothing was.  A size keeps its
\* width, depth and height; its length, if it has one, goes.
BuildPageCandidate(finds, lines) ==
  LET signals == ExtractSignals(lines)
      code == First(signals.codes)
      size == First(signals.sizes)
      series == First(signals.series)
      name == PickName(lines, size, series)
      nameLine == IF size # None THEN size[1].line ELSE IF series # None THEN series[1].line ELSE 0
      of(field(_)) == [i \in DOMAIN finds |-> field(finds[i])]
      overall == OverallConfidence(
        Mean(of(LAMBDA f : f.confidence)), Mean(of(OutlineComponent)),
        OcrConfidence(lines, name, nameLine, code, size),
        AssociationConfidence(signals), MetadataConfidence(name, code, size))
  IN IF finds = <<>> THEN None
     ELSE <<[finds |-> of(LAMBDA f : f.id), panels |-> ToSet(of(LAMBDA f : f.panel)),
             status |-> IF overall >= AutoReview * One THEN "READY" ELSE "NEEDS_REVIEW",
             name |-> name, code |-> code,
             size |-> IF size = None THEN {}
                      ELSE ToSet(size[1].value) \cap {"width", "depth", "height"},
             series |-> series, labels |-> ToSet(of(LAMBDA f : f.label)),
             category |-> SuggestCategory(of(LAMBDA f : f.label)),
             flags |-> Flags(signals, finds, overall), overall |-> overall]>>

PagesWithoutPanels == {"COVER"}
\* A page as it leaves a run that reads text, and its candidate: a page without panels has no
\* finds.
PageCandidate(number, finds, lines) ==
  LET type == ClassifyPage(number, ExtractSignals(lines))
  IN [type |-> type,
      candidate |-> BuildPageCandidate(IF type \in PagesWithoutPanels THEN <<>> ELSE finds, lines)]
=============================================================================
