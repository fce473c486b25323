--------------------------- MODULE RecognitionProofs ---------------------------
(* What the services without state promise for pages, boxes and tiles of any size, and for  *)
(* any answer of the models: panels drawn by an admin, the tiles a page is read in, the     *)
(* dropping of what was read twice, the tidying of the finds of a picture, and what a       *)
(* candidate's verdict rests on.                                                            *)
EXTENDS Recognition, ListProofs, TLAPS

-----------------------------------------------------------------------------
(* Arithmetic.                                                             *)

\* What \div and % are.
LEMMA DivMod ==
  ASSUME NEW n \in Int, NEW d \in Nat \ {0}
  PROVE  n \div d \in Int /\ n % d \in 0..d-1 /\ n = (n \div d) * d + (n % d)
BY SMT

\* A multiple in a range of less than one step each way.
LEMMA Multiple ==
  ASSUME NEW k \in Int, NEW d \in Nat \ {0}
  PROVE  /\ k * d > -d => k >= 0
         /\ k * d < d => k <= 0
         /\ k > 0 => k * d >= d
BY SMT

LEMMA MaxOfTwo ==
  ASSUME NEW a \in Int, NEW b \in Int
  PROVE  Max({a, b}) = IF a >= b THEN a ELSE b
BY DEF Max

LEMMA MinOfTwo ==
  ASSUME NEW a \in Int, NEW b \in Int
  PROVE  Min({a, b}) = IF a <= b THEN a ELSE b
BY DEF Min

\* round() is at most half away, and even where it is just half away.
LEMMA RoundNear ==
  ASSUME NEW n \in Int, NEW d \in Nat \ {0}
  PROVE  /\ Round(n, d) \in Int
         /\ 2 * (Round(n, d) * d - n) \in -d .. d
         /\ 2 * (Round(n, d) * d - n) \in {-d, d} => Round(n, d) % 2 = 0
<1> DEFINE q == n \div d
           r == n % d
<1>1. q \in Int /\ r \in 0..d-1 /\ n = q * d + r
  BY DivMod
<1>2. q * d \in Int /\ (q + 1) * d = q * d + d
  BY <1>1
<1>3. Round(n, d) = IF 2 * r < d \/ (2 * r = d /\ q % 2 = 0) THEN q ELSE q + 1
  BY DEF Round
<1> HIDE DEF q, r
<1>4. CASE 2 * r < d
  BY <1>1, <1>2, <1>3, <1>4
<1>5. CASE 2 * r = d /\ q % 2 = 0
  BY <1>1, <1>2, <1>3, <1>5
<1>6. CASE 2 * r = d /\ q % 2 # 0
  <2>1. Round(n, d) = q + 1 /\ (q + 1) % 2 = 0
    BY <1>1, <1>3, <1>6
  <2> QED
    BY <1>1, <1>2, <1>6, <2>1
<1>7. CASE 2 * r > d
  BY <1>1, <1>2, <1>3, <1>7
<1> QED
  BY <1>1, <1>4, <1>5, <1>6, <1>7

\* Nothing is rounded at a whole number.
LEMMA RoundWhole ==
  ASSUME NEW k \in Int, NEW d \in Nat \ {0}
  PROVE  Round(k * d, d) = k
<1>1. k * d \in Int
  OBVIOUS
<1>2. PICK r \in Int : r = Round(k * d, d) /\ 2 * (r * d - k * d) \in -d .. d
  BY <1>1, RoundNear
<1>3. (r - k) * d = r * d - k * d /\ (r - k) * d > -d /\ (r - k) * d < d
  BY <1>2
<1>4. r - k >= 0 /\ r - k <= 0
  BY <1>2, <1>3, Multiple
<1>5. r = k
  <2>1. \A x, y \in Int : x - y >= 0 /\ x - y <= 0 => x = y
    OBVIOUS
  <2> QED
    BY <1>4, <2>1
<1> QED
  BY <1>2, <1>5

-----------------------------------------------------------------------------
(* A drawn box.                                                            *)

\* c pixels stand for v: at most half a pixel away, and even where just half away.
Stands(c, v) ==
  /\ c \in Int /\ v \in Int
  /\ 2 * (c * SubPx - v) \in -SubPx .. SubPx
  /\ 2 * (c * SubPx - v) \in {-SubPx, SubPx} => c % 2 = 0

LEMMA StandsRound ==
  ASSUME NEW b \in Int
  PROVE  Stands(Round(b, SubPx), b)
BY RoundNear, SubPxAssumption DEF Stands

\* Cutting at a page's edge, which is a whole number, keeps it so.
LEMMA StandsAtLow ==
  ASSUME NEW r, NEW b, Stands(r, b)
  PROVE  Stands(Max({0, r}), Max({0, b}))
<1>1. r \in Int /\ b \in Int /\ r * SubPx \in Int /\ 0 * SubPx = 0 /\ SubPx \in Nat \ {0}
  BY SubPxAssumption DEF Stands
<1>2. /\ Max({0, r}) = IF 0 >= r THEN 0 ELSE r
      /\ Max({0, b}) = IF 0 >= b THEN 0 ELSE b
  BY <1>1, MaxOfTwo
<1>3. /\ r * SubPx > -SubPx => r >= 0
      /\ r * SubPx < SubPx => r <= 0
  BY <1>1, Multiple
<1>4. 0 % 2 = 0
  OBVIOUS
<1>5. CASE r > 0 /\ b > 0
  BY <1>2, <1>5 DEF Stands
<1>6. CASE r <= 0 /\ b <= 0
  BY <1>1, <1>2, <1>4, <1>6 DEF Stands
<1>7. CASE r > 0 /\ b <= 0
  BY <1>1, <1>3, <1>7 DEF Stands
<1>8. CASE r <= 0 /\ b > 0
  <2>1. r = 0
    BY <1>1, <1>3, <1>8 DEF Stands
  <2> QED
    BY <1>1, <1>2, <1>8, <2>1 DEF Stands
<1> QED
  BY <1>1, <1>5, <1>6, <1>7, <1>8

LEMMA StandsAtHigh ==
  ASSUME NEW r, NEW b, Stands(r, b), NEW w \in Nat
  PROVE  Stands(Min({w, r}), Min({w * SubPx, b}))
<1>1. /\ r \in Int /\ b \in Int /\ r * SubPx \in Int /\ w * SubPx \in Int
      /\ SubPx \in Nat \ {0} /\ (r - w) * SubPx = r * SubPx - w * SubPx
  BY SubPxAssumption DEF Stands
<1>2. /\ Min({w, r}) = IF w <= r THEN w ELSE r
      /\ Min({w * SubPx, b}) = IF w * SubPx <= b THEN w * SubPx ELSE b
  BY <1>1, MinOfTwo
<1>3. /\ (r - w) * SubPx > -SubPx => r - w >= 0
      /\ (r - w) * SubPx < SubPx => r - w <= 0
      /\ (r - w) * SubPx >= 0 \/ r < w
  BY <1>1, Multiple
<1>4. CASE r < w /\ b < w * SubPx
  BY <1>1, <1>2, <1>4 DEF Stands
<1>5. CASE r >= w /\ b >= w * SubPx
  BY <1>1, <1>2, <1>5 DEF Stands
<1>6. CASE r < w /\ b >= w * SubPx
  BY <1>1, <1>3, <1>6 DEF Stands
<1>7. CASE r >= w /\ b < w * SubPx
  <2>1. r = w
    BY <1>1, <1>3, <1>7 DEF Stands
  <2> QED
    BY <1>1, <1>2, <1>7, <2>1 DEF Stands
<1> QED
  BY <1>1, <1>4, <1>5, <1>6, <1>7

\* A side is refused only if less than the smallest side of it can be seen: two ends just half
\* a pixel off are both even, and so is the smallest side.
LEMMA SideSeen ==
  ASSUME NEW c, NEW d, NEW v, NEW u, Stands(c, v), Stands(d, u), d - c < MinSidePx
  PROVE  u - v < MinSidePx * SubPx
<1> DEFINE S == SubPx
           M == MinSidePx
<1>1. /\ c \in Int /\ d \in Int /\ u \in Int /\ v \in Int /\ c * S \in Int /\ d * S \in Int
      /\ S \in Nat \ {0} /\ M \in Nat \ {0} /\ M * S \in Int
  BY SubPxAssumption, MinSidePxAssumption DEF Stands
<1>2. SUFFICES ASSUME u - v >= M * S PROVE FALSE
  BY <1>1
<1>3. (d - c - M) * S = d * S - c * S - M * S
  BY <1>1
<1>4. 2 * (d * S - u) >= -S /\ 2 * (c * S - v) <= S
  BY DEF Stands
<1>5. (d - c - M) * S >= -S
  BY <1>1, <1>2, <1>3, <1>4
<1>6. d - c - M = -1
  <2>1. (d - c - M + 1) * S = (d - c - M) * S + S
    BY <1>1
  <2>2. (d - c - M + 1) * S > -S
    BY <1>1, <1>5, <2>1
  <2>3. d - c - M + 1 >= 0
    BY <1>1, <2>2, Multiple
  <2> QED
    BY <1>1, <2>3
<1>7. 2 * (d * S - u) = -S /\ 2 * (c * S - v) = S
  <2>1. d * S - c * S - M * S = -S
    BY <1>1, <1>3, <1>6
  <2> QED
    BY <1>1, <1>2, <1>4, <2>1
<1>8. d % 2 = 0 /\ c % 2 = 0 /\ M % 2 = 0
  BY <1>7, MinSidePxAssumption DEF Stands
<1> QED
  BY <1>1, <1>6, <1>8

\* What validate_box makes of a drawing.
LEMMA DrawnBox ==
  ASSUME NEW a \in Drawings
  PROVE  LET box == ValidateBox(a.box, a.width, a.height)
             visible == <<Max({0, a.box[1]}), Max({0, a.box[2]}),
                          Min({a.width * SubPx, a.box[3]}), Min({a.height * SubPx, a.box[4]})>>
             sent == [i \in 1..4 |-> box[i] * SubPx]
         IN IF box = NoBox
            THEN Width(visible) < MinSidePx * SubPx \/ Height(visible) < MinSidePx * SubPx
            ELSE /\ Width(box) >= MinSidePx /\ Height(box) >= MinSidePx
                 /\ \A i \in 1..4 : 2 * (sent[i] - visible[i]) \in -SubPx .. SubPx
                 /\ ValidateBox(sent, a.width, a.height) = box
<1> DEFINE S == SubPx
           w == a.width
           h == a.height
           b1 == a.box[1]
           b2 == a.box[2]
           b3 == a.box[3]
           b4 == a.box[4]
           c1 == Max({0, Round(b1, S)})
           c2 == Max({0, Round(b2, S)})
           c3 == Min({w, Round(b3, S)})
           c4 == Min({h, Round(b4, S)})
           v1 == Max({0, b1})
           v2 == Max({0, b2})
           v3 == Min({w * S, b3})
           v4 == Min({h * S, b4})
           box == ValidateBox(a.box, a.width, a.height)
           small == b3 <= b1 \/ b4 <= b2 \/ c3 - c1 < MinSidePx \/ c4 - c2 < MinSidePx
<1>1. /\ w \in Nat /\ h \in Nat /\ b1 \in Int /\ b2 \in Int /\ b3 \in Int /\ b4 \in Int
      /\ S \in Nat \ {0} /\ MinSidePx \in Nat \ {0} /\ w * S \in Int /\ h * S \in Int
  BY DrawingsAssumption, SubPxAssumption, MinSidePxAssumption
<1>2. Stands(c1, v1) /\ Stands(c2, v2) /\ Stands(c3, v3) /\ Stands(c4, v4)
  BY <1>1, StandsRound, StandsAtLow, StandsAtHigh
<1>3. /\ v1 >= b1 /\ v2 >= b2 /\ v3 <= b3 /\ v4 <= b4
      /\ c1 >= 0 /\ c2 >= 0 /\ c3 <= w /\ c4 <= h
  <2>1. Round(b1, S) \in Int /\ Round(b2, S) \in Int /\ Round(b3, S) \in Int /\ Round(b4, S) \in Int
    BY <1>1, RoundNear
  <2> QED
    BY <1>1, <2>1, MaxOfTwo, MinOfTwo, SMTT(30)
<1>4. box = IF small THEN NoBox ELSE <<c1, c2, c3, c4>>
  BY DEF ValidateBox, Width, Height
<1>5. MinSidePx * S \in Nat /\ MinSidePx * S > 0
  BY <1>1, Multiple
<1>6. ASSUME small PROVE v3 - v1 < MinSidePx * S \/ v4 - v2 < MinSidePx * S
  <2> HIDE DEF c1, c2, c3, c4, v1, v2, v3, v4, b1, b2, b3, b4, S
  <2>1. v1 \in Int /\ v2 \in Int /\ v3 \in Int /\ v4 \in Int
    BY <1>2 DEF Stands
  <2>2. CASE b3 <= b1
    BY <1>1, <1>3, <1>5, <2>1, <2>2
  <2>3. CASE b4 <= b2
    BY <1>1, <1>3, <1>5, <2>1, <2>3
  <2>4. CASE c3 - c1 < MinSidePx
    BY <1>2, <2>4, SideSeen DEF S
  <2>5. CASE c4 - c2 < MinSidePx
    BY <1>2, <2>5, SideSeen DEF S
  <2> QED
    BY <1>6, <2>2, <2>3, <2>4, <2>5
<1>7. NoBox # <<c1, c2, c3, c4>>
  BY DEF NoBox
<1>8. CASE small
  <2>1. box = NoBox
    BY <1>4, <1>8, SMTT(30)
  <2> QED
    BY <1>6, <1>8, <2>1 DEF Width, Height
<1>9. CASE ~small
  <2> DEFINE sent == [i \in 1..4 |-> box[i] * S]
             visible == <<v1, v2, v3, v4>>
  <2>1. box = <<c1, c2, c3, c4>> /\ box # NoBox
    BY <1>4, <1>7, <1>9
  <2>2. c3 - c1 >= MinSidePx /\ c4 - c2 >= MinSidePx
    <3>1. c1 \in Int /\ c2 \in Int /\ c3 \in Int /\ c4 \in Int
      BY <1>2 DEF Stands
    <3> HIDE DEF c1, c2, c3, c4
    <3> QED
      BY <1>1, <1>9, <3>1
  <2>3. Width(box) >= MinSidePx /\ Height(box) >= MinSidePx
    BY <2>1, <2>2 DEF Width, Height
  <2>4. sent[1] = c1 * S /\ sent[2] = c2 * S /\ sent[3] = c3 * S /\ sent[4] = c4 * S
    BY <2>1
  <2>5. \A i \in 1..4 : 2 * (sent[i] - visible[i]) \in -S .. S
    <3> HIDE DEF sent, c1, c2, c3, c4, v1, v2, v3, v4
    <3>1. /\ 2 * (sent[1] - visible[1]) \in -S .. S /\ 2 * (sent[2] - visible[2]) \in -S .. S
          /\ 2 * (sent[3] - visible[3]) \in -S .. S /\ 2 * (sent[4] - visible[4]) \in -S .. S
      BY <1>2, <2>4 DEF Stands
    <3> QED
      BY <3>1
  <2>6. ValidateBox(sent, w, h) = box
    <3> HIDE DEF sent, c1, c2, c3, c4, box
    <3>1. c1 \in Int /\ c2 \in Int /\ c3 \in Int /\ c4 \in Int
      BY <1>2 DEF Stands
    <3>2. /\ Round(sent[1], SubPx) = c1 /\ Round(sent[2], SubPx) = c2
          /\ Round(sent[3], SubPx) = c3 /\ Round(sent[4], SubPx) = c4
      BY <1>1, <2>4, <3>1, RoundWhole
    <3>3. /\ Max({0, c1}) = c1 /\ Max({0, c2}) = c2
          /\ Min({w, c3}) = c3 /\ Min({h, c4}) = c4
      <4>1. \A c \in Nat : Max({0, c}) = c
        BY MaxOfTwo
      <4>2. \A n \in Nat : \A c \in Int : c <= n => Min({n, c}) = c
        BY MinOfTwo
      <4> QED
        BY <1>1, <1>3, <3>1, <4>1, <4>2
    <3>4. sent[3] > sent[1] /\ sent[4] > sent[2]
      <4>1. (c3 - c1) * S = c3 * S - c1 * S /\ (c4 - c2) * S = c4 * S - c2 * S
        BY <1>1, <3>1
      <4>2. (c3 - c1) * S >= S /\ (c4 - c2) * S >= S
        BY <1>1, <2>2, <3>1, Multiple
      <4> QED
        BY <1>1, <2>4, <3>1, <4>1, <4>2
    <3>5. ~(sent[3] <= sent[1]) /\ ~(sent[4] <= sent[2])
      <4>1. c1 * S \in Int /\ c2 * S \in Int /\ c3 * S \in Int /\ c4 * S \in Int
        BY <1>1, <3>1
      <4> QED
        BY <2>4, <3>4, <4>1
    <3>6. ~(c3 - c1 < MinSidePx) /\ ~(c4 - c2 < MinSidePx)
      BY <1>1, <2>2, <3>1
    <3>7. ValidateBox(sent, w, h) = <<c1, c2, c3, c4>>
      BY <3>2, <3>3, <3>5, <3>6 DEF ValidateBox, Width, Height
    <3> QED
      BY <2>1, <3>7
  <2> HIDE DEF v1, v2, v3, v4
  <2>7. visible = <<Max({0, a.box[1]}), Max({0, a.box[2]}),
                    Min({a.width * SubPx, a.box[3]}), Min({a.height * SubPx, a.box[4]})>>
    BY DEF v1, v2, v3, v4
  <2> HIDE DEF visible
  <2> QED
    BY <2>1, <2>3, <2>5, <2>6, <2>7
<1> QED
  BY <1>8, <1>9

\* A call of validate_box answers what it makes of one of the drawings.
Drawn == service = "validate_box" =>
  arg \in Drawings /\ answer = ValidateBox(arg.box, arg.width, arg.height)

\* A box is refused only if less than the smallest side of it is on the page; what is accepted
\* lies on the page, is large enough, within half a pixel of what was drawn there, and stays
\* the same when it is sent again (validate_box of panel_boxes.py), whatever the numbers.
THEOREM DrawnBoxesStay == Spec => []BoxesAsDrawn
<1>1. Init => Drawn
  BY DEF Init, Drawn
<1>2. Drawn /\ [Next]_vars => Drawn'
  <2> SUFFICES ASSUME Drawn, [Next]_vars PROVE Drawn'
    OBVIOUS
  <2>1. CASE DrawBox
    BY <2>1 DEF DrawBox, Call, Drawn
  <2>2. CASE ReadText \/ FindPanels \/ FindPageProducts \/ Group
    <3>1. service' # "validate_box"
      BY <2>2 DEF ReadText, FindPanels, FindPageProducts, Group, Call
    <3> QED
      BY <3>1 DEF Drawn
  <2>3. CASE UNCHANGED vars
    BY <2>3 DEF Drawn, vars
  <2> QED
    BY <2>1, <2>2, <2>3 DEF Next
<1>3. Drawn => BoxesAsDrawn
  BY DrawnBox DEF Drawn, BoxesAsDrawn
<1> QED
  BY <1>1, <1>2, <1>3, PTL DEF Spec

-----------------------------------------------------------------------------
(* Tiles.                                                                  *)

\* ceil() is the least multiple that is not below.
LEMMA CeilFact ==
  ASSUME NEW n \in Int, NEW d \in Nat \ {0}
  PROVE  Ceil(n, d) \in Int /\ Ceil(n, d) * d >= n /\ Ceil(n, d) * d < n + d
<1>1. PICK q \in Int : q = (-n) \div d /\ \E r \in 0..d-1 : -n = q * d + r
  <2>1. PICK m \in Int : m = -n
    OBVIOUS
  <2>2. m \div d \in Int /\ m % d \in 0..d-1 /\ m = (m \div d) * d + (m % d)
    BY DivMod
  <2> QED
    BY <2>1, <2>2
<1>2. (-q) * d = -(q * d) /\ q * d \in Int
  OBVIOUS
<1>3. Ceil(n, d) = -q
  BY <1>1 DEF Ceil
<1> QED
  BY <1>1, <1>2, <1>3

\* Evenly spread points, a whole step apart at least and `most` at most, stay so when rounded:
\* only points at halves could come closer or farther, and then the step is no whole number.
LEMMA SpreadPoints ==
  ASSUME NEW k \in Nat \ {0}, NEW all \in Nat, NEW most \in Nat \ {0}, NEW j \in Nat,
         k <= all, all <= k * most
  PROVE  /\ Round(j * all, k) < Round((j + 1) * all, k)
         /\ Round((j + 1) * all, k) - Round(j * all, k) <= most
<1>1. /\ j * all \in Int /\ (j + 1) * all \in Int /\ (j + 1) * all = j * all + all
      /\ k * most \in Int
  OBVIOUS
<1>2. PICK x \in Int : x = Round(j * all, k) /\ 2 * (x * k - j * all) \in -k .. k
  BY <1>1, RoundNear
<1>3. PICK y \in Int : y = Round((j + 1) * all, k) /\ 2 * (y * k - (j + 1) * all) \in -k .. k
  BY <1>1, RoundNear
<1>4. x * k \in Int /\ y * k \in Int /\ (y - x) * k = y * k - x * k
  OBVIOUS
<1>5. (y - x) * k >= all - k /\ (y - x) * k <= all + k
  BY <1>1, <1>2, <1>3, <1>4
<1>6. ASSUME NEW s \in Nat, all = k * s
      PROVE  y - x = s
  <2>1. j * all = (j * s) * k /\ (j + 1) * all = ((j + 1) * s) * k /\ j * s \in Int /\ (j + 1) * s \in Int
    BY <1>6
  <2>2. x = j * s /\ y = (j + 1) * s
    BY <1>2, <1>3, <2>1, RoundWhole
  <2>3. (j + 1) * s = j * s + s
    OBVIOUS
  <2> QED
    BY <2>1, <2>2, <2>3
<1>7. x < y
  <2>1. CASE all = k
    BY <1>6, <2>1
  <2>2. CASE all > k
    <3>1. (y - x) * k > 0 /\ y - x \in Int
      BY <1>4, <1>5, <2>2
    <3>2. \A z \in Int : z * k > 0 => z > 0
      OBVIOUS
    <3>3. y - x > 0
      BY <3>1, <3>2
    <3> QED
      BY <3>3
  <2> QED
    BY <2>1, <2>2
<1>8. y - x <= most
  <2>1. CASE all = k * most
    BY <1>6, <2>1
  <2>2. CASE all < k * most
    <3>1. (y - x - most - 1) * k = (y - x) * k - k * most - k /\ y - x - most - 1 \in Int
      OBVIOUS
    <3>2. (y - x - most - 1) * k < 0
      BY <1>1, <1>4, <1>5, <2>2, <3>1
    <3>3. \A z \in Int : z * k < 0 => z < 0
      OBVIOUS
    <3>4. y - x - most - 1 < 0
      BY <3>1, <3>2, <3>3
    <3> QED
      BY <3>4
  <2> QED
    BY <1>1, <2>1, <2>2
<1> QED
  BY <1>2, <1>3, <1>7, <1>8

\* The tiles of an axis reach from edge to edge, in order, and each overlaps the next by what
\* was asked at least (_axis of ocr.py: "each overlapping the next by at least overlap pixels,
\* the last one ending exactly at the page edge"), whatever the page's size and the settings.
THEOREM TilesReachFromEdgeToEdge ==
  ASSUME NEW length \in Nat \ {0}, NEW tile \in Nat, NEW overlap \in Nat, overlap < tile
  PROVE  TilesCover(length, tile, overlap)
<1> DEFINE slack == Max({tile, Min({(5 * tile) \div 4, ComfortPx})})
           axis == Axis(length, tile, overlap)
           all == length - tile
           step == tile - overlap
           count == Max({2, Ceil(length - overlap, tile - overlap)})
<1>1. slack \in Int /\ slack >= tile
  <2>1. (5 * tile) \div 4 \in Int /\ ComfortPx \in Int
    BY DivMod, ComfortPxAssumption
  <2>2. PICK low \in Int : low = Min({(5 * tile) \div 4, ComfortPx})
    BY <2>1, MinOfTwo
  <2>3. slack = IF tile >= low THEN tile ELSE low
    BY <2>2, MaxOfTwo
  <2> QED
    BY <2>2, <2>3
<1>2. CASE length <= slack
  <2>1. axis = [origins |-> <<0>>, size |-> length]
    BY <1>2 DEF Axis
  <2>2. axis.origins = <<0>> /\ axis.size = length /\ Len(axis.origins) = 1
    BY <2>1
  <2> HIDE DEF axis
  <2>3. /\ axis.origins[1] = 0 /\ axis.origins[1] + axis.size = length
        /\ 1 .. Len(axis.origins) - 1 = {}
    BY <2>2
  <2> QED
    BY <2>2, <2>3 DEF TilesCover, axis
<1>3. CASE length > slack
  <2>1. all \in Nat /\ all > 0 /\ step \in Nat /\ step > 0 /\ length - overlap = all + step
    BY <1>1, <1>3
  <2>2. PICK m \in Int : /\ m = Ceil(length - overlap, tile - overlap)
                         /\ m * step >= all + step /\ m * step < all + 2 * step
    <3>1. PICK n, d \in Int : n = length - overlap /\ d = step
      BY <2>1
    <3>2. n \in Int /\ d \in Nat \ {0} /\ n = all + d
      BY <2>1, <3>1
    <3>3. Ceil(n, d) \in Int /\ Ceil(n, d) * d >= n /\ Ceil(n, d) * d < n + d
      BY <3>2, CeilFact
    <3>4. n + d = all + 2 * d
      BY <2>1, <3>2
    <3> QED
      BY <3>1, <3>2, <3>3, <3>4
  <2>3. (m - 1) * step >= all /\ (m - 1) * step < all + step /\ (m - 2) * step < all
    <3>1. (m - 1) * step = m * step - step /\ (m - 2) * step = m * step - 2 * step /\ m * step \in Int
      BY <2>1
    <3> QED
      BY <2>1, <2>2, <3>1
  <2>4. m >= 2
    <3>1. \A z \in Int : z * step > 0 => z > 0
      BY <2>1
    <3>2. (m - 1) * step > 0 /\ m - 1 \in Int
      BY <2>1, <2>3
    <3>3. m - 1 > 0
      BY <3>1, <3>2
    <3> QED
      BY <3>3
  <2>5. count = m
    BY <2>2, <2>4, MaxOfTwo
  <2>6. m - 1 <= all
    <3>1. \A z \in Nat : z * step >= z
      BY <2>1
    <3>2. (m - 2) * step >= m - 2
      BY <2>4, <3>1
    <3> QED
      BY <2>1, <2>3, <2>4, <3>2
  <2>7. axis = [origins |-> [i \in 1..m |-> Round((i - 1) * all, m - 1)], size |-> tile]
    <3>1. axis = IF length <= slack THEN [origins |-> <<0>>, size |-> length]
                 ELSE [origins |-> [i \in 1..count |-> Round((i - 1) * all, count - 1)],
                       size |-> tile]
      BY DEF Axis
    <3> HIDE DEF axis, count, slack
    <3>2. ~(length <= slack)
      BY <1>1, <1>3
    <3> QED
      BY <2>5, <3>1, <3>2
  <2> HIDE DEF axis
  <2>8. PICK s : s = axis.origins
    OBVIOUS
  <2>9. /\ axis.size = tile /\ Len(s) = m
        /\ \A i \in 1..m : s[i] = Round((i - 1) * all, m - 1) /\ s[i] \in Int
    <3>1. s = [i \in 1..m |-> Round((i - 1) * all, m - 1)] /\ axis.size = tile
      BY <2>7, <2>8
    <3>2. \A i \in 1..m : Round((i - 1) * all, m - 1) \in Int
      <4> TAKE i \in 1..m
      <4>1. (i - 1) * all \in Int /\ m - 1 \in Nat \ {0}
        BY <2>1, <2>4
      <4> QED
        BY <4>1, RoundNear
    <3>3. Len(s) = m
      BY <3>1, <2>4
    <3> QED
      BY <3>1, <3>2, <3>3
  <2>10. s[1] = 0
    <3>1. Round(0 * (m - 1), m - 1) = 0
      BY <2>4, RoundWhole
    <3>2. (1 - 1) * all = 0 * (m - 1)
      BY <2>1, <2>4
    <3> QED
      BY <2>4, <2>9, <3>1, <3>2
  <2>11. s[m] + axis.size = length
    <3>1. Round(all * (m - 1), m - 1) = all
      BY <2>1, <2>4, RoundWhole
    <3>2. (m - 1) * all = all * (m - 1)
      BY <2>1, <2>4
    <3>3. s[m] = Round((m - 1) * all, m - 1)
      BY <2>4, <2>9
    <3>4. s[m] = all
      BY <3>1, <3>2, <3>3
    <3> QED
      BY <2>1, <2>9, <3>4
  <2>12. ASSUME NEW i \in 1 .. m - 1
         PROVE  s[i] < s[i + 1] /\ s[i + 1] + overlap <= s[i] + axis.size
    <3>1. i - 1 \in Nat /\ m - 1 \in Nat \ {0} /\ step \in Nat \ {0} /\ i \in 1..m /\ i + 1 \in 1..m
          /\ (i - 1) + 1 = (i + 1) - 1
      BY <2>1, <2>4
    <3>2. /\ Round((i - 1) * all, m - 1) < Round(((i - 1) + 1) * all, m - 1)
          /\ Round(((i - 1) + 1) * all, m - 1) - Round((i - 1) * all, m - 1) <= step
      BY <2>1, <2>3, <2>6, <3>1, SpreadPoints
    <3>3. s[i] < s[i + 1] /\ s[i + 1] - s[i] <= step
      BY <2>9, <3>1, <3>2
    <3>4. s[i] \in Int /\ s[i + 1] \in Int
      BY <2>9, <3>1
    <3> QED
      BY <2>9, <3>3, <3>4
  <2> QED
    BY <2>8, <2>9, <2>10, <2>11, <2>12 DEF TilesCover, axis
<1> QED
  BY <1>1, <1>2, <1>3

-----------------------------------------------------------------------------
(* Pictures of a find.                                                     *)

\* A find's crop has every pixel of the picture that its box touches.
LEMMA CropHasTouched ==
  ASSUME NEW x0 \in Int, NEW x1 \in Int, NEW size \in Nat \ {0}, NEW x \in Int,
         x \in Clip(x0 \div SubPx, 0, size) .. Clip(Ceil(x1, SubPx), 0, size) - 1
  PROVE  LET left == Min({Max({0, x0 \div SubPx}), size - 1})
         IN x \in left .. Min({size, Max({left + 1, Ceil(x1, SubPx)})}) - 1
<1>1. PICK a, b \in Int : a = x0 \div SubPx /\ b = Ceil(x1, SubPx)
  BY DivMod, CeilFact, SubPxAssumption
<1>2. \A v \in Int : Clip(v, 0, size) = IF v <= 0 THEN 0 ELSE IF v <= size THEN v ELSE size
  <2> TAKE v \in Int
  <2>1. Min({v, size}) = IF v <= size THEN v ELSE size
    BY MinOfTwo
  <2>2. \A u \in Int : Max({0, u}) = IF 0 >= u THEN 0 ELSE u
    BY MaxOfTwo
  <2>3. PICK m \in Int : m = Min({v, size}) /\ m = IF v <= size THEN v ELSE size
    BY <2>1
  <2>4. Clip(v, 0, size) = IF 0 >= m THEN 0 ELSE m
    BY <2>2, <2>3 DEF Clip
  <2> QED
    BY <2>3, <2>4
<1>3. x >= 0 /\ x >= a /\ x < size /\ x < b
  BY <1>1, <1>2
<1>4. PICK low \in Int : low = Max({0, a}) /\ low <= x
  BY <1>1, <1>3, MaxOfTwo
<1>5. PICK left \in Int : left = Min({low, size - 1}) /\ left <= x
  BY <1>3, <1>4, MinOfTwo
<1>6. PICK high \in Int : high = Max({left + 1, b}) /\ x < high
  BY <1>1, <1>3, <1>5, MaxOfTwo
<1>7. PICK right \in Int : right = Min({size, high}) /\ x < right
  BY <1>3, <1>6, MinOfTwo
<1> QED
  BY <1>1, <1>4, <1>5, <1>6, <1>7

\* Every find has its crop, and with an outline the other four pictures, whose every pixel
\* the cut-out shows: render_find's guard against an empty one "cannot happen for a judged
\* find" (product_finding.py), whatever the outliner answers and wherever the box lies.
THEOREM CutoutsShowTheOutline ==
  ASSUME NEW d, d.box \in Int \X Int \X Int \X Int,
         NEW picture, picture.width \in Nat \ {0}, picture.height \in Nat \ {0}, NEW outline
  PROVE  LET f == RenderFind(Judge(d, outline, picture), picture)
         IN IF f.found.status = "FAILED" THEN f.pictures = {"crop"}
            ELSE /\ f.pictures = {"crop", "mask", "cutout", "white", "thumbnail"}
                 /\ f.cutout = f.found.mask
<1> DEFINE box == d.box
           inside == ClipToBox(outline.mask, box, picture)
           found == Judge(d, outline, picture)
           f == RenderFind(found, picture)
           crop == PixelBox(box, picture)
           area == (crop[1] .. crop[3] - 1) \X (crop[2] .. crop[4] - 1)
<1>1. /\ box[1] \in Int /\ box[2] \in Int /\ box[3] \in Int /\ box[4] \in Int
      /\ box[1] \div SubPx \in Int /\ box[2] \div SubPx \in Int
      /\ Ceil(box[3], SubPx) \in Int /\ Ceil(box[4], SubPx) \in Int
  BY DivMod, CeilFact, SubPxAssumption
<1>2. Touched(box, picture) \subseteq area
  <2> SUFFICES ASSUME NEW p \in Touched(box, picture) PROVE p \in area
    OBVIOUS
  <2>1. PICK x, y \in Int :
          /\ p = <<x, y>>
          /\ x \in Clip(box[1] \div SubPx, 0, picture.width)
                     .. Clip(Ceil(box[3], SubPx), 0, picture.width) - 1
          /\ y \in Clip(box[2] \div SubPx, 0, picture.height)
                     .. Clip(Ceil(box[4], SubPx), 0, picture.height) - 1
    BY DEF Touched
  <2>2. x \in crop[1] .. crop[3] - 1
    BY <1>1, <2>1, CropHasTouched DEF PixelBox
  <2>3. y \in crop[2] .. crop[4] - 1
    BY <1>1, <2>1, CropHasTouched DEF PixelBox
  <2> QED
    BY <2>1, <2>2, <2>3
<1>3. inside \subseteq area
  BY <1>2 DEF ClipToBox
<1>4. /\ found.detection = d
      /\ \/ found.status = "FAILED" /\ found.mask = {}
         \/ found.status # "FAILED" /\ found.mask = inside /\ inside # {}
  BY DEF Judge, NoMask
<1> HIDE DEF found, inside
<1>5. /\ f.found = found /\ f.cutout = found.mask \cap area
      /\ f.pictures = {"crop"} \cup (IF found.mask = {} THEN {} ELSE {"mask"})
                        \cup (IF found.mask \cap area = {} THEN {}
                              ELSE {"cutout", "white", "thumbnail"})
  BY <1>4 DEF RenderFind, NoMask
<1> HIDE DEF f, area
<1>6. CASE found.status = "FAILED"
  BY <1>4, <1>5, <1>6 DEF f, found
<1>7. CASE found.status # "FAILED"
  <2>1. found.mask \cap area = found.mask /\ found.mask # {}
    BY <1>3, <1>4, <1>7
  <2>2. f.cutout = found.mask /\ f.pictures = {"crop", "mask", "cutout", "white", "thumbnail"}
    BY <1>5, <2>1
  <2> QED
    BY <1>5, <1>7, <2>2 DEF f, found
<1> QED
  BY <1>6, <1>7

-----------------------------------------------------------------------------
(* Finds.                                                                  *)

\* The boxes on a picture, and the finds that are labelled from L.
BoxesOn(p) ==
  (0 .. p.width * SubPx) \X (0 .. p.height * SubPx) \X (0 .. p.width * SubPx)
    \X (0 .. p.height * SubPx)
FindsOn(L, p) == [label : L, confidence : Int, box : BoxesOn(p)]
IsPicture(p) == p.width \in Nat \ {0} /\ p.height \in Nat \ {0}

Specks(D, p) == {d \in D : ~LargeEnough(d, p)}
Twins(D) == {q \in D \X D : SameObject(q[1], q[2])}

LEMMA ClipBounds ==
  ASSUME NEW v \in Int, NEW size \in Nat
  PROVE  Clip(v, 0, size) \in 0..size /\ (v \in 0..size => Clip(v, 0, size) = v)
<1>1. PICK m \in Int : m = Min({v, size}) /\ m = IF v <= size THEN v ELSE size
  BY MinOfTwo
<1>2. Max({0, m}) = IF 0 >= m THEN 0 ELSE m
  BY <1>1, MaxOfTwo
<1> QED
  BY <1>1, <1>2 DEF Clip

LEMMA Clamped ==
  ASSUME NEW p, IsPicture(p), NEW b
  PROVE  /\ b[1] \in Int /\ b[2] \in Int /\ b[3] \in Int /\ b[4] \in Int => ClampBox(b, p) \in BoxesOn(p)
         /\ b \in BoxesOn(p) => ClampBox(b, p) = b
<1>1. PICK w, h \in Nat : w = p.width * SubPx /\ h = p.height * SubPx
  BY SubPxAssumption DEF IsPicture
<1>2. /\ \A v \in Int : Clip(v, 0, w) \in 0..w /\ (v \in 0..w => Clip(v, 0, w) = v)
      /\ \A v \in Int : Clip(v, 0, h) \in 0..h /\ (v \in 0..h => Clip(v, 0, h) = v)
  BY ClipBounds
<1>3. ClampBox(b, p) = <<Clip(b[1], 0, w), Clip(b[2], 0, h), Clip(b[3], 0, w), Clip(b[4], 0, h)>>
  BY <1>1 DEF ClampBox
<1>4. BoxesOn(p) = (0..w) \X (0..h) \X (0..w) \X (0..h)
  BY <1>1 DEF BoxesOn
<1>5. ASSUME b \in BoxesOn(p) PROVE ClampBox(b, p) = b
  <2>1. b = <<b[1], b[2], b[3], b[4]>> /\ b[1] \in 0..w /\ b[2] \in 0..h /\ b[3] \in 0..w /\ b[4] \in 0..h
    BY <1>4, <1>5
  <2>2. Clip(b[1], 0, w) = b[1] /\ Clip(b[2], 0, h) = b[2] /\ Clip(b[3], 0, w) = b[3] /\ Clip(b[4], 0, h) = b[4]
    BY <1>2, <2>1
  <2> QED
    BY <1>3, <2>1, <2>2
<1> QED
  BY <1>2, <1>3, <1>4, <1>5

\* Two finds are the same thing whichever is looked at first.
LEMMA SameObjectSymmetric ==
  ASSUME NEW L, NEW p, IsPicture(p), NEW c \in FindsOn(L, p), NEW d \in FindsOn(L, p)
  PROVE  SameObject(c, d) <=> SameObject(d, c)
<1> DEFINE a == c.box
           b == d.box
<1>1. /\ a[1] \in Int /\ a[2] \in Int /\ a[3] \in Int /\ a[4] \in Int
      /\ b[1] \in Int /\ b[2] \in Int /\ b[3] \in Int /\ b[4] \in Int
  BY SubPxAssumption DEF FindsOn, BoxesOn, IsPicture
<1> HIDE DEF a, b
<1>2. \A x, y \in Int : {x, y} = {y, x}
  OBVIOUS
<1>3. OverlapW(a, b) = OverlapW(b, a) /\ OverlapH(a, b) = OverlapH(b, a)
  BY <1>1, <1>2 DEF OverlapW, OverlapH
<1>4. SharedArea(a, b) = SharedArea(b, a)
  BY <1>3 DEF SharedArea
<1>5. BoxArea(a) \in Int /\ BoxArea(b) \in Int
  <2>1. \A x, y, z, w \in Int : Max({0, y - x}) * Max({0, w - z}) \in Int
    <3>1. \A x \in Int : Max({0, x}) \in Int
      BY MaxOfTwo
    <3> QED
      BY <3>1
  <2> QED
    BY <1>1, <2>1 DEF BoxArea, Width, Height
<1>6. ASSUME NEW percent \in Int
      PROVE  IoUReaches(a, b, percent) <=> IoUReaches(b, a, percent)
  <2>1. PICK m, n \in Int : m = BoxArea(a) /\ n = BoxArea(b)
    BY <1>5
  <2>2. PICK shared \in Int : shared = SharedArea(a, b) /\ shared = SharedArea(b, a)
    <3>1. OverlapW(a, b) \in Int /\ OverlapH(a, b) \in Int
      BY <1>1, MaxOfTwo, MinOfTwo DEF OverlapW, OverlapH
    <3>2. SharedArea(a, b) \in Int
      BY <3>1 DEF SharedArea
    <3> QED
      BY <1>4, <3>2
  <2>3. m + n - shared = n + m - shared
    OBVIOUS
  <2>4. /\ IoUReaches(a, b, percent) <=> shared > 0 /\ 100 * shared >= percent * (m + n - shared)
        /\ IoUReaches(b, a, percent) <=> shared > 0 /\ 100 * shared >= percent * (n + m - shared)
    BY <2>1, <2>2 DEF IoUReaches
  <2> QED
    BY <2>3, <2>4
<1> QED
  BY <1>6 DEF SameObject, a, b

-----------------------------------------------------------------------------
\* drop_tiny drops the specks and nothing else.
LEMMA SpecksDropped ==
  ASSUME NEW D, NEW p, NEW s \in Seq(D)
  PROVE  /\ DropTiny(s, p) \in Seq(D)
         /\ \E e : Sieved(e, DropTiny(s, p), Len(s), s, Specks(D, p), {})
<1> DEFINE S == 1 .. Len(s)
           Step(kept, d) == IF LargeEnough(d, p) THEN Append(kept, d) ELSE kept
           iter == CHOOSE F : F = [T \in SUBSET S |->
                     IF T = {} THEN <<>> ELSE Step(F[T \ {Max(T)}], s[Max(T)])]
<1>1. DOMAIN s = S /\ \A i \in S : s[i] \in D
  BY LenProperties
<1>2. \A d \in D : \A kept : Step(kept, d) = SieveStep(kept, d, Specks(D, p), {})
  BY DEF SieveStep, Specks
<1>3. DropTiny(s, p) = iter[S]
  BY <1>1 DEF DropTiny, FoldLeft, MapThenFoldSet
<1>4. \E F : F = [T \in SUBSET S |-> IF T = {} THEN <<>> ELSE Step(F[T \ {Max(T)}], s[Max(T)])]
  <2> HIDE DEF Step
  <2>1. PICK F \in [SUBSET S -> Seq(D)] : SieveOf(F, s, Specks(D, p), {})
    BY SieveIterates
  <2>2. F = [T \in SUBSET S |-> IF T = {} THEN <<>> ELSE Step(F[T \ {Max(T)}], s[Max(T)])]
    <3> DEFINE G == [T \in SUBSET S |-> IF T = {} THEN <<>> ELSE Step(F[T \ {Max(T)}], s[Max(T)])]
    <3>1. ASSUME NEW T \in SUBSET S
          PROVE  F[T] = IF T = {} THEN <<>> ELSE Step(F[T \ {Max(T)}], s[Max(T)])
      <4>1. CASE T = {}
        BY <2>1, <4>1 DEF SieveOf
      <4>2. CASE T # {}
        <5>1. s[Max(T)] \in D
          BY <1>1, <2>1, <4>2 DEF SieveOf
        <5> QED
          BY <1>2, <2>1, <4>2, <5>1 DEF SieveOf
      <4> QED
        BY <4>1, <4>2
    <3> QED
      BY <3>1
  <2> QED
    BY <2>2
<1>5. iter = [T \in SUBSET S |-> IF T = {} THEN <<>> ELSE Step(iter[T \ {Max(T)}], s[Max(T)])]
  <2> HIDE DEF Step
  <2> QED
    BY <1>4
<1> HIDE DEF iter, Step
<1>6. GoesThrough(iter, D, s, Specks(D, p), {})
  <2>1. Len(s) \in Nat /\ \A T \in SUBSET S : T # {} => Max(T) \in S
    BY LenProperties, MaxOfSome
  <2> QED
    BY <1>1, <1>2, <1>5, <2>1 DEF GoesThrough
<1> QED
  BY <1>3, <1>6, SieveFold

-----------------------------------------------------------------------------
\* The keys by which finds are sorted.
Doubt(s) == [i \in 1 .. Len(s) |-> -s[i].confidence]
Zeros(s) == [i \in 1 .. Len(s) |-> 0]
Rows(s, p) == [i \in 1 .. Len(s) |-> Round(12 * s[i].box[2], p.height * SubPx)]
Lefts(s) == [i \in 1 .. Len(s) |-> s[i].box[1]]

LEMMA FindKeys ==
  ASSUME NEW L, NEW p, IsPicture(p), NEW s \in Seq(FindsOn(L, p))
  PROVE  /\ Len(s) \in Nat /\ s \in [1 .. Len(s) -> FindsOn(L, p)]
         /\ Doubt(s) \in [1 .. Len(s) -> Int]
         /\ Zeros(s) \in [1 .. Len(s) -> {0}] /\ Zeros(s) \in [1 .. Len(s) -> Int]
         /\ Rows(s, p) \in [1 .. Len(s) -> Int]
         /\ Lefts(s) \in [1 .. Len(s) -> Int]
<1>1. Len(s) \in Nat /\ s \in [1 .. Len(s) -> FindsOn(L, p)]
  BY LenProperties
<1>2. \A i \in 1 .. Len(s) : s[i] \in FindsOn(L, p)
  BY <1>1
<1>3. \A d \in FindsOn(L, p) : d.confidence \in Int /\ d.box[1] \in Int /\ d.box[2] \in Int
  BY SubPxAssumption DEF FindsOn, BoxesOn, IsPicture
<1>4. p.height * SubPx \in Nat \ {0}
  <2>1. \A x, y \in Nat \ {0} : x * y \in Nat \ {0}
    OBVIOUS
  <2> QED
    BY <2>1, SubPxAssumption DEF IsPicture
<1>5. \A i \in 1 .. Len(s) : Round(12 * s[i].box[2], p.height * SubPx) \in Int
  <2> SUFFICES ASSUME NEW i \in 1 .. Len(s)
               PROVE  Round(12 * s[i].box[2], p.height * SubPx) \in Int
    OBVIOUS
  <2>1. PICK y \in Int : y = s[i].box[2] /\ 12 * y \in Int
    BY <1>2, <1>3
  <2> QED
    BY <1>4, <2>1, RoundNear
<1>6. \A i \in 1 .. Len(s) : -s[i].confidence \in Int /\ s[i].box[1] \in Int
  BY <1>2, <1>3
<1> QED
  BY <1>1, <1>5, <1>6 DEF Doubt, Zeros, Rows, Lefts

\* The orders that suppress_overlaps and tidy put finds in.
SurestInOrder(s) ==
  LET surer(c, d) == c.confidence > d.confidence
  IN InOrder(s, surer)
RowsInOrder(s, p) ==
  LET row(d) == Round(12 * d.box[2], p.height * SubPx)
      before(c, d) == row(c) < row(d) \/ (row(c) = row(d) /\ c.box[1] < d.box[1])
  IN InOrder(s, before)

\* The order by sureness.
LEMMA SurestFirst ==
  ASSUME NEW L, NEW p, IsPicture(p), NEW s \in Seq(FindsOn(L, p))
  PROVE  \E O : /\ Sorts(O, Len(s), Doubt(s), Zeros(s))
                /\ SurestInOrder(s) = [m \in 1 .. Len(s) |-> s[O[m]]]
<1> DEFINE surer(c, d) == c.confidence > d.confidence
           n == Len(s)
           first(i, j) == \/ surer(s[i], s[j])
                          \/ ~surer(s[j], s[i]) /\ i < j
           P == [i \in 1..n |-> Cardinality({j \in 1..n : first(j, i)}) + 1]
           O == [m \in 1..n |-> CHOOSE i \in 1..n : P[i] = m]
<1>1. /\ n \in Nat /\ DOMAIN s = 1..n
      /\ Doubt(s) \in [1..n -> Int] /\ Zeros(s) \in [1..n -> Int]
      /\ \A i \in 1..n : s[i].confidence \in Int
  <2>1. \A i \in 1 .. Len(s) : s[i] \in FindsOn(L, p)
    BY FindKeys
  <2>2. \A i \in 1 .. Len(s) : s[i].confidence \in Int
    BY <2>1 DEF FindsOn
  <2> QED
    BY <2>2, FindKeys
<1>2. \A i, j \in 1..n : first(i, j) <=> Before(Doubt(s), Zeros(s), i, j)
  <2> SUFFICES ASSUME NEW i \in 1..n, NEW j \in 1..n
               PROVE  first(i, j) <=> Before(Doubt(s), Zeros(s), i, j)
    OBVIOUS
  <2>1. PICK x, y \in Int : x = s[i].confidence /\ y = s[j].confidence
    BY <1>1
  <2>2. Doubt(s)[i] = -x /\ Doubt(s)[j] = -y /\ Zeros(s)[i] = 0 /\ Zeros(s)[j] = 0
    BY <2>1 DEF Doubt, Zeros
  <2> QED
    BY <2>1, <2>2 DEF Before
<1>3. \A i \in 1..n : {j \in 1..n : first(j, i)} = {j \in 1..n : Before(Doubt(s), Zeros(s), j, i)}
  BY <1>2
<1>4. \A i \in 1..n : P[i] = Cardinality({j \in 1..n : Before(Doubt(s), Zeros(s), j, i)}) + 1
  BY <1>3
<1>5. SurestInOrder(s) = [m \in 1..n |-> s[O[m]]]
  <2> DEFINE place(i) == Cardinality({j \in DOMAIN s : first(j, i)}) + 1
  <2>1. SurestInOrder(s) = [m \in DOMAIN s |-> s[CHOOSE i \in DOMAIN s : place(i) = m]]
    BY DEF InOrder, SurestInOrder
  <2>2. \A i \in DOMAIN s : place(i) = P[i]
    BY <1>1
  <2>3. ASSUME NEW m \in DOMAIN s
        PROVE  (CHOOSE i \in DOMAIN s : place(i) = m) = (CHOOSE i \in DOMAIN s : P[i] = m)
    <3> HIDE DEF place, P
    <3> QED
      BY <2>2
  <2> HIDE DEF place, P
  <2>4. \A m \in DOMAIN s : O[m] = CHOOSE i \in DOMAIN s : P[i] = m
    BY <1>1
  <2> HIDE DEF O
  <2>5. ASSUME NEW m \in DOMAIN s
        PROVE  s[CHOOSE i \in DOMAIN s : place(i) = m] = s[O[m]]
    BY <2>3, <2>4
  <2>6. SurestInOrder(s) = [m \in DOMAIN s |-> s[O[m]]]
    BY <2>1, <2>5
  <2> QED
    BY <1>1, <2>6
<1>6. P \in [1..n -> Int]
  <2>1. \A i \in 1..n : Cardinality({j \in 1..n : first(j, i)}) \in Nat
    <3> HIDE DEF first
    <3>1. IsFiniteSet(1..n) /\ \A i \in 1..n : {j \in 1..n : first(j, i)} \in SUBSET (1..n)
      BY <1>1, FS_Interval
    <3> QED
      BY <3>1, FS_Subset, FS_CardinalityType
  <2> QED
    BY <2>1
<1>7. O = [m \in 1..n |-> CHOOSE i \in 1..n : P[i] = m]
  OBVIOUS
<1> HIDE DEF P, O, n
<1>8. Sorts(O, n, Doubt(s), Zeros(s))
  BY <1>1, <1>4, <1>6, <1>7, PlacesSort
<1> QED
  BY <1>5, <1>8 DEF n
\* The order of twelve rows of the picture, from left to right.
LEMMA RowsFirst ==
  ASSUME NEW L, NEW p, IsPicture(p), NEW s \in Seq(FindsOn(L, p))
  PROVE  \E O : /\ Sorts(O, Len(s), Rows(s, p), Lefts(s))
                /\ RowsInOrder(s, p) = [m \in 1 .. Len(s) |-> s[O[m]]]
<1> DEFINE row(d) == Round(12 * d.box[2], p.height * SubPx)
           before(c, d) == row(c) < row(d) \/ (row(c) = row(d) /\ c.box[1] < d.box[1])
           n == Len(s)
           first(i, j) == \/ before(s[i], s[j])
                          \/ ~before(s[j], s[i]) /\ i < j
           P == [i \in 1..n |-> Cardinality({j \in 1..n : first(j, i)}) + 1]
           O == [m \in 1..n |-> CHOOSE i \in 1..n : P[i] = m]
<1>1. /\ n \in Nat /\ DOMAIN s = 1..n
      /\ Rows(s, p) \in [1..n -> Int] /\ Lefts(s) \in [1..n -> Int]
  BY FindKeys
<1>2. \A i, j \in 1..n : first(i, j) <=> Before(Rows(s, p), Lefts(s), i, j)
  <2> SUFFICES ASSUME NEW i \in 1..n, NEW j \in 1..n
               PROVE  first(i, j) <=> Before(Rows(s, p), Lefts(s), i, j)
    OBVIOUS
  <2>1. /\ Rows(s, p)[i] = row(s[i]) /\ Rows(s, p)[j] = row(s[j])
        /\ Lefts(s)[i] = s[i].box[1] /\ Lefts(s)[j] = s[j].box[1]
    BY DEF Rows, Lefts
  <2>2. PICK x, y, u, v \in Int : /\ x = Rows(s, p)[i] /\ y = Rows(s, p)[j]
                                 /\ u = Lefts(s)[i] /\ v = Lefts(s)[j]
    BY <1>1
  <2>3. first(i, j) <=> \/ x < y \/ (x = y /\ u < v)
                        \/ ~(y < x \/ (y = x /\ v < u)) /\ i < j
    <3> HIDE DEF row
    <3> QED
      BY <2>1, <2>2
  <2> HIDE DEF first
  <2> QED
    BY <2>2, <2>3 DEF Before
<1>3. \A i \in 1..n : {j \in 1..n : first(j, i)} = {j \in 1..n : Before(Rows(s, p), Lefts(s), j, i)}
  BY <1>2
<1>4. \A i \in 1..n : P[i] = Cardinality({j \in 1..n : Before(Rows(s, p), Lefts(s), j, i)}) + 1
  BY <1>3
<1>5. RowsInOrder(s, p) = [m \in 1..n |-> s[O[m]]]
  <2> DEFINE place(i) == Cardinality({j \in DOMAIN s : first(j, i)}) + 1
  <2>1. RowsInOrder(s, p) = [m \in DOMAIN s |-> s[CHOOSE i \in DOMAIN s : place(i) = m]]
    BY DEF InOrder, RowsInOrder
  <2>2. \A i \in DOMAIN s : place(i) = P[i]
    BY <1>1
  <2>3. ASSUME NEW m \in DOMAIN s
        PROVE  (CHOOSE i \in DOMAIN s : place(i) = m) = (CHOOSE i \in DOMAIN s : P[i] = m)
    <3> HIDE DEF place, P
    <3> QED
      BY <2>2
  <2> HIDE DEF place, P
  <2>4. \A m \in DOMAIN s : O[m] = CHOOSE i \in DOMAIN s : P[i] = m
    BY <1>1
  <2> HIDE DEF O
  <2>5. ASSUME NEW m \in DOMAIN s
        PROVE  s[CHOOSE i \in DOMAIN s : place(i) = m] = s[O[m]]
    BY <2>3, <2>4
  <2>6. RowsInOrder(s, p) = [m \in DOMAIN s |-> s[O[m]]]
    BY <2>1, <2>5
  <2> QED
    BY <1>1, <2>6
<1>6. P \in [1..n -> Int]
  <2>1. \A i \in 1..n : Cardinality({j \in 1..n : first(j, i)}) \in Nat
    <3> HIDE DEF first
    <3>1. IsFiniteSet(1..n) /\ \A i \in 1..n : {j \in 1..n : first(j, i)} \in SUBSET (1..n)
      BY <1>1, FS_Interval
    <3> QED
      BY <3>1, FS_Subset, FS_CardinalityType
  <2> QED
    BY <2>1
<1>7. O = [m \in 1..n |-> CHOOSE i \in 1..n : P[i] = m]
  OBVIOUS
<1> HIDE DEF P, O, n
<1>8. Sorts(O, n, Rows(s, p), Lefts(s))
  BY <1>1, <1>4, <1>6, <1>7, PlacesSort
<1> QED
  BY <1>5, <1>8 DEF n

\* The most confident find of each object: suppress_overlaps goes through the finds from the
\* surest and keeps those that are not the same as one it has kept.
LEMMA OverlapsSuppressed ==
  ASSUME NEW L, NEW p, IsPicture(p), NEW s \in Seq(FindsOn(L, p))
  PROVE  \E O : /\ Sorts(O, Len(s), Doubt(s), Zeros(s))
                /\ SuppressOverlaps(s) \in Seq(FindsOn(L, p))
                /\ [m \in 1 .. Len(s) |-> s[O[m]]] \in Seq(FindsOn(L, p))
                /\ Len([m \in 1 .. Len(s) |-> s[O[m]]]) = Len(s)
                /\ \E e : Sieved(e, SuppressOverlaps(s), Len(s), [m \in 1 .. Len(s) |-> s[O[m]]],
                                 {}, Twins(FindsOn(L, p)))
<1> DEFINE D == FindsOn(L, p)
           r == SurestInOrder(s)
           S == 1 .. Len(r)
           Step(kept, c) == IF \E k \in DOMAIN kept : SameObject(c, kept[k]) THEN kept
                            ELSE Append(kept, c)
           iter == CHOOSE F : F = [T \in SUBSET S |->
                     IF T = {} THEN <<>> ELSE Step(F[T \ {Max(T)}], r[Max(T)])]
<1>1. PICK O : Sorts(O, Len(s), Doubt(s), Zeros(s)) /\ r = [m \in 1 .. Len(s) |-> s[O[m]]]
  BY SurestFirst
<1>2. r \in Seq(D) /\ Len(r) = Len(s) /\ DOMAIN r = S /\ Len(r) \in Nat /\ \A i \in S : r[i] \in D
  <2>1. Len(s) \in Nat /\ \A i \in 1 .. Len(s) : s[i] \in D
    BY FindKeys
  <2>2. \A m \in 1 .. Len(s) : O[m] \in 1 .. Len(s)
    BY <1>1 DEF Sorts
  <2>3. r \in [1 .. Len(s) -> D]
    <3> HIDE DEF r, D
    <3> QED
      BY <1>1, <2>1, <2>2
  <2> HIDE DEF r, D
  <2> QED
    BY <2>1, <2>3
<1>3. ASSUME NEW c \in D, NEW kept \in Seq(D)
      PROVE  Step(kept, c) = SieveStep(kept, c, {}, Twins(D))
  <2>1. \A k \in DOMAIN kept : kept[k] \in D
    <3> HIDE DEF D
    <3> QED
      OBVIOUS
  <2> HIDE DEF D
  <2>2. \A k \in DOMAIN kept : SameObject(c, kept[k]) <=> <<c, kept[k]>> \in Twins(D)
    BY <2>1 DEF Twins
  <2> QED
    BY <2>2 DEF SieveStep
<1>4. SuppressOverlaps(s) = iter[S]
  <2>1. SuppressOverlaps(s) = FoldLeft(Step, <<>>, r)
    BY DEF SuppressOverlaps, SurestInOrder
  <2> HIDE DEF r
  <2>2. FoldLeft(Step, <<>>, r) = iter[S]
    BY <1>2 DEF FoldLeft, MapThenFoldSet
  <2> QED
    BY <2>1, <2>2
<1> HIDE DEF r, D
<1>5. \E F : F = [T \in SUBSET S |-> IF T = {} THEN <<>> ELSE Step(F[T \ {Max(T)}], r[Max(T)])]
  <2> HIDE DEF Step
  <2>1. PICK F \in [SUBSET S -> Seq(D)] : SieveOf(F, r, {}, Twins(D))
    BY <1>2, SieveIterates
  <2>2. ASSUME NEW T \in SUBSET S
        PROVE  F[T] = IF T = {} THEN <<>> ELSE Step(F[T \ {Max(T)}], r[Max(T)])
    <3>1. CASE T = {}
      BY <2>1, <3>1 DEF SieveOf
    <3>2. CASE T # {}
      <4>1. r[Max(T)] \in D /\ F[T \ {Max(T)}] \in Seq(D)
        BY <1>2, <2>1, <3>2 DEF SieveOf
      <4> QED
        BY <1>3, <2>1, <3>2, <4>1 DEF SieveOf
    <3> QED
      BY <3>1, <3>2
  <2>3. F = [T \in SUBSET S |-> IF T = {} THEN <<>> ELSE Step(F[T \ {Max(T)}], r[Max(T)])]
    BY <2>2
  <2> QED
    BY <2>3
<1>6. iter = [T \in SUBSET S |-> IF T = {} THEN <<>> ELSE Step(iter[T \ {Max(T)}], r[Max(T)])]
  <2> HIDE DEF Step
  <2> QED
    BY <1>5
<1> HIDE DEF iter, Step
<1>7. GoesThrough(iter, D, r, {}, Twins(D))
  <2>1. \A T \in SUBSET S : T # {} => Max(T) \in S
    BY <1>2, MaxOfSome
  <2> QED
    BY <1>2, <1>3, <1>6, <2>1 DEF GoesThrough
<1>8. SuppressOverlaps(s) \in Seq(D) /\ \E e : Sieved(e, SuppressOverlaps(s), Len(r), r, {}, Twins(D))
  BY <1>2, <1>4, <1>7, SieveFold
<1> QED
  BY <1>1, <1>2, <1>8 DEF D

\* No two of a list are the same thing.
NoTwins(s) == \A i, j \in 1 .. Len(s) : i # j => ~SameObject(s[i], s[j])

\* d is in the list, or is the same as one there that is at least as sure.
Stood(d, s) ==
  \E k \in 1 .. Len(s) : s[k] = d \/ (SameObject(d, s[k]) /\ s[k].confidence >= d.confidence)

\* u has the surest find of each object of s, in the order of sureness.
SurestOf(u, s) ==
  /\ NoTwins(u)
  /\ \A i \in 1 .. Len(s) : Stood(s[i], u)
  /\ \A a, b \in 1 .. Len(u) : a < b => u[a].confidence >= u[b].confidence
  /\ \A k \in 1 .. Len(u) : \E i \in 1 .. Len(s) : u[k] = s[i]

\* What suppress_overlaps makes of a list.
LEMMA SurestKept ==
  ASSUME NEW L, NEW p, IsPicture(p), NEW s \in Seq(FindsOn(L, p)),
         NEW u, u = SuppressOverlaps(s)
  PROVE  u \in Seq(FindsOn(L, p)) /\ SurestOf(u, s)
<1> DEFINE D == FindsOn(L, p)
<1>1. PICK O : /\ Sorts(O, Len(s), Doubt(s), Zeros(s))
               /\ u \in Seq(D)
               /\ [m \in 1 .. Len(s) |-> s[O[m]]] \in Seq(D)
               /\ Len([m \in 1 .. Len(s) |-> s[O[m]]]) = Len(s)
               /\ \E e : Sieved(e, u, Len(s), [m \in 1 .. Len(s) |-> s[O[m]]], {}, Twins(D))
  BY OverlapsSuppressed
<1>2. PICK r \in Seq(D) : r = [m \in 1 .. Len(s) |-> s[O[m]]] /\ Len(r) = Len(s)
  BY <1>1
<1>3. PICK n \in Nat : n = Len(s) /\ \A i \in 1..n : s[i] \in D /\ r[i] \in D /\ r[i] = s[O[i]]
  <2>1. Len(s) \in Nat /\ (\A i \in 1 .. Len(s) : s[i] \in D) /\ \A i \in 1 .. Len(s) : r[i] \in D
    <3>1. Len(s) \in Nat /\ \A i \in 1 .. Len(s) : s[i] \in D
      BY FindKeys
    <3> HIDE DEF D
    <3>2. \A i \in 1 .. Len(r) : r[i] \in D
      BY LenProperties
    <3> QED
      BY <1>2, <3>1, <3>2
  <2>2. \A i \in 1 .. Len(s) : r[i] = s[O[i]]
    BY <1>2
  <2> QED
    BY <2>1, <2>2
<1>4. PICK e : Sieved(e, u, n, r, {}, Twins(D))
  BY <1>1, <1>2, <1>3
<1>5. PICK w \in Nat : /\ w = Len(u) /\ w = Len(e)
                       /\ \A m \in 1..w : e[m] \in 1..n /\ u[m] = r[e[m]] /\ u[m] \in D
  <2>1. u \in Seq(D) /\ e \in Seq(1..n) /\ Len(e) = Len(u)
    BY <1>1, <1>2, <1>3, <1>4 DEF Sieved
  <2> HIDE DEF D
  <2>2. Len(e) \in Nat /\ (\A m \in 1 .. Len(e) : e[m] \in 1..n) /\ \A m \in 1 .. Len(u) : u[m] \in D
    BY <2>1, LenProperties
  <2>3. \A m \in 1 .. Len(e) : u[m] = r[e[m]]
    BY <1>4 DEF Sieved
  <2> QED
    BY <2>1, <2>2, <2>3
<1>6. O \in [1..n -> 1..n] /\ (\A i \in 1..n : \E m \in 1..n : O[m] = i)
  BY <1>1, <1>3 DEF Sorts
<1>7. \A a, b \in 1..n : a < b => r[a].confidence >= r[b].confidence
  <2> SUFFICES ASSUME NEW a \in 1..n, NEW b \in 1..n, a < b
               PROVE  r[a].confidence >= r[b].confidence
    OBVIOUS
  <2>1. Before(Doubt(s), Zeros(s), O[a], O[b])
    BY <1>1, <1>3 DEF Sorts
  <2>2. PICK x, y \in Int : x = r[a].confidence /\ y = r[b].confidence
    BY <1>3 DEF FindsOn
  <2>3. Doubt(s)[O[a]] = -x /\ Doubt(s)[O[b]] = -y
    BY <1>3, <1>6, <2>2 DEF Doubt
  <2> QED
    BY <2>1, <2>2, <2>3, SMTT(30) DEF Before
<1>8. \A a, b \in 1..w : a < b => e[a] < e[b] /\ <<r[e[b]], r[e[a]]>> \notin Twins(D)
  BY <1>4, <1>5 DEF Sieved
<1>9. \A a, b \in 1..w : a < b => u[a].confidence >= u[b].confidence
  BY <1>5, <1>7, <1>8
<1>10. \A a, b \in 1..w : a < b => ~SameObject(u[a], u[b]) /\ ~SameObject(u[b], u[a])
  <2> SUFFICES ASSUME NEW a \in 1..w, NEW b \in 1..w, a < b
               PROVE  ~SameObject(u[a], u[b]) /\ ~SameObject(u[b], u[a])
    OBVIOUS
  <2>1. u[a] \in D /\ u[b] \in D /\ <<u[b], u[a]>> \notin Twins(D)
    BY <1>5, <1>8
  <2>2. ~SameObject(u[b], u[a])
    <3> HIDE DEF D
    <3> QED
      BY <2>1 DEF Twins
  <2> QED
    BY <2>1, <2>2, SameObjectSymmetric
<1>11. NoTwins(u)
  <2>1. \A a, b \in 1..w : a # b => a < b \/ b < a
    OBVIOUS
  <2> QED
    BY <1>5, <1>10, <2>1 DEF NoTwins
<1>12. ASSUME NEW i \in 1..n
       PROVE  Stood(s[i], u)
  <2>1. PICK m \in 1..n : O[m] = i /\ r[m] = s[i]
    BY <1>3, <1>6
  <2>2. PICK k \in 1..w : e[k] = m \/ (e[k] < m /\ <<r[m], r[e[k]]>> \in Twins(D))
    BY <1>4, <1>5 DEF Sieved
  <2>3. CASE e[k] = m
    BY <1>5, <2>1, <2>2, <2>3 DEF Stood
  <2>4. CASE e[k] < m /\ <<r[m], r[e[k]]>> \in Twins(D)
    <3>1. SameObject(s[i], u[k])
      <4> HIDE DEF D
      <4> QED
        BY <1>5, <2>1, <2>4 DEF Twins
    <3>2. u[k].confidence >= s[i].confidence
      BY <1>5, <1>7, <2>1, <2>4
    <3> QED
      BY <1>5, <3>1, <3>2 DEF Stood
  <2> QED
    BY <2>2, <2>3, <2>4
<1>13. \A k \in 1..w : \E i \in 1..n : u[k] = s[i]
  <2> SUFFICES ASSUME NEW k \in 1..w PROVE \E i \in 1..n : u[k] = s[i]
    OBVIOUS
  <2>1. e[k] \in 1..n /\ u[k] = r[e[k]]
    BY <1>5
  <2>2. O[e[k]] \in 1..n /\ r[e[k]] = s[O[e[k]]]
    BY <1>3, <1>6, <2>1
  <2> QED
    BY <2>1, <2>2
<1> QED
  BY <1>1, <1>3, <1>5, <1>9, <1>11, <1>12, <1>13 DEF SurestOf

\* A list without twins is only sorted.
LEMMA NoTwinsSuppressed ==
  ASSUME NEW L, NEW p, IsPicture(p), NEW s \in Seq(FindsOn(L, p)), NoTwins(s)
  PROVE  \E O : /\ Sorts(O, Len(s), Doubt(s), Zeros(s))
                /\ SuppressOverlaps(s) = [m \in 1 .. Len(s) |-> s[O[m]]]
<1> DEFINE D == FindsOn(L, p)
<1>1. PICK O : /\ Sorts(O, Len(s), Doubt(s), Zeros(s))
               /\ SuppressOverlaps(s) \in Seq(D)
               /\ [m \in 1 .. Len(s) |-> s[O[m]]] \in Seq(D)
               /\ Len([m \in 1 .. Len(s) |-> s[O[m]]]) = Len(s)
               /\ \E e : Sieved(e, SuppressOverlaps(s), Len(s), [m \in 1 .. Len(s) |-> s[O[m]]],
                                {}, Twins(D))
  BY OverlapsSuppressed
<1> HIDE DEF D
<1>2. PICK r \in Seq(D) : r = [m \in 1 .. Len(s) |-> s[O[m]]] /\ Len(r) = Len(s)
  BY <1>1
<1>3. PICK e : Sieved(e, SuppressOverlaps(s), Len(r), r, {}, Twins(D))
  BY <1>1, <1>2
<1>4. \A i, j \in 1 .. Len(r) : j < i => <<r[i], r[j]>> \notin Twins(D)
  <2> SUFFICES ASSUME NEW i \in 1 .. Len(s), NEW j \in 1 .. Len(s), j < i
               PROVE  ~SameObject(s[O[i]], s[O[j]])
    BY <1>2 DEF Twins
  <2>1. Before(Doubt(s), Zeros(s), O[j], O[i]) /\ O[i] \in 1 .. Len(s) /\ O[j] \in 1 .. Len(s)
    BY <1>1 DEF Sorts
  <2>2. O[i] # O[j]
    BY <2>1, FindKeys, BeforeIsOrder
  <2> QED
    BY <2>1, <2>2 DEF NoTwins
<1>5. SuppressOverlaps(s) = r
  BY <1>1, <1>3, <1>4, SieveKeepsAll
<1> QED
  BY <1>1, <1>2, <1>5

-----------------------------------------------------------------------------
\* Finds on a picture are not cut again.
LEMMA TidyUnfolds ==
  ASSUME NEW L, NEW p, IsPicture(p), NEW s \in Seq(FindsOn(L, p))
  PROVE  Tidy(s, p) = RowsInOrder(SuppressOverlaps(DropTiny(s, p)), p)
<1> DEFINE inside == [i \in DOMAIN s |-> [s[i] EXCEPT !.box = ClampBox(@, p)]]
<1>1. ASSUME NEW d \in FindsOn(L, p) PROVE [d EXCEPT !.box = ClampBox(@, p)] = d
  <2>1. d.box \in BoxesOn(p)
    BY DEF FindsOn
  <2>2. ClampBox(d.box, p) = d.box
    BY <2>1, Clamped
  <2>3. [d EXCEPT !.box = d.box] = d
    BY DEF FindsOn
  <2> QED
    BY <2>2, <2>3
<1>2. s \in [1 .. Len(s) -> FindsOn(L, p)]
  BY FindKeys
<1>3. inside = s
  BY <1>1, <1>2
<1> HIDE DEF inside
<1>4. Tidy(s, p) = RowsInOrder(SuppressOverlaps(DropTiny(inside, p)), p)
  BY DEF Tidy, RowsInOrder, inside
<1> QED
  BY <1>3, <1>4

\* What tidy makes of a list: no two finds are the same thing, every find that is no speck
\* is there or one that stands for it, none is a speck, and they are in rows, those at one
\* place in the order of their sureness.
InRows(s, p) ==
  \A a, b \in 1 .. Len(s) : a < b =>
    \/ Rows(s, p)[a] < Rows(s, p)[b]
    \/ Rows(s, p)[a] = Rows(s, p)[b] /\ Lefts(s)[a] < Lefts(s)[b]
    \/ Rows(s, p)[a] = Rows(s, p)[b] /\ Lefts(s)[a] = Lefts(s)[b] /\ Doubt(s)[a] <= Doubt(s)[b]

LEMMA Tidied ==
  ASSUME NEW L, NEW p, IsPicture(p), NEW s \in Seq(FindsOn(L, p)),
         NEW kept, kept = Tidy(s, p)
  PROVE  /\ kept \in Seq(FindsOn(L, p))
         /\ NoTwins(kept)
         /\ \A i \in 1 .. Len(s) : LargeEnough(s[i], p) => Stood(s[i], kept)
         /\ \A k \in 1 .. Len(kept) : LargeEnough(kept[k], p)
         /\ InRows(kept, p)
<1> DEFINE D == FindsOn(L, p)
<1>1. PICK t : t = DropTiny(s, p) /\ t \in Seq(D) /\ \E e : Sieved(e, t, Len(s), s, Specks(D, p), {})
  BY SpecksDropped
<1>2. PICK e : Sieved(e, t, Len(s), s, Specks(D, p), {})
  BY <1>1
<1>3. \A i \in 1 .. Len(s) : LargeEnough(s[i], p) => \E k \in 1 .. Len(t) : t[k] = s[i]
  <2>1. \A i \in 1 .. Len(s) : s[i] \in Specks(D, p) \/ \E m \in 1 .. Len(e) : e[m] = i
    BY <1>2 DEF Sieved
  <2>2. Len(t) = Len(e) /\ \A m \in 1 .. Len(e) : t[m] = s[e[m]]
    BY <1>2 DEF Sieved
  <2>3. \A i \in 1 .. Len(s) : LargeEnough(s[i], p) => s[i] \notin Specks(D, p)
    BY DEF Specks
  <2> QED
    BY <2>1, <2>2, <2>3
<1>4. \A k \in 1 .. Len(t) : LargeEnough(t[k], p)
  <2>1. Len(t) = Len(e) /\ \A m \in 1 .. Len(e) : t[m] = s[e[m]] /\ s[e[m]] \notin Specks(D, p)
    BY <1>2 DEF Sieved
  <2>2. \A k \in 1 .. Len(t) : t[k] \in D
    <3> HIDE DEF D
    <3> QED
      BY <1>1, LenProperties
  <2> HIDE DEF D
  <2> QED
    BY <2>1, <2>2 DEF Specks
<1>5. PICK u : u = SuppressOverlaps(t)
  OBVIOUS
<1>6. u \in Seq(D) /\ SurestOf(u, t)
  <2>1. t \in Seq(D)
    BY <1>1
  <2> QED
    BY <1>5, <2>1, SurestKept
<1>7. kept = RowsInOrder(u, p)
  BY <1>1, <1>5, TidyUnfolds
<1>8. PICK Q : Sorts(Q, Len(u), Rows(u, p), Lefts(u)) /\ kept = [m \in 1 .. Len(u) |-> u[Q[m]]]
  <2>1. u \in Seq(D)
    BY <1>6
  <2>2. \E Q : Sorts(Q, Len(u), Rows(u, p), Lefts(u)) /\ RowsInOrder(u, p) = [m \in 1 .. Len(u) |-> u[Q[m]]]
    BY <2>1, RowsFirst
  <2> QED
    BY <1>7, <2>2
<1>9. PICK n \in Nat : /\ n = Len(u) /\ u \in [1..n -> D]
                       /\ Rows(u, p) \in [1..n -> Int] /\ Lefts(u) \in [1..n -> Int]
  <2>1. u \in Seq(D)
    BY <1>6
  <2> QED
    BY <2>1, FindKeys
<1>10. /\ Q \in [1..n -> 1..n] /\ (\A i \in 1..n : \E m \in 1..n : Q[m] = i)
       /\ \A a, b \in 1..n : a < b => Before(Rows(u, p), Lefts(u), Q[a], Q[b])
       /\ \A a, b \in 1..n : a # b => Q[a] # Q[b]
  <2>1. Sorts(Q, n, Rows(u, p), Lefts(u))
    BY <1>8, <1>9
  <2>2. Rows(u, p) \in [1..n -> Int] /\ Lefts(u) \in [1..n -> Int]
    BY <1>9
  <2>3. \A a, b \in 1..n : a # b => Q[a] # Q[b]
    BY <2>1, <2>2, SortsApart
  <2> QED
    BY <2>1, <2>3 DEF Sorts
<1>11. /\ kept \in Seq(D) /\ Len(kept) = n
       /\ \A a \in 1..n : kept[a] = u[Q[a]] /\ kept[a] \in D
  <2> HIDE DEF D
  <2>1. kept = [m \in 1..n |-> u[Q[m]]] /\ u \in [1..n -> D] /\ Q \in [1..n -> 1..n]
    BY <1>8, <1>9, <1>10
  <2> QED
    BY <2>1, Rearranged
<1>12. NoTwins(kept)
  <2> SUFFICES ASSUME NEW a \in 1..n, NEW b \in 1..n, a # b
               PROVE  ~SameObject(kept[a], kept[b])
    BY <1>11 DEF NoTwins
  <2>1. Q[a] \in 1..n /\ Q[b] \in 1..n /\ Q[a] # Q[b]
    BY <1>10
  <2>2. ~SameObject(u[Q[a]], u[Q[b]])
    BY <1>6, <1>9, <2>1 DEF NoTwins, SurestOf
  <2> QED
    BY <1>11, <2>2
<1>13. ASSUME NEW i \in 1 .. Len(s), LargeEnough(s[i], p)
       PROVE  Stood(s[i], kept)
  <2>1. PICK j \in 1 .. Len(t) : t[j] = s[i]
    BY <1>3, <1>13
  <2>2. PICK k \in 1..n : u[k] = s[i] \/ (SameObject(s[i], u[k]) /\ u[k].confidence >= s[i].confidence)
    <3>1. Stood(s[i], u)
      BY <1>6, <2>1 DEF SurestOf
    <3> HIDE DEF D
    <3> QED
      BY <1>9, <3>1 DEF Stood
  <2>3. PICK m \in 1..n : Q[m] = k /\ kept[m] = u[k]
    <3>1. PICK m \in 1..n : Q[m] = k
      BY <1>10
    <3> HIDE DEF D
    <3> QED
      BY <1>11, <3>1
  <2> QED
    BY <1>11, <2>2, <2>3 DEF Stood
<1>14. ASSUME NEW k \in 1..n
       PROVE  LargeEnough(kept[k], p)
  <2>1. Q[k] \in 1..n /\ kept[k] = u[Q[k]]
    BY <1>10, <1>11
  <2> QED
    BY <1>4, <1>6, <1>9, <2>1 DEF SurestOf
<1>15. InRows(kept, p)
  <2> SUFFICES ASSUME NEW a \in 1..n, NEW b \in 1..n, a < b
               PROVE  \/ Rows(kept, p)[a] < Rows(kept, p)[b]
                      \/ /\ Rows(kept, p)[a] = Rows(kept, p)[b]
                         /\ Lefts(kept)[a] < Lefts(kept)[b]
                      \/ /\ Rows(kept, p)[a] = Rows(kept, p)[b]
                         /\ Lefts(kept)[a] = Lefts(kept)[b]
                         /\ Doubt(kept)[a] <= Doubt(kept)[b]
    BY <1>11 DEF InRows
  <2>1. PICK x, y \in 1..n : x = Q[a] /\ y = Q[b] /\ kept[a] = u[x] /\ kept[b] = u[y]
    <3> HIDE DEF D
    <3>1. Q[a] \in 1..n /\ Q[b] \in 1..n
      BY <1>10
    <3> QED
      BY <1>11, <3>1
  <2>2. Before(Rows(u, p), Lefts(u), x, y)
    BY <1>10, <2>1
  <2>3. /\ Rows(kept, p)[a] = Rows(u, p)[x] /\ Rows(kept, p)[b] = Rows(u, p)[y]
        /\ Lefts(kept)[a] = Lefts(u)[x] /\ Lefts(kept)[b] = Lefts(u)[y]
    BY <1>9, <1>11, <2>1 DEF Rows, Lefts
  <2>4. Doubt(kept)[a] = -kept[a].confidence /\ Doubt(kept)[b] = -kept[b].confidence
    BY <1>11 DEF Doubt
  <2>5. PICK c, d \in Int : c = kept[a].confidence /\ d = kept[b].confidence
    BY <1>11 DEF FindsOn
  <2>6. x < y => c >= d
    BY <1>6, <1>9, <2>1, <2>5 DEF SurestOf
  <2> HIDE DEF D
  <2> QED
    BY <2>2, <2>3, <2>4, <2>5, <2>6, SMTT(30) DEF Before
<1> QED
  BY <1>11, <1>12, <1>13, <1>14, <1>15

\* Tidying again changes nothing.
LEMMA TidyStays ==
  ASSUME NEW L, NEW p, IsPicture(p), NEW s \in Seq(FindsOn(L, p)),
         NoTwins(s), InRows(s, p), \A k \in 1 .. Len(s) : LargeEnough(s[k], p)
  PROVE  Tidy(s, p) = s
<1> DEFINE D == FindsOn(L, p)
<1>1. PICK n \in Nat : /\ n = Len(s) /\ s \in [1..n -> D]
                       /\ Doubt(s) \in [1..n -> Int] /\ Zeros(s) \in [1..n -> {0}]
                       /\ Rows(s, p) \in [1..n -> Int] /\ Lefts(s) \in [1..n -> Int]
  BY FindKeys
<1>2. DropTiny(s, p) = s
  <2>1. PICK e : DropTiny(s, p) \in Seq(D) /\ Sieved(e, DropTiny(s, p), Len(s), s, Specks(D, p), {})
    BY SpecksDropped
  <2>2. \A i \in 1 .. Len(s) : s[i] \notin Specks(D, p)
    BY DEF Specks
  <2> HIDE DEF D
  <2> QED
    BY <2>1, <2>2, SieveKeepsAll DEF D
<1>3. PICK O : Sorts(O, n, Doubt(s), Zeros(s)) /\ SuppressOverlaps(s) = [m \in 1..n |-> s[O[m]]]
  BY <1>1, NoTwinsSuppressed, SMTT(30)
<1>4. PICK u : u = SuppressOverlaps(s) /\ u \in Seq(D)
  BY SurestKept
<1>5. O \in [1..n -> 1..n]
  BY <1>3 DEF Sorts
<1>6. Len(u) = n /\ \A m \in 1..n : u[m] = s[O[m]]
  <2> HIDE DEF D
  <2>1. u \in [1..n -> D]
    BY <1>1, <1>3, <1>4, <1>5
  <2> QED
    BY <1>3, <1>4, <2>1
<1>7. PICK Q : Sorts(Q, n, Rows(u, p), Lefts(u)) /\ Tidy(s, p) = [m \in 1..n |-> u[Q[m]]]
  <2>1. Tidy(s, p) = RowsInOrder(u, p)
    BY <1>2, <1>4, TidyUnfolds
  <2>2. \E Q : Sorts(Q, Len(u), Rows(u, p), Lefts(u)) /\ RowsInOrder(u, p) = [m \in 1 .. Len(u) |-> u[Q[m]]]
    BY <1>4, RowsFirst
  <2> QED
    BY <1>6, <2>1, <2>2
<1>8. /\ Rows(u, p) = [i \in 1..n |-> Rows(s, p)[O[i]]]
      /\ Lefts(u) = [i \in 1..n |-> Lefts(s)[O[i]]]
  BY <1>1, <1>5, <1>6 DEF Rows, Lefts
<1>9. \A a, b \in 1..n : a < b =>
        \/ Rows(s, p)[a] < Rows(s, p)[b]
        \/ Rows(s, p)[a] = Rows(s, p)[b] /\ Lefts(s)[a] < Lefts(s)[b]
        \/ Rows(s, p)[a] = Rows(s, p)[b] /\ Lefts(s)[a] = Lefts(s)[b] /\ Doubt(s)[a] <= Doubt(s)[b]
  BY <1>1 DEF InRows
<1>10. \A a \in 1..n : O[Q[a]] = a
  <2>2. PICK k, l, c \in [1..n -> Int], none \in [1..n -> {0}] :
          k = Rows(s, p) /\ l = Lefts(s) /\ c = Doubt(s) /\ none = Zeros(s)
    BY <1>1
  <2>1. PICK x, y : x = Rows(u, p) /\ y = Lefts(u)
    OBVIOUS
  <2>3. Sorts(O, n, c, none) /\ Sorts(Q, n, x, y)
    BY <1>3, <1>7, <2>1, <2>2
  <2>5. x = [i \in 1..n |-> k[O[i]]] /\ y = [i \in 1..n |-> l[O[i]]]
    BY <1>8, <2>1, <2>2
  <2>4. InOrderOf(n, k, l, c)
    BY <1>9, <2>2 DEF InOrderOf
  <2>6. SortsAgain(O, Q, n, k, l, c, none, x, y)
    BY <2>3, <2>4, <2>5 DEF SortsAgain
  <2> HIDE DEF D
  <2> QED
    BY <2>6, SortedTwice
<1>11. Q \in [1..n -> 1..n]
  BY <1>7 DEF Sorts
<1>12. \A a \in 1..n : u[Q[a]] = s[a]
  BY <1>6, <1>10, <1>11
<1> HIDE DEF D
<1> QED
  BY <1>1, <1>7, <1>12

-----------------------------------------------------------------------------
\* The boxes a model may answer.
Answered == [box : Int \X Int \X Int \X Int, score : Int, wording : Seq(STRING)]

\* A find of the model lies on the picture.
LEMMA FoundOn ==
  ASSUME NEW p, IsPicture(p), NEW r \in Answered, NEW factor \in Nat
  PROVE  /\ ClampBox([i \in 1..4 |-> r.box[i] * factor], p) \in BoxesOn(p)
         /\ Clip(r.score, 0, 100) \in Int
<1> DEFINE b == [i \in 1..4 |-> r.box[i] * factor]
<1>1. b[1] \in Int /\ b[2] \in Int /\ b[3] \in Int /\ b[4] \in Int
  <2>1. r.box[1] \in Int /\ r.box[2] \in Int /\ r.box[3] \in Int /\ r.box[4] \in Int
    BY DEF Answered
  <2>2. b[1] = r.box[1] * factor /\ b[2] = r.box[2] * factor /\ b[3] = r.box[3] * factor
        /\ b[4] = r.box[4] * factor
    OBVIOUS
  <2>3. \A v \in Int : v * factor \in Int
    OBVIOUS
  <2> HIDE DEF b
  <2> QED
    BY <2>1, <2>2, <2>3
<1> HIDE DEF b
<1>2. ClampBox(b, p) \in BoxesOn(p)
  BY <1>1, Clamped
<1>3. r.score \in Int
  BY DEF Answered
<1>4. Clip(r.score, 0, 100) \in 0..100
  <2>1. 100 \in Nat /\ 0 \in Int
    OBVIOUS
  <2> QED
    BY <1>3, <2>1, ClipBounds
<1> QED
  BY <1>2, <1>4 DEF b

\* What detect answers lies on the picture.
LEMMA DetectedOn ==
  ASSUME NEW p, IsPicture(p), NEW prompts, NEW factor \in Nat, NEW raw \in Seq(Answered)
  PROVE  \E L : Detect(raw, prompts, factor, p) \in Seq(FindsOn(L, p))
<1> DEFINE found(r) ==
             [label |-> MatchPrompt(r.wording, prompts), confidence |-> Clip(r.score, 0, 100),
              box |-> ClampBox([i \in 1..4 |-> r.box[i] * factor], p)]
           s == [i \in DOMAIN raw |-> found(raw[i])]
           L == {s[i].label : i \in DOMAIN raw}
           D == FindsOn(L, p)
           Wanted(d) == d.label # <<>> /\ BoxArea(d.box) > 0
           Bad == {d \in D : ~Wanted(d)}
           S == 1 .. Len(s)
           Step(kept, d) == IF Wanted(d) THEN Append(kept, d) ELSE kept
           iter == CHOOSE F : F = [T \in SUBSET S |->
                     IF T = {} THEN <<>> ELSE Step(F[T \ {Max(T)}], s[Max(T)])]
<1>1. PICK n \in Nat : /\ n = Len(raw) /\ DOMAIN raw = 1..n
                       /\ \A i \in 1..n : raw[i] \in Answered
  BY LenProperties
<1>2. ASSUME NEW i \in 1..n
      PROVE  s[i] \in D
  <2>1. raw[i] \in Answered
    BY <1>1
  <2> DEFINE b == [j \in 1..4 |-> raw[i].box[j] * factor]
  <2>2. ClampBox(b, p) \in BoxesOn(p) /\ Clip(raw[i].score, 0, 100) \in Int
    <3> HIDE DEF s, L, D
    <3> QED
      BY <2>1, FoundOn
  <2>3. /\ s[i].label \in L
        /\ s[i] = [label |-> s[i].label, confidence |-> Clip(raw[i].score, 0, 100),
                   box |-> ClampBox(b, p)]
    BY <1>1 DEF b
  <2> HIDE DEF s, L, b
  <2> QED
    BY <2>2, <2>3 DEF FindsOn
<1>3. s \in Seq(D) /\ Len(s) = n /\ DOMAIN s = 1..n
  <2>1. s \in [1..n -> D]
    <3>1. s = [i \in 1..n |-> s[i]]
      BY <1>1
    <3> HIDE DEF s, D
    <3> QED
      BY <1>2, <3>1
  <2> HIDE DEF s, D
  <2> QED
    BY <2>1
<1>4. \A d \in D : \A kept : Step(kept, d) = SieveStep(kept, d, Bad, {})
  BY DEF SieveStep
<1>5. Detect(raw, prompts, factor, p) = iter[S]
  <2>1. Detect(raw, prompts, factor, p) = FoldLeft(Step, <<>>, s)
    BY DEF Detect
  <2> HIDE DEF s, Wanted
  <2>2. FoldLeft(Step, <<>>, s) = iter[S]
    BY <1>3 DEF FoldLeft, MapThenFoldSet
  <2> QED
    BY <2>1, <2>2
<1> HIDE DEF s, D, Bad, Step
<1>6. \E F : F = [T \in SUBSET S |-> IF T = {} THEN <<>> ELSE Step(F[T \ {Max(T)}], s[Max(T)])]
  <2>1. PICK F \in [SUBSET S -> Seq(D)] : SieveOf(F, s, Bad, {})
    BY <1>3, SieveIterates
  <2>2. ASSUME NEW T \in SUBSET S
        PROVE  F[T] = IF T = {} THEN <<>> ELSE Step(F[T \ {Max(T)}], s[Max(T)])
    <3>1. CASE T = {}
      BY <2>1, <3>1 DEF SieveOf
    <3>2. CASE T # {}
      <4>1. s[Max(T)] \in D
        BY <1>2, <1>3, <2>1, <3>2 DEF SieveOf
      <4> QED
        BY <1>4, <2>1, <3>2, <4>1 DEF SieveOf
    <3> QED
      BY <3>1, <3>2
  <2>3. F = [T \in SUBSET S |-> IF T = {} THEN <<>> ELSE Step(F[T \ {Max(T)}], s[Max(T)])]
    BY <2>2
  <2> QED
    BY <2>3
<1>7. iter = [T \in SUBSET S |-> IF T = {} THEN <<>> ELSE Step(iter[T \ {Max(T)}], s[Max(T)])]
  BY <1>6
<1> HIDE DEF iter
<1>8. GoesThrough(iter, D, s, Bad, {})
  <2>1. \A T \in SUBSET S : T # {} => Max(T) \in S
    BY <1>3, MaxOfSome
  <2> QED
    BY <1>2, <1>3, <1>4, <1>7, <2>1 DEF GoesThrough
<1>9. iter[S] \in Seq(D)
  BY <1>3, <1>8, SieveFold
<1> QED
  BY <1>5, <1>9 DEF D

\* What find_products makes of a model's answer, whatever the outliner answers.
FindsOf(a) ==
  FindProducts(Detect(a.raw, ParsePrompts(a.asked), a.factor, a.picture), a.candidates, a.fits,
               a.picture)

LEMMA FoundOnce ==
  ASSUME NEW a \in Answers, NEW result, result = FindsOf(a)
  PROVE  LET seen == Detect(a.raw, ParsePrompts(a.asked), a.factor, a.picture)
             kept == [i \in DOMAIN result |-> result[i].found.detection]
         IN /\ \A i, j \in DOMAIN kept : i # j => ~SameObject(kept[i], kept[j])
            /\ \A d \in ToSet(seen) : LargeEnough(d, a.picture) =>
                 \E k \in ToSet(kept) : k = d \/ (SameObject(d, k) /\ k.confidence >= d.confidence)
            /\ Tidy(kept, a.picture) = kept
            /\ \A f \in ToSet(result) :
                 IF f.found.status = "FAILED" THEN f.pictures = {"crop"}
                 ELSE /\ f.pictures = {"crop", "mask", "cutout", "white", "thumbnail"}
                      /\ f.cutout = f.found.mask
<1> DEFINE p == a.picture
           seen == Detect(a.raw, ParsePrompts(a.asked), a.factor, p)
           tidied == Tidy(seen, p)
           outline(d) == LET chosen == ChooseMask(a.candidates, d.box, p)
                         IN [mask |-> chosen.mask, score |-> chosen.score, fits |-> a.fits]
           kept == [i \in DOMAIN result |-> result[i].found.detection]
<1>1. IsPicture(p)
  BY AnswersAssumption DEF IsPicture
<1>2. PICK L : seen \in Seq(FindsOn(L, p))
  <2>1. a.raw \in Seq(Answered) /\ a.factor \in Nat
    BY AnswersAssumption DEF Answered
  <2> QED
    BY <1>1, <2>1, DetectedOn
<1>3. result = [i \in DOMAIN tidied |-> RenderFind(Judge(tidied[i], outline(tidied[i]), p), p)]
  BY DEF FindsOf, FindProducts
<1> HIDE DEF p, seen, tidied, outline
<1>4. \A d, o : RenderFind(Judge(d, o, p), p).found.detection = d
  BY DEF RenderFind, Judge
<1>5. /\ tidied \in Seq(FindsOn(L, p))
      /\ NoTwins(tidied)
      /\ \A i \in 1 .. Len(seen) : LargeEnough(seen[i], p) => Stood(seen[i], tidied)
      /\ \A k \in 1 .. Len(tidied) : LargeEnough(tidied[k], p)
      /\ InRows(tidied, p)
  BY <1>1, <1>2, Tidied DEF tidied
<1>6. /\ Len(tidied) \in Nat /\ DOMAIN tidied = 1 .. Len(tidied)
      /\ \A i \in 1 .. Len(tidied) : tidied[i] \in FindsOn(L, p)
  BY <1>5, LenProperties
<1>7. kept = tidied
  <2>1. DOMAIN result = DOMAIN tidied /\ \A i \in DOMAIN tidied : result[i].found.detection = tidied[i]
    BY <1>3, <1>4
  <2>2. kept = [i \in DOMAIN tidied |-> tidied[i]]
    BY <2>1
  <2>3. tidied = [i \in DOMAIN tidied |-> tidied[i]]
    BY <1>5
  <2> QED
    BY <2>2, <2>3
<1> HIDE DEF kept
<1>8. \A i, j \in DOMAIN kept : i # j => ~SameObject(kept[i], kept[j])
  BY <1>5, <1>6, <1>7 DEF NoTwins
<1>9. ASSUME NEW d \in ToSet(seen), LargeEnough(d, p)
      PROVE  \E k \in ToSet(kept) : k = d \/ (SameObject(d, k) /\ k.confidence >= d.confidence)
  <2>1. PICK i \in 1 .. Len(seen) : d = seen[i]
    BY <1>2, LenProperties DEF ToSet
  <2>2. Stood(d, tidied)
    BY <1>5, <1>9, <2>1
  <2>3. PICK k \in 1 .. Len(tidied) :
          tidied[k] = d \/ (SameObject(d, tidied[k]) /\ tidied[k].confidence >= d.confidence)
    BY <2>2 DEF Stood
  <2>4. tidied[k] \in ToSet(kept)
    BY <1>6, <1>7 DEF ToSet
  <2> QED
    BY <2>3, <2>4
<1>10. Tidy(kept, p) = kept
  BY <1>1, <1>5, <1>7, TidyStays
<1>11. ASSUME NEW f \in ToSet(result)
       PROVE  IF f.found.status = "FAILED" THEN f.pictures = {"crop"}
              ELSE /\ f.pictures = {"crop", "mask", "cutout", "white", "thumbnail"}
                   /\ f.cutout = f.found.mask
  <2>1. PICK i \in DOMAIN tidied : f = RenderFind(Judge(tidied[i], outline(tidied[i]), p), p)
    BY <1>3 DEF ToSet
  <2>2. PICK d, o : d = tidied[i] /\ o = outline(tidied[i])
    OBVIOUS
  <2>3. d.box \in Int \X Int \X Int \X Int
    <3>1. d.box \in BoxesOn(p)
      BY <1>6, <2>2 DEF FindsOn
    <3> QED
      BY <3>1, SubPxAssumption, <1>1 DEF BoxesOn, IsPicture
  <2>4. f = RenderFind(Judge(d, o, p), p)
    BY <2>1, <2>2
  <2> QED
    BY <1>1, <2>3, <2>4, CutoutsShowTheOutline DEF IsPicture
<1> QED
  BY <1>8, <1>9, <1>10, <1>11 DEF p, seen, kept

\* A call of find_products answers what it makes of one of the models' answers.
Searched == service = "find_products" => arg \in Answers /\ answer = FindsOf(arg)

\* Each object is found once: no two finds are the same thing, what was dropped is the same as
\* a find at least as sure, tidying again changes nothing (tidy of services/detections.py),
\* and every find has the pictures that its verdict promises, on a picture of any size and
\* whatever the models answer.
THEOREM ObjectsFoundOnce == Spec => []OneFindPerObject
<1>1. Init => Searched
  BY DEF Init, Searched
<1>2. Searched /\ [Next]_vars => Searched'
  <2> SUFFICES ASSUME Searched, [Next]_vars PROVE Searched'
    OBVIOUS
  <2>1. CASE FindPageProducts
    BY <2>1 DEF FindPageProducts, Call, Searched, FindsOf
  <2>2. CASE ReadText \/ FindPanels \/ DrawBox \/ Group
    <3>1. service' # "find_products"
      BY <2>2 DEF ReadText, FindPanels, DrawBox, Group, Call
    <3> QED
      BY <3>1 DEF Searched
  <2>3. CASE UNCHANGED vars
    BY <2>3 DEF Searched, vars
  <2> QED
    BY <2>1, <2>2, <2>3 DEF Next
<1>3. Searched => OneFindPerObject
  BY FoundOnce DEF Searched, OneFindPerObject
<1> QED
  BY <1>1, <1>2, <1>3, PTL DEF Spec

-----------------------------------------------------------------------------
(* The text of a page.                                                     *)

\* Readings have a box and a confidence.
AreReadings(D) == \A r \in D : r.box \in Int \X Int \X Int \X Int /\ r.confidence \in Int

\* The pairs that are the same text, and the keys by which readings are sorted.
SameText(D) == {q \in D \X D : IsSameText(q[1].box, q[2].box)}
Lengths(s) == [i \in 1 .. Len(s) |-> -Length(s[i])]
Doubts(s) == [i \in 1 .. Len(s) |-> -s[i].confidence]

\* They are integers.
LEMMA ReadingKeys ==
  ASSUME NEW D, AreReadings(D), NEW s \in Seq(D)
  PROVE  /\ Len(s) \in Nat /\ s \in [1 .. Len(s) -> D]
         /\ \A i \in 1 .. Len(s) : s[i] \in D /\ Length(s[i]) \in Int /\ s[i].confidence \in Int
         /\ Lengths(s) \in [1 .. Len(s) -> Int]
         /\ Doubts(s) \in [1 .. Len(s) -> Int]
<1>1. Len(s) \in Nat /\ s \in [1 .. Len(s) -> D] /\ \A i \in 1 .. Len(s) : s[i] \in D
  BY LenProperties
<1>2. \A r \in D : Length(r) \in Int /\ r.confidence \in Int
  <2> SUFFICES ASSUME NEW r \in D PROVE Length(r) \in Int /\ r.confidence \in Int
    OBVIOUS
  <2>1. r.box[1] \in Int /\ r.box[3] \in Int /\ r.confidence \in Int
    BY DEF AreReadings
  <2> QED
    BY <2>1 DEF Length, Width
<1>3. \A i \in 1 .. Len(s) : -Length(s[i]) \in Int /\ -s[i].confidence \in Int
  BY <1>1, <1>2
<1> QED
  BY <1>1, <1>2, <1>3 DEF Lengths, Doubts

\* Two readings are the same text whichever is looked at first.
LEMMA SameTextSymmetric ==
  ASSUME NEW a \in Int \X Int \X Int \X Int, NEW b \in Int \X Int \X Int \X Int
  PROVE  IsSameText(a, b) <=> IsSameText(b, a)
<1>1. \A x, y \in Int : {x, y} = {y, x}
  OBVIOUS
<1>2. /\ a[1] \in Int /\ a[2] \in Int /\ a[3] \in Int /\ a[4] \in Int
      /\ b[1] \in Int /\ b[2] \in Int /\ b[3] \in Int /\ b[4] \in Int
  OBVIOUS
<1>3. /\ Width(a) \in Int /\ Width(b) \in Int /\ Height(a) \in Int /\ Height(b) \in Int
  BY <1>2 DEF Width, Height
<1>4. OverlapW(a, b) = OverlapW(b, a) /\ OverlapH(a, b) = OverlapH(b, a)
  BY <1>1, <1>2 DEF OverlapW, OverlapH
<1>5. /\ Min({Width(a), Width(b)}) = Min({Width(b), Width(a)})
      /\ Min({Height(a), Height(b)}) = Min({Height(b), Height(a)})
  BY <1>1, <1>3
<1> QED
  BY <1>4, <1>5 DEF IsSameText

\* The order in which _drop_duplicates goes through them.
LongestInOrder(s) ==
  LET first(a, b) == \/ Length(a) > Length(b)
                     \/ Length(a) = Length(b) /\ a.confidence > b.confidence
  IN InOrder(s, first)

\* The order by length, then by sureness.
LEMMA LongestFirst ==
  ASSUME NEW D, AreReadings(D), NEW s \in Seq(D)
  PROVE  \E O : /\ Sorts(O, Len(s), Lengths(s), Doubts(s))
                /\ LongestInOrder(s) = [m \in 1 .. Len(s) |-> s[O[m]]]
<1> DEFINE longer(a, b) == \/ Length(a) > Length(b)
                           \/ Length(a) = Length(b) /\ a.confidence > b.confidence
           n == Len(s)
           first(i, j) == \/ longer(s[i], s[j])
                          \/ ~longer(s[j], s[i]) /\ i < j
           P == [i \in 1..n |-> Cardinality({j \in 1..n : first(j, i)}) + 1]
           O == [m \in 1..n |-> CHOOSE i \in 1..n : P[i] = m]
<1>1. /\ n \in Nat /\ DOMAIN s = 1..n
      /\ Lengths(s) \in [1..n -> Int] /\ Doubts(s) \in [1..n -> Int]
      /\ \A i \in 1..n : Length(s[i]) \in Int /\ s[i].confidence \in Int
  BY ReadingKeys
<1>2. \A i, j \in 1..n : first(i, j) <=> Before(Lengths(s), Doubts(s), i, j)
  <2> SUFFICES ASSUME NEW i \in 1..n, NEW j \in 1..n
               PROVE  first(i, j) <=> Before(Lengths(s), Doubts(s), i, j)
    OBVIOUS
  <2>1. PICK x, y, u, v \in Int : /\ x = Length(s[i]) /\ y = Length(s[j])
                                 /\ u = s[i].confidence /\ v = s[j].confidence
    BY <1>1
  <2>2. /\ Lengths(s)[i] = -x /\ Lengths(s)[j] = -y
        /\ Doubts(s)[i] = -u /\ Doubts(s)[j] = -v
    BY <2>1 DEF Lengths, Doubts
  <2>3. first(i, j) <=> \/ x > y \/ (x = y /\ u > v)
                        \/ ~(y > x \/ (y = x /\ v > u)) /\ i < j
    BY <2>1
  <2>4. Before(Lengths(s), Doubts(s), i, j) <=> \/ -x < -y
                                                \/ -x = -y /\ -u < -v
                                                \/ -x = -y /\ -u = -v /\ i < j
    BY <2>2 DEF Before
  <2> HIDE DEF first
  <2> QED
    BY <2>3, <2>4
<1>3. \A i \in 1..n : {j \in 1..n : first(j, i)} = {j \in 1..n : Before(Lengths(s), Doubts(s), j, i)}
  BY <1>2
<1>4. \A i \in 1..n : P[i] = Cardinality({j \in 1..n : Before(Lengths(s), Doubts(s), j, i)}) + 1
  BY <1>3
<1>5. LongestInOrder(s) = [m \in 1..n |-> s[O[m]]]
  <2> DEFINE place(i) == Cardinality({j \in DOMAIN s : first(j, i)}) + 1
  <2>1. LongestInOrder(s) = [m \in DOMAIN s |-> s[CHOOSE i \in DOMAIN s : place(i) = m]]
    BY DEF InOrder, LongestInOrder
  <2>2. \A i \in DOMAIN s : place(i) = P[i]
    BY <1>1
  <2>3. ASSUME NEW m \in DOMAIN s
        PROVE  (CHOOSE i \in DOMAIN s : place(i) = m) = (CHOOSE i \in DOMAIN s : P[i] = m)
    <3> HIDE DEF place, P
    <3> QED
      BY <2>2
  <2> HIDE DEF place, P
  <2>4. \A m \in DOMAIN s : O[m] = CHOOSE i \in DOMAIN s : P[i] = m
    BY <1>1
  <2> HIDE DEF O
  <2>5. ASSUME NEW m \in DOMAIN s
        PROVE  s[CHOOSE i \in DOMAIN s : place(i) = m] = s[O[m]]
    BY <2>3, <2>4
  <2>6. LongestInOrder(s) = [m \in DOMAIN s |-> s[O[m]]]
    BY <2>1, <2>5
  <2> QED
    BY <1>1, <2>6
<1>6. P \in [1..n -> Int]
  <2>1. \A i \in 1..n : Cardinality({j \in 1..n : first(j, i)}) \in Nat
    <3> HIDE DEF first
    <3>1. IsFiniteSet(1..n) /\ \A i \in 1..n : {j \in 1..n : first(j, i)} \in SUBSET (1..n)
      BY <1>1, FS_Interval
    <3> QED
      BY <3>1, FS_Subset, FS_CardinalityType
  <2> QED
    BY <2>1
<1>7. O = [m \in 1..n |-> CHOOSE i \in 1..n : P[i] = m]
  OBVIOUS
<1> HIDE DEF P, O, n
<1>8. Sorts(O, n, Lengths(s), Doubts(s))
  BY <1>1, <1>4, <1>6, <1>7, PlacesSort
<1> QED
  BY <1>5, <1>8 DEF n

\* _drop_duplicates goes through the readings from the longest and keeps those that are not
\* the same text as one it has kept.
LEMMA DuplicatesSieved ==
  ASSUME NEW D, AreReadings(D), NEW s \in Seq(D)
  PROVE  \E O : /\ Sorts(O, Len(s), Lengths(s), Doubts(s))
                /\ DropDuplicates(s) \in Seq(D)
                /\ [m \in 1 .. Len(s) |-> s[O[m]]] \in Seq(D)
                /\ Len([m \in 1 .. Len(s) |-> s[O[m]]]) = Len(s)
                /\ \E e : Sieved(e, DropDuplicates(s), Len(s), [m \in 1 .. Len(s) |-> s[O[m]]],
                                 {}, SameText(D))
<1> DEFINE r == LongestInOrder(s)
           S == 1 .. Len(r)
           Step(kept, c) == IF \E k \in DOMAIN kept : IsSameText(c.box, kept[k].box) THEN kept
                            ELSE Append(kept, c)
           iter == CHOOSE F : F = [T \in SUBSET S |->
                     IF T = {} THEN <<>> ELSE Step(F[T \ {Max(T)}], r[Max(T)])]
<1>1. PICK O : Sorts(O, Len(s), Lengths(s), Doubts(s)) /\ r = [m \in 1 .. Len(s) |-> s[O[m]]]
  BY LongestFirst
<1>2. r \in Seq(D) /\ Len(r) = Len(s) /\ DOMAIN r = S /\ Len(r) \in Nat /\ \A i \in S : r[i] \in D
  <2>1. Len(s) \in Nat /\ \A i \in 1 .. Len(s) : s[i] \in D
    BY ReadingKeys
  <2>2. \A m \in 1 .. Len(s) : O[m] \in 1 .. Len(s)
    BY <1>1 DEF Sorts
  <2>3. r \in [1 .. Len(s) -> D]
    <3> HIDE DEF r
    <3> QED
      BY <1>1, <2>1, <2>2
  <2> HIDE DEF r
  <2> QED
    BY <2>1, <2>3
<1>3. ASSUME NEW c \in D, NEW kept \in Seq(D)
      PROVE  Step(kept, c) = SieveStep(kept, c, {}, SameText(D))
  <2>1. \A k \in DOMAIN kept : kept[k] \in D
    OBVIOUS
  <2>2. \A k \in DOMAIN kept : IsSameText(c.box, kept[k].box) <=> <<c, kept[k]>> \in SameText(D)
    BY <2>1 DEF SameText
  <2> QED
    BY <2>2 DEF SieveStep
<1>4. DropDuplicates(s) = iter[S]
  <2>1. DropDuplicates(s) = FoldLeft(Step, <<>>, r)
    BY DEF DropDuplicates, LongestInOrder
  <2> HIDE DEF r
  <2>2. FoldLeft(Step, <<>>, r) = iter[S]
    BY <1>2 DEF FoldLeft, MapThenFoldSet
  <2> QED
    BY <2>1, <2>2
<1> HIDE DEF r
<1>5. \E F : F = [T \in SUBSET S |-> IF T = {} THEN <<>> ELSE Step(F[T \ {Max(T)}], r[Max(T)])]
  <2> HIDE DEF Step
  <2>1. PICK F \in [SUBSET S -> Seq(D)] : SieveOf(F, r, {}, SameText(D))
    BY <1>2, SieveIterates
  <2>2. ASSUME NEW T \in SUBSET S
        PROVE  F[T] = IF T = {} THEN <<>> ELSE Step(F[T \ {Max(T)}], r[Max(T)])
    <3>1. CASE T = {}
      BY <2>1, <3>1 DEF SieveOf
    <3>2. CASE T # {}
      <4>1. r[Max(T)] \in D /\ F[T \ {Max(T)}] \in Seq(D)
        BY <1>2, <2>1, <3>2 DEF SieveOf
      <4> QED
        BY <1>3, <2>1, <3>2, <4>1 DEF SieveOf
    <3> QED
      BY <3>1, <3>2
  <2>3. F = [T \in SUBSET S |-> IF T = {} THEN <<>> ELSE Step(F[T \ {Max(T)}], r[Max(T)])]
    BY <2>2
  <2> QED
    BY <2>3
<1>6. iter = [T \in SUBSET S |-> IF T = {} THEN <<>> ELSE Step(iter[T \ {Max(T)}], r[Max(T)])]
  <2> HIDE DEF Step
  <2> QED
    BY <1>5
<1> HIDE DEF iter, Step
<1>7. GoesThrough(iter, D, r, {}, SameText(D))
  <2>1. \A T \in SUBSET S : T # {} => Max(T) \in S
    BY <1>2, MaxOfSome
  <2> QED
    BY <1>2, <1>3, <1>6, <2>1 DEF GoesThrough
<1>8. DropDuplicates(s) \in Seq(D) /\ \E e : Sieved(e, DropDuplicates(s), Len(r), r, {}, SameText(D))
  BY <1>2, <1>4, <1>7, SieveFold
<1> QED
  BY <1>1, <1>2, <1>8

\* a is longer than b, or as long and at least as sure.
AtLeast(a, b) ==
  \/ Length(a) > Length(b)
  \/ Length(a) = Length(b) /\ a.confidence >= b.confidence

\* No two of a list are the same text; r is in it, or is the same text as one that is at least
\* as long and sure.
NoTextTwice(u) == \A i, j \in 1 .. Len(u) : i # j => ~IsSameText(u[i].box, u[j].box)
Represented(r, u) ==
  \E k \in 1 .. Len(u) : u[k] = r \/ (IsSameText(r.box, u[k].box) /\ AtLeast(u[k], r))

\* u has the best reading of each text of s, the best of all first.
BestOf(u, s) ==
  /\ NoTextTwice(u)
  /\ \A i \in 1 .. Len(s) : Represented(s[i], u)
  /\ \A a, b \in 1 .. Len(u) : a < b => AtLeast(u[a], u[b])
  /\ \A k \in 1 .. Len(u) : \E i \in 1 .. Len(s) : u[k] = s[i]

\* What goes first is at least as good, and the other way round where the places allow it.
LEMMA BeforeIsBetter ==
  ASSUME NEW D, AreReadings(D), NEW s \in Seq(D), NEW i \in 1 .. Len(s), NEW j \in 1 .. Len(s)
  PROVE  /\ Before(Lengths(s), Doubts(s), i, j) => AtLeast(s[i], s[j])
         /\ AtLeast(s[i], s[j]) /\ i < j => Before(Lengths(s), Doubts(s), i, j)
<1>1. PICK x, y \in Int : x = Length(s[i]) /\ y = Length(s[j])
  BY ReadingKeys
<1>2. PICK v, z \in Int : v = s[i].confidence /\ z = s[j].confidence
  BY ReadingKeys
<1>3. Lengths(s)[i] = -x /\ Lengths(s)[j] = -y /\ Doubts(s)[i] = -v /\ Doubts(s)[j] = -z
  BY <1>1, <1>2 DEF Lengths, Doubts
<1>4. Before(Lengths(s), Doubts(s), i, j) <=> \/ -x < -y
                                              \/ -x = -y /\ -v < -z
                                              \/ -x = -y /\ -v = -z /\ i < j
  BY <1>3 DEF Before
<1>5. AtLeast(s[i], s[j]) <=> x > y \/ (x = y /\ v >= z)
  BY <1>1, <1>2 DEF AtLeast
<1> QED
  BY <1>4, <1>5

\* What _drop_duplicates makes of a list.
LEMMA BestKept ==
  ASSUME NEW D, AreReadings(D), NEW s \in Seq(D), NEW u, u = DropDuplicates(s)
  PROVE  u \in Seq(D) /\ BestOf(u, s)
<1>1. PICK O : /\ Sorts(O, Len(s), Lengths(s), Doubts(s))
               /\ u \in Seq(D)
               /\ [m \in 1 .. Len(s) |-> s[O[m]]] \in Seq(D)
               /\ Len([m \in 1 .. Len(s) |-> s[O[m]]]) = Len(s)
               /\ \E e : Sieved(e, u, Len(s), [m \in 1 .. Len(s) |-> s[O[m]]], {}, SameText(D))
  BY DuplicatesSieved
<1>2. PICK r \in Seq(D) : r = [m \in 1 .. Len(s) |-> s[O[m]]] /\ Len(r) = Len(s)
  BY <1>1, SMTT(30)
<1>3. PICK n \in Nat : /\ n = Len(s)
                       /\ \A i \in 1..n : s[i] \in D /\ r[i] \in D /\ r[i] = s[O[i]]
  <2>1. Len(s) \in Nat /\ \A i \in 1 .. Len(s) : s[i] \in D
    BY ReadingKeys
  <2>2. \A i \in 1 .. Len(r) : r[i] \in D
    BY LenProperties
  <2> QED
    BY <1>2, <2>1, <2>2
<1>4. PICK e : Sieved(e, u, n, r, {}, SameText(D))
  BY <1>1, <1>2, <1>3
<1>5. PICK w \in Nat : /\ w = Len(u) /\ w = Len(e)
                       /\ \A m \in 1..w : e[m] \in 1..n /\ u[m] = r[e[m]] /\ u[m] \in D
  <2>1. u \in Seq(D) /\ e \in Seq(1..n) /\ Len(e) = Len(u)
    BY <1>1, <1>2, <1>3, <1>4 DEF Sieved
  <2>2. Len(e) \in Nat /\ (\A m \in 1 .. Len(e) : e[m] \in 1..n) /\ \A m \in 1 .. Len(u) : u[m] \in D
    BY <2>1, LenProperties
  <2>3. \A m \in 1 .. Len(e) : u[m] = r[e[m]]
    BY <1>4 DEF Sieved
  <2> QED
    BY <2>1, <2>2, <2>3
<1>6. O \in [1..n -> 1..n] /\ (\A i \in 1..n : \E m \in 1..n : O[m] = i)
  BY <1>1, <1>3 DEF Sorts
<1>7. \A a, b \in 1..n : a < b => AtLeast(r[a], r[b])
  <2> SUFFICES ASSUME NEW a \in 1..n, NEW b \in 1..n, a < b
               PROVE  AtLeast(r[a], r[b])
    OBVIOUS
  <2>1. Before(Lengths(s), Doubts(s), O[a], O[b])
    BY <1>1, <1>3 DEF Sorts
  <2>2. O[a] \in 1 .. Len(s) /\ O[b] \in 1 .. Len(s)
    BY <1>3, <1>6
  <2>3. r[a] = s[O[a]] /\ r[b] = s[O[b]]
    BY <1>3
  <2> QED
    BY <2>1, <2>2, <2>3, BeforeIsBetter
<1>8. \A a, b \in 1..w : a < b => e[a] < e[b] /\ <<r[e[b]], r[e[a]]>> \notin SameText(D)
  BY <1>4, <1>5 DEF Sieved
<1>9. \A a, b \in 1..w : a < b => AtLeast(u[a], u[b])
  BY <1>5, <1>7, <1>8
<1>10. \A a, b \in 1..w : a < b => ~IsSameText(u[a].box, u[b].box) /\ ~IsSameText(u[b].box, u[a].box)
  <2> SUFFICES ASSUME NEW a \in 1..w, NEW b \in 1..w, a < b
               PROVE  ~IsSameText(u[a].box, u[b].box) /\ ~IsSameText(u[b].box, u[a].box)
    OBVIOUS
  <2>1. u[a] \in D /\ u[b] \in D /\ <<u[b], u[a]>> \notin SameText(D)
    BY <1>5, <1>8
  <2>2. ~IsSameText(u[b].box, u[a].box)
    BY <2>1 DEF SameText
  <2>3. u[a].box \in Int \X Int \X Int \X Int /\ u[b].box \in Int \X Int \X Int \X Int
    BY <2>1 DEF AreReadings
  <2> QED
    BY <2>2, <2>3, SameTextSymmetric
<1>11. NoTextTwice(u)
  <2>1. \A a, b \in 1..w : a # b => a < b \/ b < a
    OBVIOUS
  <2> QED
    BY <1>5, <1>10, <2>1 DEF NoTextTwice
<1>12. ASSUME NEW i \in 1..n
       PROVE  Represented(s[i], u)
  <2>1. PICK m \in 1..n : O[m] = i
    BY <1>6
  <2>2. r[m] = s[i]
    BY <1>3, <2>1
  <2>3. PICK k \in 1..w : e[k] = m \/ (e[k] < m /\ <<r[m], r[e[k]]>> \in SameText(D))
    BY <1>4, <1>5 DEF Sieved
  <2>4. CASE e[k] = m
    BY <1>5, <2>2, <2>4 DEF Represented
  <2>5. CASE e[k] < m /\ <<r[m], r[e[k]]>> \in SameText(D)
    <3>1. IsSameText(s[i].box, u[k].box)
      BY <1>5, <2>2, <2>5 DEF SameText
    <3>2. AtLeast(u[k], s[i])
      BY <1>5, <1>7, <2>2, <2>5
    <3> QED
      BY <1>5, <3>1, <3>2 DEF Represented
  <2> QED
    BY <2>3, <2>4, <2>5
<1>13. ASSUME NEW k \in 1..w
       PROVE  \E i \in 1..n : u[k] = s[i]
  <2>1. e[k] \in 1..n /\ u[k] = r[e[k]]
    BY <1>5
  <2>2. r[e[k]] = s[O[e[k]]] /\ O[e[k]] \in 1..n
    BY <1>3, <1>6, <2>1
  <2> QED
    BY <2>1, <2>2
<1> QED
  BY <1>1, <1>3, <1>5, <1>9, <1>11, <1>12, <1>13 DEF BestOf

\* What was read twice is kept once (_drop_duplicates of services/ocr.py), however many tiles
\* saw it and whatever the engine made of it: no two readings that are kept are the same text,
\* every reading that was dropped is the same text as a kept one that is longer, or as long
\* and at least as sure, nothing is made up, and dropping again, as read_page_text does after
\* the repair, drops nothing more.
THEOREM EveryTextKeptOnce ==
  ASSUME NEW D, AreReadings(D), NEW s \in Seq(D), NEW u, u = DropDuplicates(s)
  PROVE  /\ NoTextTwice(u)
         /\ \A i \in 1 .. Len(s) : Represented(s[i], u)
         /\ \A k \in 1 .. Len(u) : \E i \in 1 .. Len(s) : u[k] = s[i]
         /\ DropDuplicates(u) = u
<1>1. u \in Seq(D) /\ BestOf(u, s)
  BY BestKept
<1>2. PICK n \in Nat : n = Len(u) /\ u \in [1..n -> D] /\ \A i \in 1..n : u[i] \in D
  BY <1>1, ReadingKeys
<1>3. PICK O : /\ Sorts(O, n, Lengths(u), Doubts(u))
               /\ DropDuplicates(u) \in Seq(D)
               /\ \E e : Sieved(e, DropDuplicates(u), n, [m \in 1..n |-> u[O[m]]], {}, SameText(D))
  BY <1>1, <1>2, DuplicatesSieved
<1>4. Lengths(u) \in [1..n -> Int] /\ Doubts(u) \in [1..n -> Int]
  BY <1>1, <1>2, ReadingKeys
<1>5. \A a, b \in 1..n : a < b => Before(Lengths(u), Doubts(u), a, b)
  <2> SUFFICES ASSUME NEW a \in 1..n, NEW b \in 1..n, a < b
               PROVE  Before(Lengths(u), Doubts(u), a, b)
    OBVIOUS
  <2>1. AtLeast(u[a], u[b])
    BY <1>1, <1>2 DEF BestOf
  <2> QED
    BY <1>1, <1>2, <2>1, BeforeIsBetter
<1>6. \A a \in 1..n : O[a] = a
  <2>1. SortsSorted(O, n, Lengths(u), Doubts(u))
    BY <1>3, <1>4, <1>5 DEF SortsSorted
  <2> QED
    BY <2>1, SortedStays
<1>7. [m \in 1..n |-> u[O[m]]] = u
  BY <1>2, <1>6
<1>8. \A i, j \in 1 .. Len(u) : j < i => <<u[i], u[j]>> \notin SameText(D)
  <2>1. \A i, j \in 1 .. Len(u) : j < i => i # j
    BY <1>2
  <2> QED
    BY <1>1, <2>1 DEF BestOf, NoTextTwice, SameText
<1>9. PICK e : Sieved(e, DropDuplicates(u), Len(u), u, {}, SameText(D))
  BY <1>2, <1>3, <1>7
<1>10. DropDuplicates(u) = u
  <2>1. \A i \in 1 .. Len(u) : u[i] \notin {}
    OBVIOUS
  <2> QED
    BY <1>1, <1>3, <1>8, <1>9, <2>1, SieveKeepsAll, SMTT(30)
<1> QED
  BY <1>1, <1>10 DEF BestOf

-----------------------------------------------------------------------------
(* Candidates: means.                                                      *)

\* F adds up the numbers of v.
Adds(F, n, v) ==
  \A T \in SUBSET (1..n) : F[T] = IF T = {} THEN 0 ELSE F[T \ {Max(T)}] + v[Max(T)]

\* The recursive function by which a sum is defined exists.
LEMMA SumExists ==
  ASSUME NEW n \in Nat, NEW v \in [1..n -> Int]
  PROVE  \E F \in [SUBSET (1..n) -> Int] : Adds(F, n, v)
<1> DEFINE h == [i \in 1..n |-> [x \in Int |-> x + v[i]]]
<1>1. h \in [1..n -> [Int -> Int]]
  OBVIOUS
<1>2. \A i \in 1..n : \A x \in Int : h[i][x] = x + v[i]
  OBVIOUS
<1> HIDE DEF h
<1>3. PICK F \in [SUBSET (1..n) -> Int] : FoldsOf(F, n, 0, h)
  BY <1>1, 0 \in Int, Iterates
<1>4. ASSUME NEW T \in SUBSET (1..n)
      PROVE  F[T] = IF T = {} THEN 0 ELSE F[T \ {Max(T)}] + v[Max(T)]
  <2>1. T # {} => Max(T) \in 1..n /\ F[T \ {Max(T)}] \in Int
    BY MaxOfSome
  <2> QED
    BY <1>2, <1>3, <2>1 DEF FoldsOf
<1> QED
  BY <1>4 DEF Adds

\* The sum of the first of the numbers, one after another.
LEMMA SumStep ==
  ASSUME NEW n \in Nat, NEW v, NEW F, Adds(F, n, v)
  PROVE  /\ F[1..0] = 0
         /\ \A k \in 0 .. n-1 : F[1..k+1] = F[1..k] + v[k + 1]
<1>1. F[1..0] = 0
  BY 1..0 = {}, 1..0 \in SUBSET (1..n) DEF Adds
<1>2. ASSUME NEW k \in 0 .. n-1
      PROVE  F[1..k+1] = F[1..k] + v[k + 1]
  <2>1. k \in Nat
    OBVIOUS
  <2>2. Max(1..k+1) = k + 1 /\ (1..k+1) \ {k + 1} = 1..k /\ 1..k+1 # {}
    BY <2>1, MaxOfUpTo
  <2> QED
    BY <2>2, 1..k+1 \in SUBSET (1..n) DEF Adds
<1> QED
  BY <1>1, <1>2

\* A percentage is an integer.
LEMMA Percentages == \A x \in 0..100 : x \in Int
OBVIOUS

\* v has percentages, w c times as much, and F and G add them up.
InProportion(v, w, n, c, F, G) ==
  /\ v \in [1..n -> 0..100] /\ w \in [1..n -> Int]
  /\ \A i \in 1..n : w[i] = c * v[i]
  /\ Adds(F, n, v) /\ Adds(G, n, w)

\* A sum of percentages, and of c times as much.
LEMMA SumScaled ==
  ASSUME NEW n \in Nat, NEW c \in Nat, NEW v, NEW w, NEW F, NEW G, InProportion(v, w, n, c, F, G)
  PROVE  F[1..n] \in 0 .. 100 * n /\ G[1..n] = c * F[1..n]
<1> DEFINE S == {k \in Nat : F[1..k] \in 0 .. 100 * k /\ G[1..k] = c * F[1..k]}
<1>1. 0 \in S
  <2>1. F[1..0] = 0 /\ G[1..0] = 0
    BY SumStep DEF InProportion
  <2> QED
    BY <2>1
<1>2. ASSUME NEW k \in 0 .. n-1, k \in S
      PROVE  k + 1 \in S
  <2>1. F[1..k+1] = F[1..k] + v[k + 1] /\ G[1..k+1] = G[1..k] + w[k + 1]
    BY SumStep DEF InProportion
  <2>2. k \in Nat /\ k + 1 \in 1..n /\ v[k + 1] \in 0..100 /\ w[k + 1] = c * v[k + 1]
    BY DEF InProportion
  <2>3. F[1..k] \in 0 .. 100 * k /\ G[1..k] = c * F[1..k]
    BY <1>2
  <2>4. \A p, q \in Int : c * (p + q) = c * p + c * q
    OBVIOUS
  <2> HIDE DEF S
  <2>5. F[1..k] \in Int /\ v[k + 1] \in Int
    <3>1. \A x \in 0 .. 100 * k : x \in Int
      BY <2>2
    <3> QED
      BY <2>2, <2>3, <3>1, Percentages
  <2>6. G[1..k+1] = c * F[1..k+1]
    BY <2>1, <2>2, <2>3, <2>4, <2>5
  <2>7. F[1..k+1] \in 0 .. 100 * (k + 1)
    <3>1. \A p, q \in Int : p \in 0 .. 100 * k /\ q \in 0..100 => p + q \in 0 .. 100 * (k + 1)
      BY <2>2
    <3> QED
      BY <2>1, <2>2, <2>3, <2>5, <3>1
  <2> QED
    BY <2>2, <2>6, <2>7 DEF S
<1>3. 0 .. n \subseteq S
  <2>1. ASSUME NEW k \in 0 .. n-1, k \in S PROVE k + 1 \in S
    BY <1>2, <2>1
  <2> HIDE DEF S
  <2> QED
    BY <1>1, <2>1, UpTo
<1> QED
  BY <1>3

\* A mean of percentages is a score, and as many times itself at most their sum.
LEMMA MeanOf ==
  ASSUME NEW n \in Nat \ {0}, NEW v \in [1..n -> 0..100], NEW F, Adds(F, n, v)
  PROVE  /\ F[1..n] \in 0 .. 100 * n
         /\ Mean(v) \in 0..One
         /\ n * Mean(v) <= 60 * F[1..n]
<1>1. \A i \in 1..n : v[i] \in Int
  <2>1. \A i \in 1..n : v[i] \in 0..100
    OBVIOUS
  <2> QED
    BY <2>1, Percentages
<1> DEFINE w == [i \in 1..n |-> Percent(v[i])]
           iter == CHOOSE G : G = [T \in SUBSET (1..n) |->
                     IF T = {} THEN 0 ELSE G[T \ {Max(T)}] + Percent(v[Max(T)])]
<1>2. One \div 100 = 60 /\ One = 6000
  BY DEF One
<1>3. \A i \in 1..n : w[i] = 60 * v[i]
  BY <1>1, <1>2 DEF Percent
<1>4. w \in [1..n -> Int]
  <2>1. \A i \in 1..n : w[i] \in Int
    <3> HIDE DEF w
    <3> QED
      BY <1>1, <1>3
  <2> QED
    BY <2>1
<1>5. Len(v) = n /\ v # <<>> /\ DOMAIN v = 1..n
  <2>1. v \in Seq(0..100) /\ Len(v) = n
    OBVIOUS
  <2>2. DOMAIN v = 1..n /\ 1 \in 1..n
    OBVIOUS
  <2> QED
    BY <2>1, <2>2
<1>6. Mean(v) = iter[1..n] \div n
  BY <1>5 DEF Mean, FoldLeft, MapThenFoldSet
<1>7. PICK G \in [SUBSET (1..n) -> Int] : Adds(G, n, w)
  BY <1>4, SumExists
<1>8. G = [T \in SUBSET (1..n) |-> IF T = {} THEN 0 ELSE G[T \ {Max(T)}] + Percent(v[Max(T)])]
  <2>1. \A T \in SUBSET (1..n) : T # {} => Max(T) \in 1..n
    BY MaxOfSome
  <2>2. \A T \in SUBSET (1..n) : T # {} => w[Max(T)] = Percent(v[Max(T)])
    BY <2>1
  <2> HIDE DEF w
  <2>3. \A T \in SUBSET (1..n) : G[T] = IF T = {} THEN 0 ELSE G[T \ {Max(T)}] + Percent(v[Max(T)])
    BY <1>7, <2>2 DEF Adds
  <2> QED
    BY <2>3
<1>9. iter = [T \in SUBSET (1..n) |-> IF T = {} THEN 0 ELSE iter[T \ {Max(T)}] + Percent(v[Max(T)])]
  BY <1>8
<1> HIDE DEF iter
<1>10. Adds(iter, n, w)
  <2>1. \A T \in SUBSET (1..n) : T # {} => Max(T) \in 1..n
    BY MaxOfSome
  <2>2. \A T \in SUBSET (1..n) : T # {} => w[Max(T)] = Percent(v[Max(T)])
    BY <2>1
  <2> HIDE DEF w
  <2> QED
    BY <1>9, <2>2 DEF Adds
<1> HIDE DEF w
<1>11. F[1..n] \in 0 .. 100 * n /\ iter[1..n] = 60 * F[1..n]
  <2>1. n \in Nat /\ 60 \in Nat
    OBVIOUS
  <2>2. InProportion(v, w, n, 60, F, iter)
    BY <1>3, <1>4, <1>10 DEF InProportion
  <2> QED
    BY <2>1, <2>2, SumScaled
<1>12. PICK f \in Int : f = F[1..n]
  BY <1>11
<1>13. 60 * f \in Int /\ n \in Nat \ {0}
  OBVIOUS
<1>14. PICK m \in Int : m = Mean(v) /\ m = (60 * f) \div n
  BY <1>6, <1>11, <1>12, <1>13, DivMod
<1>15. PICK r \in 0 .. n-1 : 60 * f = m * n + r
  <2>1. PICK r \in 0 .. n-1 : r = (60 * f) % n
    BY <1>13, DivMod
  <2>2. 60 * f = ((60 * f) \div n) * n + ((60 * f) % n)
    BY <1>13, DivMod
  <2> QED
    BY <1>14, <2>1, <2>2
<1>16. f \in 0 .. 100 * n
  BY <1>11, <1>12
<1>17. m >= 0 /\ m <= 6000
  <2>1. \A k \in Int : k < 0 => k * n <= -n
    OBVIOUS
  <2>2. \A k \in Int : k > 6000 => k * n >= 6001 * n
    OBVIOUS
  <2>3. m * n <= 6000 * n /\ m * n > -n
    BY <1>15, <1>16, SMTT(30)
  <2> QED
    BY <2>1, <2>2, <2>3
<1>18. m \in 0..6000
  BY <1>17
<1>19. n * m <= 60 * f
  <2>1. m * n <= 60 * f /\ n * m = m * n
    BY <1>15
  <2> QED
    BY <2>1
<1> QED
  <2>1. Mean(v) \in 0..One
    BY <1>2, <1>14, <1>18
  <2>2. n * Mean(v) <= 60 * F[1..n]
    BY <1>14, <1>12, <1>19
  <2> QED
    BY <1>11, <2>1, <2>2, SMTT(30)

\* The sums that the evidence of a candidate is measured by.
TotalConfidence(finds) == FoldLeft(LAMBDA s, f : s + f.confidence, 0, finds)
TotalOutline(finds) == FoldLeft(LAMBDA s, f : s + OutlineComponent(f), 0, finds)
Sureness(finds) == [i \in DOMAIN finds |-> finds[i].confidence]
Outlines(finds) == [i \in DOMAIN finds |-> OutlineComponent(finds[i])]

\* The finds and the lines of a page.
PageFinds == [id : Nat, panel : Nat, label : STRING, confidence : 0..100, status : STRING,
              score : 0..100]
PageLines == [codes : Seq(STRING), sizes : Seq([1..3 -> FieldNames]), series : Seq(STRING),
              rest : STRING, confidence : 0..100]

\* The two totals of a page: what its finds are sure of, and what their outlines are worth.
LEMMA TotalsOf ==
  ASSUME NEW finds \in Seq(PageFinds), finds # <<>>
  PROVE  \E n \in Nat \ {0} : \E F, G :
           /\ n = Len(finds) /\ Sureness(finds) \in [1..n -> 0..100] /\ Outlines(finds) \in [1..n -> 0..100]
           /\ Adds(F, n, Sureness(finds)) /\ F[1..n] = TotalConfidence(finds)
           /\ Adds(G, n, Outlines(finds)) /\ G[1..n] = TotalOutline(finds)
<1>1. PICK n \in Nat \ {0} : n = Len(finds) /\ DOMAIN finds = 1..n /\ \A i \in 1..n : finds[i] \in PageFinds
  <2>1. Len(finds) # 0
    BY EmptySeq
  <2> QED
    BY <2>1, LenProperties
<1>2. \A i \in 1..n : finds[i].confidence \in 0..100 /\ OutlineComponent(finds[i]) \in 0..100
  BY <1>1 DEF PageFinds, OutlineComponent
<1>3. PICK u, v \in [1..n -> 0..100] : u = Sureness(finds) /\ v = Outlines(finds)
  BY <1>1, <1>2 DEF Sureness, Outlines
<1>4. (\A i \in 1..n : u[i] = finds[i].confidence) /\ (\A i \in 1..n : v[i] = OutlineComponent(finds[i]))
  BY <1>1, <1>3 DEF Sureness, Outlines
<1>5. u \in [1..n -> Int] /\ v \in [1..n -> Int]
  BY Percentages
<1>6. PICK A \in [SUBSET (1..n) -> Int], B \in [SUBSET (1..n) -> Int] : Adds(A, n, u) /\ Adds(B, n, v)
  BY <1>5, SumExists
<1> DEFINE F == CHOOSE I : I = [T \in SUBSET (1..n) |->
                  IF T = {} THEN 0 ELSE I[T \ {Max(T)}] + finds[Max(T)].confidence]
           G == CHOOSE I : I = [T \in SUBSET (1..n) |->
                  IF T = {} THEN 0 ELSE I[T \ {Max(T)}] + OutlineComponent(finds[Max(T)])]
<1>7. F[1..n] = TotalConfidence(finds)
  BY <1>1 DEF TotalConfidence, FoldLeft, MapThenFoldSet
<1>8. G[1..n] = TotalOutline(finds)
  BY <1>1 DEF TotalOutline, FoldLeft, MapThenFoldSet
<1>9. \A T \in SUBSET (1..n) : T # {} => Max(T) \in 1..n
  BY MaxOfSome
<1>10. A = [T \in SUBSET (1..n) |-> IF T = {} THEN 0 ELSE A[T \ {Max(T)}] + finds[Max(T)].confidence]
  BY <1>4, <1>6, <1>9 DEF Adds
<1>11. B = [T \in SUBSET (1..n) |-> IF T = {} THEN 0 ELSE B[T \ {Max(T)}] + OutlineComponent(finds[Max(T)])]
  BY <1>4, <1>6, <1>9 DEF Adds
<1>12. F = [T \in SUBSET (1..n) |-> IF T = {} THEN 0 ELSE F[T \ {Max(T)}] + finds[Max(T)].confidence]
  BY <1>10
<1>13. G = [T \in SUBSET (1..n) |-> IF T = {} THEN 0 ELSE G[T \ {Max(T)}] + OutlineComponent(finds[Max(T)])]
  BY <1>11
<1> HIDE DEF F, G
<1>14. Adds(F, n, u)
  BY <1>4, <1>9, <1>12 DEF Adds
<1>15. Adds(G, n, v)
  BY <1>4, <1>9, <1>13 DEF Adds
<1> QED
  BY <1>1, <1>3, <1>7, <1>8, <1>14, <1>15

-----------------------------------------------------------------------------
(* Candidates: the other ingredients of the score.                         *)

\* What may be missing is a list of at most one.
LEMMA AtMostOne ==
  ASSUME NEW facts, NEW lines, NEW size, NEW series
  PROVE  /\ First(facts) = None <=> facts = <<>>
         /\ First(facts) # None => First(facts) = <<facts[1]>>
         /\ Len(First(facts)) \in 0..1 /\ (facts = <<>> => Len(First(facts)) = 0)
         /\ Len(PickName(lines, size, series)) \in 0..1
<1>1. Len(<<>>) = 0 /\ \A x : Len(<<x>>) = 1 /\ <<x>> # <<>>
  OBVIOUS
<1>2. /\ First(facts) = None <=> facts = <<>>
      /\ First(facts) # None => First(facts) = <<facts[1]>>
  BY <1>1 DEF First, None
<1>3. Len(First(facts)) \in 0..1 /\ (facts = <<>> => Len(First(facts)) = 0)
  BY <1>1 DEF First, None
<1>4. Len(PickName(lines, size, series)) \in 0..1
  <2>1. \/ PickName(lines, size, series) = <<>>
        \/ \E x : PickName(lines, size, series) = <<x>>
    BY DEF PickName, None
  <2> QED
    BY <1>1, <2>1
<1> QED
  BY <1>2, <1>3, <1>4

\* One ingredient of how sure the engine was of the lines.
Share(weight, c) == (weight * c * One) \div 10000

Weighed(c) == Share(40, c) \in 0..2400 /\ Share(20, c) \in 0..1200
IsShare(c) == c \in 0..100

LEMMA WeighedPart ==
  ASSUME NEW c, IsShare(c)
  PROVE  Weighed(c)
<1>1. One = 6000 /\ c \in Int /\ c >= 0 /\ c <= 100
  BY Percentages DEF One, IsShare
<1>2. \A m \in Int : m >= 0 /\ m <= 24000000 => m \div 10000 >= 0 /\ m \div 10000 <= 2400
  OBVIOUS
<1>3. \A m \in Int : m >= 0 /\ m <= 12000000 => m \div 10000 >= 0 /\ m \div 10000 <= 1200
  OBVIOUS
<1>4. \A m \in Int : m \div 10000 \in Int
  OBVIOUS
<1>5. 40 * c * One \in Int /\ 40 * c * One >= 0 /\ 40 * c * One <= 24000000
  BY <1>1
<1>6. 20 * c * One \in Int /\ 20 * c * One >= 0 /\ 20 * c * One <= 12000000
  BY <1>1
<1>7. Share(40, c) \in 0..2400
  BY <1>2, <1>4, <1>5, SMTT(30) DEF Share
<1>8. Share(20, c) \in 0..1200
  BY <1>3, <1>4, <1>6 DEF Share
<1> QED
  BY <1>7, <1>8 DEF Weighed

\* The engine's sureness of every line is a percentage.
Legible(lines) == \A n \in DOMAIN lines : IsShare(lines[n].confidence)

\* The lines of a page are legible.
LEMMA PagesAreLegible ==
  ASSUME NEW lines \in Seq(PageLines)
  PROVE  Legible(lines)
<1>1. \A n \in DOMAIN lines : lines[n] \in PageLines
  BY ElementOfSeq, LenProperties
<1>2. \A l \in PageLines : l.confidence \in 0..100
  BY DEF PageLines
<1> QED
  BY <1>1, <1>2 DEF Legible, IsShare

\* Without a code or a size the lines are worth at most 60 percent.
LEMMA ThreeParts ==
  \A a, b, c \in Int :
    a >= 0 /\ a <= 2400 /\ b >= 0 /\ b <= 2400 /\ c >= 0 /\ c <= 1200 =>
      /\ a + b + c \in Int /\ a + b + c >= 0 /\ a + b + c <= 6000
      /\ a = 0 \/ b = 0 => a + b + c <= 3600
OBVIOUS

\* How surely the page was read is a score, and low without a code or a size.
LEMMA OcrBounds ==
  ASSUME NEW lines, Legible(lines), NEW name, NEW nameLine, NEW code, NEW size
  PROVE  /\ OcrConfidence(lines, name, nameLine, code, size) \in 0..One
         /\ code = None \/ size = None => OcrConfidence(lines, name, nameLine, code, size) <= 3600
<1> DEFINE conf(n) == IF n \in DOMAIN lines THEN lines[n].confidence ELSE 100
           part(there, weight, n) == IF there = None THEN 0 ELSE Share(weight, conf(n))
           lineOf(fact) == IF fact = None THEN 0 ELSE fact[1].line
<1>1. \A n : IsShare(conf(n))
  <2>1. IsShare(100)
    BY DEF IsShare
  <2> QED
    BY <2>1 DEF Legible
<1>2. OcrConfidence(lines, name, nameLine, code, size) =
        part(code, 40, lineOf(code)) + part(size, 40, lineOf(size)) + part(name, 20, nameLine)
  BY DEF OcrConfidence, Share
<1> HIDE DEF conf
<1>3. ASSUME NEW there, NEW n
      PROVE  /\ part(there, 40, n) \in 0..2400 /\ part(there, 20, n) \in 0..1200
             /\ there = None => part(there, 40, n) = 0
  <2>1. PICK k : k = conf(n)
    OBVIOUS
  <2>2. Weighed(k)
    BY <1>1, <2>1, WeighedPart
  <2>3. 0 \in 0..2400 /\ 0 \in 0..1200
    OBVIOUS
  <2> QED
    BY <2>1, <2>2, <2>3 DEF Weighed
<1> HIDE DEF part
<1>4. PICK x, y, z : x = lineOf(code) /\ y = lineOf(size) /\ z = nameLine
  OBVIOUS
<1> HIDE DEF lineOf
<1>5. PICK a \in 0..2400 : a = part(code, 40, x) /\ (code = None => a = 0)
  BY <1>3, SMTT(30)
<1>6. PICK b \in 0..2400 : b = part(size, 40, y) /\ (size = None => b = 0)
  BY <1>3
<1>7. PICK c \in 0..1200 : c = part(name, 20, z)
  BY <1>3
<1>8. /\ \A v \in 0..2400 : v \in Int /\ v >= 0 /\ v <= 2400
      /\ \A v \in 0..1200 : v \in Int /\ v >= 0 /\ v <= 1200
  OBVIOUS
<1>9. /\ a \in Int /\ a >= 0 /\ a <= 2400 /\ b \in Int /\ b >= 0 /\ b <= 2400
      /\ c \in Int /\ c >= 0 /\ c <= 1200
  BY <1>8
<1>10. /\ a + b + c \in Int /\ a + b + c >= 0 /\ a + b + c <= 6000
       /\ a = 0 \/ b = 0 => a + b + c <= 3600
  BY <1>9, ThreeParts
<1>11. OcrConfidence(lines, name, nameLine, code, size) = a + b + c
  BY <1>2, <1>4, <1>5, <1>6, <1>7, SMTT(30)
<1>12. PICK s \in 0..6000 : s = a + b + c /\ (a = 0 \/ b = 0 => s <= 3600)
  BY <1>10
<1> QED
  BY <1>5, <1>6, <1>11, <1>12 DEF One

\* How surely text and picture belong together, the same way.
LEMMA AssociationBounds ==
  ASSUME NEW signals
  PROVE  /\ AssociationConfidence(signals) \in 0..One
         /\ signals.codes = <<>> \/ signals.sizes = <<>> => AssociationConfidence(signals) <= 3600
<1>1. One = 6000 /\ Percent(60) = 3600 /\ Percent(30) = 1800
  BY DEF One, Percent
<1>2. 6000 \div 2 = 3000 /\ 3600 \div 2 = 1800 /\ 1800 \div 2 = 900
  OBVIOUS
<1> DEFINE both == signals.codes # <<>> /\ signals.sizes # <<>>
           either == signals.codes # <<>> \/ signals.sizes # <<>>
           base == IF both THEN 6000 ELSE IF either THEN 3600 ELSE 1800
           several == Len(signals.codes) > 1 \/ Len(signals.sizes) > 1
<1>3. AssociationConfidence(signals) = IF several THEN base \div 2 ELSE base
  BY <1>1 DEF AssociationConfidence
<1> HIDE DEF several
<1>4. AssociationConfidence(signals) \in {6000, 3600, 3000, 1800, 900}
  BY <1>2, <1>3
<1>5. ~both => AssociationConfidence(signals) \in {3600, 1800, 900}
  BY <1>2, <1>3, SMTT(30)
<1> QED
  BY <1>1, <1>4, <1>5

\* How complete the facts are, the same way.
LEMMA MetadataBounds ==
  ASSUME NEW name, NEW code, NEW size,
         Len(name) \in 0..1, Len(code) \in 0..1, Len(size) \in 0..1
  PROVE  /\ MetadataConfidence(name, code, size) \in 0..One
         /\ Len(code) = 0 \/ Len(size) = 0 => MetadataConfidence(name, code, size) <= 4000
<1>1. One = 6000 /\ One \div 3 = 2000
  BY DEF One
<1>2. PICK a, b, c \in {0, 1} : a = Len(name) /\ b = Len(code) /\ c = Len(size)
  <2>1. \A x \in 0..1 : x \in {0, 1}
    OBVIOUS
  <2> QED
    BY <2>1
<1>3. MetadataConfidence(name, code, size) = (a + b + c) * 2000
  BY <1>1, <1>2 DEF MetadataConfidence
<1>4. (a + b + c) * 2000 \in 0..6000 /\ (b = 0 \/ c = 0 => (a + b + c) * 2000 <= 4000)
  OBVIOUS
<1> QED
  BY <1>1, <1>2, <1>3, <1>4

-----------------------------------------------------------------------------
(* Candidates: the draft.                                                  *)

\* The five scores a draft is weighed from.
Ingredients == [det : 0..One, seg : 0..One, ocr : 0..One, assoc : 0..One, meta : 0..One]

\* What a draft of a page consists of.
Drafted(draft, signals, finds, i) ==
  /\ i.det = Mean(Sureness(finds)) /\ i.seg = Mean(Outlines(finds))
  /\ draft.overall = OverallConfidence(i.det, i.seg, i.ocr, i.assoc, i.meta)
  /\ signals.codes = <<>> \/ signals.sizes = <<>> =>
       i.ocr <= 3600 /\ i.assoc <= 3600 /\ i.meta <= 4000
  /\ draft.status = IF draft.overall >= AutoReview * One THEN "READY" ELSE "NEEDS_REVIEW"
  /\ draft.flags = Flags(signals, finds, draft.overall)
  /\ draft.size = IF signals.sizes = <<>> THEN {}
                  ELSE ToSet(signals.sizes[1].value) \cap {"width", "depth", "height"}

\* A page's draft is made of scores in this way.
LEMMA DraftOf ==
  ASSUME NEW finds \in Seq(PageFinds), NEW lines \in Seq(PageLines), finds # <<>>
  PROVE  \E i \in Ingredients :
           Drafted(BuildPageCandidate(finds, lines)[1], ExtractSignals(lines), finds, i)
<1> DEFINE signals == ExtractSignals(lines)
           code == First(signals.codes)
           size == First(signals.sizes)
           series == First(signals.series)
           name == PickName(lines, size, series)
           nameLine == IF size # None THEN size[1].line ELSE IF series # None THEN series[1].line ELSE 0
           det == Mean(Sureness(finds))
           seg == Mean(Outlines(finds))
           ocr == OcrConfidence(lines, name, nameLine, code, size)
           assoc == AssociationConfidence(signals)
           meta == MetadataConfidence(name, code, size)
           overall == OverallConfidence(det, seg, ocr, assoc, meta)
           draft == BuildPageCandidate(finds, lines)[1]
<1>1. /\ draft.overall = overall
      /\ draft.status = IF overall >= AutoReview * One THEN "READY" ELSE "NEEDS_REVIEW"
      /\ draft.flags = Flags(signals, finds, overall)
      /\ draft.size = IF size = None THEN {} ELSE ToSet(size[1].value) \cap {"width", "depth", "height"}
  BY DEF BuildPageCandidate, Sureness, Outlines
<1> HIDE DEF draft, signals
<1>2. det \in 0..One /\ seg \in 0..One
  <2>1. PICK n \in Nat \ {0} : \E F, G :
           /\ Sureness(finds) \in [1..n -> 0..100] /\ Outlines(finds) \in [1..n -> 0..100]
           /\ Adds(F, n, Sureness(finds)) /\ Adds(G, n, Outlines(finds))
    BY TotalsOf
  <2>2. PICK F, G :
           /\ Sureness(finds) \in [1..n -> 0..100] /\ Outlines(finds) \in [1..n -> 0..100]
           /\ Adds(F, n, Sureness(finds)) /\ Adds(G, n, Outlines(finds))
    BY <2>1
  <2> QED
    BY <2>2, MeanOf
<1>3. /\ code = None <=> signals.codes = <<>>
      /\ size = None <=> signals.sizes = <<>>
      /\ size # None => size = <<signals.sizes[1]>>
      /\ Len(name) \in 0..1 /\ Len(code) \in 0..1 /\ Len(size) \in 0..1
      /\ signals.codes = <<>> => Len(code) = 0
      /\ signals.sizes = <<>> => Len(size) = 0
  BY AtMostOne
<1>4. size # None => size[1] = signals.sizes[1]
  BY <1>3
<1> HIDE DEF code, size, name, nameLine
<1>5. ocr \in 0..One /\ (code = None \/ size = None => ocr <= 3600)
  BY OcrBounds, PagesAreLegible
<1>6. assoc \in 0..One /\ (signals.codes = <<>> \/ signals.sizes = <<>> => assoc <= 3600)
  BY AssociationBounds
<1>7. meta \in 0..One /\ (Len(code) = 0 \/ Len(size) = 0 => meta <= 4000)
  BY <1>3, MetadataBounds
<1> HIDE DEF det, seg, ocr, assoc, meta
<1>8. PICK i \in Ingredients :
        i.det = det /\ i.seg = seg /\ i.ocr = ocr /\ i.assoc = assoc /\ i.meta = meta
  <2>1. [det |-> det, seg |-> seg, ocr |-> ocr, assoc |-> assoc, meta |-> meta] \in Ingredients
    BY <1>2, <1>5, <1>6, <1>7 DEF Ingredients
  <2> QED
    BY <2>1
<1>9. draft.size = IF signals.sizes = <<>> THEN {}
                   ELSE ToSet(signals.sizes[1].value) \cap {"width", "depth", "height"}
  BY <1>1, <1>3, <1>4
<1>10. Drafted(draft, signals, finds, i)
  BY <1>1, <1>3, <1>5, <1>6, <1>7, <1>8, <1>9 DEF Drafted, det, seg
<1> QED
  BY <1>10, SMTT(30) DEF draft, signals

\* The flags that say a fact is missing, or that the score is low.
LEMMA FlagsSay ==
  ASSUME NEW signals, NEW finds, NEW overall
  PROVE  /\ "NO_MODEL_CODE" \in Flags(signals, finds, overall) <=> signals.codes = <<>>
         /\ "NO_DIMENSIONS" \in Flags(signals, finds, overall) <=> signals.sizes = <<>>
         /\ "LOW_CONFIDENCE" \in Flags(signals, finds, overall) <=> overall < LowConfidence * One
BY DEF Flags

-----------------------------------------------------------------------------
(* Candidates: sizes.                                                      *)

\* What a printed size says of its three numbers.
SizeLetters == [1..3 -> FieldNames]

\* The first size of a page is one that a line prints.
LEMMA SizePrinted ==
  ASSUME NEW lines \in Seq(PageLines), ExtractSignals(lines).sizes # <<>>
  PROVE  \E l \in SizeLetters : ExtractSignals(lines).sizes[1].value = DimensionFields(l)
<1> DEFINE S == [value : {DimensionFields(l) : l \in SizeLetters}, line : Nat]
           of(l) == [k \in DOMAIN l.sizes |-> DimensionFields(l.sizes[k])]
           item(n) == [k \in DOMAIN of(lines[n]) |-> [value |-> of(lines[n])[k], line |-> n]]
           s == [n \in DOMAIN lines |-> item(n)]
<1>1. PICK m \in Nat : DOMAIN lines = 1..m /\ \A n \in 1..m : lines[n] \in PageLines
  BY LenProperties
<1>2. ASSUME NEW n \in 1..m
      PROVE  item(n) \in Seq(S)
  <2>1. lines[n].sizes \in Seq(SizeLetters)
    BY <1>1 DEF PageLines, SizeLetters
  <2>2. PICK q \in Nat : DOMAIN lines[n].sizes = 1..q /\ \A k \in 1..q : lines[n].sizes[k] \in SizeLetters
    BY <2>1, LenProperties
  <2>3. item(n) = [k \in 1..q |-> [value |-> DimensionFields(lines[n].sizes[k]), line |-> n]]
    BY <2>2
  <2>4. \A k \in 1..q : [value |-> DimensionFields(lines[n].sizes[k]), line |-> n] \in S
    BY <2>2
  <2> HIDE DEF S, item
  <2>5. item(n) \in [1..q -> S]
    BY <2>3, <2>4
  <2> QED
    BY <2>5
<1>3. s \in Seq(Seq(S))
  <2>1. s \in [1..m -> Seq(S)]
    <3>1. s = [n \in 1..m |-> item(n)]
      BY <1>1
    <3> HIDE DEF s, S, item
    <3> QED
      BY <1>2, <3>1
  <2> HIDE DEF s, S
  <2> QED
    BY <2>1
<1>4. ExtractSignals(lines).sizes = FlattenSeq(s)
  BY DEF ExtractSignals
<1> HIDE DEF s
<1>5. FlattenSeq(s) \in Seq(S)
  <2> HIDE DEF S
  <2> QED
    BY <1>3, Flattened
<1>6. FlattenSeq(s)[1] \in S
  <2> HIDE DEF S
  <2>1. Len(FlattenSeq(s)) # 0
    BY <1>4, <1>5, EmptySeq
  <2>2. 1 \in 1 .. Len(FlattenSeq(s))
    BY <1>5, <2>1, LenProperties
  <2> QED
    BY <1>5, <2>2, LenProperties
<1> QED
  BY <1>4, <1>6

\* How many of the first three numbers are in a set.
FirstIn(U, i) == Cardinality({j \in 1..i : j \in U})

\* How many of the first numbers are in a set, number by number.
LEMMA Places ==
  ASSUME NEW U
  PROVE  /\ FirstIn(U, 1) = IF 1 \in U THEN 1 ELSE 0
         /\ FirstIn(U, 2) = FirstIn(U, 1) + IF 2 \in U THEN 1 ELSE 0
         /\ FirstIn(U, 3) = FirstIn(U, 2) + IF 3 \in U THEN 1 ELSE 0
         /\ FirstIn(U, 1) \in Nat /\ FirstIn(U, 2) \in Nat
<1> DEFINE A == {j \in 1..1 : j \in U}
           B == {j \in 1..2 : j \in U}
           C == {j \in 1..3 : j \in U}
<1>1. /\ A = IF 1 \in U THEN {} \cup {1} ELSE {}
      /\ B = IF 2 \in U THEN A \cup {2} ELSE A
      /\ C = IF 3 \in U THEN B \cup {3} ELSE B
      /\ 2 \notin A /\ 3 \notin B
  OBVIOUS
<1>2. FirstIn(U, 1) = Cardinality(A) /\ FirstIn(U, 2) = Cardinality(B) /\ FirstIn(U, 3) = Cardinality(C)
  BY DEF FirstIn
<1> HIDE DEF A, B, C
<1>3. IsFiniteSet({}) /\ Cardinality({}) = 0
  BY FS_EmptySet
<1>4. IsFiniteSet({} \cup {1}) /\ Cardinality({} \cup {1}) = 0 + 1
  BY <1>3, FS_AddElement
<1>5. IsFiniteSet(A) /\ Cardinality(A) = IF 1 \in U THEN 1 ELSE 0
  BY <1>1, <1>3, <1>4
<1>6. IsFiniteSet(A \cup {2}) /\ Cardinality(A \cup {2}) = Cardinality(A) + 1
  BY <1>1, <1>5, FS_AddElement
<1>7. IsFiniteSet(B) /\ Cardinality(B) = Cardinality(A) + IF 2 \in U THEN 1 ELSE 0
  BY <1>1, <1>5, <1>6
<1>8. Cardinality(B \cup {3}) = Cardinality(B) + 1
  BY <1>1, <1>7, FS_AddElement
<1>9. Cardinality(A) \in Nat /\ Cardinality(B) \in Nat
  BY <1>5, <1>7, FS_CardinalityType
<1>10. Cardinality(C) = Cardinality(B) + IF 3 \in U THEN 1 ELSE 0
  BY <1>1, <1>8, <1>9
<1> QED
  BY <1>2, <1>5, <1>7, <1>9, <1>10

\* The usual fields that are not taken, in their order.
Untaken(taken) ==
  LET add(free, f) == IF f \in taken THEN free ELSE Append(free, f)
  IN FoldLeft(add, <<>>, <<"width", "depth", "height">>)

\* Lists of up to three items, built item by item.
LEMMA Appends ==
  ASSUME NEW x, NEW y, NEW z
  PROVE  /\ Append(<<>>, x) = <<x>> /\ Append(<<x>>, y) = <<x, y>>
         /\ Append(<<x, y>>, z) = <<x, y, z>>
<1>1. Append(<<>>, x) = <<x>>
  OBVIOUS
<1> DEFINE S == {x, y, z}
<1>2. Append(<<x>>, y) = <<x, y>>
  <2>1. <<x>> \in Seq(S) /\ y \in S /\ Len(<<x>>) = 1 /\ <<x, y>> \in Seq(S) /\ Len(<<x, y>>) = 2
    OBVIOUS
  <2>2. /\ Append(<<x>>, y) \in Seq(S) /\ Len(Append(<<x>>, y)) = 2
        /\ Append(<<x>>, y)[1] = x /\ Append(<<x>>, y)[2] = y
    BY <2>1, AppendProperties
  <2>3. \A i \in 1..2 : Append(<<x>>, y)[i] = <<x, y>>[i]
    <3>1. \A i \in 1..2 : i = 1 \/ i = 2
      OBVIOUS
    <3>2. <<x, y>>[1] = x /\ <<x, y>>[2] = y
      OBVIOUS
    <3> QED
      BY <2>2, <3>1, <3>2
  <2> QED
    BY <2>1, <2>2, <2>3, SeqEqual
<1>3. Append(<<x, y>>, z) = <<x, y, z>>
  <2>1. <<x, y>> \in Seq(S) /\ z \in S /\ Len(<<x, y>>) = 2 /\ <<x, y, z>> \in Seq(S)
        /\ Len(<<x, y, z>>) = 3
    OBVIOUS
  <2>2. /\ Append(<<x, y>>, z) \in Seq(S) /\ Len(Append(<<x, y>>, z)) = 3
        /\ Append(<<x, y>>, z)[1] = x /\ Append(<<x, y>>, z)[2] = y /\ Append(<<x, y>>, z)[3] = z
    BY <2>1, AppendProperties
  <2>3. \A i \in 1..3 : Append(<<x, y>>, z)[i] = <<x, y, z>>[i]
    <3>1. \A i \in 1..3 : i = 1 \/ i = 2 \/ i = 3
      OBVIOUS
    <3>2. <<x, y, z>>[1] = x /\ <<x, y, z>>[2] = y /\ <<x, y, z>>[3] = z
      OBVIOUS
    <3> QED
      BY <2>2, <3>1, <3>2
  <2> QED
    BY <2>1, <2>2, <2>3, SeqEqual
<1> QED
  BY <1>1, <1>2, <1>3

\* The fields that no letter names, in their order.
LEMMA UntakenAre ==
  ASSUME NEW taken
  PROVE  LET w == "width" \in taken
             d == "depth" \in taken
             h == "height" \in taken
             x == Untaken(taken)
         IN /\ ~w => x[1] = "width"
            /\ w /\ ~d => x[1] = "depth"
            /\ w /\ d /\ ~h => x[1] = "height"
            /\ ~w /\ ~d => x[2] = "depth"
            /\ ~w /\ d /\ ~h => x[2] = "height"
            /\ w /\ ~d /\ ~h => x[2] = "height"
            /\ ~w /\ ~d /\ ~h => x[3] = "height"
<1> DEFINE t == <<"width", "depth", "height">>
           N == {"width", "depth", "height"}
           V == Seq(N)
           step(i, x) == IF t[i] \in taken THEN x ELSE Append(x, t[i])
           h == [i \in 1..3 |-> [x \in V |-> step(i, x)]]
           iter == CHOOSE I : I = [T \in SUBSET (1..3) |->
                     IF T = {} THEN <<>> ELSE step(Max(T), I[T \ {Max(T)}])]
<1>1. DOMAIN t = 1..3 /\ t[1] = "width" /\ t[2] = "depth" /\ t[3] = "height"
  OBVIOUS
<1>2. Untaken(taken) = iter[1..3]
  BY <1>1 DEF Untaken, FoldLeft, MapThenFoldSet
<1>3. \A i \in 1..3 : \A x \in V : step(i, x) \in V
  <2>1. \A i \in 1..3 : t[i] \in N
    OBVIOUS
  <2> HIDE DEF t, N
  <2> QED
    BY <2>1, AppendProperties
<1> HIDE DEF t, step
<1>4. h \in [1..3 -> [V -> V]] /\ <<>> \in V
  BY <1>3
<1>5. PICK F \in [SUBSET (1..3) -> V] : FoldsOf(F, 3, <<>>, h)
  <2> HIDE DEF h, V
  <2> QED
    BY <1>4, 3 \in Nat, Iterates
<1>6. \A T \in SUBSET (1..3) : T # {} => Max(T) \in 1..3
  BY 3 \in Nat, MaxOfSome
<1>7. F = [T \in SUBSET (1..3) |-> IF T = {} THEN <<>> ELSE step(Max(T), F[T \ {Max(T)}])]
  <2>1. \A i \in 1..3 : \A x \in V : h[i][x] = step(i, x)
    OBVIOUS
  <2> HIDE DEF h, V
  <2>2. \A T \in SUBSET (1..3) : F[T] = IF T = {} THEN <<>> ELSE step(Max(T), F[T \ {Max(T)}])
    <3> TAKE T \in SUBSET (1..3)
    <3>1. F[T \ {Max(T)}] \in V
      OBVIOUS
    <3> QED
      BY <1>5, <1>6, <2>1, <3>1 DEF FoldsOf
  <2> QED
    BY <2>2
<1>8. iter = [T \in SUBSET (1..3) |-> IF T = {} THEN <<>> ELSE step(Max(T), iter[T \ {Max(T)}])]
  BY <1>7
<1> HIDE DEF iter, h, V
<1>9. /\ Max(1..1) = 1 /\ (1..1) \ {1} = {} /\ 1..1 # {} /\ 1..1 \in SUBSET (1..3)
      /\ Max(1..2) = 2 /\ (1..2) \ {2} = 1..1 /\ 1..2 # {} /\ 1..2 \in SUBSET (1..3)
      /\ Max(1..3) = 3 /\ (1..3) \ {3} = 1..2 /\ 1..3 # {}
  <2>1. 0 \in Nat /\ 1 \in Nat /\ 2 \in Nat /\ 0 + 1 = 1 /\ 1 + 1 = 2 /\ 2 + 1 = 3 /\ 1..0 = {}
    OBVIOUS
  <2>2. Max(1..0+1) = 0 + 1 /\ (1..0+1) \ {0 + 1} = 1..0 /\ 1..0+1 # {}
    BY <2>1, MaxOfUpTo
  <2>3. Max(1..1+1) = 1 + 1 /\ (1..1+1) \ {1 + 1} = 1..1 /\ 1..1+1 # {}
    BY <2>1, MaxOfUpTo
  <2>4. Max(1..2+1) = 2 + 1 /\ (1..2+1) \ {2 + 1} = 1..2 /\ 1..2+1 # {}
    BY <2>1, MaxOfUpTo
  <2>5. 1..1 \in SUBSET (1..3) /\ 1..2 \in SUBSET (1..3)
    OBVIOUS
  <2> QED
    BY <2>1, <2>2, <2>3, <2>4, <2>5
<1>10. iter[{}] = <<>>
  BY <1>8
<1>11. iter[1..1] = step(1, <<>>)
  <2>1. iter[1..1] = IF 1..1 = {} THEN <<>> ELSE step(Max(1..1), iter[(1..1) \ {Max(1..1)}])
    BY ONLY <1>8, 1..1 \in SUBSET (1..3)
  <2>2. iter[(1..1) \ {Max(1..1)}] = <<>>
    BY <1>9, <1>10
  <2> QED
    BY <1>9, <2>1, <2>2
<1>12. iter[1..2] = step(2, iter[1..1])
  BY <1>8, <1>9
<1>13. iter[1..3] = step(3, iter[1..2])
  BY <1>8, <1>9
<1> DEFINE a == IF "width" \in taken THEN <<>> ELSE <<"width">>
           b == IF "depth" \in taken THEN a ELSE Append(a, "depth")
<1>14. Append(<<>>, "width") = <<"width">>
  BY Appends
<1>15. Untaken(taken) = IF "height" \in taken THEN b ELSE Append(b, "height")
  BY <1>1, <1>2, <1>11, <1>12, <1>13, <1>14 DEF step
<1>16. b = IF "width" \in taken THEN IF "depth" \in taken THEN <<>> ELSE <<"depth">>
           ELSE IF "depth" \in taken THEN <<"width">> ELSE <<"width", "depth">>
  BY Appends
<1>17. /\ Append(<<>>, "height") = <<"height">>
       /\ Append(<<"width">>, "height") = <<"width", "height">>
       /\ Append(<<"depth">>, "height") = <<"depth", "height">>
       /\ Append(<<"width", "depth">>, "height") = <<"width", "depth", "height">>
  BY Appends
<1> HIDE DEF b
<1> QED
  BY <1>15, <1>16, <1>17

\* Whether the letters of a size are kept, which of its fields they name, and which of its
\* numbers they leave without a name.
Usable(l) == \A i, j \in {i \in 1..3 : l[i] # ""} : l[i] = l[j] => i = j
Taken(l) == IF Usable(l) THEN {l[i] : i \in {i \in 1..3 : l[i] # ""}} ELSE {}
Unnamed(l) == {i \in 1..3 : ~Usable(l) \/ l[i] = ""}

\* The field of each number of a size.
LEMMA FieldsUnfold ==
  ASSUME NEW l, NEW i \in 1..3
  PROVE  /\ DOMAIN DimensionFields(l) = 1..3
         /\ DimensionFields(l)[i] =
              IF i \notin Unnamed(l) THEN l[i] ELSE Untaken(Taken(l))[FirstIn(Unnamed(l), i)]
<1> DEFINE place(k) == Cardinality({j \in 1..k : ~Usable(l) \/ l[j] = ""})
<1>1. DimensionFields(l) =
        [k \in 1..3 |-> IF Usable(l) /\ l[k] # "" THEN l[k] ELSE Untaken(Taken(l))[place(k)]]
  BY DEF DimensionFields, Untaken, Taken, Usable
<1>2. place(i) = FirstIn(Unnamed(l), i)
  <2>1. {j \in 1..i : ~Usable(l) \/ l[j] = ""} = {j \in 1..i : j \in Unnamed(l)}
    <3>1. \A j \in 1..i : j \in 1..3
      OBVIOUS
    <3> QED
      BY <3>1 DEF Unnamed
  <2> QED
    BY <2>1 DEF FirstIn
<1>3. i \notin Unnamed(l) <=> Usable(l) /\ l[i] # ""
  BY DEF Unnamed
<1> HIDE DEF place
<1> QED
  BY <1>1, <1>2, <1>3

\* When the letters are kept and what they name, letter by letter.
LEMMA LettersAre ==
  ASSUME NEW l \in SizeLetters
  PROVE  /\ Usable(l) <=> /\ l[1] # "" /\ l[2] # "" => l[1] # l[2]
                          /\ l[1] # "" /\ l[3] # "" => l[1] # l[3]
                          /\ l[2] # "" /\ l[3] # "" => l[2] # l[3]
         /\ \A x : x # "" => (x \in Taken(l) <=> Usable(l) /\ (l[1] = x \/ l[2] = x \/ l[3] = x))
<1>1. 1..3 = {1, 2, 3} /\ 1 # 2 /\ 1 # 3 /\ 2 # 3
  OBVIOUS
<1>2. Usable(l) <=> \A i, j \in {1, 2, 3} : l[i] # "" /\ l[j] # "" /\ l[i] = l[j] => i = j
  BY <1>1, Zenon DEF Usable
<1>3. (\A i, j \in {1, 2, 3} : l[i] # "" /\ l[j] # "" /\ l[i] = l[j] => i = j)
        <=> /\ l[1] # "" /\ l[2] # "" => l[1] # l[2]
            /\ l[1] # "" /\ l[3] # "" => l[1] # l[3]
            /\ l[2] # "" /\ l[3] # "" => l[2] # l[3]
  BY <1>1, Zenon
<1>4. ASSUME NEW x, x # ""
      PROVE  x \in Taken(l) <=> Usable(l) /\ (l[1] = x \/ l[2] = x \/ l[3] = x)
  <2>1. x \in Taken(l) <=> Usable(l) /\ \E i \in {1, 2, 3} : l[i] # "" /\ x = l[i]
    BY <1>1, Zenon DEF Taken
  <2>2. (\E i \in {1, 2, 3} : l[i] # "" /\ x = l[i]) <=> (l[1] = x \/ l[2] = x \/ l[3] = x)
    <3>1. ASSUME NEW i \in {1, 2, 3}, x = l[i] PROVE l[1] = x \/ l[2] = x \/ l[3] = x
      BY <3>1
    <3>2. ASSUME l[1] = x \/ l[2] = x \/ l[3] = x PROVE \E i \in {1, 2, 3} : l[i] # "" /\ x = l[i]
      <4>1. CASE l[1] = x
        BY <1>4, <4>1, 1 \in {1, 2, 3}
      <4>2. CASE l[2] = x
        BY <1>4, <4>2, 2 \in {1, 2, 3}
      <4>3. CASE l[3] = x
        BY <1>4, <4>3, 3 \in {1, 2, 3}
      <4> QED
        BY <3>2, <4>1, <4>2, <4>3
    <3> QED
      BY <3>1, <3>2
  <2> QED
    BY <2>1, <2>2
<1> QED
  BY <1>2, <1>3, <1>4

\* No number of a size is lost among its fields or in two of them (_find_dimensions of
\* text_signals.py).
LEMMA FieldsApart ==
  ASSUME NEW l \in SizeLetters
  PROVE  Cardinality(ToSet(DimensionFields(l))) = 3
<1> DEFINE f == DimensionFields(l)
           U == Unnamed(l)
           x == Untaken(Taken(l))
<1>1. DOMAIN f = 1..3 /\ 1 \in 1..3 /\ 2 \in 1..3 /\ 3 \in 1..3
  <2>1. 1 \in 1..3 /\ 2 \in 1..3 /\ 3 \in 1..3
    OBVIOUS
  <2> QED
    BY <2>1, FieldsUnfold
<1>2. /\ f[1] = IF 1 \notin U THEN l[1] ELSE x[FirstIn(U, 1)]
      /\ f[2] = IF 2 \notin U THEN l[2] ELSE x[FirstIn(U, 2)]
      /\ f[3] = IF 3 \notin U THEN l[3] ELSE x[FirstIn(U, 3)]
  BY <1>1, FieldsUnfold
<1> HIDE DEF f
<1>3. /\ 1 \in U <=> ~Usable(l) \/ l[1] = ""
      /\ 2 \in U <=> ~Usable(l) \/ l[2] = ""
      /\ 3 \in U <=> ~Usable(l) \/ l[3] = ""
  BY DEF Unnamed
<1> HIDE DEF U
<1>4. /\ 1 \in U => FirstIn(U, 1) = 1
      /\ 2 \in U => FirstIn(U, 2) = IF 1 \in U THEN 2 ELSE 1
      /\ 3 \in U => FirstIn(U, 3) = IF 1 \in U /\ 2 \in U THEN 3
                                    ELSE IF 1 \in U \/ 2 \in U THEN 2 ELSE 1
  BY Places
<1>5. /\ f[1] = IF 1 \notin U THEN l[1] ELSE x[1]
      /\ f[2] = IF 2 \notin U THEN l[2] ELSE IF 1 \in U THEN x[2] ELSE x[1]
      /\ f[3] = IF 3 \notin U THEN l[3] ELSE IF 1 \in U /\ 2 \in U THEN x[3]
                ELSE IF 1 \in U \/ 2 \in U THEN x[2] ELSE x[1]
  BY <1>2, <1>4
<1>6. PICK T : T = Taken(l)
  OBVIOUS
<1>7. x = Untaken(T)
  BY <1>6
<1> HIDE DEF x
<1>8. /\ "width" \notin T => x[1] = "width"
      /\ "width" \in T /\ "depth" \notin T => x[1] = "depth"
      /\ "width" \in T /\ "depth" \in T /\ "height" \notin T => x[1] = "height"
      /\ "width" \notin T /\ "depth" \notin T => x[2] = "depth"
      /\ "width" \notin T /\ "depth" \in T /\ "height" \notin T => x[2] = "height"
      /\ "width" \in T /\ "depth" \notin T /\ "height" \notin T => x[2] = "height"
      /\ "width" \notin T /\ "depth" \notin T /\ "height" \notin T => x[3] = "height"
  BY <1>7, UntakenAre
<1>9. /\ Usable(l) <=> /\ l[1] # "" /\ l[2] # "" => l[1] # l[2]
                       /\ l[1] # "" /\ l[3] # "" => l[1] # l[3]
                       /\ l[2] # "" /\ l[3] # "" => l[2] # l[3]
      /\ "width" \in T <=> Usable(l) /\ (l[1] = "width" \/ l[2] = "width" \/ l[3] = "width")
      /\ "depth" \in T <=> Usable(l) /\ (l[1] = "depth" \/ l[2] = "depth" \/ l[3] = "depth")
      /\ "height" \in T <=> Usable(l) /\ (l[1] = "height" \/ l[2] = "height" \/ l[3] = "height")
  BY <1>6, LettersAre
<1>10. f[1] # f[2] /\ f[1] # f[3] /\ f[2] # f[3]
  BY <1>3, <1>5, <1>8, <1>9
<1>11. ToSet(f) = {f[1], f[2], f[3]}
  <2>1. 1..3 = {1, 2, 3}
    OBVIOUS
  <2> QED
    BY <1>1, <2>1, Zenon DEF ToSet
<1>12. Cardinality({f[1], f[2], f[3]}) = 3
  <2>1. IsFiniteSet({}) /\ Cardinality({}) = 0
    BY FS_EmptySet
  <2>2. IsFiniteSet({} \cup {f[1]}) /\ Cardinality({} \cup {f[1]}) = 0 + 1
    BY <2>1, FS_AddElement
  <2>3. IsFiniteSet({f[1]} \cup {f[2]}) /\ Cardinality({f[1]} \cup {f[2]}) = 2
    <3>1. {} \cup {f[1]} = {f[1]} /\ f[2] \notin {f[1]}
      BY <1>10
    <3> QED
      BY <2>2, <3>1, FS_AddElement
  <2>4. Cardinality({f[1], f[2]} \cup {f[3]}) = 3
    <3>1. {f[1]} \cup {f[2]} = {f[1], f[2]} /\ f[3] \notin {f[1], f[2]}
      BY <1>10
    <3> QED
      BY <2>3, <3>1, FS_AddElement
  <2>5. {f[1], f[2]} \cup {f[3]} = {f[1], f[2], f[3]}
    OBVIOUS
  <2> QED
    BY <2>4, <2>5
<1> QED
  BY <1>11, <1>12 DEF f

-----------------------------------------------------------------------------
(* Candidates: what READY rests on.                                        *)

\* What no other ingredient can make up for.
LEMMA ScoreBounds ==
  ASSUME NEW i \in Ingredients, NEW overall,
         overall = OverallConfidence(i.det, i.seg, i.ocr, i.assoc, i.meta)
  PROVE  /\ overall \in 0 .. 100 * One /\ overall \in Int
         /\ overall <= 25 * i.det + 75 * One /\ overall <= 25 * i.seg + 75 * One
         /\ i.ocr <= 3600 /\ i.assoc <= 3600 /\ i.meta <= 4000 => overall <= 81 * One
         /\ i.det \in Int /\ i.seg \in Int
<1>1. PICK d, s, o, a, m \in Int :
        /\ d = i.det /\ s = i.seg /\ o = i.ocr /\ a = i.assoc /\ m = i.meta
        /\ d >= 0 /\ d <= 6000 /\ s >= 0 /\ s <= 6000 /\ o >= 0 /\ o <= 6000
        /\ a >= 0 /\ a <= 6000 /\ m >= 0 /\ m <= 6000
  <2>1. \A x \in 0..One : x \in Int /\ x >= 0 /\ x <= 6000
    BY DEF One
  <2>2. i.det \in 0..One /\ i.seg \in 0..One /\ i.ocr \in 0..One /\ i.assoc \in 0..One /\ i.meta \in 0..One
    BY DEF Ingredients
  <2> QED
    BY <2>1, <2>2
<1>2. overall = 25 * d + 25 * s + 15 * o + 20 * a + 15 * m
  BY <1>1 DEF OverallConfidence
<1>3. /\ overall \in Int /\ overall >= 0 /\ overall <= 600000
      /\ overall <= 25 * d + 450000 /\ overall <= 25 * s + 450000
      /\ o <= 3600 /\ a <= 3600 /\ m <= 4000 => overall <= 486000
  BY <1>1, <1>2
<1>4. 100 * One = 600000 /\ 75 * One = 450000 /\ 81 * One = 486000
  BY DEF One
<1>5. overall \in 0 .. 100 * One
  BY <1>3, <1>4
<1> QED
  BY <1>1, <1>3, <1>4, <1>5

\* An average that is high enough for the score to reach the threshold.
LEMMA AverageOf ==
  ASSUME NEW n \in Nat \ {0}, NEW mean \in Int, NEW sum \in Int, n * mean <= 60 * sum,
         NEW overall \in Int, overall >= AutoReview * One, overall <= 25 * mean + 75 * One
  PROVE  25 * sum >= 100 * (AutoReview - 75) * n
<1>1. PICK k \in Int : k = AutoReview - 75 /\ k * 6000 <= 25 * mean
  BY ThresholdsAssumption DEF One
<1>2. k * 240 <= mean
  BY <1>1
<1>3. n * (k * 240) <= n * mean
  <2>1. \A x, y \in Int : x <= y => n * x <= n * y
    OBVIOUS
  <2> QED
    BY <1>2, <2>1
<1>4. n * (k * 240) = 240 * (k * n) /\ k * n \in Int
  OBVIOUS
<1>5. 240 * (k * n) <= 60 * sum
  BY <1>3, <1>4
<1>6. 100 * (k * n) <= 25 * sum
  BY <1>4, <1>5
<1>7. 100 * k * n = 100 * (k * n)
  BY <1>4
<1> QED
  BY <1>1, <1>6, <1>7

\* What build_page_candidate makes of a page.
CandidateOf(a) == PageCandidate(a.number, a.finds, a.lines)

\* What the candidate of a page promises.
LEMMA ReadyOf ==
  ASSUME AutoReview > 81, LowConfidence <= AutoReview,
         NEW a \in Texts, NEW result, result = CandidateOf(a), result.candidate # None
  PROVE  LET draft == result.candidate[1]
             n == Len(a.finds)
             needed == AutoReview - 75
         IN /\ draft.status = "READY" =>
                 /\ draft.flags \cap {"NO_MODEL_CODE", "NO_DIMENSIONS", "LOW_CONFIDENCE"} = {}
                 /\ 25 * TotalConfidence(a.finds) >= 100 * needed * n
                 /\ 25 * TotalOutline(a.finds) >= 100 * needed * n
            /\ draft.size # {} => Cardinality(ToSet(ExtractSignals(a.lines).sizes[1].value)) = 3
            /\ a.number = 1 => ~({"NO_MODEL_CODE", "NO_DIMENSIONS"} \subseteq draft.flags)
            /\ draft.overall \in 0 .. 100 * One
<1> DEFINE signals == ExtractSignals(a.lines)
           draft == result.candidate[1]
<1>1. a.finds \in Seq(PageFinds) /\ a.lines \in Seq(PageLines)
  BY TextsAssumption DEF PageFinds, PageLines
<1>2. /\ ClassifyPage(a.number, signals) # "COVER" /\ a.finds # <<>>
      /\ draft = BuildPageCandidate(a.finds, a.lines)[1]
  <2> DEFINE type == ClassifyPage(a.number, signals)
             finds == IF type \in PagesWithoutPanels THEN <<>> ELSE a.finds
  <2>1. result.candidate = BuildPageCandidate(finds, a.lines)
    BY DEF CandidateOf, PageCandidate
  <2>2. BuildPageCandidate(<<>>, a.lines) = None
    BY DEF BuildPageCandidate
  <2>3. finds # <<>>
    <3> HIDE DEF finds
    <3> QED
      BY <2>1, <2>2
  <2>4. type # "COVER" /\ finds = a.finds
    BY <2>3 DEF PagesWithoutPanels
  <2> HIDE DEF finds, type
  <2>5. draft = BuildPageCandidate(a.finds, a.lines)[1]
    BY <2>1, <2>4
  <2> QED
    BY <2>3, <2>4, <2>5 DEF type
<1>3. PICK i \in Ingredients : Drafted(draft, signals, a.finds, i)
  BY <1>1, <1>2, DraftOf
<1> HIDE DEF draft, signals
<1>4. /\ draft.overall \in 0 .. 100 * One
      /\ draft.overall <= 25 * i.det + 75 * One /\ draft.overall <= 25 * i.seg + 75 * One
      /\ signals.codes = <<>> \/ signals.sizes = <<>> => draft.overall <= 81 * One
      /\ i.det \in Int /\ i.seg \in Int
  BY <1>3, ScoreBounds DEF Drafted
<1>5. draft.overall \in Int
  BY <1>3, ScoreBounds DEF Drafted
<1>6. /\ "NO_MODEL_CODE" \in draft.flags <=> signals.codes = <<>>
      /\ "NO_DIMENSIONS" \in draft.flags <=> signals.sizes = <<>>
      /\ "LOW_CONFIDENCE" \in draft.flags <=> draft.overall < LowConfidence * One
  BY <1>3, FlagsSay DEF Drafted
<1>7. ASSUME draft.status = "READY"
      PROVE  /\ draft.flags \cap {"NO_MODEL_CODE", "NO_DIMENSIONS", "LOW_CONFIDENCE"} = {}
             /\ 25 * TotalConfidence(a.finds) >= 100 * (AutoReview - 75) * Len(a.finds)
             /\ 25 * TotalOutline(a.finds) >= 100 * (AutoReview - 75) * Len(a.finds)
  <2>1. draft.overall >= AutoReview * One
    BY <1>3, <1>7 DEF Drafted
  <2>2. draft.overall > 81 * One /\ draft.overall >= LowConfidence * One
    BY <1>5, <2>1, ThresholdsAssumption DEF One
  <2>3. draft.flags \cap {"NO_MODEL_CODE", "NO_DIMENSIONS", "LOW_CONFIDENCE"} = {}
    <3>1. ~(draft.overall <= 81 * One) /\ ~(draft.overall < LowConfidence * One)
      BY <1>5, <2>2, ThresholdsAssumption DEF One
    <3> QED
      BY <1>4, <1>6, <3>1
  <2>4. PICK n \in Nat \ {0} : \E F, G :
           /\ n = Len(a.finds) /\ Sureness(a.finds) \in [1..n -> 0..100] /\ Outlines(a.finds) \in [1..n -> 0..100]
           /\ Adds(F, n, Sureness(a.finds)) /\ F[1..n] = TotalConfidence(a.finds)
           /\ Adds(G, n, Outlines(a.finds)) /\ G[1..n] = TotalOutline(a.finds)
    BY <1>1, <1>2, TotalsOf
  <2>5. PICK F, G :
           /\ n = Len(a.finds) /\ Sureness(a.finds) \in [1..n -> 0..100] /\ Outlines(a.finds) \in [1..n -> 0..100]
           /\ Adds(F, n, Sureness(a.finds)) /\ F[1..n] = TotalConfidence(a.finds)
           /\ Adds(G, n, Outlines(a.finds)) /\ G[1..n] = TotalOutline(a.finds)
    BY <2>4
  <2>6. F[1..n] \in Int /\ n * i.det <= 60 * F[1..n] /\ G[1..n] \in Int /\ n * i.seg <= 60 * G[1..n]
    <3>1. F[1..n] \in 0 .. 100 * n /\ n * Mean(Sureness(a.finds)) <= 60 * F[1..n]
      BY <2>5, MeanOf
    <3>2. G[1..n] \in 0 .. 100 * n /\ n * Mean(Outlines(a.finds)) <= 60 * G[1..n]
      BY <2>5, MeanOf
    <3>3. \A x \in 0 .. 100 * n : x \in Int
      OBVIOUS
    <3> QED
      BY <1>3, <3>1, <3>2, <3>3 DEF Drafted
  <2>7. 25 * F[1..n] >= 100 * (AutoReview - 75) * n
    BY <1>4, <1>5, <2>1, <2>6, AverageOf
  <2>8. 25 * G[1..n] >= 100 * (AutoReview - 75) * n
    BY <1>4, <1>5, <2>1, <2>6, AverageOf
  <2> QED
    BY <2>3, <2>5, <2>7, <2>8
<1>8. ASSUME draft.size # {}
      PROVE  Cardinality(ToSet(signals.sizes[1].value)) = 3
  <2>1. signals.sizes # <<>>
    BY <1>3, <1>8 DEF Drafted
  <2> QED
    BY <1>1, <2>1, SizePrinted, FieldsApart DEF signals
<1>9. ASSUME a.number = 1
      PROVE  ~({"NO_MODEL_CODE", "NO_DIMENSIONS"} \subseteq draft.flags)
  <2>1. signals.codes # <<>> \/ signals.sizes # <<>>
    BY <1>2, <1>9 DEF ClassifyPage
  <2> QED
    BY <1>6, <2>1
<1> QED
  BY <1>4, <1>7, <1>8, <1>9 DEF draft, signals

\* A call of build_page_candidate answers what it makes of one of the pages.
Grouped == service = "build_page_candidate" => arg \in Texts /\ answer = CandidateOf(arg)

\* A candidate that needs no review rests on a code and a size of its page and on finds and
\* outlines that are not poor on average (build_page_candidate of services/candidates.py),
\* whatever is found and printed.  The threshold must be above 81 percent, which is the best
\* that a candidate without a code or a size can score; the setting's default is 85.
THEOREM ReadyRestsOnEvidence ==
  ASSUME AutoReview > 81, LowConfidence <= AutoReview
  PROVE  Spec => []ReadyIsEvidenced
<1>1. Init => Grouped
  BY DEF Init, Grouped
<1>2. Grouped /\ [Next]_vars => Grouped'
  <2> SUFFICES ASSUME Grouped, [Next]_vars PROVE Grouped'
    OBVIOUS
  <2>1. CASE Group
    BY <2>1 DEF Group, Call, Grouped, CandidateOf
  <2>2. CASE ReadText \/ FindPanels \/ DrawBox \/ FindPageProducts
    <3>1. service' # "build_page_candidate"
      BY <2>2 DEF ReadText, FindPanels, DrawBox, FindPageProducts, Call
    <3> QED
      BY <3>1 DEF Grouped
  <2>3. CASE UNCHANGED vars
    BY <2>3 DEF Grouped, vars
  <2> QED
    BY <2>1, <2>2, <2>3 DEF Next
<1>3. Grouped => ReadyIsEvidenced
  <2> SUFFICES ASSUME Grouped, service = "build_page_candidate", answer.candidate # None
               PROVE  ReadyIsEvidenced
    BY DEF ReadyIsEvidenced
  <2>1. arg \in Texts /\ answer = CandidateOf(arg)
    BY DEF Grouped
  <2>2. /\ TotalConfidence(arg.finds) = FoldLeft(LAMBDA s, f : s + f.confidence, 0, arg.finds)
        /\ TotalOutline(arg.finds) = FoldLeft(LAMBDA s, f : s + OutlineComponent(f), 0, arg.finds)
    BY DEF TotalConfidence, TotalOutline
  <2> QED
    BY <2>1, <2>2, ReadyOf DEF ReadyIsEvidenced
<1> QED
  BY <1>1, <1>2, <1>3, PTL DEF Spec
================================================================================
