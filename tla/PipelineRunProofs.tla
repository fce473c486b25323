------------------------- MODULE PipelineRunProofs -------------------------
(***************************************************************************)
(* The safety of PipelineRun for any number of pages, keys, runs and       *)
(* interruptions.                                                          *)
(***************************************************************************)
EXTENDS PipelineRun, FiniteSetTheorems, TLAPS

\* The statuses a page may have when a stage takes it up.
Before(stage) ==
  CASE stage = "render_pages"  -> "NONE"
    [] stage = "read_text"     -> "RENDERED"
    [] stage = "find_panels"   -> IF "read_text" \in stages THEN "TEXT_READ" ELSE "RENDERED"
    [] stage = "find_products" -> "PANELS_FOUND"

\* A page is in work only inside a stage, and only then has files of its own.
Shape ==
  /\ page # 0 => phase \in Stage /\ page \in todo
  /\ page = 0 => ~failing /\ written = {}
  /\ phase \in Stage => phase \in stages
  /\ "render_pages" \in stages
  /\ "find_products" \in stages => "find_panels" \in stages
  /\ exists <=> purge = "no"
  /\ ~exists => row = NoRow /\ error = NoError /\ refs = NoRefs

\* Only a page's own row refers to its picture; the files of the page in work
\* belong to no row.
OwnFiles ==
  /\ \A m, n \in PageNo : m \in refs[n] => m = n
  /\ exists /\ phase = "render_pages" => \A n \in todo : refs[n] = {}
  /\ written \cap AllRefs = {}
  /\ \A n \in PageNo : n \in written => n = page /\ phase = "render_pages"

\* What is on disk is what the rows refer to and what the page in work has
\* written, unless an interruption or a deletion is in between.
FilesMatch ==
  /\ phase = "wiping" => files = {}
  /\ exists => written \subseteq files \/ phase = "wiping"
  /\ RowsHaveFiles
  /\ damage = "none" /\ phase # "wiping" /\ purge # "due" =>
       files \subseteq AllRefs \cup written

\* Inside a stage, the pages still to do have the status it asks for and no
\* error; the others have passed it or have an error.
StageFacts ==
  exists /\ phase \in Stage =>
    \A n \in PageNo :
      /\ n \in todo => row[n] = Before(phase) /\ error[n] = "none"
      /\ n \notin todo => (row[n] = Reached(phase) <=> error[n] = "none")
      /\ Rank[row[n]] <= Rank[Reached(phase)]

\* While a run goes on PROCESSING is stored, or known not to be.
Unfinished == phase # "idle" => catalogue = "PROCESSING" \/ silent

\* Progress is what the present stage has reached at most.
ProgressBound ==
  /\ phase \in {"started", "wiping"} => progress = 0
  /\ phase # "idle" => progress <= 99
  /\ phase \in Stage =>
       /\ done + Cardinality(todo) <= NumPages
       /\ progress <= Percent(Offset(phase) + done)

IInv ==
  TypeOK /\ Shape /\ OwnFiles /\ FilesMatch /\ StageFacts /\ Unfinished /\ DoneIsHonest
  /\ ProgressBound

----------------------------------------------------------------------------
(* Files.                                                                   *)

\* What the four actions that write a file have in common.
Stores(f) ==
  /\ Put(f)
  /\ f \in PageNo => f = page /\ phase = "render_pages"
  /\ phase \in Stage \ {"read_text"}
  /\ f = page \/ f \notin files \cup AllRefs
  /\ phase = "find_products" => exists

\* Page numbers are no keys.
LEMMA KeysApart == \A k \in Keys : k \notin PageNo
BY KeysAssumption DEF PageNo

\* Every one of them is such a step.
LEMMA StoresCover ==
  ASSUME TypeOK, StorePagePicture \/ StoreEmbedded \/ StorePanel \/ StoreFind
  PROVE  \E f \in File : Stores(f)
<1>1. CASE StorePagePicture
  <2>1. page \in PageNo
    BY <1>1 DEF StorePagePicture, Put, TypeOK, PageNo
  <2> QED
    BY <1>1, <2>1 DEF StorePagePicture, Stores, File, Stage
<1>2. CASE StoreEmbedded
  BY <1>2, KeysApart DEF StoreEmbedded, Fresh, Stores, File, Stage
<1>3. CASE StorePanel
  BY <1>3, KeysApart DEF StorePanel, Fresh, Stores, File, Stage
<1>4. CASE StoreFind
  BY <1>4, KeysApart DEF StoreFind, Fresh, Stores, File, Stage
<1> QED
  BY <1>1, <1>2, <1>3, <1>4

\* The last stage is one that is switched on; the next is, unless it was the last.
LEMMA LastStageFact ==
  LastStage \in Stage /\ ("render_pages" \in stages => LastStage \in stages)
BY DEF LastStage, Stage

\* A page that has completed a stage has a status of its own.
LEMMA ReachedFact ==
  ASSUME NEW st \in Stage
  PROVE  Reached(st) \in {"RENDERED", "TEXT_READ", "PANELS_FOUND", "COMPLETED"}
BY DEF Reached, Stage

\* All units of a run.
LEMMA UnitsFact == NumPages * StageCount \in Nat \ {0}
<1>1. StageCount \in 1..4
  BY DEF StageCount, One
<1> QED
  BY <1>1, NumPagesAssumption

\* Progress is between 0 and 99 while a run is under way.
LEMMA PercentRange == ASSUME NEW u \in Nat PROVE Percent(u) \in 0..99
<1>1. (u * 100) \div (NumPages * StageCount) \in Nat
  BY UnitsFact
<1> QED
  BY <1>1 DEF Percent

\* Division does not turn the order round.
LEMMA DivMonotone ==
  ASSUME NEW a \in Nat, NEW b \in Nat, NEW d \in Nat \ {0}, a <= b
  PROVE  a \div d <= b \div d
<1>1. /\ d * (a \div d) <= a /\ a \div d \in Nat
      /\ b < d * ((b \div d) + 1) /\ b \div d \in Nat
  OBVIOUS
<1> DEFINE p == a \div d
           q == b \div d
<1>2. d * p < d * (q + 1)
  BY <1>1
<1> HIDE DEF p, q
<1>3. ASSUME q + 1 <= p, p \in Nat, q \in Nat PROVE FALSE
  <2>1. d * (q + 1) <= d * p
    BY <1>3
  <2> QED
    BY <2>1, <1>2, <1>3
<1> QED
  BY <1>1, <1>3 DEF p, q

\* More units done are no less progress.
LEMMA PercentMonotone ==
  ASSUME NEW u \in Nat, NEW v \in Nat, u <= v
  PROVE  Percent(u) <= Percent(v)
<1>1. u * 100 <= v * 100 /\ u * 100 \in Nat /\ v * 100 \in Nat
  OBVIOUS
<1>2. (u * 100) \div (NumPages * StageCount) <= (v * 100) \div (NumPages * StageCount)
  BY <1>1, UnitsFact, DivMonotone
<1>3. /\ (u * 100) \div (NumPages * StageCount) \in Nat
      /\ (v * 100) \div (NumPages * StageCount) \in Nat
  BY UnitsFact
<1> QED
  BY <1>2, <1>3 DEF Percent

----------------------------------------------------------------------------
(* Types.                                                                   *)

\* Offsets are whole numbers of pages.
LEMMA OffsetRange == ASSUME NEW st \in Stage PROVE Offset(st) \in Nat
BY NumPagesAssumption DEF Offset, One, Stage

\* Between two pages nothing is in work.
LEMMA NoWorkType ==
  ASSUME NoWork
  PROVE  page' \in 0..NumPages /\ failing' \in BOOLEAN /\ written' \subseteq File
<1>1. page' \in 0..NumPages
  BY NumPagesAssumption DEF NoWork
<1>2. failing' \in BOOLEAN /\ written' \subseteq File
  BY Zenon DEF NoWork
<1> QED
  BY <1>1, <1>2

\* Every step keeps every variable in its type.
LEMMA TypeStep ==
  ASSUME TypeOK, Shape, [Next]_vars
  PROVE  TypeOK'
<1> USE DEF owner, rows, list, current, counts, history, TypeOK
<1>1. ASSUME Start \/ Restart PROVE TypeOK'
  <2>1. Begin
    BY <1>1 DEF Start, Restart
  <2>2. stages' \subseteq Stage
    BY <2>1 DEF Begin, Stage
  <2>3. runs' \in 0..MaxRuns /\ returning' \in Nat
    BY <1>1, BoundsAssumption DEF Start, Restart
  <2>4. silent' \in BOOLEAN /\ abandoned' \in BOOLEAN
    BY <2>1, Zenon DEF Begin
  <2>5. catalogue' \in {"PROCESSING", catalogue} /\ phase' = "started" /\ progress' = 0
        /\ UNCHANGED <<exists, purge, row, error, refs, files, todo, done, page, failing,
                      written, faults, damage>>
    BY <2>1 DEF Begin
  <2> QED
    BY <2>2, <2>3, <2>4, <2>5
<1>2. ASSUME WipeFiles PROVE TypeOK'
  BY <1>2, NumPagesAssumption
  DEF WipeFiles
<1>3. ASSUME WipeCommit PROVE TypeOK'
  BY <1>3, NumPagesAssumption
  DEF WipeCommit, DropRows, NoRow, NoError, NoRefs, Stage
<1>4. ASSUME BeginPage PROVE TypeOK'
  BY <1>4, NumPagesAssumption
  DEF BeginPage, Between, PageNo
<1>5. ASSUME NEW f \in File, Stores(f) PROVE TypeOK'
  BY <1>5, NumPagesAssumption
  DEF Stores, Put
<1>6. ASSUME PageSucceeds PROVE TypeOK'
  <2>1. phase \in Stage
    BY <1>6 DEF PageSucceeds, Shape
  <2>2. Offset(phase) + (done + 1) \in Nat
    BY <2>1, OffsetRange
  <2>3. progress' \in 0..100
    BY <1>6, <2>2, PercentRange DEF PageSucceeds, LeavePage
  <2>4. row' \in [PageNo -> {"NONE", "RENDERED", "TEXT_READ", "PANELS_FOUND", "COMPLETED",
                               "FAILED"}]
    BY <1>6, <2>1, ReachedFact DEF PageSucceeds
  <2> QED
    BY <1>6, <2>3, <2>4, NoWorkType DEF PageSucceeds, LeavePage
<1>7. ASSUME PageFails PROVE TypeOK'
  BY <1>7, NumPagesAssumption
  DEF PageFails
<1>8. ASSUME RemoveFile PROVE TypeOK'
  BY <1>8, NumPagesAssumption
  DEF RemoveFile
<1>9. ASSUME RecordFailure PROVE TypeOK'
  <2>1. phase \in Stage
    BY <1>9 DEF RecordFailure, Shape
  <2>2. Offset(phase) + (done + 1) \in Nat
    BY <2>1, OffsetRange
  <2>3. progress' \in 0..100
    BY <1>9, <2>2, PercentRange DEF RecordFailure, LeavePage
  <2>4. error' \in [PageNo -> Stage \cup {"none"}]
    BY <1>9, <2>1 DEF RecordFailure
  <2> QED
    BY <1>9, <2>3, <2>4, NoWorkType DEF RecordFailure, LeavePage
<1>10. ASSUME NextStageBegins PROVE TypeOK'
  BY <1>10, NumPagesAssumption
  DEF NextStageBegins, Between, NextStage, Stage
<1>11. ASSUME Finish PROVE TypeOK'
  <2>1. catalogue' \in {"COMPLETED", "PARTIALLY_COMPLETED"} /\ silent' \in BOOLEAN
    BY <1>11, Zenon DEF Finish
  <2>2. progress' = 100 /\ phase' = "idle"
        /\ UNCHANGED <<exists, purge, row, error, refs, files, stages, todo, done, page,
                      failing, written, runs, faults, returning, damage, abandoned>>
    BY <1>11 DEF Finish
  <2> QED
    BY <2>1, <2>2
<1>12. ASSUME PipelineFailure PROVE TypeOK'
  BY <1>12, NumPagesAssumption, NoWorkType, BoundsAssumption
  DEF PipelineFailure, Break
<1>13. ASSUME RowIsGone PROVE TypeOK'
  BY <1>13, NumPagesAssumption, NoWorkType, BoundsAssumption
  DEF RowIsGone, Break, Between
<1>14. ASSUME SoftTimeLimit PROVE TypeOK'
  BY <1>14, NumPagesAssumption, NoWorkType, BoundsAssumption
  DEF SoftTimeLimit, Interrupted, Running, Break
<1>15. ASSUME HostCrash \/ TaskLost PROVE TypeOK'
  <2>1. Dies
    BY <1>15 DEF HostCrash, TaskLost
  <2>2. returning' \in Nat
    BY <1>15 DEF HostCrash, TaskLost
  <2>3. faults' \in 0..MaxFaults /\ damage' \in {"none", "files", "rows"}
    BY <2>1, BoundsAssumption DEF Dies, Interrupted
  <2>4. abandoned' \in BOOLEAN
    BY <1>15, Zenon DEF HostCrash, TaskLost
  <2>5. page' \in 0..NumPages /\ failing' \in BOOLEAN /\ written' \subseteq File
    BY <2>1, NoWorkType DEF Dies
  <2>6. phase' = "idle"
        /\ UNCHANGED <<exists, purge, row, error, refs, files, catalogue, stages, todo, done,
                      progress, runs, silent>>
    BY <2>1 DEF Dies
  <2> QED
    BY <2>2, <2>3, <2>4, <2>5, <2>6
<1>16. ASSUME MarkFailed PROVE TypeOK'
  BY <1>16, NumPagesAssumption
  DEF MarkFailed
<1>17. ASSUME DeleteRows PROVE TypeOK'
  BY <1>17, NumPagesAssumption
  DEF DeleteRows, DropRows, NoRow, NoError, NoRefs
<1>18. ASSUME DeleteRowsBreakingRun PROVE TypeOK'
  BY <1>18, NumPagesAssumption, NoWorkType, BoundsAssumption
  DEF DeleteRowsBreakingRun, DropRows, NoRow, NoError, NoRefs
<1>19. ASSUME DeleteFiles PROVE TypeOK'
  BY <1>19, NumPagesAssumption
  DEF DeleteFiles
<1>20. CASE UNCHANGED vars \/ Refuse \/ Reprocess
  BY <1>20
  DEF vars, Refuse, Reprocess
<1> QED
  BY <1>1, <1>2, <1>3, <1>4, <1>5, <1>6, <1>7, <1>8, <1>9, <1>10, <1>11, <1>12,
     <1>13, <1>14, <1>15, <1>16, <1>17, <1>18, <1>19, <1>20, StoresCover
  DEF Next, RunStep, PageStep, Start, Restart, HostCrash, TaskLost

----------------------------------------------------------------------------
(* The shape of a run.                                                      *)

\* A page is taken up from the list and left with nothing in work.
LEMMA ShapeStep ==
  ASSUME TypeOK, Shape, [Next]_vars
  PROVE  Shape'
<1> USE DEF owner, rows, list, current, counts, history, Shape, LeavePage, NoWork
<1>1. /\ page \in 0..NumPages /\ todo \subseteq PageNo
      /\ phase \in {"idle", "started", "wiping", "broken"} \cup Stage
      /\ stages \subseteq Stage
  BY DEF TypeOK
<1>2. ASSUME Begin PROVE Shape'
  BY <1>2, <1>1, NumPagesAssumption
  DEF Begin, Stage
<1>3. ASSUME WipeFiles PROVE Shape'
  BY <1>3, <1>1, NumPagesAssumption
  DEF WipeFiles, Stage
<1>4. ASSUME WipeCommit PROVE Shape'
  BY <1>4, <1>1, NumPagesAssumption
  DEF WipeCommit, DropRows, Stage
<1>5. ASSUME BeginPage PROVE Shape'
  BY <1>5, <1>1, NumPagesAssumption
  DEF BeginPage, Between, PageNo
<1>6. ASSUME NEW f \in File, Stores(f) PROVE Shape'
  BY <1>6, <1>1, NumPagesAssumption
  DEF Stores, Put
<1>7. ASSUME PageSucceeds PROVE Shape'
  BY <1>7, <1>1, NumPagesAssumption
  DEF PageSucceeds, LeavePage, NoWork
<1>8. ASSUME PageFails PROVE Shape'
  BY <1>8, <1>1, NumPagesAssumption
  DEF PageFails
<1>9. ASSUME RemoveFile PROVE Shape'
  BY <1>9, <1>1, NumPagesAssumption
  DEF RemoveFile
<1>10. ASSUME RecordFailure PROVE Shape'
  BY <1>10, <1>1, NumPagesAssumption
  DEF RecordFailure, LeavePage, NoWork
<1>11. ASSUME NextStageBegins PROVE Shape'
  BY <1>11, <1>1, NumPagesAssumption
  DEF NextStageBegins, Between, NextStage, LastStage, Stage
<1>12. ASSUME Finish PROVE Shape'
  BY <1>12, <1>1, NumPagesAssumption
  DEF Finish, Between, Stage
<1>13. ASSUME PipelineFailure PROVE Shape'
  BY <1>13, <1>1, NumPagesAssumption
  DEF PipelineFailure, Break, NoWork, Stage
<1>14. ASSUME RowIsGone PROVE Shape'
  BY <1>14, <1>1, NumPagesAssumption
  DEF RowIsGone, Break, NoWork, Between, Stage
<1>15. ASSUME SoftTimeLimit PROVE Shape'
  BY <1>15, <1>1, NumPagesAssumption
  DEF SoftTimeLimit, Interrupted, Running, Break, NoWork, Stage
<1>16. ASSUME Dies PROVE Shape'
  BY <1>16, <1>1, NumPagesAssumption
  DEF Dies, Interrupted, Running, NoWork, Stage
<1>17. ASSUME MarkFailed PROVE Shape'
  BY <1>17, <1>1, NumPagesAssumption
  DEF MarkFailed, Stage
<1>18. ASSUME DeleteRows PROVE Shape'
  BY <1>18, <1>1, NumPagesAssumption
  DEF DeleteRows, DropRows
<1>19. ASSUME DeleteRowsBreakingRun PROVE Shape'
  BY <1>19, <1>1, NumPagesAssumption
  DEF DeleteRowsBreakingRun, DropRows, NoWork, Stage
<1>20. ASSUME DeleteFiles PROVE Shape'
  BY <1>20, <1>1, NumPagesAssumption
  DEF DeleteFiles
<1>21. CASE UNCHANGED vars \/ Refuse \/ Reprocess
  BY <1>21, <1>1
  DEF vars, Refuse, Reprocess
<1> QED
  BY <1>2, <1>3, <1>4, <1>5, <1>6, <1>7, <1>8, <1>9, <1>10, <1>11, <1>12, <1>13,
     <1>14, <1>15, <1>16, <1>17, <1>18, <1>19, <1>20, <1>21, StoresCover
  DEF Next, RunStep, PageStep, Start, Restart, HostCrash, TaskLost

----------------------------------------------------------------------------
(* Files and rows.                                                          *)

\* The files some row refers to.
LEMMA AllRefsFact ==
  /\ \A f : f \in AllRefs <=> \E n \in PageNo : f \in refs[n]
  /\ refs = NoRefs => AllRefs = {}
BY DEF AllRefs, NoRefs

\* A page's picture is its own, and the files in work belong to no row yet.
LEMMA OwnFilesStep ==
  ASSUME TypeOK, Shape, OwnFiles, [Next]_vars
  PROVE  OwnFiles'
<1> USE DEF owner, rows, list, current, counts, history, OwnFiles
<1>1. /\ page \in 0..NumPages /\ todo \subseteq PageNo /\ refs \in [PageNo -> SUBSET File]
      /\ failing \in BOOLEAN
  BY DEF TypeOK
<1>2. \A k \in Keys : k \notin PageNo
  BY KeysApart
<1>3. ASSUME UNCHANGED refs PROVE UNCHANGED AllRefs
  BY <1>3 DEF AllRefs
<1>4. ASSUME refs' = NoRefs PROVE AllRefs' = {} /\ \A n \in PageNo : refs'[n] = {}
  BY <1>4 DEF AllRefs, NoRefs
<1>5. ASSUME Begin PROVE OwnFiles'
  BY <1>5, <1>1, <1>2, <1>3, <1>4
  DEF Begin, Stage
<1>6. ASSUME WipeFiles PROVE OwnFiles'
  BY <1>6, <1>1, <1>2, <1>3, <1>4
  DEF WipeFiles
<1>7. ASSUME WipeCommit PROVE OwnFiles'
  BY <1>7, <1>1, <1>2, <1>3, <1>4
  DEF WipeCommit, DropRows, AllRefs
<1>8. ASSUME BeginPage PROVE OwnFiles'
  BY <1>8, <1>1, <1>2, <1>3, <1>4
  DEF BeginPage, Between, Shape
<1>9. ASSUME NEW f \in File, Stores(f) PROVE OwnFiles'
  <2>1. f \notin AllRefs
    <3>1. CASE f = page
      <4>1. f \in PageNo /\ phase = "render_pages" /\ page \in todo
        BY <1>9, <3>1, <1>1, <1>2 DEF Stores, Put, Shape, File, PageNo
      <4>2. refs[page] = {}
        BY <4>1, <3>1 DEF Shape, NoRefs
      <4> QED
        BY <4>1, <4>2, <3>1, AllRefsFact
    <3> QED
      BY <3>1, <1>9 DEF Stores
  <2>2. /\ written' = written \cup {f}
        /\ UNCHANGED <<exists, refs, phase, todo, page>> /\ UNCHANGED AllRefs
    BY <1>9, <1>3 DEF Stores, Put
  <2>3. f \in PageNo => f = page /\ phase = "render_pages"
    BY <1>9 DEF Stores
  <2> QED
    BY <2>1, <2>2, <2>3
<1>10. ASSUME PageSucceeds PROVE OwnFiles'
  <2>1. page \in PageNo /\ page \in todo
    BY <1>10, <1>1 DEF PageSucceeds, Shape, PageNo
  <2>2. \A n \in PageNo : refs'[n] = IF n = page THEN refs[n] \cup written ELSE refs[n]
    BY <1>10, <1>1, <2>1 DEF PageSucceeds
  <2>3. /\ written' = {} /\ page' = 0 /\ todo' = todo \ {page}
        /\ UNCHANGED <<phase, exists>>
    BY <1>10 DEF PageSucceeds, LeavePage, NoWork
  <2> QED
    BY <1>10, <1>1, <2>1, <2>2, <2>3
<1>11. ASSUME PageFails PROVE OwnFiles'
  BY <1>11, <1>1, <1>2, <1>3, <1>4
  DEF PageFails
<1>12. ASSUME RemoveFile PROVE OwnFiles'
  BY <1>12, <1>1, <1>2, <1>3, <1>4
  DEF RemoveFile
<1>13. ASSUME RecordFailure PROVE OwnFiles'
  BY <1>13, <1>1, <1>2, <1>3, <1>4
  DEF RecordFailure, LeavePage, NoWork
<1>14. ASSUME NextStageBegins PROVE OwnFiles'
  <2>1. phase' # "render_pages"
    BY <1>14 DEF NextStageBegins, NextStage
  <2>2. written = {} /\ written' = {} /\ UNCHANGED refs
    BY <1>14 DEF NextStageBegins, Between, Shape
  <2> QED
    BY <2>1, <2>2, <1>1
<1>15. ASSUME Finish PROVE OwnFiles'
  BY <1>15, <1>1, <1>2, <1>3, <1>4
  DEF Finish, Between, Shape
<1>16. ASSUME PipelineFailure PROVE OwnFiles'
  BY <1>16, <1>1, <1>2, <1>3, <1>4
  DEF PipelineFailure, Break, NoWork
<1>17. ASSUME RowIsGone PROVE OwnFiles'
  BY <1>17, <1>1, <1>2, <1>3, <1>4
  DEF RowIsGone, Break, NoWork, Between
<1>18. ASSUME SoftTimeLimit PROVE OwnFiles'
  BY <1>18, <1>1, <1>2, <1>3, <1>4
  DEF SoftTimeLimit, Interrupted, Running, Break, NoWork, Shape
<1>19. ASSUME Dies PROVE OwnFiles'
  BY <1>19, <1>1, <1>2, <1>3, <1>4
  DEF Dies, Interrupted, Running, NoWork, Shape
<1>20. ASSUME MarkFailed PROVE OwnFiles'
  BY <1>20, <1>1, <1>2, <1>3, <1>4
  DEF MarkFailed, Shape
<1>21. ASSUME DeleteRows PROVE OwnFiles'
  BY <1>21, <1>1, <1>2, <1>3, <1>4
  DEF DeleteRows, DropRows, AllRefs
<1>22. ASSUME DeleteRowsBreakingRun PROVE OwnFiles'
  BY <1>22, <1>1, <1>2, <1>3, <1>4
  DEF DeleteRowsBreakingRun, DropRows, NoWork
<1>23. ASSUME DeleteFiles PROVE OwnFiles'
  BY <1>23, <1>1, <1>2, <1>3, <1>4
  DEF DeleteFiles
<1>24. CASE UNCHANGED vars \/ Refuse \/ Reprocess
  BY <1>24, <1>1, <1>2, <1>3, <1>4
  DEF vars, Refuse, Reprocess
<1> QED
  BY <1>5, <1>6, <1>7, <1>8, <1>9, <1>10, <1>11, <1>12, <1>13, <1>14, <1>15, <1>16,
     <1>17, <1>18, <1>19, <1>20, <1>21, <1>22, <1>23, <1>24, StoresCover
  DEF Next, RunStep, PageStep, Start, Restart, HostCrash, TaskLost

\* No step takes a file away that a row refers to, or leaves one that nothing refers to.
LEMMA FilesMatchStep ==
  ASSUME TypeOK, Shape, OwnFiles, FilesMatch, [Next]_vars
  PROVE  FilesMatch'
<1> USE DEF owner, rows, list, current, counts, history, FilesMatch, RowsHaveFiles
<1>1. /\ page \in 0..NumPages /\ refs \in [PageNo -> SUBSET File] /\ files \subseteq File
      /\ written \subseteq File /\ failing \in BOOLEAN
  BY DEF TypeOK
<1>2. ASSUME UNCHANGED refs PROVE UNCHANGED AllRefs
  BY <1>2 DEF AllRefs
<1>3. ASSUME refs' = NoRefs PROVE AllRefs' = {}
  BY <1>3 DEF AllRefs, NoRefs
<1>4. ~exists => AllRefs = {}
  BY AllRefsFact DEF Shape
<1>5. written \cap AllRefs = {}
  BY DEF OwnFiles
<1>6. ASSUME Begin PROVE FilesMatch'
  BY <1>6, <1>1, <1>2, <1>3, <1>4, <1>5
  DEF Begin, Shape
<1>7. ASSUME WipeFiles PROVE FilesMatch'
  BY <1>7, <1>1, <1>2, <1>3, <1>4, <1>5
  DEF WipeFiles, Shape
<1>8. ASSUME WipeCommit PROVE FilesMatch'
  BY <1>8, <1>1, <1>2, <1>3, <1>4, <1>5
  DEF WipeCommit, DropRows, Shape, Stage
<1>9. ASSUME BeginPage PROVE FilesMatch'
  BY <1>9, <1>1, <1>2, <1>3, <1>4, <1>5
  DEF BeginPage, Between, Shape
<1>10. ASSUME NEW f \in File, Stores(f) PROVE FilesMatch'
  <2>1. /\ written' = written \cup {f} /\ files' = files \cup {f}
        /\ UNCHANGED <<exists, refs, phase, damage, purge>>
        /\ UNCHANGED AllRefs
    BY <1>10, <1>2 DEF Stores, Put
  <2>2. phase # "wiping"
    BY <1>10 DEF Stores, Stage
  <2> QED
    BY <2>1, <2>2
<1>11. ASSUME PageSucceeds PROVE FilesMatch'
  <2>1. /\ page \in PageNo /\ phase \in Stage /\ exists
        /\ UNCHANGED <<phase, files, damage, purge>>
    BY <1>11, <1>1 DEF PageSucceeds, Shape, PageNo
  <2>2. \A n \in PageNo : refs'[n] = IF n = page THEN refs[n] \cup written ELSE refs[n]
    BY <1>11, <1>1, <2>1 DEF PageSucceeds
  <2>3. AllRefs' = AllRefs \cup written
    BY <2>1, <2>2 DEF AllRefs
  <2>4. written' = {}
    BY <1>11 DEF PageSucceeds, LeavePage, NoWork
  <2> QED
    BY <2>1, <2>3, <2>4 DEF Stage
<1>12. ASSUME PageFails PROVE FilesMatch'
  BY <1>12, <1>1, <1>2, <1>3, <1>4, <1>5
  DEF PageFails, Shape
<1>13. ASSUME RemoveFile PROVE FilesMatch'
  BY <1>13, <1>1, <1>2, <1>3, <1>4, <1>5
  DEF RemoveFile, Shape
<1>14. ASSUME RecordFailure PROVE FilesMatch'
  BY <1>14, <1>1, <1>2, <1>3, <1>4, <1>5
  DEF RecordFailure, LeavePage, NoWork, Shape
<1>15. ASSUME NextStageBegins PROVE FilesMatch'
  BY <1>15, <1>1, <1>2, <1>3, <1>4, <1>5
  DEF NextStageBegins, Between, Shape, NextStage, Stage
<1>16. ASSUME Finish PROVE FilesMatch'
  BY <1>16, <1>1, <1>2, <1>3, <1>4, <1>5
  DEF Finish, Between, Shape, Stage
<1>17. ASSUME PipelineFailure PROVE FilesMatch'
  BY <1>17, <1>1, <1>2, <1>3, <1>4, <1>5
  DEF PipelineFailure, Break, NoWork, Shape, Stage
<1>18. ASSUME RowIsGone PROVE FilesMatch'
  BY <1>18, <1>1, <1>2, <1>3, <1>4, <1>5
  DEF RowIsGone, Break, NoWork, Between, Shape
<1>19. ASSUME SoftTimeLimit PROVE FilesMatch'
  BY <1>19, <1>1, <1>2, <1>3, <1>4, <1>5
  DEF SoftTimeLimit, Interrupted, Running, Break, NoWork, Shape
<1>20. ASSUME Dies PROVE FilesMatch'
  BY <1>20, <1>1, <1>2, <1>3, <1>4, <1>5
  DEF Dies, Interrupted, Running, NoWork, Shape, Stage
<1>21. ASSUME MarkFailed PROVE FilesMatch'
  BY <1>21, <1>1, <1>2, <1>3, <1>4, <1>5
  DEF MarkFailed, Shape
<1>22. ASSUME DeleteRows PROVE FilesMatch'
  BY <1>22, <1>1, <1>2, <1>3, <1>4, <1>5
  DEF DeleteRows, DropRows, Shape
<1>23. ASSUME DeleteRowsBreakingRun PROVE FilesMatch'
  BY <1>23, <1>1, <1>2, <1>3, <1>4, <1>5
  DEF DeleteRowsBreakingRun, DropRows, NoWork, Shape
<1>24. ASSUME DeleteFiles PROVE FilesMatch'
  BY <1>24, <1>1, <1>2, <1>3, <1>4, <1>5
  DEF DeleteFiles, Shape
<1>25. CASE UNCHANGED vars \/ Refuse \/ Reprocess
  BY <1>25, <1>1, <1>2, <1>3, <1>4, <1>5
  DEF vars, Refuse, Reprocess
<1> QED
  BY <1>6, <1>7, <1>8, <1>9, <1>10, <1>11, <1>12, <1>13, <1>14, <1>15, <1>16, <1>17,
     <1>18, <1>19, <1>20, <1>21, <1>22, <1>23, <1>24, <1>25, StoresCover
  DEF Next, RunStep, PageStep, Start, Restart, HostCrash, TaskLost

----------------------------------------------------------------------------
(* Stages and pages.                                                        *)

\* Inside a run the catalogue is PROCESSING, unless it began silently or a request has
\* set it back.
LEMMA UnfinishedStep ==
  ASSUME TypeOK, Shape, Unfinished, [Next]_vars
  PROVE  Unfinished'
<1> USE DEF owner, rows, list, current, counts, history, Unfinished
<1>1. ASSUME Begin PROVE Unfinished'
  BY <1>1
  DEF Begin
<1>2. ASSUME WipeFiles PROVE Unfinished'
  BY <1>2
  DEF WipeFiles
<1>3. ASSUME WipeCommit PROVE Unfinished'
  BY <1>3
  DEF WipeCommit, DropRows, Stage
<1>4. ASSUME BeginPage PROVE Unfinished'
  BY <1>4
  DEF BeginPage, Between
<1>5. ASSUME NEW f \in File, Stores(f) PROVE Unfinished'
  BY <1>5
  DEF Stores, Put
<1>6. ASSUME PageSucceeds PROVE Unfinished'
  BY <1>6
  DEF PageSucceeds, LeavePage, NoWork
<1>7. ASSUME PageFails PROVE Unfinished'
  BY <1>7
  DEF PageFails
<1>8. ASSUME RemoveFile PROVE Unfinished'
  BY <1>8
  DEF RemoveFile
<1>9. ASSUME RecordFailure PROVE Unfinished'
  BY <1>9
  DEF RecordFailure, LeavePage, NoWork
<1>10. ASSUME NextStageBegins PROVE Unfinished'
  BY <1>10
  DEF NextStageBegins, Between, Stage
<1>11. ASSUME Finish PROVE Unfinished'
  BY <1>11
  DEF Finish, Between
<1>12. ASSUME PipelineFailure PROVE Unfinished'
  BY <1>12
  DEF PipelineFailure, Break, NoWork
<1>13. ASSUME RowIsGone PROVE Unfinished'
  BY <1>13
  DEF RowIsGone, Break, NoWork, Between, Shape, Stage
<1>14. ASSUME SoftTimeLimit PROVE Unfinished'
  BY <1>14
  DEF SoftTimeLimit, Interrupted, Running, Break, NoWork
<1>15. ASSUME Dies PROVE Unfinished'
  BY <1>15
  DEF Dies, Interrupted, Running, NoWork
<1>16. ASSUME MarkFailed PROVE Unfinished'
  BY <1>16
  DEF MarkFailed
<1>17. ASSUME DeleteRows PROVE Unfinished'
  BY <1>17
  DEF DeleteRows, DropRows
<1>18. ASSUME DeleteRowsBreakingRun PROVE Unfinished'
  BY <1>18
  DEF DeleteRowsBreakingRun, DropRows, NoWork, Shape, Stage
<1>19. ASSUME DeleteFiles PROVE Unfinished'
  BY <1>19
  DEF DeleteFiles
<1>20. CASE UNCHANGED vars \/ Refuse \/ Reprocess
  BY <1>20, Zenon
  DEF vars, Refuse, Reprocess, Running
<1> QED
  BY <1>1, <1>2, <1>3, <1>4, <1>5, <1>6, <1>7, <1>8, <1>9, <1>10, <1>11, <1>12,
     <1>13, <1>14, <1>15, <1>16, <1>17, <1>18, <1>19, <1>20, StoresCover
  DEF Next, RunStep, PageStep, Start, Restart, HostCrash, TaskLost

\* The order of the statuses.
LEMMA RankFact ==
  /\ Rank["NONE"] = 0 /\ Rank["RENDERED"] = 1 /\ Rank["TEXT_READ"] = 2
  /\ Rank["PANELS_FOUND"] = 3 /\ Rank["COMPLETED"] = 4 /\ Rank["FAILED"] = 0
BY DEF Rank

\* A stage takes a page one status further.
LEMMA StageOrder ==
  ASSUME NEW st \in Stage
  PROVE  /\ Before(st) # Reached(st)
         /\ Rank[Before(st)] <= Rank[Reached(st)]
         /\ Rank["FAILED"] <= Rank[Reached(st)]
         /\ Reached(st) # "FAILED"
BY RankFact DEF Before, Reached, Stage

\* The next stage takes up what the stage before it has finished.
LEMMA NextStageFact ==
  ASSUME Shape, phase \in Stage, phase # LastStage
  PROVE  /\ NextStage(phase) \in Stage
         /\ Before(NextStage(phase)) = Reached(phase)
         /\ Rank[Reached(phase)] < Rank[Reached(NextStage(phase))]
         /\ Offset(phase) + NumPages <= Offset(NextStage(phase))
<1>1. phase \in stages /\ "render_pages" \in stages
      /\ ("find_products" \in stages => "find_panels" \in stages)
  BY DEF Shape
<1>2. CASE phase = "render_pages"
  BY <1>1, <1>2, RankFact, NumPagesAssumption
  DEF LastStage, NextStage, Stage, Before, Reached, Offset, One
<1>3. CASE phase = "read_text"
  BY <1>1, <1>3, RankFact, NumPagesAssumption
  DEF LastStage, NextStage, Stage, Before, Reached, Offset, One
<1>4. CASE phase = "find_panels"
  BY <1>1, <1>4, RankFact, NumPagesAssumption
  DEF LastStage, NextStage, Stage, Before, Reached, Offset, One
<1>5. CASE phase = "find_products"
  BY <1>1, <1>5 DEF LastStage
<1> QED
  BY <1>2, <1>3, <1>4, <1>5 DEF Stage

\* Every page is either waiting for the stage or has gone through it, well or badly.
LEMMA StageFactsStep ==
  ASSUME TypeOK, Shape, StageFacts, [Next]_vars
  PROVE  StageFacts'
<1> USE DEF owner, rows, list, current, counts, history, StageFacts
<1>1. /\ page \in 0..NumPages /\ todo \subseteq PageNo
      /\ row \in [PageNo -> {"NONE", "RENDERED", "TEXT_READ", "PANELS_FOUND", "COMPLETED",
                             "FAILED"}]
      /\ error \in [PageNo -> Stage \cup {"none"}]
      /\ phase \in {"idle", "started", "wiping", "broken"} \cup Stage
  BY DEF TypeOK
<1>2. ASSUME UNCHANGED <<stages, phase>>
      PROVE  Before(phase)' = Before(phase) /\ Reached(phase)' = Reached(phase)
  BY <1>2 DEF Before, Reached
<1>3. ASSUME Begin PROVE StageFacts'
  BY <1>3, <1>1, <1>2
  DEF Begin, Stage
<1>4. ASSUME WipeFiles PROVE StageFacts'
  BY <1>4, <1>1, <1>2
  DEF WipeFiles, Stage
<1>5. ASSUME WipeCommit PROVE StageFacts'
  <2>1. Before(phase)' = "NONE" /\ Reached(phase)' = "RENDERED"
    BY <1>5 DEF WipeCommit, Before, Reached
  <2>2. \A n \in PageNo : row'[n] = "NONE" /\ error'[n] = "none" /\ n \in todo'
    BY <1>5 DEF WipeCommit, DropRows, NoRow, NoError
  <2> QED
    BY <2>1, <2>2, RankFact
<1>6. ASSUME BeginPage PROVE StageFacts'
  BY <1>6, <1>1, <1>2
  DEF BeginPage, Between
<1>7. ASSUME NEW f \in File, Stores(f) PROVE StageFacts'
  BY <1>7, <1>1, <1>2
  DEF Stores, Put
<1>8. ASSUME PageSucceeds PROVE StageFacts'
  <2>1. page \in todo /\ phase \in Stage /\ exists
    BY <1>8 DEF PageSucceeds, Shape
  <2>2. \A n \in PageNo : /\ row'[n] = IF n = page THEN Reached(phase) ELSE row[n]
                          /\ error'[n] = IF n = page THEN "none" ELSE error[n]
    BY <1>8, <1>1, <2>1 DEF PageSucceeds
  <2>3. todo' = todo \ {page} /\ UNCHANGED <<stages, phase>>
    BY <1>8 DEF PageSucceeds, LeavePage
  <2>4. Rank[Reached(phase)] \in Nat
    BY <2>1, RankFact DEF Reached, Stage
  <2> QED
    BY <2>1, <2>2, <2>3, <2>4, <1>1, <1>2
<1>9. ASSUME PageFails PROVE StageFacts'
  BY <1>9, <1>1, <1>2
  DEF PageFails
<1>10. ASSUME RemoveFile PROVE StageFacts'
  BY <1>10, <1>1, <1>2
  DEF RemoveFile
<1>11. ASSUME RecordFailure PROVE StageFacts'
  <2>1. page \in todo /\ phase \in Stage /\ exists /\ phase # "none"
    BY <1>11 DEF RecordFailure, Shape, Stage
  <2>2. \A n \in PageNo :
          /\ row'[n] = IF n = page /\ phase = "render_pages" THEN "FAILED" ELSE row[n]
          /\ error'[n] = IF n = page THEN phase ELSE error[n]
    BY <1>11, <1>1, <2>1 DEF RecordFailure
  <2>3. todo' = todo \ {page} /\ UNCHANGED <<stages, phase>>
    BY <1>11 DEF RecordFailure, LeavePage
  <2> QED
    BY <2>1, <2>2, <2>3, <1>1, <1>2, StageOrder
<1>12. ASSUME NextStageBegins PROVE StageFacts'
  <2>1. /\ exists /\ phase \in Stage /\ todo = {} /\ phase' = NextStage(phase)
        /\ phase # LastStage /\ UNCHANGED <<stages, row, error>>
    BY <1>12 DEF NextStageBegins, Between
  <2>2. /\ NextStage(phase) \in Stage
        /\ Before(NextStage(phase)) = Reached(phase)
        /\ Rank[Reached(phase)] < Rank[Reached(NextStage(phase))]
    BY <2>1, NextStageFact
  <2>3. /\ Before(phase)' = Before(NextStage(phase))
        /\ Reached(phase)' = Reached(NextStage(phase))
    BY <2>1 DEF Before, Reached
  <2>4. todo' = {n \in PageNo : row[n] = Before(NextStage(phase))}
    <3>1. NextStage(phase) \in Stage \ {"render_pages"}
      BY <2>2 DEF NextStage
    <3>2. Before(NextStage(phase)) =
            IF NextStage(phase) = "find_products" THEN "PANELS_FOUND"
            ELSE IF NextStage(phase) = "find_panels" /\ "read_text" \in stages
            THEN "TEXT_READ" ELSE "RENDERED"
      BY <3>1 DEF Before, Stage
    <3> QED
      BY <1>12, <3>2 DEF NextStageBegins
  <2>5. \A n \in PageNo : Rank[row[n]] \in Nat
    BY <1>1, RankFact
  <2>6. Rank[Reached(phase)] \in Nat /\ Rank[Reached(NextStage(phase))] \in Nat
    BY <2>1, <2>2, ReachedFact, RankFact
  <2>7. \A n \in PageNo : /\ row[n] = Reached(phase) <=> error[n] = "none"
                          /\ Rank[row[n]] <= Rank[Reached(phase)]
    BY <2>1
  <2> QED
    BY <2>1, <2>2, <2>3, <2>4, <2>5, <2>6, <2>7
<1>13. ASSUME Finish PROVE StageFacts'
  BY <1>13, <1>1, <1>2
  DEF Finish, Between, Stage
<1>14. ASSUME PipelineFailure PROVE StageFacts'
  BY <1>14, <1>1, <1>2
  DEF PipelineFailure, Break, NoWork, Stage
<1>15. ASSUME RowIsGone PROVE StageFacts'
  BY <1>15, <1>1, <1>2
  DEF RowIsGone, Break, NoWork, Between, Stage
<1>16. ASSUME SoftTimeLimit PROVE StageFacts'
  BY <1>16, <1>1, <1>2
  DEF SoftTimeLimit, Interrupted, Running, Break, NoWork, Stage
<1>17. ASSUME Dies PROVE StageFacts'
  BY <1>17, <1>1, <1>2
  DEF Dies, Interrupted, Running, NoWork, Stage
<1>18. ASSUME MarkFailed PROVE StageFacts'
  BY <1>18, <1>1, <1>2
  DEF MarkFailed, Stage
<1>19. ASSUME DeleteRows PROVE StageFacts'
  BY <1>19, <1>1, <1>2
  DEF DeleteRows, DropRows
<1>20. ASSUME DeleteRowsBreakingRun PROVE StageFacts'
  BY <1>20, <1>1, <1>2
  DEF DeleteRowsBreakingRun, DropRows, NoWork, Stage
<1>21. ASSUME DeleteFiles PROVE StageFacts'
  BY <1>21, <1>1, <1>2
  DEF DeleteFiles
<1>22. CASE UNCHANGED vars \/ Refuse \/ Reprocess
  BY <1>22, <1>1, <1>2
  DEF vars, Refuse, Reprocess
<1> QED
  BY <1>3, <1>4, <1>5, <1>6, <1>7, <1>8, <1>9, <1>10, <1>11, <1>12, <1>13, <1>14,
     <1>15, <1>16, <1>17, <1>18, <1>19, <1>20, <1>21, <1>22, StoresCover
  DEF Next, RunStep, PageStep, Start, Restart, HostCrash, TaskLost

\* A run says COMPLETED of what it has done.
LEMMA DoneIsHonestStep ==
  ASSUME TypeOK, Shape, StageFacts, Unfinished, DoneIsHonest, [Next]_vars
  PROVE  DoneIsHonest'
<1> USE DEF owner, rows, list, current, counts, history, DoneIsHonest, FinalStatus, Running
<1>1. ASSUME UNCHANGED stages PROVE Reached(LastStage)' = Reached(LastStage)
  BY <1>1 DEF Reached, LastStage
<1>2. ASSUME Begin PROVE DoneIsHonest'
  BY <1>2, <1>1
  DEF Begin
<1>3. ASSUME WipeFiles PROVE DoneIsHonest'
  BY <1>3, <1>1
  DEF WipeFiles
<1>4. ASSUME WipeCommit PROVE DoneIsHonest'
  BY <1>4, <1>1
  DEF WipeCommit, DropRows, Stage
<1>5. ASSUME BeginPage PROVE DoneIsHonest'
  <2>1. phase' # "idle"
    BY <1>5, ReachedFact DEF BeginPage, Between, Shape, Stage, LeavePage, NextStage
  <2> QED
    BY <2>1
<1>6. ASSUME NEW f \in File, Stores(f) PROVE DoneIsHonest'
  <2>1. phase' # "idle"
    BY <1>6, ReachedFact DEF Stores, Put, Between, Shape, Stage, LeavePage, NextStage
  <2> QED
    BY <2>1
<1>7. ASSUME PageSucceeds PROVE DoneIsHonest'
  <2>1. phase' # "idle"
    BY <1>7, ReachedFact DEF PageSucceeds, Between, Shape, Stage, LeavePage, NextStage
  <2> QED
    BY <2>1
<1>8. ASSUME PageFails PROVE DoneIsHonest'
  <2>1. phase' # "idle"
    BY <1>8, ReachedFact DEF PageFails, Between, Shape, Stage, LeavePage, NextStage
  <2> QED
    BY <2>1
<1>9. ASSUME RemoveFile PROVE DoneIsHonest'
  <2>1. phase' # "idle"
    BY <1>9, ReachedFact DEF RemoveFile, Between, Shape, Stage, LeavePage, NextStage
  <2> QED
    BY <2>1
<1>10. ASSUME RecordFailure PROVE DoneIsHonest'
  <2>1. phase' # "idle"
    BY <1>10, ReachedFact DEF RecordFailure, Between, Shape, Stage, LeavePage, NextStage
  <2> QED
    BY <2>1
<1>11. ASSUME NextStageBegins PROVE DoneIsHonest'
  <2>1. phase' # "idle"
    BY <1>11, ReachedFact DEF NextStageBegins, Between, Shape, Stage, LeavePage, NextStage
  <2> QED
    BY <2>1
<1>12. ASSUME Finish PROVE DoneIsHonest'
  <2>1. /\ exists /\ phase \in Stage /\ todo = {} /\ phase = LastStage
        /\ UNCHANGED <<stages, row, error>>
    BY <1>12 DEF Finish, Between
  <2>2. \A n \in PageNo : row[n] = Reached(LastStage) <=> error[n] = "none"
    BY <2>1 DEF StageFacts
  <2>3. catalogue' = IF \A n \in PageNo : row[n] = Reached(LastStage)
                     THEN "COMPLETED" ELSE "PARTIALLY_COMPLETED"
    BY <1>12 DEF Finish
  <2> QED
    BY <2>1, <2>2, <2>3, <1>1
<1>13. ASSUME PipelineFailure PROVE DoneIsHonest'
  BY <1>13, <1>1
  DEF PipelineFailure, Break, NoWork, Stage
<1>14. ASSUME RowIsGone PROVE DoneIsHonest'
  BY <1>14, <1>1
  DEF RowIsGone, Break, NoWork, Between, Stage
<1>15. ASSUME SoftTimeLimit PROVE DoneIsHonest'
  BY <1>15, <1>1
  DEF SoftTimeLimit, Interrupted, Running, Break, NoWork, Stage
<1>16. ASSUME Dies PROVE DoneIsHonest'
  BY <1>16, <1>1
  DEF Dies, Interrupted, Running, NoWork, Unfinished
<1>17. ASSUME MarkFailed PROVE DoneIsHonest'
  BY <1>17, <1>1
  DEF MarkFailed
<1>18. ASSUME DeleteRows PROVE DoneIsHonest'
  BY <1>18, <1>1
  DEF DeleteRows, DropRows
<1>19. ASSUME DeleteRowsBreakingRun PROVE DoneIsHonest'
  BY <1>19, <1>1
  DEF DeleteRowsBreakingRun, DropRows, NoWork, Stage
<1>20. ASSUME DeleteFiles PROVE DoneIsHonest'
  BY <1>20, <1>1
  DEF DeleteFiles
<1>21. CASE UNCHANGED vars \/ Refuse \/ Reprocess
  BY <1>21, <1>1
  DEF vars, Refuse, Reprocess
<1> QED
  BY <1>2, <1>3, <1>4, <1>5, <1>6, <1>7, <1>8, <1>9, <1>10, <1>11, <1>12, <1>13,
     <1>14, <1>15, <1>16, <1>17, <1>18, <1>19, <1>20, <1>21, StoresCover
  DEF Next, RunStep, PageStep, Start, Restart, HostCrash, TaskLost

----------------------------------------------------------------------------
(* Progress.                                                                *)

\* A page that leaves the list makes it one shorter, and the list is never longer
\* than the catalogue.
LEMMA ListFact ==
  ASSUME NEW T \in SUBSET PageNo
  PROVE  /\ Cardinality(T) \in 0..NumPages
         /\ \A n \in T : Cardinality(T \ {n}) = Cardinality(T) - 1
<1>1. IsFiniteSet(PageNo) /\ Cardinality(PageNo) = NumPages
  BY FS_Interval, NumPagesAssumption DEF PageNo
<1>2. IsFiniteSet(T) /\ Cardinality(T) <= NumPages /\ Cardinality(T) \in Nat
  BY <1>1, FS_Subset, FS_CardinalityType
<1> QED
  BY <1>2, FS_RemoveElement, NumPagesAssumption

\* The share of a page's stage rises when the page leaves it.
LEMMA LeaveFact ==
  ASSUME TypeOK, Shape, ProgressBound, page # 0, LeavePage, UNCHANGED <<stages, phase>>
  PROVE  ProgressBound' /\ progress <= progress'
<1>1. page \in todo /\ phase \in Stage /\ todo \subseteq PageNo /\ done \in Nat
  BY DEF TypeOK, Shape
<1>2. /\ todo' = todo \ {page} /\ done' = done + 1
      /\ progress' = Percent(Offset(phase) + done')
  BY DEF LeavePage
<1>3. /\ Cardinality(todo') = Cardinality(todo) - 1
      /\ Cardinality(todo) \in 0..NumPages
  BY <1>1, <1>2, ListFact
<1>4. done' + Cardinality(todo') <= NumPages
  <2>1. done + Cardinality(todo) <= NumPages
    BY <1>1 DEF ProgressBound
  <2> QED
    BY <2>1, <1>1, <1>2, <1>3, NumPagesAssumption
<1>5. Percent(Offset(phase) + done)' = Percent(Offset(phase) + done')
  BY DEF Percent, Offset, StageCount, One
<1>6. /\ Offset(phase) + done \in Nat /\ Offset(phase) + done' \in Nat
      /\ Offset(phase) + done <= Offset(phase) + done'
  BY <1>1, <1>2, OffsetRange
<1>7. Percent(Offset(phase) + done) <= progress' /\ progress' \in 0..99
  BY <1>2, <1>6, PercentMonotone, PercentRange
<1>8. progress <= Percent(Offset(phase) + done) /\ progress \in 0..100
  BY <1>1 DEF ProgressBound, TypeOK
<1>9. progress <= progress'
  BY <1>7, <1>8, <1>6, PercentRange
<1>10. ProgressBound'
  BY <1>1, <1>2, <1>4, <1>5, <1>7 DEF ProgressBound, Stage
<1> QED
  BY <1>9, <1>10

\* Progress never gets ahead of the pages done.
LEMMA ProgressBoundStep ==
  ASSUME TypeOK, Shape, ProgressBound, [Next]_vars
  PROVE  ProgressBound'
<1> USE DEF owner, rows, list, current, counts, history, ProgressBound
<1>1. ASSUME UNCHANGED <<stages, phase, todo, done, progress>>
      PROVE  ProgressBound'
  <2>1. Percent(Offset(phase) + done)' = Percent(Offset(phase) + done)
    BY <1>1 DEF Percent, Offset, StageCount, One
  <2> QED
    BY <1>1, <2>1
<1>2. ASSUME phase' \in {"idle", "broken"}, phase' = "broken" => progress' <= 99
      PROVE  ProgressBound'
  BY <1>2 DEF Stage
<1>3. ASSUME Begin PROVE ProgressBound'
  BY <1>3, <1>1, <1>2
  DEF Begin, Stage
<1>4. ASSUME WipeFiles PROVE ProgressBound'
  BY <1>4, <1>1, <1>2
  DEF WipeFiles, Stage
<1>5. ASSUME WipeCommit PROVE ProgressBound'
  <2>1. phase' = "render_pages" /\ todo' = PageNo /\ done' = 0 /\ progress' = 0
    BY <1>5 DEF WipeCommit
  <2>2. Cardinality(todo') \in 0..NumPages
    BY <2>1, ListFact
  <2>3. Percent(Offset(phase) + done)' = Percent(0)
    BY <1>5, <2>1 DEF WipeCommit, Percent, Offset, StageCount, One
  <2>4. Percent(0) \in 0..99
    BY PercentRange
  <2> QED
    BY <2>1, <2>2, <2>3, <2>4, NumPagesAssumption
<1>6. ASSUME BeginPage PROVE ProgressBound'
  BY <1>6, <1>1, <1>2
  DEF BeginPage, Between
<1>7. ASSUME NEW f \in File, Stores(f) PROVE ProgressBound'
  BY <1>7, <1>1, <1>2
  DEF Stores, Put
<1>8. ASSUME PageSucceeds PROVE ProgressBound'
  BY <1>8, LeaveFact DEF PageSucceeds
<1>9. ASSUME PageFails PROVE ProgressBound'
  BY <1>9, <1>1, <1>2
  DEF PageFails
<1>10. ASSUME RemoveFile PROVE ProgressBound'
  BY <1>10, <1>1, <1>2
  DEF RemoveFile
<1>11. ASSUME RecordFailure PROVE ProgressBound'
  <2>1. page # 0
    BY <1>11 DEF RecordFailure, Shape
  <2> QED
    BY <1>11, <2>1, LeaveFact DEF RecordFailure
<1>12. ASSUME NextStageBegins PROVE ProgressBound'
  <2>1. /\ phase \in Stage /\ todo = {} /\ phase' = NextStage(phase) /\ done' = 0
        /\ phase # LastStage /\ UNCHANGED <<stages, progress>> /\ todo' \subseteq PageNo
    BY <1>12 DEF NextStageBegins, Between
  <2>2. /\ NextStage(phase) \in Stage
        /\ Offset(phase) + NumPages <= Offset(NextStage(phase))
    BY <2>1, NextStageFact
  <2>3. /\ Cardinality(todo') \in 0..NumPages
        /\ done \in Nat /\ done <= NumPages
    BY <2>1, ListFact, FS_EmptySet DEF TypeOK
  <2>4. Percent(Offset(phase) + done)' = Percent(Offset(NextStage(phase)))
    <3>1. Percent(Offset(phase) + done)' = Percent(Offset(NextStage(phase)) + 0)
      BY <2>1 DEF Percent, Offset, StageCount, One
    <3>2. Offset(NextStage(phase)) + 0 = Offset(NextStage(phase))
      BY <2>2, OffsetRange
    <3> QED
      BY <3>1, <3>2
  <2>5. /\ Offset(phase) + done \in Nat /\ Offset(NextStage(phase)) \in Nat
        /\ Offset(phase) + done <= Offset(NextStage(phase))
    BY <2>1, <2>2, <2>3, OffsetRange, NumPagesAssumption
  <2>6. Percent(Offset(phase) + done) <= Percent(Offset(NextStage(phase)))
    BY <2>5, PercentMonotone
  <2>7. progress <= Percent(Offset(NextStage(phase))) /\ progress <= 99
    <3>1. progress \in Nat
      BY DEF TypeOK
    <3> QED
      BY <2>1, <2>5, <2>6, <3>1, PercentRange DEF Stage
  <2> QED
    BY <2>1, <2>2, <2>3, <2>4, <2>7, NumPagesAssumption DEF Stage
<1>13. ASSUME Finish PROVE ProgressBound'
  BY <1>13, <1>1, <1>2
  DEF Finish, Between, Stage
<1>14. ASSUME PipelineFailure PROVE ProgressBound'
  BY <1>14, <1>1, <1>2
  DEF PipelineFailure, Break, NoWork, Stage
<1>15. ASSUME RowIsGone PROVE ProgressBound'
  BY <1>15, <1>1, <1>2
  DEF RowIsGone, Break, NoWork, Between, Shape, Stage
<1>16. ASSUME SoftTimeLimit PROVE ProgressBound'
  BY <1>16, <1>1, <1>2
  DEF SoftTimeLimit, Interrupted, Running, Break, NoWork
<1>17. ASSUME Dies PROVE ProgressBound'
  BY <1>17, <1>1, <1>2
  DEF Dies, Interrupted, Running, NoWork
<1>18. ASSUME MarkFailed PROVE ProgressBound'
  BY <1>18, <1>1, <1>2
  DEF MarkFailed
<1>19. ASSUME DeleteRows PROVE ProgressBound'
  BY <1>19, <1>1, <1>2
  DEF DeleteRows, DropRows
<1>20. ASSUME DeleteRowsBreakingRun PROVE ProgressBound'
  BY <1>20, <1>1, <1>2
  DEF DeleteRowsBreakingRun, DropRows, NoWork, Shape, Stage
<1>21. ASSUME DeleteFiles PROVE ProgressBound'
  BY <1>21, <1>1, <1>2
  DEF DeleteFiles
<1>22. CASE UNCHANGED vars \/ Refuse \/ Reprocess
  BY <1>22, <1>1, <1>2
  DEF vars, Refuse, Reprocess
<1> QED
  BY <1>3, <1>4, <1>5, <1>6, <1>7, <1>8, <1>9, <1>10, <1>11, <1>12, <1>13, <1>14,
     <1>15, <1>16, <1>17, <1>18, <1>19, <1>20, <1>21, <1>22, StoresCover
  DEF Next, RunStep, PageStep, Start, Restart, HostCrash, TaskLost

----------------------------------------------------------------------------
(* The theorems.                                                            *)

\* The invariant holds before the first run.
LEMMA InitIInv == Init => IInv
<1> SUFFICES ASSUME Init PROVE IInv
  OBVIOUS
<1> USE DEF Init
<1>1. TypeOK
  <2>1. 0 \in 0..NumPages /\ runs \in 0..MaxRuns /\ faults \in 0..MaxFaults
    BY NumPagesAssumption, BoundsAssumption
  <2>2. /\ exists \in BOOLEAN /\ failing \in BOOLEAN
        /\ files \subseteq File /\ written \subseteq File
    BY Zenon
  <2>3. /\ row \in [PageNo -> {"NONE", "RENDERED", "TEXT_READ", "PANELS_FOUND", "COMPLETED",
                             "FAILED"}]
        /\ error \in [PageNo -> Stage \cup {"none"}]
        /\ refs \in [PageNo -> SUBSET File]
    BY DEF NoRow, NoError, NoRefs
  <2>4. /\ stages \subseteq Stage /\ todo \subseteq PageNo /\ done \in Nat
        /\ page \in 0..NumPages /\ progress \in 0..100
    BY <2>1 DEF Stage
  <2> QED
    BY <2>1, <2>2, <2>3, <2>4 DEF TypeOK
<1>2. AllRefs = {}
  BY AllRefsFact
<1>3. Shape
  BY DEF Shape, Stage
<1>4. OwnFiles
  BY <1>2 DEF OwnFiles, NoRefs
<1>5. FilesMatch
  BY <1>2 DEF FilesMatch, RowsHaveFiles
<1>6. StageFacts /\ Unfinished /\ DoneIsHonest /\ ProgressBound
  BY DEF StageFacts, Unfinished, DoneIsHonest, ProgressBound, Stage, Running
<1> QED
  BY <1>1, <1>3, <1>4, <1>5, <1>6 DEF IInv

\* Every step preserves it.
LEMMA NextIInv == IInv /\ [Next]_vars => IInv'
BY TypeStep, ShapeStep, OwnFilesStep, FilesMatchStep, UnfinishedStep, StageFactsStep,
   DoneIsHonestStep, ProgressBoundStep
DEF IInv

\* It is an invariant of the specification.
LEMMA Invariance == Spec => []IInv
<1>1. Init => IInv
  BY InitIInv
<1>2. IInv /\ [Next]_vars => IInv'
  BY NextIInv
<1> QED
  BY <1>1, <1>2, PTL DEF Spec

\* Every variable of a run keeps its type, whatever breaks it off.
THEOREM TypeCorrect == Spec => []TypeOK
<1>1. IInv => TypeOK
  BY DEF IInv
<1> QED
  BY <1>1, Invariance, PTL

\* Between two pages the files are exactly those the rows refer to, unless the run
\* was interrupted (the module docstring's "no orphaned files").
THEOREM FilesAreThose == Spec => []NothingLeftBehind
<1>1. IInv => NothingLeftBehind
  <2> SUFFICES ASSUME IInv, damage = "none", page = 0, phase # "wiping", purge # "due"
               PROVE  files = AllRefs
    BY DEF NothingLeftBehind
  <2>1. AllRefs \subseteq files
    BY DEF IInv, FilesMatch, RowsHaveFiles
  <2>2. files \subseteq AllRefs \cup written /\ written = {}
    BY DEF IInv, FilesMatch, Shape
  <2> QED
    BY <2>1, <2>2
<1> QED
  BY <1>1, Invariance, PTL

\* A committed row never refers to a file that is gone, except while an earlier
\* run's files are being wiped or after that was interrupted.
THEOREM PicturesAreThere == Spec => []RowsHaveFiles
<1>1. IInv => RowsHaveFiles
  BY DEF IInv, FilesMatch
<1> QED
  BY <1>1, Invariance, PTL

\* COMPLETED and PARTIALLY_COMPLETED say what the pages of the run really reached,
\* unless a run whose own status was never stored, or was set back by a request, has
\* been cut off since.
THEOREM FinishIsHonest == Spec => []DoneIsHonest
<1>1. IInv => DoneIsHonest
  BY DEF IInv
<1> QED
  BY <1>1, Invariance, PTL

\* What a step inside a stage may do to the pages.
Advance ==
  exists' /\ phase \in Stage =>
    \A n \in PageNo : Rank[row[n]] <= Rank[row'[n]] /\ refs[n] \subseteq refs'[n]

\* Inside a stage only the page in work changes, and it only gains.
LEMMA RowsOnlyAdvance ==
  ASSUME TypeOK, Shape, StageFacts, [Next]_vars
  PROVE  Advance
<1> USE DEF owner, rows, list, current, counts, history, Advance
<1>1. ASSUME UNCHANGED <<row, refs>> PROVE Advance
  <2>1. \A n \in PageNo : Rank[row[n]] \in Nat
    BY RankFact DEF TypeOK
  <2> QED
    BY <1>1, <2>1
<1>2. ASSUME Begin PROVE Advance
  BY <1>2, <1>1
  DEF Begin
<1>3. ASSUME WipeFiles PROVE Advance
  BY <1>3, <1>1
  DEF WipeFiles
<1>4. ASSUME WipeCommit PROVE Advance
  BY <1>4 DEF WipeCommit, Stage
<1>5. ASSUME BeginPage PROVE Advance
  BY <1>5, <1>1
  DEF BeginPage, Between
<1>6. ASSUME NEW f \in File, Stores(f) PROVE Advance
  BY <1>6, <1>1
  DEF Stores, Put
<1>7. ASSUME PageSucceeds PROVE Advance
  <2>1. page \in todo /\ phase \in Stage /\ exists /\ todo \subseteq PageNo
    BY <1>7 DEF PageSucceeds, Shape, TypeOK
  <2>2. \A n \in PageNo : /\ row'[n] = IF n = page THEN Reached(phase) ELSE row[n]
                          /\ refs'[n] = IF n = page THEN refs[n] \cup written ELSE refs[n]
    BY <1>7, <2>1 DEF PageSucceeds, TypeOK
  <2>3. row[page] = Before(phase)
    BY <2>1 DEF StageFacts
  <2>4. \A n \in PageNo : Rank[row[n]] \in Nat
    BY RankFact DEF TypeOK
  <2>5. Rank[row[page]] <= Rank[Reached(phase)]
    BY <2>1, <2>3, StageOrder
  <2>6. ASSUME NEW n \in PageNo PROVE Rank[row[n]] <= Rank[row'[n]]
    <3>1. CASE n = page
      <4>1. row'[n] = Reached(phase)
        BY <2>2, <3>1
      <4> QED
        BY <2>5, <3>1, <4>1
    <3>2. CASE n # page
      <4>1. row'[n] = row[n]
        BY <2>2, <3>2
      <4> QED
        BY <2>4, <4>1
    <3> QED
      BY <3>1, <3>2
  <2>7. \A n \in PageNo : refs[n] \subseteq refs'[n]
    BY <2>2
  <2> QED
    BY <2>6, <2>7
<1>8. ASSUME PageFails PROVE Advance
  BY <1>8, <1>1
  DEF PageFails
<1>9. ASSUME RemoveFile PROVE Advance
  BY <1>9, <1>1
  DEF RemoveFile
<1>10. ASSUME RecordFailure PROVE Advance
  <2>1. page \in todo /\ phase \in Stage /\ exists /\ todo \subseteq PageNo
    BY <1>10 DEF RecordFailure, Shape, TypeOK
  <2>2. \A n \in PageNo :
          row'[n] = IF n = page /\ phase = "render_pages" THEN "FAILED" ELSE row[n]
    BY <1>10, <2>1 DEF RecordFailure, TypeOK
  <2>3. phase = "render_pages" => row[page] = "NONE"
    BY <2>1 DEF StageFacts, Before
  <2>4. \A n \in PageNo : Rank[row[n]] \in Nat
    BY RankFact DEF TypeOK
  <2>5. UNCHANGED refs
    BY <1>10 DEF RecordFailure
  <2> QED
    BY <2>1, <2>2, <2>3, <2>4, <2>5, RankFact
<1>11. ASSUME NextStageBegins PROVE Advance
  BY <1>11, <1>1
  DEF NextStageBegins, Between
<1>12. ASSUME Finish PROVE Advance
  BY <1>12, <1>1
  DEF Finish, Between
<1>13. ASSUME PipelineFailure PROVE Advance
  BY <1>13, <1>1
  DEF PipelineFailure, Break, NoWork
<1>14. ASSUME RowIsGone PROVE Advance
  BY <1>14, <1>1
  DEF RowIsGone, Break, NoWork, Between
<1>15. ASSUME SoftTimeLimit PROVE Advance
  BY <1>15, <1>1
  DEF SoftTimeLimit, Interrupted, Running, Break, NoWork
<1>16. ASSUME Dies PROVE Advance
  BY <1>16, <1>1
  DEF Dies, Interrupted, Running, NoWork
<1>17. ASSUME MarkFailed PROVE Advance
  BY <1>17, <1>1
  DEF MarkFailed
<1>18. ASSUME DeleteRows PROVE Advance
  BY <1>18, <1>1
  DEF DeleteRows, DropRows
<1>19. ASSUME DeleteRowsBreakingRun PROVE Advance
  BY <1>19, <1>1
  DEF DeleteRowsBreakingRun, DropRows, NoWork
<1>20. ASSUME DeleteFiles PROVE Advance
  BY <1>20, <1>1
  DEF DeleteFiles
<1>21. CASE UNCHANGED vars \/ Refuse \/ Reprocess
  BY <1>21, <1>1
  DEF vars, Refuse, Reprocess
<1> QED
  BY <1>2, <1>3, <1>4, <1>5, <1>6, <1>7, <1>8, <1>9, <1>10, <1>11, <1>12, <1>13,
     <1>14, <1>15, <1>16, <1>17, <1>18, <1>19, <1>20, <1>21, StoresCover
  DEF Next, RunStep, PageStep, Start, Restart, HostCrash, TaskLost

\* "One bad page never loses the catalogue": inside a run no page falls back to an
\* earlier status or loses a picture it had.
THEOREM OnlyAdvance == Spec => PagesOnlyAdvance
<1>1. IInv /\ [Next]_vars => [exists' /\ phase \in Stage =>
                                \A n \in PageNo : /\ Rank[row[n]] <= Rank[row'[n]]
                                                  /\ refs[n] \subseteq refs'[n]]_vars
  BY RowsOnlyAdvance DEF IInv, Advance
<1> QED
  BY <1>1, Invariance, PTL DEF Spec, PagesOnlyAdvance

\* What a step of a run may do to progress.
Rises == phase # "idle" => progress' >= progress /\ (progress' = 100 => phase' = "idle")

\* No step of a run turns progress back.
LEMMA ProgressRises ==
  ASSUME TypeOK, Shape, ProgressBound, [Next]_vars
  PROVE  Rises
<1> USE DEF owner, rows, list, current, counts, history, Rises
<1>1. progress \in 0..100
  BY DEF TypeOK
<1>2. phase # "idle" => progress <= 99
  BY DEF ProgressBound
<1>3. ASSUME UNCHANGED progress PROVE Rises
  BY <1>1, <1>2, <1>3
<1>4. ASSUME Begin PROVE Rises
  BY <1>4, <1>1, <1>2, <1>3
  DEF Begin
<1>5. ASSUME WipeFiles PROVE Rises
  BY <1>5, <1>1, <1>2, <1>3
  DEF WipeFiles
<1>6. ASSUME WipeCommit PROVE Rises
  BY <1>6, <1>1, <1>2, <1>3
  DEF WipeCommit, DropRows
<1>7. ASSUME BeginPage PROVE Rises
  BY <1>7, <1>1, <1>2, <1>3
  DEF BeginPage, Between
<1>8. ASSUME NEW f \in File, Stores(f) PROVE Rises
  BY <1>8, <1>1, <1>2, <1>3
  DEF Stores, Put
<1>9. ASSUME PageSucceeds PROVE Rises
  <2>1. ProgressBound' /\ progress <= progress' /\ UNCHANGED phase
    BY <1>9, LeaveFact DEF PageSucceeds
  <2>2. phase # "idle"
    BY <1>9 DEF PageSucceeds, Shape, Stage
  <2>3. progress' <= 99
    BY <2>1, <2>2 DEF ProgressBound
  <2> QED
    BY <2>1, <2>3
<1>10. ASSUME PageFails PROVE Rises
  BY <1>10, <1>1, <1>2, <1>3
  DEF PageFails
<1>11. ASSUME RemoveFile PROVE Rises
  BY <1>11, <1>1, <1>2, <1>3
  DEF RemoveFile
<1>12. ASSUME RecordFailure PROVE Rises
  <2>1. page # 0 /\ phase # "idle"
    BY <1>12 DEF RecordFailure, Shape, Stage
  <2>2. ProgressBound' /\ progress <= progress' /\ UNCHANGED phase
    BY <1>12, <2>1, LeaveFact DEF RecordFailure
  <2>3. progress' <= 99
    BY <2>1, <2>2 DEF ProgressBound
  <2> QED
    BY <2>2, <2>3
<1>13. ASSUME NextStageBegins PROVE Rises
  BY <1>13, <1>1, <1>2, <1>3
  DEF NextStageBegins, Between
<1>14. ASSUME Finish PROVE Rises
  BY <1>14, <1>1, <1>2, <1>3
  DEF Finish, Between
<1>15. ASSUME PipelineFailure PROVE Rises
  BY <1>15, <1>1, <1>2, <1>3
  DEF PipelineFailure, Break, NoWork
<1>16. ASSUME RowIsGone PROVE Rises
  BY <1>16, <1>1, <1>2, <1>3
  DEF RowIsGone, Break, NoWork, Between
<1>17. ASSUME SoftTimeLimit PROVE Rises
  BY <1>17, <1>1, <1>2, <1>3
  DEF SoftTimeLimit, Interrupted, Running, Break, NoWork
<1>18. ASSUME Dies PROVE Rises
  BY <1>18, <1>1, <1>2, <1>3
  DEF Dies, Interrupted, Running, NoWork
<1>19. ASSUME MarkFailed PROVE Rises
  BY <1>19, <1>1, <1>2, <1>3
  DEF MarkFailed
<1>20. ASSUME DeleteRows PROVE Rises
  BY <1>20, <1>1, <1>2, <1>3
  DEF DeleteRows, DropRows
<1>21. ASSUME DeleteRowsBreakingRun PROVE Rises
  BY <1>21, <1>1, <1>2, <1>3
  DEF DeleteRowsBreakingRun, DropRows, NoWork
<1>22. ASSUME DeleteFiles PROVE Rises
  BY <1>22, <1>1, <1>2, <1>3
  DEF DeleteFiles
<1>23. CASE UNCHANGED vars \/ Refuse \/ Reprocess
  BY <1>23, <1>1, <1>2, <1>3
  DEF vars, Refuse, Reprocess
<1> QED
  BY <1>4, <1>5, <1>6, <1>7, <1>8, <1>9, <1>10, <1>11, <1>12, <1>13, <1>14, <1>15,
     <1>16, <1>17, <1>18, <1>19, <1>20, <1>21, <1>22, <1>23, StoresCover
  DEF Next, RunStep, PageStep, Start, Restart, HostCrash, TaskLost

\* Progress never falls while a run is under way, and 100 is said by Finish alone.
THEOREM NeverFalls == Spec => ProgressNeverFalls
<1>1. IInv /\ [Next]_vars =>
        [phase # "idle" => progress' >= progress /\ (progress' = 100 => phase' = "idle")]_vars
  BY ProgressRises DEF IInv, Rises
<1> QED
  BY <1>1, Invariance, PTL DEF Spec, ProgressNeverFalls
=============================================================================
