---------------------------- MODULE PipelineRun ----------------------------
(***************************************************************************)
(* The inside of a pipeline run: every page goes through the stages that   *)
(* are switched on, its rows are committed page by page, its pictures are  *)
(* files that no transaction protects.  One action is one commit or one    *)
(* file operation.  Runs of a catalogue follow one another (see            *)
(* CatalogueJobs); a forced deletion comes at any time.                    *)
(*                                                                         *)
(* A file is named by what it shows: number n is the picture of page n     *)
(* (its thumbnail goes with it), a member of Keys is a picture stored      *)
(* under a fresh uuid: an embedded image, a panel or a product.            *)
(***************************************************************************)
EXTENDS Integers

CONSTANTS NumPages,   \* pages of the PDF
          Keys,       \* uuid keys for pictures
          MaxRuns,    \* runs that may start (the bound)
          MaxFaults   \* interruptions that may happen (the bound)

ASSUME NumPagesAssumption == NumPages \in Nat \ {0}
ASSUME KeysAssumption == Keys \cap Int = {}
ASSUME BoundsAssumption == MaxRuns \in Nat /\ MaxFaults \in Nat

VARIABLES exists,     \* the catalogue's row is there
          purge,      \* removal of a deleted catalogue's files: no, due or done
          catalogue,  \* catalogues.status
          row,        \* per page: its committed status, "NONE" without a row
          error,      \* per page: error_stage, "none" without an error
          refs,       \* per page: the files its committed rows refer to
          files,      \* the files that are there
          phase,      \* where the run is
          stages,     \* the stages that are switched on
          todo,       \* pages the present stage has still to work on
          done,       \* pages it has worked on
          page,       \* the page in work, 0 between two pages
          failing,    \* that page has failed, its files are being removed
          written,    \* the files written for it
          progress,   \* processing_jobs.progress
          runs, faults,  \* how many there have been
          returning,  \* messages of dead workers that will be delivered again
          damage,     \* what interruptions may have left behind (for properties)
          silent,     \* the latest run's own status is not stored (for properties)
          abandoned   \* it was lost and nobody will take it up (for properties)

owner   == <<exists, purge>>
rows    == <<row, error, refs>>
list    == <<todo, done>>
current == <<page, failing, written>>
counts  == <<runs, faults, returning>>
history == <<damage, silent, abandoned>>
vars == <<owner, rows, files, catalogue, phase, stages, list, current, progress, counts,
          history>>

Stage == {"render_pages", "read_text", "find_panels", "find_products"}
PageNo == 1..NumPages
File == PageNo \cup Keys
NoRow   == [n \in PageNo |-> "NONE"]
NoError == [n \in PageNo |-> "none"]
NoRefs  == [n \in PageNo |-> {}]
AllRefs == UNION {refs[n] : n \in PageNo}
NoWork  == page' = 0 /\ failing' = FALSE /\ written' = {}
DropRows == row' = NoRow /\ error' = NoError /\ refs' = NoRefs

TypeOK ==
  /\ exists \in BOOLEAN
  /\ purge \in {"no", "due", "done"}
  /\ catalogue \in {"UPLOADED", "PROCESSING", "COMPLETED", "PARTIALLY_COMPLETED",
                    "FAILED"}
  /\ row \in [PageNo -> {"NONE", "RENDERED", "TEXT_READ", "PANELS_FOUND", "COMPLETED",
                         "FAILED"}]
  /\ error \in [PageNo -> Stage \cup {"none"}]
  /\ refs \in [PageNo -> SUBSET File]
  /\ files \subseteq File
  /\ phase \in {"idle", "started", "wiping", "broken"} \cup Stage
  /\ stages \subseteq Stage
  /\ todo \subseteq PageNo
  /\ done \in Nat
  /\ page \in 0..NumPages
  /\ failing \in BOOLEAN
  /\ written \subseteq File
  /\ progress \in 0..100
  /\ runs \in 0..MaxRuns
  /\ faults \in 0..MaxFaults
  /\ returning \in Nat
  /\ damage \in {"none", "files", "rows"}
  /\ silent \in BOOLEAN
  /\ abandoned \in BOOLEAN

Init ==
  /\ exists = TRUE
  /\ purge = "no"
  /\ catalogue = "UPLOADED"
  /\ row = NoRow
  /\ error = NoError
  /\ refs = NoRefs
  /\ files = {}
  /\ phase = "idle"
  /\ stages = {"render_pages"}
  /\ todo = {}
  /\ done = 0
  /\ page = 0
  /\ failing = FALSE
  /\ written = {}
  /\ progress = 0
  /\ runs = 0
  /\ faults = 0
  /\ returning = 0
  /\ damage = "none"
  /\ silent = FALSE
  /\ abandoned = FALSE

----------------------------------------------------------------------------
(* Stages.                                                                 *)

\* The status of a page that has completed a stage.
Reached(stage) ==
  CASE stage = "render_pages"  -> "RENDERED"
    [] stage = "read_text"     -> "TEXT_READ"
    [] stage = "find_panels"   -> "PANELS_FOUND"
    [] stage = "find_products" -> "COMPLETED"

\* The last stage: its status is the final one.
LastStage ==
  IF "find_products" \in stages THEN "find_products"
  ELSE IF "find_panels" \in stages THEN "find_panels"
  ELSE IF "read_text" \in stages THEN "read_text" ELSE "render_pages"

FinalStatus == Reached(LastStage)

\* The stage that follows: text, panels and products are called in turn.
NextStage(stage) ==
  IF stage = "render_pages" /\ "read_text" \in stages THEN "read_text"
  ELSE IF stage \in {"render_pages", "read_text"} /\ "find_panels" \in stages
  THEN "find_panels" ELSE "find_products"

\* How far a page has come; a page that could not be rendered goes no further.
Rank == [NONE |-> 0, RENDERED |-> 1, TEXT_READ |-> 2, PANELS_FOUND |-> 3, COMPLETED |-> 4,
         FAILED |-> 0]

Usable == {"RENDERED", "TEXT_READ", "PANELS_FOUND"}

\* One unit of progress per page and stage; 100 is reserved for "finished".
One(stage) == IF stage \in stages THEN 1 ELSE 0

StageCount == 1 + One("read_text") + One("find_panels") + One("find_products")

\* Mutant: the panels stage is placed as if no text were read.
OffsetWithoutText(stage) ==
  CASE stage = "render_pages"  -> 0
    [] stage = "read_text"     -> NumPages
    [] stage = "find_panels"   -> NumPages
    [] stage = "find_products" -> NumPages * 2

Offset(stage) ==
  CASE stage = "render_pages"  -> 0
    [] stage = "read_text"     -> NumPages
    [] stage = "find_panels"   -> NumPages * (1 + One("read_text"))
    [] stage = "find_products" -> NumPages * (2 + One("read_text"))

\* Mutant: the share of one stage, not of all of them.
PercentOfPages(units) == (units * 100) \div NumPages

Percent(units) ==
  LET share == (units * 100) \div (NumPages * StageCount)
  IN IF share < 99 THEN share ELSE 99

----------------------------------------------------------------------------
(* A run.                                                                  *)

Running == phase # "idle"
Between == phase \in Stage /\ page = 0

\* First commit of _run; which stages are on is the worker's configuration.  The
\* status is written only if it differs from the one loaded before the lock was
\* taken: a run that loaded PROCESSING while another was under way leaves the
\* status with which that one has ended.
Begin ==
  /\ phase = "idle"
  /\ exists
  /\ \E on \in SUBSET (Stage \ {"render_pages"}) :
       /\ "find_products" \in on => "find_panels" \in on
       /\ stages' = on \cup {"render_pages"}
  /\ catalogue' \in {"PROCESSING"} \cup (IF runs = 0 THEN {} ELSE {catalogue})
  /\ silent' = (catalogue' # "PROCESSING")
  /\ abandoned' = FALSE
  /\ progress' = 0
  /\ phase' = "started"
  /\ UNCHANGED <<owner, rows, files, list, current, faults, damage>>

\* The run of a new job.
Start == Begin /\ runs < MaxRuns /\ runs' = runs + 1 /\ UNCHANGED returning

\* A dead worker's message has been delivered again: its run starts over.
Restart == Begin /\ returning > 0 /\ returning' = returning - 1 /\ UNCHANGED runs

\* It comes while another run has the lock: the job is refused.
Refuse ==
  /\ Running
  /\ returning > 0 /\ returning' = returning - 1
  /\ UNCHANGED <<owner, rows, files, catalogue, phase, stages, list, current, progress,
                 runs, faults, history>>

\* The rows of earlier runs are deleted, uncommitted; their files go now.
WipeFiles ==
  /\ phase = "started"
  /\ phase' = "wiping"
  /\ files' = {}
  /\ UNCHANGED <<owner, rows, catalogue, stages, list, current, progress, counts,
                 history>>

\* Mutant: the delete is not committed before the pages are rendered.
WipeCommitLate ==
  /\ phase = "wiping"
  /\ phase' = "render_pages"
  /\ todo' = PageNo
  /\ done' = 0
  /\ damage' = "none"
  /\ UNCHANGED <<owner, rows, files, catalogue, stages, current, progress, counts,
                 silent, abandoned>>

WipeCommit ==
  /\ phase = "wiping"
  /\ phase' = "render_pages"
  /\ DropRows
  /\ todo' = PageNo
  /\ done' = 0
  /\ damage' = "none"
  /\ UNCHANGED <<owner, files, catalogue, stages, current, progress, counts,
                 silent, abandoned>>

\* The pages of a stage are worked on in order.  Rendering inserts the page's
\* row first, which needs the catalogue's.
BeginPage ==
  /\ Between
  /\ \E n \in todo :
       /\ \A m \in todo : n <= m
       /\ page' = n
  /\ phase = "render_pages" => exists
  /\ UNCHANGED <<owner, rows, files, catalogue, phase, stages, list, failing,
                 written, progress, counts, history>>

\* One file is written; a uuid is of no file and of no row.
Put(f) ==
  /\ page # 0 /\ ~failing
  /\ files' = files \cup {f}
  /\ written' = written \cup {f}
  /\ UNCHANGED <<owner, rows, catalogue, phase, stages, list, page, failing, progress,
                 counts, history>>

Fresh == Keys \ (files \cup AllRefs)

StorePagePicture == phase = "render_pages" /\ page \notin written /\ Put(page)

StoreEmbedded ==
  /\ phase = "render_pages" /\ page \in written
  /\ \E f \in Fresh : Put(f)

StorePanel == phase = "find_panels" /\ \E f \in Fresh : Put(f)

\* A find's row is flushed before its pictures are written.
StoreFind == phase = "find_products" /\ exists /\ \E f \in Fresh : Put(f)

\* The page leaves the stage: progress is committed with its rows.
LeavePage ==
  /\ todo' = todo \ {page}
  /\ done' = done + 1
  /\ progress' = Percent(Offset(phase) + done')
  /\ NoWork

\* Nothing of the page is committed when a row it needs has been deleted.
PageSucceeds ==
  /\ page # 0 /\ ~failing
  /\ exists
  /\ phase = "render_pages" => page \in written
  /\ row' = [row EXCEPT ![page] = Reached(phase)]
  /\ error' = [error EXCEPT ![page] = "none"]
  /\ refs' = [refs EXCEPT ![page] = @ \cup written]
  /\ LeavePage
  /\ UNCHANGED <<owner, files, catalogue, phase, stages, counts, history>>

\* Anything raised while the page is worked on, the savepoint is rolled back.
PageFails ==
  /\ page # 0 /\ ~failing
  /\ failing' = TRUE
  /\ UNCHANGED <<owner, rows, files, catalogue, phase, stages, list, page, written,
                 progress, counts, history>>

RemoveFile ==
  /\ failing
  /\ \E f \in written :
       /\ files' = files \ {f}
       /\ written' = written \ {f}
  /\ UNCHANGED <<owner, rows, catalogue, phase, stages, list, page, failing,
                 progress, counts, history>>

\* Mutant: the files of a page that failed are forgotten.
RecordFailureOnly ==
  /\ failing
  /\ exists
  /\ row' = [row EXCEPT ![page] = IF phase = "render_pages" THEN "FAILED" ELSE @]
  /\ error' = [error EXCEPT ![page] = phase]
  /\ LeavePage
  /\ UNCHANGED <<owner, refs, files, catalogue, phase, stages, counts, history>>

\* Mutant: the page of a later stage that failed counts as failed altogether.
RecordFailureAsFailed ==
  /\ failing /\ written = {}
  /\ exists
  /\ row' = [row EXCEPT ![page] = "FAILED"]
  /\ error' = [error EXCEPT ![page] = phase]
  /\ refs' = [refs EXCEPT ![page] = {}]
  /\ LeavePage
  /\ UNCHANGED <<owner, files, catalogue, phase, stages, counts, history>>

\* A page that could not be rendered gets a FAILED row; in later stages it keeps
\* the status it had.
RecordFailure ==
  /\ failing /\ written = {}
  /\ exists
  /\ row' = [row EXCEPT ![page] = IF phase = "render_pages" THEN "FAILED" ELSE @]
  /\ error' = [error EXCEPT ![page] = phase]
  /\ LeavePage
  /\ UNCHANGED <<owner, refs, files, catalogue, phase, stages, counts, history>>

\* The pages a stage works on are those that completed the stage before.
NextStageBegins ==
  /\ Between
  /\ todo = {}
  /\ phase # LastStage
  /\ exists
  /\ phase = "render_pages" => \E n \in PageNo : row[n] \in Usable
  /\ LET previous ==
           IF NextStage(phase) = "find_products" THEN "PANELS_FOUND"
           ELSE IF NextStage(phase) = "find_panels" /\ "read_text" \in stages
           THEN "TEXT_READ" ELSE "RENDERED"
     IN todo' = {n \in PageNo : row[n] = previous}
  /\ phase' = NextStage(phase)
  /\ done' = 0
  /\ UNCHANGED <<owner, rows, files, catalogue, stages, current, progress, counts,
                 history>>

\* Mutant: every page with a usable picture counts as finished.
FinishWithUsable ==
  /\ Between
  /\ todo = {}
  /\ phase = LastStage
  /\ exists
  /\ \E n \in PageNo : row[n] \in Usable \cup {"COMPLETED"}
  /\ catalogue' = IF \A n \in PageNo : row[n] \in Usable \cup {"COMPLETED"}
                  THEN "COMPLETED" ELSE "PARTIALLY_COMPLETED"
  /\ progress' = 100
  /\ phase' = "idle"
  /\ silent' = FALSE
  /\ UNCHANGED <<owner, rows, files, stages, list, current, counts, damage, abandoned>>

Finish ==
  /\ Between
  /\ todo = {}
  /\ phase = LastStage
  /\ exists
  /\ phase = "render_pages" => \E n \in PageNo : row[n] \in Usable
  /\ catalogue' = IF \A n \in PageNo : row[n] = FinalStatus
                  THEN "COMPLETED" ELSE "PARTIALLY_COMPLETED"
  /\ progress' = 100
  /\ phase' = "idle"
  /\ silent' = FALSE
  /\ UNCHANGED <<owner, rows, files, stages, list, current, counts, damage, abandoned>>

----------------------------------------------------------------------------
(* How a run breaks off.                                                   *)

Break ==
  /\ phase' = "broken"
  /\ NoWork
  /\ UNCHANGED <<owner, rows, files, catalogue, stages, list, progress, runs, returning,
                 silent, abandoned>>

\* An engine that does not start, a PDF that is missing, empty, too long or
\* unreadable, no page that could be rendered, or phrases to look for that are
\* refused when the first page needs them.
PipelineFailure ==
  /\ \/ phase = "started"
     \/ phase = "render_pages" /\ page = 0 /\ done = 0
     \/ phase = "render_pages" /\ todo = {} /\ \A n \in PageNo : row[n] \notin Usable
     \/ phase = "find_products" /\ page = 0 /\ done = 0 /\ todo # {}
  /\ Break
  /\ UNCHANGED <<faults, damage>>

\* A row the run wants to write has been deleted with the catalogue.
RowIsGone ==
  /\ ~exists
  /\ Between \/ (failing /\ written = {})
  /\ Break
  /\ UNCHANGED <<faults, damage>>

\* Whatever the run had written so far stays.
Interrupted ==
  /\ Running
  /\ faults < MaxFaults
  /\ faults' = faults + 1
  /\ damage' = IF phase = "broken" THEN damage
               ELSE IF phase = "wiping" \/ damage = "rows" THEN "rows" ELSE "files"

\* The soft time limit, or a commit that fails.
SoftTimeLimit == phase # "broken" /\ Interrupted /\ Break

\* Mutant: only the job is told.
MarkFailedKeepingStatus ==
  /\ phase = "broken"
  /\ phase' = "idle"
  /\ UNCHANGED <<owner, rows, files, catalogue, stages, list, current, progress,
                 counts, history>>

MarkFailed ==
  /\ phase = "broken"
  /\ catalogue' = IF exists THEN "FAILED" ELSE catalogue
  /\ phase' = "idle"
  /\ silent' = FALSE
  /\ UNCHANGED <<owner, rows, files, stages, list, current, progress, counts, damage,
                 abandoned>>

\* The run ends anywhere, in _mark_failed too, and writes nothing of it.
Dies ==
  /\ Interrupted
  /\ phase' = "idle"
  /\ NoWork
  /\ UNCHANGED <<owner, rows, files, catalogue, stages, list, progress, runs, silent>>

\* The worker's host is gone; its message was not acknowledged.
HostCrash == Dies /\ returning' = returning + 1 /\ UNCHANGED abandoned

\* The task alone is killed (hard time limit, out of memory) or _mark_failed
\* raises: Celery acknowledges the message.
TaskLost == Dies /\ abandoned' = TRUE /\ UNCHANGED returning

----------------------------------------------------------------------------
(* Requests.                                                               *)

\* Another run is asked for, with force even while one goes on: the status is set
\* back, or to FAILED when the new job cannot be queued.
Reprocess ==
  /\ exists
  /\ runs < MaxRuns
  /\ catalogue' \in {"UPLOADED", "FAILED"} \ {catalogue}
  /\ silent' = (silent \/ Running)
  /\ UNCHANGED <<owner, rows, files, phase, stages, list, current, progress, counts,
                 damage, abandoned>>

(* Forced deletion.  It waits for a transaction that has inserted a row    *)
(* below the catalogue's: PostgreSQL keeps a share lock on the parent.     *)

HoldsRows ==
  /\ page # 0 /\ ~failing
  /\ phase = "render_pages" \/ (phase = "find_products" /\ written # {})

DeleteRows ==
  /\ exists /\ ~HoldsRows
  /\ exists' = FALSE
  /\ purge' = "due"
  /\ DropRows
  /\ UNCHANGED <<files, catalogue, phase, stages, list, current, progress, counts,
                 history>>

\* The later stages lock a page's row first and update the catalogue's at their
\* commit, a deletion locks them the other way round.  When PostgreSQL resolves
\* the deadlock against the worker, the run breaks and the deletion goes on; when
\* it resolves it against the deletion, nothing has happened.
DeleteRowsBreakingRun ==
  /\ exists
  /\ page # 0 /\ ~failing
  /\ phase # "render_pages"
  /\ phase' = "broken"
  /\ NoWork
  /\ exists' = FALSE
  /\ purge' = "due"
  /\ DropRows
  /\ UNCHANGED <<files, catalogue, stages, list, progress, counts, history>>

DeleteFiles ==
  /\ purge = "due"
  /\ purge' = "done"
  /\ files' = {}
  /\ UNCHANGED <<exists, rows, catalogue, phase, stages, list, current, progress,
                 counts, history>>

----------------------------------------------------------------------------
PageStep ==
  \/ BeginPage
  \/ StorePagePicture \/ StoreEmbedded \/ StorePanel \/ StoreFind
  \/ PageSucceeds \/ PageFails \/ RemoveFile \/ RecordFailure

RunStep ==
  \/ WipeFiles \/ WipeCommit
  \/ PageStep
  \/ NextStageBegins \/ Finish
  \/ PipelineFailure \/ RowIsGone \/ MarkFailed

Next ==
  \/ Start \/ Restart \/ Refuse \/ RunStep
  \/ SoftTimeLimit \/ HostCrash \/ TaskLost
  \/ Reprocess \/ DeleteRows \/ DeleteRowsBreakingRun \/ DeleteFiles

Spec == Init /\ [][Next]_vars

\* A run that has been started goes on, and the message of a dead host comes back;
\* nothing takes up a task that was lost.
FairSpec == Spec /\ WF_vars(RunStep) /\ WF_vars(Restart)

----------------------------------------------------------------------------
(* Properties.                                                             *)

(* "A failure leaves neither half-written rows nor orphaned files" (module  *)
(* docstring), as far as it goes: between two pages the files are exactly   *)
(* those the rows refer to, and a deleted catalogue has none once no page   *)
(* is in work, unless the run was interrupted.                              *)
NothingLeftBehind ==
  damage = "none" /\ page = 0 /\ phase # "wiping" /\ purge # "due" => files = AllRefs

(* A row never refers to a file that is gone, except while earlier runs are *)
(* being wiped or after that was interrupted (_run removes files first).    *)
RowsHaveFiles ==
  phase # "wiping" /\ damage # "rows" => AllRefs \subseteq files

(* COMPLETED: every page completed the last stage that is switched on.      *)
(* PARTIALLY_COMPLETED: some page did not, and each of those says where it  *)
(* failed.  Except after a run that began under the status of another, or   *)
(* whose status a request set back, and that was cut off before its end.    *)
DoneIsHonest ==
  ~Running /\ exists /\ ~silent /\ catalogue \in {"COMPLETED", "PARTIALLY_COMPLETED"} =>
    /\ catalogue = "COMPLETED" <=> \A n \in PageNo : row[n] = FinalStatus
    /\ \A n \in PageNo : row[n] = FinalStatus <=> error[n] = "none"

(* "One bad page never loses the catalogue": a page that failed a later     *)
(* stage keeps the status and the pictures of the last stage it completed.  *)
PagesOnlyAdvance ==
  [][exists' /\ phase \in Stage =>
       \A n \in PageNo : /\ Rank[row[n]] <= Rank[row'[n]]
                         /\ refs[n] \subseteq refs'[n]]_vars

(* Progress never falls during a run, whichever pages drop out of whichever *)
(* stage, and says 100 only for a run that has finished.                    *)
ProgressNeverFalls ==
  [][phase # "idle" => progress' >= progress /\ (progress' = 100 => phase' = "idle")]_vars

(* However pages fail, hosts crash and runs break off, a run comes to an    *)
(* end that is written down, also one that began without writing a status,  *)
(* as long as the catalogue is there and the task is not lost: killed alone *)
(* or unable to commit its failure (see jobs_stuck for what comes of that). *)
EveryRunEnds ==
  Running \/ catalogue = "PROCESSING" ~>
    \/ ~exists \/ abandoned
    \/ ~Running /\ ~silent /\ catalogue # "PROCESSING"
=============================================================================
