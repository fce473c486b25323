# Verification of the catalogue platform

TLA+ specifications of the catalogue platform in `src/`, the TLC configurations
that check them on small instances, and TLAPS proofs for instances of any size.
`PROJECT.json` lists components, runs, mutants (plausible bugs that each checked
property detects), the lines every definition models, hazards and theorems.

Conventions: one action is one database commit, broker call, lock call or file
operation, so that between any two of them every other actor may act. PostgreSQL
runs at READ COMMITTED and SQLAlchemy sessions keep what they have loaded
(`expire_on_commit=False`, `core/database.py:32`), which is why the models carry
what an actor has loaded next to what the database holds.

## The system

A FastAPI process and Celery workers share PostgreSQL, Redis (the broker) and a
file store. Admins upload PDF catalogues; a worker renders the pages, reads
their text, cuts out panels and finds products in them; admins correct the
panels and review product candidates assembled from them.

| Component | State it keeps | Operations | What makes it correct |
| --- | --- | --- | --- |
| Catalogue lifecycle (`services/catalogues.py`) | `catalogues.status`, `processing_jobs`, the stored PDF | upload, reprocess, delete, all with `force` variants; queueing after the commit | a job that is asked for ends; corrections are not lost unasked; a deleted catalogue stays deleted |
| Run of the pipeline (`services/pipeline.py`) | page rows, their status, pictures, panels, finds, progress; an advisory lock on a connection of its own | lock, start, wipe, render, three further stages page by page, finish, mark failed, release | one run at a time; a bad page loses neither the run nor files; progress grows and the last status is honest |
| Workers and queue (`workers/`) | one message per job in Redis | deliver, acknowledge late, die, redeliver | a crash loses no job and starts no second run of a live one |
| Panel editor (`services/panel_edits.py` and helpers) | panels of a page, numbered edits with before/after snapshots, picture files | create, move, delete, undo, under a lock on the page row | undo restores exactly; rows and files agree; no edit while a run is under way |
| Sessions and login (`services/sessions.py`, `auth.py`, `users.py`) | refresh-token families, failure counters | login, refresh with reuse detection, logout, change of password | what was ended stays ended; a retry is not punished; an old token used again ends its family |
| Candidate assembly (`services/candidate_assembly.py`, `candidates.py`) | candidates per page with origin and review marks | assemble (reviews are planned in the code and written by its tests) | no page twice or left out; reviewed work is kept |
| Object storage (`services/storage.py`) | files under prefixes | atomic put, delete, delete a prefix, local copy | readers never see half a file |
| Text recognition (`ocr.py`, `text_signals.py`, `page_classifier.py`) | none | read a page in tiles, pick out codes and sizes, classify | every line once, whole, in reading order |
| Panel detection (`panels.py`) | none | cut a page into its pictures, give them their lines | one panel for each picture, with its edges and its caption |
| Product detection (`detections.py`, `masks.py`, `product_finding.py`) | none | tidy the models' answers, judge outlines, make pictures | one find for each object, pictures that match its outline |

They interact through shared rows (the catalogue, its jobs, its pages), through
one broker message per job, and through the advisory lock. Hard are: requests
that read and then commit while a run commits in between; workers that die with
a message, a lock and half a run; messages that come back; rows deleted under a
run; values loaded before a lock and written after it; files and rows that
change in different orders.

## Modules

| Module | What it is |
| --- | --- |
| `CatalogueJobs` | one catalogue with its jobs, messages, workers, lock, pages and corrections |
| `SerialRuns` | what processing promises about page rows: one run writes at a time |
| `MCCatalogueJobs` | instances for TLC |
| `CatalogueJobsProofs` | the inductive invariant and the theorems |
| `PipelineRun` | the inside of a run: pages through the stages, files against rows, progress and statuses |
| `MCPipelineRun` | instances for TLC |
| `PipelineRunProofs` | its inductive invariant and the theorems |
| `PanelEdits` | changes to the panels of one page, undo, and the files behind them |
| `UndoStack` | what the editor promises of a page: a stack of changes |
| `MCPanelEdits` | instances for TLC |
| `PanelEditsProofs` | its inductive invariant, the theorems and the refinement |
| `Assembly` | an assembly of candidates, statement by statement, and what may come between |
| `MCAssembly` | instances for TLC |
| `AssemblyProofs` | its inductive invariant and the theorems |
| `Sessions` | one account: refresh tokens, logins, password changes and lockouts under concurrent requests |
| `MCSessions` | its instance for TLC |
| `SessionsProofs` | its inductive invariant and the theorems |
| `Uploads` | storing and deleting catalogues: rows against files |
| `MCUploads` | its instance for TLC |
| `UploadsProofs` | its inductive invariant and the theorems |
| `Boxes` | boxes, Python's rounding, and a panel drawn by an admin |
| `PageText` | reading a page: tiles, merging, repair, reading order |
| `PagePanels` | cutting a page into panels, and the lines that belong to each |
| `Finds` | from the finder's and the outliner's answers to finds and their pictures |
| `Candidates` | facts in the lines, type of a page, the candidate of a page and its scores |
| `Recognition` | a call of any of these services, and what its answer must be |
| `MCRecognition` | the arguments for TLC |
| `ListProofs` | lemmas on lists: induction, folds, stable sorting, keeping what is new |
| `RecognitionProofs` | the theorems about these functions, for arguments of any size |

### CatalogueJobs

One catalogue, because nothing in the code relates two of them: lock key, jobs
and rows are per catalogue. The state is named after the code: `catalogue`
(`catalogues.status`, `ABSENT` when the row is gone), `job`, `pages` (which run
wrote a page's row; runs are numbered as they wipe), `corrections` (the edits in
force), `message` (`ready`, `held` by a worker, or `stranded` on a dead host until the
visibility timeout), `lock`, and per worker where it is in
`run_catalogue_pipeline` (`pc`) with what its session has loaded.

* A reprocess request is `ReprocessCheck` (busy and corrections checks),
  `ReprocessCommit`, `Enqueue` and `EnqueueRecorded`; `EnqueueFail` is the
  except branch of `_enqueue_or_fail`, which may run after the broker took the
  message. The ORM writes `catalogue.status` only if it differs from the loaded one.
* `DeleteCatalogue` is the forced delete; the busy check only removes behaviours.
* A correction is `EditBegin` (`_begin`: no active job, a page row) and
  `EditCommit`, which fails when that page row is gone.
* A worker does `Deliver`, `AcquireLock` or `RefuseJob`, `Start`, `Wipe`,
  `ProcessPage` for every page, `Finish` or `FailRun` then `MarkFailed`,
  `ReleaseLock`, `Acknowledge`. The later stages of a run commit too, but write
  neither jobs' nor the catalogue's status and belong to the page pipeline.
* Faults: `HostCrash` (the message comes back by `Redeliver`), `KillTask` (Celery
  acknowledges: `task_reject_on_worker_lost` is not set), `TaskRaises` (a database
  error that reaches Celery), `ApiCrash`, `EnqueueFail`, `LoseLock`. `MaxFaults`
  bounds each kind.

Assumed: a message is not delivered again while the worker that holds it lives
(`workers/celery_app.py:42-47` keeps the visibility timeout above the hard limit);
the broker loses nothing.

### PipelineRun

The runs of one catalogue, one after the other (that they do follow one another
is `CatalogueJobs`' matter). `phase` is where `_run` is; `row`, `error` and `refs`
are per page the committed status, error stage and the files its rows refer to;
`files` is the file store below the catalogue's prefix; `page`, `written` and
`failing` are the page in work, its tracked files, and whether its `except` branch
is removing them. Page pictures have the page's number in their key and are
overwritten by later runs; embedded images, panels and products have fresh keys.

* `Begin` is the first commit of `_run`, with any combination of stages the
  settings allow (products need panels). It writes PROCESSING only if that is not what was
  loaded before the lock was taken (`services/pipeline.py:133` and `:271`), so that a run may begin
  under the status with which another has just ended. It is a step of `Start`, the run of
  a new job, and of `Restart`, where a message has come back. `WipeFiles` and `WipeCommit` keep the
  code's order: files first, rows at the commit.
* A page is `BeginPage`, any number of file writes (`StorePagePicture`,
  `StoreEmbedded`, `StorePanel`, `StoreFind`), then `PageSucceeds`, or `PageFails`
  anywhere, `RemoveFile` one by one and `RecordFailure`. Rows of a page and
  progress are two adjacent commits in some stages; they are one step here since
  nothing but the worker writes either.
* `NextStageBegins` selects the pages with the status the stage asks for; `Finish`
  counts. `PipelineFailure` (phrases that `parse_prompts` refuses are one: it is called outside the
  page's `try`), `RowIsGone` and `SoftTimeLimit` lead to `MarkFailed`.
* A run may also end anywhere, in `MarkFailed` too, without a word (`Dies`). After a `HostCrash` its
  message comes back (`returning`): as `Restart`, or as `Refuse` while another run is going on.
  After a `TaskLost` it does not: Celery acknowledges a task that is killed alone (hard time limit, memory)
  or that raises out of `_mark_failed`.
* `Reprocess` is what a request for another run makes of the status, even while a run goes on.
* A forced deletion takes the rows when PostgreSQL lets it: it waits for a worker that has
  inserted rows below the catalogue in its open transaction (`HoldsRows`), and
  may be in a deadlock with a worker that holds a page's row and still has the
  catalogue's to write; `DeleteRowsBreakingRun` is the outcome in which the worker is
  the victim. `DeleteFiles` follows the commit.

`damage`, `silent` and `abandoned` are history variables. `silent`: the status that is stored is not
the latest run's own, because it began without writing one or a request has set it back, until it writes
its end. `abandoned`: the latest run was lost. `damage`: whether an interruption since the last
complete wipe may have left files (or rows without files) behind. The properties about files are stated
for runs without such an interruption because the code makes no promise then;
its docstring promises it all the same (see below).

### PanelEdits

One page of a catalogue that is not being processed (`CatalogueJobs` has
corrections against runs); requests of several admins. A panel has a box and an
origin; `edits` is the table `panel_edits` in the order of `seq`, which is unique
per page since it is taken under the page's lock.

* `Begin` takes the page's row lock (`SELECT ... FOR UPDATE`). `CreatePanel`,
  `UpdatePanel`, `DeletePanel` and `UndoLast` decide under the lock and flush
  (`Flush`): the change is in the open transaction (`change`), and `stale` are the files it
  will make useless. `StorePicture` writes the panel's new picture, under the
  panel's key, before `Commit` makes the rows visible and gives the lock back.
  `RemoveStale` deletes files afterwards, without a lock, as `_finish` does.
* `Refuse` is every HTTP error raised under the lock, and the move to the box a
  panel has already; `Crash` cuts a request off anywhere (a failed commit, too).

`past` is a history variable: the page before every change. `trouble` records what may have set rows and files
apart: a request cut off after a file was written, or begun while another was still
removing files. `FilesAreThose` is stated without either; `panels_race` shows what the
second does to a page.

`UndoStack` knows neither locks, origins, files nor numbers: a page, a stack of pages,
a change of one panel pushes, undo pops. `PanelEdits` implements it with the stack
of `past[i]` for the edits `i` in force, in the order of their numbers (`PastInForce`).

### Assembly

The candidates of one catalogue. An assembly is one transaction, but at READ
COMMITTED each statement sees what was committed before it began, so every
statement is an action: `Begin` (the status check), `DeleteBegins` and `DeleteEnds` (a
DELETE fixes its rows, waits for other transactions that have deleted some, and looks at
what is left again), `ReadKept`, `ListPages`, `ReadPage` (`draft`: built from what was
read), `Insert` (the autoflush of the next statement: foreign keys must hold, and lock the
rows they refer to), `Commit` with the duplicate flags, `Fail` anywhere. The page rows of
different runs are different rows. A candidate is who built it (`by`), the first page's number, whether it is reviewed, and
its associations; scores and texts are left out, but for the model code of a page.

Meanwhile: `Review` (external, as `_REBUILDABLE` and the tests understand it),
`ForgetFind` (the panel editor), and a run's `StartRun`, `Wipe`, `RenderPage`,
`FindProducts`, `EndRun`. `Free` is the wait for an assembly's row locks. `status` is what the
catalogue says, `running` whether a run is going on, which need not agree (see `Begin` above); a
correction has checked that no job is active before it locks its page, so it may follow the start
of a run, but finds no page after the wipe.

At first a catalogue may have a candidate of an admin's, over any pages, and those that an earlier assembly
has built of the others (`BuiltBefore`), which nobody has reviewed.

`disturbed` and `trouble` are history variables: whether a run started while an assembly was under way, or
another assembly committed when it had already looked at the pages to keep and the two had found
nothing in common to delete (`Overtakes`): this is the one case in which no DELETE has waited for the other.

### Sessions

One account and the browsers that use it. `tokens` is the table `refresh_tokens` in the
order of its commits; a session is a family of rows. Tabs share their browser's cookies
(`jar`), send several requests at a time and lose or delay answers (`LoseAnswer`,
`Answer`). A request keeps what its transaction has loaded (`seen`), the rows its UPDATE has
found (`todo`) and those it holds (`marked`).

* `BeginRefresh` checks nothing; `RefuseRefresh`, `RotateToken` and `DetectReuse` decide
  under the token's row lock, with the `now` that was taken before the wait for it.
  `CommitRotation` adds the successor.
* A logout, a detected reuse, a change and a reset of the password revoke row by row
  (`RevokeRow`), waiting for rows that others hold: an UPDATE looks at a locked row again,
  but never sees one inserted after it began.
* `LoadAccount` and `BeginLogin` read the account without a lock; what a login writes at its end
  (`Login`, `RegisterFailure`, a rehash) rests on that reading, column by column as SQLAlchemy
  writes only what changed. `Register` and `CreateAdmin` make the account.

The access token is a name of the family: `get_current_user` asks `is_session_active`. Deadlock is
checked: `Over`, when the bounds are used up and every request is answered, is the only stop.
`is_active` of an account is set nowhere in `src/` and is left out.

`ended`, `overlap`, `late`, `reused` and `reverted` are history variables. They name what the
code does not promise: a refresh or a login that overlaps a logout or a change of
password may leave one session standing (`overlap`); since `now` is taken before the wait for the
row, a retry is safe when every request takes at most half of the ten seconds (`late`
otherwise); a login that upgrades a hash while the password is being changed writes the old
password back (`reverted`).

### Uploads

Rows of `catalogues`, files below their prefixes, temporary files. An upload is `BeginUpload`,
`WriteChunk`s, `Rename`, the duplicate check (`FindNoDuplicate` or `RefuseDuplicate`, which deletes
the files), `Insert` (the flush) and `CommitUpload`; `AbortWrite` is the size limit or a full
disk. A deletion commits first (`CommitDelete`) and removes the files then (`RemoveFiles`, which
ignores errors). `Crash` is the end of a process, or a transaction refused, at any of these
points; `CommitFails` the `except` branch that removes the files.

`abandoned` are ids whose files an interruption may have left: a process that dies between
storing and committing, and the flush (`services/catalogues.py:192`), which is outside the `try`.
`unsure` are ids whose commit was made though the API was told it had failed: their files are removed and
the row stays. `NoStrayFiles` and `RowsHaveTheirFile` are stated for all others. `SameFileOnce` says
that two catalogues of one file, neither uploaded with the duplicate allowed, come from uploads that
overlapped.

### Boxes, PageText, PagePanels, Finds, Candidates and Recognition

Functions without state, each an operator named after its function. `Recognition` makes a
behaviour of one call: the arguments, then the answer, so that TLC goes through all arguments of
an instance and the invariants relate answers to what is really on the page, which the code
never knows: the printed lines, the printed pictures, the objects.

* A printed line is a box, its text the characters between its ends. `ReadIn` is the text engine:
  it reads what lies in a tile, if at least half of its height does, and may stop a pixel
  (`blur`) before a cut. `DropDuplicates`, `Repair` and `ReadingOrder` work on such readings.
* A page for panels is a set of marked pixels on the working copy, which `Scale` shrinks;
  `Blobs` is OpenCV's. `Split` is the recursion of `_split` as a recursive function.
* Boxes of finds are in quarters of a pixel, since models answer in fractions; masks are sets
  of pixels; shares and scores are percentages. An empty list of phrases is the refusal of
  `parse_prompts`: there are no finds, and the whole run fails (`PipelineFailure`).
* A line for candidates is what it prints: model codes, sizes by the letters at their
  numbers, series, and what is left; names are only as long as matters. Scores are exact
  fractions of `One`.

What the checks showed about the limits of these functions:

* A line is surely read whole only up to the width
  `SurelyWhole` = min(tile + overlap, (2 max(tile, comfort) + overlap) / 3), which is 1440 pixels
  for the defaults (1600, 320, 2000); a longer one may lose an end at a seam, though
  `services/ocr.py:11-12` says that a model code is never clipped there.
* Stubs of thin connector lines remain on panels, and the margin erased around a caption that touches a
  picture takes that much of the picture.
* Rounding to even refuses no box that shows the smallest side only because that side (20) is even.
* A candidate may be READY with several model codes on its page (a score up to 0.90), and with one
  failed outline among good ones. A size's `length` is dropped from the candidate's fields. Pages
  of type UNKNOWN get candidates too, though `services/candidates.py:5` speaks of PRODUCT pages.

Floating point at a threshold is abstracted: the models compare exact fractions.

## Runs

| Run | Instance | Shows |
| --- | --- | --- |
| `jobs_safety` | 2 jobs, 2 workers, 1 correction, 2 pages, one fault of any one kind | the safety invariants in every interleaving (1.2 million states) |
| `jobs_liveness` | 2 jobs, 2 workers, 2 pages, one host crash | every job ends, the lock comes back, `CatalogueJobs` implements `SerialRuns` |
| `jobs_silent_loss` | 2 jobs, 1 worker, no fault | violation: a correction committed between check and run is wiped |
| `jobs_stuck` | 2 jobs, 1 worker, one killed task | violation: a forced reprocess does not free the catalogue |
| `run_stages` | 2 pages, 2 keys, 2 runs, 1 interruption, any stages | files match rows, statuses and progress are honest, every run ends that is not lost (0.6 million states) |
| `panel_edits` | 2 requests, 3 panels, 2 boxes, limit of 2, 3 edits and their undos, 1 crash | origins are honest, files follow rows; `PanelEdits` implements `UndoStack`: undo restores |
| `panels_race` | the same without crash | violation: a panel in force loses its picture |
| `assembly` | 2 requests, 2 assemblies after an earlier one, 4 pages, three of one code and one without, 1 product each; a new run if all is on the first two pages | reviewed candidates stay, pages are covered once and completely, flags are exact (2.6 million states) |
| `assembly_twice` | as `assembly`, 2 pages, no run | violation: a page gets two candidates |
| `sessions` | 2 requests at a time, 1 browser, 2 passwords, 4 tokens, 4 requests, 3 ticks | families do not fork, sessions end and stay ended, retries are safe, lockouts and passwords stand (5.0 million states) |
| `uploads` | 3 requests, 3 catalogues, documents of 1 to 3 chunks, limit 2, 2 interruptions | rows have their file, no file is left, one file is one catalogue (1 million states) |
| `recognition` | 88982 calls on small pages, layouts, drawings, answers and texts | the five properties of `Recognition` |

Bounds. Two workers and two jobs are the smallest that race for the lock, and
a second job is what reprocessing adds to a first. Two pages tell a whole run from
a broken-off one. One fault per behaviour keeps the run small; the theorems cover
every number and mixture. `CHECK_DEADLOCK` is off because requests are finite:
when all are used up and answered, nothing has to happen any more. Symmetry is
used for workers only and only in safety runs.

`SettledIsWhole` allows one host crash, and none together with a failed queueing. With two crashes, the
message of a job that had SUCCEEDED and the message of a job broken off can both be stranded; the finished
one is run again, loads PROCESSING before the other's end is written, does not
write it again, and is broken off itself: COMPLETED over half the pages. With a failed queueing and a crash
it takes three jobs, which the attempt at a proof found and TLC confirmed (26 steps): one finishes; another, which had loaded
PROCESSING, wipes its pages without writing the status, and its host crashes; a third, whose queueing
was reported as failed though the broker had its message, holds the lock when the second one's
message comes back, so that this is refused and both are FAILED while the catalogue still says COMPLETED.

In `run_stages` two pages are enough for a page that fails while the other goes on, at
every stage; two keys for a page with two files of its own (one removed, one not
yet) and for a key used again after a wipe; two runs for the wipe to find something, and for
the second to begin under the first one's status; one interruption, of either, after which a run
cleans up or nobody does. `Keys` are never reused while a file
or a row has them, as uuids are not.

In `panel_edits` a limit of two with three panels lets a page be at its limit, above it
(as the system may cut it), and reach it with a deletion still to be undone; three
edits are a creation, a move and a deletion of one panel; requests begin again
without bound, so every edit can be undone. Requests, panels and boxes are symmetric.

In `assembly` two assemblies are what it takes for one to wait for, skip, delete or double the
other's work. They begin with an earlier one's candidates, so both may have these to delete, or one
of them only, or neither. One product per page, since products of a page are read together; one
reviewed candidate over any set of pages at the start, and reviews of any others later. Four pages
let a flag point past another candidate and past a page without a code; a run takes two (`SmallRuns`).

In `sessions` two requests at a time are what any row lock is about, and four in all let a third
party (a logout, a new password, a reuse) come between and after; earlier logins of the one browser leave
sessions standing, which are those of other devices. A grace of two ticks can be kept or exceeded by
half; three ticks let a token expire. The `TypeOK` of `Sessions` and of `Uploads` holds in these
instances too.

In `uploads` three requests are two uploads of one file and a deletion; a document of three chunks is
above the limit, two interruptions hit two requests or one twice.

In `recognition` a tile is 8 for 1600 pixels, comfort 10 for 2000, pages have up to four tiles each
way, one line of any width and place, or up to three lines on a page of four tiles, more than the
two it may keep. Layouts are two or three pictures at every place of an 8 by 8 copy, joined by lines,
with captions, framed, shrunk by 25/18 to 40/18. A strip is empty up to one marked pixel or 83
thousandths of its length, which is to 18 pixels what the code's 6 and 0.005 are to 1800. Drawings
are in quarters of a pixel in and around a page of 4 by 3. Answers are up to three boxes of two sizes of overlap, two labels, two scores,
outlines of all kinds. Texts are up to two lines and two finds. Behaviours end after one call, so
deadlock is not checked.

Fairness of `CatalogueJobs`: weak fairness of the request's own continuation (a request that was let in is
carried through), of every worker's step (a task goes on or is ended by its time
limit) and of redelivery. Nobody has to request, edit or delete anything.
In `PipelineRun` the worker's next step is weakly fair, and `Restart`: that a dead host's message
comes back, and is delivered if no run is going on, which `jobs_liveness` rests on too. Nothing is assumed for a
task that is lost, and nothing happens to it in the code (`jobs_stuck`): `EveryRunEnds` leaves it out.

## Proofs

The theorems hold for every value of the constants that the named assumptions of the modules allow: any
number of jobs, workers, pages, requests, panels, tokens, products, runs and faults. No property
is inductive alone: each module of proofs but `RecognitionProofs` and `ListProofs`, whose argument is given
below, has an `IInv`, which TLC checked on the run's instance, one lemma per conjunct with one step per action that can
disturb it, and `Invariance`, from which the properties follow. Effects that many lemmas need are
lemmas of their own.

`CatalogueJobsProofs`: `TypeCorrect`; `MutualExclusion` and `PagesAreOfOneRun` (unless a lock
connection was dropped); `RunsAreVisible` (unless queueing failed);
`ActiveJobsAreCarried` (without kills, database and API failures);
`CorrectionsAreApart`; `SettledCataloguesAreWhole`; `RunsAreSerial`, the refinement of `SerialRuns` when no
lock connection is dropped.
`IInv` adds `LockHeldInSection` (the
lock's owner is exactly the worker inside `_run`), `MessageHeldOnce` (two workers
never hold one job's message, and none exists before the job's commit),
`NoJobWithoutCatalogue` (deletion cascades), `RunNumbers` (runs are numbered in
order, a correction is committed once) and `EditsApart` (also an open edit is not on a
page of the present run). The refinement uses `SoleWriter`: in a lock-holding world at most
one worker renders, so the set of renderers' run numbers is empty or one run.
`SettledCataloguesAreWhole` rests on `Settles`: a catalogue that says it is done while its pages are
not all there (`Debt`: a run that loaded PROCESSING writes no status) is owed by an active job that
cannot be refused (`Firm`), or by one whose message the crash brought back. When that one is
refused, the worker that has the lock works on a job whose message comes for the first time, hence
active (`Fresh`), which takes the debt over.

`PipelineRunProofs`: every property of `run_stages` but the liveness: `TypeCorrect`, `FilesAreThose`,
`PicturesAreThere`, `FinishIsHonest` (whatever status a run begins under; but what is said of one that was
`silent` to its end is another's), `OnlyAdvance`, `NeverFalls`. Its `IInv` adds `Shape`
(a page in work is on the stage's list), `OwnFiles` (a page's picture is
referred to by its own row alone, files in work by none), `FilesMatch` (files are
those of the rows and of the page in work), `StageFacts` (a page on the list
has the status the stage asks for and no error; one that has left it has either
the stage's status or an error) and `ProgressBound` (pages done and pages left are at
most all pages; progress is at most the share of the pages done). That a stage's offset
leaves room for all pages of the stage before (`NextStageFact`) and that the percentage
is monotone (`PercentMonotone`) give `NeverFalls`.

`PanelEditsProofs`: every property of `panel_edits`: `TypeCorrect`, `OriginsAreHonest`,
`FindsStayTrue`, `FilesMatch`, and `UndoIsAStack`, the refinement of `UndoStack`. Its `IInv` adds
`Exclusive` (who is between lock and commit holds the page's row lock), `EditShape`, `Stacked` (the
edits in force lead from page to page: each begins with what the one before has made, the last has
made the present page), `HonestThroughout` (origins are honest also on the past pages that an undo
may bring back), `ChangesFit` (a flushed change still fits the page at the commit) and
`FilesFollow` (while nothing set them apart, files follow rows also between commit and
removal). Since edits out of force stay in the table, the stack is the sequence of those in force: `RankedAfter`
and `RankedAll` say what appending an edit or taking the last one out of force does to it.

`AssemblyProofs`: every property of `assembly`: `TypeCorrect`, `PagesOnceApart`, `FlagsAreExact`,
`ReviewsStay`, `NothingIsMissed`. Every step but a commit only amends the candidates (a review, or fewer
rows and references that are gone), which most conjuncts survive at once. `IInv` adds
`OwnNumber` and `UniqueIds` (candidates are told apart by assembly and first page), `RefsHold`
and `OneRun` (an assembly's rows are of one run), `BuildsOnce` and `Deletions` (what an assembly has
built and will delete), `NoneLeft` (of the candidates an assembly has found it leaves none that is not
reviewed) and `NothingInCommon` (nor does another delete one of them now: the wait of the DELETE, from
which two that have something in common to delete come one after the other), `KeptCovers` (what it will
not delete is on pages it leaves out, unless it was overtaken), `RunsNoticed`, `FindsTaken` and `PagesTaken` (what it has read is still
what is there, unless something came between).

`SessionsProofs`: every property of `sessions`: `TypeCorrect`, `OneTokenIsLive`, `EndsAreFinal`,
`PromptRetriesAreSafe`, `LastPasswordWorks`, `RevokedForGood`, `LockoutIsServed`. `OneLiveToken`
follows from `RowLocks`: a request that rotates has locked the one live token of its family, and
`FamilyIds` keeps new families apart from all there are. `EndedStaysEnded` needs `EndsAll`: a token that
appears while somebody ends its session replaces one he still has to revoke, and that is an overlap.
`RevokedForGood` has two parts: no step takes back or moves the time of a token's revocation, and a family
without a token that is not revoked, which has nothing left to rotate, gets no other.
`PasswordIsLastSet` needs `SeenVersion`: a login's remembered password is the present one unless a newer one was
set; the account's row lock keeps logins out while it is. `RetriesKeepTheSession` is arithmetic on
times: a browser's cookie is the live token or was replaced within half of the grace (`JarFresh`), a
request that carries it is decided within the other half (`RequestFresh`, `Prompt`), so now
is at most the revocation plus the grace, while a detected reuse is later. `LockoutStands` needs
`LockoutBound` and `RequestTimes`.

`UploadsProofs`: every property of `uploads`: `TypeCorrect`, `RowsKeepTheirFile`, `FilesAreOwned`,
`DuplicatesAreAllowed`. Its `IInv` adds `OwnIds` (an id is one request's until it is a row), `FileSoFar` (temporary and final
file hold what the request has written), `RemovesOrphans`, `FilesCarried`, `SeenBefore` and `CheckedApart` (two uploads of
one file that both passed the check overlapped).

`RecognitionProofs` is about the functions, for all arguments:

* `DrawnBoxesStay` is the property `BoxesAsDrawn`, `TilesReachFromEdgeToEdge` is `TilesCover`, the first
  part of `PageIsRead` (`_axis`'s rounding and ceiling never leave a gap, reorder tiles or take
  away from the overlap). What they need of `round` is `RoundNear`: at most half away, and even if just
  half away. Assumed is what the code has: a smallest side that is positive and even (20), boxes and
  pages of integers.
* `EveryTextKeptOnce`: `_drop_duplicates` keeps no text twice, and for every reading it drops one of
  the same text that is longer, or as long and at least as sure; it makes nothing up, and doing it again
  changes nothing. Nothing is assumed of the readings but that their numbers are integers. `Repair` between
  the two times may make a reading what another is, which is why there are two.
* `ObjectsFoundOnce` is the property `OneFindPerObject`, for any picture, wording and answer of the
  models (`AnswersAssumption`: a list of boxes with scores). What a find was dropped for stays to the end
  because `suppress_overlaps` looks only at finds it has kept. That tidying again changes nothing
  needs that sorting by sureness and then, stably, by rows and columns is undone and done again
  (`SortedTwice`). `CutoutsShowTheOutline` is its last part.
* `ReadyRestsOnEvidence` is the property `ReadyIsEvidenced`, for any finds and lines of a page
  (`TextsAssumption`: percentages, three numbers to a size). `ScoreBounds` adds up the weights of
  the five ingredients: without a code or without a size a score is at most 81 percent, and no
  other ingredient makes up for finds or outlines that are poor on average. `FieldsApart`: however
  the numbers of a size are lettered, they become three different fields. The theorem has two
  hypotheses on the thresholds. `LowConfidence <= AutoReview` is what `core/config.py:136` refuses
  otherwise. `AutoReview > 81` is true of the default (85), but not demanded by the code, which
  takes any share (`core/config.py:101`, and `services/settings_store.py:14` whatever is in
  `app_settings`): at 81 or less a candidate without a code can be READY, so the bound is part of the result.

For these there is no invariant to strengthen: a behaviour is one call, and the inductive part
(`Searched`, `Grouped`) says that the answer is the function's. The work is in what the functions do with lists.
The library's induction theorems have an operator as parameter, which no installed prover can
instantiate. `ListProofs` does without: what is to be shown of every number is made a set of numbers, and
a set that has 0 and with n also n + 1 has all, since otherwise it would lack a least one (`SetInduction`, from
`WFMin` and `NatLessThanWellFounded` of the library). `FoldLeft` of the community modules is a CHOOSE
of a recursive function on sets of positions; that this function exists is `Iterates`, and
`Path` that it takes the steps one after another. `PlacesSort` shows that `InOrder`
(each item at the place its predecessors leave it) sorts, `Sieve` what remains of a list when
items are dropped that are like one kept before, `Flattened` what `FlattenSeq` has.

Only model-checked: of `Recognition` the rest of `PageIsRead` and `PanelsAsPrinted`, and the liveness properties
`EveryJobEnds`, `LockIsReleased` and `EveryRunEnds`, which are beyond the prover. The first two relate what is
answered to what is printed, and hold of pages as the instance has them (lines apart from each other, pictures with
paper between them): a theorem would have to say of every page which it may be, and the recursion of `_split` runs
over sets of pixels, not over lists.

## What the code does otherwise than it says

Four runs end in a counterexample to a sentence of the repository; `PROJECT.json`
quotes each. In short: corrections can be lost without consent
(`jobs_silent_loss`; also when a finished job's message is redelivered after
a host crash), `force=true` does not unstick a catalogue for the panel editor
(`jobs_stuck`), two admins on one page can lose a panel's picture (`panels_race`), and two
assemblies at once can give a page two candidates (`assembly_twice`).

Met while modelling, without a run of their own:

* A COMPLETED catalogue may be in the middle of a rebuild, or without pages for good when that is broken
  off: a status loaded as PROCESSING before the lock was taken is assigned again, no change, and not
  written (`services/pipeline.py:271`), though `docs/ingestion.md:42` says of COMPLETED "every page completed
  every stage that is switched on". `DoneIsHonest` without `~silent` is violated by such a run.
* An UPLOADED catalogue may wait for nobody: its job is refused by a run that has written its end and not
  yet given the lock back (`services/pipeline.py:143`).
* The soft time limit inside a page leaves the page's files behind, though
  `services/pipeline.py:12-13` says there are no orphaned files: line 472 raises again without deleting them.

## Plan

Done: `CatalogueJobs`, `PipelineRun`, `PanelEdits`, `Assembly`, `Sessions`, `Uploads` and their proofs;
`Boxes`, `PageText`, `PagePanels`, `Finds`, `Candidates` and `Recognition`, with proofs for all but reading and
cutting a page.

Left: that `ReadingOrder` and `Repair` keep every reading, what a strip of `Repair` covers and where `Scaled`
cuts, for pages of any size; and that a forced deletion ends what `PipelineRun` and `Uploads` keep apart.

## Not modelled

PDF, OCR and detection libraries, image arithmetic on pixels (paper colour, blurring, closing, hashes),
regular expressions, read-only API and pages, formatting, logging, configuration,
migrations, the placeholder frontend and command-line diagnostics: calls into libraries, or
queries without state of their own. Names and suppliers are edited by single-row updates. Audit rows
are written in the caller's transaction.
