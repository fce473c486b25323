--------------------------- MODULE CatalogueJobs ---------------------------
(***************************************************************************)
(* One catalogue and everything that works on it at the same time: API     *)
(* requests that create processing jobs or delete the catalogue, the       *)
(* broker that carries one message per job, the Celery workers that run    *)
(* the pipeline under a PostgreSQL advisory lock, and admins who correct   *)
(* panels.  One action is one database commit, broker call or lock call:   *)
(* between two of them any other actor may act.                            *)
(*                                                                         *)
(* A job's message is delivered again only after the worker that held it   *)
(* died: the visibility timeout is above the hard task time limit.         *)
(***************************************************************************)
EXTENDS Naturals

CONSTANTS Jobs,       \* the processing jobs that may be created
          FirstJob,   \* the job created by the upload itself
          Workers,    \* Celery worker processes
          NoWorker,   \* the advisory lock is free
          Edits,      \* panel corrections an admin may start
          NumPages,   \* pages of the PDF
          MaxFaults   \* how often each kind of fault may happen (the bound)

\* The kinds of fault:
\*   crash     a worker host dies; its unacknowledged message comes back later
\*   kill      a worker's task process is killed; Celery acknowledges the message
\*   database  a database error that reaches Celery without a job update
\*   api       an API process dies between two commits of a request
\*   enqueue   queueing a job raises, before or after the broker took it
\*   lock      the connection that holds the advisory lock is dropped
FaultKinds == {"crash", "kill", "database", "api", "enqueue", "lock"}

ASSUME FirstJobAssumption == FirstJob \in Jobs
ASSUME NoWorkerAssumption == NoWorker \notin Workers
ASSUME NumPagesAssumption == NumPages \in Nat \ {0}
ASSUME MaxFaultsAssumption == MaxFaults \in [FaultKinds -> Nat]

VARIABLES catalogue,    \* catalogues.status, or "ABSENT" once the row is deleted
          job,          \* processing_jobs.status, "NONE" when there is no row
          pages,        \* page number -> the run that wrote its row, 0 for no row
          corrections,  \* panel corrections in force on the present pages
          api,          \* per job: how far the request that creates it has come
          request,      \* per job: what that request loaded and was asked for
          message,      \* per job: its broker message
          lock,         \* the worker that holds the catalogue's advisory lock
          pc,           \* per worker: where in run_catalogue_pipeline it is
          cur,          \* per worker: the job it works on
          loaded,       \* per worker: the catalogue status its session has loaded
          run,          \* per worker: the number of the run it renders
          index,        \* per worker: the pages its run has committed
          runs,         \* how many runs have wiped the catalogue so far
          edit,         \* per correction: how far its request has come
          opened,       \* per correction: the page row it was opened on
          budget,       \* faults that may still happen
          consented     \* corrections an admin agreed to lose (for properties)

database == <<catalogue, job, pages, corrections>>
requests == <<api, request>>
locals   == <<cur, loaded, run, index, runs>>
worker   == <<lock, pc, locals>>
editors  == <<edit, opened>>
\* What a worker's own step leaves alone, unless it takes or returns a message.
outside  == <<requests, editors, budget, consented>>
vars == <<database, requests, message, worker, editors, budget, consented>>

Ended  == {"COMPLETED", "PARTIALLY_COMPLETED", "FAILED"}
Status == {"ABSENT", "UPLOADED", "PROCESSING"} \cup Ended
Active == {"QUEUED", "RUNNING"}
PageNo == 1..NumPages
NoPages == [n \in PageNo |-> 0]

TypeOK ==
  /\ catalogue \in Status
  /\ job \in [Jobs -> {"NONE", "SUCCEEDED", "FAILED"} \cup Active]
  /\ pages \in [PageNo -> Nat]
  /\ corrections \subseteq Edits
  /\ api \in [Jobs -> {"idle", "checked", "committed", "sent", "done"}]
  /\ request \in [Jobs -> [loaded : Status, force : BOOLEAN, discard : BOOLEAN]]
  /\ message \in [Jobs -> {"none", "ready", "held", "stranded"}]
  /\ lock \in Workers \cup {NoWorker}
  /\ pc \in [Workers -> {"idle", "loaded", "locked", "started", "rendering",
                         "failing", "ending", "ended"}]
  /\ cur \in [Workers -> Jobs]
  /\ loaded \in [Workers -> Status]
  /\ run \in [Workers -> Nat]
  /\ index \in [Workers -> Nat]
  /\ runs \in Nat
  /\ edit \in [Edits -> {"idle", "open", "done"}]
  /\ opened \in [Edits -> PageNo \X Nat]
  /\ budget \in [FaultKinds -> Nat]
  /\ \A kind \in FaultKinds : budget[kind] <= MaxFaults[kind]
  /\ consented \subseteq Edits

\* The upload has committed the catalogue and its first job; nothing is queued.
Init ==
  /\ catalogue = "UPLOADED"
  /\ job = [j \in Jobs |-> IF j = FirstJob THEN "QUEUED" ELSE "NONE"]
  /\ pages = NoPages
  /\ corrections = {}
  /\ api = [j \in Jobs |-> IF j = FirstJob THEN "committed" ELSE "idle"]
  /\ request = [j \in Jobs |-> [loaded |-> "UPLOADED", force |-> FALSE, discard |-> FALSE]]
  /\ message = [j \in Jobs |-> "none"]
  /\ lock = NoWorker
  /\ pc = [w \in Workers |-> "idle"]
  /\ cur = [w \in Workers |-> FirstJob]
  /\ loaded = [w \in Workers |-> "UPLOADED"]
  /\ run = [w \in Workers |-> 0]
  /\ index = [w \in Workers |-> 0]
  /\ runs = 0
  /\ edit = [e \in Edits |-> "idle"]
  /\ opened = [e \in Edits |-> <<1, 0>>]
  /\ budget = MaxFaults
  /\ consented = {}

Exists == catalogue # "ABSENT"
HasActiveJob == \E j \in Jobs : job[j] \in Active

Fault(kind) ==
  /\ budget[kind] > 0
  /\ budget' = [budget EXCEPT ![kind] = @ - 1]

Happened(kind) == budget[kind] < MaxFaults[kind]

----------------------------------------------------------------------------
(* API requests.                                                           *)

\* reprocess_catalogue reads the catalogue, its jobs and its corrections and
\* refuses; a refused request changes nothing and is not a step.
ReprocessCheck(j) ==
  /\ api[j] = "idle"
  /\ Exists
  /\ \E force, discard \in BOOLEAN :
       /\ force \/ ~HasActiveJob
       /\ discard \/ corrections = {}
       /\ request' = [request EXCEPT ![j] =
                        [loaded |-> catalogue, force |-> force, discard |-> discard]]
  /\ api' = [api EXCEPT ![j] = "checked"]
  /\ UNCHANGED <<database, message, worker, editors, budget, consented>>

\* The ORM writes the status only when it differs from the one it loaded; the
\* job's insert fails when the catalogue has been deleted meanwhile.  What the
\* request loaded is not needed any more.
ReprocessCommit(j) ==
  /\ api[j] = "checked"
  /\ IF Exists
     THEN /\ job' = [job EXCEPT ![j] = "QUEUED"]
          /\ catalogue' = IF request[j].loaded = "UPLOADED" THEN catalogue ELSE "UPLOADED"
          /\ api' = [api EXCEPT ![j] = "committed"]
          /\ consented' = IF request[j].discard THEN consented \cup corrections ELSE consented
     ELSE /\ api' = [api EXCEPT ![j] = "done"]
          /\ UNCHANGED <<job, catalogue, consented>>
  /\ request' = [request EXCEPT ![j] = [@ EXCEPT !.loaded = "UPLOADED", !.discard = FALSE]]
  /\ UNCHANGED <<pages, corrections, message, worker, editors, budget>>

Enqueue(j) ==
  /\ api[j] = "committed"
  /\ api' = [api EXCEPT ![j] = "sent"]
  /\ message' = [message EXCEPT ![j] = "ready"]
  /\ UNCHANGED <<database, request, worker, editors, budget, consented>>

\* The task id is committed and the request has been answered.
EnqueueRecorded(j) ==
  /\ api[j] = "sent"
  /\ api' = [api EXCEPT ![j] = "done"]
  /\ UNCHANGED <<database, request, message, worker, editors, budget, consented>>

\* _enqueue_or_fail: queueing, or recording the task id afterwards, raised.
EnqueueFail(j) ==
  /\ api[j] \in {"committed", "sent"}
  /\ Fault("enqueue")
  /\ api' = [api EXCEPT ![j] = "done"]
  /\ IF Exists
     THEN /\ job' = [job EXCEPT ![j] = "FAILED"]
          /\ catalogue' = "FAILED"
     ELSE UNCHANGED <<job, catalogue>>
  /\ UNCHANGED <<pages, corrections, request, message, worker, editors, consented>>

ApiCrash(j) ==
  /\ api[j] \in {"checked", "committed", "sent"}
  /\ Fault("api")
  /\ api' = [api EXCEPT ![j] = "done"]
  /\ UNCHANGED <<database, request, message, worker, editors, consented>>

\* delete_catalogue: with force=true the busy check is skipped, so it may come at
\* any time.  Deleting the row cascades to jobs, pages and corrections.
DeleteCatalogue ==
  /\ Exists
  /\ catalogue' = "ABSENT"
  /\ job' = [j \in Jobs |-> "NONE"]
  /\ pages' = NoPages
  /\ corrections' = {}
  /\ UNCHANGED <<api, request, message, worker, editors, budget, consented>>

----------------------------------------------------------------------------
(* Corrections.  _begin looks for an active job before it locks the page   *)
(* row; a page row that was deleted meanwhile makes the change fail.       *)

\* Mutant: the page is opened without asking for active jobs.
EditBeginWhileBusy(e) ==
  /\ edit[e] = "idle"
  /\ \E n \in PageNo :
       /\ pages[n] # 0
       /\ opened' = [opened EXCEPT ![e] = <<n, pages[n]>>]
  /\ edit' = [edit EXCEPT ![e] = "open"]
  /\ UNCHANGED <<database, requests, message, worker, budget, consented>>

EditBegin(e) ==
  /\ edit[e] = "idle"
  /\ ~HasActiveJob
  /\ \E n \in PageNo :
       /\ pages[n] # 0
       /\ opened' = [opened EXCEPT ![e] = <<n, pages[n]>>]
  /\ edit' = [edit EXCEPT ![e] = "open"]
  /\ UNCHANGED <<database, requests, message, worker, budget, consented>>

EditCommit(e) ==
  /\ edit[e] = "open"
  /\ edit' = [edit EXCEPT ![e] = "done"]
  /\ IF pages[opened[e][1]] = opened[e][2]
     THEN corrections' = corrections \cup {e} /\ UNCHANGED opened
     ELSE opened' = [opened EXCEPT ![e] = <<1, 0>>] /\ UNCHANGED corrections
  /\ UNCHANGED <<catalogue, job, pages, requests, message, worker, budget, consented>>

----------------------------------------------------------------------------
(* Workers: process_catalogue and run_catalogue_pipeline.                  *)

Goto(w, from, to) == pc[w] \in from /\ pc' = [pc EXCEPT ![w] = to]

\* The worker is idle and its task's local variables are gone.
Forget(w) ==
  /\ pc' = [pc EXCEPT ![w] = "idle"]
  /\ cur' = [cur EXCEPT ![w] = FirstJob]
  /\ loaded' = [loaded EXCEPT ![w] = "UPLOADED"]
  /\ run' = [run EXCEPT ![w] = 0]
  /\ index' = [index EXCEPT ![w] = 0]

\* A worker takes a message and loads both rows; with a row missing the task
\* returns at once.
Deliver(w, j) ==
  /\ pc[w] = "idle"
  /\ message[j] = "ready"
  /\ message' = [message EXCEPT ![j] = "held"]
  /\ pc' = [pc EXCEPT ![w] = IF Exists THEN "loaded" ELSE "ended"]
  /\ cur' = [cur EXCEPT ![w] = j]
  /\ loaded' = [loaded EXCEPT ![w] = catalogue]
  /\ UNCHANGED <<database, requests, lock, run, index, runs, editors, budget, consented>>

\* Mutant: a lock on the session's own connection, gone at the first commit.
AcquireLockAlways(w) ==
  /\ Goto(w, {"loaded"}, "locked")
  /\ lock' = w
  /\ UNCHANGED <<database, message, locals, outside>>

AcquireLock(w) ==
  /\ Goto(w, {"loaded"}, "locked")
  /\ lock = NoWorker
  /\ lock' = w
  /\ UNCHANGED <<database, message, locals, outside>>

\* Mutants of RefuseJob: it gives the job a status the API does not know; it
\* fails every active job of the catalogue; it leaves its job as it is.
RefuseJobWith(w, jobs) ==
  /\ Goto(w, {"loaded"}, "ended")
  /\ lock # NoWorker
  /\ job' = jobs
  /\ UNCHANGED <<catalogue, pages, corrections, message, lock, locals, outside>>

RefuseJobCancelled(w) == RefuseJobWith(w, [job EXCEPT ![cur[w]] = "CANCELLED"])
RefuseJobAll(w) ==
  RefuseJobWith(w, [j \in Jobs |-> IF job[j] \in Active THEN "FAILED" ELSE job[j]])
RefuseJobSilently(w) == RefuseJobWith(w, job)

\* Another run holds the lock: only the job is touched.
RefuseJob(w) ==
  /\ Goto(w, {"loaded"}, "ended")
  /\ lock # NoWorker
  /\ job' = IF Exists THEN [job EXCEPT ![cur[w]] = "FAILED"] ELSE job
  /\ UNCHANGED <<catalogue, pages, corrections, message, lock, locals, outside>>

\* First commit of _run.  A status that was loaded as PROCESSING is not written.
Start(w) ==
  /\ Goto(w, {"locked"}, "started")
  /\ Exists
  /\ job' = [job EXCEPT ![cur[w]] = "RUNNING"]
  /\ catalogue' = IF loaded[w] = "PROCESSING" THEN catalogue ELSE "PROCESSING"
  /\ UNCHANGED <<pages, corrections, message, lock, locals, outside>>

\* Second commit of _run: the pages of any earlier run go, and their corrections.
Wipe(w) ==
  /\ Goto(w, {"started"}, "rendering")
  /\ pages' = NoPages
  /\ corrections' = {}
  /\ consented' = {}
  /\ runs' = runs + 1
  /\ run' = [run EXCEPT ![w] = runs + 1]
  /\ index' = [index EXCEPT ![w] = 0]
  /\ UNCHANGED <<catalogue, job, requests, message, lock, cur, loaded, editors, budget>>

\* One page is committed; page numbers are unique within a catalogue.
ProcessPage(w) ==
  /\ pc[w] = "rendering"
  /\ index[w] < NumPages
  /\ Exists
  /\ pages[index[w] + 1] = 0
  /\ pages' = [pages EXCEPT ![index[w] + 1] = run[w]]
  /\ index' = [index EXCEPT ![w] = @ + 1]
  /\ UNCHANGED <<catalogue, job, corrections, message, lock, pc, cur, loaded, run, runs>>
  /\ UNCHANGED outside

\* Last commit of _run, once every page has been through every stage.
Finish(w) ==
  /\ Goto(w, {"rendering"}, "ending")
  /\ index[w] = NumPages
  /\ Exists
  /\ catalogue' \in {"COMPLETED", "PARTIALLY_COMPLETED"}
  /\ job' = [job EXCEPT ![cur[w]] = "SUCCEEDED"]
  /\ UNCHANGED <<pages, corrections, message, lock, locals, outside>>

\* Anything raised inside _run: a missing engine, a bad PDF, the soft time
\* limit, or a write to a row that is gone.
FailRun(w) ==
  /\ Goto(w, {"locked", "started", "rendering"}, "failing")
  /\ UNCHANGED <<database, message, lock, locals, outside>>

\* Mutant: only the job is told.
MarkFailedJobOnly(w) ==
  /\ Goto(w, {"failing"}, "ending")
  /\ job' = IF Exists THEN [job EXCEPT ![cur[w]] = "FAILED"] ELSE job
  /\ UNCHANGED <<catalogue, pages, corrections, message, lock, locals, outside>>

MarkFailed(w) ==
  /\ Goto(w, {"failing"}, "ending")
  /\ IF Exists
     THEN /\ catalogue' = "FAILED"
          /\ job' = [job EXCEPT ![cur[w]] = "FAILED"]
     ELSE UNCHANGED <<catalogue, job>>
  /\ UNCHANGED <<pages, corrections, message, lock, locals, outside>>

\* Mutant: the unlock is sent on another connection and does nothing.
ReleaseLockElsewhere(w) ==
  /\ Goto(w, {"ending"}, "ended")
  /\ UNCHANGED <<database, message, lock, locals, outside>>

ReleaseLock(w) ==
  /\ Goto(w, {"ending"}, "ended")
  /\ lock' = IF lock = w THEN NoWorker ELSE lock
  /\ UNCHANGED <<database, message, locals, outside>>

\* task_acks_late: the message is acknowledged after the task has returned.
Acknowledge(w) ==
  /\ pc[w] = "ended"
  /\ message' = [message EXCEPT ![cur[w]] = "none"]
  /\ Forget(w)
  /\ UNCHANGED <<database, requests, lock, runs, editors, budget, consented>>

----------------------------------------------------------------------------
(* Worker faults.  A dead task's uncommitted work is rolled back and its   *)
(* lock connection closes.                                                 *)

Dies(w) ==
  /\ pc[w] # "idle"
  /\ Forget(w)
  /\ lock' = IF lock = w THEN NoWorker ELSE lock
  /\ UNCHANGED <<database, requests, runs, editors, consented>>

\* Mutant: messages are acknowledged when they are taken.
HostCrashEarlyAck(w) ==
  /\ Fault("crash")
  /\ Dies(w)
  /\ message' = [message EXCEPT ![cur[w]] = "none"]

HostCrash(w) ==
  /\ Fault("crash")
  /\ Dies(w)
  /\ message' = [message EXCEPT ![cur[w]] = "stranded"]

\* The hard time limit or the out-of-memory killer: task_reject_on_worker_lost
\* is not set, so the message is acknowledged.
KillTask(w) ==
  /\ Fault("kill")
  /\ Dies(w)
  /\ message' = [message EXCEPT ![cur[w]] = "none"]

\* The lock query itself, or _mark_failed's own commit, raises.
TaskRaises(w) ==
  /\ pc[w] \in {"loaded", "failing"}
  /\ Fault("database")
  /\ pc' = [pc EXCEPT ![w] = IF @ = "loaded" THEN "ended" ELSE "ending"]
  /\ UNCHANGED <<database, requests, message, lock, locals, editors, consented>>

LoseLock ==
  /\ lock # NoWorker
  /\ Fault("lock")
  /\ lock' = NoWorker
  /\ UNCHANGED <<database, requests, message, pc, locals, editors, consented>>

\* The visibility timeout of a dead worker's message has passed.
Redeliver(j) ==
  /\ message[j] = "stranded"
  /\ message' = [message EXCEPT ![j] = "ready"]
  /\ UNCHANGED <<database, requests, worker, editors, budget, consented>>

----------------------------------------------------------------------------
Request(j) ==
  ReprocessCheck(j) \/ ReprocessCommit(j) \/ Enqueue(j) \/ EnqueueRecorded(j)

RunStep(w) ==
  \/ \E j \in Jobs : Deliver(w, j)
  \/ AcquireLock(w) \/ RefuseJob(w) \/ Start(w) \/ Wipe(w) \/ ProcessPage(w)
  \/ Finish(w) \/ FailRun(w) \/ MarkFailed(w) \/ ReleaseLock(w) \/ Acknowledge(w)

FaultStep ==
  \/ \E j \in Jobs : EnqueueFail(j) \/ ApiCrash(j)
  \/ \E w \in Workers : HostCrash(w) \/ KillTask(w) \/ TaskRaises(w)
  \/ LoseLock

Next ==
  \/ \E j \in Jobs : Request(j) \/ Redeliver(j)
  \/ DeleteCatalogue
  \/ \E e \in Edits : EditBegin(e) \/ EditCommit(e)
  \/ \E w \in Workers : RunStep(w)
  \/ FaultStep

Spec == Init /\ [][Next]_vars

\* A request that has been let in is carried through, an idle worker takes
\* messages, a running task goes on (the time limit bounds it), and a dead
\* worker's message comes back.  Nobody has to ask for anything.
Fairness ==
  /\ \A j \in Jobs : WF_vars(ReprocessCommit(j) \/ Enqueue(j) \/ EnqueueRecorded(j))
  /\ \A j \in Jobs : WF_vars(Redeliver(j))
  /\ \A w \in Workers : WF_vars(RunStep(w))

FairSpec == Spec /\ Fairness

----------------------------------------------------------------------------
(* Safety.                                                                 *)

Section == {"locked", "started", "rendering", "failing", "ending"}

(* Two workers are never inside _run for the catalogue at once, as long as  *)
(* the lock's own connection has not been dropped (_acquire_lock).          *)
OneRunAtATime ==
  ~Happened("lock") =>
    \A v, w \in Workers : pc[v] \in Section /\ pc[w] \in Section => v = w

(* The page rows of a catalogue all come from one run, the one in progress  *)
(* if there is one, whatever requests, crashes and redeliveries do.         *)
PagesOfOneRun ==
  ~Happened("lock") =>
    /\ \A m, n \in PageNo : pages[m] # 0 /\ pages[n] # 0 => pages[m] = pages[n]
    /\ \A w \in Workers, n \in PageNo :
         pc[w] = "rendering" => pages[n] = (IF Exists /\ n <= index[w] THEN run[w] ELSE 0)

(* While a worker deletes and rebuilds pages its job says RUNNING, so that  *)
(* has_active_job keeps edits and unforced requests out; only an API that   *)
(* gave up on queueing a message the broker had taken can hide a run.       *)
RunIsVisible ==
  ~Happened("enqueue") =>
    \A w \in Workers :
      pc[w] \in {"started", "rendering"} /\ Exists => job[cur[w]] = "RUNNING"

(* A job that counts as active is on its way to an end: a request is about  *)
(* to queue it, the broker has its message, or a worker holds it and has    *)
(* not yet recorded its end.  Acknowledging late keeps this across host     *)
(* crashes; a killed task, a failing database and a dying API break it.     *)
ActiveJobIsCarried ==
  ~Happened("kill") /\ ~Happened("database") /\ ~Happened("api") =>
    \A j \in Jobs : job[j] \in Active =>
      \/ api[j] = "committed"
      \/ message[j] \in {"ready", "stranded"}
      \/ \E w \in Workers : cur[w] = j /\ pc[w] \notin {"idle", "ending", "ended"}

\* How often a host has crashed.
Crashes == MaxFaults["crash"] - budget["crash"]

\* The catalogue's pages are all there, of one run.
Whole == \E r \in 1..runs : \A n \in PageNo : pages[n] = r

(* What the panel editor and candidate assembly rely on: a catalogue that   *)
(* says it is done and has no active job shows every page of one run, also  *)
(* after a host crash.  (A second crash, or a failed queueing besides the   *)
(* crash, can let a finished job's run or a refused job hide a broken-off   *)
(* run; see README.)                                                        *)
SettledIsWhole ==
  /\ catalogue \in {"COMPLETED", "PARTIALLY_COMPLETED"} /\ ~HasActiveJob
  /\ ~Happened("lock")
  /\ Crashes = 0 \/ (Crashes = 1 /\ ~Happened("enqueue"))
  => Whole

(* A correction never lands on a page of the run that is being rendered:    *)
(* has_active_job is read before the page's lock is taken, and the page row *)
(* it was opened on is gone by the time a new run writes pages.             *)
CorrectionsOnFinishedRuns ==
  ~Happened("enqueue") /\ ~Happened("lock") =>
    \A e \in corrections, w \in Workers :
      pc[w] = "rendering" => opened[e][2] # run[w]

----------------------------------------------------------------------------
(* What the code's own comments and docs promise.                          *)

(* "Reprocessing refuses to discard such work unless told to": a run only   *)
(* wipes corrections an admin has agreed to lose.                           *)
NoCorrectionLostSilently ==
  [][corrections \ corrections' \subseteq consented \/ ~Exists']_vars

(* "if a job is stuck, reprocess with force=true first": when a forced job  *)
(* has succeeded and nothing is under way any more, panels can be edited.   *)
ForceFreesTheCatalogue ==
  (/\ \E j \in Jobs : request[j].force /\ job[j] = "SUCCEEDED"
   /\ \A j \in Jobs : api[j] \in {"idle", "done"} /\ message[j] = "none"
   /\ \A w \in Workers : pc[w] = "idle")
  => ~HasActiveJob

----------------------------------------------------------------------------
(* Liveness.                                                               *)

(* Unless a task is killed, the database fails or an API process dies, a    *)
(* job that was created ends, also when worker hosts crash on the way.      *)
EveryJobEnds == \A j \in Jobs : job[j] \in Active ~> job[j] \notin Active

(* The catalogue's lock is always given back.                               *)
LockIsReleased == lock # NoWorker ~> lock = NoWorker

----------------------------------------------------------------------------
(* The abstract view: page rows are written by one run at a time.           *)

Serial == INSTANCE SerialRuns WITH
            writers <- {run[w] : w \in {v \in Workers : pc[v] = "rendering"}},
            deleted <- ~Exists

(* Whatever requests, crashes and redeliveries do, page rows are written by *)
(* one run at a time (checked where the lock connection is not dropped).    *)
ImplementsSerialRuns == Serial!Spec
=============================================================================
