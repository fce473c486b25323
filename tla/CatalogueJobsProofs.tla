------------------------ MODULE CatalogueJobsProofs ------------------------
(***************************************************************************)
(* The safety of CatalogueJobs for any number of jobs, workers, pages,     *)
(* corrections and faults.  The inductive invariant adds to the properties *)
(* of the component who holds the lock, who holds which message, and that  *)
(* a deleted catalogue has no jobs.                                        *)
(***************************************************************************)
EXTENDS CatalogueJobs, TLAPS

\* The lock's owner is the worker inside _run.
OwnerInSection == \A w \in Workers : pc[w] \in Section <=> lock = w

LockHeldInSection == ~Happened("lock") => OwnerInSection

\* A job's message is with at most one worker, and is not sent before the
\* job is committed.
MessageHeldOnce ==
  /\ \A w \in Workers : pc[w] # "idle" => message[cur[w]] = "held"
  /\ \A v, w \in Workers : pc[v] # "idle" /\ pc[w] # "idle" /\ cur[v] = cur[w] => v = w
  /\ \A j \in Jobs : api[j] \in {"idle", "checked", "committed"} => message[j] = "none"

\* Deleting a catalogue deletes its jobs, and none is created afterwards.
NoJobWithoutCatalogue == ~Exists => \A j \in Jobs : job[j] = "NONE"

\* Runs are numbered in order; a correction in force was committed once.
RunNumbers ==
  /\ \A n \in PageNo : pages[n] <= runs
  /\ \A w \in Workers : run[w] <= runs
  /\ \A e \in Edits : opened[e][2] <= runs
  /\ \A e \in corrections : edit[e] = "done"

\* No open or committed correction is on a page of the run in progress.
EditsElsewhere ==
  \A e \in Edits, w \in Workers :
    (edit[e] = "open" \/ e \in corrections) /\ pc[w] = "rendering"
      => opened[e][2] # run[w]

EditsApart == ~Happened("enqueue") /\ ~Happened("lock") => EditsElsewhere

\* The bodies of PagesOfOneRun, RunIsVisible and ActiveJobIsCarried.
OneWriter ==
  /\ \A m, n \in PageNo : pages[m] # 0 /\ pages[n] # 0 => pages[m] = pages[n]
  /\ \A w \in Workers, n \in PageNo :
       pc[w] = "rendering" => pages[n] = (IF Exists /\ n <= index[w] THEN run[w] ELSE 0)

WritersRun ==
  \A w \in Workers :
    pc[w] \in {"started", "rendering"} /\ Exists => job[cur[w]] = "RUNNING"

Carries(j) ==
  \/ api[j] = "committed"
  \/ message[j] \in {"ready", "stranded"}
  \/ \E w \in Workers : cur[w] = j /\ pc[w] \notin {"idle", "ending", "ended"}

Carried == \A j \in Jobs : job[j] \in Active => Carries(j)

IInv ==
  /\ TypeOK
  /\ LockHeldInSection
  /\ MessageHeldOnce
  /\ NoJobWithoutCatalogue
  /\ PagesOfOneRun
  /\ RunIsVisible
  /\ ActiveJobIsCarried
  /\ RunNumbers
  /\ EditsApart

----------------------------------------------------------------------------
(* Faults.                                                                  *)

\* A fault uses up budget of its kind and of no other.
LEMMA FaultUses ==
  ASSUME NEW kind \in FaultKinds, budget \in [FaultKinds -> Nat], Fault(kind)
  PROVE  /\ budget' \in [FaultKinds -> Nat]
         /\ \A k \in FaultKinds : k # kind => budget'[k] = budget[k]
         /\ budget'[kind] < budget[kind]
BY DEF Fault

\* No step gives budget back: a fault that has happened stays a fact.
LEMMA BudgetStep ==
  ASSUME TypeOK, [Next]_vars, NEW kind \in FaultKinds
  PROVE  Happened(kind) => Happened(kind)'
<1>1. budget \in [FaultKinds -> Nat]
  BY DEF TypeOK
<1>2. CASE \E k \in FaultKinds : Fault(k)
  BY <1>1, <1>2, FaultUses, MaxFaultsAssumption DEF Happened
<1>3. CASE budget' = budget
  BY <1>3 DEF Happened
<1>4. (\E k \in FaultKinds : Fault(k)) \/ budget' = budget
  BY DEF Next, Request, RunStep, FaultStep, vars, outside, FaultKinds, ReprocessCheck,
         ReprocessCommit, Enqueue, EnqueueRecorded, EnqueueFail, ApiCrash, Redeliver,
         EditBegin, EditCommit, DeleteCatalogue, Deliver, AcquireLock, RefuseJob, Start,
         Wipe, ProcessPage, Finish, FailRun, MarkFailed, ReleaseLock, Acknowledge,
         HostCrash, KillTask, TaskRaises, LoseLock, Dies
<1> QED
  BY <1>2, <1>3, <1>4

----------------------------------------------------------------------------
(* Types.                                                                   *)

\* Every step keeps every variable in its type.
LEMMA TypeStep == TypeOK /\ [Next]_vars => TypeOK'
<1> SUFFICES ASSUME TypeOK, [Next]_vars PROVE TypeOK'
  OBVIOUS
<1> USE FirstJobAssumption, NumPagesAssumption
        DEF TypeOK, database, requests, worker, editors, Goto, locals, outside
<1>1. ASSUME NEW j \in Jobs, ReprocessCheck(j) PROVE TypeOK'
  BY <1>1 DEF ReprocessCheck
<1>2. ASSUME NEW j \in Jobs, ReprocessCommit(j) PROVE TypeOK'
  <2>1. request' \in [Jobs -> [loaded : Status, force : BOOLEAN, discard : BOOLEAN]]
    <3>1. "UPLOADED" \in Status
      BY DEF Status
    <3>2. request[j] \in [loaded : Status, force : BOOLEAN, discard : BOOLEAN]
      OBVIOUS
    <3>3. [request[j] EXCEPT !.loaded = "UPLOADED", !.discard = FALSE]
            \in [loaded : Status, force : BOOLEAN, discard : BOOLEAN]
      BY <3>1, <3>2
    <3> QED
      BY <1>2, <3>3 DEF ReprocessCommit
  <2>2. /\ catalogue' \in Status
        /\ job' \in [Jobs -> {"NONE", "SUCCEEDED", "FAILED"} \cup Active]
        /\ api' \in [Jobs -> {"idle", "checked", "committed", "sent", "done"}]
        /\ consented' \subseteq Edits
    BY <1>2 DEF ReprocessCommit, Status, Active
  <2> QED
    BY <1>2, <2>1, <2>2 DEF ReprocessCommit
<1>3. ASSUME NEW j \in Jobs, Enqueue(j) PROVE TypeOK'
  BY <1>3 DEF Enqueue
<1>4. ASSUME NEW j \in Jobs, EnqueueRecorded(j) PROVE TypeOK'
  BY <1>4 DEF EnqueueRecorded
<1>5. ASSUME NEW j \in Jobs, EnqueueFail(j) PROVE TypeOK'
  <2>1. "enqueue" \in FaultKinds
    BY DEF FaultKinds
  <2>2. /\ budget' \in [FaultKinds -> Nat]
        /\ \A kind \in FaultKinds : budget'[kind] <= MaxFaults[kind]
    BY <1>5, <2>1, FaultUses, MaxFaultsAssumption DEF EnqueueFail
  <2> QED
    BY <1>5, <2>2 DEF EnqueueFail, Status, Ended
<1>6. ASSUME NEW j \in Jobs, ApiCrash(j) PROVE TypeOK'
  <2>1. "api" \in FaultKinds
    BY DEF FaultKinds
  <2>2. /\ budget' \in [FaultKinds -> Nat]
        /\ \A kind \in FaultKinds : budget'[kind] <= MaxFaults[kind]
    BY <1>6, <2>1, FaultUses, MaxFaultsAssumption DEF ApiCrash
  <2> QED
    BY <1>6, <2>2 DEF ApiCrash
<1>7. ASSUME NEW j \in Jobs, Redeliver(j) PROVE TypeOK'
  BY <1>7 DEF Redeliver
<1>8. ASSUME DeleteCatalogue PROVE TypeOK'
  BY <1>8 DEF DeleteCatalogue, Status, NoPages
<1>9. ASSUME NEW e \in Edits, EditBegin(e) PROVE TypeOK'
  BY <1>9 DEF EditBegin
<1>10. ASSUME NEW e \in Edits, EditCommit(e) PROVE TypeOK'
  <2>1. <<1, 0>> \in PageNo \X Nat
    BY DEF PageNo
  <2>2. /\ edit' \in [Edits -> {"idle", "open", "done"}]
        /\ opened' \in [Edits -> PageNo \X Nat]
        /\ corrections' \subseteq Edits
    BY <1>10, <2>1 DEF EditCommit
  <2> QED
    BY <1>10, <2>2 DEF EditCommit
<1>11. ASSUME NEW w \in Workers, NEW j \in Jobs, Deliver(w, j) PROVE TypeOK'
  BY <1>11 DEF Deliver
<1>12. ASSUME NEW w \in Workers, AcquireLock(w) PROVE TypeOK'
  BY <1>12 DEF AcquireLock
<1>13. ASSUME NEW w \in Workers, RefuseJob(w) PROVE TypeOK'
  BY <1>13 DEF RefuseJob
<1>14. ASSUME NEW w \in Workers, Start(w) PROVE TypeOK'
  BY <1>14 DEF Start, Status, Active
<1>15. ASSUME NEW w \in Workers, Wipe(w) PROVE TypeOK'
  BY <1>15 DEF Wipe, NoPages
<1>16. ASSUME NEW w \in Workers, ProcessPage(w) PROVE TypeOK'
  BY <1>16 DEF ProcessPage, PageNo
<1>17. ASSUME NEW w \in Workers, Finish(w) PROVE TypeOK'
  BY <1>17 DEF Finish, Status, Ended
<1>18. ASSUME NEW w \in Workers, FailRun(w) PROVE TypeOK'
  BY <1>18 DEF FailRun
<1>19. ASSUME NEW w \in Workers, MarkFailed(w) PROVE TypeOK'
  BY <1>19 DEF MarkFailed, Status, Ended
<1>20. ASSUME NEW w \in Workers, ReleaseLock(w) PROVE TypeOK'
  BY <1>20 DEF ReleaseLock
<1>21. ASSUME NEW w \in Workers, Acknowledge(w) PROVE TypeOK'
  BY <1>21 DEF Acknowledge, Forget, Status
<1>22. ASSUME NEW w \in Workers, HostCrash(w) PROVE TypeOK'
  <2>1. "crash" \in FaultKinds
    BY DEF FaultKinds
  <2>2. /\ budget' \in [FaultKinds -> Nat]
        /\ \A kind \in FaultKinds : budget'[kind] <= MaxFaults[kind]
    BY <1>22, <2>1, FaultUses, MaxFaultsAssumption DEF HostCrash
  <2> QED
    BY <1>22, <2>2 DEF HostCrash, Dies, Forget, Status
<1>23. ASSUME NEW w \in Workers, KillTask(w) PROVE TypeOK'
  <2>1. "kill" \in FaultKinds
    BY DEF FaultKinds
  <2>2. /\ budget' \in [FaultKinds -> Nat]
        /\ \A kind \in FaultKinds : budget'[kind] <= MaxFaults[kind]
    BY <1>23, <2>1, FaultUses, MaxFaultsAssumption DEF KillTask
  <2> QED
    BY <1>23, <2>2 DEF KillTask, Dies, Forget, Status
<1>24. ASSUME NEW w \in Workers, TaskRaises(w) PROVE TypeOK'
  <2>1. "database" \in FaultKinds
    BY DEF FaultKinds
  <2>2. /\ budget' \in [FaultKinds -> Nat]
        /\ \A kind \in FaultKinds : budget'[kind] <= MaxFaults[kind]
    BY <1>24, <2>1, FaultUses, MaxFaultsAssumption DEF TaskRaises
  <2> QED
    BY <1>24, <2>2 DEF TaskRaises
<1>25. ASSUME LoseLock PROVE TypeOK'
  <2>1. "lock" \in FaultKinds
    BY DEF FaultKinds
  <2>2. /\ budget' \in [FaultKinds -> Nat]
        /\ \A kind \in FaultKinds : budget'[kind] <= MaxFaults[kind]
    BY <1>25, <2>1, FaultUses, MaxFaultsAssumption DEF LoseLock
  <2> QED
    BY <1>25, <2>2 DEF LoseLock
<1>26. CASE UNCHANGED vars
  BY <1>26 DEF vars
<1> QED
  BY <1>1, <1>2, <1>3, <1>4, <1>5, <1>6, <1>7, <1>8, <1>9, <1>10, <1>11, <1>12, <1>13,
     <1>14, <1>15, <1>16, <1>17, <1>18, <1>19, <1>20, <1>21, <1>22, <1>23, <1>24, <1>25,
     <1>26
  DEF Next, Request, RunStep, FaultStep

\* The upload leaves every variable in its type.
LEMMA InitType == Init => TypeOK
BY FirstJobAssumption, NumPagesAssumption, MaxFaultsAssumption
DEF Init, TypeOK, Status, Ended, Active, PageNo, NoPages

\* Every variable always has its type.
THEOREM TypeCorrect == Spec => []TypeOK
BY InitType, TypeStep, PTL DEF Spec

----------------------------------------------------------------------------
(* The lock.                                                                *)

\* The lock is taken on entering _run and given back on leaving it or dying.
LEMMA LockStep ==
  ASSUME TypeOK, LockHeldInSection, [Next]_vars
  PROVE  LockHeldInSection'
<1> USE DEF TypeOK, Section, OwnerInSection, Goto, locals, outside, requests, editors
<1> SUFFICES ASSUME ~Happened("lock")'
             PROVE  OwnerInSection'
  BY DEF LockHeldInSection
<1>1. OwnerInSection
  BY BudgetStep DEF LockHeldInSection, FaultKinds
<1>2. ASSUME NEW w \in Workers, NEW j \in Jobs, Deliver(w, j) PROVE OwnerInSection'
  BY <1>2, <1>1, NoWorkerAssumption DEF Deliver
<1>3. ASSUME NEW w \in Workers, AcquireLock(w) PROVE OwnerInSection'
  BY <1>3, <1>1, NoWorkerAssumption DEF AcquireLock
<1>4. ASSUME NEW w \in Workers, RefuseJob(w) PROVE OwnerInSection'
  BY <1>4, <1>1, NoWorkerAssumption DEF RefuseJob
<1>5. ASSUME NEW w \in Workers, Start(w) PROVE OwnerInSection'
  BY <1>5, <1>1, NoWorkerAssumption DEF Start
<1>6. ASSUME NEW w \in Workers, Wipe(w) PROVE OwnerInSection'
  BY <1>6, <1>1, NoWorkerAssumption DEF Wipe
<1>7. ASSUME NEW w \in Workers, Finish(w) PROVE OwnerInSection'
  BY <1>7, <1>1, NoWorkerAssumption DEF Finish
<1>8. ASSUME NEW w \in Workers, FailRun(w) PROVE OwnerInSection'
  BY <1>8, <1>1, NoWorkerAssumption DEF FailRun
<1>9. ASSUME NEW w \in Workers, MarkFailed(w) PROVE OwnerInSection'
  BY <1>9, <1>1, NoWorkerAssumption DEF MarkFailed
<1>10. ASSUME NEW w \in Workers, ReleaseLock(w) PROVE OwnerInSection'
  BY <1>10, <1>1, NoWorkerAssumption DEF ReleaseLock
<1>11. ASSUME NEW w \in Workers, Acknowledge(w) PROVE OwnerInSection'
  BY <1>11, <1>1, NoWorkerAssumption DEF Acknowledge, Forget
<1>12. ASSUME NEW w \in Workers, HostCrash(w) PROVE OwnerInSection'
  BY <1>12, <1>1, NoWorkerAssumption DEF HostCrash, Dies, Forget
<1>13. ASSUME NEW w \in Workers, KillTask(w) PROVE OwnerInSection'
  BY <1>13, <1>1, NoWorkerAssumption DEF KillTask, Dies, Forget
<1>14. ASSUME NEW w \in Workers, TaskRaises(w) PROVE OwnerInSection'
  BY <1>14, <1>1, NoWorkerAssumption DEF TaskRaises
<1>15. ASSUME LoseLock PROVE OwnerInSection'
  <2>1. "lock" \in FaultKinds
    BY DEF FaultKinds
  <2>2. budget'["lock"] < budget["lock"] /\ budget' \in [FaultKinds -> Nat]
    BY <1>15, <2>1, FaultUses DEF LoseLock
  <2>3. Happened("lock")'
    BY <2>1, <2>2, MaxFaultsAssumption DEF Happened
  <2> QED
    BY <2>3
<1>16. ASSUME UNCHANGED <<pc, lock>> PROVE OwnerInSection'
  BY <1>16, <1>1
<1> QED
  BY <1>2, <1>3, <1>4, <1>5, <1>6, <1>7, <1>8, <1>9, <1>10, <1>11, <1>12, <1>13,
        <1>14, <1>15, <1>16
  DEF Next, Request, RunStep, FaultStep, vars, database, requests, worker, editors,
        ReprocessCheck, ReprocessCommit, Enqueue, EnqueueRecorded, EnqueueFail,
        ApiCrash, Redeliver, DeleteCatalogue, EditBegin, EditCommit, ProcessPage

----------------------------------------------------------------------------
(* Messages.                                                                *)

\* A message is handed to one worker and comes back only when that worker is gone.
LEMMA MessageStep ==
  ASSUME TypeOK, MessageHeldOnce, [Next]_vars
  PROVE  MessageHeldOnce'
<1> USE DEF MessageHeldOnce, Goto, locals, outside, requests, editors
<1>1. /\ message \in [Jobs -> {"none", "ready", "held", "stranded"}]
      /\ api \in [Jobs -> {"idle", "checked", "committed", "sent", "done"}]
      /\ pc \in [Workers -> {"idle", "loaded", "locked", "started", "rendering",
                            "failing", "ending", "ended"}]
      /\ cur \in [Workers -> Jobs]
  BY DEF TypeOK
<1>2. ASSUME NEW j \in Jobs, Enqueue(j) PROVE MessageHeldOnce'
  BY <1>2, <1>1, FirstJobAssumption DEF Enqueue, requests, worker
<1>3. ASSUME NEW w \in Workers, NEW j \in Jobs, Deliver(w, j) PROVE MessageHeldOnce'
  BY <1>3, <1>1, FirstJobAssumption DEF Deliver, requests, worker
<1>4. ASSUME NEW w \in Workers, Acknowledge(w) PROVE MessageHeldOnce'
  BY <1>4, <1>1, FirstJobAssumption DEF Acknowledge, Forget, requests, worker
<1>5. ASSUME NEW w \in Workers, HostCrash(w) PROVE MessageHeldOnce'
  BY <1>5, <1>1, FirstJobAssumption DEF HostCrash, Dies, Forget, requests, worker
<1>6. ASSUME NEW w \in Workers, KillTask(w) PROVE MessageHeldOnce'
  BY <1>6, <1>1, FirstJobAssumption DEF KillTask, Dies, Forget, requests, worker
<1>7. ASSUME NEW j \in Jobs, Redeliver(j) PROVE MessageHeldOnce'
  BY <1>7, <1>1, FirstJobAssumption DEF Redeliver, requests, worker
<1>8. ASSUME NEW j \in Jobs, ReprocessCheck(j) PROVE MessageHeldOnce'
  BY <1>8, <1>1, FirstJobAssumption DEF ReprocessCheck, requests, worker
<1>9. ASSUME NEW j \in Jobs, ReprocessCommit(j) PROVE MessageHeldOnce'
  BY <1>9, <1>1, FirstJobAssumption DEF ReprocessCommit, requests, worker
<1>10. ASSUME NEW j \in Jobs, EnqueueRecorded(j) PROVE MessageHeldOnce'
  BY <1>10, <1>1, FirstJobAssumption DEF EnqueueRecorded, requests, worker
<1>11. ASSUME NEW j \in Jobs, EnqueueFail(j) PROVE MessageHeldOnce'
  BY <1>11, <1>1, FirstJobAssumption DEF EnqueueFail, requests, worker
<1>12. ASSUME NEW j \in Jobs, ApiCrash(j) PROVE MessageHeldOnce'
  BY <1>12, <1>1, FirstJobAssumption DEF ApiCrash, requests, worker
<1>13. ASSUME NEW w \in Workers, AcquireLock(w) PROVE MessageHeldOnce'
  BY <1>13, <1>1, FirstJobAssumption DEF AcquireLock, requests, worker
<1>14. ASSUME NEW w \in Workers, RefuseJob(w) PROVE MessageHeldOnce'
  BY <1>14, <1>1, FirstJobAssumption DEF RefuseJob, requests, worker
<1>15. ASSUME NEW w \in Workers, Start(w) PROVE MessageHeldOnce'
  BY <1>15, <1>1, FirstJobAssumption DEF Start, requests, worker
<1>16. ASSUME NEW w \in Workers, Wipe(w) PROVE MessageHeldOnce'
  BY <1>16, <1>1, FirstJobAssumption DEF Wipe, requests, worker
<1>17. ASSUME NEW w \in Workers, Finish(w) PROVE MessageHeldOnce'
  BY <1>17, <1>1, FirstJobAssumption DEF Finish, requests, worker
<1>18. ASSUME NEW w \in Workers, FailRun(w) PROVE MessageHeldOnce'
  BY <1>18, <1>1, FirstJobAssumption DEF FailRun, requests, worker
<1>19. ASSUME NEW w \in Workers, MarkFailed(w) PROVE MessageHeldOnce'
  BY <1>19, <1>1, FirstJobAssumption DEF MarkFailed, requests, worker
<1>20. ASSUME NEW w \in Workers, ReleaseLock(w) PROVE MessageHeldOnce'
  BY <1>20, <1>1, FirstJobAssumption DEF ReleaseLock, requests, worker
<1>21. ASSUME NEW w \in Workers, TaskRaises(w) PROVE MessageHeldOnce'
  BY <1>21, <1>1, FirstJobAssumption DEF TaskRaises, requests, worker
<1>22. ASSUME UNCHANGED <<pc, cur, message, api>> PROVE MessageHeldOnce'
  BY <1>22, <1>1
<1> QED
  BY <1>2, <1>3, <1>4, <1>5, <1>6, <1>7, <1>8, <1>9, <1>10, <1>11, <1>12, <1>13,
        <1>14, <1>15, <1>16, <1>17, <1>18, <1>19, <1>20, <1>21, <1>22
  DEF Next, Request, RunStep, FaultStep, vars, database, requests, worker, editors,
        DeleteCatalogue, EditBegin, EditCommit, ProcessPage, LoseLock

----------------------------------------------------------------------------
(* Deletion.                                                                *)

\* Jobs are written only while the catalogue's row is there.
LEMMA DeletedStep ==
  ASSUME TypeOK, NoJobWithoutCatalogue, [Next]_vars
  PROVE  NoJobWithoutCatalogue'
<1> USE DEF TypeOK, NoJobWithoutCatalogue, Exists, Goto, locals, outside, requests, editors
<1>1. ASSUME NEW j \in Jobs, ReprocessCommit(j) PROVE NoJobWithoutCatalogue'
  BY <1>1 DEF ReprocessCommit
<1>2. ASSUME NEW j \in Jobs, EnqueueFail(j) PROVE NoJobWithoutCatalogue'
  BY <1>2 DEF EnqueueFail
<1>3. ASSUME DeleteCatalogue PROVE NoJobWithoutCatalogue'
  BY <1>3 DEF DeleteCatalogue
<1>4. ASSUME NEW w \in Workers, RefuseJob(w) PROVE NoJobWithoutCatalogue'
  BY <1>4 DEF RefuseJob
<1>5. ASSUME NEW w \in Workers, Start(w) PROVE NoJobWithoutCatalogue'
  BY <1>5 DEF Start
<1>6. ASSUME NEW w \in Workers, Finish(w) PROVE NoJobWithoutCatalogue'
  BY <1>6 DEF Finish
<1>7. ASSUME NEW w \in Workers, MarkFailed(w) PROVE NoJobWithoutCatalogue'
  BY <1>7 DEF MarkFailed
<1>8. ASSUME UNCHANGED <<catalogue, job>> PROVE NoJobWithoutCatalogue'
  BY <1>8
<1> QED
  BY <1>1, <1>2, <1>3, <1>4, <1>5, <1>6, <1>7, <1>8
  DEF Next, Request, RunStep, FaultStep, vars, database, requests, worker, editors,
        ReprocessCheck, Enqueue, EnqueueRecorded, ApiCrash, Redeliver, EditBegin,
        EditCommit, Deliver, AcquireLock, Wipe, ProcessPage, FailRun, ReleaseLock,
        Acknowledge, HostCrash, KillTask, TaskRaises, LoseLock, Dies, Forget

----------------------------------------------------------------------------
(* Pages.                                                                   *)

\* Only the lock's owner clears and adds page rows, in the order of its run.
LEMMA PagesStep ==
  ASSUME TypeOK, LockHeldInSection, PagesOfOneRun, [Next]_vars
  PROVE  PagesOfOneRun'
<1> USE DEF Exists, OneWriter, Goto, locals, outside, requests, editors
<1>1. /\ pages \in [PageNo -> Nat]
      /\ pc \in [Workers -> {"idle", "loaded", "locked", "started", "rendering",
                            "failing", "ending", "ended"}]
      /\ run \in [Workers -> Nat]
      /\ index \in [Workers -> Nat]
      /\ runs \in Nat
  BY DEF TypeOK
<1> SUFFICES ASSUME ~Happened("lock")'
             PROVE  OneWriter'
  BY DEF PagesOfOneRun, OneWriter
<1>2. OwnerInSection /\ OneWriter
  BY BudgetStep DEF LockHeldInSection, PagesOfOneRun, OneWriter, FaultKinds
<1>3. \A v, w \in Workers : pc[v] = "rendering" /\ pc[w] \in Section => v = w
  BY <1>2 DEF OwnerInSection, Section
<1>4. ASSUME NEW j \in Jobs, ReprocessCommit(j) PROVE OneWriter'
  BY <1>4, <1>1, <1>2, <1>3 DEF ReprocessCommit, worker
<1>5. ASSUME NEW j \in Jobs, EnqueueFail(j) PROVE OneWriter'
  BY <1>5, <1>1, <1>2, <1>3 DEF EnqueueFail, worker
<1>6. ASSUME DeleteCatalogue PROVE OneWriter'
  BY <1>6, <1>1, <1>2, <1>3 DEF DeleteCatalogue, NoPages, PageNo, worker
<1>7. ASSUME NEW w \in Workers, NEW j \in Jobs, Deliver(w, j) PROVE OneWriter'
  BY <1>7, <1>1, <1>2, <1>3 DEF Deliver, database
<1>8. ASSUME NEW w \in Workers, AcquireLock(w) PROVE OneWriter'
  BY <1>8, <1>1, <1>2, <1>3 DEF AcquireLock, database
<1>9. ASSUME NEW w \in Workers, RefuseJob(w) PROVE OneWriter'
  BY <1>9, <1>1, <1>2, <1>3 DEF RefuseJob
<1>10. ASSUME NEW w \in Workers, Start(w) PROVE OneWriter'
  BY <1>10, <1>1, <1>2, <1>3 DEF Start
<1>11. ASSUME NEW w \in Workers, Wipe(w) PROVE OneWriter'
  BY <1>11, <1>1, <1>2, <1>3 DEF Wipe, NoPages, PageNo, Section
<1>12. ASSUME NEW w \in Workers, ProcessPage(w) PROVE OneWriter'
  BY <1>12, <1>1, <1>2, <1>3 DEF ProcessPage, PageNo, Section
<1>13. ASSUME NEW w \in Workers, Finish(w) PROVE OneWriter'
  BY <1>13, <1>1, <1>2, <1>3 DEF Finish
<1>14. ASSUME NEW w \in Workers, FailRun(w) PROVE OneWriter'
  BY <1>14, <1>1, <1>2, <1>3 DEF FailRun, database
<1>15. ASSUME NEW w \in Workers, MarkFailed(w) PROVE OneWriter'
  BY <1>15, <1>1, <1>2, <1>3 DEF MarkFailed
<1>16. ASSUME NEW w \in Workers, ReleaseLock(w) PROVE OneWriter'
  BY <1>16, <1>1, <1>2, <1>3 DEF ReleaseLock, database
<1>17. ASSUME NEW w \in Workers, Acknowledge(w) PROVE OneWriter'
  BY <1>17, <1>1, <1>2, <1>3 DEF Acknowledge, Forget, database
<1>18. ASSUME NEW w \in Workers, HostCrash(w) PROVE OneWriter'
  BY <1>18, <1>1, <1>2, <1>3 DEF HostCrash, Dies, Forget, database
<1>19. ASSUME NEW w \in Workers, KillTask(w) PROVE OneWriter'
  BY <1>19, <1>1, <1>2, <1>3 DEF KillTask, Dies, Forget, database
<1>20. ASSUME NEW w \in Workers, TaskRaises(w) PROVE OneWriter'
  BY <1>20, <1>1, <1>2, <1>3 DEF TaskRaises, database
<1>21. ASSUME UNCHANGED <<catalogue, pages, pc, run, index>> PROVE OneWriter'
  BY <1>21, <1>1, <1>2, <1>3
<1> QED
  BY <1>4, <1>5, <1>6, <1>7, <1>8, <1>9, <1>10, <1>11, <1>12, <1>13, <1>14, <1>15,
        <1>16, <1>17, <1>18, <1>19, <1>20, <1>21
  DEF Next, Request, RunStep, FaultStep, vars, database, requests, worker, editors,
        ReprocessCheck, Enqueue, EnqueueRecorded, ApiCrash, Redeliver, EditBegin,
        EditCommit, LoseLock

----------------------------------------------------------------------------
(* Jobs.                                                                    *)

\* Only the worker that holds a job's message writes the job's status.
LEMMA VisibleStep ==
  ASSUME TypeOK, MessageHeldOnce, RunIsVisible, [Next]_vars
  PROVE  RunIsVisible'
<1> USE DEF Exists, WritersRun, Goto, locals, outside, requests, editors
<1>1. /\ message \in [Jobs -> {"none", "ready", "held", "stranded"}]
      /\ api \in [Jobs -> {"idle", "checked", "committed", "sent", "done"}]
      /\ pc \in [Workers -> {"idle", "loaded", "locked", "started", "rendering",
                            "failing", "ending", "ended"}]
      /\ cur \in [Workers -> Jobs]
      /\ job \in [Jobs -> {"NONE", "SUCCEEDED", "FAILED"} \cup Active]
  BY DEF TypeOK
<1> SUFFICES ASSUME ~Happened("enqueue")'
             PROVE  WritersRun'
  BY DEF RunIsVisible, WritersRun
<1>2. WritersRun
  BY BudgetStep DEF RunIsVisible, WritersRun, FaultKinds
<1>3. ASSUME NEW j \in Jobs, ReprocessCommit(j) PROVE WritersRun'
  BY <1>3, <1>1, <1>2 DEF ReprocessCommit, worker, MessageHeldOnce
<1>4. ASSUME NEW j \in Jobs, EnqueueFail(j) PROVE WritersRun'
  <2>1. "enqueue" \in FaultKinds
    BY DEF FaultKinds
  <2>2. budget'["enqueue"] < budget["enqueue"] /\ budget' \in [FaultKinds -> Nat]
    BY <1>4, <2>1, FaultUses DEF EnqueueFail, TypeOK
  <2>3. Happened("enqueue")'
    BY <2>1, <2>2, MaxFaultsAssumption DEF Happened, TypeOK
  <2> QED
    BY <2>3
<1>5. ASSUME DeleteCatalogue PROVE WritersRun'
  BY <1>5, <1>1, <1>2 DEF DeleteCatalogue, worker
<1>6. ASSUME NEW w \in Workers, NEW j \in Jobs, Deliver(w, j) PROVE WritersRun'
  BY <1>6, <1>1, <1>2 DEF Deliver, database
<1>7. ASSUME NEW w \in Workers, AcquireLock(w) PROVE WritersRun'
  BY <1>7, <1>1, <1>2 DEF AcquireLock, database
<1>8. ASSUME NEW w \in Workers, RefuseJob(w) PROVE WritersRun'
  BY <1>8, <1>1, <1>2 DEF RefuseJob, MessageHeldOnce
<1>9. ASSUME NEW w \in Workers, Start(w) PROVE WritersRun'
  BY <1>9, <1>1, <1>2 DEF Start, MessageHeldOnce
<1>10. ASSUME NEW w \in Workers, Wipe(w) PROVE WritersRun'
  BY <1>10, <1>1, <1>2 DEF Wipe
<1>11. ASSUME NEW w \in Workers, Finish(w) PROVE WritersRun'
  BY <1>11, <1>1, <1>2 DEF Finish, MessageHeldOnce
<1>12. ASSUME NEW w \in Workers, FailRun(w) PROVE WritersRun'
  BY <1>12, <1>1, <1>2 DEF FailRun, database
<1>13. ASSUME NEW w \in Workers, MarkFailed(w) PROVE WritersRun'
  BY <1>13, <1>1, <1>2 DEF MarkFailed, MessageHeldOnce
<1>14. ASSUME NEW w \in Workers, ReleaseLock(w) PROVE WritersRun'
  BY <1>14, <1>1, <1>2 DEF ReleaseLock, database
<1>15. ASSUME NEW w \in Workers, Acknowledge(w) PROVE WritersRun'
  BY <1>15, <1>1, <1>2 DEF Acknowledge, Forget, database
<1>16. ASSUME NEW w \in Workers, HostCrash(w) PROVE WritersRun'
  BY <1>16, <1>1, <1>2 DEF HostCrash, Dies, Forget, database
<1>17. ASSUME NEW w \in Workers, KillTask(w) PROVE WritersRun'
  BY <1>17, <1>1, <1>2 DEF KillTask, Dies, Forget, database
<1>18. ASSUME NEW w \in Workers, TaskRaises(w) PROVE WritersRun'
  BY <1>18, <1>1, <1>2 DEF TaskRaises, database
<1>19. ASSUME UNCHANGED <<catalogue, job, pc, cur>> PROVE WritersRun'
  BY <1>19, <1>1, <1>2
<1> QED
  BY <1>3, <1>4, <1>5, <1>6, <1>7, <1>8, <1>9, <1>10, <1>11, <1>12, <1>13, <1>14,
        <1>15, <1>16, <1>17, <1>18, <1>19
  DEF Next, Request, RunStep, FaultStep, vars, database, requests, worker, editors,
        ReprocessCheck, Enqueue, EnqueueRecorded, ApiCrash, Redeliver, EditBegin,
        EditCommit, ProcessPage, LoseLock

\* A message is acknowledged only after its job's end is recorded.
LEMMA CarriedStep ==
  ASSUME TypeOK, MessageHeldOnce, NoJobWithoutCatalogue, ActiveJobIsCarried, [Next]_vars
  PROVE  ActiveJobIsCarried'
<1> USE DEF Carried, Carries, Goto, locals, outside, requests, editors
<1>1. /\ message \in [Jobs -> {"none", "ready", "held", "stranded"}]
      /\ api \in [Jobs -> {"idle", "checked", "committed", "sent", "done"}]
      /\ pc \in [Workers -> {"idle", "loaded", "locked", "started", "rendering",
                            "failing", "ending", "ended"}]
      /\ cur \in [Workers -> Jobs]
      /\ job \in [Jobs -> {"NONE", "SUCCEEDED", "FAILED"} \cup Active]
  BY DEF TypeOK
<1> SUFFICES ASSUME ~Happened("kill")', ~Happened("database")', ~Happened("api")'
             PROVE  Carried'
  BY DEF ActiveJobIsCarried, Carried, Carries
<1>2. Carried
  BY BudgetStep DEF ActiveJobIsCarried, Carried, Carries, FaultKinds
<1>3. ASSUME NEW j \in Jobs, ReprocessCheck(j) PROVE Carried'
  BY <1>3, <1>1, <1>2 DEF ReprocessCheck, database, worker
<1>4. ASSUME NEW j \in Jobs, ReprocessCommit(j) PROVE Carried'
  BY <1>4, <1>1, <1>2 DEF ReprocessCommit, worker
<1>5. ASSUME NEW j \in Jobs, Enqueue(j) PROVE Carried'
  BY <1>5, <1>1, <1>2 DEF Enqueue, database, worker
<1>6. ASSUME NEW j \in Jobs, EnqueueRecorded(j) PROVE Carried'
  BY <1>6, <1>1, <1>2 DEF EnqueueRecorded, database, worker
<1>7. ASSUME NEW j \in Jobs, EnqueueFail(j) PROVE Carried'
  BY <1>7, <1>1, <1>2 DEF EnqueueFail, NoJobWithoutCatalogue, Active, worker
<1>8. ASSUME NEW j \in Jobs, ApiCrash(j) PROVE Carried'
  <2>1. "api" \in FaultKinds
    BY DEF FaultKinds
  <2>2. budget'["api"] < budget["api"] /\ budget' \in [FaultKinds -> Nat]
    BY <1>8, <2>1, FaultUses DEF ApiCrash, TypeOK
  <2>3. Happened("api")'
    BY <2>1, <2>2, MaxFaultsAssumption DEF Happened, TypeOK
  <2> QED
    BY <2>3
<1>9. ASSUME NEW j \in Jobs, Redeliver(j) PROVE Carried'
  BY <1>9, <1>1, <1>2 DEF Redeliver, requests, database, worker
<1>10. ASSUME DeleteCatalogue PROVE Carried'
  BY <1>10, <1>1, <1>2 DEF DeleteCatalogue, Active
<1>11. ASSUME NEW w \in Workers, NEW j \in Jobs, Deliver(w, j) PROVE Carried'
  BY <1>11, <1>1, <1>2 DEF Deliver, database, requests, NoJobWithoutCatalogue, Active
<1>12. ASSUME NEW w \in Workers, AcquireLock(w) PROVE Carried'
  BY <1>12, <1>1, <1>2 DEF AcquireLock, requests, database
<1>13. ASSUME NEW w \in Workers, RefuseJob(w) PROVE Carried'
  BY <1>13, <1>1, <1>2 DEF RefuseJob, NoJobWithoutCatalogue, requests, Active
<1>14. ASSUME NEW w \in Workers, Start(w) PROVE Carried'
  BY <1>14, <1>1, <1>2 DEF Start, requests
<1>15. ASSUME NEW w \in Workers, Wipe(w) PROVE Carried'
  BY <1>15, <1>1, <1>2 DEF Wipe, requests
<1>16. ASSUME NEW w \in Workers, Finish(w) PROVE Carried'
  BY <1>16, <1>1, <1>2 DEF Finish, requests, Active
<1>17. ASSUME NEW w \in Workers, FailRun(w) PROVE Carried'
  BY <1>17, <1>1, <1>2 DEF FailRun, requests, database
<1>18. ASSUME NEW w \in Workers, MarkFailed(w) PROVE Carried'
  BY <1>18, <1>1, <1>2 DEF MarkFailed, NoJobWithoutCatalogue, requests, Active
<1>19. ASSUME NEW w \in Workers, ReleaseLock(w) PROVE Carried'
  BY <1>19, <1>1, <1>2 DEF ReleaseLock, requests, database
<1>20. ASSUME NEW w \in Workers, Acknowledge(w) PROVE Carried'
  BY <1>20, <1>1, <1>2 DEF Acknowledge, Forget, database, requests, MessageHeldOnce
<1>21. ASSUME NEW w \in Workers, HostCrash(w) PROVE Carried'
  BY <1>21, <1>1, <1>2 DEF HostCrash, requests, MessageHeldOnce, Dies, Forget, database
<1>22. ASSUME NEW w \in Workers, KillTask(w) PROVE Carried'
  <2>1. "kill" \in FaultKinds
    BY DEF FaultKinds
  <2>2. budget'["kill"] < budget["kill"] /\ budget' \in [FaultKinds -> Nat]
    BY <1>22, <2>1, FaultUses DEF KillTask, TypeOK
  <2>3. Happened("kill")'
    BY <2>1, <2>2, MaxFaultsAssumption DEF Happened, TypeOK
  <2> QED
    BY <2>3
<1>23. ASSUME NEW w \in Workers, TaskRaises(w) PROVE Carried'
  <2>1. "database" \in FaultKinds
    BY DEF FaultKinds
  <2>2. budget'["database"] < budget["database"] /\ budget' \in [FaultKinds -> Nat]
    BY <1>23, <2>1, FaultUses DEF TaskRaises, TypeOK
  <2>3. Happened("database")'
    BY <2>1, <2>2, MaxFaultsAssumption DEF Happened, TypeOK
  <2> QED
    BY <2>3
<1>24. ASSUME UNCHANGED <<job, api, message, pc, cur>> PROVE Carried'
  BY <1>24, <1>1, <1>2
<1> QED
  BY <1>3, <1>4, <1>5, <1>6, <1>7, <1>8, <1>9, <1>10, <1>11, <1>12, <1>13, <1>14,
        <1>15, <1>16, <1>17, <1>18, <1>19, <1>20, <1>21, <1>22, <1>23, <1>24
  DEF Next, Request, RunStep, FaultStep, vars, database, requests, worker, editors,
        EditBegin, EditCommit, ProcessPage, LoseLock

----------------------------------------------------------------------------
(* Corrections.                                                             *)

\* Run numbers only grow, and an edit is committed once.
LEMMA RunNumbersStep ==
  ASSUME TypeOK, RunNumbers, [Next]_vars
  PROVE  RunNumbers'
<1> USE DEF RunNumbers, Goto, locals, outside, requests, editors
<1>1. /\ pages \in [PageNo -> Nat]
      /\ run \in [Workers -> Nat]
      /\ runs \in Nat
      /\ edit \in [Edits -> {"idle", "open", "done"}]
      /\ opened \in [Edits -> PageNo \X Nat]
      /\ corrections \subseteq Edits
  BY DEF TypeOK
<1>2. ASSUME DeleteCatalogue PROVE RunNumbers'
  BY <1>2, <1>1 DEF DeleteCatalogue, NoPages, PageNo, worker, editors
<1>3. ASSUME NEW e \in Edits, EditBegin(e) PROVE RunNumbers'
  BY <1>3, <1>1 DEF EditBegin, database, worker
<1>4. ASSUME NEW e \in Edits, EditCommit(e) PROVE RunNumbers'
  BY <1>4, <1>1 DEF EditCommit, worker
<1>5. ASSUME NEW w \in Workers, Wipe(w) PROVE RunNumbers'
  BY <1>5, <1>1 DEF Wipe, NoPages, editors
<1>6. ASSUME NEW w \in Workers, ProcessPage(w) PROVE RunNumbers'
  BY <1>6, <1>1 DEF ProcessPage, editors
<1>7. ASSUME NEW w \in Workers, Acknowledge(w) PROVE RunNumbers'
  BY <1>7, <1>1 DEF Acknowledge, Forget, database, editors
<1>8. ASSUME NEW w \in Workers, HostCrash(w) PROVE RunNumbers'
  BY <1>8, <1>1 DEF HostCrash, Dies, Forget, database, editors
<1>9. ASSUME NEW w \in Workers, KillTask(w) PROVE RunNumbers'
  BY <1>9, <1>1 DEF KillTask, Dies, Forget, database, editors
<1>10. ASSUME UNCHANGED <<pages, run, runs, edit, opened, corrections>> PROVE RunNumbers'
  BY <1>10, <1>1
<1> QED
  BY <1>2, <1>3, <1>4, <1>5, <1>6, <1>7, <1>8, <1>9, <1>10
  DEF Next, Request, RunStep, FaultStep, vars, database, requests, worker, editors,
        ReprocessCheck, ReprocessCommit, Enqueue, EnqueueRecorded, EnqueueFail,
        ApiCrash, Redeliver, Deliver, AcquireLock, RefuseJob, Start, Finish, FailRun,
        MarkFailed, ReleaseLock, TaskRaises, LoseLock

\* A page that can be opened for editing is not of the run in progress.
LEMMA EditsStep ==
  ASSUME TypeOK, PagesOfOneRun, RunIsVisible, RunNumbers, EditsApart, [Next]_vars
  PROVE  EditsApart'
<1> USE DEF EditsElsewhere, Goto, locals, outside, requests, editors
<1>1. /\ pages \in [PageNo -> Nat]
      /\ pc \in [Workers -> {"idle", "loaded", "locked", "started", "rendering",
                            "failing", "ending", "ended"}]
      /\ cur \in [Workers -> Jobs]
      /\ run \in [Workers -> Nat]
      /\ runs \in Nat
      /\ edit \in [Edits -> {"idle", "open", "done"}]
      /\ opened \in [Edits -> PageNo \X Nat]
      /\ corrections \subseteq Edits
  BY DEF TypeOK
<1> SUFFICES ASSUME ~Happened("enqueue")', ~Happened("lock")'
             PROVE  EditsElsewhere'
  BY DEF EditsApart
<1>2. OneWriter /\ WritersRun /\ EditsElsewhere
  BY BudgetStep DEF PagesOfOneRun, RunIsVisible, EditsApart, OneWriter, WritersRun, FaultKinds
<1>3. ASSUME DeleteCatalogue PROVE EditsElsewhere'
  BY <1>3, <1>1, <1>2 DEF DeleteCatalogue, worker, editors
<1>4. ASSUME NEW e \in Edits, EditBegin(e) PROVE EditsElsewhere'
  BY <1>4, <1>1, <1>2 DEF EditBegin, database, worker, OneWriter, WritersRun, HasActiveJob, Active
<1>5. ASSUME NEW e \in Edits, EditCommit(e) PROVE EditsElsewhere'
  BY <1>5, <1>1, <1>2 DEF EditCommit, worker, RunNumbers
<1>6. ASSUME NEW w \in Workers, NEW j \in Jobs, Deliver(w, j) PROVE EditsElsewhere'
  BY <1>6, <1>1, <1>2 DEF Deliver, database, editors
<1>7. ASSUME NEW w \in Workers, AcquireLock(w) PROVE EditsElsewhere'
  BY <1>7, <1>1, <1>2 DEF AcquireLock, database, editors
<1>8. ASSUME NEW w \in Workers, RefuseJob(w) PROVE EditsElsewhere'
  BY <1>8, <1>1, <1>2 DEF RefuseJob, editors
<1>9. ASSUME NEW w \in Workers, Start(w) PROVE EditsElsewhere'
  BY <1>9, <1>1, <1>2 DEF Start, editors
<1>10. ASSUME NEW w \in Workers, Wipe(w) PROVE EditsElsewhere'
  BY <1>10, <1>1, <1>2 DEF Wipe, editors, RunNumbers
<1>11. ASSUME NEW w \in Workers, Finish(w) PROVE EditsElsewhere'
  BY <1>11, <1>1, <1>2 DEF Finish, editors
<1>12. ASSUME NEW w \in Workers, FailRun(w) PROVE EditsElsewhere'
  BY <1>12, <1>1, <1>2 DEF FailRun, database, editors
<1>13. ASSUME NEW w \in Workers, MarkFailed(w) PROVE EditsElsewhere'
  BY <1>13, <1>1, <1>2 DEF MarkFailed, editors
<1>14. ASSUME NEW w \in Workers, ReleaseLock(w) PROVE EditsElsewhere'
  BY <1>14, <1>1, <1>2 DEF ReleaseLock, database, editors
<1>15. ASSUME NEW w \in Workers, Acknowledge(w) PROVE EditsElsewhere'
  BY <1>15, <1>1, <1>2 DEF Acknowledge, Forget, database, editors
<1>16. ASSUME NEW w \in Workers, HostCrash(w) PROVE EditsElsewhere'
  BY <1>16, <1>1, <1>2 DEF HostCrash, Dies, Forget, database, editors
<1>17. ASSUME NEW w \in Workers, KillTask(w) PROVE EditsElsewhere'
  BY <1>17, <1>1, <1>2 DEF KillTask, Dies, Forget, database, editors
<1>18. ASSUME NEW w \in Workers, TaskRaises(w) PROVE EditsElsewhere'
  BY <1>18, <1>1, <1>2 DEF TaskRaises, database, editors
<1>19. ASSUME UNCHANGED <<pc, run, edit, opened, corrections>> PROVE EditsElsewhere'
  BY <1>19, <1>1, <1>2
<1> QED
  BY <1>3, <1>4, <1>5, <1>6, <1>7, <1>8, <1>9, <1>10, <1>11, <1>12, <1>13, <1>14,
        <1>15, <1>16, <1>17, <1>18, <1>19
  DEF Next, Request, RunStep, FaultStep, vars, database, requests, worker, editors,
        ReprocessCheck, ReprocessCommit, Enqueue, EnqueueRecorded, EnqueueFail,
        ApiCrash, Redeliver, ProcessPage, LoseLock

----------------------------------------------------------------------------
(* The inductive invariant and what follows from it.                        *)

\* Nothing has happened yet.
LEMMA InitIInv == Init => IInv
<1> SUFFICES ASSUME Init PROVE IInv
  OBVIOUS
<1>1. TypeOK
  BY InitType
<1>2. LockHeldInSection /\ MessageHeldOnce /\ NoJobWithoutCatalogue
  BY NoWorkerAssumption
  DEF Init, LockHeldInSection, OwnerInSection, Section, MessageHeldOnce,
      NoJobWithoutCatalogue, Exists
<1>3. PagesOfOneRun /\ RunIsVisible
  BY DEF Init, PagesOfOneRun, RunIsVisible, NoPages
<1>4. ActiveJobIsCarried
  BY DEF Init, ActiveJobIsCarried, Active
<1>5. RunNumbers /\ EditsApart
  BY DEF Init, RunNumbers, EditsApart, EditsElsewhere, NoPages
<1> QED
  BY <1>1, <1>2, <1>3, <1>4, <1>5 DEF IInv

\* Every step of the requests, the workers, the admins and the faults keeps it.
LEMMA StepIInv == IInv /\ [Next]_vars => IInv'
BY TypeStep, LockStep, MessageStep, DeletedStep, PagesStep, VisibleStep, CarriedStep,
   RunNumbersStep, EditsStep
DEF IInv

\* The inductive invariant holds throughout.
THEOREM Invariance == Spec => []IInv
BY InitIInv, StepIInv, PTL DEF Spec

\* Two workers are never inside _run for the catalogue at once, unless the
\* connection that holds the advisory lock was dropped.
THEOREM MutualExclusion == Spec => []OneRunAtATime
<1>1. IInv => OneRunAtATime
  BY NoWorkerAssumption DEF IInv, LockHeldInSection, OwnerInSection, OneRunAtATime
<1> QED
  BY <1>1, Invariance, PTL

\* The page rows of a catalogue all come from one run.
THEOREM PagesAreOfOneRun == Spec => []PagesOfOneRun
BY Invariance, PTL DEF IInv

\* A worker that rebuilds pages is visible to has_active_job.
THEOREM RunsAreVisible == Spec => []RunIsVisible
BY Invariance, PTL DEF IInv

\* With late acknowledgement, a host crash never loses a job.
THEOREM ActiveJobsAreCarried == Spec => []ActiveJobIsCarried
BY Invariance, PTL DEF IInv

\* A correction never lands on a page of the run that is being rendered.
THEOREM CorrectionsAreApart == Spec => []CorrectionsOnFinishedRuns
<1>1. IInv => CorrectionsOnFinishedRuns
  BY DEF IInv, TypeOK, EditsApart, EditsElsewhere, CorrectionsOnFinishedRuns
<1> QED
  BY <1>1, Invariance, PTL

----------------------------------------------------------------------------
(* A catalogue that is done and has no active job is whole.                 *)

Done == {"COMPLETED", "PARTIALLY_COMPLETED"}

\* The catalogue says it is done while a run that did not write its status
\* (it had loaded PROCESSING) has taken the pages.
Debt == catalogue \in Done /\ ~Whole

\* No worker is about to refuse the job, nor can its message come back.
Firm(j) ==
  /\ api[j] \in {"sent", "done"}
  /\ message[j] \in {"none", "held"}
  /\ \A w \in Workers : cur[w] = j => pc[w] # "loaded"

\* A debt has a job that still counts as active and that is safe from refusal,
\* or one whose message a crash has brought back.
Owed(X) == Debt => \E j \in Jobs : job[j] \in Active /\ (Firm(j) \/ j \in X)

\* A job whose message was never brought back is active until its run has ended.
Fresh(j) ==
  /\ message[j] # "stranded"
  /\ api[j] = "committed" \/ message[j] = "ready" => job[j] = "QUEUED"
  /\ \A w \in Workers : cur[w] = j =>
       /\ pc[w] \in {"loaded", "locked"} => job[j] = "QUEUED"
       /\ pc[w] = "failing" => job[j] \in Active
       /\ pc[w] = "ending" => ~Debt \/ job[j] \in Active

Known(X) == Exists => \A j \in Jobs \ X : Fresh(j)

\* The crash has brought back no message but those in X.
Returned(X) == (\E x \in Jobs : X \subseteq {x}) /\ (Crashes = 0 => X = {})

RunsCounted == \A w \in Workers : pc[w] = "rendering" => run[w] > 0

\* A run that has started is active, unless its queueing was given up, which
\* the catalogue's status shows.
StartedRun ==
  \A w \in Workers : pc[w] \in {"started", "rendering"} =>
    catalogue \notin Done \/ job[cur[w]] = "RUNNING"

Calm == ~Happened("lock") /\ (Crashes = 0 \/ (Crashes = 1 /\ ~Happened("enqueue")))

Settles ==
  /\ RunsCounted
  /\ ~Happened("lock") => StartedRun
  /\ Calm => \E X \in SUBSET Jobs :
               Returned(X) /\ Owed(X) /\ (~Happened("enqueue") => Known(X))

----------------------------------------------------------------------------
\* The run that renders has a number of its own.
LEMMA RunsCountedStep ==
  ASSUME IInv, RunsCounted, [Next]_vars
  PROVE  RunsCounted'
<1> USE DEF RunsCounted, Goto, database, requests, locals, worker, outside, editors
<1>1. /\ catalogue \in Status /\ runs \in Nat
      /\ job \in [Jobs -> {"NONE", "SUCCEEDED", "FAILED"} \cup Active]
      /\ message \in [Jobs -> {"none", "ready", "held", "stranded"}]
      /\ api \in [Jobs -> {"idle", "checked", "committed", "sent", "done"}]
      /\ pc \in [Workers -> {"idle", "loaded", "locked", "started", "rendering",
                            "failing", "ending", "ended"}]
      /\ cur \in [Workers -> Jobs]
      /\ pages \in [PageNo -> Nat]
      /\ run \in [Workers -> Nat]
      /\ index \in [Workers -> Nat]
  BY DEF IInv, TypeOK
<1>2. ASSUME NEW j \in Jobs, ReprocessCheck(j) PROVE RunsCounted'
  BY <1>2, <1>1 DEF ReprocessCheck
<1>3. ASSUME NEW j \in Jobs, ReprocessCommit(j) PROVE RunsCounted'
  BY <1>3, <1>1 DEF ReprocessCommit
<1>4. ASSUME NEW j \in Jobs, Enqueue(j) PROVE RunsCounted'
  BY <1>4, <1>1 DEF Enqueue
<1>5. ASSUME NEW j \in Jobs, EnqueueRecorded(j) PROVE RunsCounted'
  BY <1>5, <1>1 DEF EnqueueRecorded
<1>6. ASSUME NEW j \in Jobs, EnqueueFail(j) PROVE RunsCounted'
  BY <1>6, <1>1 DEF EnqueueFail
<1>7. ASSUME NEW j \in Jobs, ApiCrash(j) PROVE RunsCounted'
  BY <1>7, <1>1 DEF ApiCrash
<1>8. ASSUME NEW j \in Jobs, Redeliver(j) PROVE RunsCounted'
  BY <1>8, <1>1 DEF Redeliver
<1>9. ASSUME DeleteCatalogue PROVE RunsCounted'
  BY <1>9, <1>1 DEF DeleteCatalogue
<1>10. ASSUME NEW w \in Workers, NEW j \in Jobs, Deliver(w, j) PROVE RunsCounted'
  BY <1>10, <1>1 DEF Deliver
<1>11. ASSUME NEW w \in Workers, AcquireLock(w) PROVE RunsCounted'
  BY <1>11, <1>1 DEF AcquireLock
<1>12. ASSUME NEW w \in Workers, RefuseJob(w) PROVE RunsCounted'
  BY <1>12, <1>1 DEF RefuseJob
<1>13. ASSUME NEW w \in Workers, Start(w) PROVE RunsCounted'
  BY <1>13, <1>1 DEF Start
<1>14. ASSUME NEW w \in Workers, Wipe(w) PROVE RunsCounted'
  BY <1>14, <1>1 DEF Wipe
<1>15. ASSUME NEW w \in Workers, ProcessPage(w) PROVE RunsCounted'
  BY <1>15, <1>1 DEF ProcessPage
<1>16. ASSUME NEW w \in Workers, Finish(w) PROVE RunsCounted'
  BY <1>16, <1>1 DEF Finish
<1>17. ASSUME NEW w \in Workers, FailRun(w) PROVE RunsCounted'
  BY <1>17, <1>1 DEF FailRun
<1>18. ASSUME NEW w \in Workers, MarkFailed(w) PROVE RunsCounted'
  BY <1>18, <1>1 DEF MarkFailed
<1>19. ASSUME NEW w \in Workers, ReleaseLock(w) PROVE RunsCounted'
  BY <1>19, <1>1 DEF ReleaseLock
<1>20. ASSUME NEW w \in Workers, Acknowledge(w) PROVE RunsCounted'
  BY <1>20, <1>1 DEF Acknowledge, Forget
<1>21. ASSUME NEW w \in Workers, KillTask(w) PROVE RunsCounted'
  BY <1>21, <1>1 DEF KillTask, Dies, Forget
<1>22. ASSUME NEW w \in Workers, TaskRaises(w) PROVE RunsCounted'
  BY <1>22, <1>1 DEF TaskRaises
<1>23. ASSUME NEW e \in Edits, EditBegin(e) \/ EditCommit(e) PROVE RunsCounted'
  BY <1>23, <1>1 DEF EditBegin, EditCommit
<1>24. ASSUME UNCHANGED vars PROVE RunsCounted'
  BY <1>24, <1>1 DEF vars
<1>40. ASSUME NEW w \in Workers, HostCrash(w) PROVE RunsCounted'
  BY <1>40, <1>1 DEF HostCrash, Dies, Forget
<1>41. ASSUME LoseLock PROVE RunsCounted'
  BY <1>41 DEF LoseLock
<1> QED
  BY <1>2, <1>3, <1>4, <1>5, <1>6, <1>7, <1>8, <1>9, <1>10, <1>11, <1>12,
     <1>13, <1>14, <1>15, <1>16, <1>17, <1>18, <1>19, <1>20, <1>21, <1>22,
     <1>23, <1>24, <1>40, <1>41 DEF Next, Request, RunStep, FaultStep

\* Only the run itself ends a run that has started, and only a failed queueing
\* takes away its job.
LEMMA StartedStep ==
  ASSUME IInv, ~Happened("lock"), StartedRun, [Next]_vars, ~LoseLock
  PROVE  StartedRun'
<1> USE DEF StartedRun, Done, Goto, database, requests, locals, worker, outside, editors
<1>1. /\ catalogue \in Status /\ runs \in Nat
      /\ job \in [Jobs -> {"NONE", "SUCCEEDED", "FAILED"} \cup Active]
      /\ message \in [Jobs -> {"none", "ready", "held", "stranded"}]
      /\ api \in [Jobs -> {"idle", "checked", "committed", "sent", "done"}]
      /\ pc \in [Workers -> {"idle", "loaded", "locked", "started", "rendering",
                            "failing", "ending", "ended"}]
      /\ cur \in [Workers -> Jobs]
      /\ pages \in [PageNo -> Nat]
      /\ run \in [Workers -> Nat]
      /\ index \in [Workers -> Nat]
  BY DEF IInv, TypeOK
<1>2. \A v, w \in Workers : pc[v] \in Section /\ pc[w] \in Section => v = w
  BY NoWorkerAssumption DEF IInv, LockHeldInSection, OwnerInSection
<1>3. /\ \A w \in Workers : pc[w] # "idle" => message[cur[w]] = "held"
      /\ \A v, w \in Workers : pc[v] # "idle" /\ pc[w] # "idle" /\ cur[v] = cur[w] => v = w
      /\ \A j \in Jobs : api[j] \in {"idle", "checked", "committed"} => message[j] = "none"
  BY DEF IInv, MessageHeldOnce
<1>4. ASSUME NEW j \in Jobs, ReprocessCheck(j) PROVE StartedRun'
  BY <1>4, <1>1, <1>2, <1>3 DEF ReprocessCheck
<1>5. ASSUME NEW j \in Jobs, ReprocessCommit(j) PROVE StartedRun'
  BY <1>5, <1>1, <1>2, <1>3 DEF ReprocessCommit
<1>6. ASSUME NEW j \in Jobs, Enqueue(j) PROVE StartedRun'
  BY <1>6, <1>1, <1>2, <1>3 DEF Enqueue
<1>7. ASSUME NEW j \in Jobs, EnqueueRecorded(j) PROVE StartedRun'
  BY <1>7, <1>1, <1>2, <1>3 DEF EnqueueRecorded
<1>8. ASSUME NEW j \in Jobs, EnqueueFail(j) PROVE StartedRun'
  BY <1>8, <1>1, <1>2, <1>3 DEF EnqueueFail, Exists
<1>9. ASSUME NEW j \in Jobs, ApiCrash(j) PROVE StartedRun'
  BY <1>9, <1>1, <1>2, <1>3 DEF ApiCrash
<1>10. ASSUME NEW j \in Jobs, Redeliver(j) PROVE StartedRun'
  BY <1>10, <1>1, <1>2, <1>3 DEF Redeliver
<1>11. ASSUME DeleteCatalogue PROVE StartedRun'
  BY <1>11, <1>1, <1>2, <1>3 DEF DeleteCatalogue
<1>12. ASSUME NEW w \in Workers, NEW j \in Jobs, Deliver(w, j) PROVE StartedRun'
  BY <1>12, <1>1, <1>2, <1>3 DEF Deliver
<1>13. ASSUME NEW w \in Workers, AcquireLock(w) PROVE StartedRun'
  BY <1>13, <1>1, <1>2, <1>3 DEF AcquireLock
<1>14. ASSUME NEW w \in Workers, RefuseJob(w) PROVE StartedRun'
  BY <1>14, <1>1, <1>2, <1>3 DEF RefuseJob
<1>15. ASSUME NEW w \in Workers, Start(w) PROVE StartedRun'
  BY <1>15, <1>1, <1>2, <1>3 DEF Start
<1>16. ASSUME NEW w \in Workers, Wipe(w) PROVE StartedRun'
  BY <1>16, <1>1, <1>2, <1>3 DEF Wipe
<1>17. ASSUME NEW w \in Workers, ProcessPage(w) PROVE StartedRun'
  BY <1>17, <1>1, <1>2, <1>3 DEF ProcessPage
<1>18. ASSUME NEW w \in Workers, Finish(w) PROVE StartedRun'
  BY <1>18, <1>1, <1>2, <1>3 DEF Finish, Section
<1>19. ASSUME NEW w \in Workers, FailRun(w) PROVE StartedRun'
  BY <1>19, <1>1, <1>2, <1>3 DEF FailRun
<1>20. ASSUME NEW w \in Workers, MarkFailed(w) PROVE StartedRun'
  BY <1>20, <1>1, <1>2, <1>3 DEF MarkFailed
<1>21. ASSUME NEW w \in Workers, ReleaseLock(w) PROVE StartedRun'
  BY <1>21, <1>1, <1>2, <1>3 DEF ReleaseLock
<1>22. ASSUME NEW w \in Workers, Acknowledge(w) PROVE StartedRun'
  BY <1>22, <1>1, <1>2, <1>3 DEF Acknowledge, Forget
<1>23. ASSUME NEW w \in Workers, KillTask(w) PROVE StartedRun'
  BY <1>23, <1>1, <1>2, <1>3 DEF KillTask, Dies, Forget
<1>24. ASSUME NEW w \in Workers, TaskRaises(w) PROVE StartedRun'
  BY <1>24, <1>1, <1>2, <1>3 DEF TaskRaises
<1>25. ASSUME NEW e \in Edits, EditBegin(e) \/ EditCommit(e) PROVE StartedRun'
  BY <1>25, <1>1, <1>2, <1>3 DEF EditBegin, EditCommit
<1>26. ASSUME UNCHANGED vars PROVE StartedRun'
  BY <1>26, <1>1, <1>2, <1>3 DEF vars
<1>40. ASSUME NEW w \in Workers, HostCrash(w) PROVE StartedRun'
  BY <1>40, <1>1 DEF HostCrash, Dies, Forget
<1> QED
  BY <1>4, <1>5, <1>6, <1>7, <1>8, <1>9, <1>10, <1>11, <1>12, <1>13, <1>14,
     <1>15, <1>16, <1>17, <1>18, <1>19, <1>20, <1>21, <1>22, <1>23, <1>24,
     <1>25, <1>26, <1>40 DEF Next, Request, RunStep, FaultStep

\* A run that finishes has written every page.
LEMMA FinishedIsWhole ==
  ASSUME IInv, ~Happened("lock"), RunsCounted, NEW w \in Workers, Finish(w)
  PROVE  Whole'
<1> USE DEF Goto, database, requests, locals, worker, outside, editors
<1>1. /\ catalogue \in Status /\ runs \in Nat
      /\ job \in [Jobs -> {"NONE", "SUCCEEDED", "FAILED"} \cup Active]
      /\ message \in [Jobs -> {"none", "ready", "held", "stranded"}]
      /\ api \in [Jobs -> {"idle", "checked", "committed", "sent", "done"}]
      /\ pc \in [Workers -> {"idle", "loaded", "locked", "started", "rendering",
                            "failing", "ending", "ended"}]
      /\ cur \in [Workers -> Jobs]
      /\ pages \in [PageNo -> Nat]
      /\ run \in [Workers -> Nat]
      /\ index \in [Workers -> Nat]
  BY DEF IInv, TypeOK
<1>2. \A n \in PageNo : pages[n] = run[w]
  BY <1>1, NumPagesAssumption DEF IInv, PagesOfOneRun, Finish, PageNo
<1>3. run[w] \in 1..runs
  BY <1>1 DEF IInv, RunNumbers, RunsCounted, Finish
<1> QED
  BY <1>2, <1>3 DEF Whole, Finish

\* A debt stays owed.  The job that took the pages cannot be refused while its
\* message is away; if the crash brings it back and another worker's lock refuses it, that
\* worker's own job takes over, since its message has come for the first time.
LEMMA OwedStep ==
  ASSUME IInv, ~Happened("lock"), RunsCounted, StartedRun, NEW X \in SUBSET Jobs, Owed(X),
         Exists /\ X # {} => Returned(X) /\ Known(X),
         [Next]_vars, ~LoseLock, \A w \in Workers : ~HostCrash(w)
  PROVE  Owed(X)'
<1> USE DEF Goto, database, requests, locals, worker, outside, editors
<1>1. /\ catalogue \in Status /\ runs \in Nat
      /\ job \in [Jobs -> {"NONE", "SUCCEEDED", "FAILED"} \cup Active]
      /\ message \in [Jobs -> {"none", "ready", "held", "stranded"}]
      /\ api \in [Jobs -> {"idle", "checked", "committed", "sent", "done"}]
      /\ pc \in [Workers -> {"idle", "loaded", "locked", "started", "rendering",
                            "failing", "ending", "ended"}]
      /\ cur \in [Workers -> Jobs]
      /\ pages \in [PageNo -> Nat]
      /\ run \in [Workers -> Nat]
      /\ index \in [Workers -> Nat]
  BY DEF IInv, TypeOK
<1>2. /\ \A w \in Workers : pc[w] # "idle" => message[cur[w]] = "held"
      /\ \A v, w \in Workers : pc[v] # "idle" /\ pc[w] # "idle" /\ cur[v] = cur[w] => v = w
      /\ \A j \in Jobs : api[j] \in {"idle", "checked", "committed"} => message[j] = "none"
  BY DEF IInv, MessageHeldOnce
<1>3. ASSUME catalogue' \notin Done PROVE Owed(X)'
  BY <1>3 DEF Owed, Debt
<1>4. ASSUME UNCHANGED <<pages, runs>>, catalogue' = catalogue,
             \A j \in Jobs : job[j] \in Active /\ (Firm(j) \/ j \in X)
                             => job'[j] \in Active /\ (Firm(j)' \/ j \in X)
      PROVE  Owed(X)'
  BY <1>4 DEF Owed, Debt, Whole
<1>5. ASSUME NEW j \in Jobs, ReprocessCheck(j) PROVE Owed(X)'
  <2>1. \A i \in Jobs : Firm(i) => Firm(i)'
    BY <1>5, <1>1, <1>2 DEF Firm, ReprocessCheck
  <2>2. \A i \in Jobs : job[i] \in Active => job'[i] \in Active
    BY <1>5, <1>1 DEF Active, ReprocessCheck
  <2> QED
    BY <1>5, <2>1, <2>2, <1>4 DEF ReprocessCheck
<1>6. ASSUME NEW j \in Jobs, ReprocessCommit(j) PROVE Owed(X)'
  <2>1. \A i \in Jobs : Firm(i) => Firm(i)'
    BY <1>6, <1>1, <1>2 DEF Firm, ReprocessCommit
  <2>2. \A i \in Jobs : job[i] \in Active => job'[i] \in Active
    BY <1>6, <1>1 DEF Active, ReprocessCommit
  <2>3. catalogue' = catalogue \/ catalogue' = "UPLOADED"
    BY <1>6 DEF ReprocessCommit
  <2> QED
    BY <1>6, <2>1, <2>2, <2>3, <1>3, <1>4 DEF ReprocessCommit, Done
<1>7. ASSUME NEW j \in Jobs, Enqueue(j) PROVE Owed(X)'
  <2>1. \A i \in Jobs : Firm(i) => Firm(i)'
    BY <1>7, <1>1, <1>2 DEF Firm, Enqueue
  <2>2. \A i \in Jobs : job[i] \in Active => job'[i] \in Active
    BY <1>7, <1>1 DEF Active, Enqueue
  <2> QED
    BY <1>7, <2>1, <2>2, <1>4 DEF Enqueue
<1>8. ASSUME NEW j \in Jobs, EnqueueRecorded(j) PROVE Owed(X)'
  <2>1. \A i \in Jobs : Firm(i) => Firm(i)'
    BY <1>8, <1>1, <1>2 DEF Firm, EnqueueRecorded
  <2>2. \A i \in Jobs : job[i] \in Active => job'[i] \in Active
    BY <1>8, <1>1 DEF Active, EnqueueRecorded
  <2> QED
    BY <1>8, <2>1, <2>2, <1>4 DEF EnqueueRecorded
<1>9. ASSUME NEW j \in Jobs, EnqueueFail(j) PROVE Owed(X)'
  <2>1. catalogue' \notin Done
    BY <1>9 DEF EnqueueFail, Exists, Done
  <2> QED
    BY <2>1, <1>3
<1>10. ASSUME NEW j \in Jobs, ApiCrash(j) PROVE Owed(X)'
  <2>1. \A i \in Jobs : Firm(i) => Firm(i)'
    BY <1>10, <1>1, <1>2 DEF Firm, ApiCrash
  <2>2. \A i \in Jobs : job[i] \in Active => job'[i] \in Active
    BY <1>10, <1>1 DEF Active, ApiCrash
  <2> QED
    BY <1>10, <2>1, <2>2, <1>4 DEF ApiCrash
<1>11. ASSUME NEW j \in Jobs, Redeliver(j) PROVE Owed(X)'
  <2>1. \A i \in Jobs : Firm(i) => Firm(i)'
    BY <1>11, <1>1, <1>2 DEF Firm, Redeliver
  <2>2. \A i \in Jobs : job[i] \in Active => job'[i] \in Active
    BY <1>11, <1>1 DEF Active, Redeliver
  <2> QED
    BY <1>11, <2>1, <2>2, <1>4 DEF Redeliver
<1>12. ASSUME DeleteCatalogue PROVE Owed(X)'
  <2>1. catalogue' \notin Done
    BY <1>12 DEF DeleteCatalogue, Exists, Done
  <2> QED
    BY <2>1, <1>3
<1>13. ASSUME NEW w \in Workers, NEW j \in Jobs, Deliver(w, j) PROVE Owed(X)'
  <2>1. \A i \in Jobs : Firm(i) => Firm(i)'
    BY <1>13, <1>1, <1>2 DEF Firm, Deliver
  <2>2. \A i \in Jobs : job[i] \in Active => job'[i] \in Active
    BY <1>13, <1>1 DEF Active, Deliver
  <2> QED
    BY <1>13, <2>1, <2>2, <1>4 DEF Deliver
<1>14. ASSUME NEW w \in Workers, AcquireLock(w) PROVE Owed(X)'
  <2>1. \A i \in Jobs : Firm(i) => Firm(i)'
    BY <1>14, <1>1, <1>2 DEF Firm, AcquireLock
  <2>2. \A i \in Jobs : job[i] \in Active => job'[i] \in Active
    BY <1>14, <1>1 DEF Active, AcquireLock
  <2> QED
    BY <1>14, <2>1, <2>2, <1>4 DEF AcquireLock
<1>15. ASSUME NEW w \in Workers, RefuseJob(w) PROVE Owed(X)'
  <2> DEFINE j == cur[w]
  <2>1. UNCHANGED <<pages, runs, catalogue, message, api, cur>> /\ j \in Jobs
    BY <1>15, <1>1 DEF RefuseJob
  <2>2. ~Firm(j) /\ \A i \in Jobs \ {j} : job'[i] = job[i]
    BY <1>15, <1>1 DEF RefuseJob, Firm
  <2>3. \A i \in Jobs : Firm(i) => Firm(i)'
    BY <1>15, <1>1 DEF RefuseJob, Firm
  <2>4. CASE j \notin X
    BY <2>1, <2>2, <2>3, <2>4, <1>4
  <2>5. CASE ~Debt
    BY <2>1, <2>5 DEF Owed, Debt, Whole
  <2>6. CASE Debt /\ j \in X
    <3>1. X # {} /\ Exists /\ catalogue \in Done
      BY <2>6 DEF Debt, Done, Exists
    <3>2. X = {j} /\ Known(X)
      BY <2>6, <3>1 DEF Returned
    <3>3. PICK v \in Workers : lock = v /\ pc[v] \in Section
      BY <1>15, NoWorkerAssumption DEF RefuseJob, IInv, TypeOK, LockHeldInSection, OwnerInSection
    <3>4. v # w /\ cur[v] \in Jobs \ X
      <4>1. v # w
        BY <1>15, <3>3 DEF RefuseJob, Section
      <4>2. cur[v] # j
        BY <1>15, <4>1, <3>3, <1>2 DEF RefuseJob, Section
      <4> QED
        BY <4>1, <4>2, <3>2, <1>1
    <3>5. Fresh(cur[v])
      BY <3>1, <3>2, <3>4 DEF Known
    <3>6. PICK k \in Jobs \ X : k = cur[v]
      BY <3>4
    <3>7. job[k] \in Active
      BY <3>1, <3>3, <3>5, <3>6, <2>6, <1>1 DEF Fresh, Section, StartedRun, Active
    <3>8. \A u \in Workers : cur[u] = k => pc[u] # "loaded"
      BY <3>3, <3>6, <1>2 DEF Section
    <3>9. Firm(k)
      BY <3>3, <3>6, <3>8, <1>1, <1>2 DEF Firm, Section
    <3>10. job'[k] \in Active /\ Firm(k)'
      BY <3>2, <3>6, <3>7, <3>9, <2>2, <2>3
    <3> QED
      BY <3>10 DEF Owed
  <2> QED
    BY <2>4, <2>5, <2>6
<1>16. ASSUME NEW w \in Workers, Start(w) PROVE Owed(X)'
  <2>1. \A i \in Jobs : Firm(i) => Firm(i)'
    BY <1>16, <1>1, <1>2 DEF Firm, Start
  <2>2. \A i \in Jobs : job[i] \in Active => job'[i] \in Active
    BY <1>16, <1>1 DEF Active, Start
  <2>3. catalogue' = catalogue \/ catalogue' = "PROCESSING"
    BY <1>16 DEF Start
  <2> QED
    BY <1>16, <2>1, <2>2, <2>3, <1>3, <1>4 DEF Start, Done
<1>17. ASSUME NEW w \in Workers, Wipe(w) PROVE Owed(X)'
  <2>1. CASE catalogue \in Done
    <3>1. PICK j \in Jobs : j = cur[w]
      BY <1>1
    <3>2. job'[j] \in Active
      BY <1>17, <2>1, <3>1, <1>1 DEF Wipe, StartedRun, Active
    <3>3. Firm(j)'
      BY <1>17, <3>1, <1>1, <1>2 DEF Wipe, Firm
    <3> QED
      BY <3>2, <3>3 DEF Owed
  <2>2. CASE catalogue \notin Done
    BY <1>17, <2>2, <1>3 DEF Wipe
  <2> QED
    BY <2>1, <2>2
<1>18. ASSUME NEW w \in Workers, ProcessPage(w) PROVE Owed(X)'
  <2>1. CASE catalogue \in Done
    <3>1. PICK j \in Jobs : j = cur[w]
      BY <1>1
    <3>2. job'[j] \in Active
      BY <1>18, <2>1, <3>1, <1>1 DEF ProcessPage, StartedRun, Active
    <3>3. Firm(j)'
      BY <1>18, <3>1, <1>1, <1>2 DEF ProcessPage, Firm
    <3> QED
      BY <3>2, <3>3 DEF Owed
  <2>2. CASE catalogue \notin Done
    BY <1>18, <2>2, <1>3 DEF ProcessPage
  <2> QED
    BY <2>1, <2>2
<1>19. ASSUME NEW w \in Workers, Finish(w) PROVE Owed(X)'
  BY <1>19, FinishedIsWhole DEF Owed, Debt
<1>20. ASSUME NEW w \in Workers, FailRun(w) PROVE Owed(X)'
  <2>1. \A i \in Jobs : Firm(i) => Firm(i)'
    BY <1>20, <1>1, <1>2 DEF Firm, FailRun
  <2>2. \A i \in Jobs : job[i] \in Active => job'[i] \in Active
    BY <1>20, <1>1 DEF Active, FailRun
  <2> QED
    BY <1>20, <2>1, <2>2, <1>4 DEF FailRun
<1>21. ASSUME NEW w \in Workers, MarkFailed(w) PROVE Owed(X)'
  <2>1. catalogue' \notin Done
    BY <1>21 DEF MarkFailed, Exists, Done
  <2> QED
    BY <2>1, <1>3
<1>22. ASSUME NEW w \in Workers, ReleaseLock(w) PROVE Owed(X)'
  <2>1. \A i \in Jobs : Firm(i) => Firm(i)'
    BY <1>22, <1>1, <1>2 DEF Firm, ReleaseLock
  <2>2. \A i \in Jobs : job[i] \in Active => job'[i] \in Active
    BY <1>22, <1>1 DEF Active, ReleaseLock
  <2> QED
    BY <1>22, <2>1, <2>2, <1>4 DEF ReleaseLock
<1>23. ASSUME NEW w \in Workers, Acknowledge(w) PROVE Owed(X)'
  <2>1. \A i \in Jobs : Firm(i) => Firm(i)'
    BY <1>23, <1>1, <1>2 DEF Firm, Acknowledge, Forget
  <2>2. \A i \in Jobs : job[i] \in Active => job'[i] \in Active
    BY <1>23, <1>1 DEF Active, Acknowledge, Forget
  <2> QED
    BY <1>23, <2>1, <2>2, <1>4 DEF Acknowledge
<1>24. ASSUME NEW w \in Workers, KillTask(w) PROVE Owed(X)'
  <2>1. \A i \in Jobs : Firm(i) => Firm(i)'
    BY <1>24, <1>1, <1>2 DEF Firm, KillTask, Dies, Forget
  <2>2. \A i \in Jobs : job[i] \in Active => job'[i] \in Active
    BY <1>24, <1>1 DEF Active, KillTask, Dies, Forget
  <2> QED
    BY <1>24, <2>1, <2>2, <1>4 DEF KillTask, Dies
<1>25. ASSUME NEW w \in Workers, TaskRaises(w) PROVE Owed(X)'
  <2>1. \A i \in Jobs : Firm(i) => Firm(i)'
    BY <1>25, <1>1, <1>2 DEF Firm, TaskRaises
  <2>2. \A i \in Jobs : job[i] \in Active => job'[i] \in Active
    BY <1>25, <1>1 DEF Active, TaskRaises
  <2> QED
    BY <1>25, <2>1, <2>2, <1>4 DEF TaskRaises
<1>26. ASSUME NEW e \in Edits, EditBegin(e) \/ EditCommit(e) PROVE Owed(X)'
  <2>1. \A i \in Jobs : Firm(i) => Firm(i)'
    BY <1>26, <1>1, <1>2 DEF Firm, EditBegin, EditCommit
  <2>2. \A i \in Jobs : job[i] \in Active => job'[i] \in Active
    BY <1>26, <1>1 DEF Active, EditBegin, EditCommit
  <2> QED
    BY <1>26, <2>1, <2>2, <1>4 DEF EditBegin, EditCommit
<1>27. ASSUME UNCHANGED vars PROVE Owed(X)'
  <2>1. \A i \in Jobs : Firm(i) => Firm(i)'
    BY <1>27, <1>1, <1>2 DEF Firm, vars
  <2>2. \A i \in Jobs : job[i] \in Active => job'[i] \in Active
    BY <1>27, <1>1 DEF Active, vars
  <2> QED
    BY <1>27, <2>1, <2>2, <1>4 DEF vars
<1> QED
  BY <1>5, <1>6, <1>7, <1>8, <1>9, <1>10, <1>11, <1>12, <1>13, <1>14, <1>15,
     <1>16, <1>17, <1>18, <1>19, <1>20, <1>21, <1>22, <1>23, <1>24, <1>25,
     <1>26, <1>27 DEF Next, Request, RunStep, FaultStep

\* As long as queueing does not fail, a job whose message has come once at most is
\* active until its run has ended.
LEMMA KnownStep ==
  ASSUME IInv, ~Happened("lock"), ~Happened("enqueue"), RunsCounted, NEW X \in SUBSET Jobs,
         Known(X), [Next]_vars, ~LoseLock, \A w \in Workers : ~HostCrash(w),
         \A j \in Jobs : ~EnqueueFail(j)
  PROVE  Known(X)'
<1> USE DEF Goto, database, requests, locals, worker, outside, editors
<1>1. /\ catalogue \in Status /\ runs \in Nat
      /\ job \in [Jobs -> {"NONE", "SUCCEEDED", "FAILED"} \cup Active]
      /\ message \in [Jobs -> {"none", "ready", "held", "stranded"}]
      /\ api \in [Jobs -> {"idle", "checked", "committed", "sent", "done"}]
      /\ pc \in [Workers -> {"idle", "loaded", "locked", "started", "rendering",
                            "failing", "ending", "ended"}]
      /\ cur \in [Workers -> Jobs]
      /\ pages \in [PageNo -> Nat]
      /\ run \in [Workers -> Nat]
      /\ index \in [Workers -> Nat]
  BY DEF IInv, TypeOK
<1>2. /\ \A w \in Workers : pc[w] # "idle" => message[cur[w]] = "held"
      /\ \A v, w \in Workers : pc[v] # "idle" /\ pc[w] # "idle" /\ cur[v] = cur[w] => v = w
      /\ \A j \in Jobs : api[j] \in {"idle", "checked", "committed"} => message[j] = "none"
  BY DEF IInv, MessageHeldOnce
<1>3. \A v, w \in Workers : pc[v] \in Section /\ pc[w] \in Section => v = w
  BY NoWorkerAssumption DEF IInv, LockHeldInSection, OwnerInSection
<1>4. \A w \in Workers : pc[w] \in {"started", "rendering"} /\ Exists => job[cur[w]] = "RUNNING"
  BY DEF IInv, RunIsVisible
<1>5. SUFFICES ASSUME Exists', NEW i \in Jobs \ X
               PROVE  Fresh(i)'
  BY DEF Known
<1>6. ASSUME NEW j \in Jobs, ReprocessCheck(j) PROVE Fresh(i)'
  <2>1. Exists /\ Fresh(i)
    BY <1>6, <1>5 DEF Known, Exists, ReprocessCheck
  <2>2. Debt' => Debt
    BY <1>6 DEF Debt, Whole, Done, ReprocessCheck
  <2> QED
    BY <1>6, <2>1, <2>2, <1>1, <1>2, <1>4 DEF Fresh, Active, ReprocessCheck
<1>7. ASSUME NEW j \in Jobs, ReprocessCommit(j) PROVE Fresh(i)'
  <2>1. Exists /\ Fresh(i)
    BY <1>7, <1>5 DEF Known, Exists, ReprocessCommit
  <2>2. Debt' => Debt
    BY <1>7 DEF Debt, Whole, Done, ReprocessCommit
  <2> QED
    BY <1>7, <2>1, <2>2, <1>1, <1>2, <1>4 DEF Fresh, Active, ReprocessCommit
<1>8. ASSUME NEW j \in Jobs, Enqueue(j) PROVE Fresh(i)'
  <2>1. Exists /\ Fresh(i)
    BY <1>8, <1>5 DEF Known, Exists, Enqueue
  <2>2. Debt' => Debt
    BY <1>8 DEF Debt, Whole, Done, Enqueue
  <2> QED
    BY <1>8, <2>1, <2>2, <1>1, <1>2, <1>4 DEF Fresh, Active, Enqueue
<1>9. ASSUME NEW j \in Jobs, EnqueueRecorded(j) PROVE Fresh(i)'
  <2>1. Exists /\ Fresh(i)
    BY <1>9, <1>5 DEF Known, Exists, EnqueueRecorded
  <2>2. Debt' => Debt
    BY <1>9 DEF Debt, Whole, Done, EnqueueRecorded
  <2> QED
    BY <1>9, <2>1, <2>2, <1>1, <1>2, <1>4 DEF Fresh, Active, EnqueueRecorded
<1>10. ASSUME NEW j \in Jobs, EnqueueFail(j) PROVE Fresh(i)'
  BY <1>10
<1>11. ASSUME NEW j \in Jobs, ApiCrash(j) PROVE Fresh(i)'
  <2>1. Exists /\ Fresh(i)
    BY <1>11, <1>5 DEF Known, Exists, ApiCrash
  <2>2. Debt' => Debt
    BY <1>11 DEF Debt, Whole, Done, ApiCrash
  <2> QED
    BY <1>11, <2>1, <2>2, <1>1, <1>2, <1>4 DEF Fresh, Active, ApiCrash
<1>12. ASSUME NEW j \in Jobs, Redeliver(j) PROVE Fresh(i)'
  <2>1. Exists /\ Fresh(i)
    BY <1>12, <1>5 DEF Known, Exists, Redeliver
  <2>2. Debt' => Debt
    BY <1>12 DEF Debt, Whole, Done, Redeliver
  <2> QED
    BY <1>12, <2>1, <2>2, <1>1, <1>2, <1>4 DEF Fresh, Active, Redeliver
<1>13. ASSUME DeleteCatalogue PROVE Fresh(i)'
  BY <1>13, <1>5 DEF DeleteCatalogue, Exists
<1>14. ASSUME NEW w \in Workers, NEW j \in Jobs, Deliver(w, j) PROVE Fresh(i)'
  <2>1. Exists /\ Fresh(i)
    BY <1>14, <1>5 DEF Known, Exists, Deliver
  <2>2. Debt' => Debt
    BY <1>14 DEF Debt, Whole, Done, Deliver
  <2> QED
    BY <1>14, <2>1, <2>2, <1>1, <1>2, <1>4 DEF Fresh, Active, Deliver
<1>15. ASSUME NEW w \in Workers, AcquireLock(w) PROVE Fresh(i)'
  <2>1. Exists /\ Fresh(i)
    BY <1>15, <1>5 DEF Known, Exists, AcquireLock
  <2>2. Debt' => Debt
    BY <1>15 DEF Debt, Whole, Done, AcquireLock
  <2> QED
    BY <1>15, <2>1, <2>2, <1>1, <1>2, <1>4 DEF Fresh, Active, AcquireLock
<1>16. ASSUME NEW w \in Workers, RefuseJob(w) PROVE Fresh(i)'
  <2>1. Exists /\ Fresh(i)
    BY <1>16, <1>5 DEF Known, Exists, RefuseJob
  <2>2. Debt' => Debt
    BY <1>16 DEF Debt, Whole, Done, RefuseJob
  <2> QED
    BY <1>16, <2>1, <2>2, <1>1, <1>2, <1>4 DEF Fresh, Active, RefuseJob
<1>17. ASSUME NEW w \in Workers, Start(w) PROVE Fresh(i)'
  <2>1. Exists /\ Fresh(i)
    BY <1>17, <1>5 DEF Known, Exists, Start
  <2>2. Debt' => Debt
    BY <1>17 DEF Debt, Whole, Done, Start
  <2> QED
    BY <1>17, <2>1, <2>2, <1>1, <1>2, <1>4 DEF Fresh, Active, Start
<1>18. ASSUME NEW w \in Workers, Wipe(w) PROVE Fresh(i)'
  <2>1. Exists /\ Fresh(i)
    BY <1>18, <1>5 DEF Known, Exists, Wipe
  <2>2. \A v \in Workers : pc'[v] # "ending"
    BY <1>18, <1>1, <1>3 DEF Section, Wipe
  <2> QED
    BY <1>18, <2>1, <2>2, <1>1 DEF Fresh, Wipe
<1>19. ASSUME NEW w \in Workers, ProcessPage(w) PROVE Fresh(i)'
  <2>1. Exists /\ Fresh(i)
    BY <1>19, <1>5 DEF Known, Exists, ProcessPage
  <2>2. \A v \in Workers : pc'[v] # "ending"
    BY <1>19, <1>1, <1>3 DEF Section, ProcessPage
  <2> QED
    BY <1>19, <2>1, <2>2, <1>1 DEF Fresh, ProcessPage
<1>20. ASSUME NEW w \in Workers, Finish(w) PROVE Fresh(i)'
  <2>1. Exists /\ Fresh(i)
    BY <1>20, <1>5 DEF Known, Exists, Finish
  <2>2. ~Debt'
    BY <1>20, FinishedIsWhole DEF Debt
  <2> QED
    BY <1>20, <2>1, <2>2, <1>1, <1>2 DEF Fresh, Finish
<1>21. ASSUME NEW w \in Workers, FailRun(w) PROVE Fresh(i)'
  <2>1. Exists /\ Fresh(i)
    BY <1>21, <1>5 DEF Known, Exists, FailRun
  <2>2. Debt' => Debt
    BY <1>21 DEF Debt, Whole, Done, FailRun
  <2> QED
    BY <1>21, <2>1, <2>2, <1>1, <1>2, <1>4 DEF Fresh, Active, FailRun
<1>22. ASSUME NEW w \in Workers, MarkFailed(w) PROVE Fresh(i)'
  <2>1. Exists /\ Fresh(i)
    BY <1>22, <1>5 DEF Known, Exists, MarkFailed
  <2>2. ~Debt'
    BY <1>22, <2>1 DEF Debt, Done, MarkFailed
  <2> QED
    BY <1>22, <2>1, <2>2, <1>1, <1>2, <1>4 DEF Fresh, Active, MarkFailed
<1>23. ASSUME NEW w \in Workers, ReleaseLock(w) PROVE Fresh(i)'
  <2>1. Exists /\ Fresh(i)
    BY <1>23, <1>5 DEF Known, Exists, ReleaseLock
  <2>2. Debt' => Debt
    BY <1>23 DEF Debt, Whole, Done, ReleaseLock
  <2> QED
    BY <1>23, <2>1, <2>2, <1>1, <1>2, <1>4 DEF Fresh, Active, ReleaseLock
<1>24. ASSUME NEW w \in Workers, Acknowledge(w) PROVE Fresh(i)'
  <2>1. Exists /\ Fresh(i)
    BY <1>24, <1>5 DEF Known, Exists, Acknowledge, Forget
  <2>2. Debt' => Debt
    BY <1>24 DEF Debt, Whole, Done, Acknowledge, Forget
  <2> QED
    BY <1>24, <2>1, <2>2, <1>1, <1>2, <1>4 DEF Fresh, Active, Acknowledge, Forget
<1>25. ASSUME NEW w \in Workers, KillTask(w) PROVE Fresh(i)'
  <2>1. Exists /\ Fresh(i)
    BY <1>25, <1>5 DEF Known, Exists, KillTask, Dies, Forget
  <2>2. Debt' => Debt
    BY <1>25 DEF Debt, Whole, Done, KillTask, Dies, Forget
  <2> QED
    BY <1>25, <2>1, <2>2, <1>1, <1>2, <1>4 DEF Fresh, Active, KillTask, Dies, Forget
<1>26. ASSUME NEW w \in Workers, TaskRaises(w) PROVE Fresh(i)'
  <2>1. Exists /\ Fresh(i)
    BY <1>26, <1>5 DEF Known, Exists, TaskRaises
  <2>2. Debt' => Debt
    BY <1>26 DEF Debt, Whole, Done, TaskRaises
  <2> QED
    BY <1>26, <2>1, <2>2, <1>1, <1>2, <1>4 DEF Fresh, Active, TaskRaises
<1>27. ASSUME NEW e \in Edits, EditBegin(e) \/ EditCommit(e) PROVE Fresh(i)'
  <2>1. Exists /\ Fresh(i)
    BY <1>27, <1>5 DEF Known, Exists, EditBegin, EditCommit
  <2>2. Debt' => Debt
    BY <1>27 DEF Debt, Whole, Done, EditBegin, EditCommit
  <2> QED
    BY <1>27, <2>1, <2>2, <1>1, <1>2, <1>4 DEF Fresh, Active, EditBegin, EditCommit
<1>28. ASSUME UNCHANGED vars PROVE Fresh(i)'
  <2>1. Exists /\ Fresh(i)
    BY <1>28, <1>5 DEF Known, Exists, vars
  <2>2. Debt' => Debt
    BY <1>28 DEF Debt, Whole, Done, vars
  <2> QED
    BY <1>28, <2>1, <2>2, <1>1, <1>2, <1>4 DEF Fresh, Active, vars
<1> QED
  BY <1>6, <1>7, <1>8, <1>9, <1>10, <1>11, <1>12, <1>13, <1>14, <1>15, <1>16,
     <1>17, <1>18, <1>19, <1>20, <1>21, <1>22, <1>23, <1>24, <1>25, <1>26,
     <1>27, <1>28 DEF Next, Request, RunStep, FaultStep

\* A host crash sends one message back and leaves every other job alone.
LEMMA CrashStep ==
  ASSUME IInv, NEW w \in Workers, HostCrash(w), Owed({}), NEW j \in Jobs, j = cur[w]
  PROVE  /\ Owed({j})'
         /\ Known({}) => Known({j})'
<1> USE DEF Goto, HostCrash, Dies, Forget, database, requests, locals, worker, outside, editors
<1>1. /\ job \in [Jobs -> {"NONE", "SUCCEEDED", "FAILED"} \cup Active]
      /\ message \in [Jobs -> {"none", "ready", "held", "stranded"}]
      /\ pc \in [Workers -> {"idle", "loaded", "locked", "started", "rendering",
                            "failing", "ending", "ended"}]
      /\ cur \in [Workers -> Jobs]
  BY DEF IInv, TypeOK
<1>2. UNCHANGED <<catalogue, pages, runs, job, api>> /\ (Debt' <=> Debt)
  BY DEF Debt, Whole
<1>3. \A i \in Jobs \ {j} : Firm(i) => Firm(i)'
  BY <1>1 DEF Firm
<1>4. \A i \in Jobs \ {j} : Fresh(i) => Fresh(i)'
  BY <1>1, <1>2 DEF Fresh
<1>5. Owed({j})'
  BY <1>2, <1>3 DEF Owed
<1>6. Known({}) => Known({j})'
  BY <1>2, <1>4 DEF Known, Exists
<1> QED
  BY <1>5, <1>6

\* Before anything has happened there is no debt.
LEMMA InitSettles == Init => Settles
<1> SUFFICES ASSUME Init PROVE Settles
  OBVIOUS
<1>1. Crashes = 0 /\ Returned({})
  BY MaxFaultsAssumption, FirstJobAssumption DEF Init, Crashes, FaultKinds, Returned
<1>2. Owed({})
  BY DEF Init, Owed, Debt, Done
<1>3. Known({})
  BY DEF Init, Known, Fresh
<1>4. RunsCounted /\ StartedRun
  BY DEF Init, RunsCounted, StartedRun
<1> QED
  BY <1>1, <1>2, <1>3, <1>4 DEF Settles

\* Crashes are counted one by one.
LEMMA CrashesCounted ==
  ASSUME IInv, [Next]_vars
  PROVE  /\ Crashes \in Nat
         /\ Crashes' = IF \E w \in Workers : HostCrash(w) THEN Crashes + 1 ELSE Crashes
<1>1. budget \in [FaultKinds -> Nat] /\ "crash" \in FaultKinds
      /\ budget["crash"] <= MaxFaults["crash"]
  BY DEF IInv, TypeOK, FaultKinds
<1>2. Crashes \in Nat
  BY <1>1, MaxFaultsAssumption DEF Crashes
<1>3. CASE \E w \in Workers : HostCrash(w)
  <2>1. Fault("crash")
    BY <1>3 DEF HostCrash
  <2>2. budget'["crash"] = budget["crash"] - 1 /\ MaxFaults["crash"] \in Nat
    BY <1>1, <2>1, MaxFaultsAssumption DEF Fault
  <2>3. Crashes' = Crashes + 1
    BY <1>1, <2>2 DEF Crashes
  <2> QED
    BY <1>2, <1>3, <2>3
<1>4. CASE UNCHANGED budget /\ \A w \in Workers : ~HostCrash(w)
  BY <1>2, <1>4 DEF Crashes
<1>5. CASE ~UNCHANGED budget /\ \A w \in Workers : ~HostCrash(w)
  <2>1. \E k \in FaultKinds \ {"crash"} : Fault(k)
    BY <1>5
    DEF FaultKinds, Next, Request, RunStep, FaultStep, vars, outside, editors, requests,
        ReprocessCheck, ReprocessCommit, Enqueue, EnqueueRecorded, EnqueueFail,
        ApiCrash, Redeliver, DeleteCatalogue, EditBegin, EditCommit, Deliver,
        AcquireLock, RefuseJob, Start, Wipe, ProcessPage, Finish, FailRun,
        MarkFailed, ReleaseLock, Acknowledge, KillTask, TaskRaises, LoseLock
  <2> QED
    BY <2>1, <1>1, <1>2, <1>5 DEF Fault, Crashes
<1> QED
  BY <1>2, <1>3, <1>4, <1>5

\* Every step keeps it, as long as no host crashes again.
LEMMA SettlesStep ==
  ASSUME IInv, Settles, [Next]_vars
  PROVE  Settles'
<1>1. RunsCounted'
  BY RunsCountedStep DEF Settles
<1>2. /\ budget \in [FaultKinds -> Nat] /\ budget' \in [FaultKinds -> Nat]
      /\ \A k \in FaultKinds : budget[k] <= MaxFaults[k]
      /\ {"crash", "enqueue", "lock"} \subseteq FaultKinds
      /\ \A k \in FaultKinds : Happened(k) => Happened(k)'
  <2>1. TypeOK /\ TypeOK'
    BY TypeStep DEF IInv
  <2> QED
    BY <2>1, BudgetStep DEF TypeOK, FaultKinds
<1>3. ASSUME ~Happened("lock")' PROVE ~Happened("lock") /\ ~LoseLock
  <2>1. ~Happened("lock")
    BY <1>2, <1>3
  <2>2. ~LoseLock
    BY <1>2, <1>3, MaxFaultsAssumption DEF LoseLock, Fault, Happened
  <2> QED
    BY <2>1, <2>2
<1>4. ASSUME ~Happened("lock")' PROVE StartedRun'
  BY <1>3, <1>4, StartedStep DEF Settles
<1>5. ASSUME ~Happened("enqueue")'
      PROVE  ~Happened("enqueue") /\ \A j \in Jobs : ~EnqueueFail(j)
  <2>1. ~Happened("enqueue")
    BY <1>2, <1>5
  <2>2. \A j \in Jobs : ~EnqueueFail(j)
    BY <1>2, <1>5, MaxFaultsAssumption DEF EnqueueFail, Fault, Happened
  <2> QED
    BY <2>1, <2>2
<1>6. ASSUME Calm'
      PROVE  \E X \in SUBSET Jobs :
               Returned(X)' /\ Owed(X)' /\ (~Happened("enqueue")' => Known(X)')
  <2>1. ~Happened("lock") /\ ~LoseLock /\ StartedRun
    BY <1>3, <1>6 DEF Calm, Settles
  <2>2. /\ Crashes \in Nat
        /\ Crashes' = IF \E w \in Workers : HostCrash(w) THEN Crashes + 1 ELSE Crashes
    BY CrashesCounted
  <2>3. Calm
    BY <2>1, <2>2, <1>5, <1>6 DEF Calm
  <2>4. PICK X \in SUBSET Jobs : Returned(X) /\ Owed(X) /\ (~Happened("enqueue") => Known(X))
    BY <2>3 DEF Settles
  <2>5. CASE \E w \in Workers : HostCrash(w)
    <3>1. PICK w \in Workers : HostCrash(w)
      BY <2>5
    <3>2. Crashes' = Crashes + 1
      BY <2>2, <2>5
    <3>3. Crashes = 0 /\ Crashes' = 1 /\ X = {}
      BY <3>2, <2>2, <2>4, <1>6 DEF Calm, Returned
    <3>4. PICK j \in Jobs : j = cur[w]
      BY DEF IInv, TypeOK
    <3>5. Owed({j})' /\ (Known({}) => Known({j})')
      BY <3>1, <3>3, <3>4, <2>4, CrashStep
    <3>6. Returned({j})'
      BY <3>3 DEF Returned
    <3>7. ~Happened("enqueue")' => Known({j})'
      BY <3>3, <3>5, <2>4, <1>5
    <3> QED
      BY <3>5, <3>6, <3>7
  <2>6. CASE \A w \in Workers : ~HostCrash(w)
    <3>1. Crashes' = Crashes
      BY <2>2, <2>6
    <3>2. Returned(X)'
      BY <3>1, <2>4 DEF Returned
    <3>3. X # {} => ~Happened("enqueue") /\ Known(X)
      BY <2>3, <2>4 DEF Calm, Returned
    <3>4. Owed(X)'
      BY <2>1, <2>4, <2>6, <3>3, OwedStep DEF Settles
    <3>5. ~Happened("enqueue")' => Known(X)'
      BY <2>1, <2>4, <2>6, <1>5, KnownStep DEF Settles
    <3> QED
      BY <3>2, <3>4, <3>5
  <2> QED
    BY <2>5, <2>6
<1> QED
  BY <1>1, <1>4, <1>6 DEF Settles

\* What the panel editor and candidate assembly rely on: a catalogue that is done and
\* has no active job shows every page of one run (pipeline.py, status and job commits).
THEOREM SettledCataloguesAreWhole == Spec => []SettledIsWhole
<1>1. IInv /\ Settles => SettledIsWhole
  BY DEF Settles, Calm, Owed, Debt, Done, HasActiveJob, SettledIsWhole
<1>2. IInv /\ Settles /\ [Next]_vars => Settles'
  BY SettlesStep
<1> QED
  BY <1>1, <1>2, Invariance, InitSettles, PTL DEF Spec

----------------------------------------------------------------------------
(* Refinement: page rows are written by one run at a time.                  *)

Rendering == {v \in Workers : pc[v] = "rendering"}

\* Where no lock connection is dropped, the run in progress is the only writer.
LEMMA SoleWriter ==
  ASSUME MaxFaults["lock"] = 0, IInv
  PROVE  /\ OneWriter
         /\ \A v \in Rendering, w \in Workers : pc[w] \in Section => v = w
<1>1. ~Happened("lock")
  BY MaxFaultsAssumption DEF IInv, TypeOK, Happened, FaultKinds
<1>2. OneWriter
  BY <1>1 DEF IInv, PagesOfOneRun, OneWriter
<1> QED
  BY <1>1, <1>2, NoWorkerAssumption
  DEF IInv, LockHeldInSection, OwnerInSection, Rendering, Section

\* Leaving the rendering phase, finished or not, ends the run; so does dying.
LEMMA StopStep ==
  ASSUME MaxFaults["lock"] = 0, IInv, NEW w \in Workers,
         UNCHANGED <<pages, runs>>, Exists' = Exists,
         Rendering' = Rendering \ {w}, run' = [run EXCEPT ![w] = run'[w]]
  PROVE  [Serial!Next]_(Serial!vars)
<1> USE DEF Goto, locals, outside, requests, editors
<1>1. \A v \in Rendering : v # w => run'[v] = run[v]
  BY DEF IInv, TypeOK, Rendering
<1>2. CASE w \in Rendering
  <2>1. Rendering = {w}
    BY <1>2, SoleWriter DEF Rendering, Section
  <2>2. {run[v] : v \in Rendering} # {} /\ {run'[v] : v \in Rendering'} = {}
    BY <2>1
  <2> QED
    BY <2>2 DEF Serial!Next, Serial!Stop, Rendering
<1>3. CASE w \notin Rendering
  <2>1. {run'[v] : v \in Rendering'} = {run[v] : v \in Rendering}
    BY <1>1, <1>3
  <2> QED
    BY <2>1 DEF Serial!vars, Rendering
<1> QED
  BY <1>2, <1>3

\* Every step of the system is a step of the abstract one or leaves it alone.
LEMMA SerialStep ==
  ASSUME MaxFaults["lock"] = 0, IInv, [Next]_vars
  PROVE  [Serial!Next]_(Serial!vars)
<1> USE DEF Goto, locals, outside, requests, editors
<1> DEFINE Goal == [Serial!Next]_(Serial!vars)
<1>1. /\ pc \in [Workers -> {"idle", "loaded", "locked", "started", "rendering",
                            "failing", "ending", "ended"}]
      /\ run \in [Workers -> Nat] /\ index \in [Workers -> Nat]
      /\ pages \in [PageNo -> Nat] /\ runs \in Nat
  BY DEF IInv, TypeOK
<1>2. ASSUME UNCHANGED <<pages, runs, run>>, Rendering' = Rendering, Exists' = Exists
      PROVE  Goal
  BY <1>2 DEF Serial!vars, Rendering
<1>3. ASSUME NEW j \in Jobs, ReprocessCommit(j) PROVE Goal
  <2>1. UNCHANGED <<pages, runs, run>> /\ Rendering' = Rendering /\ Exists' = Exists
    BY <1>3, <1>1 DEF ReprocessCommit, worker, Exists, Rendering
  <2> QED
    BY <2>1, <1>2
<1>4. ASSUME NEW j \in Jobs, EnqueueFail(j) PROVE Goal
  <2>1. UNCHANGED <<pages, runs, run>> /\ Rendering' = Rendering /\ Exists' = Exists
    BY <1>4, <1>1 DEF EnqueueFail, worker, Exists, Rendering
  <2> QED
    BY <2>1, <1>2
<1>5. ASSUME NEW w \in Workers, NEW j \in Jobs, Deliver(w, j) PROVE Goal
  <2>1. UNCHANGED <<pages, runs, run>> /\ Rendering' = Rendering /\ Exists' = Exists
    BY <1>5, <1>1 DEF Deliver, database, Exists, Rendering
  <2> QED
    BY <2>1, <1>2
<1>6. ASSUME NEW w \in Workers, AcquireLock(w) PROVE Goal
  <2>1. UNCHANGED <<pages, runs, run>> /\ Rendering' = Rendering /\ Exists' = Exists
    BY <1>6, <1>1 DEF AcquireLock, database, Exists, Rendering
  <2> QED
    BY <2>1, <1>2
<1>7. ASSUME NEW w \in Workers, RefuseJob(w) PROVE Goal
  <2>1. UNCHANGED <<pages, runs, run>> /\ Rendering' = Rendering /\ Exists' = Exists
    BY <1>7, <1>1 DEF RefuseJob, Exists, Rendering
  <2> QED
    BY <2>1, <1>2
<1>8. ASSUME NEW w \in Workers, Start(w) PROVE Goal
  <2>1. UNCHANGED <<pages, runs, run>> /\ Rendering' = Rendering /\ Exists' = Exists
    BY <1>8, <1>1 DEF Start, Exists, Rendering
  <2> QED
    BY <2>1, <1>2
<1>9. ASSUME NEW w \in Workers, MarkFailed(w) PROVE Goal
  <2>1. UNCHANGED <<pages, runs, run>> /\ Rendering' = Rendering /\ Exists' = Exists
    BY <1>9, <1>1 DEF MarkFailed, Exists, Rendering
  <2> QED
    BY <2>1, <1>2
<1>10. ASSUME NEW w \in Workers, ReleaseLock(w) PROVE Goal
  <2>1. UNCHANGED <<pages, runs, run>> /\ Rendering' = Rendering /\ Exists' = Exists
    BY <1>10, <1>1 DEF ReleaseLock, database, Exists, Rendering
  <2> QED
    BY <2>1, <1>2
<1>11. ASSUME NEW w \in Workers, TaskRaises(w) PROVE Goal
  <2>1. UNCHANGED <<pages, runs, run>> /\ Rendering' = Rendering /\ Exists' = Exists
    BY <1>11, <1>1 DEF TaskRaises, database, Exists, Rendering
  <2> QED
    BY <2>1, <1>2
<1>12. ASSUME NEW w \in Workers, Finish(w) PROVE Goal
  <2>1. UNCHANGED <<pages, runs>> /\ Rendering' = Rendering \ {w} /\ Exists' = Exists
    BY <1>12, <1>1 DEF Finish, Exists, Rendering
  <2>2. run' = [run EXCEPT ![w] = run'[w]]
    BY <1>12, <1>1 DEF Finish, Exists
  <2> QED
    BY <2>1, <2>2, StopStep
<1>13. ASSUME NEW w \in Workers, FailRun(w) PROVE Goal
  <2>1. UNCHANGED <<pages, runs>> /\ Rendering' = Rendering \ {w} /\ Exists' = Exists
    BY <1>13, <1>1 DEF FailRun, database, Exists, Rendering
  <2>2. run' = [run EXCEPT ![w] = run'[w]]
    BY <1>13, <1>1 DEF FailRun, database, Exists
  <2> QED
    BY <2>1, <2>2, StopStep
<1>14. ASSUME NEW w \in Workers, Acknowledge(w) PROVE Goal
  <2>1. UNCHANGED <<pages, runs>> /\ Rendering' = Rendering \ {w} /\ Exists' = Exists
    BY <1>14, <1>1 DEF Acknowledge, Forget, database, Exists, Rendering
  <2>2. run' = [run EXCEPT ![w] = run'[w]]
    BY <1>14, <1>1 DEF Acknowledge, Forget, database, Exists
  <2> QED
    BY <2>1, <2>2, StopStep
<1>15. ASSUME NEW w \in Workers, HostCrash(w) PROVE Goal
  <2>1. UNCHANGED <<pages, runs>> /\ Rendering' = Rendering \ {w} /\ Exists' = Exists
    BY <1>15, <1>1 DEF HostCrash, Dies, Forget, database, Exists, Rendering
  <2>2. run' = [run EXCEPT ![w] = run'[w]]
    BY <1>15, <1>1 DEF HostCrash, Dies, Forget, database, Exists
  <2> QED
    BY <2>1, <2>2, StopStep
<1>16. ASSUME NEW w \in Workers, KillTask(w) PROVE Goal
  <2>1. UNCHANGED <<pages, runs>> /\ Rendering' = Rendering \ {w} /\ Exists' = Exists
    BY <1>16, <1>1 DEF KillTask, Dies, Forget, database, Exists, Rendering
  <2>2. run' = [run EXCEPT ![w] = run'[w]]
    BY <1>16, <1>1 DEF KillTask, Dies, Forget, database, Exists
  <2> QED
    BY <2>1, <2>2, StopStep
<1>17. ASSUME NEW w \in Workers, Wipe(w) PROVE Goal
  <2>1. Rendering = {}
    BY <1>17, SoleWriter DEF Wipe, Rendering, Section
  <2>2. Rendering' = {w} /\ run'[w] = runs + 1
    BY <1>17, <1>1, <2>1 DEF Wipe, Rendering
  <2>3. {run[v] : v \in Rendering} = {} /\ {run'[v] : v \in Rendering'} = {runs'}
    BY <1>17, <2>1, <2>2 DEF Wipe
  <2> QED
    BY <1>17, <2>3
    DEF Wipe, Exists, Rendering, NoPages, PageNo, Serial!Next, Serial!Begin, Serial!PageNo
<1>18. ASSUME NEW w \in Workers, ProcessPage(w) PROVE Goal
  <2>1. Rendering = {w} /\ Rendering' = {w} /\ run' = run
    BY <1>18, SoleWriter DEF ProcessPage, Rendering, Section
  <2>2. index[w] + 1 \in PageNo
    BY <1>18, <1>1, NumPagesAssumption DEF ProcessPage, PageNo
  <2>3. \A m \in 1..((index[w] + 1) - 1) : pages[m] = run[w]
    BY <1>18, <1>1, SoleWriter, NumPagesAssumption DEF ProcessPage, OneWriter, PageNo
  <2>4. {run[v] : v \in Rendering} = {run[w]} /\ {run'[v] : v \in Rendering'} = {run[w]}
    BY <2>1
  <2>5. Serial!AddPage(index[w] + 1)
    BY <1>18, <2>3, <2>4 DEF ProcessPage, Exists, Rendering, Serial!AddPage
  <2> QED
    BY <2>2, <2>5 DEF Serial!Next, Serial!PageNo, PageNo
<1>19. ASSUME DeleteCatalogue PROVE Goal
  <2>1. Rendering' = Rendering /\ run' = run
    BY <1>19 DEF DeleteCatalogue, worker, Rendering
  <2> QED
    BY <1>19, <2>1
    DEF DeleteCatalogue, worker, Exists, Rendering, NoPages, PageNo, Serial!Next,
        Serial!Delete, Serial!PageNo
<1>20. ASSUME UNCHANGED <<pages, runs, run, pc, catalogue>> PROVE Goal
  BY <1>20, <1>2 DEF Rendering, Exists
<1> QED
  BY <1>3, <1>4, <1>5, <1>6, <1>7, <1>8, <1>9, <1>10, <1>11, <1>12, <1>13, <1>14,
        <1>15, <1>16, <1>17, <1>18, <1>19, <1>20
  DEF Next, Request, RunStep, FaultStep, vars, database, requests, worker, editors,
        ReprocessCheck, Enqueue, EnqueueRecorded, ApiCrash, Redeliver, EditBegin,
        EditCommit, LoseLock

\* Unless a lock connection is dropped, the system implements SerialRuns.
THEOREM RunsAreSerial == ASSUME MaxFaults["lock"] = 0 PROVE Spec => ImplementsSerialRuns
<1>1. Init => Serial!Init
  BY DEF Init, Serial!Init, NoPages, PageNo, Serial!PageNo, Exists
<1>2. IInv /\ [Next]_vars => [Serial!Next]_(Serial!vars)
  BY SerialStep
<1> QED
  BY <1>1, <1>2, Invariance, PTL DEF Spec, ImplementsSerialRuns, Serial!Spec
=============================================================================
