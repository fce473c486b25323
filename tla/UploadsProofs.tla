---------------------------- MODULE UploadsProofs ----------------------------
(***************************************************************************)
(* The safety of Uploads for any number of requests, ids, documents, sizes *)
(* and interruptions.  The inductive invariant adds to the properties of   *)
(* the component that a drawn id belongs to one upload, how far its file   *)
(* is at each step, who carries a file without a row, and what an upload   *)
(* knows of the catalogues that were there before it.                      *)
(***************************************************************************)
EXTENDS Uploads, TLAPS

\* A request between the drawing of its id and its commit.
Uploading(r) == req[r].pc \in {"writing", "stored", "checked", "inserted"}

\* A request that will remove its files or give them a row.
Carries(r) == Uploading(r) \/ At(r, "removing")

\* An upload's id has no row yet and no other request works on it.
OwnIds ==
  /\ \A r \in Requests : ~At(r, "idle") => req[r].id \in used
  /\ \A r \in Requests : Uploading(r) =>
       /\ req[r].document \in Documents /\ rows[req[r].id] = NoRow
       /\ \A q \in Requests \ {r} : ~At(q, "idle") => req[q].id # req[r].id

\* An upload's file appears whole when it is renamed.
FileSoFar ==
  /\ \A r \in Requests : At(r, "writing") => store[req[r].id] = 0
  /\ \A r \in Requests : Uploading(r) /\ ~At(r, "writing") =>
       store[req[r].id] = req[r].document

\* Files are only removed of an id that has no row, or of one whose commit is in doubt.
RemovesOrphans ==
  \A r \in Requests : At(r, "removing") => req[r].id \notin Present \ unsure

\* NoStrayFiles, and the request is one that will see to the files.
FilesCarried == \A i \in Ids \ abandoned :
  store[i] # 0 \/ i \in parts => i \in Present \/ \E r \in Requests : Carries(r) /\ req[r].id = i

\* An id that is still being uploaded was never in the catalogue, so nobody has seen it.
SeenBefore ==
  /\ \A i \in Present : rows[i].before \subseteq used
  /\ \A r \in Requests : Uploading(r) =>
       /\ req[r].before \subseteq used
       /\ \A q \in Requests : Uploading(q) => req[r].id \notin req[q].before
       /\ \A i \in Present : req[r].id \notin rows[i].before

\* An upload that passed the check has the same file as no catalogue from before it.
CheckedApart ==
  \A r \in Requests : (At(r, "checked") \/ At(r, "inserted")) /\ ~req[r].allowed =>
    \A i \in Present \cap req[r].before : rows[i].document # req[r].document

IInv ==
  /\ TypeOK
  /\ OwnIds
  /\ FileSoFar
  /\ RemovesOrphans
  /\ RowsHaveTheirFile
  /\ FilesCarried
  /\ SeenBefore
  /\ CheckedApart
  /\ SameFileOnce

----------------------------------------------------------------------------
(* Types. *)

\* A request that moves on or ends stays a request.
LEMMA GotoType ==
  ASSUME req \in [Requests -> Request], NEW r \in Requests,
         Finish(r) \/ \E pc \in {"stored", "checked", "inserted", "removing"} : Goto(r, pc)
  PROVE  req' \in [Requests -> Request]
<1>1. Idle \in Request
  BY BoundsAssumption DEF Idle, Request
<1>2. CASE Finish(r)
  BY <1>1, <1>2 DEF Finish
<1>3. ASSUME NEW pc \in {"stored", "checked", "inserted", "removing"}, Goto(r, pc)
      PROVE  req' \in [Requests -> Request]
  <2>1. [req[r] EXCEPT !.pc = pc] \in Request
    BY DEF Request
  <2> QED
    BY <1>3, <2>1 DEF Goto
<1> QED
  BY <1>2, <1>3

\* What a commit adds to the catalogue.
LEMMA CommitEffect ==
  ASSUME TypeOK, OwnIds, NEW r \in Requests, At(r, "inserted"), rows' = Committed(r)
  PROVE  /\ rows' \in [Ids -> Row]
         /\ req[r].id \in used \ Present /\ req[r].id \in Ids
         /\ Present' = Present \cup {req[r].id}
         /\ \A i \in Present : rows'[i] = rows[i]
         /\ rows'[req[r].id].document = req[r].document
         /\ rows'[req[r].id].allowed = req[r].allowed
         /\ rows'[req[r].id].before = req[r].before
<1>1. /\ req[r].id \in used /\ req[r].id \in Ids /\ rows[req[r].id] = NoRow
      /\ req[r].document \in Documents /\ req[r].allowed \in BOOLEAN
      /\ req[r].before \in SUBSET Ids
  BY DEF TypeOK, OwnIds, At, Uploading, Request
<1> DEFINE row == [document |-> req[r].document, allowed |-> req[r].allowed,
                   before |-> req[r].before]
<1>2. row \in Row /\ row # NoRow
  BY <1>1, DocumentsAssumption DEF Row, NoRow
<1>3. rows' = [rows EXCEPT ![req[r].id] = row]
  BY DEF Committed
<1> HIDE DEF row
<1>4. rows' \in [Ids -> Row] /\ rows'[req[r].id] = row
      /\ \A i \in Ids : i # req[r].id => rows'[i] = rows[i]
  BY <1>1, <1>2, <1>3 DEF TypeOK
<1>5. Present' = Present \cup {req[r].id} /\ req[r].id \notin Present
  BY <1>1, <1>2, <1>4 DEF Present
<1> QED
  BY <1>1, <1>4, <1>5 DEF row, Present

\* Every step keeps every variable in its type.
LEMMA TypeStep == TypeOK /\ OwnIds /\ [Next]_vars => TypeOK'
<1> SUFFICES ASSUME TypeOK /\ OwnIds, [Next]_vars PROVE TypeOK'
  OBVIOUS
<1>1. CASE Over \/ UNCHANGED vars
  BY <1>1 DEF Over, vars, TypeOK, Present
<1> USE DEF TypeOK
<1>2. ASSUME NEW r \in Requests, BeginUpload(r) PROVE TypeOK'
  <2> PICK i \in Ids \ used, d \in Documents, allowed \in BOOLEAN :
         /\ req' = [req EXCEPT ![r] = [Idle EXCEPT !.pc = "writing", !.id = i, !.document = d,
                                                   !.allowed = allowed, !.before = Present]]
         /\ used' = used \cup {i} /\ parts' = parts \cup {i}
    BY <1>2 DEF BeginUpload
  <2>1. Present \subseteq Ids
    BY DEF Present
  <2>2. [Idle EXCEPT !.pc = "writing", !.id = i, !.document = d, !.allowed = allowed,
                     !.before = Present] \in Request
    BY <2>1, BoundsAssumption DEF Idle, Request
  <2> QED
    BY <1>2, <2>2 DEF BeginUpload, Present, history
<1>3. ASSUME NEW r \in Requests, WriteChunk(r) PROVE TypeOK'
  <2>1. req[r].written + 1 \in 0..MaxChunks
    BY <1>3, BoundsAssumption DEF WriteChunk, Request
  <2>2. [req[r] EXCEPT !.written = @ + 1] \in Request
    BY <2>1 DEF Request
  <2> QED
    BY <1>3, <2>2 DEF WriteChunk, Present, history
<1>4. ASSUME NEW r \in Requests, AbortWrite(r) PROVE TypeOK'
  <2>1. req' \in [Requests -> Request]
    BY <1>4, GotoType DEF AbortWrite
  <2>2. rows' \in [Ids -> Row] /\ Present' \subseteq used'
    BY <1>4 DEF AbortWrite, history, Present
  <2>3. store' \in [Ids -> 0..MaxChunks] /\ parts' \cup {i \in Ids : store'[i] # 0} \subseteq used'
    BY <1>4, BoundsAssumption DEF AbortWrite, history
  <2>4. faults' \in 0..MaxFaults /\ used' \cup abandoned' \cup unsure' \subseteq Ids
    BY <1>4, BoundsAssumption DEF AbortWrite, history, Fault, OwnIds, At
  <2> QED
    BY <2>1, <2>2, <2>3, <2>4 DEF Present
<1>5. ASSUME NEW r \in Requests, Rename(r) PROVE TypeOK'
  <2>1. req[r].written \in 0..MaxChunks /\ req[r].id \in used
    BY <1>5 DEF Rename, Request, OwnIds, At
  <2> QED
    BY <1>5, <2>1, GotoType DEF Rename, Present, history
<1>6. ASSUME NEW r \in Requests, FindNoDuplicate(r) PROVE TypeOK'
  <2>1. req' \in [Requests -> Request]
    BY <1>6, GotoType DEF FindNoDuplicate
  <2>2. rows' \in [Ids -> Row] /\ Present' \subseteq used'
    BY <1>6 DEF FindNoDuplicate, history, Present
  <2>3. store' \in [Ids -> 0..MaxChunks] /\ parts' \cup {i \in Ids : store'[i] # 0} \subseteq used'
    BY <1>6, BoundsAssumption DEF FindNoDuplicate, history
  <2>4. faults' \in 0..MaxFaults /\ used' \cup abandoned' \cup unsure' \subseteq Ids
    BY <1>6, BoundsAssumption DEF FindNoDuplicate, history, Fault, OwnIds, At
  <2> QED
    BY <2>1, <2>2, <2>3, <2>4 DEF Present
<1>7. ASSUME NEW r \in Requests, RefuseDuplicate(r) PROVE TypeOK'
  <2>1. req' \in [Requests -> Request]
    BY <1>7, GotoType DEF RefuseDuplicate
  <2>2. rows' \in [Ids -> Row] /\ Present' \subseteq used'
    BY <1>7 DEF RefuseDuplicate, history, Present
  <2>3. store' \in [Ids -> 0..MaxChunks] /\ parts' \cup {i \in Ids : store'[i] # 0} \subseteq used'
    BY <1>7, BoundsAssumption DEF RefuseDuplicate, history
  <2>4. faults' \in 0..MaxFaults /\ used' \cup abandoned' \cup unsure' \subseteq Ids
    BY <1>7, BoundsAssumption DEF RefuseDuplicate, history, Fault, OwnIds, At
  <2> QED
    BY <2>1, <2>2, <2>3, <2>4 DEF Present
<1>8. ASSUME NEW r \in Requests, Insert(r) PROVE TypeOK'
  <2>1. req' \in [Requests -> Request]
    BY <1>8, GotoType DEF Insert
  <2>2. rows' \in [Ids -> Row] /\ Present' \subseteq used'
    BY <1>8 DEF Insert, history, Present
  <2>3. store' \in [Ids -> 0..MaxChunks] /\ parts' \cup {i \in Ids : store'[i] # 0} \subseteq used'
    BY <1>8, BoundsAssumption DEF Insert, history
  <2>4. faults' \in 0..MaxFaults /\ used' \cup abandoned' \cup unsure' \subseteq Ids
    BY <1>8, BoundsAssumption DEF Insert, history, Fault, OwnIds, At
  <2> QED
    BY <2>1, <2>2, <2>3, <2>4 DEF Present
<1>9. ASSUME NEW r \in Requests, CommitUpload(r) PROVE TypeOK'
  <2>0. /\ rows' = rows \/ rows' \in [Ids -> Row]
        /\ Present' \subseteq used /\ used' = used
    BY <1>9, CommitEffect DEF CommitUpload, history, Present
  <2>1. req' \in [Requests -> Request]
    BY <1>9, GotoType DEF CommitUpload
  <2>2. rows' \in [Ids -> Row] /\ Present' \subseteq used'
    BY <1>9, <2>0 DEF CommitUpload, history
  <2>3. store' \in [Ids -> 0..MaxChunks] /\ parts' \cup {i \in Ids : store'[i] # 0} \subseteq used'
    BY <1>9, BoundsAssumption DEF CommitUpload, history
  <2>4. faults' \in 0..MaxFaults /\ used' \cup abandoned' \cup unsure' \subseteq Ids
    BY <1>9, BoundsAssumption DEF CommitUpload, history, Fault, OwnIds, At
  <2> QED
    BY <2>1, <2>2, <2>3, <2>4 DEF Present
<1>10. ASSUME NEW r \in Requests, CommitFails(r) PROVE TypeOK'
  <2>0. /\ rows' = rows \/ rows' \in [Ids -> Row]
        /\ Present' \subseteq used /\ used' = used
    BY <1>10, CommitEffect DEF CommitFails, history, Present
  <2>1. req' \in [Requests -> Request]
    BY <1>10, GotoType DEF CommitFails
  <2>2. rows' \in [Ids -> Row] /\ Present' \subseteq used'
    BY <1>10, <2>0 DEF CommitFails, history
  <2>3. store' \in [Ids -> 0..MaxChunks] /\ parts' \cup {i \in Ids : store'[i] # 0} \subseteq used'
    BY <1>10, BoundsAssumption DEF CommitFails, history
  <2>4. faults' \in 0..MaxFaults /\ used' \cup abandoned' \cup unsure' \subseteq Ids
    BY <1>10, BoundsAssumption DEF CommitFails, history, Fault, OwnIds, At
  <2> QED
    BY <2>1, <2>2, <2>3, <2>4 DEF Present
<1>11. ASSUME NEW r \in Requests, BeginDelete(r) PROVE TypeOK'
  <2> PICK i \in Present : req' = [req EXCEPT ![r] = [Idle EXCEPT !.pc = "deleting", !.id = i]]
    BY <1>11 DEF BeginDelete
  <2>1. i \in Ids
    BY DEF Present
  <2>2. Idle \in Request
    BY BoundsAssumption DEF Idle, Request
  <2>3. [Idle EXCEPT !.pc = "deleting", !.id = i] \in Request
    BY <2>1, <2>2 DEF Request
  <2> QED
    BY <1>11, <2>3 DEF BeginDelete, Present, history
<1>12. ASSUME NEW r \in Requests, CommitDelete(r) PROVE TypeOK'
  <2>0. NoRow \in Row
    BY DEF NoRow, Row
  <2>1. req' \in [Requests -> Request]
    BY <1>12, GotoType DEF CommitDelete
  <2>2. rows' \in [Ids -> Row] /\ Present' \subseteq used'
    BY <1>12, <2>0 DEF CommitDelete, history, Present
  <2>3. store' \in [Ids -> 0..MaxChunks] /\ parts' \cup {i \in Ids : store'[i] # 0} \subseteq used'
    BY <1>12, BoundsAssumption DEF CommitDelete, history
  <2>4. faults' \in 0..MaxFaults /\ used' \cup abandoned' \cup unsure' \subseteq Ids
    BY <1>12, BoundsAssumption DEF CommitDelete, history, Fault, OwnIds, At
  <2> QED
    BY <2>1, <2>2, <2>3, <2>4 DEF Present
<1>13. ASSUME NEW r \in Requests, RemoveFiles(r) PROVE TypeOK'
  <2>1. req' \in [Requests -> Request]
    BY <1>13, GotoType DEF RemoveFiles
  <2>2. rows' \in [Ids -> Row] /\ Present' \subseteq used'
    BY <1>13 DEF RemoveFiles, history, Present
  <2>3. store' \in [Ids -> 0..MaxChunks] /\ parts' \cup {i \in Ids : store'[i] # 0} \subseteq used'
    BY <1>13, BoundsAssumption DEF RemoveFiles, history
  <2>4. faults' \in 0..MaxFaults /\ used' \cup abandoned' \cup unsure' \subseteq Ids
    BY <1>13, BoundsAssumption DEF RemoveFiles, history, Fault, OwnIds, At
  <2> QED
    BY <2>1, <2>2, <2>3, <2>4 DEF Present
<1>14. ASSUME NEW r \in Requests, Crash(r) PROVE TypeOK'
  <2>1. req' \in [Requests -> Request]
    BY <1>14, GotoType DEF Crash
  <2>2. rows' \in [Ids -> Row] /\ Present' \subseteq used'
    BY <1>14 DEF Crash, history, Present
  <2>3. store' \in [Ids -> 0..MaxChunks] /\ parts' \cup {i \in Ids : store'[i] # 0} \subseteq used'
    BY <1>14, BoundsAssumption DEF Crash, history
  <2>4. faults' \in 0..MaxFaults /\ used' \cup abandoned' \cup unsure' \subseteq Ids
    BY <1>14, BoundsAssumption DEF Crash, history, Fault, OwnIds, At
  <2> QED
    BY <2>1, <2>2, <2>3, <2>4 DEF Present
<1> QED
  BY <1>1, <1>2, <1>3, <1>4, <1>5, <1>6, <1>7, <1>8, <1>9, <1>10, <1>11, <1>12, <1>13,
       <1>14 DEF Next, Upload, Delete

----------------------------------------------------------------------------
(* The inductive invariant, part by part. *)

\* A drawn id stays with its request until it is committed or given up.
LEMMA OwnIdsStep == IInv /\ [Next]_vars => OwnIds'
<1> SUFFICES ASSUME IInv, [Next]_vars PROVE OwnIds'
  OBVIOUS
<1>1. CASE Over \/ UNCHANGED vars
  BY <1>1 DEF Over, vars, IInv, At, Present, Uploading, OwnIds
<1> USE DEF IInv, TypeOK, At, Goto, Committed, Finish, Fault, history, Idle, NoRow, Request,
     Row, Present, Uploading, OwnIds
<1>2. ASSUME NEW r \in Requests, BeginUpload(r) PROVE OwnIds'
  BY <1>2 DEF BeginUpload
<1>3. ASSUME NEW r \in Requests, WriteChunk(r) PROVE OwnIds'
  BY <1>3 DEF WriteChunk
<1>4. ASSUME NEW r \in Requests, AbortWrite(r) PROVE OwnIds'
  BY <1>4 DEF AbortWrite
<1>5. ASSUME NEW r \in Requests, Rename(r) PROVE OwnIds'
  BY <1>5 DEF Rename
<1>6. ASSUME NEW r \in Requests, FindNoDuplicate(r) PROVE OwnIds'
  BY <1>6 DEF FindNoDuplicate
<1>7. ASSUME NEW r \in Requests, RefuseDuplicate(r) PROVE OwnIds'
  BY <1>7 DEF RefuseDuplicate
<1>8. ASSUME NEW r \in Requests, Insert(r) PROVE OwnIds'
  BY <1>8 DEF Insert
<1>9. ASSUME NEW r \in Requests, CommitUpload(r) PROVE OwnIds'
  BY <1>9 DEF CommitUpload
<1>10. ASSUME NEW r \in Requests, CommitFails(r) PROVE OwnIds'
  BY <1>10 DEF CommitFails
<1>11. ASSUME NEW r \in Requests, BeginDelete(r) PROVE OwnIds'
  BY <1>11 DEF BeginDelete
<1>12. ASSUME NEW r \in Requests, CommitDelete(r) PROVE OwnIds'
  BY <1>12 DEF CommitDelete
<1>13. ASSUME NEW r \in Requests, RemoveFiles(r) PROVE OwnIds'
  BY <1>13 DEF RemoveFiles
<1>14. ASSUME NEW r \in Requests, Crash(r) PROVE OwnIds'
  BY <1>14 DEF Crash
<1> QED
  BY <1>1, <1>2, <1>3, <1>4, <1>5, <1>6, <1>7, <1>8, <1>9, <1>10, <1>11, <1>12, <1>13,
       <1>14 DEF Next, Upload, Delete

\* Nobody else touches the file of an upload.
LEMMA FileSoFarStep == IInv /\ [Next]_vars => FileSoFar'
<1> SUFFICES ASSUME IInv, [Next]_vars PROVE FileSoFar'
  OBVIOUS
<1>1. CASE Over \/ UNCHANGED vars
  BY <1>1 DEF Over, vars, IInv, At, Present, Uploading, OwnIds, FileSoFar
<1> USE DEF IInv, TypeOK, At, Goto, Committed, Finish, Fault, history, Idle, NoRow, Request,
     Row, Present, Uploading, OwnIds, FileSoFar
<1>2. ASSUME NEW r \in Requests, BeginUpload(r) PROVE FileSoFar'
  BY <1>2 DEF BeginUpload
<1>3. ASSUME NEW r \in Requests, WriteChunk(r) PROVE FileSoFar'
  BY <1>3 DEF WriteChunk
<1>4. ASSUME NEW r \in Requests, AbortWrite(r) PROVE FileSoFar'
  BY <1>4 DEF AbortWrite
<1>5. ASSUME NEW r \in Requests, Rename(r) PROVE FileSoFar'
  BY <1>5 DEF Rename
<1>6. ASSUME NEW r \in Requests, FindNoDuplicate(r) PROVE FileSoFar'
  BY <1>6 DEF FindNoDuplicate
<1>7. ASSUME NEW r \in Requests, RefuseDuplicate(r) PROVE FileSoFar'
  BY <1>7 DEF RefuseDuplicate
<1>8. ASSUME NEW r \in Requests, Insert(r) PROVE FileSoFar'
  BY <1>8 DEF Insert
<1>9. ASSUME NEW r \in Requests, CommitUpload(r) PROVE FileSoFar'
  BY <1>9 DEF CommitUpload
<1>10. ASSUME NEW r \in Requests, CommitFails(r) PROVE FileSoFar'
  BY <1>10 DEF CommitFails
<1>11. ASSUME NEW r \in Requests, BeginDelete(r) PROVE FileSoFar'
  BY <1>11 DEF BeginDelete
<1>12. ASSUME NEW r \in Requests, CommitDelete(r) PROVE FileSoFar'
  BY <1>12 DEF CommitDelete
<1>13. ASSUME NEW r \in Requests, RemoveFiles(r) PROVE FileSoFar'
  BY <1>13 DEF RemoveFiles
<1>14. ASSUME NEW r \in Requests, Crash(r) PROVE FileSoFar'
  BY <1>14 DEF Crash
<1> QED
  BY <1>1, <1>2, <1>3, <1>4, <1>5, <1>6, <1>7, <1>8, <1>9, <1>10, <1>11, <1>12, <1>13,
       <1>14 DEF Next, Upload, Delete

\* What a request is removing is never given a row again.
LEMMA RemovesOrphansStep == IInv /\ [Next]_vars => RemovesOrphans'
<1> SUFFICES ASSUME IInv, [Next]_vars PROVE RemovesOrphans'
  OBVIOUS
<1>1. CASE Over \/ UNCHANGED vars
  BY <1>1 DEF Over, vars, IInv, At, Present, Uploading, OwnIds, RemovesOrphans
<1> USE DEF IInv, TypeOK, At, Goto, Committed, Finish, Fault, history, Idle, NoRow, Request,
     Row, Present, Uploading, OwnIds, RemovesOrphans
<1>2. ASSUME NEW r \in Requests, BeginUpload(r) PROVE RemovesOrphans'
  BY <1>2 DEF BeginUpload
<1>3. ASSUME NEW r \in Requests, WriteChunk(r) PROVE RemovesOrphans'
  BY <1>3 DEF WriteChunk
<1>4. ASSUME NEW r \in Requests, AbortWrite(r) PROVE RemovesOrphans'
  BY <1>4 DEF AbortWrite
<1>5. ASSUME NEW r \in Requests, Rename(r) PROVE RemovesOrphans'
  BY <1>5 DEF Rename
<1>6. ASSUME NEW r \in Requests, FindNoDuplicate(r) PROVE RemovesOrphans'
  BY <1>6 DEF FindNoDuplicate
<1>7. ASSUME NEW r \in Requests, RefuseDuplicate(r) PROVE RemovesOrphans'
  BY <1>7 DEF RefuseDuplicate
<1>8. ASSUME NEW r \in Requests, Insert(r) PROVE RemovesOrphans'
  BY <1>8 DEF Insert
<1>9. ASSUME NEW r \in Requests, CommitUpload(r) PROVE RemovesOrphans'
  BY <1>9 DEF CommitUpload
<1>10. ASSUME NEW r \in Requests, CommitFails(r) PROVE RemovesOrphans'
  BY <1>10 DEF CommitFails
<1>11. ASSUME NEW r \in Requests, BeginDelete(r) PROVE RemovesOrphans'
  BY <1>11 DEF BeginDelete
<1>12. ASSUME NEW r \in Requests, CommitDelete(r) PROVE RemovesOrphans'
  BY <1>12 DEF CommitDelete
<1>13. ASSUME NEW r \in Requests, RemoveFiles(r) PROVE RemovesOrphans'
  BY <1>13 DEF RemoveFiles
<1>14. ASSUME NEW r \in Requests, Crash(r) PROVE RemovesOrphans'
  BY <1>14 DEF Crash
<1> QED
  BY <1>1, <1>2, <1>3, <1>4, <1>5, <1>6, <1>7, <1>8, <1>9, <1>10, <1>11, <1>12, <1>13,
       <1>14 DEF Next, Upload, Delete

\* A row keeps its file.
LEMMA RowsHaveTheirFileStep == IInv /\ [Next]_vars => RowsHaveTheirFile'
<1> SUFFICES ASSUME IInv, [Next]_vars PROVE RowsHaveTheirFile'
  OBVIOUS
<1>1. CASE Over \/ UNCHANGED vars
  BY <1>1 DEF Over, vars, IInv, At, Present, Uploading, OwnIds, FileSoFar, RemovesOrphans,
       RowsHaveTheirFile
<1> USE DEF IInv, TypeOK, At, Goto, Committed, Finish, Fault, history, Idle, NoRow, Request,
     Row, Present, Uploading, OwnIds, FileSoFar, RemovesOrphans, RowsHaveTheirFile
<1>2. ASSUME NEW r \in Requests, BeginUpload(r) PROVE RowsHaveTheirFile'
  BY <1>2 DEF BeginUpload
<1>3. ASSUME NEW r \in Requests, WriteChunk(r) PROVE RowsHaveTheirFile'
  BY <1>3 DEF WriteChunk
<1>4. ASSUME NEW r \in Requests, AbortWrite(r) PROVE RowsHaveTheirFile'
  BY <1>4 DEF AbortWrite
<1>5. ASSUME NEW r \in Requests, Rename(r) PROVE RowsHaveTheirFile'
  BY <1>5 DEF Rename
<1>6. ASSUME NEW r \in Requests, FindNoDuplicate(r) PROVE RowsHaveTheirFile'
  BY <1>6 DEF FindNoDuplicate
<1>7. ASSUME NEW r \in Requests, RefuseDuplicate(r) PROVE RowsHaveTheirFile'
  BY <1>7 DEF RefuseDuplicate
<1>8. ASSUME NEW r \in Requests, Insert(r) PROVE RowsHaveTheirFile'
  BY <1>8 DEF Insert
<1>9. ASSUME NEW r \in Requests, CommitUpload(r) PROVE RowsHaveTheirFile'
  BY <1>9 DEF CommitUpload
<1>10. ASSUME NEW r \in Requests, CommitFails(r) PROVE RowsHaveTheirFile'
  BY <1>10 DEF CommitFails
<1>11. ASSUME NEW r \in Requests, BeginDelete(r) PROVE RowsHaveTheirFile'
  BY <1>11 DEF BeginDelete
<1>12. ASSUME NEW r \in Requests, CommitDelete(r) PROVE RowsHaveTheirFile'
  BY <1>12 DEF CommitDelete
<1>13. ASSUME NEW r \in Requests, RemoveFiles(r) PROVE RowsHaveTheirFile'
  BY <1>13 DEF RemoveFiles
<1>14. ASSUME NEW r \in Requests, Crash(r) PROVE RowsHaveTheirFile'
  BY <1>14 DEF Crash
<1> QED
  BY <1>1, <1>2, <1>3, <1>4, <1>5, <1>6, <1>7, <1>8, <1>9, <1>10, <1>11, <1>12, <1>13,
       <1>14 DEF Next, Upload, Delete

\* A file without a row keeps somebody who will see to it.
LEMMA FilesCarriedStep == IInv /\ [Next]_vars => FilesCarried'
<1> SUFFICES ASSUME IInv, [Next]_vars PROVE FilesCarried'
  OBVIOUS
<1>1. CASE Over \/ UNCHANGED vars
  BY <1>1 DEF Over, vars, IInv, At, Present, Uploading, OwnIds, FileSoFar, Carries, FilesCarried
<1> USE DEF IInv, TypeOK
<1>2. ASSUME NEW r \in Requests, Insert(r) PROVE FilesCarried'
  <2>1. UNCHANGED <<store, parts, rows>>
    BY <1>2 DEF Insert, history
  <2>2. \A q \in Requests : q # r => req'[q] = req[q]
    BY <1>2 DEF Insert, Goto, Finish
  <2>3. CASE Goto(r, "inserted") /\ UNCHANGED history
    <3>1. req'[r].id = req[r].id /\ req'[r].pc = "inserted"
      BY <2>3 DEF Goto, Request
    <3> QED
      BY <2>1, <2>2, <2>3, <3>1 DEF history, FilesCarried, Carries, Uploading, At, Present
  <2>4. CASE abandoned' = abandoned \cup {req[r].id}
    BY <2>1, <2>2, <2>4 DEF FilesCarried, Carries, Uploading, At, Present
  <2> QED
    BY <1>2, <2>3, <2>4 DEF Insert
<1>3. ASSUME NEW r \in Requests, CommitUpload(r) PROVE FilesCarried'
  <2>1. store' = store /\ parts' = parts /\ abandoned' = abandoned
    BY <1>3 DEF CommitUpload, history
  <2>2. Present' = Present \cup {req[r].id}
    BY <1>3, CommitEffect DEF CommitUpload
  <2>3. \A q \in Requests : q # r /\ Carries(q) => Carries(q)' /\ req'[q] = req[q]
    BY <1>3 DEF CommitUpload, Finish, Carries, Uploading, At
  <2> QED
    BY <2>1, <2>2, <2>3 DEF FilesCarried
<1> USE DEF At, Goto, Committed, Finish, Fault, history, Idle, NoRow, Request, Row, Present,
     Uploading, OwnIds, FileSoFar, Carries, FilesCarried
<1>4. ASSUME NEW r \in Requests, BeginUpload(r) PROVE FilesCarried'
  BY <1>4 DEF BeginUpload
<1>5. ASSUME NEW r \in Requests, WriteChunk(r) PROVE FilesCarried'
  BY <1>5 DEF WriteChunk
<1>6. ASSUME NEW r \in Requests, AbortWrite(r) PROVE FilesCarried'
  BY <1>6 DEF AbortWrite
<1>7. ASSUME NEW r \in Requests, Rename(r) PROVE FilesCarried'
  BY <1>7 DEF Rename
<1>8. ASSUME NEW r \in Requests, FindNoDuplicate(r) PROVE FilesCarried'
  BY <1>8 DEF FindNoDuplicate
<1>9. ASSUME NEW r \in Requests, RefuseDuplicate(r) PROVE FilesCarried'
  BY <1>9 DEF RefuseDuplicate
<1>10. ASSUME NEW r \in Requests, CommitFails(r) PROVE FilesCarried'
  BY <1>10 DEF CommitFails
<1>11. ASSUME NEW r \in Requests, BeginDelete(r) PROVE FilesCarried'
  BY <1>11 DEF BeginDelete
<1>12. ASSUME NEW r \in Requests, CommitDelete(r) PROVE FilesCarried'
  BY <1>12 DEF CommitDelete
<1>13. ASSUME NEW r \in Requests, RemoveFiles(r) PROVE FilesCarried'
  BY <1>13 DEF RemoveFiles
<1>14. ASSUME NEW r \in Requests, Crash(r) PROVE FilesCarried'
  BY <1>14 DEF Crash
<1> QED
  BY <1>1, <1>2, <1>3, <1>4, <1>5, <1>6, <1>7, <1>8, <1>9, <1>10, <1>11, <1>12, <1>13,
       <1>14 DEF Next, Upload, Delete

\* An id becomes known when it is committed, not before.
LEMMA SeenBeforeStep == IInv /\ [Next]_vars => SeenBefore'
<1> SUFFICES ASSUME IInv, [Next]_vars PROVE SeenBefore'
  OBVIOUS
<1>1. CASE Over \/ UNCHANGED vars
  BY <1>1 DEF Over, vars, IInv, At, Present, Uploading, OwnIds, SeenBefore
<1> USE DEF IInv, TypeOK
<1> USE DEF At, Goto, Committed, Finish, Fault, history, Idle, NoRow, Request, Row, Present,
     Uploading, OwnIds, SeenBefore
<1>2. ASSUME NEW r \in Requests, BeginUpload(r) PROVE SeenBefore'
  BY <1>2 DEF BeginUpload
<1>3. ASSUME NEW r \in Requests, WriteChunk(r) PROVE SeenBefore'
  BY <1>3 DEF WriteChunk
<1>4. ASSUME NEW r \in Requests, AbortWrite(r) PROVE SeenBefore'
  BY <1>4 DEF AbortWrite
<1>5. ASSUME NEW r \in Requests, Rename(r) PROVE SeenBefore'
  BY <1>5 DEF Rename
<1>6. ASSUME NEW r \in Requests, FindNoDuplicate(r) PROVE SeenBefore'
  BY <1>6 DEF FindNoDuplicate
<1>7. ASSUME NEW r \in Requests, RefuseDuplicate(r) PROVE SeenBefore'
  BY <1>7 DEF RefuseDuplicate
<1>8. ASSUME NEW r \in Requests, Insert(r) PROVE SeenBefore'
  BY <1>8 DEF Insert
<1>9. ASSUME NEW r \in Requests, CommitUpload(r) PROVE SeenBefore'
  BY <1>9 DEF CommitUpload
<1>10. ASSUME NEW r \in Requests, CommitFails(r) PROVE SeenBefore'
  BY <1>10 DEF CommitFails
<1>11. ASSUME NEW r \in Requests, BeginDelete(r) PROVE SeenBefore'
  BY <1>11 DEF BeginDelete
<1>12. ASSUME NEW r \in Requests, CommitDelete(r) PROVE SeenBefore'
  BY <1>12 DEF CommitDelete
<1>13. ASSUME NEW r \in Requests, RemoveFiles(r) PROVE SeenBefore'
  BY <1>13 DEF RemoveFiles
<1>14. ASSUME NEW r \in Requests, Crash(r) PROVE SeenBefore'
  BY <1>14 DEF Crash
<1> QED
  BY <1>1, <1>2, <1>3, <1>4, <1>5, <1>6, <1>7, <1>8, <1>9, <1>10, <1>11, <1>12, <1>13,
       <1>14 DEF Next, Upload, Delete

\* A catalogue that comes after an upload began is not from before it.
LEMMA CheckedApartStep == IInv /\ [Next]_vars => CheckedApart'
<1> SUFFICES ASSUME IInv, [Next]_vars PROVE CheckedApart'
  OBVIOUS
<1>1. CASE Over \/ UNCHANGED vars
  BY <1>1 DEF Over, vars, IInv, At, Present, Uploading, OwnIds, SeenBefore, CheckedApart
<1> USE DEF IInv, TypeOK
<1>2. ASSUME NEW r \in Requests, CommitUpload(r) PROVE CheckedApart'
  <2>1. \A q \in Requests : Uploading(q)' => q # r /\ req'[q] = req[q] /\ Uploading(q)
    BY <1>2 DEF CommitUpload, Goto, Finish, Idle, Uploading, At
  <2> SUFFICES ASSUME NEW q \in Requests, (At(q, "checked") \/ At(q, "inserted"))',
                      ~req'[q].allowed, NEW i \in Present' \cap req'[q].before
               PROVE  rows'[i].document # req'[q].document
    BY DEF CheckedApart
  <2>3. req'[q] = req[q] /\ (At(q, "checked") \/ At(q, "inserted")) /\ Uploading(q)
    BY <2>1 DEF Uploading, At
  <2>4. i # req[r].id
    BY <1>2, <2>3 DEF CommitUpload, SeenBefore, Uploading, At
  <2>5. i \in Present /\ rows'[i] = rows[i]
    BY <1>2, CommitEffect, <2>4 DEF CommitUpload
  <2> QED
    BY <2>3, <2>5 DEF CheckedApart
<1>3. ASSUME NEW r \in Requests, CommitFails(r) PROVE CheckedApart'
  <2>1. CASE rows' = rows
    BY <1>3, <2>1 DEF CommitFails, At, Goto, Committed, Finish, Fault, history, Idle, NoRow,
         Request, Row, Present, Uploading, SameFile, OwnIds, SeenBefore, CheckedApart
  <2>2. CASE rows' = Committed(r)
    <3>1. \A q \in Requests : Uploading(q)' => q # r /\ req'[q] = req[q] /\ Uploading(q)
      BY <1>3 DEF CommitFails, Goto, Finish, Idle, Uploading, At
    <3> SUFFICES ASSUME NEW q \in Requests, (At(q, "checked") \/ At(q, "inserted"))',
                        ~req'[q].allowed, NEW i \in Present' \cap req'[q].before
                 PROVE  rows'[i].document # req'[q].document
      BY DEF CheckedApart
    <3>3. req'[q] = req[q] /\ (At(q, "checked") \/ At(q, "inserted")) /\ Uploading(q)
      BY <3>1 DEF Uploading, At
    <3>4. i # req[r].id
      BY <1>3, <3>3 DEF CommitFails, SeenBefore, Uploading, At
    <3>5. i \in Present /\ rows'[i] = rows[i]
      BY <1>3, <2>2, CommitEffect, <3>4 DEF CommitFails
    <3> QED
      BY <3>3, <3>5 DEF CheckedApart
  <2> QED
    BY <1>3, <2>1, <2>2 DEF CommitFails
<1> USE DEF At, Goto, Committed, Finish, Fault, history, Idle, NoRow, Request, Row, Present,
     Uploading, SameFile, OwnIds, SeenBefore, CheckedApart
<1>4. ASSUME NEW r \in Requests, BeginUpload(r) PROVE CheckedApart'
  BY <1>4 DEF BeginUpload
<1>5. ASSUME NEW r \in Requests, WriteChunk(r) PROVE CheckedApart'
  BY <1>5 DEF WriteChunk
<1>6. ASSUME NEW r \in Requests, AbortWrite(r) PROVE CheckedApart'
  BY <1>6 DEF AbortWrite
<1>7. ASSUME NEW r \in Requests, Rename(r) PROVE CheckedApart'
  BY <1>7 DEF Rename
<1>8. ASSUME NEW r \in Requests, FindNoDuplicate(r) PROVE CheckedApart'
  BY <1>8 DEF FindNoDuplicate
<1>9. ASSUME NEW r \in Requests, RefuseDuplicate(r) PROVE CheckedApart'
  BY <1>9 DEF RefuseDuplicate
<1>10. ASSUME NEW r \in Requests, Insert(r) PROVE CheckedApart'
  BY <1>10 DEF Insert
<1>11. ASSUME NEW r \in Requests, BeginDelete(r) PROVE CheckedApart'
  BY <1>11 DEF BeginDelete
<1>12. ASSUME NEW r \in Requests, CommitDelete(r) PROVE CheckedApart'
  BY <1>12 DEF CommitDelete
<1>13. ASSUME NEW r \in Requests, RemoveFiles(r) PROVE CheckedApart'
  BY <1>13 DEF RemoveFiles
<1>14. ASSUME NEW r \in Requests, Crash(r) PROVE CheckedApart'
  BY <1>14 DEF Crash
<1> QED
  BY <1>1, <1>2, <1>3, <1>4, <1>5, <1>6, <1>7, <1>8, <1>9, <1>10, <1>11, <1>12, <1>13,
       <1>14 DEF Next, Upload, Delete

\* A row that is committed repeats no file it knew of.
LEMMA SameFileOnceStep == IInv /\ [Next]_vars => SameFileOnce'
<1> SUFFICES ASSUME IInv, [Next]_vars PROVE SameFileOnce'
  OBVIOUS
<1>1. CASE Over \/ UNCHANGED vars
  BY <1>1 DEF Over, vars, IInv, At, Present, Uploading, OwnIds, SeenBefore, CheckedApart,
       SameFileOnce
<1> USE DEF IInv, TypeOK
<1>2. ASSUME NEW r \in Requests, CommitUpload(r) PROVE SameFileOnce'
  <2>1. \A q \in Requests : Uploading(q)' => q # r /\ req'[q] = req[q] /\ Uploading(q)
    BY <1>2 DEF CommitUpload, Goto, Finish, Idle, Uploading, At
  <2> QED
    BY <1>2, <2>1, CommitEffect
    DEF CommitUpload, Goto, Finish, history, At, Uploading, SeenBefore, CheckedApart,
         SameFileOnce
<1>3. ASSUME NEW r \in Requests, CommitFails(r) PROVE SameFileOnce'
  <2>1. CASE rows' = rows
    BY <1>3, <2>1 DEF CommitFails, At, Goto, Committed, Finish, Fault, history, Idle, NoRow,
         Request, Row, Present, Uploading, SameFile, Uploading, SeenBefore, CheckedApart,
         SameFileOnce
  <2>2. CASE rows' = Committed(r)
    <3>1. \A q \in Requests : Uploading(q)' => q # r /\ req'[q] = req[q] /\ Uploading(q)
      BY <1>3 DEF CommitFails, Goto, Finish, Idle, Uploading, At
    <3> QED
      BY <1>3, <2>2, <3>1, CommitEffect
      DEF CommitFails, Goto, Finish, history, At, Uploading, SeenBefore, CheckedApart,
      SameFileOnce
  <2> QED
    BY <1>3, <2>1, <2>2 DEF CommitFails
<1> USE DEF At, Goto, Committed, Finish, Fault, history, Idle, NoRow, Request, Row, Present,
     Uploading, SameFile, OwnIds, SeenBefore, CheckedApart, SameFileOnce
<1>4. ASSUME NEW r \in Requests, BeginUpload(r) PROVE SameFileOnce'
  BY <1>4 DEF BeginUpload
<1>5. ASSUME NEW r \in Requests, WriteChunk(r) PROVE SameFileOnce'
  BY <1>5 DEF WriteChunk
<1>6. ASSUME NEW r \in Requests, AbortWrite(r) PROVE SameFileOnce'
  BY <1>6 DEF AbortWrite
<1>7. ASSUME NEW r \in Requests, Rename(r) PROVE SameFileOnce'
  BY <1>7 DEF Rename
<1>8. ASSUME NEW r \in Requests, FindNoDuplicate(r) PROVE SameFileOnce'
  BY <1>8 DEF FindNoDuplicate
<1>9. ASSUME NEW r \in Requests, RefuseDuplicate(r) PROVE SameFileOnce'
  BY <1>9 DEF RefuseDuplicate
<1>10. ASSUME NEW r \in Requests, Insert(r) PROVE SameFileOnce'
  BY <1>10 DEF Insert
<1>11. ASSUME NEW r \in Requests, BeginDelete(r) PROVE SameFileOnce'
  BY <1>11 DEF BeginDelete
<1>12. ASSUME NEW r \in Requests, CommitDelete(r) PROVE SameFileOnce'
  BY <1>12 DEF CommitDelete
<1>13. ASSUME NEW r \in Requests, RemoveFiles(r) PROVE SameFileOnce'
  BY <1>13 DEF RemoveFiles
<1>14. ASSUME NEW r \in Requests, Crash(r) PROVE SameFileOnce'
  BY <1>14 DEF Crash
<1> QED
  BY <1>1, <1>2, <1>3, <1>4, <1>5, <1>6, <1>7, <1>8, <1>9, <1>10, <1>11, <1>12, <1>13,
       <1>14 DEF Next, Upload, Delete

----------------------------------------------------------------------------
(* The theorems. *)

\* The invariant holds at first and every step keeps it.
LEMMA Invariance == Spec => []IInv
<1>1. Init => IInv
  BY DocumentsAssumption, BoundsAssumption
  DEF Init, IInv, TypeOK, OwnIds, FileSoFar, RemovesOrphans, RowsHaveTheirFile, FilesCarried,
      SeenBefore, CheckedApart, SameFileOnce, Idle, NoRow, Request, Row, Present, Uploading, At
<1>2. IInv /\ [Next]_vars => IInv'
  BY TypeStep, OwnIdsStep, FileSoFarStep, RemovesOrphansStep, RowsHaveTheirFileStep,
     FilesCarriedStep, SeenBeforeStep, CheckedApartStep, SameFileOnceStep DEF IInv
<1> QED
  BY <1>1, <1>2, PTL DEF Spec

\* Rows and requests keep to their columns whatever requests run side by side, fail or die.
THEOREM TypeCorrect == Spec => []TypeOK
BY Invariance, PTL DEF IInv

\* A committed catalogue has its whole file, unless its own commit was reported as failed.
THEOREM RowsKeepTheirFile == Spec => []RowsHaveTheirFile
BY Invariance, PTL DEF IInv

\* Every file belongs to a row or to a request at work, unless an interruption left it.
THEOREM FilesAreOwned == Spec => []NoStrayFiles
<1>1. IInv => NoStrayFiles
  BY DEF IInv, FilesCarried, NoStrayFiles
<1> QED
  BY <1>1, Invariance, PTL

\* A file is in the catalogue twice only by permission or by an overlap of the two uploads.
THEOREM DuplicatesAreAllowed == Spec => []SameFileOnce
BY Invariance, PTL DEF IInv

=============================================================================
