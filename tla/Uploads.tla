------------------------------- MODULE Uploads -------------------------------
(***************************************************************************)
(* Catalogues come and go: an upload writes its PDF to the object store    *)
(* chunk by chunk and only then commits a row for it; a deletion commits   *)
(* first and removes the files afterwards.  No transaction spans the two.  *)
(* Requests run side by side, fail at the database and die anywhere.       *)
(*                                                                         *)
(* A document is the number of its chunks, which stands for its SHA-256    *)
(* too.  Requests that are refused before anything is written (no PDF      *)
(* header, a declared length above the limit) have no effect and are left  *)
(* out; so is the queueing that follows an upload's commit, which          *)
(* CatalogueJobs has.                                                      *)
(***************************************************************************)
EXTENDS Integers, FiniteSets

CONSTANTS Requests,   \* slots for requests in flight
          Ids,        \* uuids for catalogues
          Documents,  \* PDFs, by their number of chunks
          MaxChunks,  \* max_upload_bytes
          MaxFaults   \* interruptions that may happen (the bound)

ASSUME DocumentsAssumption == Documents \subseteq Nat \ {0}
ASSUME BoundsAssumption == MaxChunks \in Nat /\ MaxFaults \in Nat

VARIABLES rows,       \* the catalogues table: a record by id, or NoRow
          store,      \* per id: the chunks of the original there is, 0 without a file
          parts,      \* ids with a temporary file
          used,       \* ids that have been drawn
          req,        \* the requests in flight
          faults,     \* interruptions so far
          abandoned,  \* ids whose files an interruption may have left behind
          unsure      \* ids whose commit was made and reported as failed

vars == <<rows, store, parts, used, req, faults, abandoned, unsure>>
history == <<faults, abandoned, unsure>>

NoRow == [document |-> 0, allowed |-> FALSE, before |-> {}]
Idle == [pc |-> "idle", id |-> 0, document |-> 0, written |-> 0, allowed |-> FALSE,
         before |-> {}]
Present == {i \in Ids : rows[i] # NoRow}

Row == [document : Documents \cup {0}, allowed : BOOLEAN, before : SUBSET Ids]
Request == [pc : {"idle", "writing", "stored", "checked", "inserted", "deleting", "removing"},
            id : Ids \cup {0}, document : Documents \cup {0}, written : 0..MaxChunks,
            allowed : BOOLEAN, before : SUBSET Ids]

\* Rows and requests keep to their columns, files exist only under ids that were drawn,
\* and a temporary file is never bigger than the limit.
TypeOK ==
  /\ rows \in [Ids -> Row] /\ store \in [Ids -> 0..MaxChunks]
  /\ req \in [Requests -> Request] /\ faults \in 0..MaxFaults
  /\ parts \cup Present \cup {i \in Ids : store[i] # 0} \subseteq used
  /\ used \cup abandoned \cup unsure \subseteq Ids

Init ==
  /\ rows = [i \in Ids |-> NoRow] /\ store = [i \in Ids |-> 0]
  /\ parts = {} /\ used = {} /\ req = [r \in Requests |-> Idle]
  /\ faults = 0 /\ abandoned = {} /\ unsure = {}

At(r, pc) == req[r].pc = pc
Goto(r, pc) == req' = [req EXCEPT ![r].pc = pc]
Finish(r) == req' = [req EXCEPT ![r] = Idle]
Fault == faults < MaxFaults /\ faults' = faults + 1

-----------------------------------------------------------------------------
(* put_stream: a temporary file, renamed when it is complete. *)

BeginUpload(r) ==
  /\ At(r, "idle")
  /\ \E i \in Ids \ used, d \in Documents, allowed \in BOOLEAN :
       /\ req' = [req EXCEPT ![r] = [Idle EXCEPT !.pc = "writing", !.id = i, !.document = d,
                                                 !.allowed = allowed, !.before = Present]]
       /\ used' = used \cup {i}
       /\ parts' = parts \cup {i}
  /\ UNCHANGED <<rows, store, history>>

WriteChunk(r) ==
  /\ At(r, "writing") /\ req[r].written < req[r].document
  /\ req[r].written < MaxChunks
  /\ req' = [req EXCEPT ![r].written = @ + 1]
  /\ UNCHANGED <<rows, store, parts, used, history>>

\* The next chunk would exceed the limit, or the disk refuses it: the temporary file goes.
AbortWrite(r) ==
  /\ At(r, "writing")
  /\ \/ req[r].written = MaxChunks /\ req[r].document > MaxChunks /\ UNCHANGED faults
     \/ Fault
  /\ parts' = parts \ {req[r].id}
  /\ Finish(r)
  /\ UNCHANGED <<rows, store, used, abandoned, unsure>>

Rename(r) ==
  /\ At(r, "writing") /\ req[r].written = req[r].document
  /\ store' = [store EXCEPT ![req[r].id] = req[r].written]
  /\ parts' = parts \ {req[r].id}
  /\ Goto(r, "stored")
  /\ UNCHANGED <<rows, used, history>>

-----------------------------------------------------------------------------
(* ingest_catalogue, after its PDF is stored. *)

\* Mutant: only catalogues that were uploaded as duplicates themselves are looked at.
SameFileAllowed(r) == {i \in Present : rows[i].document = req[r].document /\ rows[i].allowed}

\* Committed rows with the same hash.
SameFile(r) == {i \in Present : rows[i].document = req[r].document}

FindNoDuplicate(r) ==
  /\ At(r, "stored")
  /\ req[r].allowed \/ SameFile(r) = {}
  /\ Goto(r, "checked")
  /\ UNCHANGED <<rows, store, parts, used, history>>

\* Mutant: the duplicate is refused and its file stays.
RefuseDuplicateOnly(r) ==
  /\ At(r, "stored")
  /\ ~req[r].allowed /\ SameFile(r) # {}
  /\ Finish(r)
  /\ UNCHANGED <<rows, store, parts, used, history>>

RefuseDuplicate(r) ==
  /\ At(r, "stored")
  /\ ~req[r].allowed /\ SameFile(r) # {}
  /\ Goto(r, "removing")
  /\ UNCHANGED <<rows, store, parts, used, history>>

\* The catalogue is flushed.  A flush that fails is outside the try block: the error
\* leaves the stored file where it is.
Insert(r) ==
  /\ At(r, "checked")
  /\ \/ Goto(r, "inserted") /\ UNCHANGED history
     \/ /\ Fault /\ Finish(r)
        /\ abandoned' = abandoned \cup {req[r].id} /\ UNCHANGED unsure
  /\ UNCHANGED <<rows, store, parts, used>>

Committed(r) == [rows EXCEPT ![req[r].id] =
  [document |-> req[r].document, allowed |-> req[r].allowed, before |-> req[r].before]]

CommitUpload(r) ==
  /\ At(r, "inserted")
  /\ rows' = Committed(r)
  /\ Finish(r)
  /\ UNCHANGED <<store, parts, used, history>>

\* The commit raises: the row was refused, or it was made and the connection was lost
\* before the answer came.  The code removes the files in both cases.
CommitFails(r) ==
  /\ At(r, "inserted") /\ Fault
  /\ \/ UNCHANGED <<rows, unsure>>
     \/ rows' = Committed(r) /\ unsure' = unsure \cup {req[r].id}
  /\ Goto(r, "removing")
  /\ UNCHANGED <<store, parts, used, abandoned>>

-----------------------------------------------------------------------------
(* delete_catalogue. *)

BeginDelete(r) ==
  /\ At(r, "idle")
  /\ \E i \in Present : req' = [req EXCEPT ![r] = [Idle EXCEPT !.pc = "deleting", !.id = i]]
  /\ UNCHANGED <<rows, store, parts, used, history>>

\* Mutant: files first, then the row.
CommitDeleteLate(r) ==
  /\ At(r, "deleting")
  /\ IF store[req[r].id] = 0
     THEN /\ rows' = [rows EXCEPT ![req[r].id] = NoRow]
          /\ Goto(r, "removing") /\ UNCHANGED store
     ELSE store' = [store EXCEPT ![req[r].id] = 0] /\ UNCHANGED <<rows, req>>
  /\ UNCHANGED <<parts, used, history>>

\* Two deletions of one catalogue may both get here; the second finds no row.
CommitDelete(r) ==
  /\ At(r, "deleting")
  /\ rows' = [rows EXCEPT ![req[r].id] = NoRow]
  /\ Goto(r, "removing")
  /\ UNCHANGED <<store, parts, used, history>>

\* delete_prefix.  What cannot be removed is passed over in silence.
RemoveFiles(r) ==
  /\ At(r, "removing")
  /\ \/ /\ store' = [store EXCEPT ![req[r].id] = 0]
        /\ parts' = parts \ {req[r].id} /\ UNCHANGED history
     \/ /\ Fault /\ abandoned' = abandoned \cup {req[r].id}
        /\ UNCHANGED <<store, parts, unsure>>
  /\ Finish(r)
  /\ UNCHANGED <<rows, used>>

\* The process dies, or the deletion's transaction fails.
Crash(r) ==
  /\ ~At(r, "idle") /\ Fault
  /\ abandoned' = IF At(r, "deleting") THEN abandoned ELSE abandoned \cup {req[r].id}
  /\ Finish(r)
  /\ UNCHANGED <<rows, store, parts, used, unsure>>

Upload(r) == \/ BeginUpload(r) \/ WriteChunk(r) \/ AbortWrite(r) \/ Rename(r)
             \/ FindNoDuplicate(r) \/ RefuseDuplicate(r)
             \/ Insert(r) \/ CommitUpload(r) \/ CommitFails(r)
Delete(r) == BeginDelete(r) \/ CommitDelete(r) \/ RemoveFiles(r)

Over == used = Ids /\ (\A r \in Requests : At(r, "idle")) /\ UNCHANGED vars
Next == Over \/ \E r \in Requests : Upload(r) \/ Delete(r) \/ Crash(r)
Spec == Init /\ [][Next]_vars

-----------------------------------------------------------------------------
\* A catalogue has the whole file it was made from, whatever deletions, crashes and
\* failures go on around it.  The exception is a commit that was made although it was
\* reported as failed: ingest_catalogue then removes the file of a catalogue that stays.
RowsHaveTheirFile == \A i \in Present \ unsure : store[i] = rows[i].document

\* Whatever is in the store belongs to a catalogue or to a request that is still at work
\* on it, unless a crash, a failing flush or a failing removal has left it behind.
NoStrayFiles == \A i \in Ids \ abandoned :
  store[i] # 0 \/ i \in parts => i \in Present \/ \E r \in Requests : req[r].id = i

\* The same file is in two catalogues only if the later upload was allowed to repeat it, or
\* the earlier one had not been committed when the later one began: nothing but that
\* overlap gets past the check.
SameFileOnce == \A i, j \in Present :
  rows[i].document = rows[j].document /\ i \in rows[j].before => rows[j].allowed
=============================================================================
