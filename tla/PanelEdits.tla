---------------------------- MODULE PanelEdits ----------------------------
(***************************************************************************)
(* The panel editor on one page of a processed catalogue.  A request takes *)
(* the page's row lock, changes rows and writes a file inside its          *)
(* transaction, commits, which gives the lock back, and only then removes  *)
(* files that nothing refers to any more.  Runs of the pipeline that begin *)
(* meanwhile are in CatalogueJobs.                                         *)
(***************************************************************************)
EXTENDS Naturals, Sequences, FiniteSets

CONSTANTS Requests,   \* requests that may be served at once
          Panels,     \* panel ids
          Boxes,      \* boxes that pass validate_box
          Limit,      \* MAX_PANELS_PER_PAGE
          NoBox,      \* a panel or a picture that is not there
          Nobody,     \* no request has the lock, no panel is changed
          MaxEdits,   \* changes that may be made (the bound)
          MaxCrashes  \* requests that may be cut off (the bound)

ASSUME PanelsAssumption == IsFiniteSet(Panels)
ASSUME MarkersAssumption == NoBox \notin Boxes /\ Nobody \notin Requests \cup Panels
ASSUME LimitAssumption == Limit \in Nat
ASSUME BoundsAssumption == MaxEdits \in Nat /\ MaxCrashes \in Nat

VARIABLES panels,     \* the page's source_images of kind REGION: box and origin
          finds,      \* per panel: the box its products were found in
          edits,      \* the page's panel_edits by seq
          picture,    \* per panel: the box that its stored picture shows
          findFiles,  \* the panels whose products have stored pictures
          lock,       \* who has the page's row lock
          pc,         \* where a request is
          change,     \* what its transaction changes
          stale,      \* files it will remove when it has committed
          crashes,    \* how many there have been
          past,       \* per seq: the panels before that change (for properties)
          trouble     \* what may have set files and rows apart (for properties)

rows    == <<panels, finds, edits>>
files   == <<picture, findFiles>>
request == <<pc, change, stale>>
vars == <<rows, files, lock, request, crashes, past, trouble>>

Origin == {"AI", "AI_HUMAN_REVIEW", "HUMAN"}
Absent == [box |-> NoBox, origin |-> "none"]
Snapshot == [box : Boxes, origin : Origin] \cup {Absent}
Action == {"CREATE", "UPDATE", "DELETE"}
Edit == [action : Action, panel : Panels, before : Snapshot, after : Snapshot,
         undone : BOOLEAN]
Change == [seq : Nat, action : Action, panel : Panels \cup {Nobody}, to : Snapshot]
NoChange == [seq |-> 0, action |-> "DELETE", panel |-> Nobody, to |-> Absent]

Present(p) == panels[p] # Absent
InForce == {i \in DOMAIN edits : ~edits[i].undone}

TypeOK ==
  /\ panels \in [Panels -> Snapshot]
  /\ finds \in [Panels -> Boxes \cup {NoBox}]
  /\ edits \in Seq(Edit)
  /\ picture \in [Panels -> Boxes \cup {NoBox}]
  /\ findFiles \subseteq Panels
  /\ lock \in Requests \cup {Nobody}
  /\ pc \in [Requests -> {"idle", "editing", "flushed", "written", "removing"}]
  /\ change \in [Requests -> Change]
  /\ stale \in [Requests -> SUBSET {"picture", "finds"}]
  /\ crashes \in 0..MaxCrashes
  /\ past \in Seq([Panels -> Snapshot])
  /\ trouble \subseteq {"crash", "overtaken"}

\* A page as a run has left it: any number of panels, products found in some.
Init ==
  /\ panels \in [Panels -> [box : Boxes, origin : {"AI"}] \cup {Absent}]
  /\ findFiles \in SUBSET {p \in Panels : Present(p)}
  /\ finds = [p \in Panels |-> IF p \in findFiles THEN panels[p].box ELSE NoBox]
  /\ picture = [p \in Panels |-> panels[p].box]
  /\ edits = <<>>
  /\ lock = Nobody
  /\ pc = [r \in Requests |-> "idle"]
  /\ change = [r \in Requests |-> NoChange]
  /\ stale = [r \in Requests |-> {}]
  /\ crashes = 0
  /\ past = <<>>
  /\ trouble = {}

----------------------------------------------------------------------------
\* The catalogue is not being processed and the request gets the page's lock.
Begin(r) ==
  /\ pc[r] = "idle"
  /\ lock = Nobody
  /\ lock' = r
  /\ pc' = [pc EXCEPT ![r] = "editing"]
  /\ trouble' = IF \E q \in Requests : pc[q] = "removing"
                THEN trouble \cup {"overtaken"} ELSE trouble
  /\ UNCHANGED <<rows, files, change, stale, crashes, past>>

EndRequest(r) ==
  /\ pc' = [pc EXCEPT ![r] = "idle"]
  /\ change' = [change EXCEPT ![r] = NoChange]
  /\ stale' = [stale EXCEPT ![r] = {}]

\* It is refused, or the new box is the one the panel has already.
Refuse(r) ==
  /\ pc[r] = "editing"
  /\ lock' = Nobody
  /\ EndRequest(r)
  /\ UNCHANGED <<rows, files, crashes, past, trouble>>

\* Mutant: the picture of a panel that goes is forgotten.
FlushKeepingPicture(r, seq, action, p, to) ==
  /\ pc[r] = "editing"
  /\ change' = [change EXCEPT ![r] =
                  [seq |-> seq, action |-> action, panel |-> p, to |-> to]]
  /\ stale' = [stale EXCEPT ![r] = IF finds[p] # NoBox THEN {"finds"} ELSE {}]
  /\ pc' = [pc EXCEPT ![r] = IF to \in {Absent, panels[p]} THEN "written" ELSE "flushed"]
  /\ UNCHANGED <<rows, files, lock, crashes, past, trouble>>

\* The database has accepted the change, nobody else sees it yet.  Pictures of
\* products found in the panel become stale, the panel's own when it goes.
Flush(r, seq, action, p, to) ==
  /\ pc[r] = "editing"
  /\ change' = [change EXCEPT ![r] =
                  [seq |-> seq, action |-> action, panel |-> p, to |-> to]]
  /\ stale' = [stale EXCEPT ![r] = {f \in {"picture", "finds"} :
                 \/ f = "picture" /\ to = Absent /\ Present(p)
                 \/ f = "finds" /\ finds[p] # NoBox}]
  /\ pc' = [pc EXCEPT ![r] = IF to \in {Absent, panels[p]} THEN "written" ELSE "flushed"]
  /\ UNCHANGED <<rows, files, lock, crashes, past, trouble>>

NewSeq == Len(edits) + 1

\* A panel's id is a fresh uuid: of no panel now or before.
CreatePanel(r, p, b) ==
  /\ Len(edits) < MaxEdits
  /\ Cardinality({q \in Panels : Present(q)}) < Limit
  /\ ~Present(p) /\ \A i \in DOMAIN edits : edits[i].panel # p
  /\ Flush(r, NewSeq, "CREATE", p, [box |-> b, origin |-> "HUMAN"])

\* Mutant: the system's panel stays the system's when an admin moves it.
UpdatePanelKeepingOrigin(r, p, b) ==
  /\ Len(edits) < MaxEdits
  /\ Present(p) /\ panels[p].box # b
  /\ Flush(r, NewSeq, "UPDATE", p, [box |-> b, origin |-> panels[p].origin])

UpdatePanel(r, p, b) ==
  /\ Len(edits) < MaxEdits
  /\ Present(p) /\ panels[p].box # b
  /\ Flush(r, NewSeq, "UPDATE", p,
           [box |-> b,
            origin |-> IF panels[p].origin = "HUMAN" THEN "HUMAN" ELSE "AI_HUMAN_REVIEW"])

DeletePanel(r, p) ==
  /\ Len(edits) < MaxEdits
  /\ Present(p)
  /\ Flush(r, NewSeq, "DELETE", p, Absent)

\* Mutant: undo brings back the box and leaves the origin.
UndoBoxOnly(r) ==
  \E i \in InForce :
    /\ \A j \in InForce : j <= i
    /\ LET e == edits[i]
           to == IF e.action = "CREATE" THEN Absent
                 ELSE [panels[e.panel] EXCEPT !.box = e.before.box]
       IN Flush(r, i, e.action, e.panel, to)

\* The last change that is not undone.  A moved panel goes back if it is still
\* there, a deleted one comes back under its old id if it is not; the page's limit
\* is not looked at.
UndoLast(r) ==
  \E i \in InForce :
    /\ \A j \in InForce : j <= i
    /\ LET e == edits[i]
           to == IF e.action = "CREATE" THEN Absent
                 ELSE IF (e.action = "UPDATE") = Present(e.panel) THEN e.before
                 ELSE panels[e.panel]
       IN Flush(r, i, e.action, e.panel, to)

\* The panel's picture is stored, over the one it had.
StorePicture(r) ==
  /\ pc[r] = "flushed"
  /\ picture' = [picture EXCEPT ![change[r].panel] = change[r].to.box]
  /\ pc' = [pc EXCEPT ![r] = "written"]
  /\ UNCHANGED <<rows, findFiles, lock, change, stale, crashes, past, trouble>>

\* Mutant: products stay with a panel that has changed.
CommitKeepingFinds(r) ==
  LET c == change[r] IN
  /\ pc[r] = "written"
  /\ panels' = [panels EXCEPT ![c.panel] = c.to]
  /\ UNCHANGED finds
  /\ IF c.seq = NewSeq
     THEN /\ edits' = Append(edits, [action |-> c.action, panel |-> c.panel,
                                     before |-> panels[c.panel], after |-> c.to,
                                     undone |-> FALSE])
          /\ past' = Append(past, panels)
     ELSE /\ edits' = [edits EXCEPT ![c.seq].undone = TRUE]
          /\ UNCHANGED past
  /\ lock' = Nobody
  /\ IF stale[r] = {} THEN EndRequest(r)
     ELSE pc' = [pc EXCEPT ![r] = "removing"] /\ UNCHANGED <<change, stale>>
  /\ UNCHANGED <<files, crashes, trouble>>

\* Mutant: the undone change is not marked.
CommitUnmarked(r) ==
  LET c == change[r] IN
  /\ pc[r] = "written"
  /\ panels' = [panels EXCEPT ![c.panel] = c.to]
  /\ finds' = [finds EXCEPT ![c.panel] = NoBox]
  /\ IF c.seq = NewSeq
     THEN /\ edits' = Append(edits, [action |-> c.action, panel |-> c.panel,
                                     before |-> panels[c.panel], after |-> c.to,
                                     undone |-> FALSE])
          /\ past' = Append(past, panels)
     ELSE UNCHANGED <<edits, past>>
  /\ lock' = Nobody
  /\ IF stale[r] = {} THEN EndRequest(r)
     ELSE pc' = [pc EXCEPT ![r] = "removing"] /\ UNCHANGED <<change, stale>>
  /\ UNCHANGED <<files, crashes, trouble>>

\* The panel forgets its products, the edit is logged or marked as undone, the
\* commit gives the lock back.
Commit(r) ==
  LET c == change[r] IN
  /\ pc[r] = "written"
  /\ panels' = [panels EXCEPT ![c.panel] = c.to]
  /\ finds' = [finds EXCEPT ![c.panel] = NoBox]
  /\ IF c.seq = NewSeq
     THEN /\ edits' = Append(edits, [action |-> c.action, panel |-> c.panel,
                                     before |-> panels[c.panel], after |-> c.to,
                                     undone |-> FALSE])
          /\ past' = Append(past, panels)
     ELSE /\ edits' = [edits EXCEPT ![c.seq].undone = TRUE]
          /\ UNCHANGED past
  /\ lock' = Nobody
  /\ IF stale[r] = {} THEN EndRequest(r)
     ELSE pc' = [pc EXCEPT ![r] = "removing"] /\ UNCHANGED <<change, stale>>
  /\ UNCHANGED <<files, crashes, trouble>>

\* Files that no longer belong to anything go one by one, without a lock.
RemoveStale(r) ==
  /\ pc[r] = "removing"
  /\ IF "picture" \in stale[r]
     THEN /\ picture' = [picture EXCEPT ![change[r].panel] = NoBox]
          /\ UNCHANGED findFiles
     ELSE /\ findFiles' = findFiles \ {change[r].panel}
          /\ UNCHANGED picture
  /\ IF "picture" \in stale[r] /\ "finds" \in stale[r]
     THEN stale' = [stale EXCEPT ![r] = {"finds"}] /\ UNCHANGED <<pc, change>>
     ELSE EndRequest(r)
  /\ UNCHANGED <<rows, lock, crashes, past, trouble>>

\* The process is gone, or the transaction fails; files stay as they are.
Crash(r) ==
  /\ pc[r] # "idle"
  /\ crashes < MaxCrashes
  /\ crashes' = crashes + 1
  /\ EndRequest(r)
  /\ lock' = IF lock = r THEN Nobody ELSE lock
  /\ trouble' = IF pc[r] \in {"written", "removing"} THEN trouble \cup {"crash"} ELSE trouble
  /\ UNCHANGED <<rows, files, past>>

ChangePanel(r) ==
  \/ \E p \in Panels, b \in Boxes : CreatePanel(r, p, b) \/ UpdatePanel(r, p, b)
  \/ \E p \in Panels : DeletePanel(r, p)
  \/ UndoLast(r)

Next ==
  \E r \in Requests :
    \/ Begin(r) \/ Refuse(r) \/ ChangePanel(r) \/ StorePicture(r) \/ Commit(r)
    \/ RemoveStale(r) \/ Crash(r)

Spec == Init /\ [][Next]_vars

----------------------------------------------------------------------------
(* Properties.                                                             *)

(* origin tells whose work a panel is: HUMAN when an admin's drawing of it   *)
(* is in force, AI_HUMAN_REVIEW when a move of a panel of the system's is.   *)
OriginIsHonest ==
  \A p \in Panels :
    LET inForce(a) == \E i \in InForce : edits[i].panel = p /\ edits[i].action = a
    IN Present(p) => panels[p].origin = IF inForce("CREATE") THEN "HUMAN"
                                        ELSE IF inForce("UPDATE") THEN "AI_HUMAN_REVIEW"
                                        ELSE "AI"

(* Products found inside a panel belong to the picture they were found on:   *)
(* no panel shows products of another box, and what a row refers to is       *)
(* stored, whenever a request is cut off.                                    *)
FindsBelong ==
  \A p \in Panels : finds[p] # NoBox => finds[p] = panels[p].box /\ p \in findFiles

(* When nothing is in work, pictures and rows match exactly: each panel's     *)
(* picture shows its box, and nothing else is stored.                        *)
FilesAreThose ==
  trouble = {} /\ (\A r \in Requests : pc[r] = "idle") =>
    /\ picture = [p \in Panels |-> panels[p].box]
    /\ findFiles = {p \in Panels : finds[p] # NoBox}

(* "Two people editing one page cannot interleave" (docs/panel-editor.md):    *)
(* whatever they do at the same time, every panel keeps a picture.            *)
PanelsKeepPictures == \A p \in Panels : Present(p) => picture[p] # NoBox

\* The pages before the changes in force, oldest first.
OnlyOf(seqs) == CHOOSE i \in seqs : TRUE
Ranked(seqs, k) == {i \in seqs : Cardinality({j \in seqs : j <= i}) = k}
PastInForce == [k \in 1..Cardinality(InForce) |-> past[OnlyOf(Ranked(InForce, k))]]

(* The edits are a stack of the changes still in force: undo brings back exactly the page *)
(* before the last of them, however many changes, undos and cut-off requests of however  *)
(* many admins came in between; with none in force it is the page the system cut, which   *)
(* is why reprocessing may then discard it unasked (count_corrections).                   *)
Stack == INSTANCE UndoStack WITH past <- PastInForce

ImplementsUndoStack == Stack!Spec
=============================================================================
