-------------------------- MODULE PanelEditsProofs --------------------------
(***************************************************************************)
(* The safety of PanelEdits for any number of requests, panels, boxes,     *)
(* edits and crashes.  The inductive invariant adds to the properties of   *)
(* the component what the row lock protects: that a change in work still   *)
(* fits the page it was made for, and that the edits in force lead from    *)
(* the page the system cut to the page there is.                           *)
(***************************************************************************)
EXTENDS PanelEdits, FiniteSetTheorems, TLAPS

\* Who is between its lock and its commit has the lock, and nobody else.
Exclusive == \A r \in Requests : pc[r] \in {"editing", "flushed", "written"} <=> lock = r

\* What an edit may have done to its panel.
ShapeOf(e) ==
  /\ e.action = "CREATE" => e.before = Absent
  /\ e.action = "UPDATE" => e.before # Absent /\ e.after # Absent
  /\ e.action = "DELETE" => e.before # Absent /\ e.after = Absent
EditShape == \A i \in DOMAIN edits : ShapeOf(edits[i])

Top(i) == i \in InForce /\ \A j \in InForce : j <= i

\* The page that edit i made of the page before it.
Made(i) == [past[i] EXCEPT ![edits[i].panel] = edits[i].after]

\* The edits in force lead from the page before the first of them to the page there is.
Stacked ==
  /\ Len(past) = Len(edits)
  /\ \A i \in InForce : past[i][edits[i].panel] = edits[i].before
  /\ \A i \in InForce : Top(i) => panels = Made(i)
  /\ \A i, j \in InForce :
       i < j /\ (\A k \in InForce : k <= i \/ j <= k) => past[j] = Made(i)

Done(log, seqs, p, action) == \E i \in seqs : log[i].panel = p /\ log[i].action = action

\* OriginIsHonest of a page that the changes seqs of a log have made.
HonestAfter(log, seqs, page) ==
  \A p \in Panels : page[p] # Absent =>
    page[p].origin = IF Done(log, seqs, p, "CREATE") THEN "HUMAN"
                     ELSE IF Done(log, seqs, p, "UPDATE") THEN "AI_HUMAN_REVIEW"
                     ELSE "AI"

\* OriginIsHonest, of the pages that undo may bring back too.
HonestThroughout ==
  /\ HonestAfter(edits, InForce, panels)
  /\ \A i \in InForce : HonestAfter(edits, {j \in InForce : j < i}, past[i])

\* A change that fits the page as it is.
Draws(c) ==
  /\ c.seq = NewSeq /\ c.action = "CREATE"
  /\ ~Present(c.panel) /\ \A i \in DOMAIN edits : edits[i].panel # c.panel
  /\ c.to # Absent /\ c.to.origin = "HUMAN"
Moves(c) ==
  /\ c.seq = NewSeq /\ c.action = "UPDATE"
  /\ Present(c.panel) /\ c.to # Absent /\ c.to.box # panels[c.panel].box
  /\ c.to.origin = IF panels[c.panel].origin = "HUMAN" THEN "HUMAN" ELSE "AI_HUMAN_REVIEW"
Discards(c) ==
  /\ c.seq = NewSeq /\ c.action = "DELETE"
  /\ Present(c.panel) /\ c.to = Absent
Undoes(c) ==
  /\ Top(c.seq)
  /\ c.panel = edits[c.seq].panel /\ c.to = edits[c.seq].before
Fits(c) == c.panel \in Panels /\ (Draws(c) \/ Moves(c) \/ Discards(c) \/ Undoes(c))

StaleOf(c) == {f \in {"picture", "finds"} :
                 \/ f = "picture" /\ c.to = Absent /\ Present(c.panel)
                 \/ f = "finds" /\ finds[c.panel] # NoBox}

\* A change in work fits the page until it is committed.
ChangesFit ==
  \A r \in Requests : pc[r] \in {"flushed", "written"} =>
    Fits(change[r]) /\ stale[r] = StaleOf(change[r])

\* What a request removes belongs to nothing, and cannot come back.
RemovesUnused ==
  \A r \in Requests : pc[r] = "removing" =>
    change[r].panel \in Panels /\ finds[change[r].panel] = NoBox /\ stale[r] # {}

\* FilesAreThose while requests are in work: who has yet to commit or to remove.
RemovesAlone ==
  \A r \in Requests : pc[r] = "removing" =>
    /\ \A q \in Requests \ {r} : pc[q] = "idle"
    /\ "picture" \in stale[r] => panels[change[r].panel] = Absent
StoredFirst ==
  \A r \in Requests :
    /\ pc[r] = "flushed" => change[r].to # Absent
    /\ pc[r] = "written" /\ change[r].to # Absent =>
         picture[change[r].panel] = change[r].to.box
PicturesFollow ==
  \A p \in Panels :
    \/ picture[p] = panels[p].box
    \/ \E r \in Requests : /\ change[r].panel = p
                           /\ \/ pc[r] = "written" /\ change[r].to # Absent
                              \/ pc[r] = "removing" /\ "picture" \in stale[r]
FindFilesFollow ==
  \A p \in findFiles :
    \/ finds[p] # NoBox
    \/ \E r \in Requests : change[r].panel = p /\ pc[r] = "removing" /\ "finds" \in stale[r]
FilesFollow ==
  trouble = {} => RemovesAlone /\ StoredFirst /\ PicturesFollow /\ FindFilesFollow

IInv ==
  /\ TypeOK
  /\ Exclusive
  /\ EditShape
  /\ Stacked
  /\ HonestThroughout
  /\ ChangesFit
  /\ RemovesUnused
  /\ FindsBelong
  /\ FilesFollow

----------------------------------------------------------------------------
(* The steps, as what they do to a change. *)

\* r has flushed the change c.
Flushes(r, c) ==
  /\ pc[r] = "editing"
  /\ change' = [change EXCEPT ![r] = c]
  /\ stale' = [stale EXCEPT ![r] = StaleOf(c)]
  /\ pc' = [pc EXCEPT ![r] = IF c.to \in {Absent, panels[c.panel]} THEN "written" ELSE "flushed"]
  /\ UNCHANGED <<rows, files, lock, crashes, past, trouble>>

\* The sort of the constants: no panel's state is the mark of an absent one.
LEMMA AbsentApart ==
  /\ Absent \in Snapshot
  /\ \A s \in Snapshot : s # Absent => s.box \in Boxes /\ s.origin \in Origin /\ s.box # NoBox
  /\ \A s \in Snapshot : s.box \in Boxes \cup {NoBox}
  /\ \A b \in Boxes, o \in Origin :
       [box |-> b, origin |-> o] \in Snapshot /\ [box |-> b, origin |-> o] # Absent
<1>1. Absent \in Snapshot /\ Absent.box = NoBox
  BY DEF Snapshot, Absent
<1>2. ASSUME NEW s \in Snapshot, s # Absent
      PROVE  s.box \in Boxes /\ s.origin \in Origin /\ s.box # NoBox
  BY <1>2, MarkersAssumption DEF Snapshot
<1>3. ASSUME NEW s \in Snapshot PROVE s.box \in Boxes \cup {NoBox}
  BY <1>1, <1>2
<1>4. ASSUME NEW b \in Boxes, NEW o \in Origin
      PROVE  [box |-> b, origin |-> o] \in Snapshot /\ [box |-> b, origin |-> o] # Absent
  BY MarkersAssumption DEF Snapshot, Absent
<1> QED
  BY <1>1, <1>2, <1>3, <1>4

\* Undo finds its panel as the last edit in force has left it, so it restores what was before.
LEMMA UndoRestores ==
  ASSUME TypeOK, EditShape, Stacked, NEW i \in InForce, Top(i)
  PROVE  (IF edits[i].action = "CREATE" THEN Absent
          ELSE IF (edits[i].action = "UPDATE") = Present(edits[i].panel) THEN edits[i].before
          ELSE panels[edits[i].panel]) = edits[i].before
<1>1. i \in DOMAIN edits /\ edits[i] \in Edit
  BY DEF InForce, TypeOK
<1>2. edits[i].panel \in Panels /\ edits[i].action \in Action
  BY <1>1 DEF Edit
<1>3. i \in DOMAIN past /\ past[i] \in [Panels -> Snapshot]
  BY <1>1 DEF TypeOK, Stacked
<1>4. panels[edits[i].panel] = edits[i].after
  BY <1>2, <1>3 DEF Stacked, Made
<1>5. CASE edits[i].action = "CREATE"
  BY <1>1, <1>5 DEF EditShape, ShapeOf
<1>6. CASE edits[i].action = "UPDATE"
  BY <1>1, <1>4, <1>6 DEF EditShape, ShapeOf, Present
<1>7. CASE edits[i].action = "DELETE"
  BY <1>1, <1>4, <1>7 DEF EditShape, ShapeOf, Present
<1> QED
  BY <1>2, <1>5, <1>6, <1>7 DEF Action

\* Every change that a request flushes fits the page.
LEMMA ChangeFits ==
  ASSUME TypeOK, EditShape, Stacked, NEW r \in Requests, ChangePanel(r)
  PROVE  \E c \in Change : Fits(c) /\ Flushes(r, c)
<1>1. ASSUME NEW p \in Panels, NEW b \in Boxes, CreatePanel(r, p, b)
      PROVE  \E c \in Change : Fits(c) /\ Flushes(r, c)
  <2> DEFINE to == [box |-> b, origin |-> "HUMAN"]
             c == [seq |-> NewSeq, action |-> "CREATE", panel |-> p, to |-> to]
  <2>1. to \in Snapshot /\ to # Absent
    BY AbsentApart DEF Origin
  <2>2. c \in Change
    BY <2>1 DEF Change, Action, NewSeq, TypeOK
  <2>3. Fits(c)
    BY <1>1, <2>1 DEF CreatePanel, Fits, Draws
  <2>4. Flushes(r, c)
    BY <1>1 DEF CreatePanel, Flush, Flushes, StaleOf
  <2> QED
    BY <2>2, <2>3, <2>4
<1>2. ASSUME NEW p \in Panels, NEW b \in Boxes, UpdatePanel(r, p, b)
      PROVE  \E c \in Change : Fits(c) /\ Flushes(r, c)
  <2> DEFINE o == IF panels[p].origin = "HUMAN" THEN "HUMAN" ELSE "AI_HUMAN_REVIEW"
             to == [box |-> b, origin |-> o]
             c == [seq |-> NewSeq, action |-> "UPDATE", panel |-> p, to |-> to]
  <2>1. to \in Snapshot /\ to # Absent
    BY AbsentApart DEF Origin
  <2>2. c \in Change
    BY <2>1 DEF Change, Action, NewSeq, TypeOK
  <2>3. Fits(c)
    BY <1>2, <2>1 DEF UpdatePanel, Fits, Moves
  <2>4. Flushes(r, c)
    BY <1>2 DEF UpdatePanel, Flush, Flushes, StaleOf
  <2> QED
    BY <2>2, <2>3, <2>4
<1>3. ASSUME NEW p \in Panels, DeletePanel(r, p)
      PROVE  \E c \in Change : Fits(c) /\ Flushes(r, c)
  <2> DEFINE c == [seq |-> NewSeq, action |-> "DELETE", panel |-> p, to |-> Absent]
  <2>1. c \in Change
    BY AbsentApart DEF Change, Action, NewSeq, TypeOK
  <2>2. Fits(c)
    BY <1>3 DEF DeletePanel, Fits, Discards
  <2>3. Flushes(r, c)
    BY <1>3 DEF DeletePanel, Flush, Flushes, StaleOf
  <2> QED
    BY <2>1, <2>2, <2>3
<1>4. ASSUME UndoLast(r)
      PROVE  \E c \in Change : Fits(c) /\ Flushes(r, c)
  <2>1. PICK i \in InForce :
          /\ \A j \in InForce : j <= i
          /\ Flush(r, i, edits[i].action, edits[i].panel,
                   IF edits[i].action = "CREATE" THEN Absent
                   ELSE IF (edits[i].action = "UPDATE") = Present(edits[i].panel)
                        THEN edits[i].before
                   ELSE panels[edits[i].panel])
    BY <1>4 DEF UndoLast
  <2>2. Top(i)
    BY <2>1 DEF Top
  <2> DEFINE c == [seq |-> i, action |-> edits[i].action, panel |-> edits[i].panel,
                   to |-> edits[i].before]
  <2>3. Flush(r, i, edits[i].action, edits[i].panel, edits[i].before)
    BY <2>1, <2>2, UndoRestores
  <2>4. i \in Nat /\ edits[i] \in Edit
    BY DEF InForce, TypeOK
  <2>5. c \in Change
    BY <2>4 DEF Change, Edit
  <2>6. Fits(c)
    BY <2>2, <2>4 DEF Fits, Undoes, Edit
  <2>7. Flushes(r, c)
    BY <2>3 DEF Flush, Flushes, StaleOf
  <2> QED
    BY <2>5, <2>6, <2>7
<1> QED
  BY <1>1, <1>2, <1>3, <1>4 DEF ChangePanel

\* A request that ends keeps nothing.
LEMMA EndEffect ==
  ASSUME TypeOK, NEW r \in Requests, EndRequest(r)
  PROVE  /\ pc'[r] = "idle" /\ change'[r] = NoChange /\ stale'[r] = {}
         /\ \A q \in Requests \ {r} : pc'[q] = pc[q] /\ change'[q] = change[q] /\ stale'[q] = stale[q]
         /\ pc' \in [Requests -> {"idle", "editing", "flushed", "written", "removing"}]
         /\ change' \in [Requests -> Change]
         /\ stale' \in [Requests -> SUBSET {"picture", "finds"}]
<1>1. NoChange \in Change
  BY AbsentApart DEF NoChange, Change, Action
<1> QED
  BY <1>1 DEF EndRequest, TypeOK

\* The commit appends the change to the edits, which makes the page of the next seq.
Logs(c) ==
  /\ c.seq = NewSeq
  /\ edits' = Append(edits, [action |-> c.action, panel |-> c.panel,
                             before |-> panels[c.panel], after |-> c.to, undone |-> FALSE])
  /\ past' = Append(past, panels)
  /\ Len(edits') = NewSeq /\ Len(past') = NewSeq
  /\ \A i \in DOMAIN edits : edits'[i] = edits[i] /\ past'[i] = past[i]
  /\ edits'[NewSeq].action = c.action /\ edits'[NewSeq].panel = c.panel
  /\ edits'[NewSeq].before = panels[c.panel] /\ edits'[NewSeq].after = c.to
  /\ past'[NewSeq] = panels
  /\ InForce' = InForce \cup {NewSeq}
  /\ NewSeq \notin InForce /\ \A i \in InForce : i < NewSeq

\* Or it marks the last edit in force as undone.
Marks(c) ==
  /\ Undoes(c)
  /\ past' = past /\ Len(edits') = Len(edits)
  /\ \A i \in DOMAIN edits :
       /\ edits'[i].action = edits[i].action /\ edits'[i].panel = edits[i].panel
       /\ edits'[i].before = edits[i].before /\ edits'[i].after = edits[i].after
  /\ InForce' = InForce \ {c.seq}

Commits(r) ==
  LET c == change[r] IN
  /\ pc[r] = "written" /\ c \in Change /\ Fits(c) /\ stale[r] = StaleOf(c)
  /\ lock = r /\ lock' = Nobody
  /\ panels' = [panels EXCEPT ![c.panel] = c.to]
  /\ finds' = [finds EXCEPT ![c.panel] = NoBox]
  /\ edits' \in Seq(Edit) /\ past' \in Seq([Panels -> Snapshot])
  /\ Logs(c) \/ Marks(c)
  /\ UNCHANGED <<files, crashes, trouble>>
  /\ \/ stale[r] = {} /\ EndRequest(r)
     \/ stale[r] # {} /\ pc' = [pc EXCEPT ![r] = "removing"] /\ UNCHANGED <<change, stale>>

LEMMA CommitEffect ==
  ASSUME IInv, NEW r \in Requests, Commit(r)
  PROVE  Commits(r)
<1> DEFINE c == change[r]
           e == [action |-> c.action, panel |-> c.panel, before |-> panels[c.panel],
                 after |-> c.to, undone |-> FALSE]
<1>0. pc[r] = "written" /\ lock = r /\ c \in Change /\ Fits(c) /\ stale[r] = StaleOf(c)
  BY DEF Commit, IInv, TypeOK, Exclusive, ChangesFit
<1>1. c.panel \in Panels /\ panels[c.panel] \in Snapshot /\ c.to \in Snapshot /\ c.action \in Action
  BY <1>0 DEF Fits, IInv, TypeOK, Change
<1>2. Len(past) = Len(edits) /\ Len(edits) \in Nat /\ edits \in Seq(Edit)
      /\ past \in Seq([Panels -> Snapshot]) /\ panels \in [Panels -> Snapshot]
  BY DEF IInv, TypeOK, Stacked
<1>3. CASE c.seq = NewSeq
  <2>1. e \in Edit
    BY <1>1 DEF Edit
  <2>2. edits' = Append(edits, e) /\ past' = Append(past, panels)
    BY <1>3 DEF Commit
  <2>3. edits' \in Seq(Edit) /\ past' \in Seq([Panels -> Snapshot])
    BY <1>2, <2>1, <2>2
  <2>4. /\ Len(edits') = NewSeq /\ Len(past') = NewSeq
        /\ edits'[NewSeq] = e /\ past'[NewSeq] = panels
        /\ \A i \in DOMAIN edits : edits'[i] = edits[i] /\ past'[i] = past[i]
    BY <1>2, <2>1, <2>2 DEF NewSeq
  <2>5. InForce' = InForce \cup {NewSeq} /\ \A i \in InForce : i < NewSeq
    <3> HIDE DEF e
    <3>1. DOMAIN edits = 1..Len(edits) /\ DOMAIN edits' = 1..Len(edits')
          /\ DOMAIN edits' = DOMAIN edits \cup {NewSeq}
      BY <1>2, <2>3, <2>4 DEF NewSeq
    <3>2. edits'[NewSeq].undone = FALSE
      BY <2>4 DEF e
    <3>3. \A i \in DOMAIN edits : edits'[i].undone = edits[i].undone
      BY <2>4
    <3>4. NewSeq \notin DOMAIN edits /\ \A i \in DOMAIN edits : i < NewSeq
      BY <1>2, <3>1 DEF NewSeq
    <3>5. InForce' = InForce \cup {NewSeq}
      BY <3>1, <3>2, <3>3, <3>4 DEF InForce
    <3> QED
      BY <3>4, <3>5 DEF InForce
  <2>6. NewSeq \notin InForce
    BY <1>2, <2>5 DEF NewSeq
  <2>7. Logs(c)
    BY <1>3, <2>2, <2>4, <2>5, <2>6 DEF Logs
  <2> QED
    BY <1>0, <2>3, <2>7 DEF Commits, Commit
<1>4. CASE c.seq # NewSeq
  <2>1. Undoes(c) /\ c.seq \in InForce
    BY <1>0, <1>4 DEF Fits, Draws, Moves, Discards, Undoes, Top
  <2>2. c.seq \in DOMAIN edits /\ edits[c.seq] \in Edit
    BY <1>2, <2>1 DEF InForce
  <2>3. edits' = [edits EXCEPT ![c.seq].undone = TRUE] /\ past' = past
    BY <1>4 DEF Commit
  <2> DEFINE d == [edits[c.seq] EXCEPT !.undone = TRUE]
  <2>4. d \in Edit /\ d.undone = TRUE /\ d.action = edits[c.seq].action
        /\ d.panel = edits[c.seq].panel /\ d.before = edits[c.seq].before
        /\ d.after = edits[c.seq].after
    BY <2>2 DEF Edit
  <2>5. edits' = [edits EXCEPT ![c.seq] = d]
    BY <2>3
  <2> HIDE DEF d
  <2>6. edits' \in Seq(Edit) /\ Len(edits') = Len(edits)
    BY <1>2, <2>2, <2>4, <2>5
  <2>7. /\ edits'[c.seq] = d
        /\ \A i \in DOMAIN edits : i # c.seq => edits'[i] = edits[i]
    BY <1>2, <2>2, <2>5
  <2>8. DOMAIN edits' = DOMAIN edits
    BY <2>5
  <2>9. InForce' = InForce \ {c.seq}
    BY <2>1, <2>4, <2>7, <2>8 DEF InForce
  <2>10. Marks(c)
    BY <2>1, <2>3, <2>4, <2>6, <2>7, <2>9 DEF Marks
  <2> QED
    BY <1>0, <1>2, <1>4, <2>3, <2>6, <2>10 DEF Commits, Commit
<1> QED
  BY <1>3, <1>4

\* Every step is one of these.
LEMMA Cases ==
  ASSUME IInv, Next
  PROVE  \E r \in Requests :
           \/ Begin(r) \/ Refuse(r) \/ StorePicture(r) \/ RemoveStale(r) \/ Crash(r)
           \/ \E c \in Change : Fits(c) /\ Flushes(r, c)
           \/ Commits(r)
<1>1. PICK r \in Requests :
        Begin(r) \/ Refuse(r) \/ ChangePanel(r) \/ StorePicture(r) \/ Commit(r)
        \/ RemoveStale(r) \/ Crash(r)
  BY DEF Next
<1>2. CASE ChangePanel(r)
  BY <1>2, ChangeFits DEF IInv
<1>3. CASE Commit(r)
  BY <1>3, CommitEffect
<1> QED
  BY <1>1, <1>2, <1>3

\* The rows change with a commit only.
RowsStay == UNCHANGED <<rows, past>>

LEMMA QuietSteps ==
  ASSUME NEW r \in Requests,
         \/ Begin(r) \/ Refuse(r) \/ StorePicture(r) \/ RemoveStale(r) \/ Crash(r)
         \/ \E c \in Change : Flushes(r, c)
  PROVE  RowsStay
<1>1. CASE Begin(r) \/ Refuse(r)
  BY <1>1 DEF Begin, Refuse, RowsStay
<1>2. CASE StorePicture(r)
  BY <1>2 DEF StorePicture, RowsStay, rows
<1>3. CASE RemoveStale(r) \/ Crash(r)
  BY <1>3 DEF RemoveStale, Crash, RowsStay
<1>4. CASE \E c \in Change : Flushes(r, c)
  BY <1>4 DEF Flushes, RowsStay
<1> QED
  BY <1>1, <1>2, <1>3, <1>4

LEMMA IdleSteps == vars' = vars => RowsStay
BY DEF vars, RowsStay

----------------------------------------------------------------------------
(* Types and the lock. *)

LEMMA TypeInit == Init => TypeOK
<1> SUFFICES ASSUME Init PROVE TypeOK
  OBVIOUS
<1>1. NoChange \in Change
  BY AbsentApart DEF NoChange, Change, Action
<1>2. [box : Boxes, origin : {"AI"}] \cup {Absent} \subseteq Snapshot
  BY AbsentApart DEF Snapshot, Origin
<1>3. panels \in [Panels -> Snapshot]
  BY <1>2 DEF Init
<1>4. \A p \in Panels : panels[p].box \in Boxes \cup {NoBox}
  BY <1>3, AbsentApart
<1>5. finds \in [Panels -> Boxes \cup {NoBox}] /\ picture \in [Panels -> Boxes \cup {NoBox}]
  BY <1>4 DEF Init
<1> QED
  BY <1>1, <1>3, <1>5, BoundsAssumption DEF Init, TypeOK

LEMMA TypeStep == IInv /\ [Next]_vars => TypeOK'
<1> SUFFICES ASSUME IInv, [Next]_vars PROVE TypeOK'
  OBVIOUS
<1> USE DEF IInv
<1>1. CASE vars' = vars
  BY <1>1 DEF vars, rows, files, request, TypeOK
<1>2. ASSUME NEW r \in Requests, Begin(r) PROVE TypeOK'
  BY <1>2 DEF Begin, rows, files, TypeOK
<1>3. ASSUME NEW r \in Requests, Refuse(r) PROVE TypeOK'
  BY <1>3, EndEffect DEF Refuse, rows, files, TypeOK
<1>4. ASSUME NEW r \in Requests, NEW c \in Change, Flushes(r, c) PROVE TypeOK'
  <2>1. StaleOf(c) \in SUBSET {"picture", "finds"}
    BY DEF StaleOf
  <2> QED
    BY <1>4, <2>1 DEF Flushes, rows, files, TypeOK
<1>5. ASSUME NEW r \in Requests, StorePicture(r) PROVE TypeOK'
  <2>1. change[r].to.box \in Boxes \cup {NoBox}
    BY AbsentApart DEF TypeOK, Change
  <2>2. picture' \in [Panels -> Boxes \cup {NoBox}]
    BY <1>5, <2>1 DEF StorePicture, TypeOK
  <2> QED
    BY <1>5, <2>2 DEF StorePicture, rows, TypeOK
<1>6. ASSUME NEW r \in Requests, Commits(r) PROVE TypeOK'
  <2>1. panels' \in [Panels -> Snapshot] /\ finds' \in [Panels -> Boxes \cup {NoBox}]
    BY <1>6 DEF Commits, Change, TypeOK
  <2>2. /\ pc' \in [Requests -> {"idle", "editing", "flushed", "written", "removing"}]
        /\ change' \in [Requests -> Change]
        /\ stale' \in [Requests -> SUBSET {"picture", "finds"}]
    <3>1. CASE EndRequest(r)
      BY <3>1, EndEffect
    <3> QED
      BY <1>6, <3>1 DEF Commits, TypeOK
  <2> QED
    BY <1>6, <2>1, <2>2 DEF Commits, files, TypeOK
<1>7. ASSUME NEW r \in Requests, RemoveStale(r) PROVE TypeOK'
  <2>1. /\ pc' \in [Requests -> {"idle", "editing", "flushed", "written", "removing"}]
        /\ change' \in [Requests -> Change]
        /\ stale' \in [Requests -> SUBSET {"picture", "finds"}]
    <3>1. CASE EndRequest(r)
      BY <3>1, EndEffect
    <3>2. CASE stale' = [stale EXCEPT ![r] = {"finds"}] /\ UNCHANGED <<pc, change>>
      BY <3>2 DEF TypeOK
    <3> QED
      BY <1>7, <3>1, <3>2 DEF RemoveStale
  <2> QED
    BY <1>7, <2>1 DEF RemoveStale, rows, TypeOK
<1>8. ASSUME NEW r \in Requests, Crash(r) PROVE TypeOK'
  <2>1. EndRequest(r) /\ crashes' \in 0..MaxCrashes /\ lock' \in Requests \cup {Nobody}
        /\ trouble' \subseteq {"crash", "overtaken"}
    BY <1>8, BoundsAssumption DEF Crash, TypeOK
  <2> QED
    BY <1>8, <2>1, EndEffect DEF Crash, rows, files, TypeOK
<1> QED
  BY <1>1, <1>2, <1>3, <1>4, <1>5, <1>6, <1>7, <1>8, Cases

LEMMA ExclusiveStep == IInv /\ [Next]_vars => Exclusive'
<1> SUFFICES ASSUME IInv, [Next]_vars PROVE Exclusive'
  OBVIOUS
<1>0. TypeOK /\ Exclusive /\ Nobody \notin Requests
  BY MarkersAssumption DEF IInv
<1>1. CASE vars' = vars
  BY <1>0, <1>1 DEF vars, request, Exclusive
<1>2. ASSUME NEW r \in Requests, Begin(r) PROVE Exclusive'
  BY <1>0, <1>2 DEF Begin, TypeOK, Exclusive
<1>3. ASSUME NEW r \in Requests, EndRequest(r),
             lock' = IF lock = r THEN Nobody ELSE lock
      PROVE  Exclusive'
  BY <1>0, <1>3, EndEffect DEF Exclusive
<1>4. ASSUME NEW r \in Requests, Refuse(r) PROVE Exclusive'
  BY <1>0, <1>3, <1>4 DEF Refuse, Exclusive
<1>5. ASSUME NEW r \in Requests, NEW c \in Change, Flushes(r, c) PROVE Exclusive'
  BY <1>0, <1>5 DEF Flushes, TypeOK, Exclusive
<1>6. ASSUME NEW r \in Requests, StorePicture(r) PROVE Exclusive'
  BY <1>0, <1>6 DEF StorePicture, TypeOK, Exclusive
<1>7. ASSUME NEW r \in Requests, Commits(r) PROVE Exclusive'
  <2>1. CASE EndRequest(r)
    BY <1>0, <1>3, <1>7, <2>1 DEF Commits
  <2>2. CASE pc' = [pc EXCEPT ![r] = "removing"]
    BY <1>0, <1>7, <2>2 DEF Commits, TypeOK, Exclusive
  <2> QED
    BY <1>7, <2>1, <2>2 DEF Commits
<1>8. ASSUME NEW r \in Requests, RemoveStale(r) PROVE Exclusive'
  <2>1. CASE EndRequest(r)
    BY <1>0, <1>3, <1>8, <2>1 DEF RemoveStale, Exclusive
  <2>2. CASE UNCHANGED pc
    BY <1>0, <1>8, <2>2 DEF RemoveStale, Exclusive
  <2> QED
    BY <1>8, <2>1, <2>2 DEF RemoveStale
<1>9. ASSUME NEW r \in Requests, Crash(r) PROVE Exclusive'
  BY <1>3, <1>9 DEF Crash
<1> QED
  BY <1>1, <1>2, <1>4, <1>5, <1>6, <1>7, <1>8, <1>9, Cases

----------------------------------------------------------------------------
(* The edits. *)

\* Steps that leave the rows alone leave everything about the edits alone.
LEMMA EditsQuiet ==
  ASSUME EditShape, Stacked, HonestThroughout, RowsStay
  PROVE  EditShape' /\ Stacked' /\ HonestThroughout'
<1>1. UNCHANGED <<panels, edits, past>> /\ InForce' = InForce
  BY DEF RowsStay, rows, InForce
<1>2. EditShape'
  BY <1>1 DEF EditShape
<1>3. Stacked'
  BY <1>1 DEF Stacked, Top, Made
<1>4. HonestThroughout'
  BY <1>1 DEF HonestThroughout, HonestAfter, Done
<1> QED
  BY <1>2, <1>3, <1>4

LEMMA EditShapeStep == IInv /\ [Next]_vars => EditShape'
<1> SUFFICES ASSUME IInv, [Next]_vars PROVE EditShape'
  OBVIOUS
<1>1. CASE RowsStay
  BY <1>1, EditsQuiet DEF IInv
<1>2. ASSUME NEW r \in Requests, Commits(r) PROVE EditShape'
  <2> DEFINE c == change[r]
  <2>0. EditShape /\ edits \in Seq(Edit) /\ Len(edits) \in Nat /\ edits' \in Seq(Edit)
    BY <1>2 DEF IInv, TypeOK, Commits
  <2>1. CASE Logs(c)
    <3>1. Draws(c) \/ Moves(c) \/ Discards(c)
      BY <1>2, <2>0, <2>1 DEF Commits, Fits, Undoes, Top, Logs
    <3>2. DOMAIN edits' = DOMAIN edits \cup {NewSeq} /\ NewSeq \notin DOMAIN edits
      BY <2>0, <2>1 DEF Logs, NewSeq
    <3>3. ShapeOf(edits'[NewSeq])
      BY <2>1, <3>1 DEF Logs, Draws, Moves, Discards, Present, ShapeOf
    <3>4. \A i \in DOMAIN edits : ShapeOf(edits'[i])
      BY <2>0, <2>1 DEF Logs, EditShape
    <3> QED
      BY <3>2, <3>3, <3>4 DEF EditShape
  <2>2. CASE Marks(c)
    <3>1. DOMAIN edits' = DOMAIN edits
      BY <2>0, <2>2 DEF Marks
    <3> QED
      BY <2>0, <2>2, <3>1 DEF Marks, EditShape, ShapeOf
  <2> QED
    BY <1>2, <2>1, <2>2 DEF Commits
<1> QED
  BY <1>1, <1>2, Cases, QuietSteps, IdleSteps

\* Undo brings back the page as it was before the change.
LEMMA UndoGoesBack ==
  ASSUME TypeOK, Stacked, NEW r \in Requests, Commits(r), Marks(change[r])
  PROVE  panels' = past[change[r].seq]
<1> DEFINE c == change[r]
<1>1. /\ Top(c.seq) /\ c.seq \in InForce /\ c.panel = edits[c.seq].panel
      /\ c.to = edits[c.seq].before /\ c.panel \in Panels
      /\ panels' = [panels EXCEPT ![c.panel] = c.to]
  BY DEF Commits, Fits, Marks, Undoes, Top
<1>2. past[c.seq] \in [Panels -> Snapshot] /\ edits[c.seq].before = past[c.seq][c.panel]
  BY <1>1 DEF Stacked, TypeOK, InForce
<1>3. panels = [past[c.seq] EXCEPT ![c.panel] = edits[c.seq].after]
  BY <1>1 DEF Stacked, Made
<1> QED
  BY <1>1, <1>2, <1>3

\* What each commit does to the pages that the edits lead through.
LEMMA StackedStep == IInv /\ [Next]_vars => Stacked'
<1> SUFFICES ASSUME IInv, [Next]_vars PROVE Stacked'
  OBVIOUS
<1>1. CASE RowsStay
  BY <1>1, EditsQuiet DEF IInv
<1>2. ASSUME NEW r \in Requests, Commits(r) PROVE Stacked'
  <2> DEFINE c == change[r]
  <2>0. /\ Stacked /\ edits \in Seq(Edit) /\ past \in Seq([Panels -> Snapshot])
        /\ Len(edits) \in Nat /\ DOMAIN edits = 1..Len(edits) /\ Len(past) = Len(edits)
        /\ panels \in [Panels -> Snapshot] /\ c.panel \in Panels
        /\ panels' = [panels EXCEPT ![c.panel] = c.to]
    BY <1>2 DEF IInv, TypeOK, Stacked, Commits, Fits
  <2>1. CASE Logs(c)
    <3>1. \A i \in InForce : i \in DOMAIN edits /\ i \in Nat /\ i < NewSeq
      BY <2>0, <2>1 DEF InForce, Logs
    <3>2. \A i \in InForce : edits'[i] = edits[i] /\ past'[i] = past[i]
      BY <2>1, <3>1 DEF Logs
    <3>3. Len(past') = Len(edits')
      BY <2>1 DEF Logs
    <3>4. \A i \in InForce' : past'[i][edits'[i].panel] = edits'[i].before
      <4>1. \A i \in InForce : past'[i][edits'[i].panel] = edits'[i].before
        BY <2>0, <3>2 DEF Stacked
      <4>2. past'[NewSeq][edits'[NewSeq].panel] = edits'[NewSeq].before
        BY <2>1 DEF Logs
      <4> QED
        BY <2>1, <4>1, <4>2 DEF Logs
    <3>5. panels' = [past'[NewSeq] EXCEPT ![edits'[NewSeq].panel] = edits'[NewSeq].after]
      BY <2>0, <2>1 DEF Logs
    <3>6. NewSeq \in Nat /\ NewSeq \in InForce' /\ \A i \in InForce' : i <= NewSeq
      BY <2>0, <2>1, <3>1 DEF Logs, NewSeq
    <3>7. \A i \in InForce' : (\A j \in InForce' : j <= i) => i = NewSeq
      BY <2>1, <3>1, <3>6 DEF Logs
    <3>8. \A i \in InForce' : Top(i)' => panels' = Made(i)'
      BY <3>5, <3>7 DEF Top, Made
    <3>9. ASSUME NEW i \in InForce', NEW j \in InForce', i < j,
                 \A k \in InForce' : k <= i \/ j <= k
          PROVE  past'[j] = [past'[i] EXCEPT ![edits'[i].panel] = edits'[i].after]
      <4>1. i \in InForce
        BY <2>1, <3>1, <3>6, <3>9 DEF Logs
      <4>2. CASE j = NewSeq
        <5>1. \A k \in InForce : k <= i
          BY <2>1, <3>1, <3>6, <3>9, <4>2 DEF Logs
        <5>2. panels = Made(i)
          BY <2>0, <4>1, <5>1 DEF Stacked, Top
        <5> QED
          BY <2>1, <3>2, <4>1, <4>2, <5>2 DEF Logs, Made
      <4>3. CASE j \in InForce
        <5>1. \A k \in InForce : k <= i \/ j <= k
          BY <2>1, <3>9 DEF Logs
        <5>2. past[j] = Made(i)
          BY <2>0, <3>9, <4>1, <4>3, <5>1 DEF Stacked
        <5> QED
          BY <3>2, <4>1, <4>3, <5>2 DEF Made
      <4> QED
        BY <2>1, <4>2, <4>3 DEF Logs
    <3> QED
      BY <3>3, <3>4, <3>8, <3>9 DEF Stacked, Made
  <2>2. CASE Marks(c)
    <3>1. /\ Top(c.seq) /\ c.seq \in InForce /\ c.panel = edits[c.seq].panel
          /\ c.to = edits[c.seq].before /\ InForce' = InForce \ {c.seq}
      BY <2>2 DEF Marks, Undoes, Top
    <3>2. \A i \in InForce : i \in DOMAIN edits /\ i \in Nat
      BY <2>0 DEF InForce
    <3>3. \A i \in InForce : /\ edits'[i].panel = edits[i].panel
                             /\ edits'[i].before = edits[i].before
                             /\ edits'[i].after = edits[i].after /\ past'[i] = past[i]
      BY <2>2, <3>2 DEF Marks
    <3>4. Len(past') = Len(edits')
      BY <2>0, <2>2 DEF Marks
    <3>5. panels' = past[c.seq]
      BY <1>2, <2>2, UndoGoesBack DEF IInv
    <3>6. \A i \in InForce' : past'[i][edits'[i].panel] = edits'[i].before
      BY <2>0, <3>1, <3>3 DEF Stacked
    <3>7. ASSUME NEW i \in InForce', \A j \in InForce' : j <= i
          PROVE  panels' = [past'[i] EXCEPT ![edits'[i].panel] = edits'[i].after]
      <4>1. i \in InForce /\ i < c.seq /\ \A k \in InForce : k <= i \/ c.seq <= k
        BY <3>1, <3>2, <3>7 DEF Top
      <4>2. past[c.seq] = Made(i)
        BY <2>0, <3>1, <4>1 DEF Stacked
      <4> QED
        BY <3>3, <3>5, <4>1, <4>2 DEF Made
    <3>8. ASSUME NEW i \in InForce', NEW j \in InForce', i < j,
                 \A k \in InForce' : k <= i \/ j <= k
          PROVE  past'[j] = [past'[i] EXCEPT ![edits'[i].panel] = edits'[i].after]
      <4>1. \A k \in InForce : k <= i \/ j <= k
        BY <3>1, <3>8 DEF Top
      <4>2. past[j] = Made(i)
        BY <2>0, <3>1, <3>8, <4>1 DEF Stacked
      <4> QED
        BY <3>1, <3>3, <4>2 DEF Made
    <3> QED
      BY <3>4, <3>6, <3>7, <3>8 DEF Stacked, Made, Top
  <2> QED
    BY <1>2, <2>1, <2>2 DEF Commits
<1> QED
  BY <1>1, <1>2, Cases, QuietSteps, IdleSteps

\* Every change sets the origin that it leaves in force.
LEMMA HonestStep == IInv /\ [Next]_vars => HonestThroughout'
<1> SUFFICES ASSUME IInv, [Next]_vars PROVE HonestThroughout'
  OBVIOUS
<1>1. CASE RowsStay
  BY <1>1, EditsQuiet DEF IInv
<1>2. ASSUME NEW r \in Requests, Commits(r) PROVE HonestThroughout'
  <2> DEFINE c == change[r]
  <2>0. /\ HonestThroughout /\ edits \in Seq(Edit) /\ Len(edits) \in Nat
        /\ DOMAIN edits = 1..Len(edits) /\ panels \in [Panels -> Snapshot]
        /\ c.panel \in Panels /\ panels' = [panels EXCEPT ![c.panel] = c.to]
        /\ Fits(c) /\ c.to \in Snapshot
    BY <1>2 DEF IInv, TypeOK, Commits, Fits, Change
  <2>1. CASE Logs(c)
    <3>1. \A i \in InForce : i \in DOMAIN edits /\ i \in Nat /\ i < NewSeq
      BY <2>0, <2>1 DEF InForce, Logs
    <3>2. \A i \in InForce : edits'[i] = edits[i] /\ past'[i] = past[i]
      BY <2>1, <3>1 DEF Logs
    <3>3. \A i \in InForce : {j \in InForce' : j < i} = {j \in InForce : j < i}
      BY <2>1, <3>1 DEF Logs
    <3>4. {j \in InForce' : j < NewSeq} = InForce
      BY <2>0, <2>1, <3>1 DEF Logs, NewSeq
    <3>5. ASSUME NEW seqs \in SUBSET InForce, NEW page
          PROVE  HonestAfter(edits', seqs, page) <=> HonestAfter(edits, seqs, page)
      BY <3>2 DEF HonestAfter, Done
    <3>6. ASSUME NEW i \in InForce'
          PROVE  HonestAfter(edits', {j \in InForce' : j < i}, past'[i])
      <4>1. CASE i \in InForce
        <5>1. HonestAfter(edits, {j \in InForce : j < i}, past[i])
          BY <2>0, <4>1 DEF HonestThroughout
        <5>2. HonestAfter(edits', {j \in InForce : j < i}, past[i])
          BY <3>5, <5>1
        <5> QED
          BY <3>2, <3>3, <4>1, <5>2
      <4>2. CASE i = NewSeq
        <5>1. HonestAfter(edits', InForce, panels)
          BY <2>0, <3>5 DEF HonestThroughout
        <5>2. past'[i] = panels /\ {j \in InForce' : j < i} = InForce
          BY <2>1, <3>4, <4>2 DEF Logs
        <5> QED
          BY <5>1, <5>2
      <4> QED
        BY <2>1, <4>1, <4>2 DEF Logs
    <3>7. HonestAfter(edits', InForce', panels')
      <4> DEFINE was(a) == Done(edits, InForce, c.panel, a)
                 is(a) == Done(edits', InForce', c.panel, a)
      <4>1. ASSUME NEW p \in Panels \ {c.panel}, NEW a
            PROVE  Done(edits', InForce', p, a) <=> Done(edits, InForce, p, a)
        BY <2>1, <3>2 DEF Logs, Done
      <4>2. \A a : is(a) <=> was(a) \/ a = c.action
        BY <2>1, <3>2 DEF Logs, Done
      <4>3. c.to # Absent =>
              c.to.origin = IF is("CREATE") THEN "HUMAN"
                            ELSE IF is("UPDATE") THEN "AI_HUMAN_REVIEW" ELSE "AI"
        <5>1. ~Undoes(c)
          BY <2>0, <2>1 DEF Logs, Undoes, Top
        <5>2. CASE Draws(c)
          BY <4>2, <5>2 DEF Draws
        <5>3. CASE Moves(c)
          <6>1. panels[c.panel].origin = IF was("CREATE") THEN "HUMAN"
                                         ELSE IF was("UPDATE") THEN "AI_HUMAN_REVIEW" ELSE "AI"
            BY <2>0, <5>3 DEF Moves, Present, HonestThroughout, HonestAfter
          <6>2. (is("CREATE") <=> was("CREATE")) /\ is("UPDATE")
            BY <4>2, <5>3 DEF Moves
          <6> HIDE DEF is, was
          <6> QED
            BY <5>3, <6>1, <6>2 DEF Moves
        <5>4. CASE Discards(c)
          BY <5>4 DEF Discards
        <5> QED
          BY <2>0, <5>1, <5>2, <5>3, <5>4 DEF Fits
      <4>4. ASSUME NEW p \in Panels, panels'[p] # Absent
            PROVE  panels'[p].origin = IF Done(edits', InForce', p, "CREATE") THEN "HUMAN"
                             ELSE IF Done(edits', InForce', p, "UPDATE") THEN "AI_HUMAN_REVIEW"
                             ELSE "AI"
        <5>1. CASE p = c.panel
          BY <2>0, <4>3, <4>4, <5>1
        <5>2. CASE p # c.panel
          <6>1. panels'[p] = panels[p]
            BY <2>0, <5>2
          <6> QED
            BY <2>0, <4>1, <4>4, <5>2, <6>1 DEF HonestThroughout, HonestAfter
        <5> QED
          BY <5>1, <5>2
      <4> QED
        BY <4>4 DEF HonestAfter
    <3> QED
      BY <3>6, <3>7 DEF HonestThroughout
  <2>2. CASE Marks(c)
    <3>1. /\ c.seq \in InForce /\ InForce' = InForce \ {c.seq}
          /\ \A j \in InForce : j <= c.seq
      BY <2>2 DEF Marks, Undoes, Top
    <3>2. \A i \in InForce : i \in DOMAIN edits /\ i \in Nat
      BY <2>0 DEF InForce
    <3>3. \A i \in InForce : /\ edits'[i].panel = edits[i].panel
                             /\ edits'[i].action = edits[i].action /\ past'[i] = past[i]
      BY <2>2, <3>2 DEF Marks
    <3>4. ASSUME NEW seqs \in SUBSET InForce, NEW page
          PROVE  HonestAfter(edits', seqs, page) <=> HonestAfter(edits, seqs, page)
      BY <3>3 DEF HonestAfter, Done
    <3>5. panels' = past[c.seq]
      BY <1>2, <2>2, UndoGoesBack DEF IInv
    <3>6. InForce' = {j \in InForce : j < c.seq}
      BY <3>1, <3>2
    <3>7. HonestAfter(edits', InForce', panels')
      <4>1. HonestAfter(edits, {j \in InForce : j < c.seq}, past[c.seq])
        BY <2>0, <3>1 DEF HonestThroughout
      <4>2. HonestAfter(edits', {j \in InForce : j < c.seq}, past[c.seq])
        BY <3>4, <4>1
      <4> QED
        BY <3>5, <3>6, <4>2
    <3>8. ASSUME NEW i \in InForce'
          PROVE  HonestAfter(edits', {j \in InForce' : j < i}, past'[i])
      <4>1. i \in InForce /\ {j \in InForce' : j < i} = {j \in InForce : j < i}
        BY <3>1, <3>2
      <4>2. HonestAfter(edits, {j \in InForce : j < i}, past[i])
        BY <2>0, <4>1 DEF HonestThroughout
      <4>3. HonestAfter(edits', {j \in InForce : j < i}, past[i])
        BY <3>4, <4>2
      <4> QED
        BY <3>3, <4>1, <4>3
    <3> QED
      BY <3>7, <3>8 DEF HonestThroughout
  <2> QED
    BY <1>2, <2>1, <2>2 DEF Commits
<1> QED
  BY <1>1, <1>2, Cases, QuietSteps, IdleSteps

----------------------------------------------------------------------------
(* Changes in work, and what is left of finished ones. *)

\* What fits keeps fitting until the rows change.
LEMMA FitsQuiet ==
  ASSUME RowsStay, NEW r \in Requests,
         change'[r] = change[r], stale'[r] = stale[r],
         Fits(change[r]), stale[r] = StaleOf(change[r])
  PROVE  Fits(change[r])' /\ stale'[r] = StaleOf(change[r])'
<1>1. UNCHANGED <<panels, finds, edits>> /\ InForce' = InForce
  BY DEF RowsStay, rows, InForce
<1>2. Fits(change[r])'
  BY <1>1 DEF Fits, Draws, Moves, Discards, Undoes, Top, NewSeq, Present
<1>3. stale'[r] = StaleOf(change[r])'
  BY <1>1 DEF StaleOf, Present
<1> QED
  BY <1>2, <1>3

LEMMA ChangesFitStep == IInv /\ [Next]_vars => ChangesFit'
<1> SUFFICES ASSUME IInv, [Next]_vars PROVE ChangesFit'
  OBVIOUS
<1>0. TypeOK /\ Exclusive /\ ChangesFit /\ Nobody \notin Requests
  BY MarkersAssumption DEF IInv
<1>1. CASE vars' = vars
  <2>1. RowsStay /\ pc' = pc /\ change' = change /\ stale' = stale
    BY <1>1, IdleSteps DEF vars, request
  <2> QED
    BY <1>0, <2>1, FitsQuiet DEF ChangesFit
\* The requests that go on are those that have flushed before.
<1>2. ASSUME NEW r \in Requests, RowsStay,
             \A q \in Requests \ {r} : pc'[q] = pc[q] /\ change'[q] = change[q] /\ stale'[q] = stale[q],
             pc'[r] \in {"flushed", "written"} =>
               pc[r] \in {"flushed", "written"} /\ change'[r] = change[r] /\ stale'[r] = stale[r]
      PROVE  ChangesFit'
  BY <1>0, <1>2, FitsQuiet DEF ChangesFit
<1>3. ASSUME NEW r \in Requests, Begin(r) PROVE ChangesFit'
  <2>1. RowsStay
    BY <1>3, QuietSteps
  <2> QED
    BY <1>0, <1>2, <1>3, <2>1 DEF Begin, TypeOK
<1>4. ASSUME NEW r \in Requests, Refuse(r) \/ Crash(r) PROVE ChangesFit'
  <2>1. RowsStay /\ EndRequest(r)
    BY <1>4, QuietSteps DEF Refuse, Crash
  <2> QED
    BY <1>0, <1>2, <2>1, EndEffect
<1>5. ASSUME NEW r \in Requests, StorePicture(r) PROVE ChangesFit'
  <2>1. RowsStay
    BY <1>5, QuietSteps
  <2> QED
    BY <1>0, <1>2, <1>5, <2>1 DEF StorePicture, TypeOK
<1>6. ASSUME NEW r \in Requests, RemoveStale(r) PROVE ChangesFit'
  <2>1. RowsStay
    BY <1>6, QuietSteps
  <2>2. CASE EndRequest(r)
    BY <1>0, <1>2, <2>1, <2>2, EndEffect
  <2>3. CASE stale' = [stale EXCEPT ![r] = {"finds"}] /\ UNCHANGED <<pc, change>>
    BY <1>0, <1>2, <1>6, <2>1, <2>3 DEF RemoveStale, TypeOK
  <2> QED
    BY <1>6, <2>2, <2>3 DEF RemoveStale
<1>7. ASSUME NEW r \in Requests, NEW c \in Change, Fits(c), Flushes(r, c) PROVE ChangesFit'
  <2>1. RowsStay
    BY <1>7, QuietSteps
  <2>2. \A q \in Requests \ {r} : pc'[q] \notin {"flushed", "written"}
    BY <1>0, <1>7 DEF Flushes, TypeOK, Exclusive
  <2>3. change'[r] = c /\ stale'[r] = StaleOf(c)
    BY <1>0, <1>7 DEF Flushes, TypeOK
  <2>4. UNCHANGED <<panels, finds, edits>> /\ InForce' = InForce
    BY <2>1 DEF RowsStay, rows, InForce
  <2>5. Fits(change[r])'
    BY <1>7, <2>3, <2>4 DEF Fits, Draws, Moves, Discards, Undoes, Top, NewSeq, Present
  <2>6. stale'[r] = StaleOf(change[r])'
    BY <2>3, <2>4 DEF StaleOf, Present
  <2> QED
    BY <2>2, <2>5, <2>6 DEF ChangesFit
<1>8. ASSUME NEW r \in Requests, Commits(r) PROVE ChangesFit'
  <2>1. \A q \in Requests \ {r} : pc[q] \notin {"flushed", "written"}
    BY <1>0, <1>8 DEF Commits, Exclusive
  <2>2. pc'[r] \notin {"flushed", "written"} /\ \A q \in Requests \ {r} : pc'[q] = pc[q]
    BY <1>0, <1>8, EndEffect DEF Commits, TypeOK
  <2> QED
    BY <2>1, <2>2 DEF ChangesFit
<1> QED
  BY <1>1, <1>3, <1>4, <1>5, <1>6, <1>7, <1>8, Cases

LEMMA RemovesUnusedStep == IInv /\ [Next]_vars => RemovesUnused'
<1> SUFFICES ASSUME IInv, [Next]_vars PROVE RemovesUnused'
  OBVIOUS
<1>0. TypeOK /\ RemovesUnused
  BY DEF IInv
<1>1. CASE vars' = vars
  BY <1>0, <1>1 DEF vars, rows, request, RemovesUnused
\* The requests that remove files are those that have done so before.
<1>2. ASSUME NEW r \in Requests, RowsStay,
             \A q \in Requests \ {r} : pc'[q] = pc[q] /\ change'[q] = change[q] /\ stale'[q] = stale[q],
             pc'[r] # "removing"
      PROVE  RemovesUnused'
  BY <1>0, <1>2 DEF RowsStay, rows, RemovesUnused
<1>3. ASSUME NEW r \in Requests, Begin(r) PROVE RemovesUnused'
  <2>1. RowsStay
    BY <1>3, QuietSteps
  <2> QED
    BY <1>0, <1>2, <1>3, <2>1 DEF Begin, TypeOK
<1>4. ASSUME NEW r \in Requests, Refuse(r) \/ Crash(r) PROVE RemovesUnused'
  <2>1. RowsStay /\ EndRequest(r)
    BY <1>4, QuietSteps DEF Refuse, Crash
  <2> QED
    BY <1>0, <1>2, <2>1, EndEffect
<1>5. ASSUME NEW r \in Requests, StorePicture(r) PROVE RemovesUnused'
  <2>1. RowsStay
    BY <1>5, QuietSteps
  <2> QED
    BY <1>0, <1>2, <1>5, <2>1 DEF StorePicture, TypeOK
<1>6. ASSUME NEW r \in Requests, RemoveStale(r) PROVE RemovesUnused'
  <2>1. RowsStay
    BY <1>6, QuietSteps
  <2>2. CASE EndRequest(r)
    BY <1>0, <1>2, <2>1, <2>2, EndEffect
  <2>3. CASE stale' = [stale EXCEPT ![r] = {"finds"}] /\ UNCHANGED <<pc, change>>
    BY <1>0, <2>1, <2>3 DEF RowsStay, rows, RemovesUnused, TypeOK
  <2> QED
    BY <1>6, <2>2, <2>3 DEF RemoveStale
<1>7. ASSUME NEW r \in Requests, NEW c \in Change, Flushes(r, c) PROVE RemovesUnused'
  <2>1. RowsStay
    BY <1>7, QuietSteps
  <2> QED
    BY <1>0, <1>2, <1>7, <2>1 DEF Flushes, TypeOK
<1>8. ASSUME NEW r \in Requests, Commits(r) PROVE RemovesUnused'
  <2>1. change[r].panel \in Panels /\ finds' = [finds EXCEPT ![change[r].panel] = NoBox]
    BY <1>8 DEF Commits, Fits
  <2>2. ASSUME NEW q \in Requests \ {r}, pc'[q] = "removing"
        PROVE  change'[q].panel \in Panels /\ finds'[change'[q].panel] = NoBox /\ stale'[q] # {}
    <3>1. pc[q] = "removing" /\ change'[q] = change[q] /\ stale'[q] = stale[q]
      BY <1>0, <1>8, <2>2, EndEffect DEF Commits, TypeOK
    <3> QED
      BY <1>0, <2>1, <3>1 DEF RemovesUnused, TypeOK
  <2>3. ASSUME pc'[r] = "removing"
        PROVE  change'[r].panel \in Panels /\ finds'[change'[r].panel] = NoBox /\ stale'[r] # {}
    <3>1. ~EndRequest(r)
      BY <1>0, <2>3, EndEffect
    <3>2. change' = change /\ stale' = stale /\ stale[r] # {}
      BY <1>8, <3>1 DEF Commits
    <3> QED
      BY <1>0, <2>1, <3>2 DEF TypeOK
  <2> QED
    BY <2>2, <2>3 DEF RemovesUnused
<1> QED
  BY <1>1, <1>3, <1>4, <1>5, <1>6, <1>7, <1>8, Cases

\* A panel's products are only removed of a row that forgot them.
LEMMA FindsBelongStep == IInv /\ [Next]_vars => FindsBelong'
<1> SUFFICES ASSUME IInv, [Next]_vars PROVE FindsBelong'
  OBVIOUS
<1>0. TypeOK /\ FindsBelong /\ RemovesUnused
  BY DEF IInv
<1>1. ASSUME RowsStay, findFiles' = findFiles PROVE FindsBelong'
  BY <1>0, <1>1 DEF RowsStay, rows, FindsBelong
<1>2. CASE vars' = vars
  BY <1>1, <1>2, IdleSteps DEF vars, files
<1>3. ASSUME NEW r \in Requests,
             \/ Begin(r) \/ Refuse(r) \/ StorePicture(r) \/ Crash(r)
             \/ \E c \in Change : Flushes(r, c)
      PROVE  FindsBelong'
  <2>1. RowsStay
    BY <1>3, QuietSteps
  <2>2. findFiles' = findFiles
    BY <1>3 DEF Begin, Refuse, StorePicture, Crash, Flushes, files
  <2> QED
    BY <1>1, <2>1, <2>2
<1>4. ASSUME NEW r \in Requests, RemoveStale(r) PROVE FindsBelong'
  <2>1. RowsStay
    BY <1>4, QuietSteps
  <2>2. finds[change[r].panel] = NoBox /\ findFiles \ {change[r].panel} \subseteq findFiles'
    BY <1>0, <1>4 DEF RemoveStale, RemovesUnused
  <2> QED
    BY <1>0, <2>1, <2>2 DEF RowsStay, rows, FindsBelong
<1>5. ASSUME NEW r \in Requests, Commits(r) PROVE FindsBelong'
  <2>1. /\ change[r].panel \in Panels
        /\ panels' = [panels EXCEPT ![change[r].panel] = change[r].to]
        /\ finds' = [finds EXCEPT ![change[r].panel] = NoBox] /\ findFiles' = findFiles
    BY <1>5 DEF Commits, Fits, files
  <2> QED
    BY <1>0, <2>1 DEF FindsBelong, TypeOK
<1> QED
  BY <1>2, <1>3, <1>4, <1>5, Cases

----------------------------------------------------------------------------
(* Files. *)

\* As long as nothing has set files and rows apart, requests with work come one at a time.
LEMMA OneAtWork ==
  ASSUME IInv, trouble = {}, NEW r \in Requests, pc[r] # "idle", NEW q \in Requests \ {r}
  PROVE  pc[q] = "idle"
<1>0. TypeOK /\ Exclusive /\ RemovesAlone
  BY DEF IInv, FilesFollow
<1>1. CASE pc[r] = "removing"
  BY <1>0, <1>1 DEF RemovesAlone
<1>2. CASE pc[r] # "removing"
  <2>1. lock = r /\ lock # q
    BY <1>0, <1>2 DEF TypeOK, Exclusive
  <2> QED
    BY <1>0, <1>2, <2>1 DEF TypeOK, Exclusive, RemovesAlone
<1> QED
  BY <1>1, <1>2

\* Before the first file is written, files and rows match.
LEMMA MatchBefore ==
  ASSUME IInv, trouble = {}, \A r \in Requests : pc[r] \notin {"written", "removing"}
  PROVE  /\ \A p \in Panels : picture[p] = panels[p].box
         /\ \A p \in findFiles : finds[p] # NoBox
BY DEF IInv, FilesFollow, PicturesFollow, FindFilesFollow

LEMMA FilesFollowStep == IInv /\ [Next]_vars => FilesFollow'
<1> SUFFICES ASSUME IInv, [Next]_vars, trouble' = {}
             PROVE  (RemovesAlone /\ StoredFirst /\ PicturesFollow /\ FindFilesFollow)'
  BY DEF FilesFollow
<1> DEFINE Goal == (RemovesAlone /\ StoredFirst /\ PicturesFollow /\ FindFilesFollow)'
<1> HIDE DEF Goal
<1>0. TypeOK /\ Exclusive /\ ChangesFit /\ RemovesUnused /\ Absent.box = NoBox
  BY DEF IInv, Absent
\* All that is needed of the requests when none is at work.
<1>1. ASSUME \A q \in Requests : pc'[q] \notin {"flushed", "written", "removing"},
             \A p \in Panels : picture'[p] = panels'[p].box,
             \A p \in findFiles' : finds'[p] # NoBox
      PROVE  Goal
  BY <1>1 DEF Goal, RemovesAlone, StoredFirst, PicturesFollow, FindFilesFollow
\* And when r alone is.
<1>2. ASSUME NEW r \in Requests, trouble = {}, pc[r] # "idle",
             \A q \in Requests \ {r} : pc'[q] = pc[q]
      PROVE  \A q \in Requests \ {r} : pc[q] = "idle" /\ pc'[q] = "idle"
  BY <1>2, OneAtWork
<1>3. ASSUME vars' = vars PROVE Goal
  <2>1. UNCHANGED <<rows, files, request>> /\ trouble = {}
    BY <1>3 DEF vars
  <2>2. RemovesAlone /\ StoredFirst /\ PicturesFollow /\ FindFilesFollow
    BY <2>1 DEF IInv, FilesFollow
  <2> QED
    BY <2>1, <2>2 DEF Goal, rows, files, request, RemovesAlone, StoredFirst, PicturesFollow,
       FindFilesFollow
<1>4. ASSUME NEW r \in Requests, Begin(r) PROVE Goal
  <2>1. trouble = {} /\ UNCHANGED <<panels, finds, picture, findFiles>>
        /\ \A q \in Requests : pc[q] # "removing"
    BY <1>4 DEF Begin, rows, files
  <2>2. \A q \in Requests : pc[q] \notin {"flushed", "written"}
    BY <1>0, <1>4, MarkersAssumption DEF Begin, Exclusive
  <2>3. \A q \in Requests : pc'[q] \notin {"flushed", "written", "removing"}
    BY <1>0, <1>4, <2>1, <2>2 DEF Begin, TypeOK
  <2> QED
    BY <1>1, <2>1, <2>2, <2>3, MatchBefore
<1>5. ASSUME NEW r \in Requests, Refuse(r) \/ Crash(r) PROVE Goal
  <2>1. /\ trouble = {} /\ UNCHANGED <<panels, finds, picture, findFiles>>
        /\ EndRequest(r) /\ pc[r] \notin {"idle", "written", "removing"}
    BY <1>5 DEF Refuse, Crash, rows, files
  <2>2. pc'[r] = "idle" /\ \A q \in Requests \ {r} : pc'[q] = pc[q]
    BY <1>0, <2>1, EndEffect
  <2>3. \A q \in Requests \ {r} : pc[q] = "idle" /\ pc'[q] = "idle"
    BY <1>2, <2>1, <2>2
  <2>4. \A q \in Requests : /\ pc[q] \notin {"written", "removing"}
                            /\ pc'[q] \notin {"flushed", "written", "removing"}
    BY <2>1, <2>2, <2>3
  <2> QED
    BY <1>1, <2>1, <2>4, MatchBefore
<1>6. ASSUME NEW r \in Requests, NEW c \in Change, Fits(c), Flushes(r, c) PROVE Goal
  <2>1. trouble = {} /\ UNCHANGED <<panels, finds, picture, findFiles>> /\ pc[r] = "editing"
    BY <1>6 DEF Flushes, rows, files
  <2>2. /\ pc'[r] = IF c.to \in {Absent, panels[c.panel]} THEN "written" ELSE "flushed"
        /\ change'[r] = c /\ c.panel \in Panels
        /\ \A q \in Requests \ {r} : pc'[q] = pc[q]
    BY <1>0, <1>6 DEF Flushes, Fits, TypeOK
  <2>3. \A q \in Requests \ {r} : pc[q] = "idle" /\ pc'[q] = "idle"
    BY <1>2, <2>1, <2>2
  <2>4. \A q \in Requests : pc[q] \notin {"written", "removing"} /\ pc'[q] # "removing"
    BY <2>1, <2>2, <2>3
  <2>5. /\ \A p \in Panels : picture'[p] = panels'[p].box
        /\ \A p \in findFiles' : finds'[p] # NoBox
    BY <2>1, <2>4, MatchBefore
  <2>6. RemovesAlone' /\ PicturesFollow' /\ FindFilesFollow'
    BY <2>4, <2>5 DEF RemovesAlone, PicturesFollow, FindFilesFollow
  <2>7. StoredFirst'
    BY <2>1, <2>2, <2>3, <2>5 DEF StoredFirst
  <2> QED
    BY <2>6, <2>7 DEF Goal
<1>7. ASSUME NEW r \in Requests, StorePicture(r) PROVE Goal
  <2> DEFINE c == change[r]
  <2>1. /\ trouble = {} /\ UNCHANGED <<panels, finds, findFiles, change, stale>>
        /\ pc[r] = "flushed" /\ pc'[r] = "written"
        /\ picture' = [picture EXCEPT ![c.panel] = c.to.box]
        /\ \A q \in Requests \ {r} : pc'[q] = pc[q]
    BY <1>0, <1>7 DEF StorePicture, rows, TypeOK
  <2>2. c.to # Absent /\ c.panel \in Panels
    BY <1>0, <2>1 DEF IInv, FilesFollow, StoredFirst, ChangesFit, Fits
  <2>3. \A q \in Requests \ {r} : pc[q] = "idle" /\ pc'[q] = "idle"
    BY <1>2, <2>1
  <2>4. \A q \in Requests : pc[q] \notin {"written", "removing"} /\ pc'[q] # "removing"
    BY <2>1, <2>3
  <2>5. /\ \A p \in Panels : picture[p] = panels[p].box
        /\ \A p \in findFiles : finds[p] # NoBox
    BY <2>1, <2>4, MatchBefore
  <2>6. picture'[c.panel] = c.to.box /\ \A p \in Panels \ {c.panel} : picture'[p] = panels[p].box
    BY <1>0, <2>1, <2>2, <2>5 DEF TypeOK
  <2>7. RemovesAlone' /\ FindFilesFollow'
    BY <2>1, <2>4, <2>5 DEF RemovesAlone, FindFilesFollow
  <2>8. StoredFirst'
    BY <2>1, <2>3, <2>6 DEF StoredFirst
  <2>9. PicturesFollow'
    BY <2>1, <2>2, <2>6 DEF PicturesFollow
  <2> QED
    BY <2>7, <2>8, <2>9 DEF Goal
<1>8. ASSUME NEW r \in Requests, Commits(r) PROVE Goal
  <2> DEFINE c == change[r]
  <2>1. /\ trouble = {} /\ UNCHANGED <<picture, findFiles>> /\ pc[r] = "written"
        /\ c.panel \in Panels /\ stale[r] = StaleOf(c)
        /\ panels' = [panels EXCEPT ![c.panel] = c.to]
        /\ finds' = [finds EXCEPT ![c.panel] = NoBox]
    BY <1>8 DEF Commits, Fits, files
  <2>2. \A q \in Requests \ {r} : pc'[q] = pc[q]
    BY <1>0, <1>8, EndEffect DEF Commits, TypeOK
  <2>3. \A q \in Requests \ {r} : pc[q] = "idle" /\ pc'[q] = "idle"
    BY <1>2, <2>1, <2>2
  <2>4. /\ panels'[c.panel] = c.to /\ finds'[c.panel] = NoBox
        /\ \A p \in Panels \ {c.panel} : panels'[p] = panels[p] /\ finds'[p] = finds[p]
    BY <1>0, <2>1 DEF TypeOK
  <2>5. c.to # Absent => picture[c.panel] = c.to.box
    BY <2>1 DEF IInv, FilesFollow, StoredFirst
  <2>6. \A p \in Panels : p # c.panel \/ c.to = Absent => picture[p] = panels[p].box
    BY <2>1, <2>3 DEF IInv, FilesFollow, PicturesFollow
  <2>7. \A p \in findFiles : finds[p] # NoBox
    BY <2>1, <2>3 DEF IInv, FilesFollow, FindFilesFollow
  <2>8. CASE stale[r] = {}
    <3>1. pc'[r] = "idle"
      BY <1>0, <1>8, <2>8, EndEffect DEF Commits
    <3>2. finds[c.panel] = NoBox /\ (c.to = Absent => panels[c.panel] = Absent)
      BY <2>1, <2>8 DEF StaleOf, Present
    <3>3. \A p \in Panels : picture'[p] = panels'[p].box
      BY <2>1, <2>4, <2>5, <2>6, <3>2
    <3>4. \A p \in findFiles' : finds'[p] # NoBox
      BY <1>0, <2>1, <2>4, <2>7, <3>2 DEF TypeOK
    <3> QED
      BY <1>1, <2>3, <3>1, <3>3, <3>4
  <2>9. CASE stale[r] # {}
    <3>1. pc'[r] = "removing" /\ change'[r] = c /\ stale'[r] = StaleOf(c)
      BY <1>0, <1>8, <2>1, <2>9 DEF Commits, TypeOK
    <3>2. "picture" \in stale'[r] <=> c.to = Absent /\ panels[c.panel] # Absent
      BY <3>1 DEF StaleOf, Present
    <3>3. "finds" \in stale'[r] <=> finds[c.panel] # NoBox
      BY <3>1 DEF StaleOf
    <3>4. RemovesAlone'
      BY <2>3, <2>4, <3>1, <3>2 DEF RemovesAlone
    <3>5. StoredFirst'
      BY <2>3, <3>1 DEF StoredFirst
    <3>6. PicturesFollow'
      <4>1. ASSUME NEW p \in Panels, p # c.panel PROVE picture'[p] = panels'[p].box
        BY <2>1, <2>4, <2>6, <4>1
      <4>2. CASE c.to = Absent /\ panels[c.panel] # Absent
        BY <3>1, <3>2, <4>1, <4>2 DEF PicturesFollow
      <4>3. CASE ~(c.to = Absent /\ panels[c.panel] # Absent)
        <5>1. picture'[c.panel] = panels'[c.panel].box
          BY <2>1, <2>4, <2>5, <2>6, <4>3
        <5> QED
          BY <4>1, <5>1 DEF PicturesFollow
      <4> QED
        BY <4>2, <4>3
    <3>7. FindFilesFollow'
      <4>1. \A p \in findFiles' : p # c.panel => finds'[p] # NoBox
        BY <1>0, <2>1, <2>4, <2>7 DEF TypeOK
      <4>2. c.panel \in findFiles' => "finds" \in stale'[r]
        BY <2>1, <2>7, <3>3
      <4> QED
        BY <3>1, <4>1, <4>2 DEF FindFilesFollow
    <3> QED
      BY <3>4, <3>5, <3>6, <3>7 DEF Goal
  <2> QED
    BY <2>8, <2>9
<1>9. ASSUME NEW r \in Requests, RemoveStale(r) PROVE Goal
  <2> DEFINE c == change[r]
  <2>1. /\ trouble = {} /\ UNCHANGED <<panels, finds>> /\ pc[r] = "removing"
        /\ c.panel \in Panels /\ stale[r] # {}
    BY <1>0, <1>9 DEF RemoveStale, rows, RemovesUnused
  <2>2. \A q \in Requests \ {r} : pc'[q] = pc[q]
    BY <1>0, <1>9, EndEffect DEF RemoveStale, TypeOK
  <2>3. \A q \in Requests \ {r} : pc[q] = "idle" /\ pc'[q] = "idle"
    BY <1>2, <2>1, <2>2
  <2>4. \A p \in Panels : p # c.panel \/ "picture" \notin stale[r] => picture[p] = panels[p].box
    BY <2>1, <2>3 DEF IInv, FilesFollow, PicturesFollow
  <2>5. \A p \in findFiles : p # c.panel \/ "finds" \notin stale[r] => finds[p] # NoBox
    BY <2>1, <2>3 DEF IInv, FilesFollow, FindFilesFollow
  <2>6. "picture" \in stale[r] => panels[c.panel] = Absent
    BY <2>1 DEF IInv, FilesFollow, RemovesAlone
  <2>7. \A p \in Panels : picture'[p] = panels'[p].box
    <3>1. CASE "picture" \in stale[r]
      <4>1. picture' = [picture EXCEPT ![c.panel] = NoBox]
        BY <1>9, <3>1 DEF RemoveStale
      <4> QED
        BY <1>0, <2>1, <2>4, <2>6, <3>1, <4>1 DEF TypeOK
    <3>2. CASE "picture" \notin stale[r]
      BY <1>9, <2>1, <2>4, <3>2 DEF RemoveStale
    <3> QED
      BY <3>1, <3>2
  <2>8. CASE "picture" \in stale[r] /\ "finds" \in stale[r]
    <3>1. /\ pc'[r] = "removing" /\ change'[r] = c /\ stale'[r] = {"finds"}
          /\ findFiles' = findFiles
      BY <1>0, <1>9, <2>1, <2>8 DEF RemoveStale, TypeOK
    <3>2. RemovesAlone' /\ StoredFirst' /\ PicturesFollow'
      BY <2>3, <2>7, <3>1 DEF RemovesAlone, StoredFirst, PicturesFollow
    <3>3. FindFilesFollow'
      BY <2>1, <2>5, <3>1 DEF FindFilesFollow
    <3> QED
      BY <3>2, <3>3 DEF Goal
  <2>9. CASE ~("picture" \in stale[r] /\ "finds" \in stale[r])
    <3>1. pc'[r] = "idle"
      <4>1. EndRequest(r)
        BY <1>9, <2>9 DEF RemoveStale
      <4> QED
        BY <1>0, <4>1, EndEffect
    <3>2. \A p \in findFiles' : finds'[p] # NoBox
      <4>1. CASE "picture" \in stale[r]
        BY <1>9, <2>1, <2>5, <2>9, <4>1 DEF RemoveStale
      <4>2. CASE "picture" \notin stale[r]
        BY <1>9, <2>1, <2>5, <4>2 DEF RemoveStale
      <4> QED
        BY <4>1, <4>2
    <3> QED
      BY <1>1, <2>3, <2>7, <3>1, <3>2
  <2> QED
    BY <2>8, <2>9
<1>10. Goal
  BY <1>3, <1>4, <1>5, <1>6, <1>7, <1>8, <1>9, Cases
<1> QED
  BY <1>10 DEF Goal

----------------------------------------------------------------------------
(* The theorems. *)

LEMMA InitInvariant == Init => IInv
<1> SUFFICES ASSUME Init PROVE IInv
  OBVIOUS
<1>1. TypeOK
  BY TypeInit
<1>2. /\ \A r \in Requests : pc[r] = "idle" /\ lock # r
      /\ edits = <<>> /\ past = <<>> /\ InForce = {}
  BY MarkersAssumption DEF Init, InForce
<1>3. \A p \in Panels : panels[p] # Absent => panels[p].origin = "AI"
  <2>1. ASSUME NEW p \in Panels, panels[p] # Absent PROVE panels[p].origin = "AI"
    <3>1. panels[p] \in [box : Boxes, origin : {"AI"}]
      BY <2>1 DEF Init
    <3> QED
      BY <3>1
  <2> QED
    BY <2>1
<1>4. Exclusive /\ EditShape /\ Stacked /\ ChangesFit /\ RemovesUnused
  BY <1>2 DEF Exclusive, EditShape, Stacked, ChangesFit, RemovesUnused
<1>5. HonestThroughout
  BY <1>2, <1>3 DEF HonestThroughout, HonestAfter, Done
<1>6. FindsBelong
  BY DEF Init, FindsBelong
<1>7. \A p \in findFiles : finds[p] # NoBox
  <2>1. ASSUME NEW p \in findFiles PROVE finds[p] # NoBox
    <3>1. p \in Panels /\ panels[p] # Absent /\ finds[p] = panels[p].box
      BY DEF Init, Present
    <3> QED
      BY <1>1, <3>1, AbsentApart DEF TypeOK
  <2> QED
    BY <2>1
<1>8. \A p \in Panels : picture[p] = panels[p].box
  BY DEF Init
<1>9. FilesFollow
  BY <1>2, <1>7, <1>8 DEF FilesFollow, RemovesAlone, StoredFirst, PicturesFollow,
     FindFilesFollow
<1> QED
  BY <1>1, <1>4, <1>5, <1>6, <1>9 DEF IInv

THEOREM Invariance == Spec => []IInv
<1>1. IInv /\ [Next]_vars => IInv'
  BY TypeStep, ExclusiveStep, EditShapeStep, StackedStep, HonestStep, ChangesFitStep,
     RemovesUnusedStep, FindsBelongStep, FilesFollowStep DEF IInv
<1> QED
  BY <1>1, InitInvariant, PTL DEF Spec

(* Rows, edits, files and requests are of the sorts that the module gives them.  *)
THEOREM TypeCorrect == Spec => []TypeOK
<1>1. IInv => TypeOK
  BY DEF IInv
<1> QED
  BY <1>1, Invariance, PTL

(* A panel's origin tells whose work it is, whatever was changed and undone by   *)
(* however many admins (panel_edits.py).                                         *)
THEOREM OriginsAreHonest == Spec => []OriginIsHonest
<1>1. IInv => OriginIsHonest
  BY DEF IInv, HonestThroughout, HonestAfter, Done, OriginIsHonest, Present
<1> QED
  BY <1>1, Invariance, PTL

(* No panel shows products that were found in another box of it, and no row     *)
(* refers to a file that is gone, wherever a request is cut off.                 *)
THEOREM FindsStayTrue == Spec => []FindsBelong
<1>1. IInv => FindsBelong
  BY DEF IInv
<1> QED
  BY <1>1, Invariance, PTL

(* Without crashes and overtaking, files and rows match whenever nobody is at    *)
(* work.                                                                         *)
THEOREM FilesMatch == Spec => []FilesAreThose
<1>1. ASSUME IInv, trouble = {}, \A r \in Requests : pc[r] = "idle"
      PROVE  /\ picture = [p \in Panels |-> panels[p].box]
             /\ findFiles = {p \in Panels : finds[p] # NoBox}
  <2>1. TypeOK /\ FindsBelong
    BY <1>1 DEF IInv
  <2>2. /\ \A p \in Panels : picture[p] = panels[p].box
        /\ \A p \in findFiles : finds[p] # NoBox
    BY <1>1, MatchBefore
  <2> QED
    BY <2>1, <2>2 DEF TypeOK, FindsBelong
<1>2. IInv => FilesAreThose
  BY <1>1 DEF FilesAreThose
<1> QED
  BY <1>2, Invariance, PTL

----------------------------------------------------------------------------
(* The stack of the changes in force. *)

\* A later seq ranks after the others and leaves their ranks.
LEMMA RankedAfter ==
  ASSUME NEW seqs \in SUBSET Nat, IsFiniteSet(seqs), NEW m \in Nat, \A i \in seqs : i < m
  PROVE  /\ Cardinality(seqs \cup {m}) = Cardinality(seqs) + 1
         /\ Ranked(seqs \cup {m}, Cardinality(seqs) + 1) = {m}
         /\ \A k \in 1..Cardinality(seqs) : Ranked(seqs \cup {m}, k) = Ranked(seqs, k)
<1> DEFINE n == Cardinality(seqs)
           all == seqs \cup {m}
<1>1. m \notin seqs /\ n \in Nat
  BY FS_CardinalityType
<1>2. Cardinality(all) = n + 1
  BY <1>1, FS_AddElement
<1>3. {j \in all : j <= m} = all
  <2>1. \A j \in all : j <= m
    OBVIOUS
  <2> QED
    BY <2>1
<1>4. \A i \in seqs : {j \in all : j <= i} = {j \in seqs : j <= i}
  OBVIOUS
<1>5. ASSUME NEW i \in seqs PROVE Cardinality({j \in seqs : j <= i}) \in 0..n
  <2>1. {j \in seqs : j <= i} \in SUBSET seqs
    OBVIOUS
  <2>2. /\ Cardinality({j \in seqs : j <= i}) <= n
        /\ IsFiniteSet({j \in seqs : j <= i})
    BY <2>1, FS_Subset
  <2>3. Cardinality({j \in seqs : j <= i}) \in Nat
    BY <2>2, FS_CardinalityType
  <2> QED
    BY <1>1, <2>2, <2>3
<1>6. Ranked(all, n + 1) = {m}
  <2>1. m \in Ranked(all, n + 1)
    BY <1>2, <1>3 DEF Ranked
  <2>2. ASSUME NEW i \in seqs PROVE i \notin Ranked(all, n + 1)
    BY <1>1, <1>4, <1>5 DEF Ranked
  <2>3. Ranked(all, n + 1) \subseteq all
    BY DEF Ranked
  <2> QED
    BY <2>1, <2>2, <2>3
<1>7. ASSUME NEW k \in 1..n PROVE Ranked(all, k) = Ranked(seqs, k)
  <2>1. m \notin Ranked(all, k)
    BY <1>1, <1>2, <1>3 DEF Ranked
  <2>2. ASSUME NEW i \in seqs PROVE i \in Ranked(all, k) <=> i \in Ranked(seqs, k)
    BY <1>4 DEF Ranked
  <2>3. Ranked(all, k) \subseteq all /\ Ranked(seqs, k) \subseteq seqs
    BY DEF Ranked
  <2> QED
    BY <2>1, <2>2, <2>3
<1> QED
  BY <1>2, <1>6, <1>7

\* Every rank is some seq's.
LEMMA RankedAll ==
  ASSUME NEW seqs \in SUBSET Nat, IsFiniteSet(seqs), NEW k \in 1..Cardinality(seqs)
  PROVE  OnlyOf(Ranked(seqs, k)) \in seqs
<1> DEFINE n == Cardinality(seqs)
           below(i) == {j \in seqs : j <= i}
           rank == [i \in seqs |-> Cardinality(below(i))]
<1>1. n \in Nat /\ IsFiniteSet(1..n) /\ Cardinality(1..n) = n
  BY FS_CardinalityType, FS_Interval
<1>2. ASSUME NEW i \in seqs
      PROVE  IsFiniteSet(below(i)) /\ Cardinality(below(i)) \in 1..n
  <2>1. below(i) \in SUBSET seqs /\ i \in below(i)
    OBVIOUS
  <2>2. IsFiniteSet(below(i)) /\ Cardinality(below(i)) <= n
    BY <2>1, FS_Subset
  <2>3. Cardinality(below(i)) \in Nat /\ Cardinality(below(i)) # 0
    BY <2>1, <2>2, FS_CardinalityType, FS_EmptySet
  <2> QED
    BY <1>1, <2>2, <2>3
<1>3. ASSUME NEW i \in seqs, NEW j \in seqs, i < j
      PROVE  Cardinality(below(i)) # Cardinality(below(j))
  <2>1. below(i) \in SUBSET below(j) /\ j \in below(j) /\ j \notin below(i)
    <3>1. i \in Nat /\ j \in Nat /\ \A x \in seqs : x \in Nat
      OBVIOUS
    <3>2. \A x \in seqs : x <= i => x <= j
      BY <1>3, <3>1
    <3>3. j \in below(j)
      BY <3>1
    <3>4. j \notin below(i)
      BY <1>3, <3>1
    <3> QED
      BY <3>2, <3>3, <3>4
  <2>2. IsFiniteSet(below(j))
    BY <1>2
  <2> QED
    BY <2>1, <2>2, FS_Subset
<1>4. rank \in [seqs -> 1..n]
  BY <1>2
<1>5. \A i, j \in seqs : rank[i] = rank[j] => i = j
  <2>1. ASSUME NEW i \in seqs, NEW j \in seqs, rank[i] = rank[j], i # j PROVE FALSE
    <3>1. i < j \/ j < i
      BY <2>1
    <3> QED
      BY <1>3, <2>1, <3>1
  <2> QED
    BY <2>1
<1>6. rank \in Surjection(seqs, 1..n)
  <2>1. rank \in Injection(seqs, 1..n)
    BY <1>4, <1>5 DEF Injection, IsInjective
  <2> QED
    BY <1>1, <2>1, FS_Injection
<1>7. PICK i \in seqs : rank[i] = k
  BY <1>6 DEF Surjection
<1>8. i \in Ranked(seqs, k)
  BY <1>7 DEF Ranked
<1>9. OnlyOf(Ranked(seqs, k)) \in Ranked(seqs, k)
  BY <1>8 DEF OnlyOf
<1> QED
  BY <1>9 DEF Ranked

\* The edits in force are finitely many of the pages in past.
LEMMA InForceFinite ==
  ASSUME TypeOK, Stacked
  PROVE  /\ IsFiniteSet(InForce) /\ InForce \in SUBSET Nat
         /\ Cardinality(InForce) \in Nat /\ InForce \subseteq DOMAIN past
<1>1. /\ DOMAIN edits = 1..Len(edits) /\ DOMAIN past = DOMAIN edits /\ Len(edits) \in Nat
      /\ InForce \subseteq 1..Len(edits)
  BY DEF TypeOK, Stacked, InForce
<1>2. IsFiniteSet(1..Len(edits))
  BY <1>1, FS_Interval
<1>3. IsFiniteSet(InForce)
  BY <1>1, <1>2, FS_Subset
<1> QED
  BY <1>1, <1>3, FS_CardinalityType

\* A new change is pushed: the page before it goes on top.
LEMMA LogPushes ==
  ASSUME IInv, NEW r \in Requests, Commits(r), Logs(change[r])
  PROVE  Stack!Change
<1> DEFINE c == change[r]
           n == Cardinality(InForce)
           at(k) == OnlyOf(Ranked(InForce, k))
<1>0. TypeOK /\ Stacked
  BY DEF IInv
<1>1. /\ IsFiniteSet(InForce) /\ InForce \in SUBSET Nat /\ n \in Nat
      /\ InForce \subseteq DOMAIN edits
  BY <1>0, InForceFinite DEF InForce
<1>2. NewSeq \in Nat /\ InForce' = InForce \cup {NewSeq} /\ \A i \in InForce : i < NewSeq
  BY <1>0 DEF Logs, NewSeq, TypeOK
<1>3. /\ Cardinality(InForce') = n + 1
      /\ Ranked(InForce', n + 1) = {NewSeq}
      /\ \A k \in 1..n : Ranked(InForce', k) = Ranked(InForce, k)
  BY <1>1, <1>2, RankedAfter
<1>4. OnlyOf({NewSeq}) = NewSeq
  BY DEF OnlyOf
<1>5. ASSUME NEW k \in 1..n
      PROVE  past'[OnlyOf(Ranked(InForce', k))] = past[at(k)]
  <2>1. at(k) \in DOMAIN edits
    BY <1>1, RankedAll
  <2> QED
    BY <1>3, <2>1 DEF Logs
<1>6. past'[OnlyOf(Ranked(InForce', n + 1))] = panels
  BY <1>3, <1>4 DEF Logs
<1>7. PastInForce' = Append(PastInForce, panels)
  <2>1. PastInForce' = [k \in 1..(n + 1) |-> past'[OnlyOf(Ranked(InForce', k))]]
    BY <1>3 DEF PastInForce
  <2>2. PastInForce = [k \in 1..n |-> past[at(k)]]
    BY DEF PastInForce
  <2> HIDE DEF n, at
  <2>3. Len(PastInForce) = n /\ DOMAIN PastInForce = 1..n
    BY <1>1, <2>2
  <2>4. Append(PastInForce, panels) =
          [k \in 1..(n + 1) |-> IF k = n + 1 THEN panels ELSE PastInForce[k]]
    BY <1>1, <2>2, <2>3
  <2>5. \A k \in 1..(n + 1) : past'[OnlyOf(Ranked(InForce', k))] =
          IF k = n + 1 THEN panels ELSE PastInForce[k]
    BY <1>1, <1>5, <1>6, <2>2
  <2> QED
    BY <2>1, <2>4, <2>5
<1>8. /\ c.panel \in Panels /\ panels' = [panels EXCEPT ![c.panel] = c.to]
      /\ c.to # panels[c.panel] /\ panels \in [Panels -> Snapshot]
  <2>1. Draws(c) \/ Moves(c) \/ Discards(c)
    BY <1>1, <1>2 DEF Commits, Fits, Undoes, Top, Logs
  <2> QED
    BY <1>0, <2>1 DEF Commits, Fits, Draws, Moves, Discards, Present, TypeOK
<1>9. DOMAIN panels' = Panels /\ panels'[c.panel] # panels[c.panel]
      /\ \A q \in Panels \ {c.panel} : panels'[q] = panels[q]
  BY <1>8
<1> QED
  BY <1>7, <1>8, <1>9 DEF Stack!Change

\* Undo pops: the page on top is the page again.
LEMMA MarkPops ==
  ASSUME IInv, NEW r \in Requests, Commits(r), Marks(change[r])
  PROVE  Stack!Undo
<1> DEFINE m == change[r].seq
           n == Cardinality(InForce')
<1>0. TypeOK /\ Stacked
  BY DEF IInv
<1>1. /\ IsFiniteSet(InForce) /\ InForce \in SUBSET Nat /\ InForce' \subseteq InForce
      /\ m \in InForce /\ InForce = InForce' \cup {m} /\ \A i \in InForce' : i < m
  BY <1>0, InForceFinite DEF Marks, Undoes, Top
<1>2. IsFiniteSet(InForce') /\ InForce' \in SUBSET Nat /\ n \in Nat /\ m \in Nat
  BY <1>1, FS_Subset, FS_CardinalityType
<1>3. /\ Cardinality(InForce) = n + 1
      /\ Ranked(InForce, n + 1) = {m}
      /\ \A k \in 1..n : Ranked(InForce, k) = Ranked(InForce', k)
  BY <1>1, <1>2, RankedAfter
<1>4. OnlyOf({m}) = m
  BY DEF OnlyOf
<1>5. panels' = past[m]
  BY <1>0, UndoGoesBack
<1>6. PastInForce = [k \in 1..(n + 1) |-> past[OnlyOf(Ranked(InForce, k))]]
  BY <1>3 DEF PastInForce
<1>7. PastInForce' = [k \in 1..n |-> past[OnlyOf(Ranked(InForce, k))]]
  BY <1>3 DEF PastInForce, Marks
<1> HIDE DEF n, m
<1>8. Len(PastInForce) = n + 1 /\ PastInForce # <<>> /\ PastInForce[n + 1] = panels'
  <2>1. Len(PastInForce) = n + 1 /\ DOMAIN PastInForce = 1..(n + 1)
    BY <1>2, <1>6
  <2>2. PastInForce[n + 1] = past[OnlyOf(Ranked(InForce, n + 1))]
    BY <1>2, <1>6
  <2>3. PastInForce # <<>>
    BY <1>2, <2>1
  <2> QED
    BY <1>3, <1>4, <1>5, <2>1, <2>2, <2>3
<1>9. Stack!Last(PastInForce) = panels'
  BY <1>8 DEF Stack!Last
<1>10. Stack!Front(PastInForce) = PastInForce'
  BY <1>2, <1>6, <1>7, <1>8 DEF Stack!Front
<1> QED
  BY <1>8, <1>9, <1>10 DEF Stack!Undo

(* The panel editor is an undo stack: every commit pushes a change of one panel   *)
(* or takes back exactly the last one in force, and nothing else changes the page. *)
THEOREM UndoIsAStack == Spec => ImplementsUndoStack
<1>1. Init => Stack!Init
  <2> SUFFICES ASSUME Init PROVE Stack!Init
    OBVIOUS
  <2>1. DOMAIN panels = Panels
    BY TypeInit DEF TypeOK
  <2>2. InForce = {} /\ Cardinality(InForce) = 0
    BY FS_EmptySet DEF Init, InForce
  <2>3. PastInForce = <<>>
    BY <2>2 DEF PastInForce
  <2> QED
    BY <2>1, <2>3 DEF Stack!Init
<1>2. ASSUME RowsStay PROVE UNCHANGED Stack!vars
  <2>1. panels' = panels /\ past' = past /\ InForce' = InForce
    BY <1>2 DEF RowsStay, rows, InForce
  <2>2. PastInForce' = PastInForce
    BY <2>1 DEF PastInForce
  <2> QED
    BY <2>1, <2>2 DEF Stack!vars
<1>3. ASSUME IInv, NEW r \in Requests, Commits(r) PROVE Stack!Change \/ Stack!Undo
  BY <1>3, LogPushes, MarkPops DEF Commits
<1>4. IInv /\ [Next]_vars => [Stack!Change \/ Stack!Undo]_Stack!vars
  BY <1>2, <1>3, Cases, QuietSteps, IdleSteps
<1> QED
  BY <1>1, <1>4, Invariance, PTL DEF Spec, ImplementsUndoStack, Stack!Spec

=============================================================================
