----------------------------- MODULE SerialRuns -----------------------------
(***************************************************************************)
(* What processing promises about a catalogue's page rows: runs write them *)
(* one at a time.  A run begins by clearing what earlier runs wrote, adds  *)
(* its pages in order, and stops, finished or not, before another begins.  *)
(***************************************************************************)
EXTENDS Naturals

CONSTANT NumPages

VARIABLES pages,    \* page number -> the run that wrote its row, 0 for no row
          writers,  \* the run in progress, if any
          runs,     \* runs begun so far
          deleted   \* the catalogue is gone for good

vars == <<pages, writers, runs, deleted>>

PageNo == 1..NumPages

Init ==
  /\ pages = [n \in PageNo |-> 0]
  /\ writers = {}
  /\ runs = 0
  /\ deleted = FALSE

Begin ==
  /\ writers = {}
  /\ runs' = runs + 1
  /\ writers' = {runs'}
  /\ pages' = [n \in PageNo |-> 0]
  /\ UNCHANGED deleted

AddPage(n) ==
  /\ ~deleted
  /\ \A m \in 1..(n - 1) : pages[m] \in writers
  /\ pages[n] = 0
  /\ \E r \in writers : pages' = [pages EXCEPT ![n] = r]
  /\ UNCHANGED <<writers, runs, deleted>>

Stop ==
  /\ writers # {}
  /\ writers' = {}
  /\ UNCHANGED <<pages, runs, deleted>>

Delete ==
  /\ ~deleted
  /\ deleted' = TRUE
  /\ pages' = [n \in PageNo |-> 0]
  /\ UNCHANGED <<writers, runs>>

Next == Begin \/ Stop \/ Delete \/ \E n \in PageNo : AddPage(n)

Spec == Init /\ [][Next]_vars
=============================================================================
