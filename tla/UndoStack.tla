----------------------------- MODULE UndoStack -----------------------------
(***************************************************************************)
(* What the panel editor promises of one page: changes are made one at a   *)
(* time, each to one panel, and undo brings back the page as it was before *)
(* the last change that is still in force.                                 *)
(***************************************************************************)
EXTENDS Sequences, SequencesExt

CONSTANT Panels  \* panel ids

VARIABLES panels,  \* the panels of the page
          past     \* the page before every change still in force, oldest first

vars == <<panels, past>>

Init == past = <<>> /\ DOMAIN panels = Panels

Change ==
  /\ \E p \in Panels :
       /\ panels'[p] # panels[p]
       /\ \A q \in Panels \ {p} : panels'[q] = panels[q]
  /\ DOMAIN panels' = Panels
  /\ past' = Append(past, panels)

Undo ==
  /\ past # <<>>
  /\ panels' = Last(past)
  /\ past' = Front(past)

Spec == Init /\ [][Change \/ Undo]_vars
=============================================================================
