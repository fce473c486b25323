---------------------------- MODULE MCPanelEdits ----------------------------
(* Instances of PanelEdits for TLC: the members of its sets.                 *)
EXTENDS PanelEdits, TLC

CONSTANTS r1, r2, p1, p2, p3, b1, b2

Symmetry == Permutations(Requests) \cup Permutations(Panels) \cup Permutations(Boxes)
=============================================================================
