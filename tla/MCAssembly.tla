----------------------------- MODULE MCAssembly -----------------------------
(* Instances of Assembly for TLC, with a model code for each page.             *)
EXTENDS Assembly, TLC

CONSTANTS r1, r2

SameCode == [n \in Numbers |-> "YY-11"]
MixedCodes == [n \in Numbers |-> CASE n = 3 -> NoCode [] OTHER -> "YY-11"]

\* Bound of the safety run: the pipeline runs again only where all there is to
\* assemble is on the first two pages.
SmallRuns ==
  run > 0 => /\ \A f \in finds : PageOf(f)[1] <= 2
             /\ \A c \in candidates : \A p \in c.pages : p[1] <= 2
             /\ \A p \in pages : p[2] = run => p[1] <= 2

Symmetry == Permutations(Requests)
=============================================================================
