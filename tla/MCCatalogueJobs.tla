-------------------------- MODULE MCCatalogueJobs --------------------------
(* Instances of CatalogueJobs for TLC: which faults may happen, and how     *)
(* often.                                                                   *)
EXTENDS CatalogueJobs, FiniteSets, TLC

CONSTANTS j1, j2, w1, w2, e1, MaxKinds

Faults(f) == [k \in FaultKinds |-> IF k \in DOMAIN f THEN f[k] ELSE 0]

\* Every kind of fault once: the safety run.
AnyFault == [k \in FaultKinds |-> 1]

NoFault  == [k \in FaultKinds |-> 0]
OneCrash == Faults([crash |-> 1])
OneKill  == Faults([kill |-> 1])

\* Bound of the safety run: how many kinds of fault one behaviour may mix.
FewFaults == Cardinality({k \in FaultKinds : Happened(k)}) <= MaxKinds

Symmetry == Permutations(Workers)
=============================================================================
