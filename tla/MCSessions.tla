----------------------------- MODULE MCSessions -----------------------------
(* A small instance of Sessions: two requests in flight, one browser with several tabs.     *)
EXTENDS Sessions, TLC

Symmetry == Permutations(Requests) \cup Permutations(Passwords)
=============================================================================
