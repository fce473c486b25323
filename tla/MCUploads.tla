------------------------------ MODULE MCUploads ------------------------------
(* A small instance of Uploads: three requests in flight, three catalogues.   *)
EXTENDS Uploads, TLC

Symmetry == Permutations(Requests) \cup Permutations(Ids)
=============================================================================
