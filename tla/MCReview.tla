------------------------------ MODULE MCReview ------------------------------
(* Model values and their symmetry for the runs of ReviewFlow *)
EXTENDS ReviewFlow, TLC

Perms == Permutations(Procs)
=============================================================================
