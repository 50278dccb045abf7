------------------------------ MODULE MCStore ------------------------------
(* ChronicleStore for TLC: the processes are interchangeable, which is used  *)
(* where only invariants are checked.                                        *)
EXTENDS Doctor, TLC

Perms == Permutations(Procs)
=============================================================================
