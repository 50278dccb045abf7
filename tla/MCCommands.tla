----------------------------- MODULE MCCommands -----------------------------
(* The processes that run commands are alike.                                *)
EXTENDS CommandLine, TLC

Alike == Permutations(Procs)
=============================================================================
