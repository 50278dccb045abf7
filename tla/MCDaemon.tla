------------------------------ MODULE MCDaemon ------------------------------
(* The two halves of the loopback daemon, its requests and its credential     *)
(* file, checked side by side: they share no state but the moment the daemon  *)
(* stops, which each half takes at any time.                                  *)
EXTENDS ApiWrites, DaemonToken

ServeNext == runs = 0 /\ Next /\ UNCHANGED tokenVars
FileNext == counts = <<0, 0, 0>> /\ TokenNext /\ UNCHANGED vars

DaemonInit == Init /\ TokenInit

DaemonSpec == DaemonInit /\ [][ServeNext \/ FileNext]_<<vars, tokenVars>> /\ Fairness
=============================================================================
