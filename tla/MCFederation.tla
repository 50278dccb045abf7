---------------------------- MODULE MCFederation ----------------------------
(* One relation, messages about one node; packages of a sensitive, a shared  *)
(* and an unclassified record, signed in the ways that are told apart; the   *)
(* consent is recorded or not, and for third parties or not.                 *)
EXTENDS Federation, TLC

MCContents ==
  LET sensitive == [id |-> "c1", layer |-> SensitiveContext, hint |-> "unknown"]
      shared == [id |-> "c2", layer |-> 1, hint |-> "unknown"]
  IN  {{shared}, {sensitive, shared}}
Signing(key, expires, revoked) ==
  [mode |-> "local_dev", key |-> key, expires |-> expires, revoked |-> revoked]
Request(visibility, signing, consent) ==
  [visibility |-> visibility, signing |-> signing, consent |-> consent]
MCRequests ==
  LET both == Consents
  IN  {Request("trusted", Signing("local-dev-key", 1, FALSE), both),
       Request("federated", Signing("local-dev-key", 0, FALSE), both),
       Request("trusted", Signing("local-dev-rotated", 0, TRUE), {}),
       Request("federated", Signing("lost-key", 0, FALSE), both),
       Request("trusted", [Signing("local-dev-key", 0, FALSE) EXCEPT !.mode = "unsigned"], {"recorded"})}
MCMixes == {{"assert", "withdraw", "message", "node", "consent"}, {"create", "preview"}}
Perms == Permutations(Procs) \cup Permutations(Relations)
=============================================================================
