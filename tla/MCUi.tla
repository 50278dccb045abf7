-------------------------------- MODULE MCUi --------------------------------
(* The session boundary of the UI server and what its review pages announce, *)
(* checked side by side: the credentials and the request ids of the one are  *)
(* the token, session_id and request_id of a request of the other.           *)
EXTENDS UiSession, UiReview

SessionStep ==
  /\ browser.pc = "away" /\ reviews = <<>> /\ MutationEnabled(mode)
  /\ Next /\ UNCHANGED pageVars

PageStep ==
  /\ life = 1 /\ age = 0 /\ requests = 0
  /\ PageNext /\ UNCHANGED vars

UiInit == Init /\ PageInit

UiSpec == UiInit /\ [][SessionStep \/ PageStep]_<<vars, pageVars>> /\ Fairness
=============================================================================
