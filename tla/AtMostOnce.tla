----------------------------- MODULE AtMostOnce ------------------------------
(***************************************************************************)
(* What the session boundary of the UI server promises, without locks,     *)
(* secrets or requests: in every era of the server one exchange at most    *)
(* leads to a session, an id is claimed at most once and only in an era    *)
(* that has a session, and a claim is finished at most once.  A new era    *)
(* forgets what the one before had begun.                                  *)
(***************************************************************************)
EXTENDS Naturals

CONSTANTS Parties, Ids

VARIABLES
  era,       \* the incarnation of the server
  open,      \* its exchange is still to be had
  holders,   \* who has exchanged and is not answered yet
  sessions,  \* eras that have a session
  used,      \* ids claimed in this era
  writing,   \* ids claimed and not finished
  written    \* what was written, with its era

vars == <<era, open, holders, sessions, used, writing, written>>

Init ==
  /\ era = 1 /\ open = TRUE
  /\ holders = {} /\ sessions = {}
  /\ used = {} /\ writing = {} /\ written = {}

Retire ==
  /\ open' = FALSE
  /\ UNCHANGED <<era, holders, sessions, used, writing, written>>

Exchange(p) ==
  /\ open /\ holders = {}
  /\ open' = FALSE /\ holders' = {p}
  /\ UNCHANGED <<era, sessions, used, writing, written>>

Grant(p) ==
  /\ holders = {p} /\ era \notin sessions
  /\ holders' = {}
  /\ sessions' = sessions \cup {era}
  /\ UNCHANGED <<era, open, used, writing, written>>

Claim(i) ==
  /\ era \in sessions /\ i \notin used
  /\ used' = used \cup {i}
  /\ writing' = writing \cup {i}
  /\ UNCHANGED <<era, open, holders, sessions, written>>

(* The write may fail; its id stays used *)
Finish(i) ==
  /\ i \in writing /\ <<era, i>> \notin written
  /\ writing' = writing \ {i}
  /\ written' \in {written, written \cup {<<era, i>>}}
  /\ UNCHANGED <<era, open, holders, sessions, used>>

Renew ==
  /\ era' = era + 1 /\ open' = TRUE
  /\ holders' = {} /\ used' = {} /\ writing' = {}
  /\ UNCHANGED <<sessions, written>>

Next ==
  \/ Retire \/ Renew
  \/ \E p \in Parties : Exchange(p) \/ Grant(p)
  \/ \E i \in Ids : Claim(i) \/ Finish(i)

Spec == Init /\ [][Next]_vars
=============================================================================
