SPECIFICATION Spec
CONSTANTS
  Threads = {t1, t2}
  Endpoints = {"events", "assertions"}
  Keys = {k1}
  MaxRequests = 2
  MaxFail = 0
  MaxStop = 1
CHECK_DEADLOCK FALSE
\* One sentence at a time: exchange the invariant.
INVARIANT OneEventPerKey
\* INVARIANT AcceptedAudited
\* INVARIANT RebuildPossible
\* INVARIANT RejectedNotPersisted
