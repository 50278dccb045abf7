SPECIFICATION DaemonSpec
CONSTANTS
  Threads = {t1, t2}
  Endpoints = {"events", "diffs", "assertions"}
  Keys = {k1}
  MaxRequests = 4
  MaxFail = 1
  MaxStop = 1
  Daemons = {d1, d2}
  Inodes = {1, 2, 3}
  MaxRuns = 4
CHECK_DEADLOCK FALSE
INVARIANT RepliesTrue
INVARIANT AuditBacked
INVARIANT DuplicatesBounded
INVARIANT ServingIsPublished
INVARIANT OneDaemonPerPath
INVARIANT LeftBehindOnlyAbruptly
PROPERTY Answered
