SPECIFICATION TokenSpec
CONSTANTS
  Daemons = {d1, d2}
  Inodes = {1, 2}
  MaxRuns = 2
CHECK_DEADLOCK FALSE
\* One sentence at a time: exchange the invariant.
INVARIANT ReplacementKept
\* INVARIANT RemovedOnSignal
