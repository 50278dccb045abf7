SPECIFICATION Spec
CONSTANTS
  Procs = {p1, p2}
  Contracts <- MCContracts
  Requests <- MCRequests
  Mixes <- MCMixes
  Wishes <- MCWishes
  Finds <- MCFinds
  Labels = {"a"}
  MaxJobs = 2
  MaxCalls = 1
  MaxStores = 3
SYMMETRY Perms
CHECK_DEADLOCK FALSE
INVARIANT CallsWerePermitted
INVARIANT ResultsKept
INVARIANT ReadyIsCurrent
INVARIANT EntriesStay
