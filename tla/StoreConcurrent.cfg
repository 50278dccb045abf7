SPECIFICATION Spec
CONSTANTS
  Procs = {p1, p2}
  Ops = {"init", "create", "update", "decision"}
  NewStore = FALSE
  MaxOps = 4
  MaxTorn = 1
  MaxCrash = 1
CHECK_DEADLOCK FALSE
INVARIANT FilesPrecedeEvents
INVARIANT LossBound
INVARIANT IndexIsPast
INVARIANT ReferencesResolve
SYMMETRY Perms
