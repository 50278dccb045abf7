SPECIFICATION Spec
CONSTANTS
  Procs = {p1}
  Ops = {"record"}
  NewStore = FALSE
  MaxOps = 3
  MaxTorn = 1
  MaxCrash = 0
CHECK_DEADLOCK FALSE
INVARIANT IntactLinesAreRead
