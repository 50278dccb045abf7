SPECIFICATION Spec
CONSTANTS
  Procs = {p1}
  Ops = {"init", "record", "add_context", "update_context", "add_rule", "create", "update", "decision", "rde", "rebuild"}
  NewStore = TRUE
  MaxOps = 5
  MaxTorn = 1
  MaxCrash = 1
CHECK_DEADLOCK FALSE
INVARIANT SequentialStore
INVARIANT DoctorIsRight
PROPERTY RebuildRestores
