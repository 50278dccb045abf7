SPECIFICATION Spec
CONSTANTS
  Procs = {p1}
  Ops = {"init", "add_context", "create", "update", "rde"}
  NewStore = TRUE
  MaxOps = 4
  MaxTorn = 0
  MaxCrash = 1
CHECK_DEADLOCK FALSE
\* One sentence at a time: exchange the invariant.
INVARIANT CurrentMatchesVersion
\* INVARIANT EventsMatchMetadata
\* INVARIANT RdeVersionsExist
\* INVARIANT IndexesReadable
\* INVARIANT DoctorSeesStaleIndexes
