SPECIFICATION Spec
CONSTANTS
  Procs = {p1, p2}
  Targets = {"artifact"}
  Ops = {"propose", "plan", "convert", "review", "apply"}
  MaxOps = 5
  MaxAbandon = 0
CHECK_DEADLOCK FALSE
INVARIANT ApplyWasJustified
INVARIANT ReviewsAudited
INVARIANT RepeatsBounded
PROPERTY PlanAdvances
SYMMETRY Perms
