SPECIFICATION Spec
CONSTANTS
  Procs = {p1}
  Targets = {"artifact", "context"}
  Ops = {"propose", "plan", "convert", "review", "ui_review", "apply", "update"}
  MaxOps = 5
  MaxAbandon = 1
CHECK_DEADLOCK FALSE
INVARIANT SequentialReviews
