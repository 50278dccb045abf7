SPECIFICATION Spec
CONSTANTS
  Procs = {p1, p2}
  Targets = {"artifact"}
  Ops = {"propose", "plan", "convert", "review", "ui_review", "apply", "update"}
  MaxOps = 5
  MaxAbandon = 0
CHECK_DEADLOCK FALSE
\* One sentence at a time: exchange the invariant.
INVARIANT AppliedOnce
\* INVARIANT AppliedToExpected
\* INVARIANT UiResolvesOnce
