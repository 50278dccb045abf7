SPECIFICATION PageSpec
CONSTANTS
  MaxReviews = 1
  Modes = {{"capability", "enable", "auth", "authorization"}}
CHECK_DEADLOCK FALSE
\* One sentence at a time: exchange the invariant.
INVARIANT PendingIsOffered
\* INVARIANT DecisionFirst
