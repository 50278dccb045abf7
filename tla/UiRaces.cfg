SPECIFICATION UiSpec
CONSTANTS
  Threads = {t1, t2}
  RequestIds = {r1, r2}
  Workspace = TRUE
  Mutation = TRUE
  TTL = 1
  MaxRequests = 4
  MaxLives = 2
  NoThread = NoThread
  MaxReviews = 2
  Modes = {{}, {"capability", "enable", "auth", "authorization"},
           {"enable", "auth", "authorization"}, {"capability", "auth", "authorization"},
           {"capability", "enable", "authorization"}, {"capability", "enable", "auth"}}
CHECK_DEADLOCK FALSE
INVARIANT WritersAreCurrent
INVARIANT PageForetells
PROPERTY UsesOnce
PROPERTY Answered
