SPECIFICATION Spec
CONSTANTS
  Procs = {p1, p2}
  Relations = {r1}
  Messages = {m1}
  Nodes = {n1}
  Targets = {"node:b"}
  Levels = {"observed", "trusted"}
  Contents <- MCContents
  Requests <- MCRequests
  Dirs = {d1}
  Mixes <- MCMixes
  MaxPackages = 2
  MaxNow = 2
  MaxDamage = 1
  MaxCrashes = 1
SYMMETRY Perms
CHECK_DEADLOCK FALSE
INVARIANT WithdrawnStays
INVARIANT RevocationsAudited
INVARIANT PackagesVerified
