SPECIFICATION CommandSpec
CONSTANTS
  Procs = {p1, p2}
  MaxCommands = 2
  MaxKills = 1
SYMMETRY Alike
CHECK_DEADLOCK FALSE
INVARIANT RdeFoundOnceRecorded
