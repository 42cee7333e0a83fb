\* One forwarder, two transactions of one table open together, no trouble.
CONSTANTS
  p1 = p1
  p2 = p2
  Procs = {p1}
  NoProc = NoProc
  Dialect = "postgresql"
  BatchSize = 2
  MaxOpen = 2
  Written = {"audit"}
  MaxId = 3
  MaxFails = 0
  MaxCrashes = 0
  MaxSaves = 1
SPECIFICATION Spec
INVARIANT
  AtLeastOnce
CHECK_DEADLOCK FALSE
