\* Two forwarders on PostgreSQL, overlapping transactions, a backlog of two
\* batches, one failure and one dead process.
CONSTANTS
  p1 = p1
  p2 = p2
  Procs = {p1, p2}
  NoProc = NoProc
  Dialect = "postgresql"
  BatchSize = 2
  MaxOpen = 2
  Written = {"modsecurity"}
  MaxId = 3
  MaxFails = 1
  MaxCrashes = 1
  MaxSaves = 1
SPECIFICATION FairSpec
INVARIANTS
  NoSilentGap
  DuplicateNeedsTrouble
PROPERTIES
  CursorNeverMovesBack
  BacklogDrains
CHECK_DEADLOCK FALSE
