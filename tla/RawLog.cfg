\* Two lines, one without identifier and refused by the parser, two processes, any one trouble.
SPECIFICATION Spec
CONSTANTS
  p1 = p1
  p2 = p2
  l1 = l1
  l2 = l2
  Procs = {p1, p2}
  WebProcs = {p1, p2}
  Lines = {l1, l2}
  NoId = {l2}
  Refused = {l2}
  DayLength = 3
  PerName = 1
  MaxTime = 2
  PruneHour = 1
  FirstConfigs <- Starts
  Forms <- PlainForm
  MaxEach = 1
  MaxTotal = 1
  Nobody = Nobody
SYMMETRY ProcSymmetry
INVARIANTS
  DeletedIsArchived
  NoLossWhileOneReads
  ArchivedTwiceNeedsTrouble
CHECK_DEADLOCK FALSE
