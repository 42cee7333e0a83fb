\* Two processes, two days and the start of a third, any one trouble.
SPECIFICATION FairSpec
CONSTANTS
  p1 = p1
  p2 = p2
  Procs = {p1, p2}
  WebProcs = {p2}
  Dialect = "postgresql"
  DayLength = 2
  MaxTime = 4
  Forms <- OneForm
  FirstConfig <- Daily
  MaxOf <- Each
  MaxTotal = 1
  Never = Never
INVARIANTS
  OncePerDay
  StatusIsOfLastRun
  ListedIsWhole
  NewestSurvives
  RetentionHolds
PROPERTIES
  DueGetsAttempted
CHECK_DEADLOCK FALSE
