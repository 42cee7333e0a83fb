\* Two processes, two IPs, one of which the safety guards refuse; Pairs lists
\* the troubles and visits that a behaviour may combine.
SPECIFICATION Spec
CONSTANTS
  p1 = p1
  p2 = p2
  r1 = r1
  a = a
  b = b
  Procs = {p1, p2}
  NoProc = NoProc
  Requests = {r1}
  IPs = {a, b}
  Unbannable = {b}
  Dialect = "postgresql"
  MaxSev = 2
  Threshold = 2
  LlmCap = 1
  Lookback = 1
  Cooldown = 1
  BlockLookback = 1
  LoginWindow = 1
  MaxTime = 2
  MaxInc = 2
  Quotas <- Pairs
SYMMETRY ProcSymmetry
INVARIANTS
  OneOpenIncident
  SpamNeedsTrouble
  RebanNeedsTrouble
  
  AnalysisBudget
PROPERTIES
  ImplementsBook
  AdminNeverBanned
