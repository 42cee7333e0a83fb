\* Two processes, one published port, one request, any one trouble.
SPECIFICATION FairSpec
CONSTANTS
  a = a
  Ports = {a}
  Reserved = {}
  Console = Console
  Published = {a}
  Requests = {r1}
  Monitors = {m1, m2}
  Commands <- OnePort
  Backlog = 2
  MaxEach = 1
  MaxTotal = 1
  Interval = 1
  MaxTime = 1
  None = None
INVARIANTS
  AlertSpacing
PROPERTIES
  MarkedIsRestored
  ExposedIsReported
