\* Three requests, any one trouble.
SPECIFICATION WfSpec
CONSTANTS
  a = a
  b = b
  ssl = ssl
  Ports = {a, b, ssl}
  Reserved = {ssl}
  Console = Console
  Published = {a}
  Requests = {r1, r2, r3}
  Monitors = {}
  Commands <- EveryCommand
  Backlog = 2
  MaxEach = 1
  MaxTotal = 1
  None = None
SYMMETRY RequestSymmetry
INVARIANTS
  ChainsAreClean
  KernelMatchesMarker
  LastWordWins
  SshStaysOpen
CHECK_DEADLOCK FALSE
