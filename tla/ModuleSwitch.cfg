\* Two processes, three requests of any kind, any two troubles of different kinds; a key for each request.
SPECIFICATION SwSpec
CONSTANTS
  p1 = p1
  p2 = p2
  k1 = k1
  k2 = k2
  k3 = k3
  Procs = {p1, p2}
  Kinds <- EveryKind
  Alerts = {alert}
  Keys = {k1, k2, k3}
  MaxRequests = 3
  MaxEach = 1
  MaxTotal = 2
  None = None
SYMMETRY SwSymmetry
INVARIANTS
  KeysAgree
  SwitchMatchesContainers
  BansAreRead
CHECK_DEADLOCK FALSE
