\* Two requests, any one trouble.
SPECIFICATION Spec
CONSTANTS
  p1 = p1
  p2 = p2
  Procs = {p1, p2}
  Console = Console
  First = {s}
  Later = {t}
  Domains = {d1, d2}
  Ports = {x}
  Encrypted = {TRUE}
  Kinds <- EveryKind
  MaxRequests = 2
  MaxEach = 1
  MaxTotal = 1
  None = None
SYMMETRY ProcSymmetry
INVARIANTS
  HealsAlone
  
  MarkedPortIsClosed
PROPERTIES
  ServedStaysServed
CHECK_DEADLOCK FALSE
