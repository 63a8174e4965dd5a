SPECIFICATION Spec
CONSTANTS
  p1 = p1  p2 = p2  n1 = n1  n2 = n2  a1 = a1  a2 = a2
  NoAddress = NoAddress
  Procs = {p1, p2}
  Nodes = {n1, n2}
  Addresses = {a1, a2}
INVARIANTS TypeOK ListedWasJoined
PROPERTIES AtomicUnlessLapped
SYMMETRY Interchangeable
CHECK_DEADLOCK FALSE
