SPECIFICATION FairSpec
CONSTANTS
  p1 = p1  p2 = p2  d1 = d1  d2 = d2  d3 = d3
  md0 = md0  md1 = md1  mdU = mdU  u = u  v = v  w = w  None = None
  PathOrder <- ByPath  ScanOrder <- ByEntry  AutoName <- Names
  Procs = {p1, p2}
  Disks = {d1, d2, d3}
  Arrays = {md1, mdU}
  UUIDs = {u, v}
  Requests = {}
  Stoppable = {}
  Unseen = {}
  Super0 <- InOrder
  Present0 = {}
  Nodes0 = {}
  World = {"udev"}
PROPERTIES HotplugAssembles
CHECK_DEADLOCK FALSE
