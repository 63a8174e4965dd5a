SPECIFICATION FairSpec
CONSTANTS
  p1 = p1  p2 = p2  d1 = d1  d2 = d2  d3 = d3
  md0 = md0  md1 = md1  mdU = mdU  u = u  v = v  w = w  None = None
  PathOrder <- ByPath  ScanOrder <- ByEntry  AutoName <- Names
  Procs = {p1, p2}
  Disks = {d1, d2}
  Arrays = {md0, mdU}
  UUIDs = {u}
  Requests <- CreateReversed
  Stoppable = {}
  Unseen = {}
  Super0 <- BlankDisks
  Present0 = {d1, d2}
  Nodes0 = {md0}
  World = {"udev"}
PROPERTIES HotplugAssembles
