SPECIFICATION Spec
CONSTANTS
  p1 = p1  p2 = p2  d1 = d1  d2 = d2  d3 = d3
  md0 = md0  md1 = md1  mdU = mdU  u = u  v = v  w = w  None = None
  PathOrder <- ByPath  ScanOrder <- ByEntry  AutoName <- Names
  Procs = {p1}
  Disks = {d1, d2, d3}
  Arrays = {md0, md1, mdU}
  UUIDs = {u, v, w}
  Requests <- Everything
  Stoppable = {md0, md1, mdU}
  Unseen = {d2}
  Super0 <- InOrder
  Present0 = {d1, d2, d3}
  Nodes0 = {md0}
  World = {"udev", "kill", "unplug", "reboot", "late"}
INVARIANTS MembersShareUuid
PROPERTIES DryRunInert MemberSuperKept
