SPECIFICATION Spec
CONSTANTS
  d1 = d1  d2 = d2  None = None
  Procs = {p1}
  Disks = {d1, d2}
  Requests <- Failing
  Words = {"clean", "active"}
  MaxDisks = 2
PROPERTY DegradedIsGuarded
CHECK_DEADLOCK FALSE
