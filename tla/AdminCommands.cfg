SPECIFICATION FairSpec
CONSTANTS
  d1 = d1  d2 = d2  None = None
  Procs = {p1, p2}
  Disks = {d1, d2}
  Requests <- Every
  Words = {"clean", "readonly"}
  MaxDisks = 2
INVARIANTS TypeOK NeverEmptied BitmapChunkValid DryRunCallsNothing
PROPERTIES BitmapAsAsked ManagedAsAsked ReshapedAsAsked CommandsReturn
CHECK_DEADLOCK FALSE
