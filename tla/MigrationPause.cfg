SPECIFICATION Spec
CONSTANTS
  p1 = p1  p2 = p2  p3 = p3  p4 = p4
  a = a  b = b  c = c
  Procs = {p1, p2}
  Jobs = {a}
  JobOf <- PairOf
  Ids = {a}
  IdOf <- FileOf
  SourceSize <- Two
  TargetSize <- Two
  BufferSize = 2
  Offsets = {3}
  Unmeasured = {}
PROPERTY PauseIsNotOverwritten
