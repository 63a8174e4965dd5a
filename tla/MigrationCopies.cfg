SPECIFICATION OnePairSpec
CONSTANTS
  p1 = p1  p2 = p2  p3 = p3  p4 = p4
  a = a  b = b  c = c
  Procs = {p1, p2, p3, p4}
  Jobs = {a, b, c}
  JobOf <- PairOf
  Ids = {a, b, c}
  IdOf <- FileOf
  SourceSize <- Source
  TargetSize <- Target
  BufferSize = 2
  Offsets = {3}
  Unmeasured = {c}
INVARIANTS TypeOK ProgressBacked CompletedMeansDurable TooSmallTargetUntouched
PROPERTIES KeepsPromise EveryCallReturns
