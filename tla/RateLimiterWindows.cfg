SPECIFICATION FairSpec
CONSTANTS
  k1 = k1
  k2 = k2
  Keys = {k1, k2}
  MaxRequests = 2
  Window = 3
INVARIANTS TypeOK BurstBound RefusalEarned TrackersExpire
PROPERTIES IsFixedWindow EventuallyAdmitted
