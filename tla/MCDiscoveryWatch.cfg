\* Two instances of two versions, one failure, one snapshot restore.
CONSTANTS
  k1 = k1
  k2 = k2
  v1 = v1
  v2 = v2
  Keys = {k1, k2}
  Versions = {v1, v2}
  Absent = Absent
  NoEvent = NoEvent
  MaxIndex = 2
  MaxFailures = 1
  MaxRestores = 1
SPECIFICATION FairSpec
INVARIANTS TypeOK DiffsAddUp WakesOnChange
PROPERTIES ImplementsChannel Converges 
CHECK_DEADLOCK FALSE
