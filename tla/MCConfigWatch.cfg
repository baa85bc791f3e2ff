\* Two folders, one of which may be emptied again; two writes, one failure of each kind.
CONSTANTS
  good = good
  bad = bad
  garbled = garbled
  NoKeys = NoKeys
  NoTree = NoTree
  NumFolders = 2
  Good <- OneGood
  Bad <- OneBad
  Garbled <- OneGarbled
  First <- TwoFolders
  Emptied <- OwnFolder
  MaxIndex = 3
  MaxFailures = 1
  MaxReloadFailures = 1
SPECIFICATION FairSpec
INVARIANTS TypeOK NothingOverlooked
PROPERTIES ReportedOnce Converges Closes
CHECK_DEADLOCK FALSE
