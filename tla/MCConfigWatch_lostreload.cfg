\* One read of a reload fails; no folder is emptied.
CONSTANTS
  good = good
  bad = bad
  garbled = garbled
  NoKeys = NoKeys
  NoTree = NoTree
  NumFolders = 2
  Good <- OneGood
  Bad <- OneBad
  Garbled <- NoContents
  First <- TwoFolders
  Emptied <- NoFolder
  MaxIndex = 3
  MaxFailures = 0
  MaxReloadFailures = 1
SPECIFICATION Spec
INVARIANT UpToDateAtRest
CHECK_DEADLOCK FALSE
