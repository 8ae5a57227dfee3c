CONSTANTS
  flagStart = aa
  flagEnd = bb
  flagChange = cc
  Others = {x}
  ChunkSize = 3
  MaxPackages = 2
  MaxLength = 2
  MaxRaw = 1
SPECIFICATION FairSpec
INVARIANTS
  ExactlyWhatWasSent
  EndsClean
  EarlierPackagesIntact
PROPERTY StreamIsAChannel
CHECK_DEADLOCK FALSE
