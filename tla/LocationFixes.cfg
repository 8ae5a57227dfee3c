CONSTANTS
  Places <- Town
  Times <- Day
  MaxSamples = 4
  ReportSamples = 0
  FileLength = 0
  Values = {0, 1}
  Bits <- MCBits
  ChunkCapacity = 2
  Near <- MCNear
  Heading <- MCHeading
  OffCourse <- MCOffCourse
SPECIFICATION MysqlSpec
INVARIANT EndsAreFixes
CHECK_DEADLOCK FALSE
