CONSTANTS
  Places <- Town
  Times <- Clock
  MaxSamples = 5
  ReportSamples = 2
  FileLength = 1
  Values = {0, 1}
  Bits <- MCBits
  ChunkCapacity = 1
  Near <- MCNear
  Heading <- MCHeading
  OffCourse <- MCOffCourse
SPECIFICATION MysqlSpec
INVARIANTS
  TrackKept
  CourseKept
  EndTimes
  TimelinesTellOneDrive
  TablesTellTheFile
CHECK_DEADLOCK FALSE
