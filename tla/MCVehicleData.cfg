CONSTANTS
  KeyBytes = 2
  IdSize = 4
  NUL = "nul"
  SOH = "soh"
  Zero = "0"
  Comma = ","
  Quote = "q"
  Bytes <- MCBytes
  Junk = {"A"}
  NumBits = 2
  Padding = 1
  Rows <- MCRows
  MaxRecords = 3
SPECIFICATION RecordSpec
INVARIANTS
  NoStrangers
  EveryRecordIsKept
CHECK_DEADLOCK FALSE
