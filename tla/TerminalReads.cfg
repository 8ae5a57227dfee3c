CONSTANTS
  Threads <- MCThreads
  Directories <- MCDirectories
  MaxLines = 2
  Programs = {"cache_test", "multi_test", "extra", "dir", "arrange", "sort"}
  Batch = 1
  Dated = {"a", "b"}
  Vehicles = {"a", "b"}
  No <- MCNo
  When <- MCWhen
  Whole = {"a", "b"}
SPECIFICATION FairSpec
INVARIANTS
  ReadInOrder
  WholeDirectory
  TitlesSettled
  WrittenInOrder
PROPERTY RoundsEnd
CHECK_DEADLOCK FALSE
