CONSTANTS
  Threads <- MCThreads
  Directories <- OneFile
  MaxLines = 2
  Programs = {"cache_test"}
  Batch = 1
  Dated = {"a", "b"}
  Vehicles = {"a", "b"}
  No <- MCNo
  When <- MCWhen
  Whole = {"a", "b"}
SPECIFICATION Spec
INVARIANT EachRecordIsGiven
CHECK_DEADLOCK FALSE
