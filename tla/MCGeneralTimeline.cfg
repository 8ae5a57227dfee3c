CONSTANTS
  off = off
  on = on
  Values <- MCValues
  Times <- MCTimes
  MaxSamples = 5
  ChunkCapacity = 2
SPECIFICATION Spec
INVARIANTS
  Packed
  RunsExact
  Faithful
PROPERTY OnlyLastNodeChanges
CHECK_DEADLOCK FALSE
