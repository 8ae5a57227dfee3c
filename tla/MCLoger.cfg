CONSTANTS
  m = m
  h1 = h1
  h2 = h2
  Main = m
  Helpers = {h1, h2}
  MaxLines = 2
  Nothing = Nothing
SPECIFICATION FairSpec
INVARIANT OneLogThread
PROPERTIES
  LogIsAChannel
  WaitPrintsAll
CHECK_DEADLOCK FALSE
