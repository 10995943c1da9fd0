SPECIFICATION FairSpec
CONSTANTS
  r1 = r1
  r2 = r2
  Runs = {r1, r2}
  FileEnd = 4
  BufferCap = 3
  NumBuffers = 3
  MaxCalls = 5
INVARIANTS
  NothingLost
  NoWakeLost
PROPERTIES
  CallsReturn
CHECK_DEADLOCK FALSE
