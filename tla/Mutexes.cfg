SPECIFICATION BothFairSpec
CONSTANTS
  t1 = t1
  t2 = t2
  t3 = t3
  Threads <- ThreeThreads
  Calls <- AllCalls
INVARIANTS
  WritesAreSeen
PROPERTIES
  ImplementsRWLock
  DrainEnds
  BigImplementsRWLock
  WaitersGetIn
\* A contended upgrade and the writer it met stop for ever.
CHECK_DEADLOCK FALSE
