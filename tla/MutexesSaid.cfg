SPECIFICATION BothFairSpec
CONSTANTS
  t1 = t1
  t2 = t2
  t3 = t3
  Threads <- ThreeThreads
  Calls <- AllCalls
INVARIANT ReadersHappenBeforeWriter
PROPERTY ContendedUpgradeReturns
\* The standoff is a deadlock.
CHECK_DEADLOCK FALSE
