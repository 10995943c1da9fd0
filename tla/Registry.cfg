SPECIFICATION Spec
CONSTANTS
  t1 = t1
  t2 = t2
  t3 = t3
  l1 = l1
  l2 = l2
  l3 = l3
  a = a
  b = b
  p1 = p1
  p2 = p2
  p3 = p3
  None = None
  Threads <- TwoThreads
  LayerObjects <- TwoLayers
  Ids <- TwoIds
  RealPaths <- TwoPaths
  Resolutions <- Moving
  NewPath <- FixedNew
  RepoPath <- OwnRepo
  ContextDependent <- OneId
  ReadOutcomes <- ReadsAndThrows
  Calls <- AllCalls
SYMMETRY Symmetry
CONSTRAINT ClashesOnce
ACTION_CONSTRAINT MovesOnce
INVARIANTS
  HeldIsInitialized
  RegistryExact
  HandleIsProtected
