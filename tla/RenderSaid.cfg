SPECIFICATION Spec
CONSTANTS
  main = main
  worker1 = worker1
  worker2 = worker2
  Rt = Rt
  Nobody = Nobody
  Hydra <- ThreeHydra
  Main <- main
  Calls <- AllCalls
  SpuriousWakeups = TRUE
INVARIANTS
  PauseChangeIsDirty
\* StoppedThreadIsInitial is refuted as well.
