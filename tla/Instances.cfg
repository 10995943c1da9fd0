SPECIFICATION InstanceSpec
CONSTANTS
  S = S
  G = G
  K = K
  L = L
  V = V
  Names <- Three
  ScenePaths <- SmallPaths
  StageKind = S
  Instanceable = {K, L}
  Plain = {G, V}
  Absent = Absent
  Nothing = Nothing
  Contents <- SmallContents
  Start <- SmallStart
  MaxEdits = 3
INVARIANTS
  RootsDisjoint
  RegisteredExactly
  PrimsExact
  IndexesCurrent
CHECK_DEADLOCK FALSE
