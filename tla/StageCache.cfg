SPECIFICATION FairSpec
CONSTANTS
  o1 = o1
  o2 = o2
  o3 = o3
  A = A
  B = B
  s1 = s1
  f = f
  None = None
  AnySession = AnySession
  Opens = {o1, o2, o3}
  Caches = {A, B}
  Clients = {k1}
  Foreign = {f}
  Stack <- Crossed
  Want <- Mixed
  ForeignSession <- ForeignOfS1
  Calls = {"erase", "clear", "insert", "swap", "assign"}
  Outcomes = {"made", "failed", "thrown"}
  MaxEvictions = 1
INVARIANTS
  PointersAreLive
  StageCreatedOnce
PROPERTIES
  OpensReturn
CHECK_DEADLOCK FALSE
