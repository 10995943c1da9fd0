SPECIFICATION Spec
CONSTANTS
  p1 = p1
  p2 = p2
  p3 = p3
  owner = owner
  Ptrs = {p1, p2, p3, owner}
  Owner = owner
  None = None
SYMMETRY Alike
CONSTRAINT UntilAstray
INVARIANTS
  ListenerKnows
PROPERTIES
  ImplementsRefCounted
CHECK_DEADLOCK FALSE
