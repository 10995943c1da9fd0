SPECIFICATION PathNodeSpec
CONSTANTS
  t1 = t1
  t2 = t2
  t3 = t3
  n1 = n1
  n2 = n2
  n3 = n3
  n4 = n4
  x = x
  y = y
  Root = Root
  None = None
  Threads <- ThreeThreads
  Nodes <- FourNodes
  Names <- OneName
  MaxHeld = 1
  MaxDepth = 3
SYMMETRY Symmetry
INVARIANTS
  PathsAreUnique
  TokensAreCurrent
