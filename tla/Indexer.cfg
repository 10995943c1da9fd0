SPECIFICATION Spec
CONSTANTS
  root = root
  a = a
  b = b
  c = c
  Main = Main
  None = None
  Paths <- TreePaths
  AbsoluteRoot = root
  Parent <- TreeParent
  Prefixes <- TreePrefixes
  Instanceable = {a}
  Overlapping = FALSE
  MaxCalls = 3
INVARIANTS
  NothingReplaced
  ParentsInUseAreLive
  AncestorsAnswerRight
  AllPublished
CHECK_DEADLOCK FALSE
