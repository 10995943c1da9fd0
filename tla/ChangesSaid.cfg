SPECIFICATION ManagerSpec
CONSTANTS
  g = g
  s = s
  l1 = l1
  l2 = l2
  bare = bare
  x = x
  none = none
  Paths <- Tree
  Values = {bare, x}
  Bare = bare
  Layers = {l1, l2}
  Room <- Uneven
  Listeners = {g}
  Stages = {s}
  Contents <- Starts
  Absent = none
  Careless = {}
  Budget <- Few
  MaxClientRounds = 2
  MaxRounds = 2
INVARIANTS
  AllMirrorsFollow
\* With Careless = {"stomps"} or {"destroys"}: RemovalsAnswer; with the latter
\* NotifiesOnlyLive too.
CHECK_DEADLOCK FALSE
