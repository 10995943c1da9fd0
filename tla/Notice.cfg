SPECIFICATION FairNoticeSpec
CONSTANTS
  t1 = t1
  t2 = t2
  t3 = t3
  d1 = d1
  d2 = d2
  d3 = d3
  senders = senders
  globals = globals
  End = End
  Threads = {t1, t2}
  Deliverers = {d1, d2}
  Chain <- TwoLists
  ListOf <- Lists
  Registered = {d1}
  Calls = {"send", "register", "revoke", "revokeAndWait", "expire", "throw"}
  MaxDepth = 2
  WaitInHandlers = FALSE
  RevokeExpired = FALSE
INVARIANTS
  RevokedStaysQuiet
  NothingFreedInUse
PROPERTIES
  RevokesReturn
