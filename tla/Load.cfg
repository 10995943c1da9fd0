SPECIFICATION WorkingSetSpec
CONSTANTS
  Paths <- MCPaths
  PayloadPrims <- MCPayloadPrims
  Source <- NestedSource
  Unused = "Unused"
  MaxSet = 1
INVARIANTS
  LoadQueriesExact
  RelativeRulesFaithful
  RuledPayloadsAreComposed
  LoadsKeepTheirSide
