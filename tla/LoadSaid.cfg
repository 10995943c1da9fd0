SPECIFICATION SpecByCalls
CONSTANTS
  Paths <- MCPaths
  PayloadPrims <- MCPayloadPrims
  Source <- LocalSource
  Unused = "Unused"
  MaxSet = 1
INVARIANTS NoneMeansUnloadedBelow
\* One at a time: LoadLoadsAncestors (a PROPERTY), UnloadLeavesNothingBelow,
\* EqualKeysLoadAlike, MinimizeKeepsBehavior and ComposedPayloadsAreRuled are
\* refuted as well.
