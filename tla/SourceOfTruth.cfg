\* Two populators and a loader; sessions and interfaces alone have no unique key.
CONSTANTS
  Seed <- MCSeed
  Populators = {p1, p2}
  WithPools = {p1}
  Loaders = {l1}
  EmptyBatches = {}
  Unique <- MCUnique
  MaxFailures = 1
SPECIFICATION SoTFairSpec
INVARIANTS
  SuccessIsComplete
  ReferencesAsSeeded
  OneForEachRun
PROPERTIES
  EventuallyPopulated
