\* Two attempts for one device, another device, one pool too small.
CONSTANTS
  Callers = {"first", "retry", "crowded"}
  Request <- MCRequest
  Makers = {"make1", "make2"}
  MakerPool <- MCMakerPool
  Resources <- MCResources
  AsnPool = "asns"
  LoopbackPool = "loopbacks"
  MaxFailures = 1
SPECIFICATION FairSpec
INVARIANTS
  OneOwnerEach
  ExhaustedOnlyIfShort
PROPERTIES
  ImplementsGrants
  EventuallyProvisioned
