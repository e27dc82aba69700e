SPECIFICATION FairSpec
CONSTANTS
  Stall = 2
  Awaits <- Either
  HwDecodes = {"off", "auto", "nvdec"}
INVARIANTS
  AbortsOnlyStalled
PROPERTIES
  DeadLinkGivenUp StopEnds
CHECK_DEADLOCK FALSE
