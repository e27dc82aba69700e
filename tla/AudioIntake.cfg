SPECIFICATION IntakeSpec
CONSTANTS
  Duration = 4
  SmallGap = 6
  LargeGap = 8
  RelockCount = 3
  RelockStep = 2
  Tolerance = 1
  Gaps <- SomeGaps
  Formats = {"a", "b"}
  Warmup = 2
  Burst = 2
  Gated <- Either
INVARIANTS
  QueueRunsForward SteadyStreamRelocks
