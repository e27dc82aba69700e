SPECIFICATION FairSpec
CONSTANTS
  NoValue = NoValue
  MinTarget = 1
  MaxTarget = 9
  DefaultTarget = 2
  Extra = 1
  Multiplier = 4
  MaxChunks = 9
  BleedPace = 4
  PaceFloor = 1
  Lead = 1
  TrimTrigger = 1
  LLMaxFill = 2
  LLKeep = 2
  Warmup = 1
  Margin = 1
  HoldMax = 9
  RaiseMin = 1
  RelaxMin = 1
  Modes <- Either
  Settings <- TwoSettings
  Skews <- SomeSkews
  Spans <- SomeSpans
  Silences <- SomeGaps
  MaxEdits = 1
  MaxFaults = 1
INVARIANTS
  TargetIsUserPlusHold RingFollowsTarget OnlyGapsLoseFrames
PROPERTIES
  PlaybackStarts
CHECK_DEADLOCK FALSE
