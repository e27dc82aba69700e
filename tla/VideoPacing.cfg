SPECIFICATION PacingSpec
CONSTANTS
  None = None
  Tick = 2
  MaxDelay = 6
  Window = 6
  MinFrames = 1
  RelaxMin = 0
  LiveMaxWait = 0
  Interval = 4
  MaxNeed = 4
  Scenarios <- WithoutAndWithRelax
  Outage = 4
  Offsets <- NearAndFar
  ChanMax = 2
  DecodeLead = 4
  MaxFrames = 2
  Slack = 1
  LeadTicks = 2
  MaxWait = 5
  Expected = 3
  OffsetHold = 1
  AudioLead = 1
  TsClamp = 3
  TsCap = 1
  Slews <- Steps
  Patience = 16
  MaxAsync = 8
  WakeLag = 0
INVARIANTS
  PlayHeadOnTheClock ShownInTime SlewSparesFrames
