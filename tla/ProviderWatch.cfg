SPECIFICATION WatchFairSpec
CONSTANTS
  Absent = Absent
  Stop = Stop
  Slots = {a}
  Ingests = {i, j}
  Saved = i
  First = 1
  Interval = 1
  MaxInterval = 2
  MaxKey = 2
  MaxFrames = 1
  MaxEdits = 1
  MaxTasks = 2
INVARIANTS
  UnloadWaitsForOne
PROPERTIES
  OnlyFresher UnloadReturns RotatedKeyRecovers
CHECK_DEADLOCK FALSE
