SPECIFICATION Spec
CONSTANTS
  Configs <- ClearConfigs
  Faults = {"audio", "video", "reaper", "panic", "alloc"}
  MaxCalls = 2
INVARIANTS
  NothingOutlivesSource
  OneConnection ClearedStaysCleared EveryWorkerIsJoined
PROPERTIES
  RunsSucceedOneAnother
CHECK_DEADLOCK FALSE
