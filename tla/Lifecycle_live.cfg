SPECIFICATION FairSpec
CONSTANTS
  Configs <- InactiveOnly
  Faults = {"video", "panic"}
  MaxCalls = 3
PROPERTIES
  WantedSourceConnects MediaStopBlanks WorkersEndTogether DropReturns
CHECK_DEADLOCK FALSE
