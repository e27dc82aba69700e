SPECIFICATION Spec
CONSTANTS
  Modes <- Either
  Chunk = 2
  Target = 2
  OutputLead = 6
  MaxLag = 3
  TrimTrigger = 2
  LLMaxFill = 5
  FadeLength = 3
  Burst = 2
  MinSleep = 1
  MaxSleep = 2
  Stretch = 1
  Oversleep = 3
  MaxFill = 14
INVARIANTS
  NoStaleOutput NeverRunsDry MappingOfTheLine
