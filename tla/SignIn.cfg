SPECIFICATION FairSpec
CONSTANTS
  Main = Main
  Spare = Spare
  Blank = Blank
  Refused = Refused
  None = None
  Providers = {Main, Spare}
  IdOf <- OwnIds
  Documents <- SomeDocuments
  PluginVersion <- ThisVersion
  MaxPort = 2
  Held <- OneHeld
  Timeout = 1
  MaxSignIns = 2
  MaxStrays = 2
INVARIANTS
  OnlyItsOwnTab OneListenerEach
PROPERTIES
  SignInEnds
CHECK_DEADLOCK FALSE
