SPECIFICATION Spec
CONSTANTS
  PageWords = 2
  Spans = {1, 2, 4, 8, 16}
  NPmp = 2
  PmpValue = {0, 1, 3, 7}
  TlbEntries = 2
  IcacheEntries = 4
  None = None
  Programs <- AllPrograms
INVARIANTS
  TypeOK
  CachesAreFresh
  MprvOnlyInMachine
  TriggersAreChecked
  PendingTriggersAreTaken
PROPERTY
  LocksHold
