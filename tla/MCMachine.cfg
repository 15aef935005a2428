SPECIFICATION Spec
CONSTANTS
  N = 2
  INTERLEAVE = 2
  INSNS_PER_RTC_TICK = 2
  Calls = {1, 2}
  Addr = {a}
  None = None
  Programs <- ProgramSet
  MieValues <- MieSet
  MaxTime = 1
INVARIANTS TypeOK TimerFollowsClock ReservationsAreFresh InterruptsArePrompt
PROPERTIES RoundsAreFair SleepersWake
