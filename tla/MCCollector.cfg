CONSTANTS
  None = None
  Reg = {0, 1, 2}
  Value = {0, 1}
  Byte = {0, 1}
  Programs <- ProgramSet
  Configs <- ConfigSet
  MemWords = 32
  Base = 128
  DataAt = 148
  ToHostAt = 152
  ResetCycles = 2
  Timeout = 7
  RetireWidth = 2
  Strays = 1
SPECIFICATION Spec
CHECK_DEADLOCK FALSE
INVARIANTS
  TypeOK
  FragmentCorrect
  FragmentReplays
  RequestsAnswered
  StopsAtToHost
