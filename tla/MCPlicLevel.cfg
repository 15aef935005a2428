SPECIFICATION Spec
CONSTANTS
  NDev = 2
  NContexts = 2
  WordSize = 2
  PrioBits = 2
  Values = {0, 1, 6}
INVARIANT LevelTriggered
