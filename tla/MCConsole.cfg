SPECIFICATION Spec
CONSTANTS
  Char = {a, b}
  QueueSize = 2
  MaxBackoff = 3
  NDev = 1
  NContexts = 1
  WordSize = 2
  PrioBits = 1
  Values = {0, 1}
  Line = 1
  MaxTyped = 4
  MaxWaiting = 1
INVARIANTS LineFollowsCauses CharactersInOrder
PROPERTY CharactersArrive
