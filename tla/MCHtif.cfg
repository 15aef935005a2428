SPECIFICATION Spec
CONSTANTS
  None = None
  t = t
  u = u
  Char = {a, b}
  Tag = {t, u}
  Commands <- CommandSet
  Limits = {None, 2}
  MaxSent = 3
  MaxTyped = 2
INVARIANTS TypeOK CommandsKept CharactersKept
PROPERTIES ExitIsFinal KeepsPromise ExitEnds AnswersArrive
CHECK_DEADLOCK FALSE
