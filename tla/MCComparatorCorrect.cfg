CONSTANTS
  None = None
  Reg = {0, 1, 2}
  Value = {0, 1}
  Byte = {0, 1}
  Depth = 3
  Traces <- AllTraces
  Fragments <- AllFragments
SPECIFICATION Spec
CHECK_DEADLOCK FALSE
INVARIANT
  CorrectFragmentPasses
