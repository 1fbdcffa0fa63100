SPECIFICATION Spec
CONSTANTS
  Sx = 3
  Sy = 3
  LongBlank = 2
  Instances <- MCInstances
INVARIANT ScreenSound
INVARIANT Shown
INVARIANT BordersKept
INVARIANT TtyKnowsTerminal
