\* Three names, of which one is the beginning of another.
CONSTANTS
  Names <- MCNames
  MaxFiles = 3
  MaxOperations = 3
SPECIFICATION Spec
INVARIANTS
  FileIsWhole
  PlayedIsStored
  ListIsCurrent
  ButtonsGoRound
\* The two locks may block each other: see MCLocksAnimation.
CHECK_DEADLOCK FALSE
