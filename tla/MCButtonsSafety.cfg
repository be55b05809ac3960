\* One button, pressed by hand and by the console.  A queue that overflows; two
\* microseconds to the millisecond, so that durations are rounded; time enough
\* for both holds, and for a release after them.
CONSTANTS
  NumButtons = 1
  ActiveLow = {1}
  HoldHandlers <- TwoHandlers
  HoldButton <- MCHoldButton
  MinHold <- MCMinHold
  Debounce = 1
  UsPerMs = 2
  QueueLength = 2
  Emulated = {1}
  MaxTime = 6
  LastEdge = 0
SPECIFICATION SafetySpec
INVARIANTS
  NothingForgotten
  LevelTracked
  EventOrder
  HoldEventsMatch
CHECK_DEADLOCK FALSE
