\* Two buttons, whose pins come to rest; changes with and without the lock, that
\* end, and an element that moves; two trees of elements in all their frames.
CONSTANTS
  NumButtons = 2
  ActiveLow = {1}
  HoldHandlers <- MCHandlers
  HoldButton <- MCHoldButton
  MinHold <- MCMinHold
  Debounce = 1
  UsPerMs = 1
  QueueLength = 2
  Emulated = {}
  MaxTime = 5
  LastEdge = 2
  Elements <- MCElements
  Root = "root"
  Parent <- MCParent
  Above <- MCAbove
  Dynamic = {"ota_label"}
  Animated = {"label"}
  Looks = {1, 2}
  Callers = {"buttons"}
  MaxChanges = 3
  Layouts <- MCLayouts
  Size <- MCSize
  GlyphHeight = 2
  Changes <- MCChanges
  Hideable <- MCHideable
SPECIFICATION MCSpec
INVARIANTS
  ChangeNoticed
  FrameAsPlaced
  SelectedInView
PROPERTIES
  LevelsSettle
  HoldsDetected
  TreeDisplayed
\* Time ends with nothing left to do; an image that does not move needs no
\* further frame.
CHECK_DEADLOCK FALSE
