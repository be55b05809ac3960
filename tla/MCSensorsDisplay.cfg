\* Lights that call for the lowest level, for the one that hysteresis allows, and for
\* more than the highest; two low readings in a row.
CONSTANTS
  Mapping <- MCMapping
  Hysteresis = 10
  MinSamples = 1
  PoweroffSamples = 2
  MaxBackoff = 1
  Lights = {10, 43, 60}
  MaxInputs = 2
SPECIFICATION FairSpec
INVARIANTS
  ChosenBrightness
  KeepsPolling
  OffWhenEmpty
PROPERTIES
  BrightnessSettles
\* Without power nothing happens.
CHECK_DEADLOCK FALSE
