\* Operations of the buttons' task and of the HTTP server, one at a time, and a
\* network that is in range.
CONSTANTS
  Callers = 1
  MaxCalls = 2
SPECIFICATION FairSpec
INVARIANTS
  RadioAgrees
  ConnectionKnown
  KeepsTrying
PROPERTIES
  StationConnects
\* With both components off and the bound of calls reached nothing happens.
CHECK_DEADLOCK FALSE
