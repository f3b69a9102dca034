CONSTANTS
  h1 = h1
  h2 = h2
  h3 = h3
  Handlers = {h1, h2, h3}
  MAX_SERIAL = 2
  MAX_EVENTS = 1
SPECIFICATION FairSpec
CHECK_DEADLOCK FALSE
INVARIANTS
  StateMatchesTask
  StopIsComplete
  ShutdownLeavesNothing
PROPERTIES
  TerminalIsFinal
  EveryStopReturns
  ShutdownCompletes
