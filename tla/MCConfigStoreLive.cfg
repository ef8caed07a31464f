SPECIFICATION FairSpec
CONSTANTS
  Editors = {e1}
  Hot = {h1}
  Flusher = Flusher
  Handler = Handler
  NoOne = NoOne
  MaxEdits = 1
  MaxDefers = 2
  MaxFails = 1
  MaxStops = 0
CHECK_DEADLOCK FALSE
PROPERTIES
  DeferredReachesDisk
  HotReturns
