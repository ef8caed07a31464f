SPECIFICATION Spec
CONSTANTS
  Editors = {e1}
  Hot = {h1}
  Flusher = Flusher
  Handler = Handler
  NoOne = NoOne
  MaxEdits = 1
  MaxDefers = 1
  MaxFails = 0
  MaxStops = 0
CHECK_DEADLOCK FALSE
INVARIANT LookupNeverWaitsForDisk
