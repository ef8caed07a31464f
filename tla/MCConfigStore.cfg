\* Two settings pages, one hot-path goroutine, one restart.
SPECIFICATION Spec
CONSTANTS
  Editors = {e1, e2}
  Hot = {h1}
  Flusher = Flusher
  Handler = Handler
  NoOne = NoOne
  MaxEdits = 2
  MaxDefers = 2
  MaxFails = 1
  MaxStops = 1
SYMMETRY Symmetric
\* The process may stop for good once MaxStops is reached.
CHECK_DEADLOCK FALSE
INVARIANTS
  TypeOK
  SaveIsDurable
  FlushedIsOnDisk
  DirtyHasFlush
  CleanExitKeepsLeases
PROPERTIES
  DiskMovesForward
  ImplementsDurableStore
