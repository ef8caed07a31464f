\* Two requests at a time, failures of nft and of a save, edits elsewhere, a restart.
SPECIFICATION Spec
CONSTANTS
  forward = forward
  input = input
  s1 = s1
  s2 = s2
  bridges = bridges
  vpn = vpn
  None = None
  Handlers = {h1, h2}
  Rules = {forward, input}
  Target <- TargetOf
  Segments = {s1, s2}
  Dockers = {None, bridges}
  Trusteds = {None, vpn}
  Clashes <- Overlapping
  Imports <- Exported
  MaxPosts = 3
  MaxEdits = 1
  MaxSaveFails = 1
  MaxNftFails = 1
  MaxRestarts = 1
SYMMETRY Interchangeable
\* The bounds stop everything in the end.
CHECK_DEADLOCK FALSE
INVARIANT TypeOK
PROPERTIES
  LoneChangeSyncs
  LoneFailureChangesNothing
  LoneEnableHonest
