\* Two requests at a time, one rule; nft never fails and nothing else happens.
SPECIFICATION Spec
CONSTANTS
  forward = forward
  input = input
  s1 = s1
  s2 = s2
  bridges = bridges
  vpn = vpn
  None = None
  Handlers = {h1, h2}
  Rules = {input}
  Target <- TargetOf
  Segments = {s1, s2}
  Dockers = {None}
  Trusteds = {None}
  Clashes = {}
  Imports = {}
  MaxPosts = 3
  MaxEdits = 0
  MaxSaveFails = 0
  MaxNftFails = 0
  MaxRestarts = 0
SYMMETRY Interchangeable
\* The bounds stop everything in the end.
CHECK_DEADLOCK FALSE
INVARIANT OffMeansRemoved
