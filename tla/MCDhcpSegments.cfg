\* Two servers with disjoint pools, two edits, a removed lease, a restart.  No time
\* passes: the lease time plays no part.
SPECIFICATION Spec
CONSTANTS
  s1 = s1
  s2 = s2
  Macs = {m1, m2}
  Segments = {s1, s2}
  TopAddr = 4
  SegmentDefs <- DisjointPools
  Reservable = {}
  Types = {"REQUEST"}
  Wants = {None, 1, 2}
  ServerIds = {None}
  ArpViews = {{}}
  LeaseTimes = {0}
  Quarantine = 1
  None = None
  MaxTime = 1
  MaxEdits = 2
  MaxRemovals = 1
  MaxRestarts = 1
SYMMETRY Clients
INVARIANTS
  TypeOK
  LeaseUnique
