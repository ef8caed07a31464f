\* A client declines the address it has on record.
SPECIFICATION Spec
CONSTANTS
  s1 = s1
  s2 = s2
  Macs = {m1, m2}
  Segments = {s1}
  TopAddr = 3
  SegmentDefs <- Pool12
  Reservable = {}
  Types = {"REQUEST", "DECLINE"}
  Wants = {None, 1, 2}
  ServerIds = {None}
  ArpViews = {{}}
  LeaseTimes = {1}
  Quarantine = 1
  None = None
  MaxTime = 1
  MaxEdits = 0
  MaxRemovals = 0
  MaxRestarts = 0
PROPERTY DeclinedNotOffered
