\* One server, one edit of its pool, a reservation or the lease time; neighbours in
\* the ARP table; declines; lost replies.
SPECIFICATION FairSpec
CONSTANTS
  s1 = s1
  s2 = s2
  Macs = {m1, m2}
  Segments = {s1}
  TopAddr = 4
  SegmentDefs <- MovablePool
  Reservable = {3}
  Types = {"DISCOVER", "REQUEST", "DECLINE"}
  Wants = {None, 1, 3}
  ServerIds = {None, 4}
  ArpViews = {{}, {1}}
  LeaseTimes = {1, 2}
  Quarantine = 1
  None = None
  MaxTime = 2
  MaxEdits = 1
  MaxRemovals = 0
  MaxRestarts = 0
INVARIANTS
  NoDoubleGrant
  AckRecorded
PROPERTIES
  RenewalNeverRefused
  DeclinedNotReassigned
  HandlerReturns
