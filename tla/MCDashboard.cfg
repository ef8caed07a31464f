\* Two requests at a time on either side, and the process may end at any step; a few
\* hundred settings of the firewall, with every packet there is.
SPECIFICATION Spec
CONSTANTS
  Handlers = {h1, h2}
  Main = main
  eth0 = eth0 eth1 = eth1 fast = fast
  Ifaces = {eth0, eth1}
  NoWAN = NoWAN
  Rates = {fast, slow}
  Off = Off
  NoLimits = NoLimits
  Imports <- ImportsOf
  MaxRequests = 3
  MaxSaveFails = 1
  MaxCmdFails = 2
  Visits = {v1, v2}
  Passwords = {admin, other}
  DefaultPassword = admin
  Tokens = {t1}
  Nothing = Nothing
  SessionTTL = 1
  Forget = 1
  MaxChanges = 2
  MaxTime = 2
  Chars <- Letters
  Interfaces <- Nics
  Loopback <- Lo
  DefaultDockers <- Defaults
  Addresses = {0, 2, 3, 4, 5, 6, 8, 9, 12, 13, 14}
  Here = Here
  Route <- Cables
  Published <- Containers
  MaxPort = 3
  Anyone = Anyone
  NoTables = NoTables
  Snapshots <- SetUps
SYMMETRY Alike
INVARIANTS
  ShapingTypeOK
  LoneShapingHonest
  NoDanglingRedirect
  LoginTypeOK
  SlowedAfterThree
  ChangeKept
  ContainersOnlyPublished
  NoneTowardTrusted
  WanOnlyAsRuled
  ForwardsDeliver
PROPERTY AdmittedWhileLoggedIn
