\* Two queries at a time: for names with aliases and servers without glue, with a
\* renumbered host or an edit of the settings; or for one name with a TTL of zero,
\* below the cap or above it, until what is kept has run out.
SPECIFICATION PartSpec
CONSTANTS
  root = root glued = glued bare = bare
  alias = alias host = host loop = loop ns = ns inner = inner
  zero = zero short = short long = long
  r1 = r1 a1 = a1 b1 = b1 b2 = b2 w1 = w1 w2 = w2
  reliable = reliable
  flaky = flaky
  None = None
  Names = {alias, host, loop, ns, inner, zero, short, long}
  Addrs = {r1, a1, b1, b2, w1, w2}
  Zones = {root, glued, bare}
  Root = root
  Line <- LineOf
  Hosts <- HostsOf
  NSNames <- NSNamesOf
  Glue <- GlueOf
  Alias <- AliasOf
  TTL <- TTLOf
  Canonical <- CanonicalOf
  FirstZone <- FirstZoneOf
  Goroutines = {g1, g2}
  Asked = {alias, loop, zero, short, long}
  LocalEdits <- LocalEditsOf
  Upstreams = {reliable, flaky}
  Reliable = {reliable}
  Settings <- SettingsOf
  MaxHops = 4
  MaxDepth = 2
  ZeroTTL = 1
  MaxTTL = 3
  QueryTimeout = 1
  Moves <- MovesOf
  MaxLosses = 1
  MaxChanges = 1
  MaxTime = 5
PROPERTY EveryQueryAnswered
INVARIANTS
  TypeOK
  ServedFresh
  FailsOnlyIfUnfindable
