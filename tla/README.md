# Formal models of cobweb

TLA+ models of the parts of cobweb (a home router in one Go binary: DHCP, DNS,
firewall, traffic shaping, dashboard) whose correctness depends on the order in
which goroutines, requests, failures and restarts interleave. TLC checks small
instances; TLAPS proves the safety properties that matter most for any number of
goroutines, clients, segments, rules and requests. `PROJECT.json` says which lines of the
source each definition models, and lists hazards, runs, mutants and findings.

## 1. The system

| component | state | operations | interacts with |
|---|---|---|---|
| `internal/config` | all settings and data in memory; `config.json`; `mu`, `fileMu`, `seq`, `mutGen`, `flushedGen`, `lastWritten`, `kick` | look-ups (RLock), settings edits (Lock, save at once), deferred changes (Lock, written by the flusher a second later), `Flush`, `Load` | called by everything |
| `internal/dhcp` | per segment: quarantined addresses, the packet in hand | DISCOVER, REQUEST, DECLINE, RELEASE | reads segments, reservations, leases; `UpsertLease`; the kernel's ARP table |
| `internal/dnsserver` | cache, hit and miss counts | a goroutine per query: local names, cache, recursive resolution, forwarding | `Snapshot` |
| `internal/firewall` | cobweb's two nft tables, in the kernel | `Render`, `Validate`, `Apply`, `Remove` | a `Snapshot`, the `nft` command |
| `internal/web` (firewall panel) | none of its own; the locals of each request | switch, add / remove / toggle a rule, Docker and VPN settings | setters of config, then `firewall.Apply`, then a roll-back |
| `internal/web` (other pages) | none of its own | edits, import, export, device list | config, sqm, status, netstat |
| `internal/sqm` | queueing disciplines, in the kernel | `Apply`, `Remove` | the `tc` and `ip` commands |
| `internal/auth` | sessions, failure count, credentials file | login, logout, change of account | web |
| `internal/status`, `internal/netstat` | last state of each listener; none | set, get; parse `/proc` | dhcp, dns, web |
| `cmd/cobweb` | goroutines of the process | start everything, retry listeners, exit on a signal | all |
| `update.sh` | binaries, backup of the configuration | install, restart, health check, roll-back | the service manager |

What is hard. Configuration: two mutexes and four counters taken at different
times, so that snapshots reach the disk out of order; retries; a stop at any
point. DHCP: every look-up is a critical section of its own, so check and record
of one server interleave with another server's, with edits and with the clock;
offers are not recorded, and replies may be lost whose leases are. DNS: queries for
one name walk side by side, replies are lost, late or overtaken, answers are kept
while the data changes. Firewall panel: save, snapshot, apply and roll-back of
concurrent requests interleave, and each may fail; and a ruleset has to mean the
same in four chains. Shaping: a sequence of commands may stop anywhere and two may
overlap. Login: throttle, sessions and credentials have a lock each. The `hazards` of
`PROJECT.json` place all of these at their lines.

## 2. Modules

### ConfigStore (internal/config/config.go, main.go)

Goroutines: `Editors` (web handlers that edit settings), `Hot` (DHCP servers and
dashboard polls), the `Flusher`, and the signal `Handler`. `pc` gives each one's
place between two lock operations; `snap` is the marshalled snapshot a saver
carries with its sequence number and generation. The contents of the fields do
not matter to any property, only which changes they include, so a configuration
is `[edits, defers]`: how many settings edits and deferred changes led to it.

- `sync.RWMutex` is modelled in the two halves of Go's Lock (`Announce` keeps new
  readers out; `HasMu` once the readers have left); Unlock lets waiting readers in
  (`AfterUnlock`). `fileMu` is a plain mutex.
- `EditAndMarshal` is any setter up to the `writeSnapshot` of its `saveLocked`;
  `Upsert` is `UpsertLease` or `UpsertDiscoveredDevice` with its
  `markDirtyLocked`; `FlushClean` and `FlushMarshal` are the two ways through the
  read-locked part of `Flush`.
- `TakeFile`, `WriteOK`, `WriteFail` are `writeSnapshot` (a stale snapshot is
  skipped, temp file and rename are one step: the rename is atomic and nothing
  reads the temp file), `Advance` is `advanceFlushed` with the return.
- `Receive`, `Wake`, `Rekick` are the flusher's loop; `Signal` and `Exit` the
  signal handler; `Crash` may come anywhere; `Boot` is `Load` followed by the
  `Save` of `main`. A failed first save ends the process, which is a `Crash`
  before anything was written; so is a failed migration.

`DurableStore` is what callers may rely on: memory moves by one change at a
time, the file only catches up, a restart resumes from the file. ConfigStore
implements it with `cur <- mem, saved <- disk`.

### DhcpServer (internal/dhcp/server.go)

One server goroutine per segment with its packet's locals in `srv[s]`. `Accept`
and `Decline` take a packet; `CheckReservation`, `CheckLease`, `ReadSegment`,
`CheckRequested`, `TryRequested`, `ReadPool`, `Scan` are the calls `allocate`
makes into the configuration, one step each; `Drop`, `SendNAK`, `Build`,
`SendOffer`, `SendACK`, `ReadExpiry`, `Record` the answer. Settings edits, removed
leases, the clock and restarts come between any two. The lease time is one of the
settings: `Build` reads it for the ACK and `ReadExpiry` for the record, and Settings
may change it between the two (`SetLeaseTime`). An ACK may be lost, because `send`
finds the segment gone, because its write fails, which it only logs, or on the wire;
the lease is recorded all the same. Clients are not modelled: any packet may arrive
at any time, which includes lost, repeated and late ones. Addresses are numbers with
the wrap-around of `nextIP`. `grant` is a history variable: what the last ACK that a
client heard promised, until it runs out, is refused by a NAK, or is declined. It
also notes the two ways in which the code goes back on a promise: an ACK of another
address that the client did not hear (`unheard`), and a lease time that Settings
lowered after it was read for the ACK (`lowered`).

A restart here keeps the leases in memory: what a crash may lose between two
flushes is ConfigStore's subject, and composing the two is planned.

### FirewallPanel (internal/web/firewall.go, internal/firewall/firewall.go)

Each request goes `set` (the setter and its save), `snap` (`applyIfEnabled`'s
snapshot), `apply` (`firewall.Apply`), `undo` (the roll-back). `kernel` is what
cobweb's tables were rendered from. `Renders` says when `Render` succeeds: some
segment, no overlap of Docker's and the VPN's patterns, and every active forward
rule's target in a segment; failures for the names of interfaces (which the
forms of the network page do not check) are failures of nft here. A save may
fail and leave memory changed; nft may fail; other pages edit segments or import
a configuration without applying it; the process may restart, with or without
the kernel. `solo` is a history variable: the request, if any, in which no other
request, page or restart had a part.

### FirewallRules (internal/firewall/firewall.go)

Render itself. `settings` is a snapshot, `tables` what `Install` (Apply) has made of
it or nothing; the sequence of requests around it is FirewallPanel's subject.
Interface names are sequences of characters, so that `Matches` (`ifaceMatches`)
and `Overlap` (`patternsOverlap`) compare prefixes as the code does; addresses are
numbers and a segment or a source a block of them; ports are numbers, ranges
included. `ValidPatterns`, `DockersValid`, `TrustedValid`, `RuleValid` are the
checks that make `Renders` fail; `Render` keeps the lists that are written out.
`AcceptsInput` and `AcceptsForward` are the two chains; all their rules accept and
the policy is drop, so that only the order of the dnat rules matters (`Redirected`).
nftables, routing and Docker's own table are external: `Arrivals` gives the packet
as routing sees it, and of Docker's and cobweb's redirections, which have the same
hook and priority, either may come first. A packet is the first one of a TCP or UDP
connection; established connections and ICMP are always accepted and left out.

### Delegation, DnsServer (internal/dnsserver)

`Delegation` is the world outside: zones with their servers, glue and aliases, and
what a server replies (`Line` is a name's way down from the root). `DnsServer` has
a goroutine per query: `LookupLocal`, `ChooseMode`, `CacheGet`, the walk, `Store`,
`FallBack`, `ReadUpstreams`, forwarding. `resolveIterativeFrom` calls itself for a
name server without glue; its calls are a stack of frames, with the hops of each
and the depth of all bounded as in the code (`MaxHops`, `MaxDepth`). A server says what it knows
at one moment (`Speak`) and is heard up to `QueryTimeout` later (`HearReply`), when
the data may have changed; or it is not heard at all (`LoseReply`). Names that
are aliases of local records, edits of the network settings and of local names come
between any two steps. An answer from the cache says a TTL of 60 whatever is left of
its own; properties are about the addresses. A clock tick does not interrupt a
goroutine that waits for nothing: milliseconds of computation are no time, while
a wait for the network takes any up to its deadline. What a walk can find at all is defined over
the tree, apart from the resolver: `HopPlans` gives each name the hops it takes,
`FindPlans` a set of names for each number of nested look-ups, such that each zone on
the way of a name has glue or a name server in the set before; `Findable` are the names
that some plan has.

### TrafficShaping (internal/sqm, the handlers of server.go, main.go)

`work` has the locals of each request and of the start-up code; each `modprobe`,
`ip` and `tc` command is a step (`Run`) that may fail (`ApplyFails` gives up,
`RemoveFails` goes on, as in the code). What a command needs and does (`Works`,
`Effect`) is external: the kernel's queueing disciplines, and the filter that
redirects to `ifb0` and dangles when that is deleted. Requests overlap, the network
page changes the WAN interface and an import the settings without a command, a
save may fail, the process may stop, restart or the machine reboot. Three history
variables delimit what the code can promise: `alone` (nobody else was in hand
meanwhile), `clean` (nothing failed without being noticed), and `tangled` (since
the boot, sequences overlapped, another interface was shaped, or a deletion failed).

### AdminLogin (internal/auth, login and account handlers)

`Delay`, `Verify`, `RecordFailure`, `RecordSuccess`, `Create`, `Valid`
(`Authorize`, `Refuse`), `Revoke`, `SetPassword` are one critical section each, as
their mutexes make them; between two of them another request may do anything. The
file is written within the lock of `SetPassword` (`Locked`). The count of failures
stops at three, from where a login is slowed down, by one second or five.

### MC modules

`MCConfigStore`, `MCDhcpServer`, `MCDnsServer`, `MCFirewallPanel` extend the modules
with the symmetry sets and the values that a `.cfg` cannot write. `MCDnsServer` runs
one of two parts, chosen at the start: `walk`, the tree with its aliases and missing
glue, and one in which a single name of the root is asked for, with a TTL of zero,
below the cap, or above it, and more time passes. `MCDashboard` runs
TrafficShaping, AdminLogin or FirewallRules, one of them chosen at the start
(`part`): they share no state.

## 3. Runs

| run | instance | shows |
|---|---|---|
| `config_store` | 2 editors, 1 hot goroutine, 2 edits, 2 deferred changes, 1 failed write, 1 stop | safety of persistence, refinement of DurableStore (1.1 M states) |
| `config_store_live` | 1 editor, 1 hot goroutine, 1 edit, 2 deferred changes, 1 failed write | deferred changes reach the disk, callers return |
| `dhcp_segments` | 2 clients, 2 segments with disjoint pools, 2 edits, 1 removed lease, 1 restart; no reservations and no time (`dhcp_one` has them) | no address recorded twice (1.0 M states) |
| `dhcp_one` | 2 clients, 1 segment with two pools, ARP, declines, 2 seconds, two lease times, 1 edit (pool, reservation or lease time), any reply lost | promises exclusive and recorded, renewals honoured, quarantine kept from others, every packet dealt with (1.9 M states) |
| `dns` | 2 queries at a time; `walk`: 3 zones of which one has no glue, an alias, a loop, 1 renumbering or edit, 1 lost reply, 2 upstreams, 1 second; `cache`: names with TTL 0, 2 and 5 under a cap of 3, 1 renumbering, 5 seconds; a reply up to 1 second on its way in both | answers fresh, what can be found is found, every query answered |
| `firewall_panel` | 2 requests at a time, 3 in all, 2 rules, 1 each of edit, failed save, nft failure, restart | the next lone request tells the truth (2.7 M states) |
| `dashboard` | shaping: 2 requests at a time, 3 in all, 2 interfaces, 1 failed save, 2 failed commands; login: 2 requests at a time, 2 changes, 1 token, 2 ticks; rules: 847 settings with 4356 packets each | shaping honest and never dangling; throttle, passwords and sessions; only ruled packets get in (1.4 M states) |
| `config_store_stall`, `config_store_exit`, `dhcp_decline`, `dhcp_gateway`, `firewall_race` | smaller instances of the same | five statements of the repository that the code does not keep |

**Bounds.** The races of the store need two savers with snapshots of different age
and a third that reads the generations: two editors, the flusher and the signal
handler give four. Two deferred changes distinguish "some" from "all", one failed
write reaches every retry, one stop is enough because nothing but the file outlives
it (the proofs remove all of these bounds). For DHCP, two clients that compete for
two or three addresses reach exhaustion, offers of one address to both and reuse
after expiry; time is one tick because quarantine and the shorter lease last one,
and the longer lease outlives it; one edit is enough to put a reservation in the
place of a promised address, and lose its ACK, or to lower the lease time between
ACK and record: without any one of the exceptions for these TLC finds a violation in
this instance. For DNS, the tree has one case of each kind: glue, a server to be
looked up first, a server that only its own zone knows, an alias into another zone
and an alias of itself; four hops and two calls are the least that can find all that
should be found and run out of both; the cached names have the three kinds of
lifetime there are (half a minute for zero, the TTL, the cap), and the clock goes on
until the longest has run out after a late reply: each bound of `ServedFresh` is
reached. For the panel, three requests with two in hand at a time leave any mess
that two can make and then run one alone; the same for shaping, where two failed
commands break both of two sequences. Three failures and one request more is where
the throttle begins, one tick is the life of a session and the memory of a failure.
The rules' settings combine pairs of rules with nested and disjoint segments, and
lists of patterns that are right, blank, bare `*`, or overlap each other, the WAN or
a segment. Symmetry is declared for editors, clients, requests and tokens, which no
definition tells apart, and only in runs without liveness. Deadlock is checked
wherever the clock or packets keep the system going; the runs that switch it off
stop by their bounds, or by `Exit`.

**Fairness.** `config_store_live`: goroutines that can run do run (weak
fairness of each one's steps). The two mutexes hand over in the end (strong
fairness of `Announce` and `TakeFile`): Go's mutexes enter starvation mode after
a millisecond and then serve in order. Calls, signals, crashes and restarts have
no fairness; nor has a failed write, of which there are `MaxFails`: a disk that
refuses every write is excluded, as the retry loop itself presumes.
`dhcp_one`: a server goroutine with a packet in hand goes on handling it; `dns`: so
does the goroutine of a query, whose waits for the network end by their timeouts.
Packets, queries and edits need never come.

**Findings.** Each violation run checks one statement of a comment of the
source:

- *"so a slow disk can never stall a DHCP lookup"* (`config.go:179`): a settings
  edit writes the file with `mu` held, and look-ups queue behind it.
- *"make sure a stop or restart doesn't lose the last second of them"*
  (`main.go:136`): the servers go on until `os.Exit`; a lease recorded after
  the final flush found nothing unsaved and returned is lost.
- *"the pool scan would offer the very same address again"* (`dhcp/server.go:221`):
  the branch for a client's own lease comes before the quarantine is looked at.
- *"never hand out the gateway's own address"* (`dhcp/server.go:430`): only the
  scan obeys; a client that asks for it gets it if the pool includes it.
- *"never cause cobweb to touch nftables"* while off (`web/firewall.go:27`): of
  two toggles side by side, the one that took its snapshot first (`firewall.go:54`)
  installs the tables after the other has removed them.

Met while modelling, and not the subject of a run: the depth of
`resolveIterativeFrom` bounds how calls nest, not the work of one query, as the
comment at `resolver.go:270-276` has it; a forward rule lets in packets addressed to
its target directly, not only those it redirects; the name of the WAN interface may
be `lo`; an ACK that `send` fails to write is recorded all the same, in place of
what the client was promised before, which others may then be given; a lease time
that is lowered between an ACK and its record makes the record expire first
(`AckRecorded` and `NoDoubleGrant` except these two); a change of the WAN interface
leaves the old one redirecting to a deleted `ifb0`, and a shaping that was switched
off while the process stopped stays.

## 4. Proofs

### ConfigStoreProofs

For any sets of editors and hot-path goroutines and any bounds, from the two
assumptions of ConfigStore (the goroutines are distinct; the bounds are natural
numbers): `TypeCorrect`, `SavesAreDurable`, `FlushedStaysOnDisk`,
`NoLostWakeup`, `ExitKeepsLeases`, `DiskForward`, `Refinement`, `WaitsEnd` and
`DeferredAdvances`.

None of these is inductive. The inductive invariant `IInv` says in addition

- `FileInv`: the holder of `fileMu` is writing, and its snapshot is not stale;
- `MemInv`: memory covers the file, and `mutGen` counts the deferred changes
  since the process started (`mem.defers = base + mutGen`);
- `OrderInv`, the idea of the proof: snapshots are numbered in the order of their
  contents. Of any two in flight the one with the higher number covers the other;
  one numbered above `lastWritten` covers the file, one below is covered by it.
  Numbers are drawn while `mu` is held (for reading at least), which is why this
  holds although two flushes may number in parallel;
- `RunInv`: nobody is under way while the process is down;
- `ExitInv`: the handler's snapshot includes what was in memory at the signal.

`SaveIsDurable`, `FlushedIsOnDisk` and `DiskMovesForward` follow from `OrderInv`;
`DirtyHasFlush` is proved with them, because a save by an editor may cover a
change before the flusher gets to it. Each preservation proof has one step per
action. TLC first checked each part of `IInv` on `config_store`'s instance.

Two theorems are the arguments behind the liveness properties, which the prover
cannot state with their fairness:

- `WaitsEnd`, for `HotReturns`: whoever is waited for (`WaitsFor`: to lock or to
  read-lock `mu`, for its readers to leave, for `fileMu`) is at work inside that mutex
  and lower in `Level`, so that three goroutines may wait for one another and no
  more. Its own invariant is `MuInv`: `mu` is locked by exactly those between its
  `Lock` and `Unlock`, and no reader is inside while an editor saves.
- `DeferredAdvances`, for `DeferredReachesDisk`: while the n-th deferred change is
  neither on disk nor lost with the process (`Owed`), the flusher runs, has a token if it waits for one
  (`OnItsWay`), and `Work`, nine places for each failure still to come and the place
  where it is, is positive; each step of the flusher decreases `Work`, and nobody
  else's step increases it (`BringsNearer`). The place counts whether the snapshot in hand includes the
  change, since a flush without it has to come round again.

### DhcpProofs

From DhcpServer's assumption on its constants, each with one step per action.

- `TypeCorrect`. `TypeInv` adds what a server needs at its place: the client once
  it has a packet, the gateway after `ReadSegment`, candidate and bound while it
  scans, an address once it has settled.
- `LeasesUnique`: no address is on record for two clients, with any number of
  segments, if (`Separate`) no address can be in the pools of two segments,
  whatever Settings make of each, and (`BelowTop`) no pool ends at the largest
  address, where `nextIP` would wrap into addresses of other segments. Both are
  hypotheses of the theorem, the code checks neither. Check (`IPInUse`) and
  record (`UpsertLease`) are separate critical sections, so the invariant has to
  say why an address stays free between them: what the server of a segment has
  settled on is reservable, or lies in one of its pools and is nobody else's on
  record (`StaysFree`); only that server records addresses of these pools, and it
  has one packet in hand. `AvailableFree` is what the check establishes,
  `RecordUnique` the step where two segments could collide.
- `RenewalsNotRefused`, without these hypotheses: once `allocate` has passed over a
  client's lease, that lease is not the one the client asks for, and it stays so
  because leases of a segment are only made by its server (`Honours`).
- `AckRecordedForOne`, about one client m. `PromiseInv` says that what the last ACK
  it heard promised is on record for as long as it said, or is about to be
  (`Backed`), and that a server about to record owes it this very address
  (`Owes`). Excepted are the two cases noted in `grant`: a later ACK of another
  address that it did not hear, and, for the expiry only, a lease time lowered since
  the ACK was built. The theorem is about behaviours in which three things do not happen to m,
  because each of them does break the property in the code: m is heard on two
  segments (`HeardAt`; leases are keyed by MAC alone, so that each overwrites the
  other's), its lease is cleared by hand, or the process restarts between an ACK to
  it and its record (`RecordedFirst`). Nothing is assumed of other clients: they may
  move, be cleared, and be cut short by restarts. Edits, of the lease time too, lost
  replies, time, declines, and any number of clients and segments are not restricted. `AcksRecorded` (`AckRecorded`)
  is the same of all clients together.
- `PromisesApart`, about two clients under the same conditions, adds `ExclusiveInv`,
  their promises are of two addresses, to `PromiseInv` of each and the invariant of
  `LeasesUnique`, whose hypotheses it shares: what a server sends is nobody else's on
  record (`StaysFree`), and what was promised to the other client is on record for it.
  `PromisesExclusive` (`NoDoubleGrant`) is the same of all clients together.
- `DeclinedKeptFromOne`, about one client that is heard on one segment and whose lease
  is not cleared. `DeclineInv` says of a server that has
  settled on an address that it is not in quarantine, or the client's own (`Spared`): the
  quarantine is per segment, and only this server, which is busy, takes a DECLINE.
  `DeclinedKept` (`DeclinedNotReassigned`) is the same of all clients together.
- `PacketsAdvance`, the argument behind `HandlerReturns`: with `BelowTop`, a server deals
  with a packet in at most as many of its own steps as there are addresses and eleven
  more (`StepsLeft`); each of its steps uses up some of them, and no edit, tick, packet
  or other server's step adds to them (`ComesNearer`). A scan goes on with the bound it
  read from the segment, and that ends below the largest address
  whatever the segment has become since (`ScansEnd`). Without `BelowTop` it is false: the scan wraps.

### FirewallPanelProofs

From FirewallPanel's assumption. `TypeCorrect` rests on lemmas about the setters
(`ChangedType`) and roll-backs (`UndoneType`). `LoneInv` says what the locals of a
request that has been alone so far tell of the shared state: the kernel is as it
was, the configuration is the former one until the setter ran and the changed one
after it, the snapshot is the configuration of now, and nobody else is in hand.
With `RollBack` (what undoing a change of each kind gives) this yields
`LoneChangesSync`, `LoneEnablesHonest` and `LoneFailuresChangeNothing`, for any
number of requests before, during and after.

### DnsProofs

For any tree of zones that satisfies Delegation's and DnsServer's assumptions, any
number of queries and any bounds. `TypeCorrect` includes that nested calls stay
within `MaxDepth` and hops within `MaxHops`. `AnswersFresh` (`ServedFresh`) needs an
invariant that follows a query through its walk (`IInv`): a query that walks is on
the line of aliases of the name it was asked for (`Sound`), a reply on its way says
what was so when it was sent, at most `QueryTimeout` ago (`WireOK`), what the first
call has returned was so within that time (`ResultOK`, which the urgent clock keeps
until it is stored), and a cache entry expires a lifetime and a `QueryTimeout`
(`Usable`) after the name last had its addresses, or sooner (`EntryOK`, from `Had`
over the history of the zone data). `LifetimeBounds` is the lemma about the cap and
the zero TTL of `cache.set`.

### DnsFindProofs

`WalksFind` (`FailsOnlyIfUnfindable`), for any tree without lame delegations
(`NoLameDelegation`: what glue or the names of a zone's servers give hosts the zone;
resolveIterativeFrom gives up at a server that answers without being one of its
zone), any number of queries, and any depth and hops. The
invariant `FindInv` is about one plan that has the name asked for. Of the nested calls of
a walk it says that one, j, is on a good way (`GoodWay`): it asks servers of a zone on
its line with the hops left that its name needs (`Asks`), or has a name server of the plan
left to look up (`HasAnother`), and each call below waits for a name server whose
addresses, whichever it has at that moment, host the zone it was referred to (`Waits`);
a reply on its way is one that a server asked by the call on top may give (`WireSaid`).
Calls above j may fail as they like: `StaysBelow`. When j looks up a name server of the
plan the new call takes its part (`Nesting`), when it has found addresses its caller does
(`CallerAsks`, where `FoundRight` says that they are the name's); a call that runs out of
depth is never j (`NoDepthLeft`), and one that runs out of hops is not either (`Descends`,
`FollowsAlias`, by `HopsNeeded`). TLC checked `FindInv` for every plan of `dns`'s instance,
which asserts `NoLameDelegation`.

`WalksAdvance`, for any tree at all, is the argument why walks end, which the liveness
property itself (`EveryQueryAnswered`) can only be checked for: each step of a walk
changes, of the calls that were there before, the deepest one it changes to one that is
over, or has more hops behind it, or fewer servers, or fewer name servers to try
(`Later`), or the call on top gets its result (`Proceeds`), or else a reply to it is now
on its way (`Advances`). Since depth and hops are
bounded (`TypeCorrect`) and addresses and names finitely many, this cannot go on for
ever; that last conclusion is not formalised, for it is an induction over data. TLC
checked `Advances` on the instance of `dns` too.

### ShapingProofs

For any interfaces, limits and number of requests. `ShapingTypeCorrect`: a sequence
always has an interface, limits and a next command. `NothingLost`
(`NoDanglingRedirect`) follows from `CalmInv`: while nothing is tangled at most one
sequence runs, no other interface is shaped, and each command of it so far has left
its mark on the kernel (`Done`). `AppliedAsSaved` (`LoneShapingHonest`) follows from
`LoneInv`: a request that was alone so far finds memory and file as it left them
and its own marks on the kernel, whatever was there before it came.

### LoginProofs

For any number of requests, passwords and tokens. `ChangesKept` from `ChangeInv`,
the order `reported <= stored <= in force`; `OnlyLoggedIn` from `SessionInv`, which
ties each session to the login it was made at; `SlowedDown` from `SlowInv`, which
counts: failures that were not delayed and requests that still may become one
(`Undelayed`) are together never more than two plus the number of requests.

### FirewallRulesProofs

For any settings, network, and packets. `RulesInv` says that the tables are those
of the settings at hand, which rendered. `OverlapComplete` shows that two patterns
that match one name are reported by `patternsOverlap`, whichever of them is a
prefix pattern; from it `RendersSeparated`: in settings that render no interface
has two of the roles WAN, segment, Docker bridge and trusted, bridges and trusted
ones included. With `ArrivalsOf` (what a redirection may change) and
`ForwardIntoSegment` (where forward rules lead) this gives `ContainersShielded`,
`TrustedShielded`, `WanClosed` and `ForwardsArrive`. The first three assume of the
network what no program can check (`Wired`): a segment's addresses are reached by
its interface, a container's are not, and the WAN interface is not `lo`.

### Only model-checked

Liveness (`DeferredReachesDisk`, `HotReturns`, `HandlerReturns`, `EveryQueryAnswered`),
which is beyond the prover. What can be stated of them without fairness is proved:
that the work left is bounded and every step of those who do it uses some up
(`DeferredAdvances`, `PacketsAdvance`, `WalksAdvance`), and that waiting for the
mutexes ends (`WaitsEnd`). That goroutines which can run do run, and that a measure
that falls cannot fall for ever, is the part that stays with TLC. Every safety
property that a passing run checks is the subject of a theorem.

## 5. Not modelled

Byte layouts (DHCP options, DNS messages), rendering of pages and of the ruleset's
text, the characters that names and comments may contain, parsers of `/proc`, socket
options and the address a DNS reply is sent from, password hashing, service files:
formatting or pure I/O. Service status is a map that nothing reads back. The
firewall's warnings and its look at other tables only inform. The updater is a shell
script run by hand. `runForever` starts a listener again after a pause and keeps no
state. DHCP: `RELEASE` changes no state; a reservation for an address that someone
else has leased is legal for the code, and properties except such addresses
(`Reservable`). Of the dashboard, pages that only show something, and edits that no
other component depends on, are left out.

## 6. Plan

In this order; a module marked * will get theorems.

1. `ConfigStore`*, `DurableStore` - done, with proofs.
2. `DhcpServer`* - done, with proofs of all its safety properties.
3. `FirewallPanel`* - done, with proofs.
4. `FirewallRules`* - done, with proofs; next, composed with FirewallPanel: what
   connections that were established under earlier rules may still do.
5. `Delegation`, `DnsServer`* - done, with proofs of all its safety properties; next a
   bound on the servers one query may ask.
6. `TrafficShaping`* and `AdminLogin`* - done, with proofs.
7. `DhcpOverStore`: DhcpServer composed with DurableStore: which ACKs a crash may
   forget, and that a forgotten one is repaired at the renewal.
8. `Process`: listeners' retries, and the updater with its roll-back.
