---------------------------- MODULE FirewallRules ----------------------------
(***************************************************************************)
(* internal/firewall/firewall.go: the ruleset that Render makes of a       *)
(* snapshot of the settings, and the packets it lets in.  FirewallPanel    *)
(* says when a ruleset is installed and removed; here a snapshot is given, *)
(* and what matters is which packets its tables accept.                    *)
(*                                                                         *)
(* Interface names are sequences, because the patterns of Docker bridges   *)
(* and trusted interfaces are prefixes of names.  Addresses are numbers, a *)
(* segment or a source a block of them.  A packet is the first of a new    *)
(* connection, TCP or UDP: replies and ICMP are always accepted.           *)
(***************************************************************************)
EXTENDS Integers, Sequences

Seqs == INSTANCE SequencesExt

CONSTANTS
  Chars,           \* of interface names
  Interfaces,      \* names of this machine's interfaces
  Loopback,        \* "lo"
  DefaultDockers,  \* DefaultDockerInterfaces
  Addresses,       \* IPv4 addresses
  Here,            \* the route to one of this machine's own addresses
  Route,           \* address |-> the interface it is reached by, or Here
  Published,       \* the ports that Docker redirects to a container
  MaxPort,
  Anyone,          \* no source is given
  NoTables,        \* the firewall is off
  Snapshots        \* settings that are considered

Patterns == [stem : Seq(Chars), any : BOOLEAN]
Segment == [iface : Seq(Chars), address : Addresses, size : Nat \ {0}]
Sources == {Anyone} \union [base : Nat, size : Nat \ {0}]
Protos == {"tcp", "udp"}

\* A rule of the settings; toPort is 0 if it was left blank, and protos is empty
\* if the protocol is none or the kind is neither of the two.
PortRules == [kind : {"forward", "input"}, protos : SUBSET Protos, lo : Nat, hi : Nat,
              toIP : Addresses, toPort : Nat, source : Sources, disabled : BOOLEAN]

Snapshot == [wan : Seq(Chars), segments : Seq(Segment), dockerOn : BOOLEAN,
             docker : SUBSET Patterns, dockerSource : Sources,
             trusted : SUBSET Patterns, rules : Seq(PortRules)]

Packets == [in : Interfaces, src : Addresses, dst : Addresses, proto : Protos,
            port : 1..MaxPort]

ASSUME RulesAssumption ==
  /\ Interfaces \subseteq Seq(Chars) /\ Loopback \in Seq(Chars)
  /\ DefaultDockers \subseteq Patterns
  /\ Addresses \subseteq Nat /\ Here \notin Interfaces
  /\ Route \in [Addresses -> Interfaces \union {Here}]
  /\ MaxPort \in Nat
  /\ Published \subseteq [proto : Protos, port : 1..MaxPort, to : Addresses,
                          toPort : 1..MaxPort]
  /\ Snapshots \subseteq Snapshot

VARIABLES
  settings,  \* the snapshot at hand
  tables     \* what nft has installed, or NoTables

ruleVars == <<settings, tables>>
-----------------------------------------------------------------------------
(* Names and patterns of interfaces.                                        *)

Exactly(name) == [stem |-> name, any |-> FALSE]
Blank == Exactly(<<>>)

\* ifaceMatches, and iifname / oifname of nftables
Matches(p, name) == IF p.any THEN Seqs!IsPrefix(p.stem, name) ELSE p.stem = name

Covered(ps, name) == \E p \in ps : Matches(p, name)

\* Mutated: a trailing * is not looked at.
SameStem(a, b) == a.stem = b.stem

\* patternsOverlap
Overlap(a, b) == \/ a = b
                 \/ a.any /\ Seqs!IsPrefix(a.stem, b.stem)
                 \/ b.any /\ Seqs!IsPrefix(b.stem, a.stem)

\* validatePatterns: a lone * is no pattern, and blank entries are skipped.
ValidPatterns(ps, reserved) ==
  \A p \in ps \ {Blank} : p.stem # <<>> /\ \A r \in reserved \ {Blank} : ~Overlap(p, r)

LanNames(c) == {c.segments[i].iface : i \in DOMAIN c.segments}

\* Mutated: the WAN interface may be trusted.
ReservedLans(c) == {Exactly(name) : name \in {Loopback} \union LanNames(c)}

\* baseReserved
Reserved(c) == {Exactly(name) : name \in {c.wan, Loopback} \union LanNames(c)}

\* effectiveDockerPatterns
EffectiveDockers(c) == (IF c.docker = {} THEN DefaultDockers ELSE c.docker) \ {Blank}

Bridges(c) == IF c.dockerOn THEN EffectiveDockers(c) ELSE {}
Trusted(c) == c.trusted \ {Blank}

\* DockerInterfaces succeeds.
DockersValid(c) ==
  /\ EffectiveDockers(c) # {}
  /\ ValidPatterns(EffectiveDockers(c),
                   Reserved(c) \union (IF c.dockerOn THEN c.trusted ELSE {}))

\* TrustedInterfaces succeeds.
TrustedValid(c) == ValidPatterns(c.trusted, Reserved(c) \union Bridges(c))
-----------------------------------------------------------------------------
(* The settings' rules.                                                     *)

From(source, a) == source # Anyone => a \div source.size = source.base \div source.size

\* parseSource: no host bits.
SourceValid(source) == source # Anyone => source.base % source.size = 0

Contains(seg, a) == a \div seg.size = seg.address \div seg.size

\* The first segment that contains the target has another address of ours.
TargetValid(c, a) ==
  \E i \in DOMAIN c.segments :
    /\ Contains(c.segments[i], a) /\ a # c.segments[i].address
    /\ \A j \in 1..i - 1 : ~Contains(c.segments[j], a)

\* normalize succeeds.
RuleValid(c, r) ==
  /\ r.protos # {} /\ 1 <= r.lo /\ r.lo <= r.hi /\ r.hi <= MaxPort
  /\ SourceValid(r.source)
  /\ r.kind = "forward" =>
       /\ TargetValid(c, r.toIP)
       /\ r.toPort # 0 => r.lo = r.hi /\ r.toPort <= MaxPort

\* Mutated: the forward chain looks for the port from before the redirection.
PreNATPorts(r) == r.lo..r.hi

PostNATPorts(r) == IF r.toPort = 0 THEN r.lo..r.hi ELSE {r.toPort}

\* Indices of the rules that are rendered, in their order.
Active(c, kind) == {i \in DOMAIN c.rules : ~c.rules[i].disabled /\ c.rules[i].kind = kind}
-----------------------------------------------------------------------------
(* Render                                                                   *)

Renders(c) ==
  /\ c.wan # <<>> /\ c.segments # <<>>
  /\ \A name \in LanNames(c) : name # <<>> /\ name # c.wan
  /\ c.dockerOn => DockersValid(c) /\ SourceValid(c.dockerSource)
  /\ TrustedValid(c)
  /\ \A i \in DOMAIN c.rules : ~c.rules[i].disabled => RuleValid(c, c.rules[i])

Render(c) == [wan |-> c.wan, lans |-> LanNames(c), docker |-> Bridges(c),
              dockerSource |-> c.dockerSource, trusted |-> Trusted(c),
              input |-> [i \in Active(c, "input") |-> c.rules[i]],
              forward |-> [i \in Active(c, "forward") |-> c.rules[i]]]
-----------------------------------------------------------------------------
(* What the installed tables do to a packet: prerouting may redirect it,    *)
(* routing decides between input and forward.                               *)

\* The rule's source, protocol and ports.
Meets(r, p, ports) == From(r.source, p.src) /\ p.proto \in r.protos /\ p.port \in ports

Ports(r) == r.lo..r.hi
Local(p) == Route[p.dst] = Here

\* dnat rules that a packet satisfies; the first of them redirects it.
Hits(t, p) == {i \in DOMAIN t.forward : /\ p.in = t.wan /\ Local(p)
                                        /\ Meets(t.forward[i], p, Ports(t.forward[i]))}

Redirect(r, p) == [p EXCEPT !.dst = r.toIP, !.port = IF r.toPort = 0 THEN @ ELSE r.toPort]

Redirected(t, p) == {Redirect(t.forward[i], p) : i \in {j \in Hits(t, p) :
                                                  \A k \in Hits(t, p) : j <= k}}

\* Docker's own table at the same hook and priority
ByDocker(p) == {[p EXCEPT !.dst = d.to, !.port = d.toPort] : d \in
                  {e \in Published : Local(p) /\ e.proto = p.proto /\ e.port = p.port}}

\* The packet as routing sees it: of two redirections either may come first.
Arrivals(t, p) == LET moved == Redirected(t, p) \union ByDocker(p)
                  IN IF moved = {} THEN {p} ELSE moved

\* chain input
AcceptsInput(t, p) ==
  \/ p.in = Loopback
  \/ p.in \in t.lans
  \/ Covered(t.docker \union t.trusted, p.in)
  \/ p.in = t.wan /\ \E i \in DOMAIN t.input : Meets(t.input[i], p, Ports(t.input[i]))

\* chain forward: packet p of a connection that is redirected (ct status dnat) or not
AcceptsForward(t, p, redirected) ==
  LET out == Route[p.dst] IN
  \/ p.in \in t.lans /\ out \in t.lans \union {t.wan}
  \/ \E d \in t.docker :
       \/ Matches(d, p.in) /\ (Matches(d, out) \/ out \in t.lans \union {t.wan})
       \/ /\ redirected /\ Matches(d, out)
          /\ \/ p.in \in t.lans
             \/ p.in = t.wan /\ From(t.dockerSource, p.src)
  \/ \E tr \in t.trusted : /\ Matches(tr, p.in)
                           /\ \/ out \in t.lans \union {t.wan}
                              \/ redirected /\ Covered(t.docker, out)
  \/ p.in = t.wan /\ \E i \in DOMAIN t.forward :
                        /\ p.dst = t.forward[i].toIP
                        /\ Meets(t.forward[i], p, PostNATPorts(t.forward[i]))

\* Mutated: Docker's rules do without ct status dnat.
AcceptsDirect(t, p, q) == IF Local(q) THEN AcceptsInput(t, q) ELSE AcceptsForward(t, q, TRUE)

\* The first packet of connection p gets through as q.
Accepts(t, p, q) == IF Local(q) THEN AcceptsInput(t, q) ELSE AcceptsForward(t, q, q # p)
-----------------------------------------------------------------------------
(* Apply, and Remove.                                                       *)

Install == Renders(settings) /\ tables' = Render(settings) /\ UNCHANGED settings
Uninstall == tables' = NoTables /\ UNCHANGED settings

RulesInit == settings \in Snapshots /\ tables = NoTables
RulesNext == Install \/ Uninstall
RulesSpec == RulesInit /\ [][RulesNext]_ruleVars
-----------------------------------------------------------------------------
(* Properties                                                               *)

Installed == tables # NoTables

\* q leaves by an interface that one of the patterns covers.
Toward(ps, q) == ~Local(q) /\ Covered(ps, Route[q.dst])

\* The network is cabled as the settings say: addresses of a segment are reached
\* by its interface (or are this machine's), those of containers are not, and the
\* WAN is not the loopback interface.
Wired(c) ==
  /\ c.wan # Loopback
  /\ \A i \in DOMAIN c.segments, a \in Addresses :
       Contains(c.segments[i], a) => Route[a] \in {c.segments[i].iface, Here}
  /\ \A d \in Published : Route[d.to] \notin LanNames(c) \union {c.wan}

\* README.md:514 and firewall.go:557-558: nothing reaches a container at its own
\* address, from whatever interface that is not itself one of Docker's bridges;
\* only ports that Docker publishes are let in, and redirected there.  The
\* patterns of trusted interfaces and segments must not cover a bridge for this.
ContainersOnlyPublished ==
  Installed /\ Wired(settings) =>
    \A p \in Packets : \A q \in Arrivals(tables, p) :
      /\ Toward(Bridges(settings), q)
      /\ ~Covered(Bridges(settings), p.in) /\ Accepts(tables, p, q)
      => q \in ByDocker(p)

\* README.md:557-558 and firewall.go:569-570: a new connection is never let in
\* toward a trusted interface, whatever the patterns in use.
NoneTowardTrusted ==
  Installed /\ Wired(settings) =>
    \A p \in Packets : \A q \in Arrivals(tables, p) :
      Toward(Trusted(settings), q) => ~Accepts(tables, p, q)

\* README.md:406-407: what comes from the WAN is dropped unless a rule opens just
\* that: an input rule its port here, a forward rule the port that is redirected,
\* or addressed, to its target, Docker a published port for its allowed source.
WanOnlyAsRuled ==
  Installed /\ Wired(settings) =>
    \A p \in Packets : \A q \in Arrivals(tables, p) :
      p.in = settings.wan /\ Accepts(tables, p, q) =>
        \/ Local(q) /\ \E i \in Active(settings, "input") :
                         Meets(settings.rules[i], q, Ports(settings.rules[i]))
        \/ \E i \in Active(settings, "forward") :
             LET r == settings.rules[i] IN
             /\ q.dst = r.toIP
             /\ Meets(r, p, IF Local(p) THEN Ports(r) ELSE PostNATPorts(r))
        \/ q \in ByDocker(p) /\ From(settings.dockerSource, p.src)

\* README.md:414-418 and firewall.go:354-355: what a forward rule redirects it also
\* lets in, on the port it has by then.  The first of several rules decides, and
\* ports that Docker publishes are left out.
ForwardsDeliver ==
  Installed =>
    \A p \in Packets : \A i \in Active(settings, "forward") :
      LET r == settings.rules[i] IN
      /\ p.in = settings.wan /\ Local(p) /\ Meets(r, p, Ports(r)) /\ ByDocker(p) = {}
      /\ \A j \in Active(settings, "forward") :
           j < i => ~Meets(settings.rules[j], p, Ports(settings.rules[j]))
      /\ Route[r.toIP] # Here
      => \A q \in Arrivals(tables, p) :
           /\ q.dst = r.toIP /\ q.port = (IF r.toPort = 0 THEN p.port ELSE r.toPort)
           /\ Accepts(tables, p, q)
=============================================================================
