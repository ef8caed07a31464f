------------------------------ MODULE Delegation ------------------------------
(***************************************************************************)
(* The DNS outside cobweb: a tree of zones, each served from some          *)
(* addresses, and what a server answers when the resolver asks it for the  *)
(* A records of a name (internal/dnsserver/resolver.go is all that uses    *)
(* it).  A server answers for the deepest zone of the name's line that it  *)
(* hosts: with the records, with an alias, or with a referral one zone     *)
(* further down.  Only the addresses a name has change with time.          *)
(***************************************************************************)
EXTENDS Naturals, Sequences

CONSTANTS
  Names,      \* lower-cased names
  Addrs,      \* IPv4 addresses, those of name servers among them
  Zones,
  Root,       \* the root zone
  Line,       \* name |-> the zones from the root to the one that holds it
  Hosts,      \* zone |-> addresses of its servers
  NSNames,    \* zone |-> names of its servers, as its parent gives them
  Glue,       \* zone |-> addresses the parent adds for these names
  Alias,      \* name |-> the target of its CNAME, or None
  TTL,        \* name |-> time to live of its A records
  Canonical,  \* name |-> the name at the end of its aliases
  FirstZone,  \* name |-> the addresses it has at first
  None

ASSUME DelegationAssumption ==
  /\ None \notin Names
  /\ Root \in Zones
  /\ Line \in [Names -> Seq(Zones)]
  /\ Hosts \in [Zones -> SUBSET Addrs]
  /\ NSNames \in [Zones -> SUBSET Names]
  /\ Glue \in [Zones -> SUBSET Addrs]
  /\ Alias \in [Names -> Names \union {None}]
  /\ TTL \in [Names -> Nat]
  /\ FirstZone \in [Names -> SUBSET Addrs]
  /\ \A n \in Names : Alias[n] # None => FirstZone[n] = {}

\* What Canonical means: aliases are followed, other names stand for themselves.
ASSUME CanonicalAssumption ==
  /\ Canonical \in [Names -> Names]
  /\ \A n \in Names :
       Canonical[n] = IF Alias[n] = None THEN n ELSE Canonical[Alias[n]]

-----------------------------------------------------------------------------
(* Messages: the records of a reply the resolver looks at. *)

Messages == [ips : SUBSET Addrs, ttl : Nat, alias : Names \union {None},
             ns : SUBSET Names, glue : SUBSET Addrs]

\* None stands for no message, too.
ASSUME MessageAssumption == None \notin Messages

Empty == [ips |-> {}, ttl |-> 0, alias |-> None, ns |-> {}, glue |-> {}]

\* The positions on the line of n whose zone the server at address v hosts.
Knows(v, n) == {i \in DOMAIN Line[n] : v \in Hosts[Line[n][i]]}

\* What a server of the zone at position i says: records, an alias, or a referral.
About(n, i, ips) ==
  IF i = Len(Line[n])
    THEN [Empty EXCEPT !.ips = ips, !.ttl = TTL[n], !.alias = Alias[n]]
    ELSE [Empty EXCEPT !.ns = NSNames[Line[n][i + 1]], !.glue = Glue[Line[n][i + 1]]]

\* What the server at v answers about n, whose addresses are ips at this moment:
\* it speaks for the deepest zone it hosts.
Says(v, n, ips) ==
  IF Knows(v, n) = {} THEN {Empty}
  ELSE {About(n, i, ips) : i \in {j \in Knows(v, n) : \A k \in Knows(v, n) : k <= j}}
=============================================================================
