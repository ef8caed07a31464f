----------------------------- MODULE MCDnsServer -----------------------------
(***************************************************************************)
(* Two instances of DnsServer for TLC, one of them chosen at the start.    *)
(* "walk": the zone glued has glue; bare is served by the host named ns in *)
(* glued, or by inner, which is in bare itself.  alias, in glued, leads to *)
(* host in bare, and loop to itself.  "cache": three names that the root   *)
(* holds, with a TTL of zero, one below the cap and one above, and more    *)
(* time.                                                                   *)
(***************************************************************************)
EXTENDS DnsServer

CONSTANTS root, glued, bare, alias, host, loop, ns, inner, zero, short, long,
          r1, a1, b1, b2, w1, w2, reliable, flaky

LineOf == [n \in Names |-> CASE n \in {zero, short, long} -> <<root>>
                             [] n \in {inner, host} -> <<root, bare>>
                             [] OTHER -> <<root, glued>>]
HostsOf == [z \in Zones |-> CASE z = root -> {r1} [] z = glued -> {a1} [] OTHER -> {b1, b2}]
NSNamesOf == [z \in Zones |-> IF z = bare THEN {ns, inner} ELSE {ns}]
GlueOf == [z \in Zones |-> IF z = glued THEN HostsOf[glued] ELSE {}]
AliasOf == [n \in Names |-> CASE n = alias -> host [] n = loop -> loop [] OTHER -> None]
TTLOf == [n \in Names |-> CASE n \in {host, short} -> 2 [] n = long -> 5 [] OTHER -> 0]
CanonicalOf == [n \in Names |-> IF n = alias THEN host ELSE n]
FirstZoneOf == [n \in Names |-> CASE n \in {host, zero, short, long} -> {w1}
                                  [] n \in {ns, inner} -> {b1, b2}
                                  [] OTHER -> {}]
MovesOf == {host, zero, short, long} \X {{w2}}
LocalEditsOf == {<<alias, w1>>}
SettingsOf == {[mode |-> "recursive", upstreams |-> {reliable, flaky}],
               [mode |-> "forward", upstreams |-> {flaky}]}

\* The theorem about FailsOnlyIfUnfindable assumes this of the tree.
ASSUME InstanceIsInOrder == NoLameDelegation

VARIABLE part

AskedIn == IF part = "walk" THEN {alias, loop} ELSE {part}

PartInit ==
  /\ Init /\ part \in {"walk", zero, short, long}
  /\ part # "walk" => settings.mode = "recursive"

PartNext ==
  /\ Next /\ UNCHANGED part
  /\ \A g \in Goroutines : q'[g].name \in AskedIn \union {None}
  /\ \A n \in Names \ {Canonical[m] : m \in AskedIn} : zone'[n] = zone[n]
  /\ IF part = "walk" THEN now' <= 1 ELSE UNCHANGED <<settings, local, losses>>

PartSpec ==
  PartInit /\ [][PartNext]_<<vars, part>> /\ \A g \in Goroutines : WF_vars(Handle(g))
=============================================================================
