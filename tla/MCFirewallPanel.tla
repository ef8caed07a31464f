--------------------------- MODULE MCFirewallPanel ---------------------------
(***************************************************************************)
(* Instances of FirewallPanel for TLC: one forward rule into segment s1,   *)
(* one input rule, a Docker setting that clashes with a VPN's.             *)
(***************************************************************************)
EXTENDS FirewallPanel, TLC

CONSTANTS forward, input, s1, s2, bridges, vpn

TargetOf == [r \in Rules |-> IF r = forward THEN s1 ELSE None]
Overlapping == {<<bridges, vpn>>}

\* An export of a box with the firewall on, from before it had a rule.
Exported ==
  {[fw |-> TRUE, rules |-> [r \in Rules |-> "new"], docker |-> None,
    trusted |-> vpn, segs |-> Segments]}

Interchangeable == Permutations(Handlers)
=============================================================================
