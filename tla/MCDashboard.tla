----------------------------- MODULE MCDashboard -----------------------------
(***************************************************************************)
(* For TLC: what the dashboard controls besides the panel's requests, that *)
(* is traffic shaping, the login, and the packets a ruleset lets in.  They *)
(* share nothing but the process, so that an instance runs one of them,    *)
(* chosen at the start, and the others stay as they are.                   *)
(***************************************************************************)
EXTENDS TrafficShaping, AdminLogin, FirewallRules, TLC

CONSTANTS eth0, eth1, fast

VARIABLE part

\* A file may turn SQM on, also with limits the settings page would refuse.
ImportsOf == {[wan |-> eth1, sqm |-> fast], [wan |-> eth0, sqm |-> NoLimits]}

Alike == Permutations(Handlers) \union Permutations(Visits) \union Permutations(Tokens)
-----------------------------------------------------------------------------
(* The rules' instance: names of one or two letters, addresses below 15.    *)

Letters == {"b", "d", "e", "l", "v", "w", "0", "1"}
Wan == <<"e", "0">>
Lan == <<"e", "1">>
Vlan == <<"b", "v">>
Docker0 == <<"d">>
Bridge == <<"b", "0">>
Vpn == <<"w", "0">>
Lo == <<"l">>
Nics == {Wan, Lan, Vlan, Docker0, Bridge, Vpn}
Star(s) == [stem |-> s, any |-> TRUE]
Defaults == {Exactly(Docker0), Star(<<"b">>)}

\* 0, 4, 6 and 8 are this machine's; 2 and 3 are hosts on the WAN side.
Cables == 0 :> Here @@ 4 :> Here @@ 6 :> Here @@ 8 :> Here @@ 2 :> Wan @@ 3 :> Wan
          @@ 5 :> Lan @@ 9 :> Vlan @@ 12 :> Docker0 @@ 13 :> Bridge @@ 14 :> Vpn
Containers == {[proto |-> "tcp", port |-> 1, to |-> 13, toPort |-> 2]}

\* Small lies within Home; Wireless is apart.
Home == [iface |-> Lan, address |-> 4, size |-> 4]
Small == [iface |-> Lan, address |-> 6, size |-> 2]
Wireless == [iface |-> Vlan, address |-> 8, size |-> 4]
Host == [base |-> 2, size |-> 1]

Forward == [kind |-> "forward", protos |-> {"tcp"}, lo |-> 2, hi |-> 2, toIP |-> 5,
            toPort |-> 0, source |-> Anyone, disabled |-> FALSE]
Input == [Forward EXCEPT !.kind = "input", !.source = Host]
SomeRules == {Input, Forward, [Forward EXCEPT !.toPort = 3, !.source = Host],
  [Forward EXCEPT !.lo = 1, !.hi = 3, !.source = Host], [Forward EXCEPT !.hi = 3, !.toIP = 9],
  [Forward EXCEPT !.toPort = 1, !.hi = 3], [Forward EXCEPT !.toPort = 3],
  [Forward EXCEPT !.toIP = 6], [Forward EXCEPT !.toIP = 14, !.disabled = TRUE]}
Lists == {<<>>} \union {<<r>> : r \in SomeRules} \union SomeRules \X SomeRules

Plain == [wan |-> Wan, segments |-> <<Home>>, dockerOn |-> TRUE, docker |-> {},
          dockerSource |-> Anyone, trusted |-> {}, rules |-> <<>>]
ManyRules == {[Plain EXCEPT !.segments = s, !.rules = l] :
  s \in {<<Home, Wireless>>, <<Home, Small>>, <<Small, Home>>}, l \in Lists}
ManyPatterns == {[Plain EXCEPT !.segments = s, !.dockerOn = on, !.docker = d,
                               !.dockerSource = from, !.trusted = t, !.rules = l] :
  s \in {<<>>, <<Home>>, <<Home, Wireless>>}, on \in BOOLEAN,
  d \in {{}, {Exactly(Docker0), Exactly(Bridge)}, {Star(<<"e">>), Exactly(Bridge)},
         {Exactly(Wan)}, {Star(<<>>)}, {Blank}},
  from \in {Anyone, Host},
  t \in {{}, {Star(<<"w">>)}, {Star(<<"b">>), Blank}, {Exactly(Wan)}},
  l \in {<<>>, <<Input, Forward>>}}
SetUps == ManyRules \union ManyPatterns
-----------------------------------------------------------------------------
Init == /\ part \in {"shaping", "login", "rules"}
        /\ ShapingInit /\ LoginInit /\ RulesInit
        /\ part # "shaping" => file.wan = NoWAN
        /\ part # "rules" => settings = Plain

Next == \/ part = "shaping" /\ ShapingNext /\ UNCHANGED <<part, loginVars, ruleVars>>
        \/ part = "login" /\ LoginNext /\ UNCHANGED <<part, shapingVars, ruleVars>>
        \/ part = "rules" /\ RulesNext /\ UNCHANGED <<part, shapingVars, loginVars>>

Spec == Init /\ [][Next]_<<part, shapingVars, loginVars, ruleVars>>
=============================================================================
