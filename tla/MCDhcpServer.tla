---------------------------- MODULE MCDhcpServer ----------------------------
(***************************************************************************)
(* Instances of DhcpServer for TLC.  Addresses are small numbers.          *)
(***************************************************************************)
EXTENDS DhcpServer, TLC

CONSTANTS s1, s2   \* the segments, where the pools of each must be named

Clients == Permutations(Macs)

Def(gw, lo, hi) == [gw |-> gw, lo |-> lo, hi |-> hi]

\* Two segments whose pools stay disjoint when the first one is edited.
DisjointPools ==
  [s \in Segments |-> IF s = s1 THEN {Def(0, 1, 2), Def(0, 2, 2)} ELSE {Def(0, 3, 3)}]

\* One segment with two pools to choose from.
MovablePool == [s \in Segments |-> {Def(0, 1, 2), Def(0, 2, 3)}]

\* A pool whose first address is the gateway's.
GatewayInPool == [s \in Segments |-> {Def(1, 1, 2)}]

Pool12 == [s \in Segments |-> {Def(0, 1, 2)}]
=============================================================================
