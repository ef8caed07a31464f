------------------------- MODULE FirewallRulesProofs -------------------------
(***************************************************************************)
(* What Render's rules let in, for any settings, network and packets.      *)
(* The tables are those of the settings at hand (RulesInv), and settings   *)
(* that render tell WAN, segments, bridges and trusted interfaces apart    *)
(* (Separated), which rests on patternsOverlap being complete.             *)
(***************************************************************************)
EXTENDS FirewallRules, TLAPS

RulesInv ==
  /\ settings \in Snapshots
  /\ tables = NoTables \/ (Renders(settings) /\ tables = Render(settings))

LEMMA RulesInvariant == RulesSpec => []RulesInv
<1>1. RulesInit => RulesInv
  BY DEF RulesInit, RulesInv
<1>2. RulesInv /\ [RulesNext]_ruleVars => RulesInv'
  BY DEF RulesInv, RulesNext, Install, Uninstall, ruleVars
<1> QED BY <1>1, <1>2, PTL DEF RulesSpec
-----------------------------------------------------------------------------
(* Patterns                                                                 *)

\* If one name is matched by two patterns, patternsOverlap says so.
THEOREM OverlapComplete ==
  ASSUME NEW a \in Patterns, NEW b \in Patterns, NEW n \in Seq(Chars),
         Matches(a, n), Matches(b, n)
  PROVE  Overlap(a, b)
<1> USE DEF Patterns, Matches, Overlap, Seqs!IsPrefix
<1>1. CASE a.any /\ b.any BY <1>1
<1>2. CASE a.any /\ ~b.any BY <1>2
<1>3. CASE ~a.any /\ b.any BY <1>3
<1>4. CASE ~a.any /\ ~b.any BY <1>4
<1> QED BY <1>1, <1>2, <1>3, <1>4

LEMMA ValidApart ==
  ASSUME NEW ps \in SUBSET Patterns, NEW rs \in SUBSET Patterns, ValidPatterns(ps, rs),
         NEW p \in ps \ {Blank}, NEW r \in rs \ {Blank}, NEW n \in Seq(Chars)
  PROVE  ~(Matches(p, n) /\ Matches(r, n))
BY OverlapComplete DEF ValidPatterns

LEMMA SnapshotParts ==
  ASSUME NEW c \in Snapshot
  PROVE  /\ c.wan \in Seq(Chars) /\ LanNames(c) \subseteq Seq(Chars)
         /\ \A i \in DOMAIN c.rules : c.rules[i] \in PortRules /\ i \in Nat
<1>1. c.segments \in Seq(Segment) /\ c.rules \in Seq(PortRules) /\ c.wan \in Seq(Chars)
  BY DEF Snapshot
<1>2. \A i \in DOMAIN c.segments : c.segments[i] \in Segment
  BY <1>1
<1>3. \A i \in DOMAIN c.segments : c.segments[i].iface \in Seq(Chars)
  BY <1>2 DEF Segment
<1>4. \A i \in DOMAIN c.rules : c.rules[i] \in PortRules /\ i \in Nat
  BY <1>1
<1> QED BY <1>1, <1>3, <1>4 DEF LanNames

\* The interfaces of settings that render: none has two roles.
Separated(c) ==
  /\ c.wan \notin LanNames(c)
  /\ \A n \in LanNames(c) \union {c.wan} :
       ~Covered(Bridges(c), n) /\ ~Covered(Trusted(c), n)
  /\ \A n \in Interfaces : ~(Covered(Bridges(c), n) /\ Covered(Trusted(c), n))

LEMMA RendersSeparated ==
  ASSUME NEW c \in Snapshot, Renders(c)
  PROVE  Separated(c)
<1> DEFINE Own == LanNames(c) \union {c.wan}
<1>1. LanNames(c) \subseteq Seq(Chars) /\ c.wan \in Seq(Chars)
  BY SnapshotParts
<1>2. /\ c.docker \subseteq Patterns /\ EffectiveDockers(c) \subseteq Patterns
      /\ Bridges(c) \subseteq Patterns /\ c.trusted \subseteq Patterns
  BY RulesAssumption DEF EffectiveDockers, Bridges, Snapshot
<1>3. Reserved(c) \subseteq Patterns
  <2>1. \A n \in Seq(Chars) : Exactly(n) \in Patterns
    BY DEF Exactly, Patterns
  <2> QED BY <1>1, <2>1, RulesAssumption DEF Reserved
<1>4. ASSUME NEW n \in Own
      PROVE  n \in Seq(Chars) /\ Exactly(n) \in Reserved(c) \ {Blank} /\ Matches(Exactly(n), n)
  <2>1. n # <<>>
    BY <1>4 DEF Renders
  <2>2. Exactly(n) # Blank
    BY <2>1 DEF Exactly, Blank
  <2> QED BY <1>1, <1>4, <2>2 DEF Reserved, Matches, Exactly
<1>5. TrustedValid(c)
  BY DEF Renders
<1>6. ASSUME NEW n \in Own, NEW p \in Bridges(c)
      PROVE  ~Matches(p, n)
  <2>1. c.dockerOn /\ p \in EffectiveDockers(c) /\ DockersValid(c)
    BY <1>6 DEF Bridges, Renders
  <2>2. p # Blank
    BY <2>1 DEF EffectiveDockers
  <2> DEFINE rs == Reserved(c) \union c.trusted
  <2>3. ValidPatterns(EffectiveDockers(c), rs)
    BY <2>1 DEF DockersValid
  <2>4. rs \in SUBSET Patterns /\ Exactly(n) \in rs \ {Blank}
    BY <1>2, <1>3, <1>4
  <2> HIDE DEF rs
  <2> QED BY <1>2, <1>4, <2>1, <2>2, <2>3, <2>4, ValidApart
<1>7. ASSUME NEW n \in Own, NEW p \in Trusted(c)
      PROVE  ~Matches(p, n)
  <2> DEFINE rs == Reserved(c) \union Bridges(c)
  <2>1. ValidPatterns(c.trusted, rs) /\ p \in c.trusted \ {Blank}
    BY <1>5, <1>7 DEF TrustedValid, Trusted
  <2>2. rs \in SUBSET Patterns /\ Exactly(n) \in rs \ {Blank}
    BY <1>2, <1>3, <1>4
  <2> HIDE DEF rs
  <2> QED BY <1>2, <1>4, <2>1, <2>2, ValidApart
<1>8. ASSUME NEW n \in Interfaces, NEW p \in Trusted(c), NEW d \in Bridges(c)
      PROVE  ~(Matches(p, n) /\ Matches(d, n))
  <2> DEFINE rs == Reserved(c) \union Bridges(c)
  <2>1. ValidPatterns(c.trusted, rs) /\ p \in c.trusted \ {Blank}
    BY <1>5, <1>8 DEF TrustedValid, Trusted
  <2>2. rs \in SUBSET Patterns /\ d \in rs \ {Blank}
    BY <1>2, <1>3, <1>8 DEF Bridges, EffectiveDockers
  <2>3. n \in Seq(Chars)
    BY RulesAssumption
  <2> HIDE DEF rs
  <2> QED BY <1>2, <2>1, <2>2, <2>3, ValidApart
<1>9. c.wan \notin LanNames(c)
  BY DEF Renders
<1> QED BY <1>6, <1>7, <1>8, <1>9 DEF Separated, Covered
-----------------------------------------------------------------------------
(* Packets                                                                  *)

\* A rendered forward rule leads into a segment, if the network is wired that way.
LEMMA ForwardIntoSegment ==
  ASSUME NEW c \in Snapshot, Renders(c), Wired(c), NEW i \in Active(c, "forward")
  PROVE  /\ c.rules[i].toIP \in Addresses
         /\ Route[c.rules[i].toIP] \in LanNames(c) \union {Here}
<1>1. c.rules[i] \in PortRules /\ RuleValid(c, c.rules[i]) /\ c.rules[i].kind = "forward"
  BY DEF Active, Renders, Snapshot
<1>2. TargetValid(c, c.rules[i].toIP) /\ c.rules[i].toIP \in Addresses
  BY <1>1 DEF RuleValid, PortRules
<1>3. PICK k \in DOMAIN c.segments : Contains(c.segments[k], c.rules[i].toIP)
  BY <1>2 DEF TargetValid
<1>4. Route[c.rules[i].toIP] \in {c.segments[k].iface, Here}
  BY <1>2, <1>3 DEF Wired
<1> QED BY <1>2, <1>4 DEF LanNames

\* Where a packet comes from does not change, and why its destination does.
LEMMA ArrivalsOf ==
  ASSUME NEW c \in Snapshot, NEW p \in Packets, NEW q \in Arrivals(Render(c), p)
  PROVE  /\ q.in = p.in /\ q.src = p.src /\ q.proto = p.proto /\ q.dst \in Addresses
         /\ \/ q = p
            \/ q \in ByDocker(p)
            \/ \E i \in Hits(Render(c), p) : q = Redirect(c.rules[i], p)
<1> DEFINE t == Render(c)
<1>1. /\ t.forward = [i \in Active(c, "forward") |-> c.rules[i]]
      /\ DOMAIN t.forward = Active(c, "forward")
  BY DEF Render
<1>2. CASE q \in ByDocker(p)
  BY <1>2, RulesAssumption DEF ByDocker, Packets
<1>3. CASE q \in Redirected(t, p)
  <2>1. PICK i \in Hits(t, p) : q = Redirect(t.forward[i], p)
    BY <1>3 DEF Redirected
  <2>2. i \in Active(c, "forward") /\ t.forward[i] = c.rules[i]
    BY <1>1, <2>1 DEF Hits
  <2>3. c.rules[i].toIP \in Addresses
    BY <2>2, SnapshotParts DEF Active, PortRules
  <2> QED BY <2>1, <2>2, <2>3 DEF Redirect, Packets
<1>4. CASE q = p
  BY <1>4 DEF Packets
<1> QED BY <1>2, <1>3, <1>4 DEF Arrivals
-----------------------------------------------------------------------------
(* The properties.  Each is proved of settings that render, with the tables *)
(* they render to, and follows of the running system by RulesInv.           *)

LEMMA NotIntoSegment ==
  ASSUME NEW c \in Snapshot, Renders(c), Wired(c),
         NEW p \in Packets, NEW q \in Arrivals(Render(c), p),
         ~Local(q), Route[q.dst] \notin LanNames(c)
  PROVE  /\ q = p \/ q \in ByDocker(p)
         /\ \A i \in Active(c, "forward") : q.dst # c.rules[i].toIP
<1>1. \A i \in Active(c, "forward") : q.dst # c.rules[i].toIP
  BY ForwardIntoSegment DEF Local
<1>2. \A i \in Hits(Render(c), p) : i \in Active(c, "forward")
  BY DEF Hits, Render
<1>3. \A i \in Hits(Render(c), p) : Redirect(c.rules[i], p).dst = c.rules[i].toIP
  BY DEF Redirect, Packets
<1> QED BY <1>1, <1>2, <1>3, ArrivalsOf

\* Containers are reached by redirection only, for any patterns that render.
THEOREM ContainersShielded == RulesSpec => []ContainersOnlyPublished
<1>1. RulesInv => ContainersOnlyPublished
  <2> SUFFICES ASSUME RulesInv, Installed, Wired(settings), NEW p \in Packets,
                      NEW q \in Arrivals(tables, p), Toward(Bridges(settings), q),
                      ~Covered(Bridges(settings), p.in), Accepts(tables, p, q)
               PROVE  q \in ByDocker(p)
    BY DEF ContainersOnlyPublished
  <2> DEFINE out == Route[q.dst]
  <2>1. settings \in Snapshot /\ Renders(settings) /\ tables = Render(settings)
    BY RulesAssumption DEF RulesInv, Installed
  <2>2. Separated(settings)
    BY <2>1, RendersSeparated
  <2>3. q.in = p.in /\ q.dst \in Addresses
    BY <2>1, ArrivalsOf
  <2>4. ~Local(q) /\ Covered(Bridges(settings), out) /\ out \notin LanNames(settings) \union {settings.wan}
    BY <2>2 DEF Toward, Separated
  <2>5. (q = p \/ q \in ByDocker(p)) /\ \A i \in Active(settings, "forward") : q.dst # settings.rules[i].toIP
    BY <2>1, <2>4, NotIntoSegment
  <2>6. AcceptsForward(Render(settings), q, q # p)
    BY <2>1, <2>4 DEF Accepts
  <2>7. q # p
    BY <2>3, <2>4, <2>5, <2>6 DEF AcceptsForward, Render, Covered
  <2> QED BY <2>5, <2>7
<1> QED BY <1>1, RulesInvariant, PTL

\* Nobody starts a connection toward a trusted interface.
THEOREM TrustedShielded == RulesSpec => []NoneTowardTrusted
<1>1. RulesInv => NoneTowardTrusted
  <2> SUFFICES ASSUME RulesInv, Installed, Wired(settings), NEW p \in Packets,
                      NEW q \in Arrivals(tables, p), Toward(Trusted(settings), q),
                      Accepts(tables, p, q)
               PROVE  FALSE
    BY DEF NoneTowardTrusted
  <2> DEFINE out == Route[q.dst]
  <2>1. settings \in Snapshot /\ Renders(settings) /\ tables = Render(settings)
    BY RulesAssumption DEF RulesInv, Installed
  <2>2. Separated(settings)
    BY <2>1, RendersSeparated
  <2>3. q.dst \in Addresses /\ ~Local(q) /\ Covered(Trusted(settings), out)
    BY <2>1, ArrivalsOf DEF Toward
  <2>4. out \in Interfaces
    BY <2>3, RulesAssumption DEF Local
  <2>5. out \notin LanNames(settings) \union {settings.wan} /\ ~Covered(Bridges(settings), out)
    BY <2>2, <2>3, <2>4 DEF Separated
  <2>6. \A i \in Active(settings, "forward") : q.dst # settings.rules[i].toIP
    BY <2>1, <2>3, <2>5, NotIntoSegment
  <2>7. AcceptsForward(Render(settings), q, q # p)
    BY <2>1, <2>3 DEF Accepts
  <2> QED BY <2>5, <2>6, <2>7 DEF AcceptsForward, Render, Covered
<1> QED BY <1>1, RulesInvariant, PTL

\* What comes in on the WAN was let in by a rule for it, or published by Docker.
THEOREM WanClosed == RulesSpec => []WanOnlyAsRuled
<1>1. RulesInv => WanOnlyAsRuled
  <2> DEFINE c == settings
             Opened(q) == Local(q) /\ \E i \in Active(c, "input") :
                            Meets(c.rules[i], q, Ports(c.rules[i]))
             For(i, p, q) == /\ q.dst = c.rules[i].toIP
                             /\ Meets(c.rules[i], p, IF Local(p) THEN Ports(c.rules[i])
                                                     ELSE PostNATPorts(c.rules[i]))
             Forwarded(p, q) == \E i \in Active(c, "forward") : For(i, p, q)
             FromDocker(p, q) == q \in ByDocker(p) /\ From(c.dockerSource, p.src)
  <2> SUFFICES ASSUME RulesInv, Installed, Wired(c), NEW p \in Packets,
                      NEW q \in Arrivals(tables, p), p.in = c.wan, Accepts(tables, p, q)
               PROVE  Opened(q) \/ Forwarded(p, q) \/ FromDocker(p, q)
    BY DEF WanOnlyAsRuled
  <2>1. c \in Snapshot /\ Renders(c) /\ tables = Render(c)
    BY RulesAssumption DEF RulesInv, Installed
  <2>2. c.wan \notin LanNames(c) /\ ~Covered(Bridges(c), c.wan) /\ ~Covered(Trusted(c), c.wan)
    BY <2>1, RendersSeparated DEF Separated
  <2>3. /\ q.in = c.wan /\ q.src = p.src
        /\ q = p \/ q \in ByDocker(p) \/ \E i \in Hits(Render(c), p) : q = Redirect(c.rules[i], p)
    BY <2>1, ArrivalsOf
  <2>4. ASSUME NEW i \in Hits(Render(c), p), q = Redirect(c.rules[i], p)
        PROVE  Forwarded(p, q)
    <3>1. i \in Active(c, "forward") /\ Local(p) /\ Meets(c.rules[i], p, Ports(c.rules[i]))
      BY <2>4 DEF Hits, Render
    <3>2. q.dst = c.rules[i].toIP
      BY <2>4 DEF Redirect, Packets
    <3> QED BY <3>1, <3>2
  <2>5. CASE Local(q)
    <3>1. AcceptsInput(Render(c), q) /\ c.wan # Loopback
      BY <2>1, <2>5 DEF Accepts, Wired
    <3>2. \E i \in Active(c, "input") : Meets(c.rules[i], q, Ports(c.rules[i]))
      BY <2>2, <2>3, <3>1 DEF AcceptsInput, Render, Covered
    <3> QED BY <2>5, <3>2
  <2>6. CASE ~Local(q)
    <3>1. AcceptsForward(Render(c), q, q # p)
      BY <2>1, <2>6 DEF Accepts
    <3>2. \/ q # p /\ From(c.dockerSource, q.src)
          \/ \E i \in Active(c, "forward") : /\ q.dst = c.rules[i].toIP
                                             /\ Meets(c.rules[i], q, PostNATPorts(c.rules[i]))
      BY <2>2, <2>3, <3>1 DEF AcceptsForward, Render, Covered
    <3>3. CASE q # p /\ From(c.dockerSource, q.src)
      BY <2>3, <2>4, <3>3
    <3>4. ASSUME NEW i \in Active(c, "forward"), q.dst = c.rules[i].toIP,
                 Meets(c.rules[i], q, PostNATPorts(c.rules[i]))
          PROVE  Forwarded(p, q)
      <4>1. CASE q = p
        BY <2>6, <3>4, <4>1
      <4>2. CASE q \in ByDocker(p)
        <5>1. Route[q.dst] \notin LanNames(c)
          BY <4>2 DEF ByDocker, Wired, Packets
        <5> QED BY <2>1, <2>6, <3>4, <5>1, NotIntoSegment
      <4> QED BY <2>3, <2>4, <4>1, <4>2
    <3> QED BY <3>2, <3>3, <3>4
  <2> QED BY <2>5, <2>6
<1> QED BY <1>1, RulesInvariant, PTL

\* What a forward rule is the first to redirect arrives at its target.
THEOREM ForwardsArrive == RulesSpec => []ForwardsDeliver
<1>1. RulesInv => ForwardsDeliver
  <2> DEFINE c == settings
             Port(i, p) == IF c.rules[i].toPort = 0 THEN p.port ELSE c.rules[i].toPort
  <2> SUFFICES ASSUME RulesInv, Installed, NEW p \in Packets, NEW i \in Active(c, "forward"),
                      p.in = c.wan, Local(p), Meets(c.rules[i], p, Ports(c.rules[i])),
                      ByDocker(p) = {}, Route[c.rules[i].toIP] # Here,
                      \A j \in Active(c, "forward") :
                        j < i => ~Meets(c.rules[j], p, Ports(c.rules[j])),
                      NEW q \in Arrivals(tables, p)
               PROVE  /\ q.dst = c.rules[i].toIP /\ q.port = Port(i, p)
                      /\ Accepts(tables, p, q)
    BY DEF ForwardsDeliver
  <2> DEFINE t == Render(c)
  <2>1. c \in Snapshot /\ Renders(c) /\ tables = t
    BY RulesAssumption DEF RulesInv, Installed
  <2>2. /\ DOMAIN t.forward = Active(c, "forward") /\ t.wan = c.wan
        /\ \A j \in Active(c, "forward") : t.forward[j] = c.rules[j]
    BY DEF Render
  <2>3. \A j \in Active(c, "forward") : j \in Nat
    BY <2>1, SnapshotParts DEF Active
  <2> HIDE DEF t
  <2>4. i \in Hits(t, p) /\ \A j \in Hits(t, p) : j \in Active(c, "forward") /\ i <= j
    BY <2>2, <2>3 DEF Hits
  <2>5. Redirected(t, p) = {Redirect(c.rules[i], p)}
    BY <2>2, <2>3, <2>4 DEF Redirected
  <2>6. q = Redirect(c.rules[i], p)
    BY <2>1, <2>5 DEF Arrivals
  <2>7. /\ q.in = c.wan /\ q.src = p.src /\ q.proto = p.proto
        /\ q.dst = c.rules[i].toIP /\ q.port = Port(i, p)
    BY <2>6 DEF Redirect, Packets
  <2>8. Meets(c.rules[i], q, PostNATPorts(c.rules[i]))
    BY <2>7 DEF Meets, Ports, PostNATPorts
  <2>9. AcceptsForward(t, q, q # p)
    BY <2>2, <2>7, <2>8 DEF AcceptsForward
  <2>10. Accepts(tables, p, q)
    BY <2>1, <2>7, <2>9 DEF Accepts, Local
  <2> QED BY <2>7, <2>10
<1> QED BY <1>1, RulesInvariant, PTL
=============================================================================
