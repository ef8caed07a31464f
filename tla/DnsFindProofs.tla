---------------------------- MODULE DnsFindProofs ----------------------------
(***************************************************************************)
(* Proof that a walk finds what can be found (FailsOnlyIfUnfindable), for  *)
(* any tree of zones without lame delegations, any number of queries, any  *)
(* depth and any number of hops.  For a plan f that has the name asked for *)
(* at the deepest level, the inductive invariant FindInv says that one of  *)
(* the nested calls, j, is on a good way: each call below it waits for an  *)
(* address that will help, and j itself has a server to ask that knows     *)
(* more, or a name server of the plan left to look up.  The calls above j  *)
(* may fail as they like.  And that every step of a walk brings it further *)
(* in an order that comes to an end, for any tree at all.                  *)
(***************************************************************************)
EXTENDS DnsProofs

\* Look-ups a call may nest, itself included.
Level(i) == MaxDepth + 1 - i

\* With h, call i has the hops it needs when servers of the k-th zone are asked.
OnRoute(f, i, fr, h, k) ==
  /\ fr.name \in f[Level(i)] /\ h[fr.name] # 0
  /\ fr.hop + h[fr.name] < MaxHops + k

\* It asks servers of the k-th zone of its name's line.
Asks(f, i, fr) ==
  \E h \in HopPlans, k \in 1 .. Len(Line[fr.name]) :
    /\ OnRoute(f, i, fr, h, k)
    /\ fr.ns = {} /\ fr.left # {} /\ fr.left \subseteq Hosts[Line[fr.name][k]]

\* It was referred to name servers of the zone after that, without glue.
Referred(f, i, fr, h, k) ==
  /\ OnRoute(f, i, fr, h, k)
  /\ k < Len(Line[fr.name]) /\ Glue[Line[fr.name][k + 1]] = {}
  /\ fr.ns \subseteq NSNames[Line[fr.name][k + 1]]

\* One of those left is in the plan.
HasAnother(f, i, fr) == fr.ns \intersect f[Level(i) - 1] # {}

Seeks(f, i, fr) ==
  HasAnother(f, i, fr) /\ \E h \in HopPlans, k \in 1 .. Len(Line[fr.name]) : Referred(f, i, fr, h, k)

\* It waits for the addresses of one of them, whom sub is an alias of, or is.
Waits(f, i, fr, sub) ==
  \E h \in HopPlans, k \in 1 .. Len(Line[fr.name]) :
    /\ Referred(f, i, fr, h, k)
    /\ \E s \in NSNames[Line[fr.name][k + 1]] : Canonical[sub] = Canonical[s]

\* The call on top is on a good way, or has found its addresses.
GoodTop(f, r) ==
  CASE r.out.state = "pending" -> Asks(f, r.sp, Top(r)) \/ Seeks(f, r.sp, Top(r))
    [] r.out.state = "ok" -> TRUE
    [] OTHER -> FALSE

\* Call j is on a good way, and those below it wait for it.
GoodWay(f, r, j) ==
  /\ \A i \in 1 .. r.sp - 1 : i <= j => Waits(f, i, r.frame[i], r.frame[i + 1].name)
  /\ IF j = r.sp THEN GoodTop(f, r) ELSE HasAnother(f, j, r.frame[j])

\* Addresses that a call has found are some the name has had.
FoundRight(r) ==
  r.pc = "resolve" /\ r.out.state = "ok" =>
    r.out.ips # {} /\ r.out.ips \in Ever(Canonical[Top(r).name])

Finds(f, r) ==
  r.pc = "resolve" /\ r.name \in f[MaxDepth] => \E j \in 1 .. r.sp : GoodWay(f, r, j)

\* A message on its way comes from one of the servers asked, and says what was so
\* at some time.
WireSaid(r) ==
  LET n == Top(r).name IN
  r.wire # None =>
    \E v \in Top(r).left : \E ips \in Ever(n) :
      /\ ips \subseteq Addrs /\ (Alias[n] # None => ips = {})
      /\ r.wire \in Says(v, n, ips)

OnCourse(f, r) == FoundRight(r) /\ Finds(f, r) /\ WireSaid(r)

\* Inductive, with IInv.
FindInv(f) ==
  /\ \A n \in Names : zone[n] \in Ever(n)
  /\ losses = 0 => \A g \in Goroutines : OnCourse(f, q[g])

-----------------------------------------------------------------------------
(* Lemmas about plans. *)

LEMMA PlanTyped ==
  ASSUME NEW f \in FindPlans
  PROVE  /\ f[0] = {}
         /\ \A m \in 1 .. MaxDepth : m - 1 \in 0 .. MaxDepth
         /\ \A m \in 0 .. MaxDepth : f[m] \subseteq WithinHops /\ f[m] \subseteq Names
BY DnsAssumption DEF FindPlans, WithinHops

\* What a plan says of a name that takes at most m nested look-ups.
LEMMA PlanGives ==
  ASSUME NEW f \in FindPlans, NEW m \in 1 .. MaxDepth, NEW n \in f[m]
  PROVE  /\ n \in Names
         /\ Alias[n] = None => n \in Addressed
         /\ Alias[n] # None => Alias[n] \in f[m]
         /\ \A i \in 2 .. Len(Line[n]) :
              Glue[Line[n][i]] # {} \/ NSNames[Line[n][i]] \intersect f[m - 1] # {}
<1>1. n \in Names
  BY PlanTyped, DnsAssumption
<1>2. /\ IF Alias[n] = None THEN n \in Addressed ELSE Alias[n] \in f[m]
      /\ \A i \in 2 .. Len(Line[n]) :
           Glue[Line[n][i]] # {} \/ NSNames[Line[n][i]] \intersect f[m - 1] # {}
  BY DEF FindPlans
<1> QED
  BY <1>1, <1>2

\* A name takes at least a hop for each zone of its line, and more for an alias.
LEMMA HopsNeeded ==
  ASSUME NEW h \in HopPlans, NEW n \in Names, h[n] # 0
  PROVE  /\ h[n] \in Nat /\ h[n] <= MaxHops
         /\ Len(Line[n]) \in Nat /\ Len(Line[n]) <= h[n]
         /\ Alias[n] # None =>
              h[Alias[n]] \in Nat /\ h[Alias[n]] >= 1 /\ h[n] = Len(Line[n]) + h[Alias[n]]
<1>1. h \in [Names -> 0 .. MaxHops] /\ MaxHops \in Nat
  BY DnsAssumption DEF HopPlans
<1>2. IF Alias[n] = None THEN h[n] = Len(Line[n])
      ELSE h[Alias[n]] # 0 /\ h[n] = Len(Line[n]) + h[Alias[n]]
  BY DEF HopPlans
<1>3. Len(Line[n]) \in Nat /\ (Alias[n] # None => Alias[n] \in Names)
  BY DelegationAssumption
<1> QED
  BY <1>1, <1>2, <1>3

\* A name with addresses at all times has some whichever they are.
LEMMA AddressedEver ==
  ASSUME NEW n \in Addressed, NEW ips \in Ever(n)
  PROVE  ips # {}
BY DEF Addressed, Ever

\* Zones on a line, and their servers.
LEMMA OnLine ==
  ASSUME NoLameDelegation, NEW n \in Names
  PROVE  /\ Len(Line[n]) \in Nat /\ Len(Line[n]) >= 1
         /\ Line[n][1] = Root /\ Hosts[Root] # {} /\ Hosts[Root] \subseteq Addrs
         /\ \A i \in 1 .. Len(Line[n]) :
              /\ Line[n][i] \in Zones /\ Hosts[Line[n][i]] \subseteq Addrs
              /\ NSNames[Line[n][i]] \subseteq Names /\ Glue[Line[n][i]] \subseteq Addrs
<1>1. Line[n] \in Seq(Zones) /\ Line[n] # <<>> /\ Line[n][1] = Root
  BY DelegationAssumption DEF NoLameDelegation
<1>2. \A i \in 1 .. Len(Line[n]) : Line[n][i] \in Zones
  BY <1>1
<1>3. Len(Line[n]) \in Nat /\ Len(Line[n]) >= 1
  BY <1>1
<1>4. Hosts[Root] # {} /\ Hosts[Root] \subseteq Addrs
  BY DelegationAssumption DEF NoLameDelegation
<1> QED
  BY <1>1, <1>2, <1>3, <1>4, DelegationAssumption

-----------------------------------------------------------------------------
(* Lemmas about the frames of a walk. *)

\* The number of look-ups left to call i, and to one it makes.
LEMMA LevelBounds ==
  ASSUME NEW i \in 1 .. MaxDepth
  PROVE  /\ Level(i) \in 1 .. MaxDepth /\ Level(i) - 1 \in 0 .. MaxDepth
         /\ i = MaxDepth => Level(i) - 1 = 0
         /\ i < MaxDepth => i + 1 \in 1 .. MaxDepth /\ Level(i + 1) = Level(i) - 1
BY DnsAssumption DEF Level

LEMMA NextHopFrames ==
  ASSUME NEW r, Walks(r), NEW n \in Names, NEW servers \in SUBSET Addrs,
         r.sp = 1 => Canonical[n] = Canonical[r.name]
  PROVE  LET s == NextHop(r, n, servers) IN
         /\ s.sp = r.sp /\ s.name = r.name /\ s.pc = "resolve"
         /\ s.out.state \in {"pending", "failed"}
         /\ \A i \in 1 .. MaxDepth : i # r.sp => s.frame[i] = r.frame[i]
         /\ Top(s).name \in {n, Top(r).name}
         /\ Top(r).hop + 1 < MaxHops =>
              /\ s.out.state = "pending"
              /\ Top(s) = [name |-> n, left |-> servers, ns |-> {}, hop |-> Top(r).hop + 1]
         /\ ~ (Top(r).hop + 1 < MaxHops) => s.out.state = "failed" /\ s.frame = r.frame
<1>1. Pending \in Outcomes /\ Failed \in Outcomes
      /\ Pending.state = "pending" /\ Failed.state = "failed"
  BY FreshLocals DEF Pending, Failed
<1>2. CASE Top(r).hop + 1 < MaxHops
  <2> DEFINE f == [name |-> n, left |-> servers, ns |-> {}, hop |-> Top(r).hop + 1]
             u == SetTop(r, f)
             s == [u EXCEPT !.out = Pending]
  <2>1. Top(r) \in Frames
    BY TopTyped
  <2>2. f \in Frames /\ f.name = n
    BY <1>2, <2>1, DnsAssumption DEF Frames
  <2>3. /\ Walks(u) /\ u.sp = r.sp /\ u.name = r.name /\ Top(u) = f
        /\ \A i \in 1 .. MaxDepth : i # r.sp => u.frame[i] = r.frame[i]
    <3> HIDE DEF f
    <3> QED
      BY <2>2, TopSet
  <2> HIDE DEF u
  <2>4. Walks(s) /\ s.out = Pending /\ s.sp = u.sp /\ s.frame = u.frame /\ s.name = u.name
    BY <1>1, <2>3, OutSet
  <2>5. NextHop(r, n, servers) = s
    BY <1>2 DEF NextHop, u
  <2> HIDE DEF f, s
  <2> QED
    BY <1>1, <1>2, <2>2, <2>3, <2>4, <2>5 DEF Walks, Top, f
<1>3. CASE ~(Top(r).hop + 1 < MaxHops)
  <2> DEFINE s == [r EXCEPT !.out = Failed]
  <2>1. Walks(s) /\ s.out = Failed /\ s.sp = r.sp /\ s.frame = r.frame /\ s.name = r.name
    BY <1>1, OutSet
  <2>2. NextHop(r, n, servers) = s
    BY <1>3 DEF NextHop
  <2> HIDE DEF s
  <2> QED
    BY <1>1, <1>3, <2>1, <2>2 DEF Walks, Top
<1> QED
  BY <1>2, <1>3

\* A call that has a hop left for what it was told is on a good way if that is.
LEMMA HopsWell ==
  ASSUME NEW f, NEW r, Walks(r), NEW n \in Names, NEW servers \in SUBSET Addrs,
         r.sp = 1 => Canonical[n] = Canonical[r.name], Top(r).hop + 1 < MaxHops,
         Asks(f, r.sp, [name |-> n, left |-> servers, ns |-> {}, hop |-> Top(r).hop + 1])
  PROVE  GoodTop(f, NextHop(r, n, servers))
<1> DEFINE s == NextHop(r, n, servers)
           t == [name |-> n, left |-> servers, ns |-> {}, hop |-> Top(r).hop + 1]
<1>1. s.sp = r.sp /\ s.out.state = "pending" /\ Top(s) = t
  BY NextHopFrames
<1>2. Asks(f, r.sp, t)
  OBVIOUS
<1> HIDE DEF s, t
<1>3. GoodTop(f, s)
  BY <1>1, <1>2 DEF GoodTop
<1> QED
  BY <1>3 DEF s

LEMMA PushFrames ==
  ASSUME NEW r \in Queries, r.sp < MaxDepth, NEW n \in Names
  PROVE  LET s == Push(r, n) IN
         /\ s.sp = r.sp + 1 /\ s.out = r.out /\ s.name = r.name /\ s.pc = r.pc
         /\ s.wire = r.wire
         /\ \A i \in 1 .. r.sp : s.frame[i] = r.frame[i]
         /\ s.frame[r.sp + 1] = StartFrame(n)
<1> DEFINE s == Push(r, n)
<1>1. /\ r.sp \in 0 .. MaxDepth /\ r.frame \in [1 .. MaxDepth -> Frames]
      /\ MaxDepth \in Nat /\ r.sp + 1 \in 1 .. MaxDepth
  BY DnsAssumption DEF Queries
<1>2. s.frame = [r.frame EXCEPT ![r.sp + 1] = StartFrame(n)] /\ s.sp = r.sp + 1
  BY DEF Push, Queries
<1>3. s.pc = r.pc /\ s.name = r.name /\ s.out = r.out /\ s.wire = r.wire
  BY DEF Push, Queries
<1> HIDE DEF s
<1> QED
  BY <1>1, <1>2, <1>3 DEF s

-----------------------------------------------------------------------------
(* Lemmas about calls on a good way. *)

\* A call just begun, for a name in the plan, asks servers of the root.
LEMMA GoodStart ==
  ASSUME NoLameDelegation, NEW f \in FindPlans, NEW i \in 1 .. MaxDepth, NEW n \in f[Level(i)]
  PROVE  Asks(f, i, StartFrame(n))
<1> DEFINE fr == StartFrame(n)
<1>1. Level(i) \in 0 .. MaxDepth /\ MaxHops \in Nat
  BY LevelBounds, DnsAssumption
<1>2. n \in Names /\ n \in WithinHops
  BY <1>1, PlanTyped
<1>3. PICK h \in HopPlans : h[n] # 0
  BY <1>2 DEF WithinHops
<1>4. fr.name = n /\ fr.left = Hosts[Root] /\ fr.ns = {} /\ fr.hop = 0
  BY DEF StartFrame, NoFrame
<1> HIDE DEF fr
<1>5. OnRoute(f, i, fr, h, 1)
  BY <1>1, <1>2, <1>3, <1>4, HopsNeeded DEF OnRoute
<1>6. 1 \in 1 .. Len(Line[n]) /\ Hosts[Line[n][1]] = Hosts[Root] /\ Hosts[Root] # {}
  BY <1>2, OnLine
<1> QED
  BY <1>4, <1>5, <1>6 DEF Asks, fr

\* A call that gets servers of a zone further down has a hop left, and asks them.
LEMMA Descends ==
  ASSUME NoLameDelegation, NEW f \in FindPlans, NEW i \in 1 .. MaxDepth,
         NEW fr \in Frames, NEW h \in HopPlans, NEW k \in 1 .. Len(Line[fr.name]),
         OnRoute(f, i, fr, h, k), NEW d \in 1 .. Len(Line[fr.name]), k < d,
         NEW servers \in SUBSET Hosts[Line[fr.name][d]], servers # {}
  PROVE  /\ fr.hop + 1 < MaxHops
         /\ Asks(f, i, [name |-> fr.name, left |-> servers, ns |-> {}, hop |-> fr.hop + 1])
<1> DEFINE n == fr.name
           t == [name |-> n, left |-> servers, ns |-> {}, hop |-> fr.hop + 1]
<1>1. n \in f[Level(i)] /\ h[n] # 0 /\ fr.hop + h[n] < MaxHops + k
  BY DEF OnRoute
<1>2. n \in Names
  BY <1>1, LevelBounds, PlanTyped
<1>3. h[n] \in Nat /\ Len(Line[n]) \in Nat /\ Len(Line[n]) <= h[n]
  BY <1>1, <1>2, HopsNeeded
<1>4. fr.hop \in Nat /\ MaxHops \in Nat
  BY DnsAssumption DEF Frames
<1>5. fr.hop + 1 < MaxHops /\ fr.hop + 1 + h[n] < MaxHops + d
  BY <1>1, <1>3, <1>4
<1>6. t.name = n /\ t.left = servers /\ t.ns = {} /\ t.hop = fr.hop + 1
  OBVIOUS
<1> HIDE DEF t
<1>7. OnRoute(f, i, t, h, d)
  BY <1>1, <1>5, <1>6 DEF OnRoute
<1>8. Asks(f, i, t)
  BY <1>6, <1>7 DEF Asks
<1> QED
  BY <1>5, <1>8 DEF t

\* One that follows an alias has a hop left too, and begins again at the root.
LEMMA FollowsAlias ==
  ASSUME NoLameDelegation, NEW f \in FindPlans, NEW i \in 1 .. MaxDepth,
         NEW fr \in Frames, NEW h \in HopPlans, NEW k \in 1 .. Len(Line[fr.name]),
         OnRoute(f, i, fr, h, k), Alias[fr.name] # None
  PROVE  /\ fr.hop + 1 < MaxHops
         /\ Asks(f, i, [name |-> Alias[fr.name], left |-> Hosts[Root], ns |-> {},
                        hop |-> fr.hop + 1])
<1> DEFINE n == fr.name
           a == Alias[n]
           t == [name |-> a, left |-> Hosts[Root], ns |-> {}, hop |-> fr.hop + 1]
<1>1. n \in f[Level(i)] /\ h[n] # 0 /\ fr.hop + h[n] < MaxHops + k
  BY DEF OnRoute
<1>2. n \in Names
  BY <1>1, LevelBounds, PlanTyped
<1>3. a \in f[Level(i)] /\ a \in Names
  BY <1>1, <1>2, LevelBounds, PlanGives, AliasKeepsCanonical
<1>4. /\ Len(Line[n]) \in Nat
      /\ h[a] \in Nat /\ h[a] >= 1 /\ h[n] = Len(Line[n]) + h[a]
  BY <1>1, <1>2, HopsNeeded
<1>5. fr.hop \in Nat /\ MaxHops \in Nat
  BY DnsAssumption DEF Frames
<1>6. fr.hop + 1 < MaxHops /\ fr.hop + 1 + h[a] < MaxHops + 1
  BY <1>1, <1>4, <1>5
<1>7. t.name = a /\ t.left = Hosts[Root] /\ t.ns = {} /\ t.hop = fr.hop + 1
  OBVIOUS
<1> HIDE DEF t
<1>8. OnRoute(f, i, t, h, 1)
  BY <1>3, <1>4, <1>6, <1>7 DEF OnRoute
<1>9. 1 \in 1 .. Len(Line[a]) /\ Hosts[Line[a][1]] = Hosts[Root] /\ Hosts[Root] # {}
  BY <1>3, OnLine
<1>10. Asks(f, i, t)
  BY <1>7, <1>8, <1>9 DEF Asks
<1> QED
  BY <1>6, <1>10 DEF t

\* The addresses of a name server that a call waited for are servers to ask.
LEMMA AddressesHelp ==
  ASSUME NoLameDelegation, NEW f \in FindPlans, NEW i \in 1 .. MaxDepth,
         NEW fr \in Frames, NEW sub, Waits(f, i, fr, sub),
         NEW ips \in Ever(Canonical[sub]), ips # {}
  PROVE  /\ fr.hop + 1 < MaxHops
         /\ Asks(f, i, [name |-> fr.name, left |-> ips, ns |-> {}, hop |-> fr.hop + 1])
<1> DEFINE n == fr.name
<1>1. PICK h \in HopPlans, k \in 1 .. Len(Line[n]) :
        /\ Referred(f, i, fr, h, k)
        /\ \E s \in NSNames[Line[n][k + 1]] : Canonical[sub] = Canonical[s]
  BY DEF Waits
<1>2. OnRoute(f, i, fr, h, k) /\ k < Len(Line[n]) /\ Glue[Line[n][k + 1]] = {}
  BY <1>1 DEF Referred
<1>3. n \in Names /\ Len(Line[n]) \in Nat
  BY <1>2, LevelBounds, PlanTyped, OnLine DEF OnRoute
<1>4. k + 1 \in 2 .. Len(Line[n]) /\ k + 1 \in 1 .. Len(Line[n]) /\ k < k + 1
  BY <1>2, <1>3
<1>5. ips \subseteq Hosts[Line[n][k + 1]]
  BY <1>1, <1>2, <1>3, <1>4 DEF NoLameDelegation
<1> QED
  BY <1>2, <1>4, <1>5, Descends

\* What goes on above a call that has another name server does not matter to it.
LEMMA StaysBelow ==
  ASSUME NEW f, NEW r, NEW s, Walks(r), Walks(s), NEW j \in 1 .. r.sp - 1, GoodWay(f, r, j),
         j < s.sp, \A i \in 1 .. j : s.frame[i] = r.frame[i],
         Canonical[s.frame[j + 1].name] = Canonical[r.frame[j + 1].name]
  PROVE  GoodWay(f, s, j)
<1>1. r.sp \in Nat /\ s.sp \in Nat /\ j \in Nat /\ j # r.sp /\ j # s.sp
  BY DnsAssumption DEF Walks, Sound
<1>2. HasAnother(f, j, s.frame[j])
  BY <1>1 DEF GoodWay
<1>3. ASSUME NEW i \in 1 .. s.sp - 1, i <= j
      PROVE  Waits(f, i, s.frame[i], s.frame[i + 1].name)
  <2>1. i \in 1 .. r.sp - 1 /\ i \in 1 .. j
    BY <1>1, <1>3
  <2>2. Waits(f, i, r.frame[i], r.frame[i + 1].name) /\ s.frame[i] = r.frame[i]
    BY <1>3, <2>1 DEF GoodWay
  <2>3. Canonical[s.frame[i + 1].name] = Canonical[r.frame[i + 1].name]
    <3>1. CASE i = j
      BY <3>1
    <3>2. CASE i < j
      <4>1. i + 1 \in 1 .. j
        BY <1>1, <2>1, <3>2
      <4> QED
        BY <4>1
    <3> QED
      BY <1>1, <2>1, <3>1, <3>2
  <2> QED
    BY <2>2, <2>3 DEF Waits
<1> QED
  BY <1>1, <1>2, <1>3 DEF GoodWay

-----------------------------------------------------------------------------
(* What a call hears. *)

\* Each message leaves the calls below alone, and the aliases end where they did.
LEMMA HearKeeps ==
  ASSUME NEW r, Walks(r), NEW v \in Addrs, NEW ips \in SUBSET Addrs,
         NEW m \in Says(v, Top(r).name, ips)
  PROVE  LET s == Hears(r, m) IN
         /\ Walks(s) /\ s.sp = r.sp /\ s.name = r.name
         /\ \A i \in 1 .. MaxDepth : i # r.sp => s.frame[i] = r.frame[i]
         /\ Canonical[Top(s).name] = Canonical[Top(r).name]
         /\ s.out.state = "ok" => r.out.state = "ok" \/ m.ips # {}
         /\ m.ips # {} => s.out.state = "ok" /\ s.out.ips = m.ips /\ Top(s) = Top(r)
<1> DEFINE n == Top(r).name
           s == Hears(r, m)
<1>1. /\ n \in Names /\ Top(r) \in Frames
      /\ r.sp = 1 => Canonical[n] = Canonical[r.name]
  BY TopTyped
<1>2. m \in Messages /\ (m.alias # None => m.alias = Alias[n])
  BY <1>1, SaysRight
<1>3. /\ m.ips \in SUBSET Addrs /\ m.ttl \in Nat /\ m.glue \in SUBSET Addrs
      /\ m.ns \in SUBSET Names
  BY <1>2 DEF Messages
<1>4. CASE m.ips # {}
  <2> DEFINE o == [state |-> "ok", ips |-> m.ips, ttl |-> m.ttl]
  <2>1. o \in Outcomes /\ o.state = "ok" /\ o.ips = m.ips
    BY <1>3 DEF Outcomes
  <2> HIDE DEF o
  <2>2. LET t == [r EXCEPT !.out = o] IN
        Walks(t) /\ t.out = o /\ t.sp = r.sp /\ t.frame = r.frame /\ t.name = r.name
    BY <2>1, OutSet
  <2>3. s = [r EXCEPT !.out = o]
    BY <1>4 DEF Hears, o
  <2> HIDE DEF s
  <2> QED
    BY <1>4, <2>1, <2>2, <2>3 DEF Top, s
<1>5. CASE m.ips = {} /\ m.alias # None
  <2>1. Alias[n] \in Names /\ Canonical[Alias[n]] = Canonical[n] /\ m.alias = Alias[n]
    BY <1>1, <1>2, <1>5, AliasKeepsCanonical
  <2>2. Hosts[Root] \in SUBSET Addrs
    BY DelegationAssumption
  <2>3. s = NextHop(r, m.alias, Hosts[Root])
    BY <1>5 DEF Hears
  <2> HIDE DEF s
  <2>4. Walks(s) /\ s.out.state # "ok"
    BY <1>1, <2>1, <2>2, <2>3, HopNext
  <2>5. /\ s.sp = r.sp /\ s.name = r.name
        /\ \A i \in 1 .. MaxDepth : i # r.sp => s.frame[i] = r.frame[i]
        /\ Top(s).name \in {m.alias, Top(r).name}
    BY <1>1, <2>1, <2>2, <2>3, NextHopFrames
  <2> QED
    BY <1>5, <2>1, <2>4, <2>5 DEF s
<1>6. CASE m.ips = {} /\ m.alias = None /\ m.ns = {}
  <2>1. LET t == [r EXCEPT !.out = Failed] IN
        Walks(t) /\ t.out = Failed /\ t.sp = r.sp /\ t.frame = r.frame /\ t.name = r.name
    BY FreshLocals, OutSet
  <2>2. s = [r EXCEPT !.out = Failed] /\ Failed.state = "failed"
    BY <1>6 DEF Hears, Failed, Pending
  <2> HIDE DEF s
  <2> QED
    BY <1>6, <2>1, <2>2 DEF Top, s
<1>7. CASE m.ips = {} /\ m.alias = None /\ m.ns # {} /\ m.glue # {}
  <2>1. s = NextHop(r, n, m.glue)
    BY <1>7 DEF Hears
  <2> HIDE DEF s
  <2>2. Walks(s) /\ s.out.state # "ok"
    BY <1>1, <1>3, <2>1, HopNext
  <2>3. /\ s.sp = r.sp /\ s.name = r.name
        /\ \A i \in 1 .. MaxDepth : i # r.sp => s.frame[i] = r.frame[i]
        /\ Top(s).name \in {n, Top(r).name}
    BY <1>1, <1>3, <2>1, NextHopFrames
  <2> QED
    BY <1>7, <2>2, <2>3 DEF s
<1>8. CASE m.ips = {} /\ m.alias = None /\ m.ns # {} /\ m.glue = {}
  <2> DEFINE t == [Top(r) EXCEPT !.left = {}, !.ns = m.ns]
  <2>1. t \in Frames /\ t.name = n
    BY <1>1, <1>3 DEF Frames
  <2>2. s = SetTop(r, t)
    BY <1>8 DEF Hears
  <2> HIDE DEF t, s
  <2>3. /\ Walks(s) /\ s.sp = r.sp /\ s.out = r.out /\ s.name = r.name /\ Top(s) = t
        /\ \A i \in 1 .. MaxDepth : i # r.sp => s.frame[i] = r.frame[i]
    BY <1>1, <2>1, <2>2, TopSet
  <2> QED
    BY <1>8, <2>1, <2>3 DEF s
<1> QED
  BY <1>4, <1>5, <1>6, <1>7, <1>8

\* What servers of the k-th zone of a name's line say, or of one further down.
FromZone(n, k, ips) == {About(n, i, ips) : i \in {j \in 1 .. Len(Line[n]) : k <= j}}

\* A call that asks servers of a zone on its way hears from the deepest zone they host.
LEMMA SpeaksFor ==
  ASSUME NEW n \in Names, NEW k \in 1 .. Len(Line[n]), NEW v \in Hosts[Line[n][k]], NEW ips
  PROVE  Says(v, n, ips) \subseteq FromZone(n, k, ips)
<1> SUFFICES ASSUME NEW m \in Says(v, n, ips) PROVE m \in FromZone(n, k, ips)
  OBVIOUS
<1>1. Line[n] \in Seq(Zones) /\ DOMAIN Line[n] = 1 .. Len(Line[n]) /\ Len(Line[n]) \in Nat
  BY DelegationAssumption
<1>2. k \in Knows(v, n) /\ Knows(v, n) \subseteq 1 .. Len(Line[n])
  BY <1>1 DEF Knows
<1>3. m \in {About(n, i, ips) : i \in {j \in Knows(v, n) : \A x \in Knows(v, n) : x <= j}}
  BY <1>2 DEF Says
<1>4. PICK i \in Knows(v, n) : m = About(n, i, ips) /\ \A x \in Knows(v, n) : x <= i
  BY <1>3
<1>5. i \in 1 .. Len(Line[n]) /\ k <= i
  BY <1>2, <1>4
<1> QED
  BY <1>4, <1>5 DEF FromZone

\* A call that asks on its way finds addresses, goes on, or learns of a name
\* server that the plan has.
LEMMA HearsWell ==
  ASSUME NoLameDelegation, NEW f \in FindPlans, NEW r, Walks(r), r.out.state = "pending",
         Asks(f, r.sp, Top(r)), NEW v \in Top(r).left,
         NEW ips \in SUBSET Addrs, ips \in Ever(Top(r).name),
         Alias[Top(r).name] # None => ips = {},
         NEW m \in Says(v, Top(r).name, ips)
  PROVE  GoodTop(f, Hears(r, m))
<1> DEFINE fr == Top(r)
           n == fr.name
           s == Hears(r, m)
<1>1. /\ fr \in Frames /\ n \in Names /\ r.sp \in 1 .. MaxDepth
      /\ r.sp = 1 => Canonical[n] = Canonical[r.name]
  BY TopTyped DEF Walks, Sound
<1>2. PICK h \in HopPlans, k \in 1 .. Len(Line[n]) :
        /\ OnRoute(f, r.sp, fr, h, k)
        /\ fr.ns = {} /\ fr.left # {} /\ fr.left \subseteq Hosts[Line[n][k]]
  BY DEF Asks
<1>3. PICK i \in 1 .. Len(Line[n]) : k <= i /\ m = About(n, i, ips)
  <2>1. Says(v, n, ips) \subseteq FromZone(n, k, ips)
    BY <1>1, <1>2, SpeaksFor
  <2> QED
    BY <2>1 DEF FromZone
<1>4. /\ Level(r.sp) \in 1 .. MaxDepth
      /\ n \in f[Level(r.sp)] /\ h[n] # 0 /\ fr.hop + h[n] < MaxHops + k
  BY <1>1, <1>2, LevelBounds DEF OnRoute
<1>5. Len(Line[n]) \in Nat /\ k \in Nat /\ i \in Nat /\ k <= i
  BY <1>1, <1>3, OnLine
<1>6. v \in Addrs
  BY <1>1 DEF Frames
<1> HIDE DEF fr, n, s
<1>7. CASE i = Len(Line[n]) /\ Alias[n] = None
  <2>1. ips # {}
    BY <1>4, <1>7, PlanGives, AddressedEver DEF n, fr
  <2>2. m.ips = ips
    BY <1>3, <1>7 DEF About, Empty
  <2>3. s.out.state = "ok"
    BY <1>6, <2>1, <2>2, HearKeeps DEF s
  <2> QED
    BY <2>3 DEF GoodTop, s
<1>8. CASE i = Len(Line[n]) /\ Alias[n] # None
  <2>1. m.ips = {} /\ m.alias = Alias[n]
    BY <1>3, <1>8 DEF About, Empty, n, fr
  <2>2. /\ fr.hop + 1 < MaxHops
        /\ Asks(f, r.sp, [name |-> Alias[n], left |-> Hosts[Root], ns |-> {},
                          hop |-> fr.hop + 1])
    BY <1>1, <1>2, <1>8, FollowsAlias DEF n
  <2>3. Alias[n] \in Names /\ Canonical[Alias[n]] = Canonical[n]
    BY <1>1, <1>8, AliasKeepsCanonical
  <2>4. s = NextHop(r, Alias[n], Hosts[Root])
    BY <1>8, <2>1 DEF Hears, s
  <2>5. Hosts[Root] \in SUBSET Addrs
    BY DelegationAssumption
  <2> QED
    BY <1>1, <2>2, <2>3, <2>4, <2>5, HopsWell DEF s, fr
<1>9. CASE i # Len(Line[n])
  <2> DEFINE z == Line[n][i + 1]
  <2>1. i + 1 \in 2 .. Len(Line[n]) /\ i + 1 \in 1 .. Len(Line[n]) /\ k < i + 1
    BY <1>5, <1>9
  <2>2. /\ m.ips = {} /\ m.alias = None /\ m.ns = NSNames[z] /\ m.glue = Glue[z]
    BY <1>3, <1>9 DEF About, Empty
  <2>3. Glue[z] \subseteq Hosts[z] /\ (Glue[z] # {} => NSNames[z] # {})
    BY <1>1, <2>1 DEF NoLameDelegation
  <2>4. NSNames[z] \subseteq Names /\ Glue[z] \subseteq Addrs
    BY <1>1, <2>1, OnLine
  <2>5. CASE Glue[z] # {}
    <3>1. /\ fr.hop + 1 < MaxHops
          /\ Asks(f, r.sp, [name |-> n, left |-> Glue[z], ns |-> {}, hop |-> fr.hop + 1])
      BY <1>1, <1>2, <2>1, <2>3, <2>5, Descends DEF n
    <3>2. s = NextHop(r, n, Glue[z])
      BY <2>2, <2>3, <2>5 DEF Hears, s, n, fr
    <3> QED
      BY <1>1, <2>4, <3>1, <3>2, HopsWell DEF s, fr
  <2>6. CASE Glue[z] = {}
    <3> DEFINE t == [fr EXCEPT !.left = {}, !.ns = NSNames[z]]
    <3>1. NSNames[z] \intersect f[Level(r.sp) - 1] # {}
      BY <1>4, <2>1, <2>6, PlanGives
    <3>2. t \in Frames /\ t.name = n /\ t.ns = NSNames[z] /\ t.hop = fr.hop
      BY <1>1, <2>4 DEF Frames, n
    <3>3. s = SetTop(r, t)
      BY <2>2, <2>6, <3>1 DEF Hears, s, fr
    <3> HIDE DEF t, z
    <3>4. s.sp = r.sp /\ s.out = r.out /\ Top(s) = t
      BY <1>1, <3>2, <3>3, TopSet
    <3>5. HasAnother(f, r.sp, t)
      BY <3>1, <3>2 DEF HasAnother
    <3>6. OnRoute(f, r.sp, t, h, i)
      <4>1. fr.hop \in Nat /\ MaxHops \in Nat /\ h[n] \in Nat
        BY <1>1, <1>4, HopsNeeded, DnsAssumption DEF Frames
      <4> QED
        BY <1>4, <1>5, <3>2, <4>1 DEF OnRoute
    <3>7. Referred(f, r.sp, t, h, i)
      BY <1>5, <1>9, <1>3, <2>6, <3>2, <3>6 DEF Referred, z
    <3>8. Seeks(f, r.sp, t)
      BY <1>3, <3>2, <3>5, <3>7 DEF Seeks
    <3> QED
      BY <3>4, <3>8 DEF GoodTop, s
  <2> QED
    BY <2>5, <2>6
<1> QED
  BY <1>7, <1>8, <1>9

-----------------------------------------------------------------------------
(* The steps of a walk. *)

\* The call on top is on a good way if it is on one from there, and nothing
\* else has changed up to it.
LEMMA StaysGood ==
  ASSUME NEW f, NEW r, NEW s, Walks(r), Walks(s), NEW j \in 1 .. r.sp, GoodWay(f, r, j),
         s.sp <= r.sp, s.sp - 1 <= j, \A i \in 1 .. s.sp - 1 : s.frame[i] = r.frame[i],
         Canonical[s.frame[s.sp].name] = Canonical[r.frame[s.sp].name], GoodTop(f, s)
  PROVE  GoodWay(f, s, s.sp) /\ s.sp \in 1 .. s.sp
<1>1. r.sp \in Nat /\ s.sp \in Nat /\ s.sp \in 1 .. s.sp /\ j \in Nat
  BY DnsAssumption DEF Walks, Sound
<1>2. ASSUME NEW i \in 1 .. s.sp - 1
      PROVE  Waits(f, i, s.frame[i], s.frame[i + 1].name)
  <2>1. i \in 1 .. r.sp - 1 /\ i <= j
    BY <1>1
  <2>2. Waits(f, i, r.frame[i], r.frame[i + 1].name) /\ s.frame[i] = r.frame[i]
    BY <2>1 DEF GoodWay
  <2>3. Canonical[s.frame[i + 1].name] = Canonical[r.frame[i + 1].name]
    <3>1. CASE i = s.sp - 1
      <4>1. i + 1 = s.sp
        BY <1>1, <3>1
      <4> QED
        BY <4>1
    <3>2. CASE i # s.sp - 1
      <4>1. i + 1 \in 1 .. s.sp - 1
        BY <1>1, <3>2
      <4> QED
        BY <4>1
    <3> QED
      BY <3>1, <3>2
  <2> QED
    BY <2>2, <2>3 DEF Waits
<1> QED
  BY <1>1, <1>2 DEF GoodWay

\* Nothing but the calls matters to where a walk may get.
LEMMA SameCalls ==
  ASSUME NEW f, NEW r, NEW s, s.pc = r.pc, s.name = r.name, s.sp = r.sp,
         s.frame = r.frame, s.out = r.out
  PROVE  /\ FoundRight(r) => FoundRight(s)
         /\ Finds(f, r) => Finds(f, s)
BY DEF FoundRight, Finds, GoodWay, GoodTop, Top

\* The way of a call that is on top and has not returned.
LEMMA PendingTop ==
  ASSUME NEW f, NEW r, GoodWay(f, r, r.sp), r.out.state = "pending"
  PROVE  Asks(f, r.sp, Top(r)) \/ Seeks(f, r.sp, Top(r))
BY DEF GoodWay, GoodTop

LEMMA Hearing ==
  ASSUME NoLameDelegation, NEW f \in FindPlans, NEW r, Walks(r), Asking(r), Finds(f, r),
         NEW v \in Top(r).left,
         NEW ips \in SUBSET Addrs, ips \in Ever(Top(r).name),
         Alias[Top(r).name] # None => ips = {},
         NEW m \in Says(v, Top(r).name, ips)
  PROVE  OnCourse(f, Hears(r, m))
<1> DEFINE s == Hears(r, m)
<1>1. /\ r.sp \in 1 .. MaxDepth /\ r.sp \in Nat /\ Top(r) \in Frames /\ Top(r).name \in Names
      /\ r.out.state = "pending" /\ Top(r).ns = {} /\ r.pc = "resolve"
  BY TopTyped, DnsAssumption DEF Walks, Sound, Asking, Walking
<1>2. v \in Addrs
  BY <1>1 DEF Frames
<1>3. /\ Walks(s) /\ s.sp = r.sp /\ s.name = r.name
      /\ \A i \in 1 .. MaxDepth : i # r.sp => s.frame[i] = r.frame[i]
      /\ Canonical[Top(s).name] = Canonical[Top(r).name]
      /\ s.out.state = "ok" => m.ips # {}
      /\ m.ips # {} => s.out.ips = m.ips /\ Top(s) = Top(r)
  BY <1>1, <1>2, HearKeeps
<1>4. \A i \in 1 .. r.sp - 1 : s.frame[i] = r.frame[i]
  BY <1>1, <1>3, DnsAssumption
<1>5. Canonical[s.frame[r.sp].name] = Canonical[r.frame[r.sp].name]
  BY <1>3 DEF Top
<1>6. FoundRight(s)
  <2> SUFFICES ASSUME s.out.state = "ok"
               PROVE  s.out.ips # {} /\ s.out.ips \in Ever(Canonical[Top(s).name])
    BY DEF FoundRight
  <2>1. m.ips # {} /\ s.out.ips = m.ips
    BY <1>3
  <2>2. m.ips = ips
    BY <1>1, <1>2, <2>1, SaysRight
  <2>3. Canonical[Top(r).name] = Top(r).name
    BY <1>1, <2>1, <2>2, AliasKeepsCanonical
  <2> QED
    BY <1>3, <2>1, <2>2, <2>3
<1>7. ASSUME r.name \in f[MaxDepth] PROVE \E j \in 1 .. s.sp : GoodWay(f, s, j)
  <2>1. PICK j \in 1 .. r.sp : GoodWay(f, r, j)
    BY <1>1, <1>7 DEF Finds
  <2>2. CASE j = r.sp
    <3>1. Asks(f, r.sp, Top(r))
      <4>1. ~ Seeks(f, r.sp, Top(r))
        BY <1>1 DEF Seeks, HasAnother
      <4> QED
        BY <1>1, <2>1, <2>2, <4>1, PendingTop
    <3>2. GoodTop(f, s)
      BY <1>1, <3>1, HearsWell
    <3> HIDE DEF s
    <3>3. s.sp <= r.sp /\ s.sp - 1 <= j
      BY <1>1, <1>3, <2>2
    <3> QED
      BY <1>3, <1>4, <1>5, <2>1, <3>2, <3>3, StaysGood
  <2>3. CASE j # r.sp
    <3>1. j \in 1 .. r.sp - 1 /\ j < s.sp /\ \A i \in 1 .. j : i \in 1 .. r.sp - 1
      BY <1>1, <1>3, <2>3
    <3> HIDE DEF s
    <3>2. Canonical[s.frame[j + 1].name] = Canonical[r.frame[j + 1].name]
      <4>1. CASE j + 1 = r.sp
        BY <1>5, <4>1
      <4>2. CASE j + 1 # r.sp
        <5>1. j + 1 \in 1 .. r.sp - 1
          BY <1>1, <3>1, <4>2
        <5> QED
          BY <1>4, <5>1
      <4> QED
        BY <4>1, <4>2
    <3>3. GoodWay(f, s, j)
      BY <1>3, <1>4, <2>1, <3>1, <3>2, StaysBelow
    <3>4. j \in 1 .. s.sp
      BY <1>1, <1>3
    <3> QED
      BY <3>3, <3>4
  <2> QED
    BY <2>2, <2>3
<1> QED
  BY <1>3, <1>6, <1>7 DEF Finds, OnCourse, WireSaid, Walks

\* The call on top leaves one of its name servers to a new call.
LEMMA Nesting ==
  ASSUME NoLameDelegation, NEW f \in FindPlans, NEW r, Walks(r), Seeking(r), MayNest(r),
         Finds(f, r), NEW x \in Top(r).ns
  PROVE  LET s == Push(SetTop(r, [Top(r) EXCEPT !.ns = @ \ {x}]), x) IN
         OnCourse(f, s)
<1> DEFINE t == [Top(r) EXCEPT !.ns = @ \ {x}]
           u == SetTop(r, t)
           s == Push(u, x)
<1>1. /\ r.sp \in 1 .. MaxDepth /\ r.sp \in Nat /\ r.sp < MaxDepth /\ MaxDepth \in Nat
      /\ Top(r) \in Frames /\ Top(r).name \in Names
      /\ r.sp = 1 => Canonical[Top(r).name] = Canonical[r.name]
      /\ r.out.state = "pending" /\ Top(r).ns # {} /\ r.pc = "resolve"
  BY TopTyped, DnsAssumption DEF Walks, Sound, Seeking, Walking, MayNest
<1>2. x \in Names
  BY <1>1 DEF Frames
<1>3. /\ t \in Frames /\ t.name = Top(r).name /\ t.hop = Top(r).hop
      /\ t.ns = Top(r).ns \ {x}
  BY <1>1 DEF Frames
<1> HIDE DEF t
<1>4. /\ Walks(u) /\ u.sp = r.sp /\ u.out = r.out /\ u.name = r.name /\ Top(u) = t
      /\ \A i \in 1 .. MaxDepth : i # r.sp => u.frame[i] = r.frame[i]
  BY <1>1, <1>3, TopSet
<1> HIDE DEF u
<1>5. /\ s.sp = r.sp + 1 /\ s.out = r.out /\ s.name = r.name /\ s.pc = "resolve"
      /\ \A i \in 1 .. r.sp : s.frame[i] = u.frame[i]
      /\ s.frame[r.sp + 1] = StartFrame(x)
  BY <1>1, <1>2, <1>4, PushFrames DEF Walks
<1>6. Walks(s)
  <2>1. Walks(u) /\ u.sp < MaxDepth /\ u.sp \in Nat /\ u.sp # 0 /\ u.said.from = "nobody"
        /\ u.wire = None
    BY <1>1, <1>4 DEF Walks, Sound
  <2> QED
    BY <1>2, <2>1, CallPushed DEF Walks, Sound
<1> HIDE DEF s
<1>7. /\ \A i \in 1 .. r.sp - 1 : s.frame[i] = r.frame[i]
      /\ s.frame[r.sp] = t /\ r.frame[r.sp] = Top(r) /\ Top(s) = StartFrame(x)
  BY <1>1, <1>4, <1>5 DEF Top
<1>8. ASSUME r.name \in f[MaxDepth] PROVE \E j \in 1 .. s.sp : GoodWay(f, s, j)
  <2>1. PICK j \in 1 .. r.sp : GoodWay(f, r, j)
    BY <1>1, <1>8 DEF Finds
  <2>2. CASE j # r.sp
    <3>1. j \in 1 .. r.sp - 1 /\ j < s.sp /\ j \in 1 .. s.sp
          /\ \A i \in 1 .. j : i \in 1 .. r.sp - 1
      BY <1>1, <1>5, <2>2
    <3>2. Canonical[s.frame[j + 1].name] = Canonical[r.frame[j + 1].name]
      <4>1. CASE j + 1 = r.sp
        BY <1>3, <1>7, <4>1
      <4>2. CASE j + 1 # r.sp
        <5>1. j + 1 \in 1 .. r.sp - 1
          BY <1>1, <3>1, <4>2
        <5> QED
          BY <1>7, <5>1
      <4> QED
        BY <4>1, <4>2
    <3>3. GoodWay(f, s, j)
      BY <1>6, <1>7, <2>1, <3>1, <3>2, StaysBelow
    <3> QED
      BY <3>1, <3>3
  <2>3. CASE j = r.sp
    <3>1. Seeks(f, r.sp, Top(r))
      <4>1. ~ Asks(f, r.sp, Top(r))
        BY <1>1 DEF Asks
      <4> QED
        BY <1>1, <2>1, <2>3, <4>1, PendingTop
    <3>2. PICK h \in HopPlans, k \in 1 .. Len(Line[Top(r).name]) : Referred(f, r.sp, Top(r), h, k)
      BY <3>1 DEF Seeks
    <3>3. Referred(f, r.sp, t, h, k) /\ x \in NSNames[Line[t.name][k + 1]]
      BY <1>3, <3>2 DEF Referred, OnRoute
    <3>4. Waits(f, r.sp, t, x)
      BY <1>3, <3>3 DEF Waits
    <3>5. ASSUME NEW i \in 1 .. s.sp - 1
          PROVE  Waits(f, i, s.frame[i], s.frame[i + 1].name)
      <4>1. i \in 1 .. r.sp
        BY <1>1, <1>5
      <4>2. CASE i = r.sp
        BY <1>2, <1>5, <1>7, <3>4, <4>2, FreshLocals
      <4>3. CASE i # r.sp
        <5>1. i \in 1 .. r.sp - 1 /\ i <= j
          BY <1>1, <2>3, <4>1, <4>3
        <5>2. Waits(f, i, r.frame[i], r.frame[i + 1].name) /\ s.frame[i] = r.frame[i]
          BY <1>7, <2>1, <5>1 DEF GoodWay
        <5>3. s.frame[i + 1].name = r.frame[i + 1].name
          <6>1. CASE i + 1 = r.sp
            BY <1>3, <1>7, <6>1
          <6>2. CASE i + 1 # r.sp
            <7>1. i + 1 \in 1 .. r.sp - 1
              BY <1>1, <5>1, <6>2
            <7> QED
              BY <1>7, <7>1
          <6> QED
            BY <6>1, <6>2
        <5> QED
          BY <5>2, <5>3
      <4> QED
        BY <4>2, <4>3
    <3>6. CASE x \in f[Level(r.sp) - 1]
      <4>1. s.sp \in 1 .. MaxDepth /\ x \in f[Level(s.sp)]
        BY <1>1, <1>5, <3>6, LevelBounds
      <4>2. Asks(f, s.sp, Top(s))
        BY <1>7, <4>1, GoodStart
      <4>3. GoodTop(f, s)
        BY <1>1, <1>5, <4>2 DEF GoodTop
      <4>4. GoodWay(f, s, s.sp) /\ s.sp \in 1 .. s.sp
        BY <1>1, <1>5, <3>5, <4>3 DEF GoodWay
      <4> QED
        BY <4>4
    <3>7. CASE x \notin f[Level(r.sp) - 1]
      <4>1. HasAnother(f, r.sp, s.frame[r.sp])
        BY <1>3, <1>7, <3>1, <3>7 DEF Seeks, HasAnother
      <4>2. r.sp # s.sp /\ r.sp \in 1 .. s.sp
        BY <1>1, <1>5
      <4>3. GoodWay(f, s, r.sp)
        BY <3>5, <4>1, <4>2 DEF GoodWay
      <4> QED
        BY <4>2, <4>3
    <3> QED
      BY <3>6, <3>7
  <2> QED
    BY <2>2, <2>3
<1>9. OnCourse(f, s)
  BY <1>1, <1>5, <1>6, <1>8 DEF FoundRight, Finds, OnCourse, WireSaid, Walks
<1> QED
  BY <1>9 DEF s, u, t

\* With no depth left the call on top fails: no name server of it is in the plan.
LEMMA NoDepthLeft ==
  ASSUME NEW f \in FindPlans, NEW r, Walks(r), Seeking(r), ~ MayNest(r), Finds(f, r)
  PROVE  LET s == [SetTop(r, [Top(r) EXCEPT !.ns = {}]) EXCEPT !.out = Failed] IN
         OnCourse(f, s)
<1> DEFINE t == [Top(r) EXCEPT !.ns = {}]
           u == SetTop(r, t)
           s == [u EXCEPT !.out = Failed]
<1>1. /\ r.sp \in 1 .. MaxDepth /\ r.sp \in Nat /\ r.sp = MaxDepth
      /\ Top(r) \in Frames /\ Top(r).name \in Names
      /\ r.sp = 1 => Canonical[Top(r).name] = Canonical[r.name]
      /\ r.out.state = "pending" /\ Top(r).ns # {}
  BY TopTyped, DnsAssumption DEF Walks, Sound, Seeking, Walking, MayNest
<1>2. t \in Frames /\ t.name = Top(r).name
  BY <1>1 DEF Frames
<1> HIDE DEF t
<1>3. /\ Walks(u) /\ u.sp = r.sp /\ u.name = r.name /\ Top(u) = t
      /\ \A i \in 1 .. MaxDepth : i # r.sp => u.frame[i] = r.frame[i]
  BY <1>1, <1>2, TopSet
<1> HIDE DEF u
<1>4. Walks(s) /\ s.out = Failed /\ s.sp = r.sp /\ s.frame = u.frame /\ s.name = r.name
  BY <1>3, FreshLocals, OutSet
<1> HIDE DEF s
<1>5. ASSUME r.name \in f[MaxDepth] PROVE \E j \in 1 .. s.sp : GoodWay(f, s, j)
  <2>1. PICK j \in 1 .. r.sp : GoodWay(f, r, j)
    BY <1>1, <1>5 DEF Finds, Walks
  <2>2. j # r.sp
    <3>1. f[Level(r.sp) - 1] = {}
      BY <1>1, LevelBounds, PlanTyped
    <3>2. ~ Asks(f, r.sp, Top(r)) /\ ~ Seeks(f, r.sp, Top(r))
      BY <1>1, <3>1 DEF Asks, Seeks, HasAnother
    <3> QED
      BY <1>1, <2>1, <3>2, PendingTop
  <2>3. j \in 1 .. r.sp - 1 /\ j < s.sp /\ j \in 1 .. s.sp /\ j + 1 \in 1 .. MaxDepth
        /\ \A i \in 1 .. j : i \in 1 .. MaxDepth /\ i # r.sp
    BY <1>1, <1>4, <2>2
  <2>4. Canonical[s.frame[j + 1].name] = Canonical[r.frame[j + 1].name]
    <3>1. CASE j + 1 = r.sp
      BY <1>2, <1>3, <1>4, <3>1 DEF Top
    <3>2. CASE j + 1 # r.sp
      BY <1>3, <1>4, <2>3, <3>2
    <3> QED
      BY <3>1, <3>2
  <2>5. \A i \in 1 .. j : s.frame[i] = r.frame[i]
    BY <1>3, <1>4, <2>3
  <2>6. GoodWay(f, s, j)
    BY <1>4, <2>1, <2>3, <2>4, <2>5, StaysBelow
  <2> QED
    BY <2>3, <2>6
<1>6. Failed.state = "failed"
  BY DEF Failed, Pending
<1>7. OnCourse(f, s)
  BY <1>4, <1>5, <1>6 DEF FoundRight, Finds, OnCourse, WireSaid, Walks
<1> QED
  BY <1>7 DEF s, u, t

\* The call on top has returned: the one below it goes on, to s, with its
\* frame in place; calls further down are not concerned.
LEMMA Returning ==
  ASSUME NEW f \in FindPlans, NEW r, Walks(r), r.sp > 1, NEW s, Walks(s), s.sp = r.sp - 1,
         NEW j \in 1 .. r.sp - 2, GoodWay(f, r, j),
         \A i \in 1 .. r.sp - 2 : s.frame[i] = r.frame[i],
         Canonical[s.frame[r.sp - 1].name] = Canonical[r.frame[r.sp - 1].name]
  PROVE  GoodWay(f, s, j) /\ j \in 1 .. s.sp
<1>1. r.sp \in Nat /\ j \in 1 .. r.sp - 1 /\ j < s.sp /\ j \in 1 .. s.sp
      /\ \A i \in 1 .. j : i \in 1 .. r.sp - 2
  BY DnsAssumption DEF Walks, Sound
<1>2. Canonical[s.frame[j + 1].name] = Canonical[r.frame[j + 1].name]
  <2>1. CASE j + 1 = r.sp - 1
    BY <2>1
  <2>2. CASE j + 1 # r.sp - 1
    <3>1. j + 1 \in 1 .. r.sp - 2
      BY <1>1, <2>2
    <3> QED
      BY <3>1
  <2> QED
    BY <2>1, <2>2
<1> QED
  BY <1>1, <1>2, StaysBelow

\* What a call popped leaves.
LEMMA PopFrames ==
  ASSUME NEW r, Walks(r), r.sp > 1
  PROVE  LET p == Pop(r) IN
         /\ Walks(p) /\ p.sp = r.sp - 1 /\ p.name = r.name /\ p.out = r.out
         /\ \A i \in 1 .. r.sp - 1 : p.frame[i] = r.frame[i]
         /\ Top(p) = r.frame[r.sp - 1]
<1> DEFINE p == Pop(r)
<1>1. /\ r.sp \in 1 .. MaxDepth /\ r.frame \in [1 .. MaxDepth -> Frames] /\ MaxDepth \in Nat
  BY DnsAssumption DEF Walks, Sound, Queries
<1>2. p.frame = [r.frame EXCEPT ![r.sp] = NoFrame]
  BY DEF Pop, SetTop, Walks, Queries
<1>3. \A i \in 1 .. r.sp - 1 : p.frame[i] = r.frame[i]
  BY <1>1, <1>2
<1>4. /\ Walks(p) /\ p.sp = r.sp - 1 /\ p.name = r.name /\ p.out = r.out
      /\ p.frame[r.sp - 1] = r.frame[r.sp - 1]
  BY CallPopped
<1> HIDE DEF p
<1> QED
  BY <1>3, <1>4 DEF Top, p

\* The addresses of a name server are found: its caller asks them, if it has a hop left.
LEMMA CallerAsks ==
  ASSUME NoLameDelegation, NEW f \in FindPlans, NEW r, Walks(r), Returned(r, "ok"), r.sp > 1,
         Finds(f, r), FoundRight(r)
  PROVE  LET s == NextHop(Pop(r), r.frame[r.sp - 1].name, r.out.ips) IN
         OnCourse(f, s)
<1> DEFINE p == Pop(r)
           below == r.frame[r.sp - 1]
           s == NextHop(p, below.name, r.out.ips)
<1>1. /\ r.sp \in 1 .. MaxDepth /\ r.sp \in Nat /\ r.sp - 1 \in 1 .. MaxDepth
      /\ r.sp - 1 \in 1 .. r.sp - 1
      /\ r.out.state = "ok" /\ r.pc = "resolve" /\ r.out.ips \in SUBSET Addrs
  BY DnsAssumption DEF Walks, Sound, Returned, Queries, Outcomes
<1>2. /\ Walks(p) /\ p.sp = r.sp - 1 /\ p.name = r.name
      /\ \A i \in 1 .. r.sp - 1 : p.frame[i] = r.frame[i]
      /\ Top(p) = below
  BY PopFrames
<1> HIDE DEF p
<1>3. /\ below \in Frames /\ below.name \in Names
      /\ p.sp = 1 => Canonical[below.name] = Canonical[p.name]
  BY <1>2, TopTyped
<1>4. /\ s.sp = r.sp - 1 /\ s.name = r.name /\ s.pc = "resolve"
      /\ s.out.state \in {"pending", "failed"}
      /\ \A i \in 1 .. MaxDepth : i # p.sp => s.frame[i] = p.frame[i]
      /\ Top(s).name \in {below.name, Top(p).name}
  BY <1>1, <1>2, <1>3, NextHopFrames
<1>5. Walks(s)
  BY <1>1, <1>2, <1>3, HopNext
<1>6. ASSUME below.hop + 1 < MaxHops,
             Asks(f, r.sp - 1, [name |-> below.name, left |-> r.out.ips, ns |-> {},
                                hop |-> below.hop + 1])
      PROVE  GoodTop(f, s)
  BY <1>1, <1>2, <1>3, <1>6, HopsWell
<1> HIDE DEF s, below
<1>7. \A i \in 1 .. r.sp - 2 : i \in 1 .. r.sp - 1 /\ s.frame[i] = r.frame[i]
  BY <1>1, <1>2, <1>4, DnsAssumption
<1>8. Canonical[s.frame[r.sp - 1].name] = Canonical[r.frame[r.sp - 1].name]
  BY <1>2, <1>4 DEF Top, below
<1>9. ASSUME r.name \in f[MaxDepth] PROVE \E j \in 1 .. s.sp : GoodWay(f, s, j)
  <2>1. PICK j \in 1 .. r.sp : GoodWay(f, r, j)
    BY <1>1, <1>9 DEF Finds
  <2>2. CASE j \in 1 .. r.sp - 2
    <3>1. GoodWay(f, s, j) /\ j \in 1 .. s.sp
      BY <1>4, <1>5, <1>7, <1>8, <2>1, <2>2, Returning
    <3> QED
      BY <3>1
  <2>3. CASE j \notin 1 .. r.sp - 2
    <3>1. r.sp - 1 <= j /\ s.sp - 1 <= j /\ s.sp <= r.sp /\ s.sp - 1 = r.sp - 2
          /\ (r.sp - 1) + 1 = r.sp
      BY <1>1, <1>4, <2>3
    <3>2. Waits(f, r.sp - 1, below, Top(r).name)
      BY <1>1, <2>1, <3>1 DEF GoodWay, Top, below
    <3>3. r.out.ips # {} /\ r.out.ips \in Ever(Canonical[Top(r).name])
      BY <1>1 DEF FoundRight
    <3>4. GoodTop(f, s)
      BY <1>1, <1>3, <1>6, <3>2, <3>3, AddressesHelp
    <3>5. \A i \in 1 .. s.sp - 1 : s.frame[i] = r.frame[i]
      BY <1>7, <3>1
    <3>6. GoodWay(f, s, s.sp) /\ s.sp \in 1 .. s.sp
      BY <1>4, <1>5, <1>8, <2>1, <3>1, <3>4, <3>5, StaysGood
    <3> QED
      BY <3>6
  <2> QED
    BY <2>2, <2>3
<1>10. OnCourse(f, s)
  BY <1>4, <1>5, <1>9 DEF FoundRight, Finds, OnCourse, WireSaid, Walks
<1> QED
  BY <1>10 DEF s, p, below

\* They are not: its caller has another one in the plan, if it is on a good way.
LEMMA CallerSeeks ==
  ASSUME NEW f \in FindPlans, NEW r, Walks(r), Returned(r, "failed"), r.sp > 1, Finds(f, r)
  PROVE  OnCourse(f, TryAnother(r))
<1> DEFINE p == Pop(r)
           below == r.frame[r.sp - 1]
           o == IF below.ns = {} THEN Failed ELSE Pending
           s == [p EXCEPT !.out = o]
<1>1. /\ r.sp \in 1 .. MaxDepth /\ r.sp \in Nat /\ r.sp - 1 \in 1 .. MaxDepth
      /\ r.sp - 1 \in 1 .. r.sp - 1
      /\ r.out.state = "failed" /\ r.pc = "resolve"
  BY DnsAssumption DEF Walks, Sound, Returned
<1>2. /\ Walks(p) /\ p.sp = r.sp - 1 /\ p.name = r.name
      /\ \A i \in 1 .. r.sp - 1 : p.frame[i] = r.frame[i]
      /\ Top(p) = below
  BY PopFrames
<1>3. /\ o \in Outcomes /\ o.state # "ok"
      /\ below.ns # {} => o.state = "pending"
  BY FreshLocals DEF Failed, Pending
<1>4. TryAnother(r) = s
  BY DEF TryAnother
<1> HIDE DEF p, o
<1>5. Walks(s) /\ s.out = o /\ s.sp = p.sp /\ s.frame = p.frame /\ s.name = p.name
  BY <1>2, <1>3, OutSet
<1> HIDE DEF s, below
<1>6. /\ \A i \in 1 .. r.sp - 1 : s.frame[i] = r.frame[i]
      /\ \A i \in 1 .. r.sp - 2 : i \in 1 .. r.sp - 1
      /\ s.frame[r.sp - 1] = below /\ Top(s) = below
      /\ Canonical[s.frame[r.sp - 1].name] = Canonical[r.frame[r.sp - 1].name]
  BY <1>1, <1>2, <1>5 DEF Top, below
<1>7. ASSUME r.name \in f[MaxDepth] PROVE \E j \in 1 .. s.sp : GoodWay(f, s, j)
  <2>1. PICK j \in 1 .. r.sp : GoodWay(f, r, j)
    BY <1>1, <1>7 DEF Finds
  <2>2. CASE j \in 1 .. r.sp - 2
    <3>1. GoodWay(f, s, j) /\ j \in 1 .. s.sp
      BY <1>2, <1>5, <1>6, <2>1, <2>2, Returning
    <3> QED
      BY <3>1
  <2>3. CASE j \notin 1 .. r.sp - 2
    <3>1. j # r.sp
      BY <1>1, <2>1 DEF GoodWay, GoodTop
    <3>2. j = r.sp - 1 /\ s.sp - 1 <= j /\ s.sp <= r.sp /\ s.sp - 1 = r.sp - 2
      BY <1>1, <1>2, <1>5, <2>3, <3>1
    <3>3. HasAnother(f, r.sp - 1, below) /\ Waits(f, r.sp - 1, below, Top(r).name)
      <4>1. (r.sp - 1) + 1 = r.sp
        BY <1>1
      <4> QED
        BY <1>1, <2>1, <3>1, <3>2, <4>1 DEF GoodWay, Top, below
    <3>4. Seeks(f, r.sp - 1, below) /\ o.state = "pending"
      BY <1>3, <3>3 DEF Seeks, HasAnother, Waits
    <3>5. GoodTop(f, s)
      BY <1>2, <1>5, <1>6, <3>4 DEF GoodTop
    <3>6. /\ \A i \in 1 .. s.sp - 1 : s.frame[i] = r.frame[i]
          /\ Canonical[s.frame[s.sp].name] = Canonical[r.frame[s.sp].name]
      BY <1>2, <1>5, <1>6, <3>2
    <3>7. GoodWay(f, s, s.sp) /\ s.sp \in 1 .. s.sp
      BY <1>5, <1>2, <2>1, <3>2, <3>5, <3>6, StaysGood
    <3> QED
      BY <3>7
  <2> QED
    BY <2>2, <2>3
<1>8. OnCourse(f, s)
  BY <1>2, <1>3, <1>5, <1>7 DEF FoundRight, Finds, OnCourse, WireSaid, Walks
<1> QED
  BY <1>4, <1>8

\* A walk begins with a call for the name that was asked for.
LEMMA Starting ==
  ASSUME NoLameDelegation, NEW f \in FindPlans, NEW r \in Queries, Sound(r), r.pc = "cache"
  PROVE  LET s == Push([r EXCEPT !.pc = "resolve"], r.name) IN OnCourse(f, s)
<1> DEFINE u == [r EXCEPT !.pc = "resolve"]
           s == Push(u, r.name)
<1>0. /\ r.wire = None /\ r.sp = 0 /\ r.out.state = "pending" /\ r.name \in Names
      /\ 1 \in 1 .. MaxDepth /\ 0 < MaxDepth
  BY DnsAssumption DEF Sound, Asking, Walking
<1>1. /\ u \in Queries /\ u.sp = 0 /\ u.out.state = "pending" /\ u.name = r.name
      /\ r.name \in Names /\ 1 \in 1 .. MaxDepth /\ 0 < MaxDepth /\ u.wire = None
  BY <1>0 DEF Queries, Places
<1> HIDE DEF u
<1>2. /\ s.sp = 1 /\ s.out.state = "pending" /\ s.name = r.name /\ Top(s) = StartFrame(r.name)
      /\ s.wire = None
  BY <1>1, PushFrames DEF Top
<1> HIDE DEF s
<1>3. ASSUME r.name \in f[MaxDepth] PROVE 1 \in 1 .. s.sp /\ GoodWay(f, s, 1)
  <2>1. Level(1) = MaxDepth
    BY DnsAssumption DEF Level
  <2>2. Asks(f, 1, StartFrame(r.name))
    BY <1>1, <1>3, <2>1, GoodStart
  <2>3. GoodTop(f, s)
    BY <1>2, <2>2 DEF GoodTop
  <2>4. 1 \in 1 .. s.sp /\ 1 .. s.sp - 1 = {}
    BY <1>2
  <2> QED
    BY <1>2, <2>3, <2>4 DEF GoodWay
<1>4. OnCourse(f, s)
  BY <1>2, <1>3 DEF FoundRight, Finds, OnCourse, WireSaid
<1> QED
  BY <1>4 DEF s, u

-----------------------------------------------------------------------------
(* The actions. *)

\* A step of one goroutine after which its walk finds what it can.
LEMMA WayTurns ==
  ASSUME IInv, NEW f, FindInv(f), NEW g \in Goroutines, NEW r,
         losses' = 0 => losses = 0 /\ OnCourse(f, r),
         q' = [q EXCEPT ![g] = r], zone' = zone
  PROVE  FindInv(f)'
<1>1. \A h \in Goroutines : q'[h] = IF h = g THEN r ELSE q[h]
  BY DEF IInv, TypeOK
<1>2. \A n \in Names : zone'[n] \in Ever(n)
  BY DEF FindInv
<1>3. losses' = 0 => \A h \in Goroutines : OnCourse(f, q'[h])
  BY <1>1 DEF FindInv
<1> QED
  BY <1>2, <1>3 DEF FindInv, OnCourse, WireSaid, FoundRight, Finds, GoodWay, GoodTop

LEMMA FindArrive ==
  ASSUME IInv, NEW f, FindInv(f), NEW g \in Goroutines, Arrive(g)
  PROVE  FindInv(f)'
<1>1. PICK n \in Asked, t \in {"A", "other"} :
        q' = [q EXCEPT ![g] = [Free EXCEPT !.pc = "local", !.name = n, !.qtype = t]]
  BY DEF Arrive
<1> DEFINE s == [Free EXCEPT !.pc = "local", !.name = n, !.qtype = t]
<1>2. s.pc = "local" /\ s.wire = None /\ losses' = losses /\ zone' = zone
  BY DEF Free, Arrive
<1> HIDE DEF s
<1>3. OnCourse(f, s)
  BY <1>2 DEF FoundRight, Finds, OnCourse, WireSaid
<1> QED
  BY <1>1, <1>2, <1>3, WayTurns DEF s

\* A step that does not lead to, or on with, a walk.
LEMMA FindElsewhere ==
  ASSUME IInv, NEW f, FindInv(f), NEW g \in Goroutines, NEW r, r.pc # "resolve", r.wire = None,
         q' = [q EXCEPT ![g] = r], losses' = losses \/ losses' = losses + 1, zone' = zone
  PROVE  FindInv(f)'
<1>1. OnCourse(f, r)
  BY DEF FoundRight, Finds, OnCourse, WireSaid
<1>2. losses' = 0 => losses = 0
  BY DEF IInv, TypeOK
<1> QED
  BY <1>1, <1>2, WayTurns

\* Answers, whatever they are, are not part of a walk.
LEMMA SaidElsewhere ==
  ASSUME NEW r, NEW from, NEW ips
  PROVE  Said(r, from, ips).pc # "resolve" /\ Said(r, from, ips).wire = None
BY DEF Said, Free

LEMMA FindOutside ==
  ASSUME IInv, NEW f, FindInv(f), NEW g \in Goroutines,
         \/ LookupLocal(g) \/ ChooseMode(g) \/ Store(g) \/ FallBack(g) \/ ReadUpstreams(g)
         \/ Forwarded(g) \/ UpstreamTimeout(g) \/ GiveUp(g) \/ Finish(g)
  PROVE  FindInv(f)'
<1> DEFINE r == q[g]
<1>1. r \in Queries /\ (r.pc # "resolve" => r.wire = None)
  BY DEF IInv, TypeOK, QueryOK, Sound, Asking, Walking
<1>2. ASSUME NEW s, s.pc # "resolve", s.wire = None, Turns(g, s) \/ Loses(g, s)
      PROVE  FindInv(f)'
  BY <1>2, FindElsewhere DEF Turns, Loses, KeepsWorld
<1>3. CASE LookupLocal(g)
  <2> DEFINE s == [r EXCEPT !.pc = "mode"]
  <2>1. s.pc = "mode" /\ s.wire = None
    BY <1>1, <1>3 DEF LookupLocal, Queries
  <2>2. Turns(g, s) \/ Turns(g, Said(r, "local", {local[r.name]}))
    BY <1>3 DEF LookupLocal
  <2> HIDE DEF s
  <2> QED
    BY <1>2, <2>1, <2>2, SaidElsewhere
<1>4. CASE ChooseMode(g)
  <2> DEFINE s(place) == [r EXCEPT !.pc = place]
  <2>1. /\ s("cache").pc = "cache" /\ s("upstreams").pc = "upstreams"
        /\ s("cache").wire = None /\ s("upstreams").wire = None
    BY <1>1, <1>4 DEF ChooseMode, Queries
  <2>2. Turns(g, s("cache")) \/ Turns(g, s("upstreams"))
    BY <1>4 DEF ChooseMode
  <2> HIDE DEF s
  <2> QED
    BY <1>2, <2>1, <2>2
<1>5. CASE Store(g)
  <2> DEFINE s == Said(r, "resolver", r.out.ips)
  <2>1. q' = [q EXCEPT ![g] = s] /\ losses' = losses /\ zone' = zone
    BY <1>5 DEF Store, KeepsWorld
  <2>2. s.pc # "resolve" /\ s.wire = None
    BY SaidElsewhere
  <2> HIDE DEF s
  <2> QED
    BY <2>1, <2>2, FindElsewhere
<1>6. CASE FallBack(g)
  <2> DEFINE s == [Free EXCEPT !.pc = "upstreams", !.name = q[g].name, !.qtype = q[g].qtype]
  <2>1. s.pc = "upstreams" /\ s.wire = None /\ Turns(g, s)
    BY <1>6 DEF Free, FallBack
  <2> HIDE DEF s
  <2> QED
    BY <1>2, <2>1
<1>7. CASE ReadUpstreams(g)
  <2> DEFINE s == [r EXCEPT !.pc = "forward", !.ups = settings.upstreams]
  <2>1. s.pc = "forward" /\ s.wire = None /\ Turns(g, s)
    BY <1>1, <1>7 DEF Queries, ReadUpstreams
  <2> HIDE DEF s
  <2> QED
    BY <1>2, <2>1
<1>8. CASE Forwarded(g) \/ GiveUp(g)
  BY <1>2, <1>8, SaidElsewhere DEF Forwarded, GiveUp
<1>9. CASE UpstreamTimeout(g)
  <2>1. PICK u \in r.ups \ Reliable : Loses(g, [r EXCEPT !.ups = @ \ {u}])
    BY <1>9 DEF UpstreamTimeout
  <2> DEFINE s == [r EXCEPT !.ups = @ \ {u}]
  <2>2. s.pc = r.pc /\ r.pc = "forward" /\ s.wire = None /\ Loses(g, s)
    BY <1>1, <1>9, <2>1 DEF Queries, UpstreamTimeout
  <2> HIDE DEF s
  <2> QED
    BY <1>2, <2>2
<1>10. CASE Finish(g)
  <2>1. Free.pc # "resolve" /\ Free.wire = None /\ Turns(g, Free)
    BY <1>10 DEF Free, Finish
  <2> QED
    BY <1>2, <2>1
<1> QED
  BY <1>3, <1>4, <1>5, <1>6, <1>7, <1>8, <1>9, <1>10

\* A step of the walk: it is enough to look at the query whose step it is.
LEMMA FindWalk ==
  ASSUME NoLameDelegation, IInv, NEW f \in FindPlans, FindInv(f), NEW g \in Goroutines,
         CacheGet(g) \/ Walk(g)
  PROVE  FindInv(f)'
<1> DEFINE r == q[g]
<1>1. /\ r \in Queries /\ Sound(r) /\ losses \in Nat
      /\ r.pc = "resolve" /\ r.wire = None => Walks(r)
      /\ ~ Asking(r) => r.wire = None
  BY DEF IInv, TypeOK, QueryOK, Sound, Walks
<1>2. ASSUME NEW s, Turns(g, s),
             losses = 0 /\ OnCourse(f, r) => OnCourse(f, s)
      PROVE  FindInv(f)'
  <2>1. losses = 0 => OnCourse(f, r)
    BY DEF FindInv
  <2>2. losses' = losses /\ zone' = zone /\ q' = [q EXCEPT ![g] = s]
    BY <1>2 DEF Turns, KeepsWorld
  <2> QED
    BY <1>2, <2>1, <2>2, WayTurns
<1>3. CASE CacheGet(g)
  <2> DEFINE s == Push([r EXCEPT !.pc = "resolve"], r.name)
             t == Said(r, "cache", cache[r.name].ips)
  <2>1. r.pc = "cache" /\ (Turns(g, t) \/ Turns(g, s))
    BY <1>3 DEF CacheGet
  <2>2. OnCourse(f, s)
    BY <1>1, <2>1, Starting
  <2>3. t.pc # "resolve" /\ t.wire = None
    BY SaidElsewhere
  <2> HIDE DEF s, t
  <2>4. OnCourse(f, t)
    BY <2>3 DEF FoundRight, Finds, OnCourse, WireSaid
  <2> QED
    BY <1>2, <2>1, <2>2, <2>4
<1>4. CASE LoseReply(g)
  <2>1. PICK v \in Top(r).left :
          Loses(g, [SetTop(r, [Top(r) EXCEPT !.left = @ \ {v}])
                    EXCEPT !.out = IF Top(r).left = {v} THEN Failed ELSE Pending])
    BY <1>4 DEF LoseReply
  <2> DEFINE s == [SetTop(r, [Top(r) EXCEPT !.left = @ \ {v}])
                   EXCEPT !.out = IF Top(r).left = {v} THEN Failed ELSE Pending]
  <2>2. Loses(g, s)
    BY <2>1
  <2> HIDE DEF s
  <2>3. losses' # 0 /\ zone' = zone /\ q' = [q EXCEPT ![g] = s]
    BY <1>1, <2>2 DEF Loses, KeepsWorld
  <2> QED
    BY <2>3, WayTurns
<1>5. CASE HearReply(g)
  <2> DEFINE u == Read(r)
             m == r.wire
             n == Top(u).name
  <2>1. /\ Asking(u) /\ Walks(u) /\ Turns(g, Hears(u, m)) /\ Top(u) = Top(r)
        /\ u.pc = r.pc /\ u.name = r.name /\ u.sp = r.sp /\ u.frame = r.frame
        /\ u.out = r.out
    BY <1>5, MessageRead
  <2>2. m # None
    BY <1>5 DEF HearReply
  <2> HIDE DEF u, m
  <2>3. ASSUME OnCourse(f, r) PROVE OnCourse(f, Hears(u, m))
    <3>1. PICK v \in Top(u).left : \E ips \in Ever(n) :
            /\ ips \subseteq Addrs /\ (Alias[n] # None => ips = {})
            /\ m \in Says(v, n, ips)
      BY <2>1, <2>2, <2>3 DEF OnCourse, WireSaid, m
    <3>2. PICK ips \in Ever(n) :
            /\ ips \subseteq Addrs /\ (Alias[n] # None => ips = {})
            /\ m \in Says(v, n, ips)
      BY <3>1
    <3>3. Finds(f, u)
      BY <2>1, <2>3, SameCalls DEF OnCourse
    <3> QED
      BY <2>1, <3>2, <3>3, Hearing
  <2> QED
    BY <1>2, <2>1, <2>3
<1>10. CASE Speak(g)
  <2> DEFINE n == Top(r).name
  <2>1. Walks(r)
    BY <1>1, <1>10 DEF Speak, Asking, Walking
  <2>2. n \in Names
    BY <2>1, TopTyped
  <2>3. /\ zone[n] \in Ever(n) /\ zone[n] \subseteq Addrs
        /\ Alias[n] # None => zone[n] = {}
    BY <2>2 DEF IInv, TypeOK, AliasesBare, FindInv
  <2>4. PICK v \in Top(r).left :
          \E m \in Says(v, n, zone[n]) : Turns(g, [r EXCEPT !.wire = m, !.at = now])
    BY <1>10 DEF Speak
  <2>5. PICK m \in Says(v, n, zone[n]) : Turns(g, [r EXCEPT !.wire = m, !.at = now])
    BY <2>4
  <2> DEFINE s == [r EXCEPT !.wire = m, !.at = now]
  <2>6. /\ s.pc = r.pc /\ s.name = r.name /\ s.sp = r.sp /\ s.frame = r.frame
        /\ s.out = r.out /\ s.wire = m
    BY <1>1 DEF Queries
  <2>7. Turns(g, s)
    BY <2>5
  <2> HIDE DEF s
  <2>8. Top(s) = Top(r)
    BY <2>6 DEF Top
  <2>9. WireSaid(s)
    BY <2>3, <2>5, <2>6, <2>8 DEF WireSaid
  <2>10. OnCourse(f, r) => OnCourse(f, s)
    BY <2>6, <2>9, SameCalls DEF OnCourse
  <2> QED
    BY <1>2, <2>7, <2>10
<1>6. CASE SeekServer(g)
  <2>1. Seeking(r) /\ MayNest(r) /\ Walks(r)
    BY <1>1, <1>6 DEF SeekServer, Seeking, Asking, Walking
  <2>2. PICK x \in Top(r).ns : Turns(g, Push(SetTop(r, [Top(r) EXCEPT !.ns = @ \ {x}]), x))
    BY <1>6 DEF SeekServer
  <2> DEFINE s == Push(SetTop(r, [Top(r) EXCEPT !.ns = @ \ {x}]), x)
  <2>3. OnCourse(f, r) => OnCourse(f, s)
    BY <2>1, Nesting DEF OnCourse
  <2> HIDE DEF s
  <2> QED
    BY <1>2, <2>2, <2>3 DEF s
<1>7. CASE TooDeep(g)
  <2> DEFINE s == [SetTop(r, [Top(r) EXCEPT !.ns = {}]) EXCEPT !.out = Failed]
  <2>1. Seeking(r) /\ ~ MayNest(r) /\ Walks(r) /\ Turns(g, s)
    BY <1>1, <1>7 DEF TooDeep, Seeking, Asking, Walking
  <2>2. OnCourse(f, r) => OnCourse(f, s)
    BY <2>1, NoDepthLeft DEF OnCourse
  <2> HIDE DEF s
  <2> QED
    BY <1>2, <2>1, <2>2
<1>8. CASE ServerFound(g)
  <2> DEFINE s == NextHop(Pop(r), r.frame[r.sp - 1].name, r.out.ips)
  <2>1. Returned(r, "ok") /\ r.sp > 1 /\ Walks(r) /\ Turns(g, s)
    BY <1>1, <1>8 DEF ServerFound, Returned, Asking, Walking
  <2>2. OnCourse(f, r) => OnCourse(f, s)
    BY <2>1, CallerAsks DEF OnCourse
  <2> HIDE DEF s
  <2> QED
    BY <1>2, <2>1, <2>2
<1>9. CASE ServerNotFound(g)
  <2>1. Returned(r, "failed") /\ r.sp > 1 /\ Walks(r) /\ Turns(g, TryAnother(r))
    BY <1>1, <1>9 DEF ServerNotFound, Returned, Asking, Walking
  <2>2. OnCourse(f, r) => OnCourse(f, TryAnother(r))
    BY <2>1, CallerSeeks DEF OnCourse
  <2> QED
    BY <1>2, <2>1, <2>2
<1> QED
  BY <1>3, <1>4, <1>5, <1>6, <1>7, <1>8, <1>9, <1>10 DEF Walk

\* What goes on meanwhile: a name only gets addresses it may have.
LEMMA FindWorld ==
  ASSUME IInv, NEW f, FindInv(f), SetNetwork \/ EditLocal \/ Renumber \/ Tick \/ UNCHANGED vars
  PROVE  FindInv(f)'
<1>1. q' = q /\ losses' = losses
  BY DEF SetNetwork, EditLocal, Renumber, Tick, vars
<1>2. \A n \in Names : zone'[n] \in Ever(n)
  <2>1. CASE Renumber
    <3>1. PICK v \in Moves : zone' = [zone EXCEPT ![v[1]] = v[2]]
      BY <2>1 DEF Renumber
    <3>2. \A n \in Names : zone'[n] = zone[n] \/ (n = v[1] /\ zone'[n] = v[2])
      BY <3>1 DEF IInv, TypeOK
    <3> QED
      BY <3>2 DEF FindInv, Ever
  <2>2. CASE ~ Renumber
    <3>1. zone' = zone
      BY <2>2 DEF SetNetwork, EditLocal, Tick, vars
    <3> QED
      BY <3>1 DEF FindInv
  <2> QED
    BY <2>1, <2>2
<1>3. losses' = 0 => \A g \in Goroutines : OnCourse(f, q'[g])
  BY <1>1 DEF FindInv
<1> QED
  BY <1>2, <1>3 DEF FindInv, OnCourse, WireSaid, FoundRight, Finds, GoodWay, GoodTop

-----------------------------------------------------------------------------
(* The theorem. *)

LEMMA FindInit ==
  ASSUME NEW f, Init
  PROVE  FindInv(f)
<1>1. \A n \in Names : zone[n] \in Ever(n)
  BY DEF Init, Ever
<1>2. Free.pc # "resolve" /\ Free.wire = None
  BY DEF Free
<1>3. \A g \in Goroutines : OnCourse(f, q[g])
  BY <1>2 DEF Init, FoundRight, Finds, OnCourse, WireSaid
<1> QED
  BY <1>1, <1>3 DEF FindInv

LEMMA FindNext ==
  ASSUME NoLameDelegation, IInv, NEW f \in FindPlans, FindInv(f), [Next]_vars
  PROVE  FindInv(f)'
BY FindArrive, FindOutside, FindWalk, FindWorld DEF Next, Handle

\* While no reply is lost, a walk fails only for names that no walk could find:
\* a name server that leads nowhere, or in a circle, never hides another one of
\* the zone (resolver.go:367), whatever the order servers are tried in and
\* whatever is renumbered or edited meanwhile.
THEOREM WalksFind ==
  ASSUME NoLameDelegation
  PROVE  Spec => []FailsOnlyIfUnfindable
<1> DEFINE FindsAll == \A f \in FindPlans : FindInv(f)
<1>1. Init => FindsAll
  BY FindInit
<1>2. IInv /\ FindsAll /\ [Next]_vars => FindsAll'
  BY FindNext
<1>3. IInv /\ FindsAll => FailsOnlyIfUnfindable
  <2> SUFFICES ASSUME IInv, FindsAll, NEW g \in Goroutines,
                      Returned(q[g], "failed"), q[g].sp = 1, losses = 0,
                      NEW f \in FindPlans, q[g].name \in f[MaxDepth]
               PROVE  FALSE
    BY DEF FailsOnlyIfUnfindable, Findable
  <2>1. q[g].pc = "resolve" /\ q[g].out.state = "failed"
    BY DEF Returned
  <2>2. PICK j \in 1 .. q[g].sp : GoodWay(f, q[g], j)
    BY <2>1 DEF FindInv, OnCourse, Finds
  <2>3. j = q[g].sp
    BY <2>2
  <2> QED
    BY <2>1, <2>2, <2>3 DEF GoodWay, GoodTop
<1> HIDE DEF FindsAll
<1> QED
  BY <1>1, <1>2, <1>3, Invariant, PTL DEF Spec

-----------------------------------------------------------------------------
(* A walk comes to an end. *)

\* Of one call, t is further than fr: more hops, or fewer servers or name servers
\* left to try in this hop.
Later(fr, t) ==
  \/ fr.hop < t.hop
  \/ /\ fr.hop = t.hop
     /\ \/ t.left \subseteq fr.left /\ t.left # fr.left
        \/ t.left = fr.left /\ t.ns \subseteq fr.ns /\ t.ns # fr.ns

\* Up to call p nothing has changed; that one has returned, or is further.
FurtherAt(r, s, p) ==
  /\ \A i \in 1 .. p - 1 : s.frame[i] = r.frame[i]
  /\ \/ s.sp = p - 1
     \/ p <= s.sp /\ Later(r.frame[p], s.frame[p])

\* The deepest call that is neither as before nor new is over or further, or the
\* one on top has its result.
Proceeds(r, s) ==
  \/ \E p \in 1 .. r.sp : FurtherAt(r, s, p)
  \/ /\ s.sp = r.sp /\ s.frame = r.frame
     /\ r.out.state = "pending" /\ s.out.state # "pending"

\* The walk is at s further than at r: the calls are, or else a message is on its
\* way to the one on top that was not before.
Advances(r, s) ==
  \/ Proceeds(r, s)
  \/ /\ s.sp = r.sp /\ s.frame = r.frame /\ s.out = r.out
     /\ r.wire = None /\ s.wire # None

\* A step within the call on top.
LEMMA TopAdvances ==
  ASSUME NEW r, NEW s, Walks(r), s.sp = r.sp,
         \A i \in 1 .. MaxDepth : i # r.sp => s.frame[i] = r.frame[i], Later(Top(r), Top(s))
  PROVE  Proceeds(r, s)
<1>1. r.sp \in 1 .. r.sp /\ \A i \in 1 .. r.sp - 1 : i \in 1 .. MaxDepth /\ i # r.sp
  BY DnsAssumption DEF Walks, Sound
<1>2. FurtherAt(r, s, r.sp)
  BY <1>1 DEF FurtherAt, Top
<1> QED
  BY <1>1, <1>2 DEF Proceeds

\* One more hop, or none left.
LEMMA HopAdvances ==
  ASSUME NEW r, Walks(r), r.out.state = "pending", NEW n \in Names, NEW servers \in SUBSET Addrs,
         r.sp = 1 => Canonical[n] = Canonical[r.name]
  PROVE  Proceeds(r, NextHop(r, n, servers))
<1> DEFINE s == NextHop(r, n, servers)
           t == [name |-> n, left |-> servers, ns |-> {}, hop |-> Top(r).hop + 1]
<1>1. /\ s.sp = r.sp
      /\ \A i \in 1 .. MaxDepth : i # r.sp => s.frame[i] = r.frame[i]
      /\ Top(r).hop + 1 < MaxHops => Top(s) = t
      /\ ~ (Top(r).hop + 1 < MaxHops) => s.out.state = "failed" /\ s.frame = r.frame
  BY NextHopFrames
<1>2. Top(r).hop \in Nat
  BY TopTyped, DnsAssumption DEF Frames
<1>3. Later(Top(r), t)
  BY <1>2 DEF Later
<1> HIDE DEF s, t
<1>4. CASE Top(r).hop + 1 < MaxHops
  BY <1>1, <1>3, <1>4, TopAdvances DEF s
<1>5. CASE ~ (Top(r).hop + 1 < MaxHops)
  BY <1>1, <1>5 DEF Proceeds, s
<1> QED
  BY <1>4, <1>5

LEMMA HearAdvances ==
  ASSUME NEW r, Walks(r), Asking(r), Top(r).left # {}, NEW m \in Messages,
         m.alias # None => m.alias = Alias[Top(r).name]
  PROVE  Proceeds(r, Hears(r, m))
<1> DEFINE fr == Top(r)
           s == Hears(r, m)
<1>1. /\ fr \in Frames /\ fr.name \in Names /\ fr.left # {}
      /\ r.sp = 1 => Canonical[fr.name] = Canonical[r.name]
      /\ r.out.state = "pending" /\ fr.ns = {}
  BY TopTyped DEF Asking, Walking
<1>3. m \in Messages /\ (m.alias # None => m.alias = Alias[fr.name])
  OBVIOUS
<1>4. m.ips \in SUBSET Addrs /\ m.ttl \in Nat /\ m.glue \in SUBSET Addrs /\ m.ns \in SUBSET Names
  BY <1>3 DEF Messages
<1>5. ASSUME NEW o \in Outcomes, o.state # "pending", s = [r EXCEPT !.out = o]
      PROVE  Proceeds(r, s)
  BY <1>1, <1>5, OutSet DEF Proceeds
<1>6. CASE m.ips # {}
  <2> DEFINE o == [state |-> "ok", ips |-> m.ips, ttl |-> m.ttl]
  <2>1. o \in Outcomes /\ o.state # "pending"
    BY <1>4 DEF Outcomes
  <2>2. s = [r EXCEPT !.out = o]
    BY <1>6 DEF Hears
  <2> HIDE DEF o, s
  <2> QED
    BY <1>5, <2>1, <2>2 DEF s
<1>7. CASE m.ips = {} /\ m.alias # None
  <2>1. Alias[fr.name] \in Names /\ Canonical[Alias[fr.name]] = Canonical[fr.name]
        /\ m.alias = Alias[fr.name]
    BY <1>1, <1>3, <1>7, AliasKeepsCanonical
  <2>2. Hosts[Root] \in SUBSET Addrs /\ s = NextHop(r, m.alias, Hosts[Root])
    BY <1>7, DelegationAssumption DEF Hears
  <2> QED
    BY <1>1, <2>1, <2>2, HopAdvances
<1>8. CASE m.ips = {} /\ m.alias = None /\ m.ns = {}
  <2>1. s = [r EXCEPT !.out = Failed] /\ Failed.state # "pending"
    BY <1>8 DEF Hears, Failed, Pending
  <2> QED
    BY <1>5, <2>1, FreshLocals
<1>9. CASE m.ips = {} /\ m.alias = None /\ m.ns # {} /\ m.glue # {}
  <2>1. s = NextHop(r, fr.name, m.glue)
    BY <1>9 DEF Hears
  <2> QED
    BY <1>1, <1>4, <2>1, HopAdvances
<1>10. CASE m.ips = {} /\ m.alias = None /\ m.ns # {} /\ m.glue = {}
  <2> DEFINE t == [fr EXCEPT !.left = {}, !.ns = m.ns]
  <2>1. t \in Frames /\ t.name = fr.name /\ t.left = {} /\ t.hop = fr.hop
    BY <1>1, <1>4 DEF Frames
  <2>2. s = SetTop(r, t)
    BY <1>10 DEF Hears
  <2>3. Later(fr, t)
    BY <1>1, <2>1 DEF Later
  <2> HIDE DEF t, s
  <2>4. /\ s.sp = r.sp /\ Top(s) = t
        /\ \A i \in 1 .. MaxDepth : i # r.sp => s.frame[i] = r.frame[i]
    BY <1>1, <2>1, <2>2, TopSet
  <2> QED
    BY <2>3, <2>4, TopAdvances DEF s
<1> QED
  BY <1>6, <1>7, <1>8, <1>9, <1>10

\* The call on top is over: what the one below makes of it is further.
LEMMA PopAdvances ==
  ASSUME NEW r, NEW s, Walks(r), r.sp > 1, s.sp = r.sp - 1,
         \A i \in 1 .. r.sp - 1 : s.frame[i] = r.frame[i]
  PROVE  Proceeds(r, s)
<1>1. r.sp \in 1 .. r.sp
  BY DnsAssumption DEF Walks, Sound
<1>2. FurtherAt(r, s, r.sp)
  BY DEF FurtherAt
<1> QED
  BY <1>1, <1>2 DEF Proceeds

LEMMA LossAdvances ==
  ASSUME NEW r, Walks(r), NEW v \in Top(r).left, NEW o \in Outcomes
  PROVE  Proceeds(r, [SetTop(r, [Top(r) EXCEPT !.left = @ \ {v}]) EXCEPT !.out = o])
<1> DEFINE t == [Top(r) EXCEPT !.left = @ \ {v}]
           u == SetTop(r, t)
           s == [u EXCEPT !.out = o]
<1>1. /\ Top(r) \in Frames /\ Top(r).name \in Names
      /\ r.sp = 1 => Canonical[Top(r).name] = Canonical[r.name]
  BY TopTyped
<1>2. t \in Frames /\ t.name = Top(r).name /\ t.hop = Top(r).hop /\ t.left = Top(r).left \ {v}
  BY <1>1 DEF Frames
<1>3. Later(Top(r), t)
  BY <1>2 DEF Later
<1> HIDE DEF t
<1>4. /\ Walks(u) /\ u.sp = r.sp /\ Top(u) = t
      /\ \A i \in 1 .. MaxDepth : i # r.sp => u.frame[i] = r.frame[i]
  BY <1>1, <1>2, TopSet
<1> HIDE DEF u
<1>5. s.sp = u.sp /\ s.frame = u.frame
  BY <1>4, OutSet
<1> HIDE DEF s
<1>6. Top(s) = t
  BY <1>4, <1>5 DEF Top
<1>7. Proceeds(r, s)
  BY <1>3, <1>4, <1>5, <1>6, TopAdvances
<1> QED
  BY <1>7 DEF s, u, t

\* A name server is left to a new call, or all of them are given up.
LEMMA SeekAdvances ==
  ASSUME NEW r, Walks(r), Seeking(r), NEW rest \in SUBSET Top(r).ns, rest # Top(r).ns
  PROVE  LET u == SetTop(r, [Top(r) EXCEPT !.ns = rest]) IN
         /\ Proceeds(r, [u EXCEPT !.out = Failed])
         /\ r.sp < MaxDepth => \A x \in Names : Proceeds(r, Push(u, x))
<1> DEFINE t == [Top(r) EXCEPT !.ns = rest]
           u == SetTop(r, t)
<1>1. /\ Top(r) \in Frames /\ Top(r).name \in Names
      /\ r.sp = 1 => Canonical[Top(r).name] = Canonical[r.name]
      /\ r.sp \in 1 .. MaxDepth /\ r.sp \in Nat /\ MaxDepth \in Nat
  BY TopTyped, DnsAssumption DEF Walks, Sound
<1>2. /\ t \in Frames /\ t.name = Top(r).name /\ t.hop = Top(r).hop
      /\ t.left = Top(r).left /\ t.ns = rest
  BY <1>1 DEF Frames
<1>3. Later(Top(r), t)
  BY <1>2 DEF Later
<1> HIDE DEF t
<1>4. /\ Walks(u) /\ u.sp = r.sp /\ Top(u) = t
      /\ \A i \in 1 .. MaxDepth : i # r.sp => u.frame[i] = r.frame[i]
  BY <1>1, <1>2, TopSet
<1> HIDE DEF u
<1>5. Proceeds(r, [u EXCEPT !.out = Failed])
  <2> DEFINE s == [u EXCEPT !.out = Failed]
  <2>1. s.sp = u.sp /\ s.frame = u.frame
    BY <1>4, FreshLocals, OutSet
  <2> HIDE DEF s
  <2>2. Top(s) = t
    BY <1>4, <2>1 DEF Top
  <2>3. Proceeds(r, s)
    BY <1>3, <1>4, <2>1, <2>2, TopAdvances
  <2> QED
    BY <2>3 DEF s
<1>6. ASSUME r.sp < MaxDepth, NEW x \in Names PROVE Proceeds(r, Push(u, x))
  <2> DEFINE s == Push(u, x)
  <2>1. s.sp = r.sp + 1 /\ \A i \in 1 .. r.sp : s.frame[i] = u.frame[i]
    BY <1>4, <1>6, PushFrames DEF Walks
  <2> HIDE DEF s
  <2>2. r.sp \in 1 .. r.sp /\ \A i \in 1 .. r.sp - 1 : i \in 1 .. r.sp /\ i # r.sp
        /\ i \in 1 .. MaxDepth
    BY <1>1
  <2>3. s.frame[r.sp] = t /\ \A i \in 1 .. r.sp - 1 : s.frame[i] = r.frame[i]
    BY <1>4, <2>1, <2>2 DEF Top
  <2>4. FurtherAt(r, s, r.sp)
    BY <1>1, <1>3, <2>1, <2>3 DEF FurtherAt, Top
  <2>5. Proceeds(r, s)
    BY <2>2, <2>4 DEF Proceeds
  <2> QED
    BY <2>5 DEF s
<1> QED
  BY <1>5, <1>6 DEF u, t

LEMMA ReturnAdvances ==
  ASSUME NEW r, Walks(r), r.sp > 1, r.out.ips \in SUBSET Addrs
  PROVE  /\ Proceeds(r, TryAnother(r))
         /\ Proceeds(r, NextHop(Pop(r), r.frame[r.sp - 1].name, r.out.ips))
<1> DEFINE p == Pop(r)
           below == r.frame[r.sp - 1]
           o == IF below.ns = {} THEN Failed ELSE Pending
           u == [p EXCEPT !.out = o]
           s == NextHop(p, below.name, r.out.ips)
           t == [name |-> below.name, left |-> r.out.ips, ns |-> {}, hop |-> Top(p).hop + 1]
<1>1. r.sp \in 1 .. MaxDepth /\ r.sp \in Nat /\ MaxDepth \in Nat
  BY DnsAssumption DEF Walks, Sound
<1>2. /\ Walks(p) /\ p.sp = r.sp - 1 /\ Top(p) = below
      /\ \A i \in 1 .. r.sp - 1 : p.frame[i] = r.frame[i]
  BY PopFrames
<1> HIDE DEF p
<1>3. /\ below \in Frames /\ below.name \in Names /\ below.hop \in Nat
      /\ p.sp = 1 => Canonical[below.name] = Canonical[p.name]
  BY <1>2, TopTyped, DnsAssumption DEF Frames
<1>4. /\ s.sp = p.sp
      /\ \A i \in 1 .. MaxDepth : i # p.sp => s.frame[i] = p.frame[i]
      /\ Top(p).hop + 1 < MaxHops => Top(s) = t
      /\ ~ (Top(p).hop + 1 < MaxHops) => s.frame = p.frame
  BY <1>2, <1>3, NextHopFrames
<1>5. Later(below, t)
  BY <1>2, <1>3 DEF Later
<1>6. Proceeds(r, u)
  <2>1. u.sp = p.sp /\ u.frame = p.frame
    <3>1. o \in Outcomes
      BY FreshLocals
    <3> HIDE DEF o
    <3> QED
      BY <1>2, <3>1, OutSet
  <2> HIDE DEF u
  <2> QED
    BY <1>2, <2>1, PopAdvances
<1> HIDE DEF s, t, below
<1>7. CASE Top(p).hop + 1 < MaxHops
  <2>1. r.sp - 1 \in 1 .. r.sp /\ \A i \in 1 .. (r.sp - 1) - 1 :
          i \in 1 .. MaxDepth /\ i # p.sp /\ i \in 1 .. r.sp - 1
    BY <1>1, <1>2
  <2>2. FurtherAt(r, s, r.sp - 1)
    BY <1>1, <1>2, <1>4, <1>5, <1>7, <2>1 DEF FurtherAt, Top, below
  <2> QED
    BY <1>6, <2>1, <2>2 DEF Proceeds, TryAnother, s, u, o, p, below
<1>8. CASE ~ (Top(p).hop + 1 < MaxHops)
  <2>1. Proceeds(r, s)
    BY <1>2, <1>4, <1>8, PopAdvances
  <2> QED
    BY <1>6, <2>1 DEF TryAnother, s, u, o, p, below
<1> QED
  BY <1>7, <1>8

LEMMA WalkAdvances ==
  ASSUME IInv, NEW g \in Goroutines, Walk(g)
  PROVE  Advances(q[g], q'[g])
<1> DEFINE r == q[g]
<1>1. /\ r \in Queries /\ Sound(r)
      /\ r.pc = "resolve" /\ r.wire = None => Walks(r)
      /\ ~ Asking(r) => r.wire = None
  BY DEF IInv, TypeOK, QueryOK, Sound, Walks
<1>2. ASSUME NEW s, Turns(g, s) \/ Loses(g, s) PROVE q'[g] = s
  BY <1>2 DEF Turns, Loses, IInv, TypeOK
<1>3. CASE LoseReply(g)
  <2>1. PICK v \in Top(r).left :
          Loses(g, [SetTop(r, [Top(r) EXCEPT !.left = @ \ {v}])
                    EXCEPT !.out = IF Top(r).left = {v} THEN Failed ELSE Pending])
    BY <1>3 DEF LoseReply
  <2> DEFINE o == IF Top(r).left = {v} THEN Failed ELSE Pending
             s == [SetTop(r, [Top(r) EXCEPT !.left = @ \ {v}]) EXCEPT !.out = o]
  <2>2. Loses(g, s) /\ o \in Outcomes /\ Walks(r)
    BY <1>1, <1>3, <2>1, FreshLocals DEF LoseReply, Asking, Walking
  <2> HIDE DEF o
  <2>3. Advances(r, s)
    BY <2>2, LossAdvances DEF Advances
  <2> HIDE DEF s
  <2> QED
    BY <1>2, <2>2, <2>3
<1>4. CASE HearReply(g)
  <2> DEFINE u == Read(r)
             m == r.wire
  <2>1. /\ Asking(u) /\ Walks(u) /\ Turns(g, Hears(u, m)) /\ Top(u) = Top(r)
        /\ u.sp = r.sp /\ u.frame = r.frame /\ u.out = r.out
        /\ m \in Messages /\ (m.alias # None => m.alias = Alias[Top(u).name])
    BY <1>4, MessageRead
  <2>2. Top(r).left # {}
    BY <1>4 DEF HearReply, IInv, QueryOK, WireOK
  <2> HIDE DEF u, m
  <2>3. Proceeds(u, Hears(u, m))
    BY <2>1, <2>2, HearAdvances
  <2>4. Advances(r, Hears(u, m))
    BY <2>1, <2>3 DEF Advances, Proceeds, FurtherAt
  <2> QED
    BY <1>2, <2>1, <2>4
<1>8. CASE Speak(g)
  <2> DEFINE n == Top(r).name
  <2>1. Walks(r) /\ r.wire = None
    BY <1>1, <1>8 DEF Speak, Asking, Walking
  <2>2. /\ n \in Names /\ zone[n] \in SUBSET Addrs /\ Top(r).left \subseteq Addrs
    BY <2>1, TopTyped DEF IInv, TypeOK, Frames
  <2>3. PICK v \in Top(r).left :
          \E m \in Says(v, n, zone[n]) : Turns(g, [r EXCEPT !.wire = m, !.at = now])
    BY <1>8 DEF Speak
  <2>4. PICK m \in Says(v, n, zone[n]) : Turns(g, [r EXCEPT !.wire = m, !.at = now])
    BY <2>3
  <2> DEFINE s == [r EXCEPT !.wire = m, !.at = now]
  <2>5. s.sp = r.sp /\ s.frame = r.frame /\ s.out = r.out /\ s.wire = m /\ Turns(g, s)
    BY <1>1, <2>4 DEF Queries
  <2>6. m # None
    <3>1. m \in Messages
      BY <2>2, SaysRight
    <3> QED
      BY <3>1, MessageAssumption
  <2> HIDE DEF s
  <2> QED
    BY <1>2, <2>1, <2>5, <2>6 DEF Advances
<1>5. CASE SeekServer(g)
  <2>1. Seeking(r) /\ r.sp < MaxDepth /\ Walks(r) /\ Top(r).ns \subseteq Names
    BY <1>1, <1>5, TopTyped DEF SeekServer, Seeking, Asking, Walking, MayNest, Frames
  <2>2. PICK x \in Top(r).ns : Turns(g, Push(SetTop(r, [Top(r) EXCEPT !.ns = @ \ {x}]), x))
    BY <1>5 DEF SeekServer
  <2> DEFINE rest == Top(r).ns \ {x}
             s == Push(SetTop(r, [Top(r) EXCEPT !.ns = rest]), x)
  <2>3. rest \in SUBSET Top(r).ns /\ rest # Top(r).ns /\ x \in Names /\ Turns(g, s)
    BY <2>1, <2>2
  <2> HIDE DEF rest
  <2>4. Advances(r, s)
    BY <2>1, <2>3, SeekAdvances DEF Advances
  <2> HIDE DEF s
  <2> QED
    BY <1>2, <2>3, <2>4
<1>6. CASE TooDeep(g)
  <2> DEFINE s == [SetTop(r, [Top(r) EXCEPT !.ns = {}]) EXCEPT !.out = Failed]
  <2>1. Seeking(r) /\ Walks(r) /\ Top(r).ns # {} /\ Turns(g, s)
    BY <1>1, <1>6 DEF TooDeep, Seeking, Asking, Walking
  <2>2. Advances(r, s)
    BY <2>1, SeekAdvances DEF Advances
  <2> HIDE DEF s
  <2> QED
    BY <1>2, <2>1, <2>2
<1>7. CASE ServerFound(g) \/ ServerNotFound(g)
  <2>1. Walks(r) /\ r.sp > 1 /\ r.out.ips \in SUBSET Addrs
    BY <1>1, <1>7 DEF ServerFound, ServerNotFound, Returned, Asking, Walking, Queries, Outcomes
  <2> DEFINE s == NextHop(Pop(r), r.frame[r.sp - 1].name, r.out.ips)
             u == TryAnother(r)
  <2>2. Advances(r, s) /\ Advances(r, u)
    BY <2>1, ReturnAdvances DEF Advances
  <2>3. Turns(g, s) \/ Turns(g, u)
    BY <1>7 DEF ServerFound, ServerNotFound
  <2> HIDE DEF s, u
  <2> QED
    BY <1>2, <2>2, <2>3
<1> QED
  BY <1>3, <1>4, <1>5, <1>6, <1>7, <1>8 DEF Walk

\* Every step of a walk brings it further, in an order without infinite ascent as
\* addresses and names are finitely many, depth and hops bounded: whatever servers
\* say, in circles or not, resolveIterativeFrom returns (resolver.go:292).
THEOREM WalksAdvance ==
  Spec => [][\A g \in Goroutines : Walk(g) => Advances(q[g], q'[g])]_vars
<1>1. IInv => [\A g \in Goroutines : Walk(g) => Advances(q[g], q'[g])]_vars
  BY WalkAdvances
<1> QED
  BY <1>1, Invariant, PTL
=============================================================================
