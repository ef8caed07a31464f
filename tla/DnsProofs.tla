------------------------------ MODULE DnsProofs ------------------------------
(***************************************************************************)
(* Proofs about DnsServer for any tree of zones, any number of queries in  *)
(* hand and any bounds of the walk: types, and that answers are as fresh   *)
(* as ServedFresh says.  The inductive invariant is IInv: a query that     *)
(* walks is on the line of aliases of the name it was asked for; a message *)
(* on its way says what was so when the server spoke, and is read within   *)
(* QueryTimeout; what the first call returns is no older than that, and a  *)
(* cache entry expires a lifetime after the answer it holds was read.      *)
(***************************************************************************)
EXTENDS DnsServer, TLAPS

\* What holds of the locals of a query wherever it is.
Sound(r) ==
  /\ r.pc # "idle" => r.name \in Names
  /\ r.pc = "resolve" =>
       /\ r.sp \in 1 .. MaxDepth
       /\ \A i \in 1 .. r.sp : r.frame[i].name \in Names
       /\ Canonical[r.frame[1].name] = Canonical[r.name]
  /\ r.pc \in {"local", "mode", "cache"} => r.sp = 0 /\ r.out.state = "pending"
  /\ r.said.from # "nobody" => r.pc = "done"
  /\ r.wire # None => Asking(r)

\* The zone data z and history p say that n had the addresses S at t - life or later.
Had(n, S, life, z, p, t) == z[n] = S \/ \E e \in p[n] : e.ips = S /\ t <= e.until + life

\* A message on its way is from a server that was asked, and right about the name
\* it was asked for at the moment it was sent.
WireOK(r, z, p, t) ==
  LET n == Top(r).name
      m == r.wire
  IN  m # None =>
        /\ Top(r).left # {}
        /\ r.at <= t /\ t <= r.at + QueryTimeout
        /\ m.ips # {} => m.ttl = TTL[n] /\ Alias[n] = None /\ Had(n, m.ips, 0, z, p, r.at)
        /\ m.alias # None => m.alias = Alias[n]

\* The result of the first call was right when the message with it was sent.
ResultOK(r, z, p, t) ==
  LET c == Canonical[r.name] IN
  r.pc = "resolve" /\ r.sp = 1 /\ r.out.state = "ok" =>
    r.out.ttl = TTL[c] /\ Had(c, r.out.ips, QueryTimeout, z, p, t)

\* How long after a name had its addresses they may be used.
Usable(c) == Lifetime(TTL[c]) + QueryTimeout

\* An answer that is about to go out is right in the same sense.
SaidOK(r, z, p, t) ==
  LET c == Canonical[r.name] IN
  /\ r.said.from = "resolver" => Had(c, r.said.ips, QueryTimeout, z, p, t)
  /\ r.said.from = "cache" => Had(c, r.said.ips, Usable(c), z, p, t)

QueryOK(r, z, p, t) ==
  Sound(r) /\ WireOK(r, z, p, t) /\ ResultOK(r, z, p, t) /\ SaidOK(r, z, p, t)

\* A cache entry is used no later than that after the name had its addresses.
EntryOK(n, e, z, p, t) ==
  LET c == Canonical[n] IN
  e # None =>
    /\ e.expires <= t + Lifetime(TTL[c])
    /\ z[c] = e.ips \/ \E h \in p[c] : h.ips = e.ips /\ e.expires <= h.until + Usable(c)

AliasesBare(z) == \A n \in Names : Alias[n] # None => z[n] = {}

IInv ==
  /\ TypeOK
  /\ AliasesBare(zone)
  /\ \A g \in Goroutines : QueryOK(q[g], zone, past, now)
  /\ \A n \in Names : EntryOK(n, cache[n], zone, past, now)

-----------------------------------------------------------------------------
(* Lemmas about the operators of the model. *)

LEMMA LifetimeBounds ==
  ASSUME NEW t \in Nat
  PROVE  /\ Lifetime(t) \in Nat /\ Lifetime(t) <= MaxTTL
         /\ Lifetime(t) <= IF t = 0 THEN ZeroTTL ELSE t
BY DnsAssumption DEF Lifetime, AtMost

LEMMA UsableBounds ==
  ASSUME NEW n \in Names
  PROVE  /\ Canonical[n] \in Names /\ TTL[Canonical[n]] \in Nat
         /\ Lifetime(TTL[Canonical[n]]) \in Nat /\ QueryTimeout \in Nat
         /\ Usable(Canonical[n]) = Lifetime(TTL[Canonical[n]]) + QueryTimeout
         /\ Usable(Canonical[n]) \in Nat
<1>1. Canonical[n] \in Names /\ TTL[Canonical[n]] \in Nat
  BY CanonicalAssumption, DelegationAssumption
<1>2. Lifetime(TTL[Canonical[n]]) \in Nat /\ QueryTimeout \in Nat
  BY <1>1, LifetimeBounds, DnsAssumption
<1> QED
  BY <1>1, <1>2 DEF Usable

\* Locals that are in use nowhere, and calls just begun, are well typed.
LEMMA FreshLocals ==
  /\ NoFrame \in Frames /\ Pending \in Outcomes /\ Failed \in Outcomes
  /\ Silence \in Replies /\ Free \in Queries /\ Free.wire = None
  /\ \A n \in Names : StartFrame(n) \in Frames /\ StartFrame(n).name = n
<1>1. 0 \in 0 .. (MaxHops - 1) /\ 0 \in 0 .. MaxDepth
  BY DnsAssumption
<1>2. Hosts[Root] \in SUBSET Addrs
  BY DelegationAssumption
<1>3. NoFrame \in Frames
  BY <1>1 DEF NoFrame, Frames
<1>4. \A n \in Names : StartFrame(n) \in Frames /\ StartFrame(n).name = n
  BY <1>1, <1>2 DEF StartFrame, NoFrame, Frames
<1>5. Pending \in Outcomes /\ Failed \in Outcomes /\ Silence \in Replies
  BY DEF Pending, Failed, Outcomes, Silence, Replies
<1>6. Free \in Queries /\ Free.wire = None
  BY <1>1, <1>3, <1>5 DEF Free, Queries, Places
<1> QED
  BY <1>3, <1>4, <1>5, <1>6

\* What a server says is a message, and any records in it are those of the name.
LEMMA SaysRight ==
  ASSUME NEW v \in Addrs, NEW n \in Names, NEW ips \in SUBSET Addrs,
         NEW m \in Says(v, n, ips)
  PROVE  /\ m \in Messages
         /\ m.ips # {} => m.ips = ips /\ m.ttl = TTL[n]
         /\ m.alias # None => m.alias = Alias[n]
<1>1. CASE m = Empty
  BY <1>1 DEF Empty, Messages
<1>2. ASSUME NEW i \in DOMAIN Line[n], m = About(n, i, ips)
      PROVE  /\ m \in Messages
             /\ m.ips # {} => m.ips = ips /\ m.ttl = TTL[n]
             /\ m.alias # None => m.alias = Alias[n]
  <2>1. Line[n] \in Seq(Zones) /\ TTL[n] \in Nat /\ Alias[n] \in Names \union {None}
    BY DelegationAssumption
  <2>2. CASE i = Len(Line[n])
    BY <1>2, <2>1, <2>2 DEF About, Empty, Messages
  <2>3. CASE i # Len(Line[n])
    <3>1. Line[n][i + 1] \in Zones
      BY <2>1, <2>3
    <3>2. NSNames[Line[n][i + 1]] \in SUBSET Names /\ Glue[Line[n][i + 1]] \in SUBSET Addrs
      BY <3>1, DelegationAssumption
    <3> QED
      BY <1>2, <2>3, <3>2 DEF About, Empty, Messages
  <2> QED
    BY <2>2, <2>3
<1> QED
  BY <1>1, <1>2 DEF Says, Knows

\* An alias leads to the same canonical name; a name without one is its own.
LEMMA AliasKeepsCanonical ==
  ASSUME NEW n \in Names
  PROVE  /\ Canonical[n] \in Names
         /\ Alias[n] = None => Canonical[n] = n
         /\ Alias[n] # None => Alias[n] \in Names /\ Canonical[Alias[n]] = Canonical[n]
BY CanonicalAssumption, DelegationAssumption

-----------------------------------------------------------------------------
(* The steps of a walk, as changes of the locals of a query. *)

\* A query in the walk that no message is on its way to, and its call stack, are
\* as they should be.
Walks(r) == r \in Queries /\ Sound(r) /\ r.pc = "resolve" /\ r.wire = None

\* A query that has no right answer to give is in order.
LEMMA NothingToShow ==
  ASSUME NEW r \in Queries, Sound(r), r.said.from = "nobody", r.wire = None,
         r.pc # "resolve" \/ r.sp # 1 \/ r.out.state # "ok",
         NEW z, NEW p, NEW t
  PROVE  QueryOK(r, z, p, t)
BY DEF QueryOK, WireOK, ResultOK, SaidOK

LEMMA TopTyped ==
  ASSUME NEW r, Walks(r)
  PROVE  /\ Top(r) \in Frames /\ Top(r).name \in Names
         /\ r.sp = 1 => Canonical[Top(r).name] = Canonical[r.name]
<1>1. r.sp \in 1 .. MaxDepth /\ r.frame \in [1 .. MaxDepth -> Frames] /\ r.sp \in 1 .. r.sp
  BY DnsAssumption DEF Walks, Sound, Queries
<1>2. r.frame[r.sp] \in Frames /\ r.frame[r.sp].name \in Names
  BY <1>1 DEF Walks, Sound
<1> QED
  BY <1>2 DEF Walks, Sound, Top

LEMMA OutSet ==
  ASSUME NEW r, Walks(r), NEW o \in Outcomes
  PROVE  LET s == [r EXCEPT !.out = o] IN
         /\ Walks(s) /\ s.out = o /\ s.sp = r.sp /\ s.frame = r.frame
         /\ s.name = r.name /\ s.said = r.said
<1> DEFINE s == [r EXCEPT !.out = o]
<1>1. s \in Queries
  BY DEF Walks, Queries
<1>2. /\ s.pc = r.pc /\ s.sp = r.sp /\ s.frame = r.frame /\ s.name = r.name
      /\ s.said = r.said /\ s.out = o /\ s.wire = r.wire
  BY DEF Walks, Queries
<1> QED
  BY <1>1, <1>2 DEF Walks, Sound

LEMMA TopSet ==
  ASSUME NEW r, Walks(r), NEW f \in Frames, f.name \in Names,
         r.sp = 1 => Canonical[f.name] = Canonical[r.name]
  PROVE  LET s == SetTop(r, f) IN
         /\ Walks(s) /\ s.sp = r.sp /\ s.out = r.out
         /\ s.name = r.name /\ s.said = r.said /\ Top(s) = f
         /\ \A i \in 1 .. MaxDepth : i # r.sp => s.frame[i] = r.frame[i]
<1> DEFINE s == SetTop(r, f)
<1>1. r.sp \in 1 .. MaxDepth /\ r.frame \in [1 .. MaxDepth -> Frames] /\ MaxDepth \in Nat
  BY DnsAssumption DEF Walks, Sound, Queries
<1>2. s.frame = [r.frame EXCEPT ![r.sp] = f]
  BY DEF SetTop, Walks, Queries
<1>3. /\ s.pc = r.pc /\ s.sp = r.sp /\ s.name = r.name /\ s.said = r.said /\ s.out = r.out
      /\ s.wire = r.wire
  BY DEF SetTop, Walks, Queries
<1>4. s \in Queries
  <2>1. [r.frame EXCEPT ![r.sp] = f] \in [1 .. MaxDepth -> Frames]
    BY <1>1
  <2> QED
    BY <2>1 DEF SetTop, Walks, Queries
<1>5. \A i \in 1 .. MaxDepth : s.frame[i] = IF i = r.sp THEN f ELSE r.frame[i]
  BY <1>1, <1>2
<1>6. \A i \in 1 .. s.sp : s.frame[i].name \in Names
  BY <1>1, <1>3, <1>5 DEF Walks, Sound
<1>7. Canonical[s.frame[1].name] = Canonical[s.name]
  BY <1>1, <1>3, <1>5 DEF Walks, Sound
<1> QED
  BY <1>1, <1>3, <1>4, <1>5, <1>6, <1>7 DEF Walks, Sound, Top

LEMMA HopNext ==
  ASSUME NEW r, Walks(r), NEW n \in Names, NEW servers \in SUBSET Addrs,
         r.sp = 1 => Canonical[n] = Canonical[r.name]
  PROVE  LET s == NextHop(r, n, servers) IN
         Walks(s) /\ s.out.state # "ok" /\ s.said = r.said
<1>1. Pending \in Outcomes /\ Failed \in Outcomes
      /\ Pending.state = "pending" /\ Failed.state = "failed"
  BY FreshLocals DEF Pending, Failed
<1>2. CASE Top(r).hop + 1 < MaxHops
  <2> DEFINE f == [name |-> n, left |-> servers, ns |-> {}, hop |-> Top(r).hop + 1]
  <2>1. Top(r) \in Frames
    BY DEF Top, Walks, Sound, Queries
  <2>2. f \in Frames /\ f.name = n
    BY <1>2, <2>1, DnsAssumption DEF Frames
  <2>3. Walks(SetTop(r, f)) /\ SetTop(r, f).said = r.said
    BY <2>2, TopSet
  <2> HIDE DEF f
  <2>4. LET s == [SetTop(r, f) EXCEPT !.out = Pending] IN
        Walks(s) /\ s.out = Pending /\ s.said = r.said
    BY <1>1, <2>3, OutSet
  <2> QED
    BY <1>1, <1>2, <2>4 DEF NextHop, f
<1>3. CASE ~(Top(r).hop + 1 < MaxHops)
  BY <1>1, <1>3, OutSet DEF NextHop
<1> QED
  BY <1>2, <1>3

LEMMA CallPushed ==
  ASSUME NEW r \in Queries, r.pc = "resolve", r.name \in Names, r.sp < MaxDepth,
         r.said.from = "nobody", r.wire = None, NEW n \in Names,
         \A i \in 1 .. r.sp : r.frame[i].name \in Names,
         Canonical[IF r.sp = 0 THEN n ELSE r.frame[1].name] = Canonical[r.name]
  PROVE  LET s == Push(r, n) IN Walks(s) /\ s.said = r.said /\ s.out = r.out
<1> DEFINE s == Push(r, n)
<1>1. /\ r.sp \in 0 .. MaxDepth /\ r.frame \in [1 .. MaxDepth -> Frames]
      /\ MaxDepth \in Nat /\ r.sp + 1 \in 1 .. MaxDepth
  BY DnsAssumption DEF Queries
<1>2. StartFrame(n) \in Frames /\ StartFrame(n).name = n
  BY FreshLocals
<1>3. s.frame = [r.frame EXCEPT ![r.sp + 1] = StartFrame(n)] /\ s.sp = r.sp + 1
  BY DEF Push, Queries
<1>4. /\ s.pc = r.pc /\ s.name = r.name /\ s.said = r.said /\ s.out = r.out
      /\ s.wire = r.wire
  BY DEF Push, Queries
<1>5. s \in Queries
  <2>1. [r.frame EXCEPT ![r.sp + 1] = StartFrame(n)] \in [1 .. MaxDepth -> Frames]
    BY <1>1, <1>2
  <2>2. r.sp + 1 \in 0 .. MaxDepth
    BY <1>1
  <2> QED
    BY <2>1, <2>2 DEF Push, Queries
<1>6. \A i \in 1 .. MaxDepth :
        s.frame[i] = IF i = r.sp + 1 THEN StartFrame(n) ELSE r.frame[i]
  BY <1>1, <1>3
<1>7. \A i \in 1 .. s.sp : s.frame[i].name \in Names
  BY <1>1, <1>2, <1>3, <1>6
<1>8. Canonical[s.frame[1].name] = Canonical[s.name]
  BY <1>1, <1>2, <1>4, <1>6
<1> HIDE DEF s
<1> QED
  BY <1>1, <1>3, <1>4, <1>5, <1>7, <1>8 DEF Walks, Sound, s

LEMMA CallPopped ==
  ASSUME NEW r, Walks(r), r.sp > 1
  PROVE  LET s == Pop(r) IN
         /\ Walks(s) /\ s.said = r.said /\ s.out = r.out /\ s.name = r.name
         /\ s.sp = r.sp - 1 /\ s.frame[r.sp - 1] = r.frame[r.sp - 1]
<1> DEFINE s == Pop(r)
<1>1. /\ r.sp \in 1 .. MaxDepth /\ r.frame \in [1 .. MaxDepth -> Frames]
      /\ MaxDepth \in Nat /\ r.sp - 1 \in 1 .. MaxDepth
  BY DnsAssumption DEF Walks, Sound, Queries
<1>2. s.frame = [r.frame EXCEPT ![r.sp] = NoFrame] /\ s.sp = r.sp - 1
  BY DEF Pop, SetTop, Walks, Queries
<1>3. /\ s.pc = r.pc /\ s.name = r.name /\ s.said = r.said /\ s.out = r.out
      /\ s.wire = r.wire
  BY DEF Pop, SetTop, Walks, Queries
<1>4. s \in Queries
  <2>1. [r.frame EXCEPT ![r.sp] = NoFrame] \in [1 .. MaxDepth -> Frames]
    BY <1>1, FreshLocals
  <2>2. r.sp - 1 \in 0 .. MaxDepth
    BY <1>1
  <2> QED
    BY <2>1, <2>2 DEF Pop, SetTop, Walks, Queries
<1>5. \A i \in 1 .. r.sp - 1 : s.frame[i] = r.frame[i]
  BY <1>1, <1>2
<1>6. /\ \A i \in 1 .. s.sp : s.frame[i].name \in Names
      /\ Canonical[s.frame[1].name] = Canonical[s.name]
  BY <1>1, <1>2, <1>3, <1>5 DEF Walks, Sound
<1> HIDE DEF s
<1> QED
  BY <1>1, <1>2, <1>3, <1>4, <1>5, <1>6 DEF Walks, Sound, s

-----------------------------------------------------------------------------
(* The actions. *)

\* A step of one goroutine that leaves the world and the cache alone.
LEMMA QueryTurns ==
  ASSUME IInv, NEW g \in Goroutines, NEW r \in Queries, QueryOK(r, zone, past, now),
         q' = [q EXCEPT ![g] = r], losses' \in Nat, UNCHANGED cache, KeepsWorld
  PROVE  IInv'
<1>1. /\ zone' = zone /\ past' = past /\ now' = now /\ cache' = cache
      /\ settings' = settings /\ local' = local /\ changes' = changes
  BY DEF KeepsWorld
<1>2. \A h \in Goroutines : q'[h] = IF h = g THEN r ELSE q[h]
  BY DEF IInv, TypeOK
<1>3. TypeOK'
  BY <1>1 DEF IInv, TypeOK
<1>4. \A h \in Goroutines : QueryOK(q'[h], zone', past', now')
  BY <1>1, <1>2 DEF IInv
<1>5. AliasesBare(zone)' /\ \A n \in Names : EntryOK(n, cache'[n], zone', past', now')
  BY <1>1 DEF IInv, AliasesBare
<1> QED
  BY <1>3, <1>4, <1>5 DEF IInv

\* With an answer that is right, or none, a query is in order.
LEMMA AnswerReady ==
  ASSUME NEW r \in Queries, r.name \in Names, NEW ips \in SUBSET Addrs,
         NEW from \in {"nobody", "local", "cache", "resolver", "upstream"},
         NEW z, NEW p, NEW t,
         from = "resolver" => Had(Canonical[r.name], ips, QueryTimeout, z, p, t),
         from = "cache" => Had(Canonical[r.name], ips, Usable(Canonical[r.name]), z, p, t)
  PROVE  Said(r, from, ips) \in Queries /\ QueryOK(Said(r, from, ips), z, p, t)
<1> DEFINE s == Said(r, from, ips)
<1>1. /\ s.pc = "done" /\ s.name = r.name /\ s.said.from = from /\ s.said.ips = ips
      /\ s.said \in Replies /\ s.wire = None
  BY FreshLocals DEF Said, Queries, Replies, Free
<1>2. s \in Queries
  BY FreshLocals DEF Said, Queries, Replies, Free, Places
<1> HIDE DEF s
<1>3. QueryOK(s, z, p, t)
  BY <1>1, <1>2 DEF QueryOK, Sound, WireOK, ResultOK, SaidOK
<1> QED
  BY <1>2, <1>3 DEF s

\* Steps before the walk.
LEMMA BeforeWalk ==
  ASSUME IInv, NEW g \in Goroutines, Arrive(g) \/ LookupLocal(g) \/ ChooseMode(g)
  PROVE  IInv'
<1> DEFINE r == q[g]
<1>1. r \in Queries /\ Sound(r)
  BY DEF IInv, TypeOK, QueryOK
<1>2. CASE Arrive(g)
  <2>1. PICK n \in Asked, t \in {"A", "other"} :
          q' = [q EXCEPT ![g] = [Free EXCEPT !.pc = "local", !.name = n, !.qtype = t]]
    BY <1>2 DEF Arrive
  <2> DEFINE s == [Free EXCEPT !.pc = "local", !.name = n, !.qtype = t]
  <2>2. n \in Names
    BY DnsAssumption
  <2>3. s \in Queries
    BY <2>2, FreshLocals DEF Queries, Free, Places
  <2>4. /\ s.pc = "local" /\ s.name = n /\ s.said = Silence
        /\ s.sp = 0 /\ s.out.state = "pending" /\ s.wire = None
    BY DEF Free, Pending
  <2>5. Sound(s) /\ s.said.from = "nobody"
    BY <2>2, <2>4 DEF Sound, Silence
  <2>6. QueryOK(s, zone, past, now)
    BY <2>3, <2>4, <2>5, NothingToShow
  <2>7. losses' \in Nat /\ UNCHANGED cache /\ KeepsWorld
    BY <1>2 DEF Arrive, KeepsWorld, IInv, TypeOK
  <2> QED
    BY <2>1, <2>3, <2>6, <2>7, QueryTurns
<1>3. ASSUME NEW place \in {"mode", "cache", "upstreams"}, r.pc \in {"local", "mode"},
             Turns(g, [q[g] EXCEPT !.pc = place])
      PROVE  IInv'
  <2> DEFINE s == [r EXCEPT !.pc = place]
  <2>1. /\ s \in Queries /\ s.pc = place /\ s.name = r.name /\ s.said = r.said
        /\ s.sp = r.sp /\ s.out = r.out /\ s.wire = r.wire
    BY <1>1 DEF Queries, Places
  <2>2. Sound(s) /\ s.said.from = "nobody" /\ s.wire = None
    BY <1>1, <1>3, <2>1 DEF Sound, Asking, Walking
  <2>3. QueryOK(s, zone, past, now)
    BY <2>1, <2>2, NothingToShow
  <2> QED
    BY <1>3, <2>1, <2>3, QueryTurns DEF Turns, IInv, TypeOK
<1>4. CASE LookupLocal(g)
  <2>1. r.name \in Names /\ r.pc = "local"
    BY <1>1, <1>4 DEF LookupLocal, Sound
  <2>2. CASE local[r.name] # None
    <3>1. local[r.name] \in Addrs
      BY <2>1, <2>2 DEF IInv, TypeOK
    <3>2. LET s == Said(r, "local", {local[r.name]}) IN
          s \in Queries /\ QueryOK(s, zone, past, now)
      BY <1>1, <2>1, <3>1, AnswerReady
    <3> QED
      BY <1>4, <2>2, <3>2, QueryTurns DEF LookupLocal, Turns, IInv, TypeOK
  <2>3. CASE local[r.name] = None
    BY <1>3, <1>4, <2>1, <2>3 DEF LookupLocal
  <2> QED
    BY <2>2, <2>3
<1>5. CASE ChooseMode(g)
  BY <1>3, <1>5 DEF ChooseMode
<1> QED
  BY <1>2, <1>4, <1>5

\* The cache answers with what the name had within a lifetime, or the walk begins.
LEMMA CacheRead ==
  ASSUME IInv, NEW g \in Goroutines, CacheGet(g) PROVE IInv'
<1> DEFINE r == q[g]
           n == q[g].name
           c == Canonical[n]
<1>1. r \in Queries /\ Sound(r) /\ r.pc = "cache" /\ n \in Names
  BY DEF IInv, TypeOK, QueryOK, CacheGet, Sound
<1>2. CASE Fresh(cache[n])
  <2> DEFINE e == cache[n]
  <2>1. e \in Entries /\ now <= e.expires /\ EntryOK(n, e, zone, past, now)
    BY <1>1, <1>2 DEF Fresh, IInv, TypeOK
  <2>2. c \in Names /\ Usable(c) \in Nat
    BY <1>1, UsableBounds
  <2>3. now \in Nat
    BY DEF IInv, TypeOK
  <2>4. \A h \in past[c] : h.until \in Nat
    BY <2>2 DEF IInv, TypeOK
  <2>5. e # None /\ e.expires \in Nat /\ e.ips \in SUBSET Addrs
    BY <1>2, <2>1 DEF Fresh, Entries
  <2>6. Had(c, e.ips, Usable(c), zone, past, now)
    <3>1. zone[c] = e.ips
          \/ \E h \in past[c] : h.ips = e.ips /\ e.expires <= h.until + Usable(c)
      BY <2>1, <2>5 DEF EntryOK
    <3> QED
      BY <2>1, <2>2, <2>3, <2>4, <2>5, <3>1 DEF Had
  <2>7. LET s == Said(r, "cache", e.ips) IN s \in Queries /\ QueryOK(s, zone, past, now)
    BY <1>1, <2>5, <2>6, AnswerReady
  <2> QED
    BY <1>2, <2>7, QueryTurns DEF CacheGet, Turns, IInv, TypeOK
<1>3. CASE ~Fresh(cache[n])
  <2> DEFINE b == [r EXCEPT !.pc = "resolve"]
             s == Push(b, n)
  <2>1. /\ r.sp = 0 /\ r.out.state = "pending" /\ r.said.from = "nobody" /\ 0 < MaxDepth
        /\ r.wire = None
    BY <1>1, DnsAssumption DEF Sound, Asking, Walking
  <2>2. /\ b \in Queries /\ b.pc = "resolve" /\ b.name = n /\ b.sp = 0
        /\ b.said.from = "nobody" /\ b.out.state = "pending" /\ b.wire = None
    BY <1>1, <2>1 DEF Queries, Places
  <2> HIDE DEF b
  <2>3. Walks(s) /\ s.said = b.said /\ s.out = b.out
    BY <1>1, <2>1, <2>2, CallPushed
  <2> HIDE DEF s
  <2>4. s \in Queries /\ QueryOK(s, zone, past, now)
    BY <2>2, <2>3, NothingToShow DEF Walks
  <2>5. Turns(g, s)
    BY <1>3 DEF CacheGet, b, s
  <2> QED
    BY <2>4, <2>5, QueryTurns DEF Turns, IInv, TypeOK
<1> QED
  BY <1>2, <1>3

\* A query that walks and returns no answer yet may take the step it likes.
LEMMA WalkTurns ==
  ASSUME IInv, NEW g \in Goroutines, NEW r, Walks(r), r.sp # 1 \/ r.out.state # "ok",
         r.said.from = "nobody", Turns(g, r) \/ Loses(g, r)
  PROVE  IInv'
<1>1. r \in Queries /\ QueryOK(r, zone, past, now)
  BY NothingToShow DEF Walks
<1>2. losses' \in Nat
  BY DEF Turns, Loses, IInv, TypeOK
<1> QED
  BY <1>1, <1>2, QueryTurns DEF Turns, Loses

\* What a server says is right at that moment.
LEMMA MessageSent ==
  ASSUME IInv, NEW g \in Goroutines, Speak(g) PROVE IInv'
<1> DEFINE r == q[g]
           n == Top(r).name
<1>1. /\ Walks(r) /\ Asking(r) /\ r.said.from = "nobody"
      /\ r.pc = "resolve" /\ r.out.state = "pending"
  BY DEF Speak, Asking, Walking, Walks, IInv, TypeOK, QueryOK, Sound
<1>2. Top(r) \in Frames /\ n \in Names /\ zone[n] \in SUBSET Addrs /\ now \in Nat
  BY <1>1, TopTyped DEF IInv, TypeOK
<1>0. PICK v \in Top(r).left :
        \E m \in Says(v, n, zone[n]) : Turns(g, [r EXCEPT !.wire = m, !.at = now])
  BY DEF Speak
<1>3. PICK m \in Says(v, n, zone[n]) : Turns(g, [r EXCEPT !.wire = m, !.at = now])
  BY <1>0
<1>4. /\ m \in Messages
      /\ m.ips # {} => m.ips = zone[n] /\ m.ttl = TTL[n] /\ Alias[n] = None
      /\ m.alias # None => m.alias = Alias[n]
  <2>1. v \in Addrs
    BY <1>2 DEF Frames
  <2>2. AliasesBare(zone)
    BY DEF IInv
  <2> QED
    BY <1>2, <2>1, <2>2, SaysRight DEF AliasesBare
<1> DEFINE s == [r EXCEPT !.wire = m, !.at = now]
<1>5. /\ s.pc = r.pc /\ s.name = r.name /\ s.sp = r.sp /\ s.frame = r.frame /\ s.out = r.out
      /\ s.said = r.said /\ s.wire = m /\ s.at = now /\ s \in Queries
  BY <1>1, <1>2, <1>4 DEF Walks, Queries
<1> HIDE DEF s
<1>6. Asking(s) /\ Top(s) = Top(r)
  BY <1>1, <1>5 DEF Asking, Walking, Top
<1>7. Sound(s)
  BY <1>1, <1>5, <1>6 DEF Walks, Sound
<1>8. WireOK(s, zone, past, now)
  <2>1. now <= now /\ now <= now + QueryTimeout
    BY <1>2, DnsAssumption
  <2>2. m.ips # {} => Had(n, m.ips, 0, zone, past, now)
    BY <1>4 DEF Had
  <2>3. Top(r).left # {}
    BY <1>0
  <2> QED
    BY <1>4, <1>5, <1>6, <2>1, <2>2, <2>3 DEF WireOK
<1>9. ResultOK(s, zone, past, now) /\ SaidOK(s, zone, past, now)
  BY <1>1, <1>5 DEF ResultOK, SaidOK
<1>10. QueryOK(s, zone, past, now)
  BY <1>7, <1>8, <1>9 DEF QueryOK
<1>11. Turns(g, s)
  BY <1>3 DEF s
<1> QED
  BY <1>5, <1>10, <1>11, QueryTurns DEF Turns, IInv, TypeOK

\* The locals when the message has been read.
Read(r) == [r EXCEPT !.wire = None, !.at = 0]

\* A message that is read was right no longer ago than a server is waited for.
LEMMA MessageRead ==
  ASSUME IInv, NEW g \in Goroutines, HearReply(g)
  PROVE  LET r == Read(q[g])
             m == q[g].wire
             n == Top(r).name
         IN  /\ Walks(r) /\ Asking(r) /\ r.said.from = "nobody" /\ r.out.state = "pending"
             /\ r.sp = q[g].sp /\ r.frame = q[g].frame /\ r.out = q[g].out
             /\ r.pc = q[g].pc /\ r.name = q[g].name /\ Top(r) = Top(q[g])
             /\ m \in Messages
             /\ m.ips # {} => /\ m.ttl = TTL[n] /\ Alias[n] = None
                              /\ Had(n, m.ips, QueryTimeout, zone, past, now)
             /\ m.alias # None => m.alias = Alias[n]
             /\ Turns(g, Hears(r, m))
<1> DEFINE u == q[g]
           r == Read(u)
           m == u.wire
           n == Top(r).name
<1>1. /\ u \in Queries /\ Sound(u) /\ u.pc = "resolve" /\ u.out.state = "pending"
      /\ Asking(u) /\ m # None /\ m \in Messages /\ u.said.from = "nobody"
      /\ Turns(g, Hears(r, m))
  BY DEF HearReply, Asking, Walking, IInv, TypeOK, QueryOK, Sound, Queries, Read
<1>2. /\ r.pc = u.pc /\ r.name = u.name /\ r.sp = u.sp /\ r.frame = u.frame /\ r.out = u.out
      /\ r.said = u.said /\ r.wire = None /\ r \in Queries
  BY <1>1 DEF Read, Queries
<1> HIDE DEF r
<1>3. Asking(r) /\ Top(r) = Top(u)
  BY <1>1, <1>2 DEF Asking, Walking, Top
<1>4. Walks(r)
  BY <1>1, <1>2, <1>3 DEF Walks, Sound
<1>5. WireOK(u, zone, past, now) /\ u.at \in Nat /\ now \in Nat /\ QueryTimeout \in Nat
  BY <1>1, DnsAssumption DEF IInv, TypeOK, QueryOK, Queries
<1>6. n \in Names /\ \A e \in past[n] : e.until \in Nat
  BY <1>4, TopTyped DEF IInv, TypeOK
<1>7. ASSUME m.ips # {}
      PROVE  m.ttl = TTL[n] /\ Alias[n] = None /\ Had(n, m.ips, QueryTimeout, zone, past, now)
  <2>1. /\ m.ttl = TTL[n] /\ Alias[n] = None /\ Had(n, m.ips, 0, zone, past, u.at)
        /\ now <= u.at + QueryTimeout
    BY <1>1, <1>3, <1>5, <1>7 DEF WireOK
  <2> QED
    BY <1>5, <1>6, <2>1 DEF Had
<1>8. m.alias # None => m.alias = Alias[n]
  BY <1>1, <1>3, <1>5 DEF WireOK
<1> QED
  BY <1>1, <1>2, <1>3, <1>4, <1>7, <1>8 DEF r

\* A message takes the walk on, or ends it with what the name had when it was sent.
LEMMA MessageHeard ==
  ASSUME IInv, NEW g \in Goroutines, HearReply(g) PROVE IInv'
<1> DEFINE r == Read(q[g])
           m == q[g].wire
           n == Top(r).name
           c == Canonical[r.name]
<1>1. Walks(r) /\ r.out.state = "pending" /\ r.said.from = "nobody"
  BY MessageRead
<1>2. n \in Names /\ Top(r) \in Frames /\ (r.sp = 1 => Canonical[n] = c)
  BY <1>1, TopTyped
<1>4. Turns(g, Hears(r, m))
  BY MessageRead
<1>5. /\ m \in Messages
      /\ m.ips # {} => /\ m.ttl = TTL[n] /\ Alias[n] = None
                       /\ Had(n, m.ips, QueryTimeout, zone, past, now)
      /\ m.alias # None => m.alias = Alias[n]
  BY MessageRead
<1> HIDE DEF r
<1>6. CASE m.ips # {}
  <2> DEFINE o == [state |-> "ok", ips |-> m.ips, ttl |-> m.ttl]
             s == [r EXCEPT !.out = o]
  <2>1. o \in Outcomes
    BY <1>5 DEF Outcomes, Messages
  <2>2. Walks(s) /\ s.out = o /\ s.sp = r.sp /\ s.name = r.name /\ s.said = r.said
    BY <1>1, <2>1, OutSet
  <2>3. r.sp = 1 => n = c
    BY <1>2, <1>5, <1>6, AliasKeepsCanonical
  <2>4. r.sp = 1 => o.ttl = TTL[c] /\ Had(c, o.ips, QueryTimeout, zone, past, now)
    BY <1>5, <1>6, <2>3
  <2>5. Turns(g, s)
    BY <1>4, <1>6 DEF Hears
  <2> HIDE DEF s, o
  <2>6. s \in Queries /\ QueryOK(s, zone, past, now)
    BY <1>1, <2>2, <2>4 DEF Walks, QueryOK, WireOK, ResultOK, SaidOK
  <2> QED
    BY <2>5, <2>6, QueryTurns DEF Turns, IInv, TypeOK
<1>7. CASE m.ips = {} /\ m.alias # None
  <2>1. m.alias \in Names /\ (r.sp = 1 => Canonical[m.alias] = c)
    BY <1>2, <1>5, <1>7, AliasKeepsCanonical
  <2>2. LET s == NextHop(r, m.alias, Hosts[Root]) IN
        Walks(s) /\ s.out.state # "ok" /\ s.said = r.said
    BY <1>1, <2>1, HopNext, DelegationAssumption
  <2> QED
    BY <1>1, <1>4, <1>7, <2>2, WalkTurns DEF Hears
<1>8. CASE m.ips = {} /\ m.alias = None /\ m.ns = {}
  <2>1. Failed \in Outcomes /\ Failed.state = "failed"
    BY FreshLocals DEF Failed
  <2>2. LET s == [r EXCEPT !.out = Failed] IN
        Walks(s) /\ s.out = Failed /\ s.said = r.said
    BY <1>1, <2>1, OutSet
  <2> QED
    BY <1>1, <1>4, <1>8, <2>1, <2>2, WalkTurns DEF Hears
<1>9. CASE m.ips = {} /\ m.alias = None /\ m.ns # {} /\ m.glue # {}
  <2>1. LET s == NextHop(r, n, m.glue) IN
        Walks(s) /\ s.out.state # "ok" /\ s.said = r.said
    BY <1>1, <1>2, <1>5, HopNext DEF Messages
  <2> QED
    BY <1>1, <1>4, <1>9, <2>1, WalkTurns DEF Hears
<1>10. CASE m.ips = {} /\ m.alias = None /\ m.ns # {} /\ m.glue = {}
  <2> DEFINE f == [Top(r) EXCEPT !.left = {}, !.ns = m.ns]
  <2>1. f \in Frames /\ f.name = n
    BY <1>2, <1>5 DEF Frames, Messages
  <2>2. Turns(g, SetTop(r, f))
    BY <1>4, <1>10 DEF Hears
  <2> HIDE DEF f
  <2>3. LET s == SetTop(r, f) IN Walks(s) /\ s.out = r.out /\ s.said = r.said
    BY <1>1, <1>2, <2>1, TopSet
  <2> QED
    BY <1>1, <2>2, <2>3, WalkTurns
<1> QED
  BY <1>6, <1>7, <1>8, <1>9, <1>10

\* So do the other steps of a walk: a reply that does not come, calls and returns.
LEMMA WalkStep ==
  ASSUME IInv, NEW g \in Goroutines, Walk(g) PROVE IInv'
<1> DEFINE r == q[g]
<1>0. CASE Speak(g) \/ HearReply(g)
  BY <1>0, MessageSent, MessageHeard
<1> SUFFICES ASSUME ~ (Speak(g) \/ HearReply(g)) PROVE IInv'
  BY <1>0
<1>1. Walks(r) /\ r.said.from = "nobody"
  BY DEF Walk, LoseReply, SeekServer, TooDeep, ServerFound, ServerNotFound,
         Asking, Seeking, Walking, Returned, Walks, IInv, TypeOK, QueryOK, Sound
<1>2. /\ Top(r) \in Frames /\ Top(r).name \in Names
      /\ r.sp = 1 => Canonical[Top(r).name] = Canonical[r.name]
  BY <1>1, TopTyped
<1>3. /\ Pending \in Outcomes /\ Pending.state = "pending"
      /\ Failed \in Outcomes /\ Failed.state = "failed"
  BY FreshLocals DEF Pending, Failed
<1>4. CASE LoseReply(g)
  <2>1. PICK v \in Top(r).left :
          Loses(g, [SetTop(r, [Top(r) EXCEPT !.left = @ \ {v}])
                    EXCEPT !.out = IF Top(r).left = {v} THEN Failed ELSE Pending])
    BY <1>4 DEF LoseReply
  <2> DEFINE f == [Top(r) EXCEPT !.left = @ \ {v}]
             o == IF Top(r).left = {v} THEN Failed ELSE Pending
             t == SetTop(r, f)
             s == [t EXCEPT !.out = o]
  <2>2. f \in Frames /\ f.name = Top(r).name
    BY <1>2 DEF Frames
  <2>3. o \in Outcomes /\ o.state # "ok"
    BY <1>3
  <2>4. Loses(g, s)
    BY <2>1
  <2> HIDE DEF f, o
  <2>5. Walks(t) /\ t.said = r.said
    BY <1>1, <1>2, <2>2, TopSet
  <2> HIDE DEF t
  <2>6. Walks(s) /\ s.out = o /\ s.said = t.said
    BY <2>3, <2>5, OutSet
  <2> HIDE DEF s
  <2> QED
    BY <1>1, <2>3, <2>4, <2>5, <2>6, WalkTurns
<1>6. CASE SeekServer(g)
  <2>1. PICK n \in Top(r).ns : Turns(g, Push(SetTop(r, [Top(r) EXCEPT !.ns = @ \ {n}]), n))
    BY <1>6 DEF SeekServer
  <2> DEFINE f == [Top(r) EXCEPT !.ns = @ \ {n}]
             t == SetTop(r, f)
             s == Push(t, n)
  <2>2. f \in Frames /\ f.name = Top(r).name /\ n \in Names
    BY <1>2 DEF Frames
  <2>3. Turns(g, s)
    BY <2>1
  <2> HIDE DEF f
  <2>4. Walks(t) /\ t.said = r.said /\ t.sp = r.sp /\ t.out = r.out
    BY <1>1, <1>2, <2>2, TopSet
  <2>5. r.sp < MaxDepth /\ r.out.state = "pending"
    BY <1>6 DEF SeekServer, Seeking, Walking, MayNest
  <2> HIDE DEF t
  <2>6. Walks(s) /\ s.said = t.said /\ s.out = t.out
    <3>1. /\ t \in Queries /\ t.pc = "resolve" /\ t.name \in Names
          /\ \A i \in 1 .. t.sp : t.frame[i].name \in Names
          /\ Canonical[IF t.sp = 0 THEN n ELSE t.frame[1].name] = Canonical[t.name]
      BY <2>4 DEF Walks, Sound
    <3>2. t.wire = None
      BY <2>4 DEF Walks
    <3> QED
      BY <1>1, <2>2, <2>4, <2>5, <3>1, <3>2, CallPushed
  <2> HIDE DEF s
  <2> QED
    BY <1>1, <2>3, <2>4, <2>5, <2>6, WalkTurns
<1>7. CASE TooDeep(g)
  <2> DEFINE f == [Top(r) EXCEPT !.ns = {}]
             t == SetTop(r, f)
             s == [t EXCEPT !.out = Failed]
  <2>1. f \in Frames /\ f.name = Top(r).name
    BY <1>2 DEF Frames
  <2>2. Turns(g, s)
    BY <1>7 DEF TooDeep
  <2> HIDE DEF f
  <2>3. Walks(t) /\ t.said = r.said
    BY <1>1, <1>2, <2>1, TopSet
  <2> HIDE DEF t
  <2>4. Walks(s) /\ s.out = Failed /\ s.said = t.said
    BY <1>3, <2>3, OutSet
  <2> HIDE DEF s
  <2> QED
    BY <1>1, <1>3, <2>2, <2>3, <2>4, WalkTurns
<1>8. CASE ServerFound(g)
  <2> DEFINE t == Pop(r)
             n == r.frame[r.sp - 1].name
             s == NextHop(t, n, r.out.ips)
  <2>1. r.sp > 1 /\ Turns(g, s)
    BY <1>8 DEF ServerFound
  <2>2. /\ Walks(t) /\ t.said = r.said /\ t.sp = r.sp - 1
        /\ t.frame[r.sp - 1] = r.frame[r.sp - 1]
    BY <1>1, <2>1, CallPopped
  <2>3. n \in Names /\ (t.sp = 1 => Canonical[n] = Canonical[t.name])
    <3>1. Top(t).name = n
      BY <2>2 DEF Top
    <3> QED
      BY <2>2, <3>1, TopTyped
  <2>4. r.out.ips \in SUBSET Addrs
    BY <1>1 DEF Walks, Queries, Outcomes
  <2> HIDE DEF t, n
  <2>5. Walks(s) /\ s.out.state # "ok" /\ s.said = t.said
    BY <2>2, <2>3, <2>4, HopNext
  <2> HIDE DEF s
  <2> QED
    BY <1>1, <2>1, <2>2, <2>5, WalkTurns
<1>9. CASE ServerNotFound(g)
  <2> DEFINE t == Pop(r)
             o == IF r.frame[r.sp - 1].ns = {} THEN Failed ELSE Pending
             s == [t EXCEPT !.out = o]
  <2>1. r.sp > 1 /\ Turns(g, s)
    BY <1>9 DEF ServerNotFound, TryAnother
  <2>2. Walks(t) /\ t.said = r.said
    BY <1>1, <2>1, CallPopped
  <2>3. o \in Outcomes /\ o.state # "ok"
    BY <1>3
  <2> HIDE DEF t, o
  <2>4. Walks(s) /\ s.out = o /\ s.said = t.said
    BY <2>2, <2>3, OutSet
  <2> HIDE DEF s
  <2> QED
    BY <1>1, <2>1, <2>2, <2>3, <2>4, WalkTurns
<1> QED
  BY <1>4, <1>6, <1>7, <1>8, <1>9 DEF Walk

\* The answer of the walk is kept for a lifetime from now on, and sent.
LEMMA AnswerStored ==
  ASSUME IInv, NEW g \in Goroutines, Store(g) PROVE IInv'
<1> DEFINE r == q[g]
           n == r.name
           c == Canonical[n]
           e == [ips |-> r.out.ips, expires |-> now + Lifetime(r.out.ttl)]
           s == Said(r, "resolver", r.out.ips)
<1>1. /\ r \in Queries /\ Sound(r) /\ n \in Names
      /\ r.pc = "resolve" /\ r.sp = 1 /\ r.out.state = "ok"
  BY DEF Store, Returned, IInv, TypeOK, QueryOK, Sound
<1>2. r.out.ttl = TTL[c] /\ Had(c, r.out.ips, QueryTimeout, zone, past, now)
  BY <1>1 DEF IInv, QueryOK, ResultOK
<1>3. /\ c \in Names /\ Lifetime(TTL[c]) \in Nat /\ now \in Nat /\ QueryTimeout \in Nat
      /\ Usable(c) = Lifetime(TTL[c]) + QueryTimeout
      /\ r.out.ips \in SUBSET Addrs /\ \A h \in past[c] : h.until \in Nat
  <2>1. c \in Names /\ Lifetime(TTL[c]) \in Nat /\ QueryTimeout \in Nat
        /\ Usable(c) = Lifetime(TTL[c]) + QueryTimeout
    BY <1>1, UsableBounds
  <2>2. r.out.ips \in SUBSET Addrs
    BY <1>1 DEF Queries, Outcomes
  <2> QED
    BY <2>1, <2>2 DEF IInv, TypeOK
<1>4. e \in Entries
  BY <1>2, <1>3 DEF Entries
<1>5. EntryOK(n, e, zone, past, now)
  <2>1. e.expires = now + Lifetime(TTL[c]) /\ e.ips = r.out.ips
    BY <1>2
  <2>2. zone[c] = e.ips
        \/ \E h \in past[c] : h.ips = e.ips /\ e.expires <= h.until + Usable(c)
    BY <1>2, <1>3, <2>1 DEF Had
  <2> QED
    BY <1>3, <2>1, <2>2 DEF EntryOK
<1>6. s \in Queries /\ QueryOK(s, zone, past, now)
  BY <1>1, <1>2, <1>3, AnswerReady
<1>7. cache' = [cache EXCEPT ![n] = e] /\ q' = [q EXCEPT ![g] = s]
  BY DEF Store
<1>8. /\ zone' = zone /\ past' = past /\ now' = now /\ losses' = losses
      /\ settings' = settings /\ local' = local /\ changes' = changes
  BY DEF Store, KeepsWorld
<1> HIDE DEF e, s
<1>9. TypeOK'
  BY <1>1, <1>4, <1>6, <1>7, <1>8 DEF IInv, TypeOK
<1>10. \A h \in Goroutines : QueryOK(q'[h], zone', past', now')
  BY <1>6, <1>7, <1>8 DEF IInv, TypeOK
<1>11. \A m \in Names : EntryOK(m, cache'[m], zone', past', now')
  BY <1>1, <1>5, <1>7, <1>8 DEF IInv, TypeOK
<1>12. AliasesBare(zone)'
  BY <1>8 DEF IInv, AliasesBare
<1> QED
  BY <1>9, <1>10, <1>11, <1>12 DEF IInv

\* Forwarding, and the end of a query.
LEMMA AfterWalk ==
  ASSUME IInv, NEW g \in Goroutines,
         \/ FallBack(g) \/ ReadUpstreams(g) \/ Forwarded(g) \/ UpstreamTimeout(g)
         \/ GiveUp(g) \/ Finish(g)
  PROVE  IInv'
<1> DEFINE r == q[g]
<1>1. r \in Queries /\ Sound(r) /\ losses \in Nat
  BY DEF IInv, TypeOK, QueryOK
<1>2. ASSUME NEW s \in Queries, s.pc \in {"idle", "upstreams", "forward"},
             s.pc # "idle" => s.name \in Names, s.said.from = "nobody", s.wire = None,
             Turns(g, s) \/ Loses(g, s)
      PROVE  IInv'
  <2>1. QueryOK(s, zone, past, now)
    BY <1>2, NothingToShow DEF Sound
  <2> QED
    BY <1>1, <1>2, <2>1, QueryTurns DEF Turns, Loses
<1>3. CASE FallBack(g)
  <2> DEFINE s == [Free EXCEPT !.pc = "upstreams", !.name = q[g].name, !.qtype = q[g].qtype]
  <2>1. r.name \in Names /\ r.qtype \in {"A", "other"}
    BY <1>1, <1>3 DEF FallBack, Returned, Sound, Queries
  <2>2. s \in Queries /\ s.pc = "upstreams" /\ s.name = r.name /\ s.said = Silence
        /\ s.wire = None
    BY <2>1, FreshLocals DEF Free, Queries, Places
  <2>3. Turns(g, s)
    BY <1>3 DEF FallBack
  <2> HIDE DEF s
  <2> QED
    BY <1>2, <2>1, <2>2, <2>3 DEF Silence
<1>4. CASE ReadUpstreams(g)
  <2> DEFINE s == [r EXCEPT !.pc = "forward", !.ups = settings.upstreams]
  <2>1. settings.upstreams \in SUBSET Upstreams
    BY DnsAssumption DEF IInv, TypeOK
  <2>2. /\ s \in Queries /\ s.pc = "forward" /\ s.name = r.name /\ s.said = r.said
        /\ s.wire = r.wire
    BY <1>1, <2>1 DEF Queries, Places
  <2>3. r.name \in Names /\ r.said.from = "nobody" /\ r.wire = None /\ Turns(g, s)
    BY <1>1, <1>4 DEF ReadUpstreams, Sound, Asking, Walking
  <2> HIDE DEF s
  <2> QED
    BY <1>2, <2>2, <2>3
<1>5. CASE UpstreamTimeout(g)
  <2>1. PICK u \in r.ups \ Reliable : Loses(g, [r EXCEPT !.ups = @ \ {u}])
    BY <1>5 DEF UpstreamTimeout
  <2> DEFINE s == [r EXCEPT !.ups = @ \ {u}]
  <2>2. /\ s \in Queries /\ s.pc = r.pc /\ s.name = r.name /\ s.said = r.said
        /\ s.wire = r.wire
    BY <1>1 DEF Queries
  <2>3. r.name \in Names /\ r.said.from = "nobody" /\ r.pc = "forward" /\ r.wire = None
    BY <1>1, <1>5 DEF UpstreamTimeout, Sound, Asking, Walking
  <2> HIDE DEF s
  <2> QED
    BY <1>2, <2>1, <2>2, <2>3 DEF s
<1>6. ASSUME NEW from \in {"nobody", "upstream"}, r.pc = "forward",
             Turns(g, Said(r, from, {}))
      PROVE  IInv'
  <2>1. r.name \in Names
    BY <1>1, <1>6 DEF Sound
  <2>2. LET s == Said(r, from, {}) IN s \in Queries /\ QueryOK(s, zone, past, now)
    BY <1>1, <2>1, AnswerReady
  <2> QED
    BY <1>1, <1>6, <2>2, QueryTurns DEF Turns
<1>7. CASE Forwarded(g) \/ GiveUp(g)
  BY <1>6, <1>7 DEF Forwarded, GiveUp
<1>8. CASE Finish(g)
  <2>1. Free.pc = "idle" /\ Free.said.from = "nobody" /\ Free.wire = None
    BY DEF Free, Silence
  <2> QED
    BY <1>2, <1>8, <2>1, FreshLocals DEF Finish
<1> QED
  BY <1>3, <1>4, <1>5, <1>7, <1>8

\* A name that changes its addresses had the old ones until now.
LEMMA HadStays ==
  ASSUME IInv, NEW n \in Names, NEW S \in SUBSET Addrs, NEW t \in Nat, t <= now,
         NEW life \in Nat, Renumber, Had(n, S, life, zone, past, t)
  PROVE  Had(n, S, life, zone', past', t)
<1>1. PICK m \in Moves :
        /\ zone' = [zone EXCEPT ![m[1]] = m[2]]
        /\ past' = [past EXCEPT ![m[1]] = @ \union {[ips |-> zone[m[1]], until |-> now]}]
  BY DEF Renumber
<1>2. now' = now /\ now \in Nat /\ past \in [Names -> SUBSET [ips : SUBSET Addrs, until : Nat]]
      /\ zone \in [Names -> SUBSET Addrs]
  BY DEF Renumber, IInv, TypeOK
<1>3. past[n] \subseteq past'[n]
  BY <1>1, <1>2
<1>4. CASE zone[n] = S /\ zone'[n] # S
  <2>1. [ips |-> S, until |-> now] \in past'[n]
    BY <1>1, <1>2, <1>4
  <2> QED
    BY <1>2, <2>1 DEF Had
<1> QED
  BY <1>2, <1>3, <1>4 DEF Had

\* What goes on meanwhile keeps the invariant.
LEMMA WorldMoves ==
  ASSUME IInv, SetNetwork \/ EditLocal \/ Renumber \/ Tick \/ UNCHANGED vars
  PROVE  IInv'
<1>1. CASE SetNetwork \/ EditLocal \/ UNCHANGED vars
  <2>1. /\ q' = q /\ cache' = cache /\ zone' = zone /\ past' = past /\ now' = now
        /\ losses' = losses
    BY <1>1 DEF SetNetwork, EditLocal, vars
  <2>2. settings' \in Settings /\ changes' \in Nat
    BY <1>1 DEF SetNetwork, EditLocal, vars, IInv, TypeOK
  <2>3. local' \in [Names -> Addrs \union {None}]
    BY <1>1, DnsAssumption DEF SetNetwork, EditLocal, vars, IInv, TypeOK
  <2>4. TypeOK'
    BY <2>1, <2>2, <2>3 DEF IInv, TypeOK
  <2> QED
    BY <2>1, <2>4 DEF IInv, AliasesBare
<1>2. CASE Renumber
  <2>1. PICK m \in Moves :
          /\ zone' = [zone EXCEPT ![m[1]] = m[2]]
          /\ past' = [past EXCEPT ![m[1]] = @ \union {[ips |-> zone[m[1]], until |-> now]}]
    BY <1>2 DEF Renumber
  <2>2. m[1] \in Names /\ Alias[m[1]] = None /\ m[2] \in SUBSET Addrs
    BY DnsAssumption
  <2>3. /\ q' = q /\ cache' = cache /\ now' = now /\ losses' = losses
        /\ settings' = settings /\ local' = local /\ changes' \in Nat
    BY <1>2 DEF Renumber, IInv, TypeOK
  <2>4. zone' \in [Names -> SUBSET Addrs]
    BY <2>1, <2>2 DEF IInv, TypeOK
  <2>5. past' \in [Names -> SUBSET [ips : SUBSET Addrs, until : Nat]]
    BY <2>1, <2>2 DEF IInv, TypeOK
  <2>6. TypeOK'
    BY <2>3, <2>4, <2>5 DEF IInv, TypeOK
  <2>7. AliasesBare(zone)'
    BY <2>1, <2>2 DEF IInv, TypeOK, AliasesBare
  <2>8. ASSUME NEW g \in Goroutines PROVE QueryOK(q'[g], zone', past', now')
    <3> DEFINE r == q[g]
               c == Canonical[r.name]
    <3>1. r \in Queries /\ QueryOK(r, zone, past, now)
      BY DEF IInv, TypeOK
    <3>2. CASE r.name \in Names
      <4>1. c \in Names /\ Usable(c) \in Nat /\ QueryTimeout \in Nat /\ 0 \in Nat
            /\ now \in Nat /\ now <= now
        BY <3>2, UsableBounds DEF IInv, TypeOK
      <4>2. r.out.ips \in SUBSET Addrs /\ r.said.ips \in SUBSET Addrs
        BY <3>1 DEF Queries, Outcomes, Replies
      <4>3. ResultOK(r, zone', past', now')
        BY <1>2, <2>3, <3>1, <4>1, <4>2, HadStays DEF QueryOK, ResultOK
      <4>4. SaidOK(r, zone', past', now')
        BY <1>2, <2>3, <3>1, <4>1, <4>2, HadStays DEF QueryOK, SaidOK
      <4>5. WireOK(r, zone', past', now')
        <5> SUFFICES ASSUME r.wire # None PROVE WireOK(r, zone', past', now')
          BY DEF WireOK
        <5>1. Asking(r) /\ r.pc = "resolve" /\ r.wire \in Messages /\ r.at \in Nat
          BY <3>1 DEF QueryOK, Sound, Asking, Walking, Queries
        <5>2. Top(r).name \in Names
          BY <3>1, <5>1, DnsAssumption DEF QueryOK, Sound, Top
        <5>3. r.wire.ips \in SUBSET Addrs /\ WireOK(r, zone, past, now)
          BY <3>1, <5>1 DEF QueryOK, Messages
        <5>4. r.wire.ips # {} => Had(Top(r).name, r.wire.ips, 0, zone', past', r.at)
          BY <1>2, <4>1, <5>1, <5>2, <5>3, HadStays DEF WireOK
        <5> QED
          BY <2>3, <5>3, <5>4 DEF WireOK
      <4> QED
        BY <2>3, <3>1, <4>3, <4>4, <4>5 DEF QueryOK
    <3>3. CASE r.name \notin Names
      BY <2>3, <3>1, <3>3 DEF QueryOK, Sound, WireOK, ResultOK, SaidOK, Asking, Walking
    <3> QED
      BY <3>2, <3>3
  <2>9. ASSUME NEW n \in Names PROVE EntryOK(n, cache'[n], zone', past', now')
    <3> DEFINE e == cache[n]
               c == Canonical[n]
               life == Lifetime(TTL[c])
    <3>1. /\ c \in Names /\ life \in Nat /\ now \in Nat /\ QueryTimeout \in Nat
          /\ Usable(c) = life + QueryTimeout
      BY UsableBounds DEF IInv, TypeOK
    <3>6. e # None => e.expires \in Nat
      BY DEF IInv, TypeOK, Entries
    <3>2. past[c] \subseteq past'[c]
      BY <2>1, <3>1 DEF IInv, TypeOK
    <3>3. zone'[c] # zone[c] => [ips |-> zone[c], until |-> now] \in past'[c]
      BY <2>1, <2>2, <3>1 DEF IInv, TypeOK
    <3>4. EntryOK(n, e, zone, past, now)
      BY DEF IInv
    <3>5. EntryOK(n, e, zone', past', now')
      <4> SUFFICES ASSUME e # None PROVE EntryOK(n, e, zone', past', now')
        BY DEF EntryOK
      <4>1. /\ e.expires <= now + life
            /\ \/ zone[c] = e.ips
               \/ \E h \in past[c] : h.ips = e.ips /\ e.expires <= h.until + Usable(c)
        BY <3>4 DEF EntryOK
      <4>2. CASE zone[c] = e.ips /\ zone'[c] # zone[c]
        <5>2. e.expires <= now + Usable(c)
          BY <3>1, <3>6, <4>1
        <5>1. \E h \in past'[c] : h.ips = e.ips /\ e.expires <= h.until + Usable(c)
          BY <3>3, <4>2, <5>2
        <5> QED
          BY <2>3, <4>1, <5>1 DEF EntryOK
      <4>3. CASE ~(zone[c] = e.ips /\ zone'[c] # zone[c])
        BY <2>3, <3>2, <4>1, <4>3 DEF EntryOK
      <4> QED
        BY <4>2, <4>3
    <3> QED
      BY <2>3, <3>5
  <2> QED
    BY <2>6, <2>7, <2>8, <2>9 DEF IInv
<1>3. CASE Tick
  <2>1. /\ q' = q /\ cache' = cache /\ zone' = zone /\ past' = past /\ losses' = losses
        /\ settings' = settings /\ local' = local /\ changes' = changes
        /\ now' = now + 1 /\ now \in Nat
    BY <1>3 DEF Tick, IInv, TypeOK
  <2>2. TypeOK'
    BY <2>1 DEF IInv, TypeOK
  <2>3. ASSUME NEW g \in Goroutines PROVE QueryOK(q[g], zone, past, now + 1)
    <3>1. q[g] \in Queries /\ Sound(q[g])
      BY DEF IInv, TypeOK, QueryOK
    <3>2. q[g].pc \in {"idle", "forward"} \/ q[g].out.state = "pending"
      BY <1>3 DEF Tick, Waiting, Asking, Walking
    <3>3. q[g].said.from = "nobody"
      BY <1>3, <3>1 DEF Tick, Waiting, Asking, Walking, Sound
    <3>4. WireOK(q[g], zone, past, now + 1)
      <4> SUFFICES ASSUME q[g].wire # None PROVE WireOK(q[g], zone, past, now + 1)
        BY DEF WireOK
      <4>1. now < q[g].at + QueryTimeout
        BY <1>3, <3>1 DEF Tick, Waiting, Sound, Asking, Walking
      <4>2. WireOK(q[g], zone, past, now) /\ q[g].at \in Nat /\ QueryTimeout \in Nat
        BY <3>1, DnsAssumption DEF IInv, QueryOK, Queries
      <4>3. q[g].at <= now + 1 /\ now + 1 <= q[g].at + QueryTimeout
        BY <2>1, <4>1, <4>2 DEF WireOK
      <4> QED
        BY <4>2, <4>3 DEF WireOK
    <3>5. ResultOK(q[g], zone, past, now + 1) /\ SaidOK(q[g], zone, past, now + 1)
      BY <3>2, <3>3 DEF ResultOK, SaidOK
    <3> QED
      BY <3>1, <3>4, <3>5 DEF QueryOK
  <2>4. ASSUME NEW n \in Names PROVE EntryOK(n, cache[n], zone, past, now + 1)
    <3>1. Lifetime(TTL[Canonical[n]]) \in Nat
      BY UsableBounds
    <3>2. EntryOK(n, cache[n], zone, past, now) /\ cache[n] \in Entries \union {None}
      BY DEF IInv, TypeOK
    <3> QED
      BY <2>1, <3>1, <3>2 DEF EntryOK, Entries
  <2> QED
    BY <2>1, <2>2, <2>3, <2>4 DEF IInv, AliasesBare
<1> QED
  BY <1>1, <1>2, <1>3

-----------------------------------------------------------------------------
(* The theorems. *)

LEMMA InvInit == Init => IInv
<1> SUFFICES ASSUME Init PROVE IInv
  OBVIOUS
<1>1. TypeOK
  BY FreshLocals, DelegationAssumption DEF Init, TypeOK
<1>2. AliasesBare(zone)
  BY DelegationAssumption DEF Init, AliasesBare
<1>3. QueryOK(Free, zone, past, now)
  <2>1. Free.pc = "idle" /\ Free.said.from = "nobody" /\ Free.wire = None
    BY DEF Free, Silence
  <2> QED
    BY <2>1, FreshLocals, NothingToShow DEF Sound
<1>4. \A n \in Names : EntryOK(n, cache[n], zone, past, now)
  BY DEF Init, EntryOK
<1> QED
  BY <1>1, <1>2, <1>3, <1>4 DEF IInv, Init

LEMMA InvNext == IInv /\ [Next]_vars => IInv'
BY BeforeWalk, CacheRead, WalkStep, AnswerStored, AfterWalk, WorldMoves DEF Next, Handle

LEMMA Invariant == Spec => []IInv
BY InvInit, InvNext, PTL DEF Spec

\* Every variable keeps to its type: whatever servers refer to, calls are never
\* nested deeper than the stack of maxResolutionDepth frames (resolver.go:293).
THEOREM TypeCorrect == Spec => []TypeOK
<1>1. IInv => TypeOK
  BY DEF IInv
<1> QED
  BY <1>1, Invariant, PTL

\* What the resolver answers are addresses the name had when the server spoke, at
\* most queryTimeout ago, and what the cache answers are addresses it had no longer
\* before that than a record may be kept (cache.go:49), whatever aliases, referrals,
\* lost and late replies and queries that run at the same time.
THEOREM AnswersFresh == Spec => []ServedFresh
<1>1. IInv => ServedFresh
  <2> SUFFICES ASSUME IInv, NEW g \in Goroutines
               PROVE  LET c == Canonical[q[g].name] IN
                      /\ q[g].said.from = "resolver" =>
                           HeldWithin(c, q[g].said.ips, QueryTimeout)
                      /\ q[g].said.from = "cache" =>
                           /\ HeldWithin(c, q[g].said.ips, Keepable(c) + QueryTimeout)
                           /\ HeldWithin(c, q[g].said.ips, MaxTTL + QueryTimeout)
    BY DEF ServedFresh
  <2> DEFINE r == q[g]
             c == Canonical[r.name]
  <2>1. r \in Queries /\ Sound(r) /\ SaidOK(r, zone, past, now) /\ now \in Nat
    BY DEF IInv, TypeOK, QueryOK
  <2>2. CASE r.said.from = "nobody"
    BY <2>2
  <2>3. CASE r.said.from # "nobody"
    <3>1. r.name \in Names /\ c \in Names
      BY <2>1, <2>3, AliasKeepsCanonical DEF Sound
    <3>2. \A h \in past[c] : h.until \in Nat
      BY <3>1 DEF IInv, TypeOK
    <3>3. /\ Usable(c) \in Nat /\ QueryTimeout \in Nat
          /\ Keepable(c) + QueryTimeout \in Nat /\ MaxTTL + QueryTimeout \in Nat
          /\ Usable(c) <= Keepable(c) + QueryTimeout /\ Usable(c) <= MaxTTL + QueryTimeout
      <4>1. TTL[c] \in Nat /\ MaxTTL \in Nat /\ ZeroTTL \in Nat /\ QueryTimeout \in Nat
        BY <3>1, DelegationAssumption, DnsAssumption
      <4>2. /\ Lifetime(TTL[c]) \in Nat /\ Lifetime(TTL[c]) <= MaxTTL
            /\ Keepable(c) \in Nat /\ Lifetime(TTL[c]) <= Keepable(c)
        BY <4>1, LifetimeBounds DEF Keepable
      <4> QED
        BY <4>1, <4>2 DEF Usable
    <3>4. ASSUME NEW k \in Nat, Usable(c) <= k, Had(c, r.said.ips, Usable(c), zone, past, now)
          PROVE  HeldWithin(c, r.said.ips, k)
      BY <2>1, <3>2, <3>3, <3>4 DEF Had, HeldWithin
    <3>5. r.said.from = "resolver" => HeldWithin(c, r.said.ips, QueryTimeout)
      BY <2>1 DEF SaidOK, Had, HeldWithin
    <3> QED
      BY <2>1, <3>3, <3>4, <3>5 DEF SaidOK
  <2> QED
    BY <2>2, <2>3
<1> QED
  BY <1>1, Invariant, PTL
=============================================================================
