------------------------------ MODULE DnsServer ------------------------------
(***************************************************************************)
(* internal/dnsserver: server.go, cache.go and resolver.go.  Every query   *)
(* is handled by a goroutine of its own: names known locally first, then,  *)
(* in recursive mode, the cache and the walk down the delegation tree, and *)
(* forwarding to the upstream servers for everything else and for what the *)
(* walk could not find.  Each look-up of the settings is a Snapshot of its *)
(* own, the cache is locked for one get or set, and a reply of a server    *)
(* may be lost, or come too late, at every exchange; one that is read was  *)
(* said up to QueryTimeout before, and may be out of date by then.         *)
(*                                                                         *)
(* resolveIterativeFrom calls itself for a name server without glue: the   *)
(* frames of these calls are frame[1] .. frame[sp], and out is what the    *)
(* call on top has returned.  Servers are tried in the order of a message, *)
(* which is the sender's choice: any order here.                           *)
(*                                                                         *)
(* Time passes while goroutines wait for the network, not between two      *)
(* steps of a goroutine that waits for nothing.                            *)
(***************************************************************************)
EXTENDS Delegation

CONSTANTS
  Goroutines,  \* queries in hand at a time
  Asked,       \* names clients ask for
  LocalEdits,  \* pairs of a name and the address, or None, it may be given locally
  Upstreams,   \* upstream servers
  Reliable,    \* upstream servers that always answer
  Settings,    \* pairs of DNSMode and upstream servers that may be set
  MaxHops,     \* maxReferralHops
  MaxDepth,    \* maxResolutionDepth
  ZeroTTL,     \* how long an answer with TTL 0 is kept
  MaxTTL,      \* how long any answer is kept at most
  QueryTimeout,  \* how long a server is waited for
  Moves,       \* pairs of a name and the addresses it may be given
  MaxLosses, MaxChanges, MaxTime  \* bounds of the instance

Modes == {"forward", "recursive"}

ASSUME DnsAssumption ==
  /\ Asked \subseteq Names /\ LocalEdits \subseteq Names \X (Addrs \union {None})
  /\ Reliable \subseteq Upstreams
  /\ Settings \subseteq [mode : Modes, upstreams : SUBSET Upstreams]
  /\ MaxHops \in Nat \ {0} /\ MaxDepth \in Nat \ {0}
  /\ ZeroTTL \in Nat /\ MaxTTL \in Nat /\ QueryTimeout \in Nat
  /\ Moves \subseteq {n \in Names : Alias[n] = None} \X SUBSET Addrs
  /\ MaxLosses \in Nat /\ MaxChanges \in Nat /\ MaxTime \in Nat

VARIABLES
  q,         \* per goroutine: the locals of handle and of what it calls
  cache,     \* name |-> entry, or None
  settings,  \* DNSMode and UpstreamServers
  local,     \* name |-> address of the first record, lease or reservation for it
  zone,      \* name |-> the addresses it has in the DNS
  past,      \* history: name |-> addresses it had, and until when
  now, losses, changes

vars == <<q, cache, settings, local, zone, past, now, losses, changes>>

-----------------------------------------------------------------------------
(* Frames of resolveIterativeFrom, and what a call returns. *)

Frames == [name : Names \union {None},  \* currentName
           left : SUBSET Addrs,         \* servers of this hop not tried yet
           ns   : SUBSET Names,         \* name servers without glue not tried yet
           hop  : 0 .. (MaxHops - 1)]

NoFrame == [name |-> None, left |-> {}, ns |-> {}, hop |-> 0]

StartFrame(n) == [NoFrame EXCEPT !.name = n, !.left = Hosts[Root]]

Outcomes == [state : {"pending", "failed", "ok"}, ips : SUBSET Addrs, ttl : Nat]

Pending == [state |-> "pending", ips |-> {}, ttl |-> 0]
Failed == [Pending EXCEPT !.state = "failed"]

\* Where an answer came from, and its addresses.
Replies == [from : {"nobody", "local", "cache", "resolver", "upstream"},
            ips : SUBSET Addrs]

Silence == [from |-> "nobody", ips |-> {}]

Places == {"idle", "local", "mode", "cache", "resolve", "upstreams", "forward", "done"}

Free == [pc |-> "idle", name |-> None, qtype |-> "A", sp |-> 0,
         frame |-> [i \in 1 .. MaxDepth |-> NoFrame], out |-> Pending,
         wire |-> None, at |-> 0, ups |-> {}, said |-> Silence]

Top(r) == r.frame[r.sp]
SetTop(r, f) == [r EXCEPT !.frame = [@ EXCEPT ![r.sp] = f]]

\* The call on top waits for a server, is busy with name servers, or has returned.
Walking(r) == r.pc = "resolve" /\ r.out.state = "pending"
Asking(r) == Walking(r) /\ Top(r).ns = {}
Seeking(r) == Walking(r) /\ Top(r).ns # {}
Returned(r, s) == r.pc = "resolve" /\ r.out.state = s

\* The call on top goes on to its next hop, if it has one left.
NextHop(r, n, servers) ==
  IF Top(r).hop + 1 < MaxHops
    THEN [SetTop(r, [name |-> n, left |-> servers, ns |-> {}, hop |-> Top(r).hop + 1])
          EXCEPT !.out = Pending]
    ELSE [r EXCEPT !.out = Failed]

\* The call on top calls itself, or is over and the one below has its result.
Push(r, n) == [r EXCEPT !.sp = r.sp + 1, !.frame = [@ EXCEPT ![r.sp + 1] = StartFrame(n)]]
Pop(r) == [SetTop(r, NoFrame) EXCEPT !.sp = r.sp - 1]

\* An answer is ready to go, and nothing of its making is needed any more.
Said(r, from, ips) ==
  [Free EXCEPT !.pc = "done", !.name = r.name, !.qtype = r.qtype,
               !.said = [from |-> from, ips |-> ips]]

KeepsWorld == UNCHANGED <<settings, local, zone, past, now, changes>>

\* A step that only the locals of g take part in, and one in which a reply is lost too.
Turns(g, r) == q' = [q EXCEPT ![g] = r] /\ UNCHANGED <<cache, losses>> /\ KeepsWorld

Loses(g, r) == /\ losses < MaxLosses /\ losses' = losses + 1
               /\ q' = [q EXCEPT ![g] = r] /\ UNCHANGED cache /\ KeepsWorld

-----------------------------------------------------------------------------
(* handle: one goroutine per packet. *)

Arrive(g) ==
  /\ q[g].pc = "idle"
  /\ \E n \in Asked, t \in {"A", "other"} :
       q' = [q EXCEPT ![g] = [Free EXCEPT !.pc = "local", !.name = n, !.qtype = t]]
  /\ UNCHANGED <<cache, settings, local, zone, past, now, losses, changes>>

LookupLocal(g) ==
  /\ q[g].pc = "local"
  /\ LET a == local[q[g].name] IN
     Turns(g, IF a # None THEN Said(q[g], "local", {a}) ELSE [q[g] EXCEPT !.pc = "mode"])

ChooseMode(g) ==
  /\ q[g].pc = "mode"
  /\ Turns(g, [q[g] EXCEPT
       !.pc = IF settings.mode = "recursive" /\ q[g].qtype = "A" THEN "cache"
              ELSE "upstreams"])

Fresh(e) == e # None /\ now <= e.expires

CacheGet(g) ==
  /\ q[g].pc = "cache"
  /\ LET n == q[g].name IN
     Turns(g, IF Fresh(cache[n]) THEN Said(q[g], "cache", cache[n].ips)
              ELSE Push([q[g] EXCEPT !.pc = "resolve"], n))

-----------------------------------------------------------------------------
(* resolveIterativeFrom and queryServers. *)

\* No answer in time, none that parses, or one with another id: the next server.
LoseReply(g) ==
  LET r == q[g] IN
  /\ Asking(r) /\ r.wire = None
  /\ \E v \in Top(r).left :
       Loses(g, [SetTop(r, [Top(r) EXCEPT !.left = @ \ {v}])
                 EXCEPT !.out = IF Top(r).left = {v} THEN Failed ELSE Pending])

\* What the call does with message m about its current name.
Hears(r, m) ==
  LET n == Top(r).name IN
  IF m.ips # {} THEN [r EXCEPT !.out = [state |-> "ok", ips |-> m.ips, ttl |-> m.ttl]]
  ELSE IF m.alias # None THEN NextHop(r, m.alias, Hosts[Root])
  ELSE IF m.ns = {} THEN [r EXCEPT !.out = Failed]
  ELSE IF m.glue # {} THEN NextHop(r, n, m.glue)
  ELSE SetTop(r, [Top(r) EXCEPT !.left = {}, !.ns = m.ns])

\* One of the servers answers, with what it knows at this moment.  An answer that
\* is not read in the end is as good as none: LoseReply.
Speak(g) ==
  LET r == q[g] IN
  /\ Asking(r) /\ r.wire = None
  /\ \E v \in Top(r).left : \E m \in Says(v, Top(r).name, zone[Top(r).name]) :
       Turns(g, [r EXCEPT !.wire = m, !.at = now])

\* conn.Read returns the answer.
HearReply(g) ==
  LET r == q[g] IN
  /\ Asking(r) /\ r.wire # None
  /\ Turns(g, Hears([r EXCEPT !.wire = None, !.at = 0], r.wire))

\* Mutated: depth is compared after the call.
DeepByOne(r) == r.sp <= MaxDepth

\* Depth is left for one more call.
MayNest(r) == r.sp < MaxDepth

\* A name server without glue: the resolver calls itself for its address.
SeekServer(g) ==
  LET r == q[g] IN
  /\ Seeking(r) /\ MayNest(r)
  /\ \E s \in Top(r).ns :
       Turns(g, Push(SetTop(r, [Top(r) EXCEPT !.ns = @ \ {s}]), s))

\* All these calls would return an error at once: depth is used up.
TooDeep(g) ==
  /\ Seeking(q[g]) /\ ~MayNest(q[g])
  /\ Turns(g, [SetTop(q[g], [Top(q[g]) EXCEPT !.ns = {}]) EXCEPT !.out = Failed])

ServerFound(g) ==
  LET r == q[g] IN
  /\ Returned(r, "ok") /\ r.sp > 1
  /\ Turns(g, NextHop(Pop(r), r.frame[r.sp - 1].name, r.out.ips))

\* Mutated: the caller fails with the first name server that is not found.
FailWithIt(r) == [Pop(r) EXCEPT !.out = Failed]

\* The next name server, or, after the last one, failure of the caller too.
TryAnother(r) ==
  [Pop(r) EXCEPT !.out = IF r.frame[r.sp - 1].ns = {} THEN Failed ELSE Pending]

ServerNotFound(g) ==
  /\ Returned(q[g], "failed") /\ q[g].sp > 1
  /\ Turns(g, TryAnother(q[g]))

-----------------------------------------------------------------------------
(* handleRecursive after the walk, and forward. *)

AtMost(a, b) == IF a > b THEN b ELSE a

\* Mutated: no cap.
AsLongAsSaid(ttl) == IF ttl = 0 THEN ZeroTTL ELSE ttl

\* How long an answer is kept.
Lifetime(ttl) == AtMost(IF ttl = 0 THEN ZeroTTL ELSE ttl, MaxTTL)

Store(g) ==
  LET r == q[g] IN
  /\ Returned(r, "ok") /\ r.sp = 1
  /\ cache' = [cache EXCEPT
       ![r.name] = [ips |-> r.out.ips, expires |-> now + Lifetime(r.out.ttl)]]
  /\ q' = [q EXCEPT ![g] = Said(r, "resolver", r.out.ips)]
  /\ UNCHANGED losses /\ KeepsWorld

\* Mutated: a walk that failed is logged, and that is all.
DropQuery(g) ==
  /\ Returned(q[g], "failed") /\ q[g].sp = 1
  /\ Turns(g, Said(q[g], "nobody", {}))

FallBack(g) ==
  /\ Returned(q[g], "failed") /\ q[g].sp = 1
  /\ Turns(g, [Free EXCEPT !.pc = "upstreams", !.name = q[g].name, !.qtype = q[g].qtype])

ReadUpstreams(g) ==
  /\ q[g].pc = "upstreams"
  /\ Turns(g, [q[g] EXCEPT !.pc = "forward", !.ups = settings.upstreams])

\* The addresses an upstream answers with are its own affair.
Forwarded(g) ==
  /\ q[g].pc = "forward" /\ q[g].ups # {}
  /\ Turns(g, Said(q[g], "upstream", {}))

UpstreamTimeout(g) ==
  /\ q[g].pc = "forward"
  /\ \E u \in q[g].ups \ Reliable : Loses(g, [q[g] EXCEPT !.ups = @ \ {u}])

\* Every upstream failed: logged, no reply.
GiveUp(g) ==
  /\ q[g].pc = "forward" /\ q[g].ups = {}
  /\ Turns(g, Said(q[g], "nobody", {}))

Finish(g) ==
  /\ q[g].pc = "done"
  /\ Turns(g, Free)

-----------------------------------------------------------------------------
(* What goes on meanwhile. *)

SetNetwork ==
  /\ changes < MaxChanges
  /\ settings' \in Settings
  /\ changes' = changes + 1
  /\ UNCHANGED <<q, cache, local, zone, past, now, losses>>

\* A record is added or removed, a lease recorded or removed, and so on.
EditLocal ==
  /\ changes < MaxChanges
  /\ \E e \in LocalEdits : local' = [local EXCEPT ![e[1]] = e[2]]
  /\ changes' = changes + 1
  /\ UNCHANGED <<q, cache, settings, zone, past, now, losses>>

Renumber ==
  /\ changes < MaxChanges
  /\ \E m \in Moves :
       /\ zone' = [zone EXCEPT ![m[1]] = m[2]]
       /\ past' = [past EXCEPT ![m[1]] = @ \union {[ips |-> zone[m[1]], until |-> now]}]
  /\ changes' = changes + 1
  /\ UNCHANGED <<q, cache, settings, local, now, losses>>

\* Goroutines that wait for nothing have moved on; an answer is read in time.
Waiting(r) == \/ r.pc \in {"idle", "forward"}
              \/ Asking(r) /\ (r.wire # None => now < r.at + QueryTimeout)

Tick ==
  /\ now < MaxTime
  /\ \A g \in Goroutines : Waiting(q[g])
  /\ now' = now + 1
  /\ UNCHANGED <<q, cache, settings, local, zone, past, losses, changes>>

-----------------------------------------------------------------------------
Walk(g) == LoseReply(g) \/ Speak(g) \/ HearReply(g) \/ SeekServer(g) \/ TooDeep(g)
           \/ ServerFound(g) \/ ServerNotFound(g)

Handle(g) ==
  \/ LookupLocal(g) \/ ChooseMode(g) \/ CacheGet(g) \/ Walk(g) \/ Store(g) \/ FallBack(g)
  \/ ReadUpstreams(g) \/ Forwarded(g) \/ UpstreamTimeout(g) \/ GiveUp(g) \/ Finish(g)

Init ==
  /\ q = [g \in Goroutines |-> Free]
  /\ cache = [n \in Names |-> None]
  /\ settings \in Settings
  /\ local = [n \in Names |-> None]
  /\ zone = FirstZone
  /\ past = [n \in Names |-> {}]
  /\ now = 0 /\ losses = 0 /\ changes = 0

Next ==
  \/ \E g \in Goroutines : Arrive(g) \/ Handle(g)
  \/ SetNetwork \/ EditLocal \/ Renumber \/ Tick

Spec == Init /\ [][Next]_vars
FairSpec == Spec /\ \A g \in Goroutines : WF_vars(Handle(g))

-----------------------------------------------------------------------------
Entries == [ips : SUBSET Addrs, expires : Nat]

Queries ==
  [pc : Places, name : Names \union {None}, qtype : {"A", "other"}, sp : 0 .. MaxDepth,
   frame : [1 .. MaxDepth -> Frames], out : Outcomes, wire : Messages \union {None},
   at : Nat, ups : SUBSET Upstreams, said : Replies]

TypeOK ==
  /\ q \in [Goroutines -> Queries]
  /\ cache \in [Names -> Entries \union {None}]
  /\ settings \in Settings
  /\ local \in [Names -> Addrs \union {None}]
  /\ zone \in [Names -> SUBSET Addrs]
  /\ past \in [Names -> SUBSET [ips : SUBSET Addrs, until : Nat]]
  /\ now \in Nat /\ losses \in Nat /\ changes \in Nat

\* n has the addresses S, or had them until at most life ago.
HeldWithin(n, S, life) ==
  zone[n] = S \/ \E p \in past[n] : p.ips = S /\ now <= p.until + life

\* How long the records of n may be kept: their TTL, half a minute if it is zero.
Keepable(n) == IF TTL[n] = 0 THEN ZeroTTL ELSE TTL[n]

(* What the resolver answers are addresses that the name, or the name its
   aliases end at, had when the server answered, which is no longer ago than
   the resolver waits for it; what the cache answers are addresses it had no
   longer before that than records may be kept: their TTL, half a minute if
   that is zero, six hours if it is longer (cache.go:48).  Referrals, name
   servers without glue, lost and late replies and look-ups of one name that
   overtake each other do not change that. *)
ServedFresh ==
  \A g \in Goroutines :
    LET c == Canonical[q[g].name] IN
    /\ q[g].said.from = "resolver" => HeldWithin(c, q[g].said.ips, QueryTimeout)
    /\ q[g].said.from = "cache" =>
         /\ HeldWithin(c, q[g].said.ips, Keepable(c) + QueryTimeout)
         /\ HeldWithin(c, q[g].said.ips, MaxTTL + QueryTimeout)

-----------------------------------------------------------------------------
(* What can be found: a reference definition over the tree of zones. *)

\* Numbers of hops for names, 0 for none: a name takes one for each zone of its
\* line, and then those of its alias.  Aliases in a circle have no such number.
HopPlans ==
  {h \in [Names -> 0 .. MaxHops] : \A n \in Names : h[n] # 0 =>
     IF Alias[n] = None THEN h[n] = Len(Line[n])
     ELSE h[Alias[n]] # 0 /\ h[n] = Len(Line[n]) + h[Alias[n]]}

WithinHops == {n \in Names : \E h \in HopPlans : h[n] # 0}

\* Names that have addresses at all times, whatever moves.
Addressed == {n \in Names : FirstZone[n] # {} /\ \A v \in Moves : v[1] = n => v[2] # {}}

\* Names per number of nested look-ups they may take: every zone on the way has
\* glue, or a name server that is found with one look-up less.
FindPlans ==
  {f \in [0 .. MaxDepth -> SUBSET WithinHops] :
     /\ f[0] = {}
     /\ \A m \in 1 .. MaxDepth : \A n \in f[m] :
          /\ IF Alias[n] = None THEN n \in Addressed ELSE Alias[n] \in f[m]
          /\ \A i \in 2 .. Len(Line[n]) :
               Glue[Line[n][i]] # {} \/ NSNames[Line[n][i]] \intersect f[m - 1] # {}}

\* Names that can be found with the depth and the hops there are.
Findable == {n \in Names : \E f \in FindPlans : n \in f[MaxDepth]}

\* All the sets of addresses a name may have.
Ever(n) == {FirstZone[n]} \union {v[2] : v \in {w \in Moves : w[1] = n}}

\* The tree is in order: lines begin at the root, which has a server, and the
\* addresses that glue, or else the names of its servers, give for a zone host it.
NoLameDelegation ==
  /\ Hosts[Root] # {}
  /\ \A n \in Names : Line[n] # <<>> /\ Line[n][1] = Root
  /\ \A n \in Names : \A i \in 2 .. Len(Line[n]) :
       LET z == Line[n][i] IN
       /\ Glue[z] \subseteq Hosts[z] /\ (Glue[z] # {} => NSNames[z] # {})
       /\ Glue[z] = {} =>
            \A s \in NSNames[z] : \A ips \in Ever(Canonical[s]) : ips \subseteq Hosts[z]

(* While no reply is lost, a walk fails only for names that cannot be found
   with the depth and hops there are: one name server that leads nowhere, or
   in a circle, does not hide another one (resolver.go:367). *)
FailsOnlyIfUnfindable ==
  \A g \in Goroutines :
    Returned(q[g], "failed") /\ q[g].sp = 1 /\ losses = 0 => q[g].name \notin Findable

(* Every query is answered in the end, unless the upstream servers it is to be
   forwarded to include none that answers (server.go:147): aliases in a
   circle, name servers that need each other, servers that do not answer and
   changed settings neither hang the goroutine nor make it drop the query. *)
EveryQueryAnswered ==
  \A g \in Goroutines :
    q[g].pc = "local" ~>
      \/ q[g].pc = "done" /\ q[g].said.from # "nobody"
      \/ q[g].pc = "forward" /\ q[g].ups \intersect Reliable = {}
=============================================================================
