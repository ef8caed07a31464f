----------------------------- MODULE DhcpProofs -----------------------------
(***************************************************************************)
(* Proofs about DhcpServer for any number of clients, segments and         *)
(* addresses: types; that no address is recorded for two clients when the  *)
(* pools of the segments are disjoint, whatever Settings may make of each, *)
(* and end below the largest address; that renewals are not refused; that  *)
(* what an ACK promised is on record, and promised to nobody else; that    *)
(* quarantined addresses are kept from others; that every packet is dealt  *)
(* with in a bounded number of steps.                                      *)
(***************************************************************************)
EXTENDS DhcpServer, TLAPS

\* All addresses that some definition of segment s puts in its pool.
Pool(s) == {a \in Addrs : \E d \in SegmentDefs[s] : d.lo <= a /\ a <= d.hi}

\* No address may ever be in the pools of two segments.
Separate == \A s, t \in Segments : s # t => Pool(s) \intersect Pool(t) = {}

\* The scan of a pool ends before addresses wrap around.
BelowTop == \A s \in Segments : \A d \in SegmentDefs[s] : d.hi < TopAddr

\* The places where a server has settled on an address.
SettledAt == {"got", "send", "record", "upsert"}

\* What the locals l of a server must hold at their place.
Ready(l) ==
  /\ l.pc # "idle" => l.mac \in Macs
  /\ l.pc \in {"request", "free", "pool", "scan"} => l.gw \in Addrs
  /\ l.pc = "free" => l.want \in Addrs
  /\ l.pc = "scan" => l.cur \in Addrs /\ l.hi \in Addrs
  /\ l.pc \in SettledAt => l.ip \in Addrs
  /\ l.pc = "send" => l.secs \in Nat
  /\ l.pc = "upsert" => l.exp \in Nat

\* The types, with what a server needs to go on.
TypeInv == TypeOK /\ \A s \in Segments : Ready(srv[s])

-----------------------------------------------------------------------------
(* Types.                                                                   *)

GrantOrNone == Promises \union {None}

\* A server's new locals, with or without a new promise, keep the types.
LEMMA ServerMoves ==
  ASSUME TypeInv, NEW s \in Segments, NEW r \in Locals, Ready(r),
         srv' = [srv EXCEPT ![s] = r], grant' \in [Macs -> GrantOrNone],
         UNCHANGED <<config, lease, declined, now, counts>>
  PROVE  TypeInv'
<1>1. TypeOK'
  BY DEF TypeInv, TypeOK, GrantOrNone, config, counts
<1>2. \A t \in Segments : srv'[t] = IF t = s THEN r ELSE srv[t]
  BY DEF TypeInv, TypeOK
<1> QED
  BY <1>1, <1>2 DEF TypeInv

\* allocate returns: what the packet asked for is kept, the rest is gone.
LEMMA ReturnMoves ==
  ASSUME TypeInv, NEW s \in Segments, NEW place, NEW a, Returns(s, place, a)
  PROVE  /\ srv'[s].pc = place /\ srv'[s].ip = a
         /\ srv'[s].mac = srv[s].mac /\ srv'[s].want = srv[s].want
         /\ \A t \in Segments : t # s => srv'[t] = srv[t]
BY DEF Returns, Idle, TypeInv, TypeOK

\* allocate goes on.
LEMMA GotoMoves ==
  ASSUME TypeInv, NEW s \in Segments, NEW place, Goto(s, place)
  PROVE  /\ srv'[s].pc = place /\ srv'[s].mac = srv[s].mac
         /\ \A t \in Segments : t # s => srv'[t] = srv[t]
BY DEF Goto, TypeInv, TypeOK, Locals

\* The locals of a server that waits are well typed.
LEMMA IdleType == Idle \in Locals /\ Ready(Idle)
BY DEF Idle, Locals, AddrOrNone, Ready, SettledAt

\* The next address is an address, and below the top it is the next number.
LEMMA NextAddr ==
  ASSUME NEW a \in Addrs
  PROVE  NextIP(a) \in Addrs /\ (a < TopAddr => NextIP(a) = a + 1)
<1>1. TopAddr \in Nat /\ a \in 0 .. TopAddr
  BY DhcpAssumption DEF Addrs
<1>2. CASE a = TopAddr
  BY <1>1, <1>2 DEF NextIP, Addrs
<1>3. CASE a < TopAddr
  <2>1. (a + 1) % (TopAddr + 1) = a + 1
    BY <1>1, <1>3
  <2> QED
    BY <1>1, <1>3, <2>1 DEF NextIP, Addrs
<1> QED
  BY <1>1, <1>2, <1>3

\* An allocation step keeps the types.
LEMMA AllocateType ==
  ASSUME TypeInv, NEW s \in Segments, Allocate(s) PROVE TypeInv'
<1>1. UNCHANGED <<config, lease, declined, now, grant, counts>>
  BY DEF Allocate, CheckReservation, CheckLease, ReadSegment, CheckRequested,
         TryRequested, ReadPool, Scan
<1>2. srv[s] \in Locals /\ Ready(srv[s])
  BY DEF TypeInv, TypeOK
<1>3. grant' \in [Macs -> GrantOrNone]
  BY <1>1 DEF TypeInv, TypeOK, GrantOrNone
<1> DEFINE Moved(place) == [srv[s] EXCEPT !.pc = place]
           Returned(place, a) == [Idle EXCEPT !.pc = place, !.type = srv[s].type,
                                    !.mac = srv[s].mac, !.want = srv[s].want, !.ip = a]
<1>4. ASSUME NEW place \in {"lease", "segment", "free", "pool"}, Goto(s, place),
             srv[s].pc # "idle", place = "pool" => srv[s].gw \in Addrs,
             place = "free" => srv[s].gw \in Addrs /\ srv[s].want \in Addrs
      PROVE  TypeInv'
  <2>1. Moved(place) \in Locals /\ Ready(Moved(place))
    BY <1>2, <1>4 DEF Locals, Ready, SettledAt
  <2> QED
    BY <1>1, <1>3, <1>4, <2>1, ServerMoves DEF Goto
<1>5. ASSUME NEW a \in Addrs, Settle(s, a), srv[s].pc # "idle" PROVE TypeInv'
  <2>1. Returned("got", a) \in Locals /\ Ready(Returned("got", a))
    BY <1>2, <1>5 DEF Idle, Locals, AddrOrNone, Ready, SettledAt
  <2> QED
    BY <1>1, <1>3, <1>5, <2>1, ServerMoves DEF Settle, Returns
<1>15. ASSUME Fail(s), srv[s].pc # "idle" PROVE TypeInv'
  <2>1. Returned("fail", None) \in Locals /\ Ready(Returned("fail", None))
    BY <1>2, <1>15 DEF Idle, Locals, AddrOrNone, Ready, SettledAt
  <2> QED
    BY <1>1, <1>3, <1>15, <2>1, ServerMoves DEF Fail, Returns
<1>6. srv[s].mac \in Macs /\ srv[s].pc # "idle"
  BY <1>2 DEF Ready, Allocate, At, CheckReservation, CheckLease, ReadSegment,
              CheckRequested, TryRequested, ReadPool, Scan
<1>7. seg[s] # None => seg[s] \in SegDef
  BY DEF TypeInv, TypeOK
<1>8. CASE CheckReservation(s)
  <2>1. resv[srv[s].mac] # None => resv[srv[s].mac].ip \in Addrs
    BY <1>6 DEF TypeInv, TypeOK, Reservation
  <2> QED
    BY <1>4, <1>5, <1>6, <1>8, <2>1 DEF CheckReservation
<1>9. CASE CheckLease(s)
  <2>1. lease[srv[s].mac] # None => lease[srv[s].mac].ip \in Addrs
    BY <1>6 DEF TypeInv, TypeOK, Lease
  <2> QED
    BY <1>4, <1>5, <1>6, <1>9, <2>1 DEF CheckLease, Keeps
<1>10. CASE ReadSegment(s)
  <2>1. CASE seg[s] = None
    BY <1>15, <1>6, <1>10, <2>1 DEF ReadSegment
  <2>2. CASE seg[s] # None
    <3>1. PICK taken \in ArpViews :
            srv' = [srv EXCEPT ![s] = [@ EXCEPT !.pc = "request", !.gw = seg[s].gw,
                                                !.taken = taken]]
      BY <1>10, <2>2 DEF ReadSegment
    <3> DEFINE r == [srv[s] EXCEPT !.pc = "request", !.gw = seg[s].gw, !.taken = taken]
    <3>2. taken \subseteq Addrs /\ seg[s].gw \in Addrs
      BY <1>7, <2>2, DhcpAssumption DEF SegDef
    <3>3. r \in Locals /\ Ready(r)
      <4>1. /\ r.pc = "request" /\ r.mac = srv[s].mac /\ r.gw = seg[s].gw
        BY <1>2 DEF Locals
      <4> QED
        BY <1>2, <1>6, <3>2, <4>1 DEF Locals, AddrOrNone, Ready, SettledAt
    <3> QED
      BY <1>1, <1>3, <3>1, <3>3, ServerMoves
  <2> QED
    BY <2>1, <2>2
<1>11. CASE CheckRequested(s)
  <2>1. srv[s].gw \in Addrs /\ (srv[s].want # None => srv[s].want \in Addrs)
    BY <1>2, <1>11 DEF CheckRequested, At, Locals, AddrOrNone, Ready
  <2> QED
    BY <1>4, <1>6, <1>11, <2>1 DEF CheckRequested
<1>12. CASE TryRequested(s)
  <2>1. srv[s].gw \in Addrs /\ srv[s].want \in Addrs
    BY <1>2, <1>12 DEF TryRequested, At, Ready
  <2> QED
    BY <1>4, <1>5, <1>6, <1>12, <2>1 DEF TryRequested
<1>13. CASE ReadPool(s)
  <2>1. CASE seg[s] = None
    BY <1>15, <1>6, <1>13, <2>1 DEF ReadPool
  <2>2. CASE seg[s] # None
    <3> DEFINE r == [srv[s] EXCEPT !.pc = "scan", !.cur = seg[s].lo, !.hi = seg[s].hi]
    <3>1. seg[s].lo \in Addrs /\ seg[s].hi \in Addrs
      BY <1>7, <2>2 DEF SegDef
    <3>2. r \in Locals /\ Ready(r)
      BY <1>2, <1>6, <1>13, <3>1 DEF ReadPool, At, Locals, AddrOrNone, Ready, SettledAt
    <3> QED
      BY <1>1, <1>3, <1>13, <2>2, <3>2, ServerMoves DEF ReadPool
  <2> QED
    BY <2>1, <2>2
<1>14. CASE Scan(s)
  <2> DEFINE r == [srv[s] EXCEPT !.cur = Following(srv[s].cur)]
  <2>1. srv[s].cur \in Addrs /\ Following(srv[s].cur) \in Addrs
    BY <1>2, <1>14, NextAddr DEF Scan, At, Ready, Following
  <2>2. r \in Locals /\ Ready(r)
    BY <1>2, <1>6, <2>1 DEF Locals, AddrOrNone, Ready, SettledAt
  <2>3. CASE Fail(s)
    BY <1>15, <1>6, <2>3
  <2>4. CASE Settle(s, srv[s].cur)
    BY <1>5, <1>6, <2>1, <2>4
  <2>5. CASE srv' = [srv EXCEPT ![s] = [@ EXCEPT !.cur = Following(srv[s].cur)]]
    BY <1>1, <1>3, <2>2, <2>5, ServerMoves
  <2> QED
    BY <1>14, <2>3, <2>4, <2>5 DEF Scan
<1> QED
  BY <1>8, <1>9, <1>10, <1>11, <1>12, <1>13, <1>14 DEF Allocate

\* An answer, recorded or not, keeps the types.
LEMMA AnswerType ==
  ASSUME TypeInv, NEW s \in Segments, Answer(s) PROVE TypeInv'
<1>1. srv[s] \in Locals /\ Ready(srv[s]) /\ srv[s].pc # "idle"
  BY DEF TypeInv, TypeOK, Answer, At, Drop, SendNAK, Build, SendOffer, SendACK, ReadExpiry,
         Record
<1>2. srv[s].mac \in Macs
  BY <1>1 DEF Ready
<1>3. /\ leaseSecs \in Nat /\ now \in Nat /\ grant \in [Macs -> GrantOrNone]
  BY DhcpAssumption DEF TypeInv, TypeOK, GrantOrNone
<1>4. ASSUME Finish(s), grant' \in [Macs -> GrantOrNone],
             UNCHANGED <<config, lease, declined, now, counts>>
      PROVE  TypeInv'
  BY <1>4, IdleType, ServerMoves DEF Finish
<1>5. CASE Drop(s)
  BY <1>3, <1>4, <1>5 DEF Drop
<1>6. CASE SendNAK(s)
  BY <1>2, <1>3, <1>4, <1>6 DEF SendNAK, GrantOrNone
<1>7. CASE Build(s)
  <2> DEFINE r == [srv[s] EXCEPT !.pc = "send", !.secs = leaseSecs]
  <2>1. r \in Locals /\ Ready(r)
    BY <1>1, <1>2, <1>3, <1>7 DEF Build, At, Locals, Ready, SettledAt
  <2> QED
    BY <1>3, <1>7, <2>1, ServerMoves DEF Build
<1>8. CASE SendOffer(s)
  BY <1>3, <1>4, <1>8 DEF SendOffer
<1>9. CASE SendACK(s)
  <2> DEFINE r == [srv[s] EXCEPT !.pc = "record", !.secs = None]
  <2>1. /\ srv[s].pc = "send" /\ srv[s].ip \in Addrs /\ srv[s].secs \in Nat
    BY <1>1, <1>9 DEF SendACK, At, SettledAt, Ready
  <2>2. r \in Locals /\ Ready(r)
    BY <1>1, <1>2, <2>1 DEF Locals, Ready, SettledAt
  <2>3. Promised(s, srv[s].mac) \in [Macs -> GrantOrNone]
    <3>1. [ip |-> srv[s].ip, until |-> now + srv[s].secs, unheard |-> FALSE,
           lowered |-> leaseSecs < srv[s].secs] \in Promises
      BY <1>3, <2>1 DEF Promises
    <3> QED
      BY <1>2, <1>3, <3>1 DEF Promised, GrantOrNone
  <2>4. Unheard(s, srv[s].mac) \in [Macs -> GrantOrNone]
    BY <1>2, <1>3 DEF Unheard, GrantOrNone, Promises
  <2>5. grant' \in [Macs -> GrantOrNone]
    BY <1>9, <2>3, <2>4 DEF SendACK
  <2> QED
    BY <1>9, <2>2, <2>5, ServerMoves DEF SendACK
<1>10. CASE ReadExpiry(s)
  <2> DEFINE r == [srv[s] EXCEPT !.pc = "upsert", !.exp = now + leaseSecs]
  <2>1. srv[s].ip \in Addrs /\ now + leaseSecs \in Nat
    BY <1>1, <1>3, <1>10 DEF ReadExpiry, At, Ready, SettledAt
  <2>2. /\ r.pc = "upsert" /\ r.mac = srv[s].mac /\ r.ip = srv[s].ip
        /\ r.exp = now + leaseSecs
    BY <1>1 DEF Locals
  <2>3. r \in Locals /\ Ready(r)
    BY <1>1, <1>2, <2>1, <2>2 DEF Locals, Ready, SettledAt
  <2> QED
    BY <1>3, <1>10, <2>3, ServerMoves DEF ReadExpiry
<1>11. CASE Record(s)
  <2>1. NewLease(s, srv[s].mac) \in Lease
    BY <1>1, <1>11 DEF NewLease, Lease, Record, At, Ready, SettledAt
  <2>2. lease' \in [Macs -> Lease \union {None}]
    BY <1>11, <2>1 DEF Record, TypeInv, TypeOK
  <2>3. srv' \in [Segments -> Locals]
    BY <1>11, IdleType DEF Record, Finish, TypeInv, TypeOK
  <2>4. \A t \in Segments : srv'[t] = IF t = s THEN Idle ELSE srv[t]
    BY <1>11 DEF Record, Finish, TypeInv, TypeOK
  <2>5. TypeOK'
    BY <1>11, <2>2, <2>3 DEF Record, TypeInv, TypeOK, config, counts
  <2> QED
    BY <2>4, <2>5, IdleType DEF TypeInv
<1> QED
  BY <1>5, <1>6, <1>7, <1>8, <1>9, <1>10, <1>11 DEF Answer

\* So does everything else: a packet that comes in, Settings, the clock.
LEMMA OtherType ==
  ASSUME TypeInv,
         \/ \E s \in Segments, p \in Packets : Accept(s, p) \/ Decline(s, p)
         \/ \E s \in Segments : RemoveLANSegment(s)
         \/ \E s \in Segments : \E d \in SegmentDefs[s] : UpdateLANSegment(s, d)
         \/ \E m \in Macs, a \in Reservable, s \in Segments : AddReservation(m, a, s)
         \/ \E m \in Macs : RemoveReservation(m) \/ RemoveLease(m)
         \/ \E t \in LeaseTimes : SetLeaseTime(t)
         \/ Tick \/ Restart \/ UNCHANGED vars
  PROVE  TypeInv'
<1>0. /\ Reservable \subseteq Addrs /\ Quarantine \in Nat
      /\ \A s \in Segments : SegmentDefs[s] \subseteq SegDef
  BY DhcpAssumption
<1>1. ASSUME NEW s \in Segments, NEW p \in Packets, Accept(s, p) PROVE TypeInv'
  <2> DEFINE r == [Idle EXCEPT !.pc = "resv", !.type = p.type, !.mac = p.mac,
                               !.want = p.want]
  <2>1. /\ p.mac \in Macs /\ p.want \in AddrOrNone
        /\ p.type \in {"DISCOVER", "REQUEST"}
    BY <1>1, DhcpAssumption DEF Packets, AddrOrNone, Accept
  <2>2. r \in Locals /\ Ready(r)
    BY <2>1 DEF Idle, Locals, AddrOrNone, Ready, SettledAt
  <2>3. grant' \in [Macs -> GrantOrNone]
    BY <1>1 DEF Accept, TypeInv, TypeOK, GrantOrNone
  <2> QED
    BY <1>1, <2>2, <2>3, ServerMoves DEF Accept
<1>2. ASSUME NEW s \in Segments, NEW p \in Packets, Decline(s, p) PROVE TypeInv'
  <2>1. p.mac \in Macs /\ p.want \in Addrs
    BY <1>2, DhcpAssumption DEF Packets, Decline
  <2>2. declined' \in [Segments -> [Addrs -> Nat]]
    BY <1>0, <1>2, <2>1 DEF Decline, TypeInv, TypeOK
  <2>3. grant' \in [Macs -> Promises \union {None}]
    BY <1>2, <2>1 DEF Decline, TypeInv, TypeOK
  <2> QED
    BY <1>2, <2>2, <2>3 DEF Decline, TypeInv, TypeOK, config, counts
<1>3. ASSUME NEW s \in Segments, RemoveLANSegment(s) PROVE TypeInv'
  BY <1>3 DEF RemoveLANSegment, Edit, OnlySettings, TypeInv, TypeOK
<1>4. ASSUME NEW s \in Segments, NEW d \in SegmentDefs[s], UpdateLANSegment(s, d)
      PROVE  TypeInv'
  BY <1>0, <1>4 DEF UpdateLANSegment, Edit, OnlySettings, TypeInv, TypeOK
<1>5. ASSUME NEW m \in Macs, NEW a \in Reservable, NEW s \in Segments,
             AddReservation(m, a, s)
      PROVE  TypeInv'
  <2>1. [ip |-> a, seg |-> s] \in Reservation
    BY <1>0 DEF Reservation
  <2> QED
    BY <1>5, <2>1 DEF AddReservation, Edit, OnlySettings, TypeInv, TypeOK
<1>6. ASSUME NEW m \in Macs, RemoveReservation(m) PROVE TypeInv'
  BY <1>6 DEF RemoveReservation, Edit, OnlySettings, TypeInv, TypeOK
<1>7. ASSUME NEW m \in Macs, RemoveLease(m) PROVE TypeInv'
  BY <1>7 DEF RemoveLease, TypeInv, TypeOK, config
<1>8. CASE Tick
  <2>1. grant' \in [Macs -> Promises \union {None}]
    BY <1>8 DEF Tick, TypeInv, TypeOK
  <2>2. declined' \in [Segments -> [Addrs -> Nat]] /\ now' \in Nat
    BY <1>8 DEF Tick, TypeInv, TypeOK
  <2> QED
    BY <1>8, <2>1, <2>2 DEF Tick, TypeInv, TypeOK, config, counts
<1>9. CASE Restart
  <2>1. srv' \in [Segments -> Locals] /\ \A s \in Segments : srv'[s] = Idle
    BY <1>9, IdleType DEF Restart
  <2>2. TypeOK'
    BY <1>9, <2>1 DEF Restart, TypeInv, TypeOK, config
  <2> QED
    BY <2>1, <2>2, IdleType DEF TypeInv
<1>10. CASE UNCHANGED vars
  BY <1>10 DEF vars, TypeInv, TypeOK
<1>11. ASSUME NEW t \in LeaseTimes, SetLeaseTime(t) PROVE TypeInv'
  <2>1. grant' \in [Macs -> Promises \union {None}]
    BY <1>11 DEF SetLeaseTime, TypeInv, TypeOK, Promises
  <2> QED
    BY <1>11, <2>1 DEF SetLeaseTime, Edit, OnlySettings, TypeInv, TypeOK
<1> QED
  BY <1>1, <1>2, <1>3, <1>4, <1>5, <1>6, <1>7, <1>8, <1>9, <1>10, <1>11

\* The state the process first starts in is well typed.
LEMMA InitType == Init => TypeInv
<1> SUFFICES ASSUME Init PROVE TypeInv
  OBVIOUS
<1>1. seg \in [Segments -> SegDef \union {None}]
  <2>1. UNION {SegmentDefs[s] : s \in Segments} \subseteq SegDef
    BY DhcpAssumption
  <2> QED
    BY <2>1 DEF Init
<1>2. srv \in [Segments -> Locals] /\ \A s \in Segments : srv[s] = Idle
  BY IdleType DEF Init
<1>3. TypeOK
  BY <1>1, <1>2 DEF Init, TypeOK
<1> QED
  BY <1>2, <1>3, IdleType DEF TypeInv

\* Every step keeps the types.
LEMMA NextType == TypeInv /\ [Next]_vars => TypeInv'
BY AllocateType, AnswerType, OtherType DEF Next

\* Every variable keeps to its type, and a server finds the locals it needs:
\* the state of server.go's goroutines and of the records they share.
THEOREM TypeCorrect == Spec => []TypeOK
<1>1. TypeInv => TypeOK
  BY DEF TypeInv
<1> QED
  BY <1>1, InitType, NextType, PTL DEF Spec
-----------------------------------------------------------------------------
(* One client per address.                                                  *)

\* No other client than m has address a on record.
FreeFor(a, m) == \A n \in Macs \ {m} : lease[n] = None \/ lease[n].ip # a

\* The address that the server of s looks at is one of its pools'.
InPools(s, l) ==
  /\ l.pc = "free" => l.want \in Pool(s)
  /\ l.pc = "scan" =>
       \E d \in SegmentDefs[s] : l.hi = d.hi /\ d.lo <= l.cur /\ l.cur <= d.hi + 1

\* The address it has settled on stays free until it is recorded: only this
\* server gives addresses of its pools, and it has one packet in hand.
StaysFree(s, l) ==
  l.pc \in SettledAt =>
    l.ip \in Reservable \/ (l.ip \in Pool(s) /\ FreeFor(l.ip, l.mac))

\* Reservations are reservable; leases are too, or of their segment's pools.
OnRecord ==
  /\ \A m \in Macs : resv[m] # None => resv[m].ip \in Reservable
  /\ \A m \in Macs : lease[m] # None =>
       lease[m].ip \in Reservable \/ lease[m].ip \in Pool(lease[m].seg)

\* Inductive, with TypeInv.
UniqueInv ==
  /\ \A s \in Segments : InPools(s, srv[s]) /\ StaysFree(s, srv[s])
  /\ OnRecord
  /\ LeaseUnique

\* A server's new locals keep the invariant if they are right for it.
LEMMA UniqueMoves ==
  ASSUME TypeInv, UniqueInv, NEW s \in Segments, NEW r, InPools(s, r), StaysFree(s, r),
         srv' = [srv EXCEPT ![s] = r], UNCHANGED <<resv, lease>>
  PROVE  UniqueInv'
<1>1. \A t \in Segments : srv'[t] = IF t = s THEN r ELSE srv[t]
  BY DEF TypeInv, TypeOK
<1>2. \A t \in Segments : InPools(t, srv'[t]) /\ StaysFree(t, srv'[t])
  BY <1>1 DEF UniqueInv
<1>3. \A t \in Segments : InPools(t, srv[t])' /\ StaysFree(t, srv[t])'
  BY <1>2 DEF InPools, StaysFree, FreeFor
<1> QED
  BY <1>3 DEF UniqueInv, OnRecord, LeaseUnique

\* At a place where no address is in hand there is nothing to show.
LEMMA UniqueGoto ==
  ASSUME TypeInv, UniqueInv, NEW s \in Segments,
         NEW place \in {"lease", "segment", "pool"}, Goto(s, place),
         UNCHANGED <<resv, lease>>
  PROVE  UniqueInv'
<1> DEFINE r == [srv[s] EXCEPT !.pc = place]
<1>1. r.pc = place
  BY DEF TypeInv, TypeOK, Locals
<1>2. InPools(s, r) /\ StaysFree(s, r)
  BY <1>1 DEF InPools, StaysFree, SettledAt
<1> QED
  BY <1>2, UniqueMoves DEF Goto

\* A server may settle on what is reservable, or free and of its pools.
LEMMA UniqueSettle ==
  ASSUME TypeInv, UniqueInv, NEW s \in Segments, NEW a, Settle(s, a),
         a \in Reservable \/ (a \in Pool(s) /\ FreeFor(a, srv[s].mac)),
         UNCHANGED <<resv, lease>>
  PROVE  UniqueInv'
<1> DEFINE r == [Idle EXCEPT !.pc = "got", !.type = srv[s].type, !.mac = srv[s].mac,
                         !.want = srv[s].want, !.ip = a]
<1>1. r.pc = "got" /\ r.ip = a /\ r.mac = srv[s].mac
  BY DEF Idle
<1>2. InPools(s, r) /\ StaysFree(s, r)
  BY <1>1 DEF InPools, StaysFree
<1> QED
  BY <1>2, UniqueMoves DEF Settle, Returns

\* A server that has no address to give has nothing to show either.
LEMMA UniqueFail ==
  ASSUME TypeInv, UniqueInv, NEW s \in Segments, Fail(s), UNCHANGED <<resv, lease>>
  PROVE  UniqueInv'
<1> DEFINE r == [Idle EXCEPT !.pc = "fail", !.type = srv[s].type, !.mac = srv[s].mac,
                         !.want = srv[s].want, !.ip = None]
<1>1. InPools(s, r) /\ StaysFree(s, r)
  BY DEF Idle, InPools, StaysFree, SettledAt
<1> QED
  BY <1>1, UniqueMoves DEF Fail, Returns

\* An address that is available is on record for no other client.
LEMMA AvailableFree ==
  ASSUME NEW s \in Segments, NEW a, Available(s, a)
  PROVE  FreeFor(a, srv[s].mac)
BY DEF Available, IPInUse, FreeFor

\* An allocation step: where the address comes from, and why it is free.
LEMMA AllocateUnique ==
  ASSUME BelowTop, TypeInv, UniqueInv, NEW s \in Segments, Allocate(s)
  PROVE  UniqueInv'
<1>1. UNCHANGED <<resv, lease>>
  BY DEF Allocate, CheckReservation, CheckLease, ReadSegment, CheckRequested,
         TryRequested, ReadPool, Scan, config
<1>2. srv[s] \in Locals /\ Ready(srv[s]) /\ InPools(s, srv[s])
  BY DEF TypeInv, TypeOK, UniqueInv
<1>3. srv[s].mac \in Macs
  BY <1>2 DEF Ready, Allocate, At, CheckReservation, CheckLease, ReadSegment,
              CheckRequested, TryRequested, ReadPool, Scan
<1>4. seg[s] # None => seg[s] \in SegmentDefs[s] /\ seg[s] \in SegDef
  BY DEF TypeInv, TypeOK
<1>5. CASE CheckReservation(s)
  BY <1>1, <1>3, <1>5, UniqueGoto, UniqueSettle DEF CheckReservation, UniqueInv, OnRecord
<1>6. CASE CheckLease(s)
  <2> DEFINE l == lease[srv[s].mac]
  <2>1. CASE Keeps(s, l)
    <3>1. l # None /\ l.seg = s
      BY <2>1 DEF Keeps
    <3>2. l.ip \in Reservable \/ l.ip \in Pool(s)
      BY <1>3, <3>1 DEF UniqueInv, OnRecord
    <3>3. l.ip \in Reservable \/ FreeFor(l.ip, srv[s].mac)
      BY <1>3, <3>1 DEF UniqueInv, LeaseUnique, FreeFor
    <3>4. Settle(s, l.ip)
      BY <1>6, <2>1 DEF CheckLease
    <3> QED
      BY <1>1, <3>2, <3>3, <3>4, UniqueSettle
  <2>2. CASE ~Keeps(s, l)
    BY <1>1, <1>6, <2>2, UniqueGoto DEF CheckLease
  <2> QED
    BY <2>1, <2>2
<1>7. CASE ReadSegment(s)
  <2>1. CASE seg[s] = None
    BY <1>1, <1>7, <2>1, UniqueFail DEF ReadSegment
  <2>2. CASE seg[s] # None
    <3>1. PICK taken \in ArpViews :
            srv' = [srv EXCEPT ![s] = [@ EXCEPT !.pc = "request", !.gw = seg[s].gw,
                                                !.taken = taken]]
      BY <1>7, <2>2 DEF ReadSegment
    <3> DEFINE r == [srv[s] EXCEPT !.pc = "request", !.gw = seg[s].gw, !.taken = taken]
    <3>2. InPools(s, r) /\ StaysFree(s, r)
      BY <1>2 DEF Locals, InPools, StaysFree, SettledAt
    <3> QED
      BY <1>1, <3>1, <3>2, UniqueMoves
  <2> QED
    BY <2>1, <2>2
<1>8. CASE CheckRequested(s)
  <2>1. CASE srv[s].want # None /\ InPool(s, srv[s].want)
    <3> DEFINE r == [srv[s] EXCEPT !.pc = "free"]
    <3>1. srv[s].want \in Pool(s)
      BY <1>2, <1>4, <2>1 DEF InPool, Pool, Locals, AddrOrNone
    <3>2. InPools(s, r) /\ StaysFree(s, r)
      BY <1>2, <3>1 DEF Locals, InPools, StaysFree, SettledAt
    <3> QED
      BY <1>1, <1>8, <2>1, <3>2, UniqueMoves DEF CheckRequested, Goto
  <2>2. CASE ~(srv[s].want # None /\ InPool(s, srv[s].want))
    BY <1>1, <1>8, <2>2, UniqueGoto DEF CheckRequested
  <2> QED
    BY <2>1, <2>2
<1>9. CASE TryRequested(s)
  <2>1. srv[s].want \in Pool(s)
    BY <1>2, <1>9 DEF TryRequested, At, InPools
  <2> QED
    BY <1>1, <1>9, <2>1, AvailableFree, UniqueGoto, UniqueSettle DEF TryRequested
<1>10. CASE ReadPool(s)
  <2>1. CASE seg[s] = None
    BY <1>1, <1>10, <2>1, UniqueFail DEF ReadPool
  <2>2. CASE seg[s] # None
    <3> DEFINE r == [srv[s] EXCEPT !.pc = "scan", !.cur = seg[s].lo, !.hi = seg[s].hi]
    <3>1. /\ seg[s].lo \in Nat /\ seg[s].hi \in Nat /\ seg[s].lo <= seg[s].hi
      BY <1>4, <2>2, DhcpAssumption DEF SegDef, Addrs
    <3>2. seg[s].lo <= seg[s].hi + 1
      BY <3>1
    <3>3. r.pc = "scan" /\ r.cur = seg[s].lo /\ r.hi = seg[s].hi
      BY <1>2 DEF Locals
    <3>4. InPools(s, r)
      BY <1>4, <2>2, <3>1, <3>2, <3>3 DEF InPools
    <3>5. StaysFree(s, r)
      BY <3>3 DEF StaysFree, SettledAt
    <3> QED
      BY <1>1, <1>10, <2>2, <3>4, <3>5, UniqueMoves DEF ReadPool
  <2> QED
    BY <2>1, <2>2
<1>11. CASE Scan(s)
  <2> DEFINE a == srv[s].cur
             r == [srv[s] EXCEPT !.cur = Following(a)]
  <2>1. a \in Addrs /\ srv[s].pc = "scan"
    BY <1>2, <1>11 DEF Scan, At, Ready
  <2>2. PICK d \in SegmentDefs[s] : srv[s].hi = d.hi /\ d.lo <= a /\ a <= d.hi + 1
    BY <1>2, <2>1 DEF InPools
  <2>3. d.lo \in Nat /\ d.hi \in Nat /\ d.hi < TopAddr /\ TopAddr \in Nat /\ a \in Nat
    BY <2>1, <2>2, DhcpAssumption DEF SegDef, Addrs, BelowTop
  <2>4. CASE Fail(s)
    BY <1>1, <2>4, UniqueFail
  <2>5. CASE a <= d.hi /\ Available(s, a) /\ Settle(s, a)
    <3>1. a \in Pool(s)
      BY <2>1, <2>2, <2>5 DEF Pool
    <3> QED
      BY <1>1, <2>5, <3>1, AvailableFree, UniqueSettle
  <2>6. CASE a <= d.hi /\ srv' = [srv EXCEPT ![s] = [@ EXCEPT !.cur = Following(a)]]
    <3>1. Following(a) = a + 1
      BY <2>1, <2>3, <2>6, NextAddr DEF Following
    <3>2. d.lo <= a + 1 /\ a + 1 <= d.hi + 1
      BY <2>2, <2>3, <2>6
    <3>3. r.pc = "scan" /\ r.hi = d.hi /\ r.cur = a + 1
      BY <1>2, <2>1, <2>2, <3>1 DEF Locals
    <3>4. InPools(s, r) /\ StaysFree(s, r)
      BY <2>2, <3>2, <3>3 DEF InPools, StaysFree, SettledAt
    <3> QED
      BY <1>1, <2>6, <3>4, UniqueMoves
  <2> QED
    BY <1>11, <2>2, <2>4, <2>5, <2>6 DEF Scan
<1> QED
  BY <1>5, <1>6, <1>7, <1>8, <1>9, <1>10, <1>11 DEF Allocate

\* A server that waits has no address in hand.
LEMMA IdleUnique == \A s \in Segments : InPools(s, Idle) /\ StaysFree(s, Idle)
BY DEF Idle, InPools, StaysFree, SettledAt

\* The record of an ACK.  The address is free for its client, and no other
\* server has settled on it: it is of the pools of this segment.
LEMMA RecordUnique ==
  ASSUME Separate, TypeInv, UniqueInv, NEW s \in Segments, Record(s)
  PROVE  UniqueInv'
<1> DEFINE a == srv[s].ip
           m == srv[s].mac
<1>1. srv[s].pc = "upsert" /\ m \in Macs
  BY DEF Record, At, TypeInv, Ready
<1>2. a \in Reservable \/ (a \in Pool(s) /\ FreeFor(a, m))
  BY <1>1 DEF UniqueInv, StaysFree, SettledAt
<1>3. \A n \in Macs : lease'[n] = IF n = m THEN NewLease(s, m) ELSE lease[n]
  BY <1>1 DEF Record, TypeInv, TypeOK
<1>4. NewLease(s, m).ip = a /\ NewLease(s, m).seg = s
  BY DEF NewLease
<1>5. \A t \in Segments : srv'[t] = IF t = s THEN Idle ELSE srv[t]
  BY DEF Record, Finish, TypeInv, TypeOK
<1>6. OnRecord'
  BY <1>2, <1>3, <1>4 DEF Record, UniqueInv, OnRecord, config
<1>7. LeaseUnique'
  BY <1>1, <1>2, <1>3, <1>4 DEF UniqueInv, LeaseUnique, FreeFor
<1>8. ASSUME NEW t \in Segments PROVE InPools(t, srv[t])' /\ StaysFree(t, srv[t])'
  <2>1. CASE t = s
    BY <1>5, <2>1, IdleUnique DEF InPools, StaysFree, Idle, SettledAt
  <2>2. CASE t # s
    <3>1. srv'[t] = srv[t] /\ InPools(t, srv[t]) /\ StaysFree(t, srv[t])
      BY <1>5, <2>2 DEF UniqueInv
    <3>2. srv[t].ip \in Pool(t) => a \in Reservable \/ srv[t].ip # a
      BY <1>2, <2>2 DEF Separate
    <3>3. ASSUME srv[t].pc \in SettledAt, srv[t].ip \notin Reservable
          PROVE  srv[t].ip \in Pool(t) /\ FreeFor(srv[t].ip, srv[t].mac)'
      <4>1. srv[t].ip \in Pool(t) /\ FreeFor(srv[t].ip, srv[t].mac) /\ srv[t].ip # a
        BY <3>1, <3>2, <3>3 DEF StaysFree
      <4> QED
        BY <1>3, <1>4, <3>1, <4>1 DEF FreeFor
    <3> QED
      BY <3>1, <3>3 DEF InPools, StaysFree
  <2> QED
    BY <2>1, <2>2
<1> QED
  BY <1>6, <1>7, <1>8 DEF UniqueInv

\* An answer that is not over yet moves one server on, with what it has in hand.
LEMMA AnswerMoves ==
  ASSUME TypeInv, NEW s \in Segments, Build(s) \/ SendACK(s) \/ ReadExpiry(s)
  PROVE  /\ srv'[s] \in Locals /\ srv' = [srv EXCEPT ![s] = srv'[s]]
         /\ \A t \in Segments : t # s => srv'[t] = srv[t]
         /\ Build(s) => srv[s].pc = "got" /\ srv'[s].pc = "send"
         /\ SendACK(s) => srv[s].pc = "send" /\ srv'[s].pc = "record"
         /\ ReadExpiry(s) =>
              /\ srv[s].pc = "record" /\ srv'[s].pc = "upsert"
              /\ srv'[s].exp = now + leaseSecs
         /\ srv'[s].pc \in {"send", "record", "upsert"}
         /\ srv[s].pc \in SettledAt
         /\ srv'[s].ip = srv[s].ip /\ srv'[s].mac = srv[s].mac
         /\ srv'[s].type = srv[s].type /\ srv'[s].want = srv[s].want
         /\ UNCHANGED <<config, lease, declined, now, counts>>
<1>1. /\ srv \in [Segments -> Locals] /\ leaseSecs \in Nat /\ now \in Nat
  BY DhcpAssumption DEF TypeInv, TypeOK
<1>2. CASE Build(s)
  BY <1>1, <1>2 DEF Build, SendACK, ReadExpiry, At, Locals, SettledAt
<1>3. CASE SendACK(s)
  BY <1>1, <1>3 DEF Build, SendACK, ReadExpiry, At, Locals, SettledAt
<1>4. CASE ReadExpiry(s)
  <2> DEFINE r == [srv[s] EXCEPT !.pc = "upsert", !.exp = now + leaseSecs]
  <2>1. srv[s].pc = "record" /\ srv' = [srv EXCEPT ![s] = r] /\ now + leaseSecs \in Nat
    BY <1>1, <1>4 DEF ReadExpiry, At
  <2>2. /\ r \in Locals /\ r.pc = "upsert" /\ r.exp = now + leaseSecs
        /\ r.ip = srv[s].ip /\ r.mac = srv[s].mac /\ r.type = srv[s].type
        /\ r.want = srv[s].want
    BY <1>1, <2>1 DEF Locals
  <2>3. srv'[s] = r /\ \A t \in Segments : t # s => srv'[t] = srv[t]
    BY <1>1, <2>1
  <2> HIDE DEF r
  <2> QED
    BY <1>4, <2>1, <2>2, <2>3 DEF Build, SendACK, ReadExpiry, At, SettledAt
<1> QED
  BY <1>2, <1>3, <1>4

\* An answer.
LEMMA AnswerUnique ==
  ASSUME Separate, TypeInv, UniqueInv, NEW s \in Segments, Answer(s)
  PROVE  UniqueInv'
<1>1. ASSUME Finish(s), UNCHANGED <<resv, lease>> PROVE UniqueInv'
  BY <1>1, IdleUnique, UniqueMoves DEF Finish
<1>2. ASSUME NEW r \in Locals, r.pc \in {"send", "record", "upsert"}, r.ip = srv[s].ip,
             r.mac = srv[s].mac, srv' = [srv EXCEPT ![s] = r], srv[s].pc \in SettledAt,
             UNCHANGED <<resv, lease>>
      PROVE  UniqueInv'
  <2>1. InPools(s, r) /\ StaysFree(s, r)
    BY <1>2 DEF UniqueInv, InPools, StaysFree
  <2> QED
    BY <1>2, <2>1, UniqueMoves
<1>3. CASE Drop(s) \/ SendNAK(s) \/ SendOffer(s)
  BY <1>1, <1>3 DEF Drop, SendNAK, SendOffer, config
<1>4. CASE Build(s) \/ SendACK(s) \/ ReadExpiry(s)
  <2>1. /\ srv'[s] \in Locals /\ srv' = [srv EXCEPT ![s] = srv'[s]]
        /\ srv'[s].pc \in {"send", "record", "upsert"}
        /\ srv'[s].ip = srv[s].ip /\ srv'[s].mac = srv[s].mac
        /\ srv[s].pc \in SettledAt /\ UNCHANGED <<resv, lease>>
    BY <1>4, AnswerMoves DEF config
  <2> QED
    BY <1>2, <2>1
<1>6. CASE Record(s)
  BY <1>6, RecordUnique
<1> QED
  BY <1>3, <1>4, <1>6 DEF Answer

\* Packets that come in, Settings, the clock: reservations are reservable, and
\* a lease that is cleared makes its address no less free.
LEMMA OtherUnique ==
  ASSUME TypeInv, UniqueInv,
         \/ \E s \in Segments, p \in Packets : Accept(s, p) \/ Decline(s, p)
         \/ \E s \in Segments : RemoveLANSegment(s)
         \/ \E s \in Segments : \E d \in SegmentDefs[s] : UpdateLANSegment(s, d)
         \/ \E m \in Macs, a \in Reservable, s \in Segments : AddReservation(m, a, s)
         \/ \E m \in Macs : RemoveReservation(m) \/ RemoveLease(m)
         \/ \E t \in LeaseTimes : SetLeaseTime(t)
         \/ Tick \/ Restart \/ UNCHANGED vars
  PROVE  UniqueInv'
<1>1. ASSUME srv' = srv, OnRecord', \A m \in Macs : lease'[m] \in {lease[m], None}
      PROVE  UniqueInv'
  <2>1. LeaseUnique'
    BY <1>1 DEF UniqueInv, LeaseUnique
  <2>2. ASSUME NEW s \in Segments PROVE InPools(s, srv[s])' /\ StaysFree(s, srv[s])'
    BY <1>1 DEF UniqueInv, InPools, StaysFree, FreeFor
  <2> QED
    BY <1>1, <2>1, <2>2 DEF UniqueInv
<1>2. OnRecord
  BY DEF UniqueInv
<1>3. ASSUME NEW s \in Segments, NEW p \in Packets, Accept(s, p) PROVE UniqueInv'
  <2> DEFINE r == [Idle EXCEPT !.pc = "resv", !.type = p.type, !.mac = p.mac,
                               !.want = p.want]
  <2>1. InPools(s, r) /\ StaysFree(s, r)
    BY DEF Idle, InPools, StaysFree, SettledAt
  <2> QED
    BY <1>3, <2>1, UniqueMoves DEF Accept, config
<1>4. ASSUME NEW m \in Macs, NEW a \in Reservable, NEW s \in Segments,
             AddReservation(m, a, s)
      PROVE  UniqueInv'
  <2>1. \A n \in Macs : resv'[n] # None => resv'[n].ip \in Reservable
    BY <1>2, <1>4 DEF AddReservation, OnRecord, TypeInv, TypeOK
  <2> QED
    BY <1>1, <1>2, <1>4, <2>1 DEF AddReservation, Edit, OnlySettings, OnRecord
<1>5. ASSUME NEW m \in Macs, RemoveReservation(m) PROVE UniqueInv'
  <2>1. \A n \in Macs : resv'[n] \in {resv[n], None}
    BY <1>5 DEF RemoveReservation, TypeInv, TypeOK
  <2> QED
    BY <1>1, <1>2, <1>5, <2>1 DEF RemoveReservation, Edit, OnlySettings, OnRecord
<1>6. ASSUME NEW m \in Macs, RemoveLease(m) PROVE UniqueInv'
  <2>1. \A n \in Macs : lease'[n] \in {lease[n], None}
    BY <1>6 DEF RemoveLease, TypeInv, TypeOK
  <2> QED
    BY <1>1, <1>2, <1>6, <2>1 DEF RemoveLease, OnRecord, config
<1>7. CASE Restart
  <2>1. \A s \in Segments : srv'[s] = Idle
    BY <1>7 DEF Restart
  <2>2. \A s \in Segments : InPools(s, srv[s])' /\ StaysFree(s, srv[s])'
    BY <2>1 DEF Idle, InPools, StaysFree, SettledAt
  <2> QED
    BY <1>7, <2>2 DEF Restart, UniqueInv, OnRecord, LeaseUnique, config
<1>8. ASSUME UNCHANGED <<srv, resv, lease>> PROVE UniqueInv'
  BY <1>1, <1>2, <1>8 DEF OnRecord
<1>9. ASSUME NEW s \in Segments, NEW p \in Packets, Decline(s, p) PROVE UniqueInv'
  BY <1>8, <1>9 DEF Decline, config
<1>10. ASSUME NEW s \in Segments, RemoveLANSegment(s) PROVE UniqueInv'
  BY <1>8, <1>10 DEF RemoveLANSegment, Edit, OnlySettings
<1>11. ASSUME NEW s \in Segments, NEW d \in SegmentDefs[s], UpdateLANSegment(s, d)
       PROVE  UniqueInv'
  BY <1>8, <1>11 DEF UpdateLANSegment, Edit, OnlySettings
<1>12. CASE Tick \/ UNCHANGED vars
  BY <1>8, <1>12 DEF Tick, vars, config
<1>13. ASSUME NEW t \in LeaseTimes, SetLeaseTime(t) PROVE UniqueInv'
  BY <1>8, <1>13 DEF SetLeaseTime, Edit, OnlySettings
<1> QED
  BY <1>3, <1>4, <1>5, <1>6, <1>7, <1>9, <1>10, <1>11, <1>12, <1>13

\* At the start nothing is on record.
LEMMA InitUnique == Init => UniqueInv
<1> SUFFICES ASSUME Init PROVE UniqueInv
  OBVIOUS
<1>1. \A s \in Segments : srv[s] = Idle
  BY DEF Init
<1>2. OnRecord /\ LeaseUnique
  BY DEF Init, OnRecord, LeaseUnique
<1> QED
  BY <1>1, <1>2, IdleUnique DEF UniqueInv

\* No address is on record for two clients, whatever the segments' servers,
\* Settings, removals and restarts do between the check (IPInUse) and the record
\* (UpsertLease): if no address can be in two segments' pools, and no pool ends
\* at the largest address.  Reservable addresses are excepted.
THEOREM LeasesUnique == ASSUME Separate, BelowTop PROVE Spec => []LeaseUnique
<1>1. TypeInv /\ UniqueInv /\ [Next]_vars => UniqueInv'
  BY AllocateUnique, AnswerUnique, OtherUnique DEF Next
<1>2. UniqueInv => LeaseUnique
  BY DEF UniqueInv
<1> QED
  BY <1>1, <1>2, InitType, InitUnique, NextType, PTL DEF Spec
-----------------------------------------------------------------------------
(* Renewals.                                                                *)

\* Where a server looks for another address than the one on record.
Searching == {"segment", "request", "free", "pool", "scan", "fail"}

\* What locals q of the server of s say of the lease l of their client: it is
\* not the one the client asks for, or the client gets what it asks for, or a
\* reservation has decided.
Honours(s, q, l) ==
  LET other == l = None \/ l.seg # s \/ l.ip # q.want IN
    /\ q.pc \in Searching => other
    /\ q.pc = "got" => other \/ q.ip = q.want \/ q.ip \in Reservable

\* Inductive, with TypeInv: only the server of s makes leases of segment s.
RenewalInv ==
  /\ \A m \in Macs : resv[m] # None => resv[m].ip \in Reservable
  /\ \A s \in Segments : Honours(s, srv[s], lease[srv[s].mac])

\* A server's new locals keep the invariant if they are right for it.
LEMMA RenewalMoves ==
  ASSUME TypeInv, RenewalInv, NEW s \in Segments, NEW q, Honours(s, q, lease[q.mac]),
         srv' = [srv EXCEPT ![s] = q], UNCHANGED <<resv, lease>>
  PROVE  RenewalInv'
<1>1. \A t \in Segments : srv'[t] = IF t = s THEN q ELSE srv[t]
  BY DEF TypeInv, TypeOK
<1>2. \A t \in Segments : Honours(t, srv'[t], lease[srv'[t].mac])
  BY <1>1 DEF RenewalInv
<1> QED
  BY <1>2 DEF RenewalInv

\* A server that waits, or has sent its answer, owes nothing.
LEMMA RenewalIdle == \A s, l : Honours(s, Idle, l)
BY DEF Idle, Honours, Searching

\* An allocation step: a lease that the client asks for is never passed over.
LEMMA AllocateRenewal ==
  ASSUME TypeInv, RenewalInv, NEW s \in Segments, Allocate(s) PROVE RenewalInv'
<1> DEFINE l == lease[srv[s].mac]
           Other == l = None \/ l.seg # s \/ l.ip # srv[s].want
           Moved(place) == [srv[s] EXCEPT !.pc = place]
           Returned(place, a) == [Idle EXCEPT !.pc = place, !.type = srv[s].type,
                                    !.mac = srv[s].mac, !.want = srv[s].want, !.ip = a]
<1>1. UNCHANGED <<resv, lease>>
  BY DEF Allocate, CheckReservation, CheckLease, ReadSegment, CheckRequested,
         TryRequested, ReadPool, Scan, config
<1>2. srv[s] \in Locals /\ Ready(srv[s])
  BY DEF TypeInv, TypeOK
<1>3. srv[s].mac \in Macs
  BY <1>2 DEF Ready, Allocate, At, CheckReservation, CheckLease, ReadSegment,
              CheckRequested, TryRequested, ReadPool, Scan
<1>4. srv[s].pc \in Searching => Other
  BY DEF RenewalInv, Honours
<1>5. ASSUME NEW place \in {"lease"} \union Searching, Goto(s, place),
             place \in Searching => Other
      PROVE  RenewalInv'
  <2>1. /\ Moved(place).pc = place /\ Moved(place).mac = srv[s].mac
        /\ Moved(place).want = srv[s].want
    BY <1>2 DEF Locals
  <2>2. Honours(s, Moved(place), lease[Moved(place).mac])
    BY <1>5, <2>1 DEF Honours, Searching
  <2> QED
    BY <1>1, <1>5, <2>2, RenewalMoves DEF Goto
<1>6. ASSUME NEW a, Settle(s, a), Other \/ a = srv[s].want \/ a \in Reservable
      PROVE  RenewalInv'
  <2> DEFINE r == Returned("got", a)
  <2>1. r.pc = "got" /\ r.mac = srv[s].mac /\ r.want = srv[s].want /\ r.ip = a
    BY DEF Idle
  <2>2. Honours(s, r, lease[r.mac])
    BY <1>6, <2>1 DEF Honours, Searching
  <2> QED
    BY <1>1, <1>6, <2>2, RenewalMoves DEF Settle, Returns
<1>14. ASSUME Fail(s), Other PROVE RenewalInv'
  <2> DEFINE r == Returned("fail", None)
  <2>1. r.pc = "fail" /\ r.mac = srv[s].mac /\ r.want = srv[s].want
    BY DEF Idle
  <2>2. Honours(s, r, lease[r.mac])
    BY <1>14, <2>1 DEF Honours, Searching
  <2> QED
    BY <1>1, <1>14, <2>2, RenewalMoves DEF Fail, Returns
<1>7. CASE CheckReservation(s)
  BY <1>3, <1>5, <1>6, <1>7 DEF CheckReservation, RenewalInv, Searching
<1>8. CASE CheckLease(s)
  <2>1. CASE Keeps(s, l)
    BY <1>6, <1>8, <2>1 DEF CheckLease
  <2>2. CASE ~Keeps(s, l)
    BY <1>5, <1>8, <2>2 DEF CheckLease, Keeps, Searching
  <2> QED
    BY <2>1, <2>2
<1>9. CASE ReadSegment(s)
  <2>1. srv[s].pc \in Searching
    BY <1>9 DEF ReadSegment, At, Searching
  <2>2. ASSUME NEW taken, srv' = [srv EXCEPT ![s] = [@ EXCEPT !.pc = "request",
                                             !.gw = seg[s].gw, !.taken = taken]]
        PROVE  RenewalInv'
    <3> DEFINE q == [srv[s] EXCEPT !.pc = "request", !.gw = seg[s].gw, !.taken = taken]
    <3>1. q.pc = "request" /\ q.mac = srv[s].mac /\ q.want = srv[s].want
      BY <1>2 DEF Locals
    <3>2. Honours(s, q, lease[q.mac])
      BY <1>4, <2>1, <3>1 DEF Honours, Searching
    <3> QED
      BY <1>1, <2>2, <3>2, RenewalMoves
  <2> QED
    BY <1>4, <1>14, <1>9, <2>1, <2>2 DEF ReadSegment, Searching
<1>10. CASE CheckRequested(s)
  BY <1>4, <1>5, <1>10 DEF CheckRequested, At, Searching
<1>11. CASE TryRequested(s)
  BY <1>4, <1>5, <1>6, <1>11 DEF TryRequested, At, Searching
<1>12. CASE ReadPool(s)
  <2> DEFINE q == [srv[s] EXCEPT !.pc = "scan", !.cur = seg[s].lo, !.hi = seg[s].hi]
  <2>1. Other
    BY <1>4, <1>12 DEF ReadPool, At, Searching
  <2>2. q.pc = "scan" /\ q.mac = srv[s].mac /\ q.want = srv[s].want
    BY <1>2 DEF Locals
  <2>3. Honours(s, q, lease[q.mac])
    BY <2>1, <2>2 DEF Honours, Searching
  <2> QED
    BY <1>1, <1>14, <1>12, <2>1, <2>3, RenewalMoves DEF ReadPool
<1>13. CASE Scan(s)
  <2> DEFINE q == [srv[s] EXCEPT !.cur = Following(srv[s].cur)]
  <2>1. Other /\ srv[s].pc = "scan"
    BY <1>4, <1>13 DEF Scan, At, Searching
  <2>2. q.pc = "scan" /\ q.mac = srv[s].mac /\ q.want = srv[s].want
    BY <1>2, <2>1 DEF Locals
  <2>3. Honours(s, q, lease[q.mac])
    BY <2>1, <2>2 DEF Honours, Searching
  <2> QED
    BY <1>1, <1>14, <1>6, <1>13, <2>1, <2>3, RenewalMoves DEF Scan
<1> QED
  BY <1>7, <1>8, <1>9, <1>10, <1>11, <1>12, <1>13 DEF Allocate

\* An answer: a lease of segment s is only recorded by the server of s.
LEMMA AnswerRenewal ==
  ASSUME TypeInv, RenewalInv, NEW s \in Segments, Answer(s) PROVE RenewalInv'
<1>1. ASSUME Finish(s), UNCHANGED <<resv, lease>> PROVE RenewalInv'
  BY <1>1, RenewalIdle, RenewalMoves DEF Finish
<1>2. CASE Build(s) \/ SendACK(s) \/ ReadExpiry(s)
  <2>1. Honours(s, srv'[s], lease[srv'[s].mac])
    BY <1>2, AnswerMoves DEF Honours, Searching
  <2> QED
    BY <1>2, <2>1, AnswerMoves, RenewalMoves DEF config
<1>3. CASE Drop(s) \/ SendNAK(s) \/ SendOffer(s)
  BY <1>1, <1>3 DEF Drop, SendNAK, SendOffer, config
<1>4. CASE Record(s)
  <2>1. \A t \in Segments : srv'[t] = IF t = s THEN Idle ELSE srv[t]
    BY <1>4 DEF Record, Finish, TypeInv, TypeOK
  <2>2. \A n : n \in Macs =>
          lease'[n] = IF n = srv[s].mac THEN NewLease(s, n) ELSE lease[n]
    BY <1>4 DEF Record, TypeInv, TypeOK
  <2>3. ASSUME NEW t \in Segments PROVE Honours(t, srv[t], lease[srv[t].mac])'
    <3>1. CASE t = s
      BY <2>1, <3>1, RenewalIdle
    <3>2. CASE t # s
      <4>1. srv'[t] = srv[t] /\ Honours(t, srv[t], lease[srv[t].mac])
        BY <2>1, <3>2 DEF RenewalInv
      <4>2. srv[t].pc # "idle" => srv[t].mac \in Macs
        BY DEF TypeInv, Ready
      <4>3. NewLease(s, srv[t].mac).seg # t
        BY <3>2 DEF NewLease
      <4> QED
        BY <2>2, <4>1, <4>2, <4>3 DEF Honours, Searching
    <3> QED
      BY <3>1, <3>2
  <2> QED
    BY <1>4, <2>3 DEF Record, RenewalInv, config
<1> QED
  BY <1>2, <1>3, <1>4 DEF Answer

\* Packets that come in, Settings, the clock.
LEMMA OtherRenewal ==
  ASSUME TypeInv, RenewalInv,
         \/ \E s \in Segments, p \in Packets : Accept(s, p) \/ Decline(s, p)
         \/ \E s \in Segments : RemoveLANSegment(s)
         \/ \E s \in Segments : \E d \in SegmentDefs[s] : UpdateLANSegment(s, d)
         \/ \E m \in Macs, a \in Reservable, s \in Segments : AddReservation(m, a, s)
         \/ \E m \in Macs : RemoveReservation(m) \/ RemoveLease(m)
         \/ \E t \in LeaseTimes : SetLeaseTime(t)
         \/ Tick \/ Restart \/ UNCHANGED vars
  PROVE  RenewalInv'
<1>1. ASSUME srv' = srv, \A m \in Macs : lease'[m] \in {lease[m], None},
             \A m \in Macs : resv'[m] \in {resv[m], None} \/ resv'[m].ip \in Reservable
      PROVE  RenewalInv'
  <2>1. ASSUME NEW s \in Segments PROVE Honours(s, srv[s], lease[srv[s].mac])'
    <3>1. srv[s].pc # "idle" => srv[s].mac \in Macs
      BY DEF TypeInv, Ready
    <3>2. Honours(s, srv[s], lease[srv[s].mac])
      BY DEF RenewalInv
    <3> QED
      BY <1>1, <3>1, <3>2 DEF Honours, Searching
  <2> QED
    BY <1>1, <2>1 DEF RenewalInv
<1>2. ASSUME NEW s \in Segments, NEW p \in Packets, Accept(s, p) PROVE RenewalInv'
  <2> DEFINE q == [Idle EXCEPT !.pc = "resv", !.type = p.type, !.mac = p.mac,
                               !.want = p.want]
  <2>1. Honours(s, q, lease[q.mac])
    BY DEF Idle, Honours, Searching
  <2> QED
    BY <1>2, <2>1, RenewalMoves DEF Accept, config
<1>3. ASSUME NEW m \in Macs, NEW a \in Reservable, NEW s \in Segments,
             AddReservation(m, a, s)
      PROVE  RenewalInv'
  <2>1. \A n \in Macs : resv'[n] = resv[n] \/ resv'[n].ip \in Reservable
    BY <1>3 DEF AddReservation, TypeInv, TypeOK
  <2> QED
    BY <1>1, <1>3, <2>1 DEF AddReservation, Edit, OnlySettings
<1>4. ASSUME NEW m \in Macs, RemoveReservation(m) PROVE RenewalInv'
  <2>1. \A n \in Macs : resv'[n] \in {resv[n], None}
    BY <1>4 DEF RemoveReservation, TypeInv, TypeOK
  <2> QED
    BY <1>1, <1>4, <2>1 DEF RemoveReservation, Edit, OnlySettings
<1>5. ASSUME NEW m \in Macs, RemoveLease(m) PROVE RenewalInv'
  <2>1. \A n \in Macs : lease'[n] \in {lease[n], None}
    BY <1>5 DEF RemoveLease, TypeInv, TypeOK
  <2> QED
    BY <1>1, <1>5, <2>1 DEF RemoveLease, config
<1>6. CASE Restart
  <2>1. \A s \in Segments : srv'[s] = Idle
    BY <1>6 DEF Restart
  <2> QED
    BY <1>6, <2>1, RenewalIdle DEF Restart, RenewalInv, config
<1>7. ASSUME UNCHANGED <<srv, resv, lease>> PROVE RenewalInv'
  BY <1>1, <1>7
<1>8. ASSUME NEW s \in Segments, NEW p \in Packets, Decline(s, p) PROVE RenewalInv'
  BY <1>7, <1>8 DEF Decline, config
<1>9. ASSUME NEW s \in Segments, RemoveLANSegment(s) PROVE RenewalInv'
  BY <1>7, <1>9 DEF RemoveLANSegment, Edit, OnlySettings
<1>10. ASSUME NEW s \in Segments, NEW d \in SegmentDefs[s], UpdateLANSegment(s, d)
       PROVE  RenewalInv'
  BY <1>7, <1>10 DEF UpdateLANSegment, Edit, OnlySettings
<1>11. CASE Tick \/ UNCHANGED vars
  BY <1>7, <1>11 DEF Tick, vars, config
<1>12. ASSUME NEW t \in LeaseTimes, SetLeaseTime(t) PROVE RenewalInv'
  BY <1>7, <1>12 DEF SetLeaseTime, Edit, OnlySettings
<1> QED
  BY <1>2, <1>3, <1>4, <1>5, <1>6, <1>8, <1>9, <1>10, <1>11, <1>12

\* At the start nobody has asked.
LEMMA InitRenewal == Init => RenewalInv
<1> SUFFICES ASSUME Init PROVE RenewalInv
  OBVIOUS
<1>1. \A s \in Segments : srv[s] = Idle
  BY DEF Init
<1> QED
  BY <1>1, RenewalIdle DEF Init, RenewalInv

\* A client that asks for the address it has on record on this segment is not
\* refused, whatever was declined, edited or recorded since allocate looked at
\* its lease; only a reservation can decide otherwise (handleRequest's NAK).
THEOREM RenewalsNotRefused == Spec => RenewalNeverRefused
<1> DEFINE Refused(s) ==
             SendNAK(s) => LET l == lease[srv[s].mac] IN
                             \/ l = None \/ l.seg # s \/ l.ip # srv[s].want
                             \/ srv[s].ip \in Reservable
<1>1. ASSUME TypeInv, RenewalInv, NEW s \in Segments PROVE Refused(s)
  <2>1. Honours(s, srv[s], lease[srv[s].mac])
    BY <1>1 DEF RenewalInv
  <2> QED
    BY <2>1 DEF SendNAK, Mismatch, At, Honours, Searching
<1>2. TypeInv /\ RenewalInv /\ [Next]_vars => RenewalInv'
  BY AllocateRenewal, AnswerRenewal, OtherRenewal DEF Next
<1>3. TypeInv /\ RenewalInv => [\A s \in Segments : Refused(s)]_vars
  BY <1>1
<1> QED
  BY <1>2, <1>3, InitType, InitRenewal, NextType, PTL DEF Spec, RenewalNeverRefused
-----------------------------------------------------------------------------
(* Promises: what an ACK has said is on record and for one client only.  A  *)
(* client m is followed that stays on its segment h, whatever others do.    *)

\* Client m is heard on segment h only.
HeardAt(m, h) == \A s \in Segments, p \in Packets : Accept(s, p) /\ p.mac = m => s = h

\* The ACK to m in hand has been sent and is not on record yet.
Recording(s, m) == srv[s].pc \in {"record", "upsert"} /\ srv[s].mac = m

\* No restart comes between an ACK to m and its record.
RecordedFirst(m) == Restart => \A s \in Segments : ~Recording(s, m)

\* The steps the theorems below are about; the lease of m is not cleared by hand.
Steady(m, h) == HeardAt(m, h) /\ ~RemoveLease(m) /\ RecordedFirst(m)

\* A packet of m in hand, and its lease, are of its segment.
AtHome(m, h) ==
  /\ \A s \in Segments : srv[s].pc # "idle" /\ srv[s].mac = m => s = h
  /\ lease[m] # None => lease[m].seg = h

\* The last ACK of m is on record, or about to be; or a later one went unheard.
Backed(m, h) ==
  grant[m] # None /\ ~grant[m].unheard =>
    \/ /\ lease[m] # None /\ lease[m].ip = grant[m].ip
       /\ lease[m].exp >= grant[m].until \/ grant[m].lowered
    \/ Recording(h, m) /\ srv[h].ip = grant[m].ip

\* What is about to be recorded is what the client was told last, unless that
\* went unheard: nobody else told it anything.
Owes(m, h) ==
  Recording(h, m) /\ grant[m] # None /\ ~grant[m].unheard =>
    /\ grant[m].ip = srv[h].ip
    /\ srv[h].pc = "upsert" => srv[h].exp >= grant[m].until \/ grant[m].lowered

\* No promise lasts longer than one of now would, unless the time was lowered.
Timely(m) ==
  grant[m] # None => grant[m].lowered \/ grant[m].until <= now + leaseSecs

\* Inductive, with TypeInv.
PromiseInv(m, h) == AtHome(m, h) /\ Backed(m, h) /\ Owes(m, h) /\ Timely(m)

\* The promise to m ends, or goes on; that the lease time is lowered is noted.
GoesOn(m) ==
  \/ grant'[m] = None
  \/ /\ grant[m] # None
     /\ grant'[m].ip = grant[m].ip /\ grant'[m].until = grant[m].until
     /\ grant'[m].unheard = grant[m].unheard
     /\ grant[m].lowered => grant'[m].lowered
     /\ grant'[m].lowered \/ leaseSecs <= leaseSecs'

\* The server of s goes on, or waits again, and has no ACK to m to record.
Quiet(m, h, s) ==
  \/ srv'[s] = srv[s]
  \/ /\ ~Recording(s, m) /\ ~Recording(s, m)'
     /\ srv'[s].pc # "idle" /\ srv'[s].mac = m => s = h

\* Steps that make no promise to m and no record of it keep the invariant: its
\* promise may end, Settings may change, time may pass.
LEMMA QuietKeeps ==
  ASSUME TypeInv, TypeInv', NEW m \in Macs, NEW h \in Segments, PromiseInv(m, h),
         \A s \in Segments : Quiet(m, h, s), GoesOn(m),
         lease'[m] = lease[m], now' \in {now, now + 1}
  PROVE  PromiseInv(m, h)'
<1>1. AtHome(m, h)'
  BY DEF PromiseInv, AtHome, Quiet
<1>2. Backed(m, h)'
  <2>1. Backed(m, h) /\ Quiet(m, h, h)
    BY DEF PromiseInv
  <2> QED
    BY <2>1 DEF Backed, Quiet, GoesOn, Recording
<1>3. Owes(m, h)'
  <2>1. Owes(m, h) /\ Quiet(m, h, h)
    BY DEF PromiseInv
  <2> QED
    BY <2>1 DEF Owes, Quiet, GoesOn, Recording
<1>4. Timely(m)'
  <2>1. /\ now \in Nat /\ now' \in Nat /\ leaseSecs \in Nat /\ leaseSecs' \in Nat
        /\ grant[m] # None => grant[m].until \in Nat
    BY DhcpAssumption DEF TypeInv, TypeOK, Promises
  <2>2. Timely(m)
    BY DEF PromiseInv
  <2> QED
    BY <2>1, <2>2 DEF Timely, GoesOn
<1> QED
  BY <1>1, <1>2, <1>3, <1>4 DEF PromiseInv

\* A promise that is as it was, or has ended, goes on.
LEMMA SameGoesOn ==
  ASSUME TypeInv, NEW m \in Macs, grant'[m] \in {grant[m], None}, leaseSecs' = leaseSecs
  PROVE  GoesOn(m)
<1>1. leaseSecs \in Nat
  BY DhcpAssumption DEF TypeInv, TypeOK
<1> QED
  BY <1>1 DEF GoesOn

\* An allocation step moves one server on with the packet it has in hand.
LEMMA AllocateMoves ==
  ASSUME TypeInv, NEW s \in Segments, Allocate(s)
  PROVE  /\ \A t \in Segments : t # s => srv'[t] = srv[t]
         /\ srv'[s].mac = srv[s].mac
         /\ srv'[s].pc \notin {"idle", "send", "record", "upsert"}
         /\ srv[s].pc \notin {"idle", "got", "send", "record", "upsert"}
         /\ UNCHANGED <<config, lease, declined, now, grant, counts>>
<1>1. srv \in [Segments -> Locals]
  BY DEF TypeInv, TypeOK
<1>2. CASE CheckReservation(s)
  BY ReturnMoves, GotoMoves, <1>1, <1>2 DEF CheckReservation, Settle, At, Locals
<1>3. CASE CheckLease(s)
  BY ReturnMoves, GotoMoves, <1>1, <1>3 DEF CheckLease, Settle, At, Locals
<1>4. CASE ReadSegment(s)
  <2>1. CASE seg[s] = None
    BY ReturnMoves, <1>4, <2>1 DEF ReadSegment, Fail, At
  <2>2. CASE seg[s] # None
    BY <1>1, <1>4, <2>2 DEF ReadSegment, At, Locals
  <2> QED
    BY <2>1, <2>2
<1>5. CASE CheckRequested(s)
  BY ReturnMoves, GotoMoves, <1>1, <1>5 DEF CheckRequested, At, Locals
<1>6. CASE TryRequested(s)
  BY ReturnMoves, GotoMoves, <1>1, <1>6 DEF TryRequested, Settle, At, Locals
<1>7. CASE ReadPool(s)
  <2>1. CASE seg[s] = None
    BY ReturnMoves, <1>7, <2>1 DEF ReadPool, Fail, At
  <2>2. CASE seg[s] # None
    BY <1>1, <1>7, <2>2 DEF ReadPool, At, Locals
  <2> QED
    BY <2>1, <2>2
<1>8. CASE Scan(s)
  BY ReturnMoves, GotoMoves, <1>1, <1>8 DEF Scan, Settle, Fail, At, Locals
<1> QED
  BY <1>2, <1>3, <1>4, <1>5, <1>6, <1>7, <1>8 DEF Allocate

\* An ACK to m goes out, and is heard or not: it is about to be recorded.
LEMMA SendPromise ==
  ASSUME TypeInv, NEW m \in Macs, NEW h \in Segments, PromiseInv(m, h),
         SendACK(h), srv[h].mac = m
  PROVE  PromiseInv(m, h)'
<1> DEFINE promise == [ip |-> srv[h].ip, until |-> now + srv[h].secs,
                       unheard |-> FALSE, lowered |-> leaseSecs < srv[h].secs]
<1>1. /\ srv'[h].pc = "record" /\ srv'[h].mac = m /\ srv'[h].ip = srv[h].ip
      /\ srv[h].pc = "send" /\ srv[h].secs \in Nat
      /\ \A s \in Segments : s # h => srv'[s] = srv[s]
  BY AnswerMoves DEF SendACK, At, TypeInv, Ready
<1>2. /\ lease' = lease /\ now' = now /\ leaseSecs' = leaseSecs
      /\ now \in Nat /\ leaseSecs \in Nat /\ grant \in [Macs -> Promises \union {None}]
  BY DhcpAssumption DEF SendACK, config, TypeInv, TypeOK
<1>3. AtHome(m, h)'
  BY <1>1, <1>2 DEF PromiseInv, AtHome
<1>4. Backed(m, h) /\ ~Recording(h, m) /\ Timely(m)
  BY <1>1 DEF PromiseInv, Recording
<1>5. Recording(h, m)' /\ srv'[h].pc # "upsert"
  BY <1>1 DEF Recording
<1>6. CASE grant' = Promised(h, m)
  <2>1. grant'[m] = IF srv[h].secs = 0 THEN None ELSE promise
    BY <1>2, <1>6 DEF Promised
  <2>2. /\ grant'[m] # None => grant'[m].ip = srv'[h].ip
        /\ Timely(m)'
    <3>1. CASE srv[h].secs = 0
      BY <2>1, <3>1 DEF Timely
    <3>2. CASE srv[h].secs # 0
      <4>1. /\ grant'[m].ip = srv[h].ip /\ grant'[m].until = now + srv[h].secs
            /\ leaseSecs < srv[h].secs => grant'[m].lowered
        <5>1. grant'[m] = promise
          BY <2>1, <3>2
        <5>2. /\ promise.ip = srv[h].ip /\ promise.until = now + srv[h].secs
              /\ promise.lowered = (leaseSecs < srv[h].secs)
          OBVIOUS
        <5> HIDE DEF promise
        <5> QED
          BY <5>1, <5>2
      <4>2. leaseSecs < srv[h].secs \/ now + srv[h].secs <= now + leaseSecs
        BY <1>1, <1>2
      <4> QED
        BY <1>1, <1>2, <4>1, <4>2 DEF Timely
    <3> QED
      BY <3>1, <3>2
  <2> QED
    BY <1>3, <1>5, <2>2 DEF PromiseInv, Backed, Owes
<1>7. CASE grant' = Unheard(h, m)
  <2>1. grant'[m] = IF grant[m] = None \/ grant[m].ip = srv[h].ip THEN grant[m]
                    ELSE [grant[m] EXCEPT !.unheard = TRUE]
    BY <1>2, <1>7 DEF Unheard
  <2>2. /\ grant'[m] # None /\ ~grant'[m].unheard => grant'[m].ip = srv'[h].ip
        /\ Timely(m)'
    BY <1>1, <1>2, <1>4, <2>1 DEF Timely, Promises
  <2> QED
    BY <1>3, <1>5, <2>2 DEF PromiseInv, Backed, Owes
<1> QED
  BY <1>6, <1>7 DEF SendACK

\* The expiry that is recorded is not before the end of the promise.
LEMMA ExpiryPromise ==
  ASSUME TypeInv, NEW m \in Macs, NEW h \in Segments, PromiseInv(m, h),
         ReadExpiry(h), srv[h].mac = m
  PROVE  PromiseInv(m, h)'
<1>1. /\ srv[h].pc = "record" /\ srv'[h].pc = "upsert" /\ srv'[h].mac = m
      /\ srv'[h].ip = srv[h].ip /\ srv'[h].exp = now + leaseSecs
      /\ \A s \in Segments : s # h => srv'[s] = srv[s]
  BY AnswerMoves
<1>2. /\ lease' = lease /\ now' = now /\ leaseSecs' = leaseSecs /\ grant' = grant
      /\ now \in Nat /\ leaseSecs \in Nat
      /\ grant[m] # None => grant[m].until \in Nat
  BY DhcpAssumption DEF ReadExpiry, config, TypeInv, TypeOK, Promises
<1>3. Recording(h, m) /\ Recording(h, m)'
  BY <1>1 DEF Recording
<1>4. AtHome(m, h)' /\ Backed(m, h)' /\ Timely(m)'
  BY <1>1, <1>2, <1>3 DEF PromiseInv, AtHome, Backed, Timely
<1>5. Owes(m, h)'
  BY <1>1, <1>2, <1>3 DEF PromiseInv, Owes, Timely
<1> QED
  BY <1>4, <1>5 DEF PromiseInv

\* The record of m: at home, with the address of the last ACK and no shorter.
LEMMA RecordPromise ==
  ASSUME TypeInv, NEW m \in Macs, NEW h \in Segments, PromiseInv(m, h),
         Record(h), srv[h].mac = m
  PROVE  PromiseInv(m, h)'
<1> DEFINE l == NewLease(h, m)
<1>1. srv[h].pc = "upsert" /\ srv[h].ip \in Addrs /\ srv[h].exp \in Nat
  BY DEF Record, At, TypeInv, Ready, SettledAt
<1>2. \A s \in Segments : srv'[s] = IF s = h THEN Idle ELSE srv[s]
  BY DEF Record, Finish, TypeInv, TypeOK
<1>3. /\ lease'[m] = l /\ grant' = grant /\ now' = now /\ leaseSecs' = leaseSecs
  BY DEF Record, config, TypeInv, TypeOK
<1>4. l.ip = srv[h].ip /\ l.exp = srv[h].exp /\ l.seg = h /\ l # None
  <2>1. l \in Lease
    BY <1>1 DEF NewLease, Lease
  <2> QED
    BY <2>1, DhcpAssumption DEF NewLease
<1>5. Recording(h, m) /\ ~Recording(h, m)'
  BY <1>1, <1>2 DEF Recording, Idle
<1>6. AtHome(m, h)'
  BY <1>2, <1>3, <1>4 DEF PromiseInv, AtHome, Idle
<1>7. Backed(m, h)'
  BY <1>1, <1>3, <1>4, <1>5 DEF PromiseInv, Owes, Backed
<1>8. Owes(m, h)' /\ Timely(m)'
  BY <1>3, <1>5 DEF PromiseInv, Owes, Timely
<1> QED
  BY <1>6, <1>7, <1>8 DEF PromiseInv

\* All steps of a server, for m or for somebody else.
LEMMA ServerPromise ==
  ASSUME TypeInv, TypeInv', NEW m \in Macs, NEW h \in Segments, PromiseInv(m, h),
         NEW s \in Segments, Allocate(s) \/ Answer(s)
  PROVE  PromiseInv(m, h)'
<1>1. srv[s].pc # "idle" /\ srv[s].mac = m => s = h
  BY DEF PromiseInv, AtHome
<1>2. ASSUME Quiet(m, h, s), \A t \in Segments : t # s => srv'[t] = srv[t],
             grant'[m] \in {grant[m], None}, lease'[m] = lease[m], UNCHANGED <<config, now>>
      PROVE  PromiseInv(m, h)'
  <2>1. \A t \in Segments : Quiet(m, h, t)
    BY <1>2 DEF Quiet
  <2>2. GoesOn(m)
    BY <1>2, SameGoesOn DEF config
  <2> QED
    BY <1>2, <2>1, <2>2, QuietKeeps
<1>3. CASE Allocate(s)
  <2>1. Quiet(m, h, s)
    BY <1>1, <1>3, AllocateMoves DEF Quiet, Recording
  <2> QED
    BY <1>2, <1>3, <2>1, AllocateMoves
<1>4. ASSUME Finish(s), ~Recording(s, m)
      PROVE  Quiet(m, h, s) /\ \A t \in Segments : t # s => srv'[t] = srv[t]
  BY <1>4 DEF Finish, Idle, Quiet, Recording, TypeInv, TypeOK
<1>5. CASE Drop(s) \/ SendOffer(s)
  BY <1>2, <1>4, <1>5 DEF Drop, SendOffer, At, Recording
<1>6. CASE SendNAK(s)
  <2>1. grant'[m] \in {grant[m], None}
    BY <1>6 DEF SendNAK, TypeInv, TypeOK
  <2> QED
    BY <1>2, <1>4, <1>6, <2>1 DEF SendNAK, At, Recording
<1>7. CASE Build(s)
  <2>1. Quiet(m, h, s)
    BY <1>1, <1>7, AnswerMoves DEF Quiet, Recording
  <2> QED
    BY <1>2, <1>7, <2>1, AnswerMoves DEF Build
<1>8. CASE (SendACK(s) \/ ReadExpiry(s)) /\ srv[s].mac # m
  <2>1. Quiet(m, h, s)
    BY <1>8, AnswerMoves DEF Quiet, Recording
  <2>2. grant'[m] = grant[m]
    BY <1>8 DEF SendACK, ReadExpiry, Promised, Unheard, TypeInv, TypeOK
  <2> QED
    BY <1>2, <1>8, <2>1, <2>2, AnswerMoves
<1>9. CASE SendACK(s) /\ srv[s].mac = m
  BY <1>1, <1>9, SendPromise DEF SendACK, At
<1>10. CASE ReadExpiry(s) /\ srv[s].mac = m
  BY <1>1, <1>10, ExpiryPromise DEF ReadExpiry, At
<1>11. CASE Record(s) /\ srv[s].mac # m
  <2>1. lease'[m] = lease[m]
    BY <1>11 DEF Record, TypeInv, TypeOK
  <2> QED
    BY <1>2, <1>4, <1>11, <2>1 DEF Record, Recording
<1>12. CASE Record(s) /\ srv[s].mac = m
  BY <1>1, <1>12, RecordPromise DEF Record, At
<1> QED
  BY <1>3, <1>5, <1>6, <1>7, <1>8, <1>9, <1>10, <1>11, <1>12 DEF Answer

\* Packets that come in, Settings, the clock, restarts.
LEMMA OtherPromise ==
  ASSUME TypeInv, TypeInv', NEW m \in Macs, NEW h \in Segments, PromiseInv(m, h), Steady(m, h),
         \/ \E s \in Segments, p \in Packets : Accept(s, p) \/ Decline(s, p)
         \/ \E s \in Segments : RemoveLANSegment(s)
         \/ \E s \in Segments : \E d \in SegmentDefs[s] : UpdateLANSegment(s, d)
         \/ \E n \in Macs, a \in Reservable, s \in Segments : AddReservation(n, a, s)
         \/ \E n \in Macs : RemoveReservation(n) \/ RemoveLease(n)
         \/ \E t \in LeaseTimes : SetLeaseTime(t)
         \/ Tick \/ Restart
  PROVE  PromiseInv(m, h)'
<1>1. ASSUME srv' = srv, grant'[m] \in {grant[m], None}, leaseSecs' = leaseSecs,
             lease'[m] = lease[m], now' \in {now, now + 1}
      PROVE  PromiseInv(m, h)'
  <2>1. \A s \in Segments : Quiet(m, h, s)
    BY <1>1 DEF Quiet
  <2> QED
    BY <1>1, <2>1, SameGoesOn, QuietKeeps
<1>2. ASSUME NEW s \in Segments, NEW p \in Packets, Accept(s, p) PROVE PromiseInv(m, h)'
  <2>1. p.mac = m => s = h
    BY <1>2 DEF Steady, HeardAt
  <2>2. /\ \A t \in Segments : t # s => srv'[t] = srv[t]
        /\ srv[s].pc = "idle" /\ srv'[s].pc = "resv" /\ srv'[s].mac = p.mac
    BY <1>2 DEF Accept, At, Idle, TypeInv, TypeOK
  <2>3. \A t \in Segments : Quiet(m, h, t)
    BY <2>1, <2>2 DEF Quiet, Recording
  <2> QED
    BY <1>2, <2>3, SameGoesOn, QuietKeeps DEF Accept, config
<1>3. ASSUME NEW s \in Segments, NEW p \in Packets, Decline(s, p) PROVE PromiseInv(m, h)'
  <2>1. grant'[m] \in {grant[m], None}
    BY <1>3 DEF Decline, TypeInv, TypeOK
  <2> QED
    BY <1>1, <1>3, <2>1 DEF Decline, config
<1>4. ASSUME NEW s \in Segments, RemoveLANSegment(s) PROVE PromiseInv(m, h)'
  BY <1>1, <1>4 DEF RemoveLANSegment, Edit, OnlySettings, TypeInv, TypeOK
<1>5. ASSUME NEW s \in Segments, NEW d \in SegmentDefs[s], UpdateLANSegment(s, d)
      PROVE  PromiseInv(m, h)'
  BY <1>1, <1>5 DEF UpdateLANSegment, Edit, OnlySettings, TypeInv, TypeOK
<1>6. ASSUME NEW n \in Macs, NEW a \in Reservable, NEW s \in Segments,
             AddReservation(n, a, s)
      PROVE  PromiseInv(m, h)'
  BY <1>1, <1>6 DEF AddReservation, Edit, OnlySettings
<1>7. ASSUME NEW n \in Macs, RemoveReservation(n) PROVE PromiseInv(m, h)'
  BY <1>1, <1>7 DEF RemoveReservation, OnlySettings
<1>8. ASSUME NEW n \in Macs, RemoveLease(n) PROVE PromiseInv(m, h)'
  <2>1. lease'[m] = lease[m]
    BY <1>8 DEF Steady, RemoveLease, TypeInv, TypeOK
  <2> QED
    BY <1>1, <1>8, <2>1 DEF RemoveLease, config
<1>9. CASE Tick
  <2>1. grant'[m] \in {grant[m], None}
    BY <1>9 DEF Tick
  <2> QED
    BY <1>1, <1>9, <2>1 DEF Tick, config
<1>10. CASE Restart
  <2>1. \A s \in Segments : srv'[s] = Idle /\ ~Recording(s, m)
    BY <1>10 DEF Restart, Steady, RecordedFirst
  <2>2. \A s \in Segments : Quiet(m, h, s)
    BY <2>1 DEF Quiet, Idle, Recording
  <2> QED
    BY <1>10, <2>2, SameGoesOn, QuietKeeps DEF Restart, config
<1>11. ASSUME NEW t \in LeaseTimes, SetLeaseTime(t) PROVE PromiseInv(m, h)'
  <2>1. \A s \in Segments : Quiet(m, h, s)
    BY <1>11 DEF SetLeaseTime, Edit, OnlySettings, Quiet
  <2>2. leaseSecs \in Nat /\ leaseSecs' = t /\ t \in Nat
    BY <1>11, DhcpAssumption DEF SetLeaseTime, TypeInv, TypeOK
  <2>3. grant'[m] = IF grant[m] # None /\ t < leaseSecs
                      THEN [grant[m] EXCEPT !.lowered = TRUE] ELSE grant[m]
    BY <1>11 DEF SetLeaseTime
  <2>4. grant[m] # None => grant[m] \in Promises
    BY DEF TypeInv, TypeOK
  <2>5. GoesOn(m)
    BY <2>2, <2>3, <2>4 DEF GoesOn, Promises
  <2> QED
    BY <1>11, <2>1, <2>5, QuietKeeps DEF SetLeaseTime, Edit, OnlySettings
<1> QED
  BY <1>2, <1>3, <1>4, <1>5, <1>6, <1>7, <1>8, <1>9, <1>10, <1>11

LEMMA InitPromise ==
  ASSUME NEW m \in Macs, NEW h \in Segments, Init PROVE PromiseInv(m, h)
BY DEF Init, Idle, PromiseInv, AtHome, Backed, Owes, Timely, Recording

\* Every step keeps the invariant.
LEMMA NextPromise ==
  ASSUME TypeInv, NEW m \in Macs, NEW h \in Segments, PromiseInv(m, h),
         [Next]_vars, [Steady(m, h)]_vars
  PROVE  PromiseInv(m, h)'
<1>1. CASE UNCHANGED vars
  BY <1>1 DEF vars, PromiseInv, AtHome, Backed, Owes, Timely, Recording
<1>2. CASE Next /\ Steady(m, h)
  BY <1>2, NextType, ServerPromise, OtherPromise DEF Next
<1> QED
  BY <1>1, <1>2

\* What AckRecorded says of one client.
OnRecordFor(m) ==
  grant[m] # None /\ now < grant[m].until /\ ~grant[m].unheard =>
    \/ /\ lease[m] # None /\ lease[m].ip = grant[m].ip
       /\ lease[m].exp >= grant[m].until \/ grant[m].lowered
    \/ \E s \in Segments : /\ srv[s].pc \in {"record", "upsert"}
                            /\ srv[s].mac = m /\ srv[s].ip = grant[m].ip

LEMMA PromiseOnRecord ==
  ASSUME NEW m \in Macs, NEW h \in Segments, PromiseInv(m, h) PROVE OnRecordFor(m)
BY DEF PromiseInv, Backed, Recording, OnRecordFor

\* What an ACK has promised a client is on record for as long (UpsertLease follows
\* send, server.go:338), if this client stays on its segment, nobody clears its
\* lease and no restart comes between the two: whatever segments other clients
\* are heard on, whatever is cleared of theirs and Settings change, and whichever
\* replies are lost.  But an ACK that the client does not hear, of another address
\* than promised, is recorded too (send's error is only logged, server.go:499),
\* and if the lease time has been lowered since the promise, only its address is
\* sure to be on record, not its end (LeaseSeconds is read at 469 and at 344).
THEOREM AckRecordedForOne ==
  ASSUME NEW m \in Macs, NEW h \in Segments
  PROVE  Spec /\ [][Steady(m, h)]_vars => []OnRecordFor(m)
<1>1. /\ TypeInv /\ PromiseInv(m, h) /\ [Next]_vars /\ [Steady(m, h)]_vars
      => TypeInv' /\ PromiseInv(m, h)'
  BY NextType, NextPromise
<1>2. TypeInv /\ PromiseInv(m, h) => OnRecordFor(m)
  BY PromiseOnRecord
<1>3. Init => TypeInv /\ PromiseInv(m, h)
  BY InitType, InitPromise
<1> QED
  BY <1>1, <1>2, <1>3, PTL DEF Spec

\* The same of all clients, each of which stays on a segment of its own.
THEOREM AcksRecorded ==
  ASSUME NEW home \in [Macs -> Segments]
  PROVE  Spec /\ [][\A m \in Macs : Steady(m, home[m])]_vars => []AckRecorded
<1> DEFINE Inv == TypeInv /\ \A m \in Macs : PromiseInv(m, home[m])
           AllSteady == \A m \in Macs : Steady(m, home[m])
<1>1. Inv => AckRecorded
  BY PromiseOnRecord DEF AckRecorded, OnRecordFor
<1>2. Init => Inv
  BY InitType, InitPromise
<1>3. Inv /\ [Next]_vars /\ [AllSteady]_vars => Inv'
  BY NextType, NextPromise
<1> QED
  BY <1>1, <1>2, <1>3, PTL DEF Spec

\* The address promised to m is reservable or of the pools of its segment.
Pooled(m, h) == grant[m] # None => grant[m].ip \in Reservable \/ grant[m].ip \in Pool(h)

\* Two clients that hear what they are told are not promised the same address.
Apart(m, n) ==
  grant[m] # None /\ grant[n] # None /\ ~grant[m].unheard /\ ~grant[n].unheard =>
    grant[m].ip # grant[n].ip \/ grant[m].ip \in Reservable

\* Inductive for two clients on the segments h and k, with TypeInv and UniqueInv.
ExclusiveInv(m, h, n, k) ==
  /\ PromiseInv(m, h) /\ Pooled(m, h)
  /\ PromiseInv(n, k) /\ Pooled(n, k)
  /\ Apart(m, n)

\* Only an ACK to it makes a promise to m.
LEMMA PromisesEnd ==
  ASSUME TypeInv, Next, NEW m \in Macs, \A s \in Segments : ~(SendACK(s) /\ srv[s].mac = m)
  PROVE  /\ grant'[m] # None => grant[m] # None /\ grant'[m].ip = grant[m].ip
         /\ grant'[m] # None => grant'[m].unheard = grant[m].unheard
<1>1. ASSUME grant'[m] \in {grant[m], None}
      PROVE  /\ grant'[m] # None => grant[m] # None /\ grant'[m].ip = grant[m].ip
             /\ grant'[m] # None => grant'[m].unheard = grant[m].unheard
  BY <1>1
<1>2. ASSUME NEW s \in Segments, Allocate(s) PROVE grant' = grant
  BY <1>2, AllocateMoves
<1>3. ASSUME NEW s \in Segments, Answer(s) PROVE grant'[m] \in {grant[m], None}
  BY <1>3 DEF Answer, Drop, SendNAK, Build, SendOffer, SendACK, Promised, Unheard,
              ReadExpiry, Record, TypeInv, TypeOK
<1>4. ASSUME NEW s \in Segments, NEW p \in Packets, Accept(s, p) \/ Decline(s, p)
      PROVE  grant'[m] \in {grant[m], None}
  BY <1>4 DEF Accept, Decline, TypeInv, TypeOK
<1>5. ASSUME \/ \E s \in Segments : RemoveLANSegment(s)
             \/ \E s \in Segments : \E d \in SegmentDefs[s] : UpdateLANSegment(s, d)
             \/ \E n \in Macs, a \in Reservable, s \in Segments : AddReservation(n, a, s)
             \/ \E n \in Macs : RemoveReservation(n) \/ RemoveLease(n)
             \/ Restart
      PROVE  grant' = grant
  BY <1>5 DEF RemoveLANSegment, UpdateLANSegment, AddReservation, RemoveReservation,
              RemoveLease, Restart
<1>6. CASE Tick
  BY <1>1, <1>6 DEF Tick
<1>7. ASSUME NEW t \in LeaseTimes, SetLeaseTime(t)
      PROVE  /\ grant'[m] # None => grant[m] # None /\ grant'[m].ip = grant[m].ip
             /\ grant'[m] # None => grant'[m].unheard = grant[m].unheard
  <2>1. grant'[m] = IF grant[m] # None /\ t < leaseSecs
                      THEN [grant[m] EXCEPT !.lowered = TRUE] ELSE grant[m]
    BY <1>7 DEF SetLeaseTime
  <2>2. grant[m] # None => grant[m] \in Promises
    BY DEF TypeInv, TypeOK
  <2> QED
    BY <2>1, <2>2 DEF Promises
<1> QED
  BY <1>1, <1>2, <1>3, <1>4, <1>5, <1>6, <1>7 DEF Next

\* The promise an ACK to m makes is not n's.  If n was promised the address, its
\* record would have kept this server from settling on it; if that record is still
\* to come, both clients are of one segment, whose server is busy with this ACK.
LEMMA SendExclusive ==
  ASSUME Separate, TypeInv, UniqueInv, NEW m \in Macs, NEW n \in Macs, m # n,
         NEW h \in Segments, NEW k \in Segments,
         AtHome(m, h), Pooled(m, h), PromiseInv(n, k), Pooled(n, k), Apart(m, n), Apart(n, m),
         NEW s \in Segments, SendACK(s), srv[s].mac = m
  PROVE  Pooled(m, h)' /\ Pooled(n, k)' /\ Apart(m, n)' /\ Apart(n, m)'
<1> DEFINE a == srv[s].ip
<1>1. srv[s].pc = "send" /\ s = h
  BY DEF SendACK, At, AtHome
<1>2. /\ grant'[n] = grant[n]
      /\ grant'[m] # None /\ ~grant'[m].unheard =>
           grant'[m].ip = a \/ grant'[m] = grant[m]
      /\ grant'[m] # None =>
           grant'[m].ip = a \/ (grant[m] # None /\ grant'[m].ip = grant[m].ip)
  <2>1. grant \in [Macs -> Promises \union {None}]
    BY DEF TypeInv, TypeOK
  <2>2. CASE grant' = Promised(s, m)
    BY <2>1, <2>2 DEF Promised
  <2>3. CASE grant' = Unheard(s, m)
    BY <2>1, <2>3 DEF Unheard, Promises
  <2> QED
    BY <2>2, <2>3 DEF SendACK
<1>3. a \in Reservable \/ (a \in Pool(h) /\ FreeFor(a, m))
  BY <1>1 DEF UniqueInv, StaysFree, SettledAt
<1>4. ASSUME grant[n] # None, ~grant[n].unheard, grant[n].ip = a, a \notin Reservable
      PROVE  FALSE
  <2>1. a \in Pool(k) /\ a \in Pool(h)
    BY <1>3, <1>4 DEF Pooled
  <2>2. k = h
    BY <2>1 DEF Separate
  <2>3. lease[n] = None \/ lease[n].ip # a
    BY <1>3, <1>4 DEF FreeFor
  <2> QED
    BY <1>1, <1>4, <2>2, <2>3 DEF PromiseInv, Backed, Recording
<1>5. Pooled(m, h)' /\ Pooled(n, k)'
  BY <1>2, <1>3 DEF Pooled, Pool
<1>6. Apart(m, n)' /\ Apart(n, m)'
  BY <1>2, <1>4 DEF Apart
<1> QED
  BY <1>5, <1>6

\* Every step keeps the two promises apart.
LEMMA NextExclusive ==
  ASSUME Separate, TypeInv, UniqueInv, NEW m \in Macs, NEW n \in Macs, m # n,
         NEW h \in Segments, NEW k \in Segments, ExclusiveInv(m, h, n, k),
         [Next]_vars, [Steady(m, h)]_vars, [Steady(n, k)]_vars
  PROVE  ExclusiveInv(m, h, n, k)'
<1>1. PromiseInv(m, h)' /\ PromiseInv(n, k)'
  BY NextPromise DEF ExclusiveInv
<1>2. ASSUME /\ grant'[m] # None => grant[m] # None /\ grant'[m].ip = grant[m].ip
             /\ grant'[m] # None => grant'[m].unheard = grant[m].unheard
             /\ grant'[n] # None => grant[n] # None /\ grant'[n].ip = grant[n].ip
             /\ grant'[n] # None => grant'[n].unheard = grant[n].unheard
      PROVE  Pooled(m, h)' /\ Pooled(n, k)' /\ Apart(m, n)'
  BY <1>2 DEF ExclusiveInv, Pooled, Apart, Pool
<1>3. CASE UNCHANGED vars
  BY <1>1, <1>2, <1>3 DEF vars, ExclusiveInv
<1>4. CASE Next
  <2>1. Apart(m, n) /\ Apart(n, m)
    BY DEF ExclusiveInv, Apart
  <2>2. ASSUME NEW s \in Segments, SendACK(s), srv[s].mac \in {m, n}
        PROVE  Pooled(m, h)' /\ Pooled(n, k)' /\ Apart(m, n)'
    BY <2>1, <2>2, SendExclusive DEF ExclusiveInv, PromiseInv
  <2>3. CASE \A s \in Segments : ~(SendACK(s) /\ srv[s].mac \in {m, n})
    <3>1. /\ \A s \in Segments : ~(SendACK(s) /\ srv[s].mac = m)
          /\ \A s \in Segments : ~(SendACK(s) /\ srv[s].mac = n)
      BY <2>3
    <3>2. /\ grant'[m] # None => grant[m] # None /\ grant'[m].ip = grant[m].ip
          /\ grant'[m] # None => grant'[m].unheard = grant[m].unheard
      BY <1>4, <3>1, PromisesEnd
    <3>3. /\ grant'[n] # None => grant[n] # None /\ grant'[n].ip = grant[n].ip
          /\ grant'[n] # None => grant'[n].unheard = grant[n].unheard
      BY <1>4, <3>1, PromisesEnd
    <3> QED
      BY <1>1, <1>2, <3>2, <3>3 DEF ExclusiveInv
  <2> QED
    BY <1>1, <2>2, <2>3 DEF ExclusiveInv
<1> QED
  BY <1>3, <1>4

LEMMA InitExclusive ==
  ASSUME NEW m \in Macs, NEW n \in Macs, NEW h \in Segments, NEW k \in Segments, Init
  PROVE  ExclusiveInv(m, h, n, k)
<1>1. grant[m] = None /\ grant[n] = None
  BY DEF Init
<1> QED
  BY <1>1, InitPromise DEF ExclusiveInv, Pooled, Apart

\* The invariant of the records, step by step.
LEMMA NextUnique ==
  ASSUME Separate, BelowTop, TypeInv, UniqueInv, [Next]_vars PROVE UniqueInv'
BY AllocateUnique, AnswerUnique, OtherUnique DEF Next

\* Two clients that were offered one address (nothing records an OFFER) do not both
\* get an ACK for it while the first is valid, if pools are disjoint and do not
\* wrap, and these two keep to the conditions of AckRecordedForOne: however often
\* the lease time, the pools and the reservations change.  But a client that does
\* not hear an ACK of another address may share the one it was promised before.
THEOREM PromisesApart ==
  ASSUME Separate, BelowTop, NEW m \in Macs, NEW n \in Macs, m # n,
         NEW h \in Segments, NEW k \in Segments
  PROVE  Spec /\ [][Steady(m, h) /\ Steady(n, k)]_vars => []Apart(m, n)
<1> DEFINE Inv == TypeInv /\ UniqueInv /\ ExclusiveInv(m, h, n, k)
<1>1. Inv => Apart(m, n)
  BY DEF ExclusiveInv
<1>2. Init => Inv
  BY InitType, InitUnique, InitExclusive
<1>3. Inv /\ [Next]_vars /\ [Steady(m, h) /\ Steady(n, k)]_vars => Inv'
  BY NextType, NextUnique, NextExclusive
<1> QED
  BY <1>1, <1>2, <1>3, PTL DEF Spec

\* The same of all clients together, each on a segment of its own.
THEOREM PromisesExclusive ==
  ASSUME Separate, BelowTop, NEW home \in [Macs -> Segments]
  PROVE  Spec /\ [][\A m \in Macs : Steady(m, home[m])]_vars => []NoDoubleGrant
<1> DEFINE AllExclusive == \A m, n \in Macs : m # n => ExclusiveInv(m, home[m], n, home[n])
           Inv == TypeInv /\ UniqueInv /\ AllExclusive
           AllSteady == \A m \in Macs : Steady(m, home[m])
<1>1. Inv => NoDoubleGrant
  BY DEF ExclusiveInv, Apart, NoDoubleGrant
<1>2. Init => Inv
  BY InitType, InitUnique, InitExclusive
<1>3. Inv /\ [Next]_vars /\ [AllSteady]_vars => Inv'
  <2> SUFFICES ASSUME Inv, [Next]_vars, [AllSteady]_vars PROVE Inv'
    OBVIOUS
  <2>1. TypeInv' /\ UniqueInv'
    BY NextType, NextUnique
  <2>2. ASSUME NEW m \in Macs, NEW n \in Macs, m # n
        PROVE  ExclusiveInv(m, home[m], n, home[n])'
    <3>1. ExclusiveInv(m, home[m], n, home[n])
      BY <2>2
    <3>2. [Steady(m, home[m])]_vars /\ [Steady(n, home[n])]_vars
      BY <2>2
    <3> QED
      BY <2>2, <3>1, <3>2, NextExclusive
  <2> QED
    BY <2>1, <2>2
<1> QED
  BY <1>1, <1>2, <1>3, PTL DEF Spec
-----------------------------------------------------------------------------
(* Quarantines.                                                             *)

\* The address the server of h has settled on for m was not in quarantine, or it
\* is on record for m, or a reservation has decided.
Spared(m, h) ==
  srv[h].pc \in {"got", "send"} /\ srv[h].mac = m =>
    \/ srv[h].ip \in Reservable
    \/ ~IsDeclined(h, srv[h].ip)
    \/ lease[m] # None /\ lease[m].ip = srv[h].ip

\* Reservations are of reservable addresses.
Reserved == \A n \in Macs : resv[n] # None => resv[n].ip \in Reservable

\* Inductive, with TypeInv: a server that has settled takes no DECLINE, and only
\* it makes records for its client.
DeclineInv(m, h) == AtHome(m, h) /\ Reserved /\ Spared(m, h)

\* A quarantine does not begin with the time that passes.
LEMMA QuarantineEnds ==
  ASSUME TypeInv, Tick, NEW s \in Segments, NEW a \in Addrs, ~IsDeclined(s, a)
  PROVE  ~IsDeclined(s, a)'
<1>1. declined'[s][a] \in {0, declined[s][a]} /\ now' = now + 1
  BY DEF Tick
<1>2. now \in Nat /\ declined[s][a] \in Nat
  BY DEF TypeInv, TypeOK
<1> QED
  BY <1>1, <1>2 DEF IsDeclined

\* An allocation step settles on an address that is spared.
LEMMA AllocateSpared ==
  ASSUME TypeInv, NEW m \in Macs, NEW h \in Segments, Reserved, Allocate(h)
  PROVE  Spared(m, h)'
<1>1. UNCHANGED <<resv, lease, declined, now>> /\ srv'[h].mac = srv[h].mac
  BY AllocateMoves DEF config
<1>2. srv[h] \in Locals /\ Ready(srv[h]) /\ srv[h].mac \in Macs
  BY AllocateMoves DEF TypeInv, TypeOK, Ready, Allocate, At, CheckReservation, CheckLease,
     ReadSegment, CheckRequested, TryRequested, ReadPool, Scan
<1>3. ASSUME srv'[h].pc \notin {"got", "send"} PROVE Spared(m, h)'
  BY <1>3 DEF Spared
<1>4. ASSUME NEW a, Settle(h, a),
             \/ a \in Reservable \/ ~IsDeclined(h, a)
             \/ lease[srv[h].mac] # None /\ lease[srv[h].mac].ip = a
      PROVE  Spared(m, h)'
  <2>1. srv'[h].ip = a
    BY <1>4 DEF Settle, Returns, Idle, TypeInv, TypeOK, Locals
  <2> QED
    BY <1>1, <1>4, <2>1 DEF Spared, IsDeclined
<1>5. ASSUME NEW place \in {"lease", "segment", "free", "pool"}, Goto(h, place)
      PROVE  Spared(m, h)'
  BY <1>3, <1>5 DEF Goto, TypeInv, TypeOK, Locals
<1>13. ASSUME Fail(h) PROVE Spared(m, h)'
  BY <1>3, <1>13 DEF Fail, Returns, Idle, TypeInv, TypeOK, Locals
<1>6. CASE CheckReservation(h)
  BY <1>2, <1>4, <1>5, <1>6 DEF CheckReservation, Reserved
<1>7. CASE CheckLease(h)
  BY <1>4, <1>5, <1>7 DEF CheckLease, Keeps
<1>8. CASE ReadSegment(h)
  BY <1>3, <1>13, <1>8 DEF ReadSegment, TypeInv, TypeOK, Locals
<1>9. CASE CheckRequested(h)
  BY <1>5, <1>9 DEF CheckRequested
<1>10. CASE TryRequested(h)
  BY <1>4, <1>5, <1>10 DEF TryRequested, Available
<1>11. CASE ReadPool(h)
  BY <1>3, <1>13, <1>11 DEF ReadPool, TypeInv, TypeOK, Locals
<1>12. CASE Scan(h)
  <2>1. CASE srv' = [srv EXCEPT ![h] = [@ EXCEPT !.cur = Following(srv[h].cur)]]
    BY <1>3, <1>12, <2>1 DEF Scan, At, TypeInv, TypeOK, Locals
  <2> QED
    BY <1>4, <1>13, <1>12, <2>1 DEF Scan, Available
<1> QED
  BY <1>6, <1>7, <1>8, <1>9, <1>10, <1>11, <1>12 DEF Allocate

\* The record of m, and a packet of it in hand, stay with its segment.
LEMMA AtHomeKept ==
  ASSUME TypeInv, NEW m \in Macs, NEW h \in Segments, AtHome(m, h), HeardAt(m, h), Next
  PROVE  AtHome(m, h)'
<1>1. ASSUME \A s \in Segments :
               srv'[s].pc = "idle" \/ (srv[s].pc # "idle" /\ srv'[s].mac = srv[s].mac),
             lease'[m] \in {lease[m], None}
      PROVE  AtHome(m, h)'
  BY <1>1 DEF AtHome
<1>2. ASSUME NEW s \in Segments, Allocate(s) PROVE AtHome(m, h)'
  BY <1>1, <1>2, AllocateMoves DEF AtHome
<1>3. ASSUME NEW s \in Segments, Finish(s), lease' = lease PROVE AtHome(m, h)'
  BY <1>3 DEF Finish, Idle, AtHome, TypeInv, TypeOK
<1>4. ASSUME NEW s \in Segments, Build(s) \/ SendACK(s) \/ ReadExpiry(s) PROVE AtHome(m, h)'
  BY <1>1, <1>4, AnswerMoves DEF SettledAt
<1>5. ASSUME NEW s \in Segments, Record(s) PROVE AtHome(m, h)'
  <2>1. srv[s].mac \in Macs /\ (srv[s].mac = m => s = h)
    BY <1>5 DEF Record, At, TypeInv, Ready, AtHome
  <2>2. lease'[m] = IF m = srv[s].mac THEN NewLease(s, srv[s].mac) ELSE lease[m]
    BY <1>5, <2>1 DEF Record, TypeInv, TypeOK
  <2>3. \A t \in Segments : srv'[t] = IF t = s THEN Idle ELSE srv[t]
    BY <1>5 DEF Record, Finish, TypeInv, TypeOK
  <2> QED
    BY <2>1, <2>2, <2>3 DEF AtHome, Idle, NewLease
<1>6. ASSUME NEW s \in Segments, Drop(s) \/ SendNAK(s) \/ SendOffer(s) PROVE AtHome(m, h)'
  BY <1>3, <1>6 DEF Drop, SendNAK, SendOffer
<1>7. ASSUME NEW s \in Segments, NEW p \in Packets, Accept(s, p) PROVE AtHome(m, h)'
  <2>1. p.mac = m => s = h
    BY <1>7 DEF HeardAt
  <2>2. srv'[s].mac = p.mac /\ \A t \in Segments : t # s => srv'[t] = srv[t]
    BY <1>7 DEF Accept, Idle, TypeInv, TypeOK
  <2> QED
    BY <1>7, <2>1, <2>2 DEF Accept, AtHome
<1>8. ASSUME UNCHANGED <<srv, lease>> PROVE AtHome(m, h)'
  BY <1>8 DEF AtHome
<1>9. ASSUME \/ \E s \in Segments, p \in Packets : Decline(s, p)
             \/ \E s \in Segments : RemoveLANSegment(s)
             \/ \E s \in Segments : \E d \in SegmentDefs[s] : UpdateLANSegment(s, d)
             \/ \E n \in Macs, a \in Reservable, s \in Segments : AddReservation(n, a, s)
             \/ \E n \in Macs : RemoveReservation(n)
             \/ \E t \in LeaseTimes : SetLeaseTime(t)
             \/ Tick
      PROVE  AtHome(m, h)'
  BY <1>8, <1>9 DEF Decline, RemoveLANSegment, UpdateLANSegment, AddReservation,
                    RemoveReservation, SetLeaseTime, Edit, OnlySettings, Tick
<1>10. ASSUME NEW n \in Macs, RemoveLease(n) PROVE AtHome(m, h)'
  BY <1>10 DEF RemoveLease, AtHome, TypeInv, TypeOK
<1>11. CASE Restart
  BY <1>11 DEF Restart, Idle, AtHome
<1> QED
  BY <1>2, <1>4, <1>5, <1>6, <1>7, <1>9, <1>10, <1>11 DEF Next, Answer

\* An answer gives away what was spared, and a record of another client, by
\* whichever server, is not in the way.
LEMMA AnswerSpared ==
  ASSUME TypeInv, NEW m \in Macs, NEW h \in Segments, DeclineInv(m, h),
         NEW s \in Segments, Answer(s)
  PROVE  Spared(m, h)'
<1>1. UNCHANGED <<declined, now>> /\ Spared(m, h)
  BY DEF Answer, Drop, SendNAK, Build, SendOffer, SendACK, ReadExpiry, Record, DeclineInv
<1>2. CASE s = h
  <2>1. ASSUME srv'[h].pc \notin {"got", "send"} PROVE Spared(m, h)'
    BY <2>1 DEF Spared
  <2>2. CASE Build(h)
    <3>1. /\ srv[h].pc = "got" /\ srv'[h].mac = srv[h].mac /\ srv'[h].ip = srv[h].ip
          /\ lease' = lease
      BY <2>2, AnswerMoves
    <3> QED
      BY <1>1, <3>1 DEF Spared, IsDeclined
  <2>3. CASE SendACK(h) \/ ReadExpiry(h)
    BY <2>1, <2>3, AnswerMoves
  <2>4. CASE Drop(h) \/ SendNAK(h) \/ SendOffer(h) \/ Record(h)
    BY <2>1, <2>4 DEF Drop, SendNAK, SendOffer, Record, Finish, Idle, TypeInv, TypeOK
  <2> QED
    BY <1>2, <2>2, <2>3, <2>4 DEF Answer
<1>3. CASE s # h
  <2>1. srv'[h] = srv[h]
    BY <1>3, AnswerMoves
    DEF Answer, Drop, SendNAK, SendOffer, Record, Finish, TypeInv, TypeOK
  <2>2. lease'[m] = lease[m]
    <3>1. CASE Record(s)
      <4>1. srv[s].mac # m
        BY <1>3, <3>1 DEF Record, At, DeclineInv, AtHome
      <4> QED
        BY <3>1, <4>1 DEF Record, TypeInv, TypeOK
    <3>2. CASE ~Record(s)
      BY <3>2 DEF Answer, Drop, SendNAK, Build, SendOffer, SendACK, ReadExpiry
    <3> QED
      BY <3>1, <3>2
  <2> QED
    BY <1>1, <2>1, <2>2 DEF Spared, IsDeclined
<1> QED
  BY <1>2, <1>3

\* Packets that come in, Settings, the clock, restarts.
LEMMA OtherSpared ==
  ASSUME TypeInv, NEW m \in Macs, NEW h \in Segments, Spared(m, h), ~RemoveLease(m),
         \/ \E s \in Segments, p \in Packets : Accept(s, p) \/ Decline(s, p)
         \/ \E s \in Segments : RemoveLANSegment(s)
         \/ \E s \in Segments : \E d \in SegmentDefs[s] : UpdateLANSegment(s, d)
         \/ \E n \in Macs, a \in Reservable, s \in Segments : AddReservation(n, a, s)
         \/ \E n \in Macs : RemoveReservation(n) \/ RemoveLease(n)
         \/ \E t \in LeaseTimes : SetLeaseTime(t)
         \/ Tick \/ Restart
  PROVE  Spared(m, h)'
<1>1. ASSUME UNCHANGED <<srv, declined, now>>, lease'[m] = lease[m] PROVE Spared(m, h)'
  BY <1>1 DEF Spared, IsDeclined
<1>2. ASSUME NEW s \in Segments, NEW p \in Packets, Accept(s, p) PROVE Spared(m, h)'
  <2>1. srv'[s].pc = "resv" /\ (h # s => srv'[h] = srv[h])
    BY <1>2 DEF Accept, Idle, TypeInv, TypeOK
  <2> QED
    BY <1>2, <2>1 DEF Accept, Spared, IsDeclined
<1>3. ASSUME NEW s \in Segments, NEW p \in Packets, Decline(s, p) PROVE Spared(m, h)'
  <2>1. srv[s].pc = "idle" /\ srv' = srv /\ lease' = lease /\ now' = now
    BY <1>3 DEF Decline, At
  <2>2. h # s => declined'[h] = declined[h]
    BY <1>3 DEF Decline, TypeInv, TypeOK
  <2> QED
    BY <2>1, <2>2 DEF Spared, IsDeclined
<1>4. ASSUME \/ \E s \in Segments : RemoveLANSegment(s)
             \/ \E s \in Segments : \E d \in SegmentDefs[s] : UpdateLANSegment(s, d)
             \/ \E n \in Macs, a \in Reservable, s \in Segments : AddReservation(n, a, s)
             \/ \E n \in Macs : RemoveReservation(n)
             \/ \E t \in LeaseTimes : SetLeaseTime(t)
      PROVE  Spared(m, h)'
  BY <1>1, <1>4 DEF RemoveLANSegment, UpdateLANSegment, AddReservation, RemoveReservation,
                    SetLeaseTime, Edit, OnlySettings
<1>5. ASSUME NEW n \in Macs, RemoveLease(n) PROVE Spared(m, h)'
  BY <1>1, <1>5 DEF RemoveLease, TypeInv, TypeOK
<1>6. CASE Tick
  <2>1. srv' = srv /\ lease' = lease
    BY <1>6 DEF Tick
  <2>2. srv[h].pc \in {"got", "send"} => srv[h].ip \in Addrs
    BY DEF TypeInv, Ready, SettledAt
  <2> QED
    BY <1>6, <2>1, <2>2, QuarantineEnds DEF Spared
<1>7. CASE Restart
  BY <1>7 DEF Restart, Idle, Spared
<1> QED
  BY <1>2, <1>3, <1>4, <1>5, <1>6, <1>7

\* Reservations stay reservable.
LEMMA ReservedReservable == ASSUME TypeInv, Next, Reserved PROVE Reserved'
<1>1. ASSUME NEW m \in Macs, NEW a \in Reservable, NEW s \in Segments, AddReservation(m, a, s)
      PROVE  \A n \in Macs : resv'[n] = resv[n] \/ resv'[n].ip \in Reservable
  BY <1>1 DEF AddReservation, TypeInv, TypeOK
<1>2. ASSUME NEW m \in Macs, RemoveReservation(m)
      PROVE  \A n \in Macs : resv'[n] \in {resv[n], None}
  BY <1>2 DEF RemoveReservation, TypeInv, TypeOK
<1>3. ASSUME NEW s \in Segments, Allocate(s) \/ Answer(s) PROVE resv' = resv
  BY <1>3, AllocateMoves
  DEF Answer, Drop, SendNAK, Build, SendOffer, SendACK, ReadExpiry, Record, config
<1>4. ASSUME \/ \E s \in Segments, p \in Packets : Accept(s, p) \/ Decline(s, p)
             \/ \E s \in Segments : RemoveLANSegment(s)
             \/ \E s \in Segments : \E d \in SegmentDefs[s] : UpdateLANSegment(s, d)
             \/ \E m \in Macs : RemoveLease(m)
             \/ \E t \in LeaseTimes : SetLeaseTime(t)
             \/ Tick \/ Restart
      PROVE  resv' = resv
  BY <1>4 DEF Accept, Decline, RemoveLANSegment, UpdateLANSegment, RemoveLease, SetLeaseTime,
              Tick, Restart, config
<1> QED
  BY <1>1, <1>2, <1>3, <1>4 DEF Next, Reserved

LEMMA InitDecline ==
  ASSUME NEW m \in Macs, NEW h \in Segments, Init PROVE DeclineInv(m, h)
BY DEF Init, Idle, DeclineInv, AtHome, Reserved, Spared

\* Every step keeps the invariant.
LEMMA NextDecline ==
  ASSUME TypeInv, NEW m \in Macs, NEW h \in Segments, DeclineInv(m, h), [Next]_vars,
         [HeardAt(m, h) /\ ~RemoveLease(m)]_vars
  PROVE  DeclineInv(m, h)'
<1>1. CASE UNCHANGED vars
  BY <1>1 DEF vars, DeclineInv, AtHome, Reserved, Spared, IsDeclined
<1>2. CASE Next /\ HeardAt(m, h) /\ ~RemoveLease(m)
  <2>1. AtHome(m, h)' /\ Reserved'
    BY <1>2, AtHomeKept, ReservedReservable DEF DeclineInv
  <2>2. ASSUME NEW s \in Segments, Allocate(s) PROVE Spared(m, h)'
    <3>1. CASE s = h
      BY <2>2, <3>1, AllocateSpared DEF DeclineInv
    <3>2. CASE s # h
      BY <2>2, <3>2, AllocateMoves DEF DeclineInv, Spared, IsDeclined
    <3> QED
      BY <3>1, <3>2
  <2>3. Spared(m, h)
    BY DEF DeclineInv
  <2>4. Spared(m, h)'
    BY <1>2, <2>2, <2>3, AnswerSpared, OtherSpared DEF Next
  <2> QED
    BY <2>1, <2>4 DEF DeclineInv
<1> QED
  BY <1>1, <1>2

\* What DeclinedNotReassigned says of one client.
GivenUnlessDeclined(m) ==
  \A s \in Segments, a \in Addrs \ Reservable :
    Gives(s, m, a) /\ IsDeclined(s, a) => lease[m] # None /\ lease[m].ip = a

LEMMA SparedGiven ==
  ASSUME NEW m \in Macs, NEW h \in Segments, DeclineInv(m, h) PROVE GivenUnlessDeclined(m)
BY DEF DeclineInv, AtHome, Spared, Gives, At, GivenUnlessDeclined

\* While an address is in quarantine (markDeclined, server.go:246) a client is not
\* given it, by whatever way allocate came to it, unless it is on record for it, if
\* this client stays on its segment and nobody clears its lease.
THEOREM DeclinedKeptFromOne ==
  ASSUME NEW m \in Macs, NEW h \in Segments
  PROVE  Spec /\ [][HeardAt(m, h) /\ ~RemoveLease(m)]_vars => [][GivenUnlessDeclined(m)]_vars
<1>1. TypeInv /\ DeclineInv(m, h) => [GivenUnlessDeclined(m)]_vars
  BY SparedGiven
<1>2. /\ TypeInv /\ DeclineInv(m, h) /\ [Next]_vars /\ [HeardAt(m, h) /\ ~RemoveLease(m)]_vars
      => TypeInv' /\ DeclineInv(m, h)'
  BY NextType, NextDecline
<1>3. Init => TypeInv /\ DeclineInv(m, h)
  BY InitType, InitDecline
<1> QED
  BY <1>1, <1>2, <1>3, PTL DEF Spec

\* The same of all clients, each of which stays on a segment of its own.
THEOREM DeclinedKept ==
  ASSUME NEW home \in [Macs -> Segments]
  PROVE  /\ Spec
         /\ [][\A m \in Macs : HeardAt(m, home[m]) /\ ~RemoveLease(m)]_vars
         => DeclinedNotReassigned
<1> DEFINE Inv == TypeInv /\ \A m \in Macs : DeclineInv(m, home[m])
           AllStay == \A m \in Macs : HeardAt(m, home[m]) /\ ~RemoveLease(m)
           AllKept == \A s \in Segments, m \in Macs, a \in Addrs \ Reservable :
                        Gives(s, m, a) /\ IsDeclined(s, a) =>
                          lease[m] # None /\ lease[m].ip = a
<1>1. Inv => [AllKept]_vars
  BY SparedGiven DEF GivenUnlessDeclined
<1>2. Init => Inv
  BY InitType, InitDecline
<1>3. Inv /\ [Next]_vars /\ [AllStay]_vars => Inv'
  <2> SUFFICES ASSUME Inv, [Next]_vars, [AllStay]_vars PROVE Inv'
    OBVIOUS
  <2>1. ASSUME NEW m \in Macs PROVE DeclineInv(m, home[m])'
    BY NextDecline
  <2> QED
    BY <2>1, NextType
<1> QED
  BY <1>1, <1>2, <1>3, PTL DEF Spec, DeclinedNotReassigned
-----------------------------------------------------------------------------
(* Packets in hand.                                                         *)

\* A bound on the steps that the server with locals l still has to do: a scan
\* that starts at the lowest address looks at each once.
StepsLeft(l) ==
  CASE l.pc = "idle" -> 0
    [] l.pc = "upsert" -> 1
    [] l.pc = "record" -> 2
    [] l.pc = "send" -> 3
    [] l.pc \in {"got", "fail"} -> 4
    [] l.pc = "scan" -> TopAddr + 6 - l.cur
    [] l.pc = "pool" -> TopAddr + 7
    [] l.pc = "free" -> TopAddr + 8
    [] l.pc = "request" -> TopAddr + 9
    [] l.pc = "segment" -> TopAddr + 10
    [] l.pc = "lease" -> TopAddr + 11
    [] l.pc = "resv" -> TopAddr + 12

\* A step of the server of s leaves it fewer, and nobody else gives it more.
ComesNearer(s) ==
  /\ Allocate(s) \/ Answer(s) => StepsLeft(srv'[s]) < StepsLeft(srv[s])
  /\ ~At(s, "idle") /\ srv'[s] # srv[s] => StepsLeft(srv'[s]) < StepsLeft(srv[s])

\* A scan under way ends below the largest address.
ScansEnd == \A s \in Segments : At(s, "scan") => srv[s].hi < TopAddr

\* StepsLeft, place by place.
LEMMA StepsAt ==
  ASSUME NEW l
  PROVE  /\ l.pc = "idle" => StepsLeft(l) = 0
         /\ l.pc = "upsert" => StepsLeft(l) = 1
         /\ l.pc = "record" => StepsLeft(l) = 2
         /\ l.pc = "send" => StepsLeft(l) = 3
         /\ l.pc = "got" => StepsLeft(l) = 4
         /\ l.pc = "fail" => StepsLeft(l) = 4
         /\ l.pc = "scan" => StepsLeft(l) = TopAddr + 6 - l.cur
         /\ l.pc = "pool" => StepsLeft(l) = TopAddr + 7
         /\ l.pc = "free" => StepsLeft(l) = TopAddr + 8
         /\ l.pc = "request" => StepsLeft(l) = TopAddr + 9
         /\ l.pc = "segment" => StepsLeft(l) = TopAddr + 10
         /\ l.pc = "lease" => StepsLeft(l) = TopAddr + 11
         /\ l.pc = "resv" => StepsLeft(l) = TopAddr + 12
BY DEF StepsLeft

\* The steps left are a number, never more than the addresses and twelve.
LEMMA StepsBounded ==
  ASSUME NEW l \in Locals, Ready(l) PROVE StepsLeft(l) \in 0 .. TopAddr + 12
<1>1. TopAddr \in Nat /\ (l.pc = "scan" => l.cur \in 0 .. TopAddr)
  BY DhcpAssumption DEF Ready, Addrs
<1>2. l.pc \in {"idle", "resv", "lease", "segment", "request", "free", "pool", "scan",
                "fail", "got", "send", "record", "upsert"}
  BY DEF Locals
<1> QED
  BY <1>1, <1>2, StepsAt

\* What moves on to a later place has fewer steps left.
LEMMA LaterPlace ==
  ASSUME TypeInv, NEW s \in Segments, NEW l \in Locals, Ready(l),
         \/ srv[s].pc = "resv" /\ l.pc \in {"lease", "got"}
         \/ srv[s].pc = "lease" /\ l.pc \in {"segment", "got"}
         \/ srv[s].pc = "segment" /\ l.pc \in {"request", "fail"}
         \/ srv[s].pc = "request" /\ l.pc \in {"free", "pool"}
         \/ srv[s].pc = "free" /\ l.pc \in {"pool", "got"}
         \/ srv[s].pc = "pool" /\ l.pc \in {"scan", "fail"}
         \/ srv[s].pc = "scan" /\ l.pc \in {"got", "fail"}
         \/ srv[s].pc = "got" /\ l.pc = "send"
         \/ srv[s].pc = "send" /\ l.pc = "record"
         \/ srv[s].pc = "record" /\ l.pc = "upsert"
         \/ srv[s].pc # "idle" /\ l.pc = "idle"
  PROVE  StepsLeft(l) < StepsLeft(srv[s])
<1>1. TopAddr \in Nat /\ (l.pc = "scan" => l.cur \in 0 .. TopAddr)
      /\ (srv[s].pc = "scan" => srv[s].cur \in 0 .. TopAddr)
      /\ srv[s] \in Locals
  BY DhcpAssumption DEF TypeInv, TypeOK, Ready, Addrs
<1>2. StepsLeft(srv[s]) \in Nat /\ (srv[s].pc # "idle" => StepsLeft(srv[s]) > 0)
  <2>1. srv[s].pc \in {"idle", "resv", "lease", "segment", "request", "free", "pool",
                       "scan", "fail", "got", "send", "record", "upsert"}
    BY <1>1 DEF Locals
  <2> QED
    BY <1>1, <2>1, StepsAt
<1>3. CASE l.pc = "idle"
  BY <1>2, <1>3, StepsAt
<1>4. CASE l.pc # "idle"
  BY <1>1, <1>4, StepsAt
<1> QED
  BY <1>3, <1>4
\* A step of allocate leaves fewer: a candidate that is taken is followed by the
\* next higher one.
LEMMA AllocateNearer ==
  ASSUME TypeInv, TypeInv', ScansEnd, NEW s \in Segments, Allocate(s)
  PROVE  StepsLeft(srv'[s]) < StepsLeft(srv[s])
<1>1. srv'[s] \in Locals /\ Ready(srv'[s]) /\ srv[s] \in Locals /\ Ready(srv[s])
  BY DEF TypeInv, TypeOK
<1>2. srv \in [Segments -> Locals]
  BY DEF TypeInv, TypeOK
<1>3. CASE CheckReservation(s)
  <2>1. srv[s].pc = "resv" /\ srv'[s].pc \in {"lease", "got"}
    BY ReturnMoves, GotoMoves, <1>2, <1>3 DEF CheckReservation, Settle, At
  <2> QED
    BY <1>1, <2>1, LaterPlace
<1>4. CASE CheckLease(s)
  <2>1. srv[s].pc = "lease" /\ srv'[s].pc \in {"segment", "got"}
    BY ReturnMoves, GotoMoves, <1>2, <1>4 DEF CheckLease, Settle, At
  <2> QED
    BY <1>1, <2>1, LaterPlace
<1>5. CASE ReadSegment(s)
  <2>1. srv[s].pc = "segment" /\ srv'[s].pc \in {"request", "fail"}
    BY ReturnMoves, GotoMoves, <1>2, <1>5 DEF ReadSegment, Fail, At, Locals
  <2> QED
    BY <1>1, <2>1, LaterPlace
<1>6. CASE CheckRequested(s)
  <2>1. srv[s].pc = "request" /\ srv'[s].pc \in {"free", "pool"}
    BY ReturnMoves, GotoMoves, <1>2, <1>6 DEF CheckRequested, At
  <2> QED
    BY <1>1, <2>1, LaterPlace
<1>7. CASE TryRequested(s)
  <2>1. srv[s].pc = "free" /\ srv'[s].pc \in {"pool", "got"}
    BY ReturnMoves, GotoMoves, <1>2, <1>7 DEF TryRequested, Settle, At
  <2> QED
    BY <1>1, <2>1, LaterPlace
<1>8. CASE ReadPool(s)
  <2>1. srv[s].pc = "pool" /\ srv'[s].pc \in {"scan", "fail"}
    BY ReturnMoves, GotoMoves, <1>2, <1>8 DEF ReadPool, Fail, At, Locals
  <2> QED
    BY <1>1, <2>1, LaterPlace
<1>9. CASE Scan(s)
  <2> DEFINE a == srv[s].cur
  <2>1. srv[s].pc = "scan" /\ a \in Addrs /\ a \in Nat /\ TopAddr \in Nat
    BY <1>1, <1>9, DhcpAssumption DEF Scan, At, Ready, Addrs
  <2>2. CASE Fail(s) \/ Settle(s, a)
    <3>1. srv'[s].pc \in {"got", "fail"}
      BY ReturnMoves, <2>2 DEF Settle, Fail
    <3> QED
      BY <1>1, <2>1, <3>1, LaterPlace
  <2>3. CASE /\ a <= srv[s].hi
             /\ srv' = [srv EXCEPT ![s] = [@ EXCEPT !.cur = Following(a)]]
    <3>1. srv[s].hi \in Nat /\ srv[s].hi < TopAddr
      BY <1>1, <2>1, DhcpAssumption DEF ScansEnd, At, Ready, Addrs
    <3>2. Following(a) = a + 1
      BY <2>1, <2>3, <3>1, NextAddr DEF Following
    <3>3. srv'[s].pc = "scan" /\ srv'[s].cur = a + 1
      BY <1>2, <2>1, <2>3, <3>2 DEF Locals
    <3> QED
      BY <2>1, <3>3, StepsAt
  <2> QED
    BY <1>9, <2>2, <2>3 DEF Scan
<1> QED
  BY <1>3, <1>4, <1>5, <1>6, <1>7, <1>8, <1>9 DEF Allocate

\* So does a step of the answer.
LEMMA AnswerNearer ==
  ASSUME TypeInv, TypeInv', NEW s \in Segments, Answer(s)
  PROVE  StepsLeft(srv'[s]) < StepsLeft(srv[s])
<1>1. /\ srv'[s] \in Locals /\ Ready(srv'[s])
      /\ srv \in [Segments -> Locals]
  BY DEF TypeInv, TypeOK
<1>2. ASSUME Finish(s), srv[s].pc # "idle" PROVE StepsLeft(srv'[s]) < StepsLeft(srv[s])
  <2>1. srv'[s].pc = "idle"
    BY <1>1, <1>2 DEF Finish, Idle
  <2> QED
    BY <1>1, <1>2, <2>1, LaterPlace
<1>3. CASE Drop(s) \/ SendNAK(s) \/ SendOffer(s) \/ Record(s)
  BY <1>2, <1>3 DEF Drop, SendNAK, SendOffer, Record, At
<1>4. CASE Build(s) \/ SendACK(s) \/ ReadExpiry(s)
  BY <1>1, <1>4, AnswerMoves, LaterPlace
<1> QED
  BY <1>3, <1>4 DEF Answer

\* The locals of a server that has a packet in hand are its own: only a restart,
\* which drops the packet, changes them too.
LEMMA OwnLocals ==
  ASSUME TypeInv, Next, NEW s \in Segments, srv[s].pc # "idle", srv'[s] # srv[s]
  PROVE  Allocate(s) \/ Answer(s) \/ srv'[s].pc = "idle"
<1>1. srv \in [Segments -> Locals]
  BY DEF TypeInv, TypeOK
<1>2. ASSUME NEW t \in Segments, Allocate(t) PROVE t = s
  BY <1>2, AllocateMoves
<1>3. ASSUME NEW t \in Segments, Answer(t) PROVE t = s
  BY <1>1, <1>3, AnswerMoves DEF Answer, Drop, SendNAK, SendOffer, Record, Finish
<1>4. ASSUME NEW t \in Segments, NEW p \in Packets, Accept(t, p) \/ Decline(t, p)
      PROVE  FALSE
  BY <1>1, <1>4 DEF Accept, Decline, At
<1>5. CASE Restart
  BY <1>5 DEF Restart, Idle
<1>6. CASE \/ \E t \in Segments : RemoveLANSegment(t)
           \/ \E t \in Segments : \E d \in SegmentDefs[t] : UpdateLANSegment(t, d)
           \/ \E m \in Macs, a \in Reservable, t \in Segments : AddReservation(m, a, t)
           \/ \E m \in Macs : RemoveReservation(m) \/ RemoveLease(m)
           \/ \E t \in LeaseTimes : SetLeaseTime(t)
           \/ Tick
  BY <1>6 DEF RemoveLANSegment, UpdateLANSegment, AddReservation, RemoveReservation,
              RemoveLease, SetLeaseTime, Tick, Edit, OnlySettings
<1> QED
  BY <1>2, <1>3, <1>4, <1>5, <1>6 DEF Next

\* A scan starts with the bound of a pool, and keeps it.
LEMMA NextScansEnd ==
  ASSUME BelowTop, TypeInv, TypeInv', ScansEnd, [Next]_vars PROVE ScansEnd'
<1> SUFFICES ASSUME NEW s \in Segments, srv'[s].pc = "scan" PROVE srv'[s].hi < TopAddr
  BY DEF ScansEnd, At
<1>1. srv \in [Segments -> Locals]
  BY DEF TypeInv, TypeOK
<1>2. CASE srv'[s] = srv[s]
  BY <1>2 DEF ScansEnd, At
<1>3. CASE srv'[s] # srv[s]
  <2>1. Next
    BY <1>3 DEF vars
  <2>2. CASE srv[s].pc = "idle"
    <3>1. \/ \E t \in Segments : Allocate(t) \/ Answer(t)
          \/ \E t \in Segments, p \in Packets : Accept(t, p)
          \/ Restart
      BY <1>3, <2>1
      DEF Next, Decline, RemoveLANSegment, UpdateLANSegment, AddReservation,
          RemoveReservation, RemoveLease, SetLeaseTime, Tick, Edit, OnlySettings
    <3>2. ASSUME NEW t \in Segments, Allocate(t) PROVE FALSE
      BY <1>3, <2>2, <3>2, AllocateMoves
    <3>3. ASSUME NEW t \in Segments, Answer(t) PROVE FALSE
      BY <1>1, <1>3, <2>2, <3>3, AnswerMoves
      DEF Answer, Drop, SendNAK, SendOffer, Record, Finish, At, SettledAt
    <3>4. ASSUME NEW t \in Segments, NEW p \in Packets, Accept(t, p) PROVE FALSE
      BY <1>1, <1>3, <3>4 DEF Accept, Idle
    <3>5. CASE Restart
      BY <3>5 DEF Restart, Idle
    <3> QED
      BY <3>1, <3>2, <3>3, <3>4, <3>5
  <2>3. CASE srv[s].pc # "idle"
    <3>1. Allocate(s) \/ Answer(s)
      BY <1>3, <2>1, <2>3, OwnLocals
    <3>2. CASE ReadPool(s)
      <4>1. seg[s] # None /\ srv'[s].hi = seg[s].hi
        BY <1>1, <3>2 DEF ReadPool, Fail, Returns, Idle, Locals
      <4>2. seg[s] \in SegmentDefs[s]
        BY <4>1 DEF TypeInv, TypeOK
      <4> QED
        BY <4>1, <4>2 DEF BelowTop
    <3>3. CASE Scan(s)
      <4>1. CASE Fail(s) \/ Settle(s, srv[s].cur)
        BY <4>1, ReturnMoves DEF Fail, Settle
      <4>2. CASE srv' = [srv EXCEPT ![s] = [@ EXCEPT !.cur = Following(srv[s].cur)]]
        BY <1>1, <3>3, <4>2 DEF Scan, At, ScansEnd, Locals
      <4> QED
        BY <3>3, <4>1, <4>2 DEF Scan
    <3>4. ASSUME \/ CheckReservation(s) \/ CheckLease(s) \/ ReadSegment(s)
                 \/ CheckRequested(s) \/ TryRequested(s)
          PROVE  FALSE
      <4>1. CASE CheckReservation(s) \/ CheckLease(s) \/ CheckRequested(s) \/ TryRequested(s)
        BY <4>1, ReturnMoves, GotoMoves
        DEF CheckReservation, CheckLease, CheckRequested, TryRequested, Settle
      <4>2. CASE ReadSegment(s)
        <5>1. CASE seg[s] = None
          BY <4>2, <5>1, ReturnMoves DEF ReadSegment, Fail
        <5>2. CASE seg[s] # None
          BY <1>1, <4>2, <5>2 DEF ReadSegment, Locals
        <5> QED
          BY <5>1, <5>2
      <4> QED
        BY <3>4, <4>1, <4>2
    <3>5. CASE Answer(s)
      BY <1>1, <3>5, AnswerMoves
      DEF Answer, Drop, SendNAK, SendOffer, Record, Finish, Idle, Locals
    <3> QED
      BY <3>1, <3>2, <3>3, <3>4, <3>5 DEF Allocate
  <2> QED
    BY <2>2, <2>3
<1> QED
  BY <1>2, <1>3

\* A server deals with a packet in at most as many steps as there are addresses,
\* and twelve more, whatever Settings, the other servers and the clock do meanwhile:
\* if no pool ends at the largest address, where nextIP wraps (server.go:529) and
\* a scan would start anew for ever.
THEOREM PacketsAdvance ==
  ASSUME BelowTop
  PROVE  Spec => /\ [](\A s \in Segments : StepsLeft(srv[s]) \in 0 .. TopAddr + 12)
                 /\ [][\A s \in Segments : ComesNearer(s)]_vars
<1>1. TypeInv => \A s \in Segments : StepsLeft(srv[s]) \in 0 .. TopAddr + 12
  BY StepsBounded DEF TypeInv, TypeOK
<1>2. Init => ScansEnd
  BY DEF Init, Idle, ScansEnd, At
<1>3. TypeInv /\ ScansEnd /\ [Next]_vars => TypeInv' /\ ScansEnd'
  BY NextType, NextScansEnd
<1>4. TypeInv /\ ScansEnd /\ [Next]_vars => [\A s \in Segments : ComesNearer(s)]_vars
  <2> SUFFICES ASSUME TypeInv, ScansEnd, Next, NEW s \in Segments PROVE ComesNearer(s)
    OBVIOUS
  <2>1. TypeInv'
    BY NextType
  <2>2. ASSUME Allocate(s) \/ Answer(s) PROVE StepsLeft(srv'[s]) < StepsLeft(srv[s])
    BY <2>1, <2>2, AllocateNearer, AnswerNearer
  <2>3. ASSUME srv[s].pc # "idle", srv'[s].pc = "idle"
        PROVE  StepsLeft(srv'[s]) < StepsLeft(srv[s])
    <3>1. srv'[s] \in Locals /\ Ready(srv'[s])
      BY <2>1 DEF TypeInv, TypeOK
    <3> QED
      BY <2>3, <3>1, LaterPlace
  <2> QED
    BY <2>2, <2>3, OwnLocals DEF ComesNearer, At
<1> QED
  BY <1>1, <1>2, <1>3, <1>4, InitType, PTL DEF Spec
=============================================================================
