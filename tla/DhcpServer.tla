----------------------------- MODULE DhcpServer -----------------------------
(***************************************************************************)
(* internal/dhcp/server.go: one server goroutine per LAN segment, each     *)
(* handling one packet at a time, over the configuration they share with   *)
(* the settings pages.  Every call into internal/config is a critical      *)
(* section of its own (one step here), so that another segment's server,   *)
(* an edit in Settings, the clock or a restart may come between any two.   *)
(* Two sections are one step where what comes between them could as well   *)
(* come before or after both (a segment removed just before the reply goes *)
(* out is as good as one removed before it is built).                      *)
(*                                                                         *)
(* Clients are not modelled: any packet of Packets may arrive at any time, *)
(* which includes lost, repeated and late ones.  Addresses are numbers,    *)
(* with the wrap-around of nextIP; the kernel's ARP table answers with any *)
(* of ArpViews.  Hostnames and the wire format are left out.               *)
(***************************************************************************)
EXTENDS Naturals, FiniteSets

CONSTANTS
  Macs,         \* clients
  Segments,     \* LAN segments, each with its server
  TopAddr,      \* the largest address; nextIP wraps from it to 0
  SegmentDefs,  \* segment |-> the definitions Settings may give it
  Reservable,   \* addresses that may be reserved in Settings
  Types,        \* the kinds of packets that arrive
  Wants,        \* the addresses they ask for (None: no option, no ciaddr)
  ServerIds,    \* server identifiers that packets carry (None: no option)
  ArpViews,     \* sets of addresses the ARP table may show as taken
  LeaseTimes,   \* the values Settings may give Config.LeaseSeconds
  Quarantine,   \* declineQuarantine
  None,         \* no address, no lease, no reservation, no segment
  MaxTime,      \* bound on the clock
  MaxEdits,     \* bound on edits in Settings
  MaxRemovals,  \* bound on leases removed by hand
  MaxRestarts   \* bound on restarts

Addrs == 0 .. TopAddr
SegDef == [gw : Addrs, lo : Addrs, hi : Addrs]
Lease == [ip : Addrs, exp : Nat, seg : Segments]

ASSUME DhcpAssumption ==
  /\ TopAddr \in Nat /\ None \notin Addrs
  /\ SegmentDefs \in [Segments -> SUBSET SegDef]
  /\ \A s \in Segments : \A d \in SegmentDefs[s] : d.lo <= d.hi
  /\ Reservable \subseteq Addrs
  /\ Types \subseteq {"DISCOVER", "REQUEST", "DECLINE"}
  /\ Wants \subseteq Addrs \union {None}
  /\ ServerIds \subseteq Addrs \union {None}
  /\ ArpViews \subseteq SUBSET Addrs
  /\ LeaseTimes \subseteq Nat /\ Quarantine \in Nat \ {0}
  /\ None \notin SegDef /\ None \notin Lease
  /\ MaxTime \in Nat /\ MaxEdits \in Nat /\ MaxRemovals \in Nat /\ MaxRestarts \in Nat

Packets == [type : Types, mac : Macs, want : Wants, sid : ServerIds]

VARIABLES
  seg,       \* Config.LANSegments: segment |-> definition, or None if removed
  resv,      \* Config.Reservations: MAC |-> [ip, seg], or None
  leaseSecs, \* Config.LeaseSeconds
  lease,     \* Config.Leases: MAC |-> [ip, exp, seg], or None
  srv,       \* segment |-> the locals of its server goroutine
  declined,  \* segment |-> address |-> end of its quarantine (0: none)
  now,       \* time.Now, in seconds
  grant,     \* history: MAC |-> what the last ACK it heard promised, or None
  edits, removals, restarts   \* history: for the bounds

config == <<seg, resv, leaseSecs>>
counts == <<edits, removals, restarts>>
vars == <<seg, resv, leaseSecs, lease, srv, declined, now, grant, edits,
          removals, restarts>>

\* A server goroutine that waits for a packet.
Idle == [pc |-> "idle", type |-> None, mac |-> None, want |-> None, ip |-> None,
         gw |-> None, taken |-> {}, cur |-> None, hi |-> None,
         secs |-> None, exp |-> None]

At(s, place) == srv[s].pc = place

\* The server of s goes on to `place`, its other locals unchanged.
Goto(s, place) == srv' = [srv EXCEPT ![s] = [@ EXCEPT !.pc = place]]
\* allocate returns, with an address or without; its own locals are gone.
Returns(s, place, a) ==
  srv' = [srv EXCEPT ![s] = [Idle EXCEPT !.pc = place, !.type = srv[s].type,
                               !.mac = srv[s].mac, !.want = srv[s].want, !.ip = a]]
Settle(s, a) == Returns(s, "got", a)
Fail(s) == Returns(s, "fail", None)
Finish(s) == srv' = [srv EXCEPT ![s] = Idle]
-----------------------------------------------------------------------------
(* Questions to the configuration.                                          *)

\* Mutated: only reservations count.
ReservedForOther(a, m) ==
  \E n \in Macs \ {m} : resv[n] # None /\ resv[n].ip = a

IPInUse(a, m) ==
  \E n \in Macs \ {m} :
    \/ resv[n] # None /\ resv[n].ip = a
    \/ lease[n] # None /\ lease[n].ip = a

\* a is in the post-DECLINE quarantine of the server of s.
IsDeclined(s, a) == declined[s][a] # 0 /\ now <= declined[s][a]

InPool(s, a) == seg[s] # None /\ seg[s].lo <= a /\ a <= seg[s].hi

NextIP(a) == (a + 1) % (TopAddr + 1)
-----------------------------------------------------------------------------
(* Packets in.                                                              *)

\* Another server is meant: the identifier is not this segment's gateway.
ForAnother(s, p) == p.sid # None /\ seg[s] # None /\ p.sid # seg[s].gw

\* A DECLINE: the address is quarantined; the goroutine is idle again at once.
Decline(s, p) ==
  /\ At(s, "idle") /\ p.type = "DECLINE" /\ p.want # None
  /\ ~ForAnother(s, p)
  /\ declined' = [declined EXCEPT ![s][p.want] = now + Quarantine]
  /\ grant' = [grant EXCEPT ![p.mac] =
                 IF @ # None /\ @.ip = p.want THEN None ELSE @]
  /\ UNCHANGED <<config, lease, srv, now, counts>>

\* A DISCOVER, or a REQUEST that is not for another server.
Accept(s, p) ==
  /\ At(s, "idle") /\ p.type \in {"DISCOVER", "REQUEST"}
  /\ p.type = "REQUEST" => ~ForAnother(s, p)
  /\ p.type = "DISCOVER" => p.sid = None
  /\ srv' = [srv EXCEPT ![s] = [Idle EXCEPT !.pc = "resv", !.type = p.type,
                                  !.mac = p.mac, !.want = p.want]]
  /\ UNCHANGED <<config, lease, declined, now, grant, counts>>
-----------------------------------------------------------------------------
(* allocate.                                                                *)

\* A reservation on this segment decides.
CheckReservation(s) ==
  /\ At(s, "resv")
  /\ LET r == resv[srv[s].mac] IN
       IF r # None /\ r.seg = s THEN Settle(s, r.ip) ELSE Goto(s, "lease")
  /\ UNCHANGED <<config, lease, declined, now, grant, counts>>

\* Mutated: an expired lease is not honoured.
ActiveOnly(s, l) == l # None /\ l.seg = s /\ now < l.exp

\* The lease l lets its client keep its address on segment s.
Keeps(s, l) ==
  /\ l # None /\ l.seg = s
  /\ now < l.exp \/ srv[s].want = None \/ srv[s].want = l.ip

CheckLease(s) ==
  /\ At(s, "lease")
  /\ LET l == lease[srv[s].mac] IN
       IF Keeps(s, l) THEN Settle(s, l.ip) ELSE Goto(s, "segment")
  /\ UNCHANGED <<config, lease, declined, now, grant, counts>>

\* The segment's definition and the ARP table are read.
ReadSegment(s) ==
  /\ At(s, "segment")
  /\ IF seg[s] = None
       THEN Fail(s)
       ELSE \E taken \in ArpViews :
              srv' = [srv EXCEPT ![s] = [@ EXCEPT !.pc = "request", !.gw = seg[s].gw,
                                                  !.taken = taken]]
  /\ UNCHANGED <<config, lease, declined, now, grant, counts>>

\* Is the requested address in the pool of now?
CheckRequested(s) ==
  /\ At(s, "request")
  /\ IF srv[s].want # None /\ InPool(s, srv[s].want)
       THEN Goto(s, "free") ELSE Goto(s, "pool")
  /\ UNCHANGED <<config, lease, declined, now, grant, counts>>

\* Mutated: quarantines are not looked at.
AvailableUndeclined(s, a) == ~IPInUse(a, srv[s].mac) /\ a \notin srv[s].taken

\* Nothing known forbids giving address a to the client of s.
Available(s, a) ==
  ~IPInUse(a, srv[s].mac) /\ a \notin srv[s].taken /\ ~IsDeclined(s, a)

\* Is it free?  The gateway's address is not asked about here.
TryRequested(s) ==
  /\ At(s, "free")
  /\ IF Available(s, srv[s].want) THEN Settle(s, srv[s].want) ELSE Goto(s, "pool")
  /\ UNCHANGED <<config, lease, declined, now, grant, counts>>

\* The pool's bounds are read and the scan starts.
ReadPool(s) ==
  /\ At(s, "pool")
  /\ IF seg[s] = None
       THEN Fail(s)
       ELSE srv' = [srv EXCEPT ![s] = [@ EXCEPT !.pc = "scan", !.cur = seg[s].lo,
                                                !.hi = seg[s].hi]]
  /\ UNCHANGED <<config, lease, declined, now, grant, counts>>

\* Mutated: a candidate that is taken is looked at again.
StayPut(a) == a

\* The candidate after a.
Following(a) == NextIP(a)

\* One round of the scan.
Scan(s) ==
  /\ At(s, "scan")
  /\ LET a == srv[s].cur IN
       \/ a > srv[s].hi /\ Fail(s)
       \/ /\ a <= srv[s].hi
          /\ IF a # srv[s].gw /\ Available(s, a)
               THEN Settle(s, a)
               ELSE srv' = [srv EXCEPT ![s] = [@ EXCEPT !.cur = Following(a)]]
  /\ UNCHANGED <<config, lease, declined, now, grant, counts>>
-----------------------------------------------------------------------------
(* The answer.                                                              *)

\* The client asked for one address and would get another.
Mismatch(s) ==
  srv[s].type = "REQUEST" /\ srv[s].want # None /\ srv[s].ip # srv[s].want

\* No address for a DISCOVER, or no segment to answer from: silence.
Drop(s) ==
  /\ \/ At(s, "fail") /\ (srv[s].type = "DISCOVER" \/ seg[s] = None)
     \/ At(s, "got") /\ seg[s] = None
  /\ Finish(s)
  /\ UNCHANGED <<config, lease, declined, now, grant, counts>>

\* The client drops what it had, or the NAK is lost as an ACK may be.
SendNAK(s) ==
  /\ \/ At(s, "fail") /\ srv[s].type = "REQUEST"
     \/ At(s, "got") /\ Mismatch(s)
  /\ seg[s] # None
  /\ grant' \in {grant, [grant EXCEPT ![srv[s].mac] = None]}
  /\ Finish(s)
  /\ UNCHANGED <<config, lease, declined, now, counts>>

\* buildOfferOrACK reads the segment and the lease time.
Build(s) ==
  /\ At(s, "got") /\ ~Mismatch(s)
  /\ seg[s] # None
  /\ srv' = [srv EXCEPT ![s] = [@ EXCEPT !.pc = "send", !.secs = leaseSecs]]
  /\ UNCHANGED <<config, lease, declined, now, grant, counts>>

SendOffer(s) ==
  /\ At(s, "send") /\ srv[s].type = "DISCOVER"
  /\ Finish(s)
  /\ UNCHANGED <<config, lease, declined, now, grant, counts>>

\* The client hears the ACK: the address is its own for the lease time in it,
\* which Settings may have lowered since.  No time at all is no promise.
Promised(s, m) ==
  [grant EXCEPT ![m] =
     IF srv[s].secs = 0 THEN None
     ELSE [ip |-> srv[s].ip, until |-> now + srv[s].secs,
           unheard |-> FALSE, lowered |-> leaseSecs < srv[s].secs]]

\* It does not, and goes on with what it was promised before.
Unheard(s, m) ==
  [grant EXCEPT ![m] = IF @ = None \/ @.ip = srv[s].ip THEN @
                       ELSE [@ EXCEPT !.unheard = TRUE]]

\* The ACK is lost when the segment, which send reads again, is gone, when the
\* write fails (logged, nothing more) or on the wire.  It is recorded all the same.
SendACK(s) ==
  /\ At(s, "send") /\ srv[s].type # "DISCOVER"
  /\ \/ seg[s] # None /\ grant' = Promised(s, srv[s].mac)
     \/ grant' = Unheard(s, srv[s].mac)
  /\ srv' = [srv EXCEPT ![s] = [@ EXCEPT !.pc = "record", !.secs = None]]
  /\ UNCHANGED <<config, lease, declined, now, counts>>

\* The clock and the lease time of now give the expiry.
ReadExpiry(s) ==
  /\ At(s, "record")
  /\ srv' = [srv EXCEPT ![s] = [@ EXCEPT !.pc = "upsert", !.exp = now + leaseSecs]]
  /\ UNCHANGED <<config, lease, declined, now, grant, counts>>

\* Mutated: the record of a known client is refreshed, its address is not.
RefreshedLease(s, m) ==
  [ip |-> IF lease[m] # None THEN lease[m].ip ELSE srv[s].ip,
   exp |-> srv[s].exp, seg |-> s]

\* Mutated: what the client asked for is recorded.
RequestedLease(s, m) == [ip |-> srv[s].want, exp |-> srv[s].exp, seg |-> s]

\* What UpsertLease records for m.
NewLease(s, m) == [ip |-> srv[s].ip, exp |-> srv[s].exp, seg |-> s]

\* UpsertLease, in memory; the file follows later.
Record(s) ==
  /\ At(s, "upsert")
  /\ lease' = [lease EXCEPT ![srv[s].mac] = NewLease(s, srv[s].mac)]
  /\ Finish(s)
  /\ UNCHANGED <<config, declined, now, grant, counts>>
-----------------------------------------------------------------------------
(* Settings.                                                                *)

OnlySettings == UNCHANGED <<lease, srv, declined, now, removals, restarts>>

Edit ==
  /\ edits < MaxEdits
  /\ edits' = edits + 1
  /\ OnlySettings

\* A segment that exists is changed; its server reads it anew.
UpdateLANSegment(s, d) ==
  /\ seg[s] # None
  /\ seg' = [seg EXCEPT ![s] = d]
  /\ UNCHANGED <<resv, leaseSecs, grant>>
  /\ Edit

RemoveLANSegment(s) ==
  /\ seg[s] # None
  /\ seg' = [seg EXCEPT ![s] = None]
  /\ UNCHANGED <<resv, leaseSecs, grant>>
  /\ Edit

\* A new reservation, or a new address for a reserved client.
AddReservation(m, a, s) ==
  /\ resv' = [resv EXCEPT ![m] = [ip |-> a, seg |-> s]]
  /\ UNCHANGED <<seg, leaseSecs, grant>>
  /\ Edit

\* As often as one was added: MaxEdits bounds this too.
RemoveReservation(m) ==
  /\ resv[m] # None
  /\ resv' = [resv EXCEPT ![m] = None]
  /\ UNCHANGED <<seg, leaseSecs, grant, edits>>
  /\ OnlySettings

\* UpdateGlobalNetwork.  What is promised stays promised, for as long as before.
SetLeaseTime(n) ==
  /\ leaseSecs' = n
  /\ grant' = [m \in Macs |->
                 IF grant[m] # None /\ n < leaseSecs
                   THEN [grant[m] EXCEPT !.lowered = TRUE] ELSE grant[m]]
  /\ UNCHANGED <<seg, resv>>
  /\ Edit

\* A lease is cleared from the records; its client may still be there.
RemoveLease(m) ==
  /\ lease[m] # None
  /\ removals < MaxRemovals
  /\ removals' = removals + 1
  /\ lease' = [lease EXCEPT ![m] = None]
  /\ UNCHANGED <<config, srv, declined, now, grant, edits, restarts>>
-----------------------------------------------------------------------------
(* The clock, and restarts.                                                 *)

\* A second passes; a quarantine that is over is as good as deleted, and so is
\* a promise that has run out.
Tick ==
  /\ now < MaxTime
  /\ now' = now + 1
  /\ declined' = [s \in Segments |-> [a \in Addrs |->
                    IF declined[s][a] < now + 1 THEN 0 ELSE declined[s][a]]]
  /\ grant' = [m \in Macs |->
                 IF grant[m] # None /\ grant[m].until <= now + 1 THEN None ELSE grant[m]]
  /\ UNCHANGED <<config, lease, srv, counts>>

\* The process is stopped and started again with the leases it had recorded
\* (ConfigStore says when they are all in the file); packets in hand and
\* quarantines are forgotten.
Restart ==
  /\ restarts < MaxRestarts
  /\ restarts' = restarts + 1
  /\ srv' = [s \in Segments |-> Idle]
  /\ declined' = [s \in Segments |-> [a \in Addrs |-> 0]]
  /\ UNCHANGED <<config, lease, now, grant, edits, removals>>
-----------------------------------------------------------------------------
Init ==
  /\ seg \in [Segments -> UNION {SegmentDefs[s] : s \in Segments}]
  /\ \A s \in Segments : seg[s] \in SegmentDefs[s]
  /\ resv = [m \in Macs |-> None]
  /\ leaseSecs \in LeaseTimes
  /\ lease = [m \in Macs |-> None]
  /\ srv = [s \in Segments |-> Idle]
  /\ declined = [s \in Segments |-> [a \in Addrs |-> 0]]
  /\ now = 1
  /\ grant = [m \in Macs |-> None]
  /\ edits = 0 /\ removals = 0 /\ restarts = 0

Allocate(s) ==
  \/ CheckReservation(s) \/ CheckLease(s) \/ ReadSegment(s)
  \/ CheckRequested(s) \/ TryRequested(s) \/ ReadPool(s) \/ Scan(s)

Answer(s) ==
  \/ Drop(s) \/ SendNAK(s) \/ Build(s) \/ SendOffer(s) \/ SendACK(s)
  \/ ReadExpiry(s) \/ Record(s)

Next ==
  \/ \E s \in Segments : Allocate(s) \/ Answer(s)
  \/ \E s \in Segments, p \in Packets : Accept(s, p) \/ Decline(s, p)
  \/ \E s \in Segments : RemoveLANSegment(s)
  \/ \E s \in Segments : \E d \in SegmentDefs[s] : UpdateLANSegment(s, d)
  \/ \E m \in Macs, a \in Reservable, s \in Segments : AddReservation(m, a, s)
  \/ \E m \in Macs : RemoveReservation(m) \/ RemoveLease(m)
  \/ \E n \in LeaseTimes : SetLeaseTime(n)
  \/ Tick \/ Restart

Spec == Init /\ [][Next]_vars

\* A server goroutine with a packet in hand goes on handling it.
FairSpec == Spec /\ \A s \in Segments : WF_vars(Allocate(s) \/ Answer(s))
-----------------------------------------------------------------------------
Reservation == [ip : Addrs, seg : Segments]
AddrOrNone == Addrs \union {None}
Locals ==
  [pc : {"idle", "resv", "lease", "segment", "request", "free", "pool", "scan",
         "fail", "got", "send", "record", "upsert"},
   type : {"DISCOVER", "REQUEST", None}, mac : Macs \union {None},
   want : AddrOrNone, ip : AddrOrNone, gw : AddrOrNone,
   taken : SUBSET Addrs, cur : AddrOrNone, hi : AddrOrNone,
   secs : Nat \union {None}, exp : Nat \union {None}]
Promises == [ip : Addrs, until : Nat, unheard : BOOLEAN, lowered : BOOLEAN]

(* Every variable keeps to its type.                                        *)
TypeOK ==
  /\ seg \in [Segments -> SegDef \union {None}]
  /\ \A s \in Segments : seg[s] \in SegmentDefs[s] \union {None}
  /\ resv \in [Macs -> Reservation \union {None}]
  /\ leaseSecs \in LeaseTimes
  /\ lease \in [Macs -> Lease \union {None}]
  /\ srv \in [Segments -> Locals]
  /\ declined \in [Segments -> [Addrs -> Nat]]
  /\ now \in Nat
  /\ grant \in [Macs -> Promises \union {None}]
  /\ edits \in Nat /\ removals \in Nat /\ restarts \in Nat

\* s gives address a to client m in this step: an OFFER or an ACK goes out.
Gives(s, m, a) ==
  At(s, "send") /\ srv[s].mac = m /\ srv[s].ip = a /\ ~At(s, "send")'

(* The records never hold two clients on one address: whatever the order in *)
(* which the segments' servers check an address (IPInUse) and later record  *)
(* it, with edits, removals and restarts in between.  An address that may   *)
(* be reserved is excepted, Settings may give it away while it is leased.   *)
LeaseUnique ==
  \A m, n \in Macs :
    m # n /\ lease[m] # None /\ lease[n] # None /\ lease[m].ip = lease[n].ip =>
      lease[m].ip \in Reservable

(* Two clients that were offered the same address (an OFFER is not recorded *)
(* anywhere) do not both get an ACK for it while the first ACK is valid.    *)
(* Excepted is a client that did not hear a later ACK of another address:   *)
(* send's errors are only logged (server.go:499), the other address takes   *)
(* the place of the promised one on record, which is then free for others.  *)
NoDoubleGrant ==
  \A m, n \in Macs :
    /\ m # n /\ grant[m] # None /\ grant[n] # None
    /\ now < grant[m].until /\ now < grant[n].until
    /\ ~grant[m].unheard /\ ~grant[n].unheard
    => grant[m].ip # grant[n].ip \/ grant[m].ip \in Reservable

(* An address promised in an ACK is on record for that client from the      *)
(* moment the server has finished the packet, and for as long as promised,  *)
(* whatever reservations, renewals, declines and lost replies come between. *)
(* Two exceptions: a later ACK of another address went unheard, and the     *)
(* lease time was lowered since it was read for the ACK (server.go:469,     *)
(* read again at 344): then the record may expire before the promise.       *)
AckRecorded ==
  \A m \in Macs :
    grant[m] # None /\ now < grant[m].until /\ ~grant[m].unheard =>
      \/ /\ lease[m] # None /\ lease[m].ip = grant[m].ip
         /\ lease[m].exp >= grant[m].until \/ grant[m].lowered
      \/ \E s \in Segments : /\ srv[s].pc \in {"record", "upsert"}
                              /\ srv[s].mac = m /\ srv[s].ip = grant[m].ip

(* A client that asks for the address it has on record on this segment is   *)
(* never refused, whatever was declined, re-pooled or recorded meanwhile,   *)
(* unless a reservation decided otherwise.                                  *)
RenewalNeverRefused ==
  [][\A s \in Segments : SendNAK(s) =>
       LET l == lease[srv[s].mac] IN
         \/ l = None \/ l.seg # s \/ l.ip # srv[s].want
         \/ srv[s].ip \in Reservable]_vars

(* "A DECLINE keeps the conflicting address out of the pool": while it is   *)
(* quarantined no other client than the one on record gets it.              *)
DeclinedNotReassigned ==
  [][\A s \in Segments, m \in Macs, a \in Addrs \ Reservable :
       Gives(s, m, a) /\ IsDeclined(s, a) =>
         lease[m] # None /\ lease[m].ip = a]_vars

(* Every packet is answered or dropped: the goroutine comes back for the    *)
(* next one, also when the pool is exhausted or edited during the scan.     *)
HandlerReturns == \A s \in Segments : ~At(s, "idle") ~> At(s, "idle")

(* "A DECLINE keeps the conflicting address out of the pool for ten         *)
(* minutes": nobody is offered it, the client that declined it included.    *)
DeclinedNotOffered ==
  [][\A s \in Segments, m \in Macs, a \in Addrs \ Reservable :
       Gives(s, m, a) => ~IsDeclined(s, a)]_vars

(* "Never hand out the gateway's own address."                              *)
GatewayNotGiven ==
  [][\A s \in Segments, m \in Macs, a \in Addrs \ Reservable :
       Gives(s, m, a) /\ seg[s] # None => a # seg[s].gw]_vars
=============================================================================
