------------------------- MODULE FirewallPanelProofs -------------------------
(***************************************************************************)
(* Proofs about FirewallPanel for any number of requests, rules, segments  *)
(* and settings: types, and what a request that ran alone may claim.       *)
(***************************************************************************)
EXTENDS FirewallPanel, TLAPS

\* The fields a request has for its kind.
LEMMA OpFields ==
  ASSUME NEW op \in Ops
  PROVE  /\ op.kind \in {"toggle", "add", "remove", "flag", "docker", "trusted"}
         /\ op.kind = "toggle" => op.on \in BOOLEAN
         /\ op.kind \in {"add", "remove"} => op.rule \in Rules
         /\ op.kind = "flag" => op.rule \in Rules /\ op.on \in BOOLEAN
         /\ op.kind = "docker" => op.to \in Dockers
         /\ op.kind = "trusted" => op.to \in Trusteds
BY DEF Ops

\* A configuration with one rule changed is a configuration.
LEMMA WithRuleType ==
  ASSUME NEW c \in Config, NEW r \in Rules, NEW s \in {"new", "on", "off", "gone"}
  PROVE  WithRule(c, r, s) \in Config
BY DEF WithRule, Config

\* So is what a setter makes of one.
LEMMA ChangedType ==
  ASSUME NEW c \in Config, NEW op \in Ops PROVE Changed(c, op) \in Config
<1>1. CASE op.kind \in {"add", "remove", "flag"}
  <2>1. op.rule \in Rules
    BY <1>1, OpFields
  <2>2. \A s \in {"on", "off", "gone"} : WithRule(c, op.rule, s) \in Config
    BY <2>1, WithRuleType
  <2> QED
    BY <1>1, <2>2 DEF Changed, Flag
<1>2. CASE op.kind = "toggle"
  BY <1>2, OpFields DEF Changed, Config
<1>3. CASE op.kind = "docker"
  BY <1>3, OpFields DEF Changed, Config
<1>4. CASE op.kind = "trusted"
  BY <1>4, OpFields DEF Changed, Config
<1> QED
  BY <1>1, <1>2, <1>3, <1>4, OpFields

\* And what a roll-back makes of one.
LEMMA UndoneType ==
  ASSUME NEW c \in Config, NEW prev \in Config, NEW op \in Ops, Undoes(op)
  PROVE  Undone(c, op, prev) \in Config
<1>1. CASE op.kind \in {"add", "flag"}
  <2>1. op.rule \in Rules
    BY <1>1, OpFields
  <2>2. \A s \in {"on", "off", "gone"} : WithRule(c, op.rule, s) \in Config
    BY <2>1, WithRuleType
  <2> QED
    BY <1>1, <2>2 DEF Undone, Flag
<1>2. CASE op.kind = "toggle"
  BY <1>2 DEF Undone, NotEnabled, Config
<1>3. CASE op.kind = "docker"
  BY <1>3 DEF Undone, FormerSettings, Config
<1>4. CASE op.kind = "trusted"
  BY <1>4 DEF Undone, FormerSettings, Config
<1> QED
  BY <1>1, <1>2, <1>3, <1>4, OpFields DEF Undoes

\* What the kernel should hold for a configuration is a ruleset or nothing.
LEMMA WantedType ==
  ASSUME NEW c \in Config
  PROVE  Ruleset(c) \in Rulesets /\ Wanted(c) \in Rulesets \union {None}
BY DEF Config, Ruleset, Rulesets, Active, Wanted

\* What a request needs at its place.
Ready(q) ==
  /\ q.pc # "idle" => q.op \in Ops /\ q.prev \in Config
  /\ q.pc = "apply" => q.snap \in Config
  /\ q.pc = "undo" => Undoes(q.op)

\* The step of one request keeps the types.
LEMMA RequestMoves ==
  ASSUME TypeOK, NEW h \in Handlers, NEW q \in Requests, Ready(q),
         req' = [req EXCEPT ![h] = q],
         cfg' \in Config, disk' \in {disk, cfg'}, kernel' \in Rulesets \union {None},
         solo' \subseteq Handlers
  PROVE  TypeOK'
<1>1. req' \in [Handlers -> Requests]
  BY DEF TypeOK
<1>2. \A g \in Handlers : req'[g] = IF g = h THEN q ELSE req[g]
  BY DEF TypeOK
<1> QED
  BY <1>1, <1>2 DEF TypeOK, At, Ready

\* A handler without a request is well typed.
LEMMA WaitingType ==
  ASSUME NEW res \in Results \union {None}
  PROVE  Waiting(res) \in Requests /\ Ready(Waiting(res))
BY DEF Waiting, Requests, Ready

\* No step takes a variable out of its type.
LEMMA NextType == TypeOK /\ [Next]_vars => TypeOK'
<1> SUFFICES ASSUME TypeOK, [Next]_vars PROVE TypeOK'
  OBVIOUS
<1> DEFINE Stays == UNCHANGED <<cfg, disk, kernel, solo>>
           Moved(h, place) == [req[h] EXCEPT !.pc = place]
<1>1. ASSUME NEW h \in Handlers PROVE req[h] \in Requests /\ Ready(req[h])
  BY DEF TypeOK, At, Ready
<1>2. ASSUME NEW h \in Handlers, NEW op \in Ops, Post(h, op) PROVE TypeOK'
  <2> DEFINE q == [pc |-> "set", op |-> op, prev |-> cfg, was |-> kernel, snap |-> None,
                   res |-> None]
  <2>1. q \in Requests /\ Ready(q)
    BY DEF TypeOK, Requests, Ready
  <2>2. solo' \subseteq Handlers
    BY <1>2 DEF Post
  <2>3. cfg' \in Config /\ disk' \in {disk, cfg'} /\ kernel' \in Rulesets \union {None}
    BY <1>2 DEF Post, TypeOK
  <2> QED
    BY <1>2, <2>1, <2>2, <2>3, RequestMoves DEF Post
<1>3. ASSUME NEW h \in Handlers, Set(h) PROVE TypeOK'
  <2>1. req[h].op \in Ops
    BY <1>1, <1>3 DEF Set, At, Ready
  <2>2. /\ cfg' \in Config /\ disk' \in {disk, cfg'}
        /\ kernel' \in Rulesets \union {None} /\ solo' \subseteq Handlers
    BY <1>3, <2>1, ChangedType DEF Set, Saved, SaveFailed, TypeOK
  <2>3. CASE Goto(h, "snap")
    <3>1. Moved(h, "snap") \in Requests /\ Ready(Moved(h, "snap"))
      BY <1>1, <1>3 DEF Set, At, Requests, Ready
    <3> QED
      BY <2>2, <2>3, <3>1, RequestMoves DEF Goto
  <2>4. CASE Respond(h, "refused") \/ Respond(h, "unsaved")
    BY <2>2, <2>4, RequestMoves, WaitingType DEF Results, Respond
  <2> QED
    BY <1>3, <2>3, <2>4 DEF Set
<1>4. ASSUME NEW h \in Handlers, Snap(h) PROVE TypeOK'
  <2> DEFINE q == [req[h] EXCEPT !.pc = "apply", !.snap = SnapshotToApply(h)]
  <2>1. q \in Requests /\ Ready(q)
    BY <1>1, <1>4 DEF Snap, SnapshotToApply, At, TypeOK, Requests, Ready
  <2>2. /\ cfg' \in Config /\ disk' \in {disk, cfg'}
        /\ kernel' \in Rulesets \union {None} /\ solo' \subseteq Handlers
    BY <1>4 DEF Snap, TypeOK
  <2>3. CASE Respond(h, "saved")
    BY <2>2, <2>3, RequestMoves, WaitingType DEF Results, Respond
  <2>4. CASE req' = [req EXCEPT ![h] = [@ EXCEPT !.pc = "apply", !.snap = SnapshotToApply(h)]]
    BY <2>1, <2>2, <2>4, RequestMoves
  <2> QED
    BY <1>4, <2>3, <2>4 DEF Snap
<1>5. ASSUME NEW h \in Handlers, ApplyOK(h) PROVE TypeOK'
  <2>1. Wanted(req[h].snap) \in Rulesets \union {None}
    BY <1>1, <1>5, WantedType DEF ApplyOK, At, Ready
  <2>2. /\ cfg' \in Config /\ disk' \in {disk, cfg'}
        /\ kernel' \in Rulesets \union {None} /\ solo' \subseteq Handlers
    BY <1>5, <2>1 DEF ApplyOK, TypeOK
  <2> QED
    BY <1>5, <2>2, RequestMoves, WaitingType DEF Results, ApplyOK, Respond
<1>6. ASSUME NEW h \in Handlers, ApplyFailed(h) PROVE TypeOK'
  <2>1. /\ cfg' \in Config /\ disk' \in {disk, cfg'}
        /\ kernel' \in Rulesets \union {None} /\ solo' \subseteq Handlers
    BY <1>6 DEF ApplyFailed, TypeOK
  <2>2. CASE Undoes(req[h].op) /\ Goto(h, "undo")
    <3>1. Moved(h, "undo") \in Requests /\ Ready(Moved(h, "undo"))
      BY <1>1, <1>6, <2>2 DEF ApplyFailed, At, Requests, Ready
    <3> QED
      BY <2>1, <2>2, <3>1, RequestMoves DEF Goto
  <2>3. CASE Respond(h, "failed")
    BY <2>1, <2>3, RequestMoves, WaitingType DEF Results, Respond
  <2> QED
    BY <1>6, <2>2, <2>3 DEF ApplyFailed
<1>7. ASSUME NEW h \in Handlers, Undo(h) PROVE TypeOK'
  <2>1. Undone(cfg, req[h].op, req[h].prev) \in Config
    BY <1>1, <1>7, UndoneType DEF Undo, At, Ready, TypeOK
  <2>2. /\ cfg' \in Config /\ disk' \in {disk, cfg'}
        /\ kernel' \in Rulesets \union {None} /\ solo' \subseteq Handlers
    BY <1>7, <2>1 DEF Undo, Saved, SaveFailed, TypeOK
  <2> QED
    BY <1>7, <2>2, RequestMoves, WaitingType DEF Results, Undo, Respond
<1>8. ASSUME NEW c \in Config, Elsewhere(c) PROVE TypeOK'
  BY <1>8 DEF Elsewhere, Saved, SaveFailed, TypeOK, At
<1>9. ASSUME NEW s \in Segments, EditSegments(s) PROVE TypeOK'
  <2>1. [cfg EXCEPT !.segs = IF s \in @ THEN @ \ {s} ELSE @ \union {s}] \in Config
    BY DEF TypeOK, Config
  <2> QED
    BY <1>8, <1>9, <2>1 DEF EditSegments
<1>10. ASSUME NEW c \in Imports, ImportConfig(c) PROVE TypeOK'
  <2>1. c \in Config
    BY PanelAssumption
  <2>2. [c EXCEPT !.rules = [r \in Rules |->
           IF @[r] = "new" /\ cfg.rules[r] # "new" THEN "gone" ELSE @[r]]] \in Config
    BY <2>1 DEF Config
  <2> QED
    BY <1>8, <1>10, <2>2 DEF ImportConfig
<1>11. ASSUME NEW reboot \in BOOLEAN, Restart(reboot) PROVE TypeOK'
  <2>1. req' \in [Handlers -> Requests] /\ \A h \in Handlers : req'[h] = Waiting(None)
    BY <1>11, WaitingType DEF Results, Restart
  <2>2. kernel' \in Rulesets \union {None}
    BY <1>11, WantedType DEF Restart, TypeOK
  <2> QED
    BY <1>11, <2>1, <2>2 DEF Restart, TypeOK, At, Waiting
<1>12. CASE UNCHANGED vars
  BY <1>12 DEF vars, TypeOK, At
<1> QED
  BY <1>2, <1>3, <1>4, <1>5, <1>6, <1>7, <1>9, <1>10, <1>11, <1>12 DEF Next

\* Before the first request all is well typed.
LEMMA InitType == Init => TypeOK
BY PanelAssumption, WaitingType DEF Results, Init, TypeOK, Config, At, Waiting

\* Every variable keeps to its type, and every request of web/firewall.go has
\* what its place in the handler needs.
THEOREM TypeCorrect == Spec => []TypeOK
BY InitType, NextType, PTL DEF Spec
-----------------------------------------------------------------------------
(* A request that ran alone.                                                *)

\* What its locals say of the configuration and of the kernel.
LoneState(q, c, k) ==
  /\ k = q.was
  /\ q.op.kind = "add" => q.prev.rules[q.op.rule] = "new"
  /\ q.pc = "set" => c = q.prev
  /\ q.pc \in {"snap", "apply", "undo"} => c = Changed(q.prev, q.op)
  /\ q.pc = "apply" => q.snap = c

\* While it runs, no other request is in hand.
LoneInv ==
  \A h \in solo : ~At(h, "idle") =>
    LoneState(req[h], cfg, kernel) /\ \A g \in Handlers \ {h} : At(g, "idle")

\* The step of a request in hand: it leaves no other one alone.
LEMMA LoneMoves ==
  ASSUME TypeOK, LoneInv, NEW h \in Handlers, ~At(h, "idle"), NEW q,
         req' = [req EXCEPT ![h] = q], solo' = solo,
         h \in solo => q.pc = "idle" \/ LoneState(q, cfg', kernel')
  PROVE  LoneInv'
<1>1. \A g \in Handlers : req'[g] = IF g = h THEN q ELSE req[g]
  BY DEF TypeOK
<1>2. solo \subseteq Handlers
  BY DEF TypeOK
<1> SUFFICES ASSUME NEW k \in solo, ~At(k, "idle")'
             PROVE  LoneState(req[k], cfg, kernel)' /\ \A g \in Handlers \ {k} : At(g, "idle")'
  BY DEF LoneInv
<1>3. k = h
  <2>1. SUFFICES ASSUME k # h PROVE FALSE
    OBVIOUS
  <2>2. ~At(k, "idle")
    BY <1>1, <1>2, <2>1 DEF At
  <2> QED
    BY <2>1, <2>2 DEF LoneInv
<1>4. \A g \in Handlers \ {h} : At(g, "idle")'
  BY <1>1, <1>3 DEF LoneInv, At
<1>5. req'[h] = q /\ q.pc # "idle"
  BY <1>1, <1>3 DEF At
<1>6. LoneState(req[h], cfg, kernel)'
  BY <1>3, <1>5 DEF LoneState
<1> QED
  BY <1>3, <1>4, <1>6

\* A request that ends has nothing more to show.
LEMMA LoneEnds ==
  ASSUME TypeOK, LoneInv, NEW h \in Handlers, ~At(h, "idle"), NEW res,
         Respond(h, res), solo' = solo
  PROVE  LoneInv'
BY LoneMoves DEF Respond, Waiting

\* A request that goes on has not ended.
LEMMA GoesOn ==
  ASSUME TypeOK, NEW h \in Handlers, NEW q, NEW res, q.pc # "idle",
         req' = [req EXCEPT ![h] = q]
  PROVE  ~Respond(h, res)
BY DEF Respond, Waiting, TypeOK

\* Every step keeps the invariant: other requests, pages and restarts end the
\* solitude of a request.
LEMMA NextLone == TypeOK /\ LoneInv /\ [Next]_vars => LoneInv'
<1> SUFFICES ASSUME TypeOK, LoneInv, [Next]_vars PROVE LoneInv'
  OBVIOUS
<1> DEFINE Moved(h, place) == [req[h] EXCEPT !.pc = place]
<1>1. ASSUME NEW h \in Handlers PROVE req[h] \in Requests
  BY DEF TypeOK
<1>2. ASSUME NEW h \in Handlers, NEW op \in Ops, Post(h, op) PROVE LoneInv'
  <2> SUFFICES ASSUME NEW k \in solo', ~At(k, "idle")'
               PROVE  LoneState(req[k], cfg, kernel)' /\ \A g \in Handlers \ {k} : At(g, "idle")'
    BY DEF LoneInv
  <2>1. k = h /\ \A g \in Handlers : At(g, "idle")
    BY <1>2 DEF Post
  <2>2. \A g \in Handlers \ {h} : req'[g] = req[g]
    BY <1>2 DEF Post, TypeOK
  <2>3. req'[h] = [pc |-> "set", op |-> op, prev |-> cfg, was |-> kernel, snap |-> None,
                   res |-> None]
    BY <1>2 DEF Post, TypeOK
  <2>4. op.kind = "add" => cfg.rules[op.rule] = "new"
    BY <1>2 DEF Post, Accepted, Fresh
  <2>5. LoneState(req[h], cfg, kernel)'
    BY <1>2, <2>3, <2>4 DEF Post, LoneState
  <2> QED
    BY <2>1, <2>2, <2>5 DEF At
<1>3. ASSUME NEW h \in Handlers, Set(h) PROVE LoneInv'
  <2>1. req[h].pc = "set" /\ solo' = solo /\ kernel' = kernel
    BY <1>3 DEF Set, At
  <2>2. CASE Goto(h, "snap")
    <3>1. cfg' = Changed(cfg, req[h].op)
      <4>1. ~Respond(h, "refused")
        BY <1>1, <2>2, GoesOn DEF Goto, Requests
      <4> QED
        BY <1>3, <4>1 DEF Set
    <3>2. h \in solo => LoneState(Moved(h, "snap"), cfg', kernel')
      BY <1>1, <2>1, <3>1 DEF LoneInv, LoneState, At, Requests
    <3> QED
      BY <2>1, <2>2, <3>2, LoneMoves DEF Goto, At
  <2>3. CASE Respond(h, "refused") \/ Respond(h, "unsaved")
    BY <2>1, <2>3, LoneEnds DEF At
  <2> QED
    BY <1>3, <2>2, <2>3 DEF Set
<1>4. ASSUME NEW h \in Handlers, Snap(h) PROVE LoneInv'
  <2> DEFINE q == [req[h] EXCEPT !.pc = "apply", !.snap = SnapshotToApply(h)]
  <2>1. req[h].pc = "snap" /\ solo' = solo /\ kernel' = kernel /\ cfg' = cfg
    BY <1>4 DEF Snap, At
  <2>2. CASE Respond(h, "saved")
    BY <2>1, <2>2, LoneEnds DEF At
  <2>3. CASE req' = [req EXCEPT ![h] = [@ EXCEPT !.pc = "apply", !.snap = SnapshotToApply(h)]]
    <3>1. h \in solo => LoneState(q, cfg', kernel')
      BY <1>1, <2>1 DEF LoneInv, LoneState, At, Requests, SnapshotToApply
    <3> QED
      BY <2>1, <2>3, <3>1, LoneMoves DEF At
  <2> QED
    BY <1>4, <2>2, <2>3 DEF Snap
<1>5. ASSUME NEW h \in Handlers, ApplyOK(h) PROVE LoneInv'
  BY <1>5, LoneEnds DEF ApplyOK, At
<1>6. ASSUME NEW h \in Handlers, ApplyFailed(h) PROVE LoneInv'
  <2>1. req[h].pc = "apply" /\ solo' = solo /\ kernel' = kernel /\ cfg' = cfg
    BY <1>6 DEF ApplyFailed, At
  <2>2. CASE Goto(h, "undo")
    <3>1. h \in solo => LoneState(Moved(h, "undo"), cfg', kernel')
      BY <1>1, <2>1 DEF LoneInv, LoneState, At, Requests
    <3> QED
      BY <2>1, <2>2, <3>1, LoneMoves DEF Goto, At
  <2>3. CASE Respond(h, "failed")
    BY <2>1, <2>3, LoneEnds DEF At
  <2> QED
    BY <1>6, <2>2, <2>3 DEF ApplyFailed
<1>7. ASSUME NEW h \in Handlers, Undo(h) PROVE LoneInv'
  BY <1>7, LoneEnds DEF Undo, At
<1>8. ASSUME solo' = {} PROVE LoneInv'
  BY <1>8 DEF LoneInv
<1>9. CASE \/ \E s \in Segments : EditSegments(s)
           \/ \E c \in Imports : ImportConfig(c)
           \/ \E reboot \in BOOLEAN : Restart(reboot)
  BY <1>8, <1>9 DEF EditSegments, ImportConfig, Elsewhere, Restart
<1>10. CASE UNCHANGED vars
  BY <1>10 DEF vars, LoneInv, LoneState, At
<1> QED
  BY <1>2, <1>3, <1>4, <1>5, <1>6, <1>7, <1>9, <1>10 DEF Next

\* Before the first request nobody is alone.
LEMMA InitLone == Init => LoneInv
BY DEF Init, LoneInv

\* Both invariants, for the action properties.
LEMMA Invariance == Spec => [](TypeOK /\ LoneInv)
BY InitType, InitLone, NextType, NextLone, PTL DEF Spec

\* A request in hand that is over after this step, by what it reports.
LEMMA EndsBy ==
  ASSUME TypeOK, [Next]_vars, NEW h \in Handlers, ~At(h, "idle"), At(h, "idle")',
         req'[h].res \in {"live", "undone"}
  PROVE  \/ req'[h].res = "live" /\ ApplyOK(h)
         \/ req'[h].res = "undone" /\ Undo(h)
<1>1. req'[h].pc = "idle" /\ req'[h] # req[h]
  BY DEF At
<1>2. ASSUME NEW g \in Handlers, NEW op \in Ops, Post(g, op) PROVE FALSE
  BY <1>1, <1>2 DEF Post, TypeOK
<1>3. ASSUME NEW g \in Handlers, NEW res, Respond(g, res) PROVE g = h /\ req'[h].res = res
  BY <1>1, <1>3 DEF Respond, Waiting, TypeOK
<1>4. ASSUME NEW g \in Handlers, NEW place \in {"snap", "undo"}, Goto(g, place) PROVE FALSE
  BY <1>1, <1>4 DEF Goto, TypeOK, Requests
<1>5. ASSUME NEW g \in Handlers, Set(g) PROVE FALSE
  BY <1>3, <1>4, <1>5 DEF Set
<1>6. ASSUME NEW g \in Handlers, Snap(g) PROVE FALSE
  <2>1. req' # [req EXCEPT ![g] = [@ EXCEPT !.pc = "apply", !.snap = SnapshotToApply(g)]]
    BY <1>1 DEF TypeOK, Requests
  <2> QED
    BY <1>3, <1>6, <2>1 DEF Snap
<1>7. ASSUME NEW g \in Handlers, ApplyFailed(g) PROVE FALSE
  BY <1>3, <1>4, <1>7 DEF ApplyFailed
<1>8. ASSUME NEW g \in Handlers, ApplyOK(g) PROVE g = h /\ req'[h].res = "live"
  BY <1>3, <1>8 DEF ApplyOK
<1>9. ASSUME NEW g \in Handlers, Undo(g) PROVE g = h /\ req'[h].res = "undone"
  BY <1>3, <1>9 DEF Undo
<1>10. ASSUME NEW reboot \in BOOLEAN, Restart(reboot) PROVE FALSE
  BY <1>10, PanelAssumption DEF Restart, Waiting, Results
<1>11. ~UNCHANGED req
  BY <1>1
<1> QED
  BY <1>2, <1>5, <1>6, <1>7, <1>8, <1>9, <1>10, <1>11
  DEF Next, EditSegments, ImportConfig, Elsewhere, vars

\* A request that ran alone and reports success has brought the kernel in line
\* with the whole configuration, whatever was wrong before (applyIfEnabled and
\* the switch of web/firewall.go).
THEOREM LoneChangesSync == Spec => LoneChangeSyncs
<1>1. ASSUME TypeOK, LoneInv, [Next]_vars, NEW h \in Handlers, EndsAlone(h, {"live"})
      PROVE  kernel' = Wanted(cfg')
  <2>1. ApplyOK(h)
    BY <1>1, EndsBy DEF EndsAlone
  <2>2. req[h].snap = cfg
    BY <1>1, <2>1 DEF EndsAlone, LoneInv, LoneState, ApplyOK, At
  <2> QED
    BY <2>1, <2>2 DEF ApplyOK
<1>2. TypeOK /\ LoneInv /\ [Next]_vars =>
        [\A h \in Handlers : EndsAlone(h, {"live"}) => kernel' = Wanted(cfg')]_vars
  BY <1>1
<1> QED
  BY <1>2, Invariance, PTL DEF Spec, LoneChangeSyncs

\* A request to enable that ran alone leaves the firewall off, or running
\* (handleFirewallToggle).
THEOREM LoneEnablesHonest == Spec => LoneEnableHonest
<1>1. ASSUME TypeOK, LoneInv, [Next]_vars, NEW h \in Handlers,
             EndsAlone(h, {"live", "undone"}),
             req[h].op = [kind |-> "toggle", on |-> TRUE], cfg'.fw
      PROVE  kernel' # None
  <2>1. CASE ApplyOK(h)
    <3>1. req[h].snap = cfg /\ cfg' = cfg
      BY <1>1, <2>1 DEF EndsAlone, LoneInv, LoneState, ApplyOK, At
    <3>2. kernel' = Ruleset(cfg)
      BY <1>1, <2>1, <3>1 DEF ApplyOK, Wanted
    <3> QED
      BY <1>1, <3>2, WantedType, PanelAssumption DEF TypeOK
  <2>2. CASE Undo(h)
    <3>1. cfg' = NotEnabled(cfg)
      BY <1>1, <2>2 DEF Undo, Undone
    <3> QED
      BY <1>1, <3>1 DEF NotEnabled, TypeOK, Config
  <2> QED
    BY <1>1, <2>1, <2>2, EndsBy DEF EndsAlone
<1>2. TypeOK /\ LoneInv /\ [Next]_vars =>
        [\A h \in Handlers :
           EndsAlone(h, {"live", "undone"}) /\ req[h].op = [kind |-> "toggle", on |-> TRUE] =>
             (cfg'.fw => kernel' # None)]_vars
  BY <1>1
<1> QED
  BY <1>2, Invariance, PTL DEF Spec, LoneEnableHonest

\* A roll-back of a new rule, or of Docker or VPN settings, leaves a
\* configuration that means what the former one meant.
LEMMA RollBack ==
  ASSUME NEW c \in Config, NEW op \in Ops, op.kind \in {"add", "docker", "trusted"},
         op.kind = "add" => c.rules[op.rule] = "new"
  PROVE  LET u == Undone(Changed(c, op), op, c) IN Ruleset(u) = Ruleset(c) /\ u.fw = c.fw
<1> DEFINE u == Undone(Changed(c, op), op, c)
<1>1. CASE op.kind = "add"
  <2> DEFINE r == op.rule
  <2>1. r \in Rules
    BY <1>1, OpFields
  <2>2. u = WithRule(WithRule(c, r, "on"), r, "gone")
    BY <1>1 DEF Undone, Changed
  <2>3. \A q \in Rules : u.rules[q] = IF q = r THEN "gone" ELSE c.rules[q]
    BY <2>1, <2>2 DEF WithRule, Config
  <2>4. Active(u) = Active(c)
    BY <1>1, <2>3 DEF Active
  <2>5. u.fw = c.fw /\ u.docker = c.docker /\ u.trusted = c.trusted /\ u.segs = c.segs
    BY <2>2 DEF WithRule, Config
  <2> QED
    BY <2>4, <2>5 DEF Ruleset
<1>2. CASE op.kind = "docker"
  <2>1. u = c
    BY <1>2 DEF Undone, Changed, FormerSettings, Config
  <2> QED
    BY <2>1
<1>3. CASE op.kind = "trusted"
  <2>1. u = c
    BY <1>3 DEF Undone, Changed, FormerSettings, Config
  <2> QED
    BY <2>1
<1> QED
  BY <1>1, <1>2, <1>3

\* "Nothing was changed": a request that ran alone and was rolled back has left
\* configuration and kernel as they were (handleFirewallAddRule, -Docker, -VPN).
THEOREM LoneFailuresChangeNothing == Spec => LoneFailureChangesNothing
<1>1. ASSUME TypeOK, LoneInv, [Next]_vars, NEW h \in Handlers, EndsAlone(h, {"undone"}),
             req[h].op.kind \in {"add", "docker", "trusted"}
      PROVE  /\ kernel' = req[h].was
             /\ Ruleset(cfg') = Ruleset(req[h].prev) /\ cfg'.fw = req[h].prev.fw
  <2>1. Undo(h)
    BY <1>1, EndsBy DEF EndsAlone
  <2>2. LoneState(req[h], cfg, kernel) /\ req[h].pc = "undo"
    BY <1>1, <2>1 DEF EndsAlone, LoneInv, Undo, At
  <2>3. req[h].op \in Ops /\ req[h].prev \in Config
    BY <1>1, <2>2 DEF TypeOK, At
  <2>4. cfg' = Undone(Changed(req[h].prev, req[h].op), req[h].op, req[h].prev)
    BY <2>1, <2>2 DEF Undo, LoneState
  <2>5. Ruleset(cfg') = Ruleset(req[h].prev) /\ cfg'.fw = req[h].prev.fw
    BY <1>1, <2>2, <2>3, <2>4, RollBack DEF LoneState
  <2> QED
    BY <2>1, <2>2, <2>5 DEF Undo, LoneState
<1>2. TypeOK /\ LoneInv /\ [Next]_vars =>
        [\A h \in Handlers :
           EndsAlone(h, {"undone"}) /\ req[h].op.kind \in {"add", "docker", "trusted"} =>
             /\ kernel' = req[h].was
             /\ Ruleset(cfg') = Ruleset(req[h].prev) /\ cfg'.fw = req[h].prev.fw]_vars
  BY <1>1
<1> QED
  BY <1>2, Invariance, PTL DEF Spec, LoneFailureChangesNothing
=============================================================================
