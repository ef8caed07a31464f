---------------------------- MODULE FirewallPanel ----------------------------
(***************************************************************************)
(* internal/web/firewall.go and the part of internal/firewall that applies *)
(* rules: requests of the firewall panel change the configuration, take a  *)
(* snapshot of it, hand that to nft, and undo their change when nft (or    *)
(* Render) refuses it.  net/http runs every request in a goroutine of its  *)
(* own and nothing makes them take turns, so that other requests may come  *)
(* between any two of these steps.  Other pages edit the segments, a file  *)
(* may be imported, and the process may stop and start again.              *)
(*                                                                         *)
(* A setter of internal/config is one step: it changes memory, then saves, *)
(* and a save that fails leaves memory changed.  A ruleset is what it was  *)
(* rendered from.  Forward rules have a target segment.  The interface     *)
(* patterns of Docker and of the trusted interfaces are names, of which    *)
(* Clashes lists the pairs that overlap.                                   *)
(***************************************************************************)
EXTENDS Naturals

CONSTANTS
  Handlers,      \* goroutines that serve requests
  Rules,         \* ids of port rules
  Target,        \* rule |-> the segment its target is in, None for an input rule
  Segments,      \* LAN segments
  Dockers,       \* Docker settings: None (off), or patterns and source
  Trusteds,      \* trusted-interface lists, None for the empty one
  Clashes,       \* pairs <<docker, trusted>> that overlap
  Imports,       \* configurations that may be imported
  None,
  MaxPosts,      \* bound on requests of the panel
  MaxEdits,      \* bound on requests of other pages
  MaxSaveFails,  \* bound on failed saves
  MaxNftFails,   \* bound on failures of nft itself
  MaxRestarts    \* bound on restarts

Config == [fw : BOOLEAN, rules : [Rules -> {"new", "on", "off", "gone"}],
           docker : Dockers, trusted : Trusteds, segs : SUBSET Segments]

Rulesets == [rules : SUBSET Rules, docker : Dockers, trusted : Trusteds,
             segs : SUBSET Segments]

\* How a request may end.
Results == {"saved", "live", "failed", "undone", "refused", "unsaved"}

ASSUME PanelAssumption ==
  /\ Target \in [Rules -> Segments \union {None}] /\ None \notin Segments
  /\ None \notin Rulesets /\ None \notin Results
  /\ None \in Dockers \intersect Trusteds
  /\ Clashes \subseteq (Dockers \ {None}) \X (Trusteds \ {None})
  /\ Imports \subseteq Config
  /\ MaxPosts \in Nat /\ MaxEdits \in Nat
  /\ MaxSaveFails \in Nat /\ MaxNftFails \in Nat /\ MaxRestarts \in Nat

Ops ==
  [kind : {"toggle"}, on : BOOLEAN] \union
  [kind : {"add", "remove"}, rule : Rules] \union
  [kind : {"flag"}, rule : Rules, on : BOOLEAN] \union
  [kind : {"docker"}, to : Dockers] \union [kind : {"trusted"}, to : Trusteds]

VARIABLES
  cfg,      \* the configuration in memory
  disk,     \* the one in config.json
  kernel,   \* cobweb's nft tables: what they were rendered from, or None
  req,      \* handler |-> the locals of its request
  solo,     \* history: handlers in whose request nobody else has had a part
  posts, edits, saveFails, nftFails, restarts   \* history: for the bounds

counts == <<posts, edits, saveFails, nftFails, restarts>>
vars == <<cfg, disk, kernel, req, solo, counts>>

\* No request; res says how the last one ended.
Waiting(res) == [pc |-> "idle", op |-> None, prev |-> None, was |-> None,
                 snap |-> None, res |-> res]

At(h, place) == req[h].pc = place
Goto(h, place) == req' = [req EXCEPT ![h] = [@ EXCEPT !.pc = place]]
\* The response is written.
Respond(h, res) == req' = [req EXCEPT ![h] = Waiting(res)]
-----------------------------------------------------------------------------
(* Render and the checks it shares with the forms.                          *)

Clash(c) == <<c.docker, c.trusted>> \in Clashes

\* A forward rule's target must lie in a segment.
Validate(c, r) == Target[r] = None \/ Target[r] \in c.segs

Active(c) == {r \in Rules : c.rules[r] = "on"}

\* Render succeeds.
Renders(c) == c.segs # {} /\ ~Clash(c) /\ \A r \in Active(c) : Validate(c, r)

Ruleset(c) == [rules |-> Active(c), docker |-> c.docker, trusted |-> c.trusted,
               segs |-> c.segs]

\* What the kernel should hold for c.
Wanted(c) == IF c.fw THEN Ruleset(c) ELSE None
-----------------------------------------------------------------------------
(* What a request changes, and how it undoes that.                          *)

WithRule(c, r, s) == [c EXCEPT !.rules[r] = s]
Flag(on) == IF on THEN "on" ELSE "off"

\* SetPortRuleDisabled finds rule r.
Known(c, r) == c.rules[r] \in {"on", "off"}

Changed(c, op) ==
  CASE op.kind = "toggle"  -> [c EXCEPT !.fw = op.on]
    [] op.kind = "add"     -> WithRule(c, op.rule, "on")
    [] op.kind = "remove"  -> WithRule(c, op.rule, "gone")
    [] op.kind = "flag"    -> WithRule(c, op.rule, Flag(op.on))
    [] op.kind = "docker"  -> [c EXCEPT !.docker = op.to]
    [] op.kind = "trusted" -> [c EXCEPT !.trusted = op.to]

\* Mutated: a refused enable is not taken back.
StillEnabled(c) == c
\* A refused enable is taken back.
NotEnabled(c) == [c EXCEPT !.fw = FALSE]

\* Mutated: refused settings go back to their defaults.
DefaultSettings(prev) == [prev EXCEPT !.docker = None, !.trusted = None]
\* Refused settings go back to those read before the change.
FormerSettings(prev) == prev

\* The flag of a rule is set to the opposite of what was asked for.
Undone(c, op, prev) ==
  CASE op.kind = "toggle"  -> NotEnabled(c)
    [] op.kind = "add"     -> WithRule(c, op.rule, "gone")
    [] op.kind = "flag"    -> IF Known(c, op.rule) THEN WithRule(c, op.rule, Flag(~op.on)) ELSE c
    [] op.kind = "docker"  -> [c EXCEPT !.docker = FormerSettings(prev).docker]
    [] op.kind = "trusted" -> [c EXCEPT !.trusted = FormerSettings(prev).trusted]

\* Removing a rule and switching off are never undone.
Undoes(op) == op.kind # "remove" /\ ~(op.kind = "toggle" /\ ~op.on)
-----------------------------------------------------------------------------
(* A request.                                                               *)

\* A rule that is added gets an id that nobody has or had.
Fresh(r) ==
  /\ cfg.rules[r] = "new"
  /\ \A h \in Handlers : At(h, "idle") \/ req[h].op # [kind |-> "add", rule |-> r]

\* Forms that validate do so against a snapshot of now; a refused form changes
\* nothing.  A form for a rule may come from a page that shows it no longer.
Accepted(op) ==
  CASE op.kind = "add"     -> Fresh(op.rule) /\ Validate(cfg, op.rule)
    [] op.kind = "flag"    -> cfg.rules[op.rule] # "new"
    [] op.kind = "remove"  -> cfg.rules[op.rule] # "new"
    [] op.kind = "docker"  -> ~Clash([cfg EXCEPT !.docker = op.to])
    [] op.kind = "trusted" -> ~Clash([cfg EXCEPT !.trusted = op.to])
    [] OTHER               -> TRUE

Post(h, op) ==
  /\ At(h, "idle")
  /\ posts < MaxPosts /\ posts' = posts + 1
  /\ Accepted(op)
  /\ req' = [req EXCEPT ![h] = [pc |-> "set", op |-> op, prev |-> cfg,
                                was |-> kernel, snap |-> None, res |-> None]]
  /\ solo' = IF \A g \in Handlers : At(g, "idle") THEN {h} ELSE {}
  /\ UNCHANGED <<cfg, disk, kernel, edits, saveFails, nftFails, restarts>>

\* Save writes the configuration; or it fails, and the change stays in memory.
Saved == disk' = cfg' /\ UNCHANGED saveFails
SaveFailed ==
  saveFails < MaxSaveFails /\ saveFails' = saveFails + 1 /\ UNCHANGED disk

\* The setter.  A rule that is gone cannot be switched.
Set(h) ==
  /\ At(h, "set")
  /\ LET op == req[h].op IN
       \/ /\ op.kind = "flag" /\ ~Known(cfg, op.rule)
          /\ Respond(h, "refused")
          /\ UNCHANGED <<cfg, disk, saveFails>>
       \/ /\ op.kind = "flag" => Known(cfg, op.rule)
          /\ cfg' = Changed(cfg, op)
          /\ \/ Saved /\ Goto(h, "snap")
             \/ SaveFailed /\ Respond(h, "unsaved")
  /\ UNCHANGED <<kernel, solo, posts, edits, nftFails, restarts>>

\* Mutated: the snapshot from before the change is applied.
EarlierSnapshot(h) == req[h].prev

\* Mutated: what the local held before is applied.
UntakenSnapshot(h) == req[h].snap

\* The snapshot that goes to the kernel.
SnapshotToApply(h) == cfg

\* applyIfEnabled stops here when the firewall is off; the switch goes on.
Snap(h) ==
  /\ At(h, "snap")
  /\ IF req[h].op.kind # "toggle" /\ ~cfg.fw
       THEN Respond(h, "saved")
       ELSE req' = [req EXCEPT ![h] = [@ EXCEPT !.pc = "apply",
                                                !.snap = SnapshotToApply(h)]]
  /\ UNCHANGED <<cfg, disk, kernel, solo, counts>>

\* nft installs the whole ruleset, or removes the tables, in one transaction.
ApplyOK(h) ==
  /\ At(h, "apply")
  /\ req[h].snap.fw => Renders(req[h].snap)
  /\ kernel' = Wanted(req[h].snap)
  /\ Respond(h, "live")
  /\ UNCHANGED <<cfg, disk, solo, counts>>

\* Render, the syntax check or nft fails: the kernel is as before.
ApplyFailed(h) ==
  /\ At(h, "apply")
  /\ \/ req[h].snap.fw /\ ~Renders(req[h].snap) /\ UNCHANGED nftFails
     \/ nftFails < MaxNftFails /\ nftFails' = nftFails + 1
  /\ IF Undoes(req[h].op) THEN Goto(h, "undo") ELSE Respond(h, "failed")
  /\ UNCHANGED <<cfg, disk, kernel, solo, posts, edits, saveFails, restarts>>

\* The roll-back; that its save fails is only logged.
Undo(h) ==
  /\ At(h, "undo")
  /\ cfg' = Undone(cfg, req[h].op, req[h].prev)
  /\ Saved \/ SaveFailed
  /\ Respond(h, "undone")
  /\ UNCHANGED <<kernel, solo, posts, edits, nftFails, restarts>>
-----------------------------------------------------------------------------
(* Everything else.                                                         *)

\* Another page's edit: it saves, and leaves the kernel as it is.
Elsewhere(c) ==
  /\ edits < MaxEdits /\ edits' = edits + 1
  /\ cfg' = c
  /\ Saved \/ SaveFailed
  /\ solo' = {}
  /\ UNCHANGED <<kernel, req, posts, nftFails, restarts>>

\* A segment is added to, or removed from, the network settings.
EditSegments(s) ==
  Elsewhere([cfg EXCEPT !.segs = IF s \in @ THEN @ \ {s} ELSE @ \union {s}])

\* The whole configuration is replaced; rules it does not have are gone.
ImportConfig(c) ==
  Elsewhere([c EXCEPT !.rules = [r \in Rules |->
               IF @[r] = "new" /\ cfg.rules[r] # "new" THEN "gone" ELSE @[r]]])

\* The process starts again from the file, after a crash or a reboot (which
\* empties the kernel), and applies the rules if the firewall is on.
Restart(reboot) ==
  /\ restarts < MaxRestarts /\ restarts' = restarts + 1
  /\ cfg' = disk
  /\ req' = [h \in Handlers |-> Waiting(None)]
  /\ solo' = {}
  /\ LET left == IF reboot THEN None ELSE kernel IN
       \/ disk.fw /\ Renders(disk) /\ kernel' = Ruleset(disk) /\ UNCHANGED nftFails
       \/ ~(disk.fw /\ Renders(disk)) /\ kernel' = left /\ UNCHANGED nftFails
       \/ /\ disk.fw /\ Renders(disk) /\ kernel' = left
          /\ nftFails < MaxNftFails /\ nftFails' = nftFails + 1
  /\ UNCHANGED <<disk, posts, edits, saveFails>>

Init ==
  /\ cfg = [fw |-> FALSE, rules |-> [r \in Rules |-> "new"], docker |-> None,
            trusted |-> None, segs |-> Segments]
  /\ disk = cfg
  /\ kernel = None
  /\ req = [h \in Handlers |-> Waiting(None)]
  /\ solo = {}
  /\ posts = 0 /\ edits = 0 /\ saveFails = 0 /\ nftFails = 0 /\ restarts = 0

Next ==
  \/ \E h \in Handlers :
       \/ \E op \in Ops : Post(h, op)
       \/ Set(h) \/ Snap(h) \/ ApplyOK(h) \/ ApplyFailed(h) \/ Undo(h)
  \/ \E s \in Segments : EditSegments(s)
  \/ \E c \in Imports : ImportConfig(c)
  \/ \E reboot \in BOOLEAN : Restart(reboot)

Spec == Init /\ [][Next]_vars
-----------------------------------------------------------------------------
Requests ==
  [pc : {"idle", "set", "snap", "apply", "undo"}, op : Ops \union {None},
   prev : Config \union {None}, was : Rulesets \union {None},
   snap : Config \union {None},
   res : Results \union {None}]

(* Every variable keeps to its type, and a request has what its place needs. *)
TypeOK ==
  /\ cfg \in Config /\ disk \in Config
  /\ kernel \in Rulesets \union {None}
  /\ solo \subseteq Handlers
  /\ req \in [Handlers -> Requests]
  /\ \A h \in Handlers :
       /\ ~At(h, "idle") => req[h].op \in Ops /\ req[h].prev \in Config
       /\ At(h, "apply") => req[h].snap \in Config
       /\ At(h, "undo") => Undoes(req[h].op)

\* In this step a request that nobody interfered with ends with one of results.
EndsAlone(h, results) ==
  h \in solo /\ ~At(h, "idle") /\ At(h, "idle")' /\ req'[h].res \in results

(* Whatever mess earlier requests, failed saves, imports and restarts have  *)
(* left, a request that ran alone and reports that its change is applied    *)
(* has brought the kernel in line with the whole configuration.             *)
LoneChangeSyncs ==
  [][\A h \in Handlers : EndsAlone(h, {"live"}) => kernel' = Wanted(cfg')]_vars

(* "Nothing was changed": a request to add a rule, or to change the Docker  *)
(* or VPN settings, that ran alone and was refused has left configuration   *)
(* and kernel as they were when it came.                                    *)
LoneFailureChangesNothing ==
  [][\A h \in Handlers :
       EndsAlone(h, {"undone"}) /\ req[h].op.kind \in {"add", "docker", "trusted"} =>
         /\ kernel' = req[h].was
         /\ Ruleset(cfg') = Ruleset(req[h].prev) /\ cfg'.fw = req[h].prev.fw]_vars

(* "So the saved setting never claims a firewall is running when it isn't": *)
(* a request to enable that ran alone and was not stopped by a failed save  *)
(* leaves the firewall off, or running.                                     *)
LoneEnableHonest ==
  [][\A h \in Handlers :
       EndsAlone(h, {"live", "undone"}) /\ req[h].op = [kind |-> "toggle", on |-> TRUE] =>
         (cfg'.fw => kernel' # None)]_vars

(* "With it off, cobweb never touches nftables", and disabling it removes   *)
(* the tables: when no request is in hand and nft has never failed, there   *)
(* are none.                                                                *)
OffMeansRemoved ==
  (\A h \in Handlers : At(h, "idle")) /\ ~cfg.fw /\ nftFails = 0 => kernel = None
=============================================================================
