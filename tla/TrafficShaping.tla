---------------------------- MODULE TrafficShaping ----------------------------
(***************************************************************************)
(* internal/sqm with the handlers that drive it (internal/web/server.go)   *)
(* and the start of the process (cmd/cobweb/main.go).  Shaping is switched *)
(* on and off by a sequence of modprobe, ip and tc commands; each of them  *)
(* is a step of its own, may fail, and may be the last one before the      *)
(* process stops.  Nothing makes two requests take turns, and the network  *)
(* page changes the WAN interface without running a command.               *)
(*                                                                         *)
(* Download is shaped on ifb0, to which a filter on the WAN interface      *)
(* redirects what comes in.  Deleting ifb0 leaves such a filter dangling:  *)
(* the kernel then drops what comes in, also when a new ifb0 is added.     *)
(***************************************************************************)
EXTENDS Naturals, Sequences

CONSTANTS
  Handlers,  \* requests in hand at a time
  Main,      \* the goroutine of main, which applies the settings at start
  Ifaces,    \* network interfaces
  NoWAN,     \* the empty WAN interface
  Rates,     \* pairs of a download and an upload limit, both positive
  Off,       \* SQM is disabled
  NoLimits,  \* SQM is enabled with a limit that is not positive: by an import only
  Imports,   \* settings that may be imported
  MaxRequests, MaxSaveFails, MaxCmdFails  \* bounds of the instance

ASSUME ShapingAssumption ==
  /\ Main \notin Handlers /\ NoWAN \notin Ifaces /\ Off \notin Rates
  /\ NoLimits \notin Rates \union {Off}
  /\ Imports \subseteq [wan : Ifaces \union {NoWAN}, sqm : Rates \union {Off, NoLimits}]
  /\ MaxRequests \in Nat /\ MaxSaveFails \in Nat /\ MaxCmdFails \in Nat

VARIABLES
  work,     \* goroutine |-> the locals of its handler
  process,  \* "down", "starting" or "serving"
  config,   \* WAN interface and SQM settings in memory
  file,     \* and in the configuration file
  kernel,   \* queueing disciplines, filters and ifb0
  tangled,  \* history: sequences overlapped, the shaped interface changed, or
            \* something could not be deleted, since the kernel started
  used      \* requests, failed saves and failed commands so far

shapingVars == <<work, process, config, file, kernel, tangled, used>>

-----------------------------------------------------------------------------
(* The kernel, and what the commands of Apply and Remove do to it. *)

Shapings == Rates \union {Off}

Kernels ==
  [loaded  : BOOLEAN,                                   \* the ifb module
   ifb     : {"absent", "down", "up"},                  \* ifb0
   shaped  : Shapings,                                  \* cake on ifb0
   root    : [Ifaces -> Shapings],                      \* cake on an interface
   ingress : [Ifaces -> {"none", "bare", "redirect", "dangling"}]]

Booted == [loaded |-> FALSE, ifb |-> "absent", shaped |-> Off,
           root |-> [i \in Ifaces |-> Off], ingress |-> [i \in Ifaces |-> "none"]]

\* Mutated: ifb0 is not brought up.
WithoutUp == <<"modprobe", "add", "root", "ingress", "redirect", "shape">>

\* Mutated: ifb0 is deleted before what redirects to it.
DeviceFirst == <<"delRoot", "delIfb", "delIngress", "delShape">>

ApplyCommands == <<"modprobe", "add", "up", "root", "ingress", "redirect", "shape">>
RemoveCommands == <<"delRoot", "delIngress", "delShape", "delIfb">>

Commands(want) == IF want = Off THEN RemoveCommands ELSE ApplyCommands

\* What a command needs to find.
Works(c, k, wan) ==
  CASE c \in {"up", "shape"} -> k.ifb # "absent"
    [] c = "redirect" -> k.ifb # "absent" /\ k.ingress[wan] # "none"
    [] OTHER -> TRUE

NoTarget(s) == IF s = "redirect" THEN "dangling" ELSE s

Effect(c, k, wan, rate) ==
  CASE c = "modprobe" ->
         IF k.loaded THEN k
         ELSE [k EXCEPT !.loaded = TRUE, !.ifb = IF @ = "absent" THEN "down" ELSE @]
    [] c = "add" -> [k EXCEPT !.ifb = IF @ = "absent" THEN "down" ELSE @]
    [] c = "up" -> [k EXCEPT !.ifb = "up"]
    [] c = "root" -> [k EXCEPT !.root = [@ EXCEPT ![wan] = rate]]
    [] c = "ingress" ->
         [k EXCEPT !.ingress = [@ EXCEPT ![wan] =
                                IF k.ingress[wan] = "none" THEN "bare" ELSE k.ingress[wan]]]
    [] c = "redirect" -> [k EXCEPT !.ingress = [@ EXCEPT ![wan] = "redirect"]]
    [] c = "shape" -> [k EXCEPT !.shaped = rate]
    [] c = "delRoot" -> [k EXCEPT !.root = [@ EXCEPT ![wan] = Off]]
    [] c = "delIngress" -> [k EXCEPT !.ingress = [@ EXCEPT ![wan] = "none"]]
    [] c = "delShape" -> [k EXCEPT !.shaped = Off]
    [] c = "delIfb" -> [k EXCEPT !.ifb = "absent", !.shaped = Off,
                                  !.ingress = [i \in Ifaces |-> NoTarget(k.ingress[i])]]

\* Shaping on wan is as asked for.
AsAsked(k, wan, want) ==
  IF want = Off
    THEN k.root[wan] = Off /\ k.ingress[wan] = "none" /\ k.ifb = "absent"
    ELSE /\ k.root[wan] = want /\ k.ingress[wan] = "redirect"
         /\ k.ifb = "up" /\ k.shaped = want

-----------------------------------------------------------------------------
(* Settings, and the goroutines that change and apply them. *)

Settings == [wan : Ifaces \union {NoWAN}, sqm : Shapings \union {NoLimits}]

Actors == Handlers \union {Main}

Places == {"idle", "save", "snap", "run", "applied", "failed"}

Jobs == [pc    : Places,
         kind  : {"sqm", "network", "import"},
         to    : Settings,   \* what is asked for; the WAN interface as in the snapshot
         step  : 1 .. 7,     \* the next command
         alone : BOOLEAN,    \* history: no other request was in hand meanwhile
         clean : BOOLEAN]    \* history: no command that should work has failed

Idle == [pc |-> "idle", kind |-> "sqm", to |-> [wan |-> NoWAN, sqm |-> Off],
         step |-> 1, alone |-> TRUE, clean |-> TRUE]

Running(a) == work[a].pc = "run"

\* Apply with the settings r.to: the checks before its first command.
Checked(r) ==
  [r EXCEPT !.pc = IF r.to.sqm = Off THEN (IF r.to.wan = NoWAN THEN "applied" ELSE "run")
                   ELSE IF r.to.wan = NoWAN \/ r.to.sqm = NoLimits THEN "failed" ELSE "run"]

\* r gets going next to another sequence, or while another interface is shaped.
Entangles(r) ==
  r.pc = "run" /\ \/ \E b \in Actors : Running(b)
                  \/ \E i \in Ifaces \ {r.to.wan} : kernel.ingress[i] # "none"

-----------------------------------------------------------------------------
(* Requests: handleUpdateSQM, handleUpdateNetwork and handleImportConfig. *)

\* r is in hand from now on, and those that are already are no longer alone.
Joins(h, r) ==
  work' = [a \in Actors |-> IF a = h THEN r
                            ELSE IF work[a].pc = "idle" THEN work[a]
                            ELSE [work[a] EXCEPT !.alone = FALSE]]

Post(h) ==
  /\ process = "serving" /\ work[h].pc = "idle" /\ used.requests < MaxRequests
  /\ \E kind \in {"sqm", "network", "import"}, to \in Settings :
       /\ kind = "sqm" => to.wan = NoWAN /\ to.sqm # NoLimits
       /\ kind = "network" => to.sqm = Off
       /\ kind = "import" => to \in Imports
       /\ \E lone \in BOOLEAN :
            /\ lone <=> \A b \in Actors : work[b].pc = "idle"
            /\ Joins(h, [Idle EXCEPT !.pc = "save", !.kind = kind, !.to = to,
                                     !.alone = lone])
  /\ used' = [used EXCEPT !.requests = @ + 1]
  /\ UNCHANGED <<process, config, file, kernel, tangled>>

Changed(r) ==
  CASE r.kind = "sqm" -> [config EXCEPT !.sqm = r.to.sqm]
    [] r.kind = "network" -> [config EXCEPT !.wan = r.to.wan]
    [] r.kind = "import" -> r.to

\* UpdateSQM, UpdateGlobalNetwork, ImportJSON; only the SQM page applies anything.
Save(h) ==
  /\ work[h].pc = "save"
  /\ config' = Changed(work[h])
  /\ file' = config'
  /\ work' = [work EXCEPT ![h] =
       IF work[h].kind = "sqm" THEN [work[h] EXCEPT !.pc = "snap"] ELSE Idle]
  /\ UNCHANGED <<process, kernel, tangled, used>>

SaveFails(h) ==
  /\ work[h].pc = "save" /\ used.saves < MaxSaveFails
  /\ config' = Changed(work[h])
  /\ work' = [work EXCEPT ![h] = [@ EXCEPT !.pc = "failed"]]
  /\ used' = [used EXCEPT !.saves = @ + 1]
  /\ UNCHANGED <<process, file, kernel, tangled>>

Snap(h) ==
  /\ work[h].pc = "snap"
  /\ LET r == Checked([work[h] EXCEPT !.to = [@ EXCEPT !.wan = config.wan]]) IN
     /\ work' = [work EXCEPT ![h] = r]
     /\ tangled' = (tangled \/ Entangles(r))
  /\ UNCHANGED <<process, config, file, kernel, used>>

Return(h) ==
  /\ work[h].pc \in {"applied", "failed"}
  /\ work' = [work EXCEPT ![h] = Idle]
  /\ UNCHANGED <<process, config, file, kernel, tangled, used>>

-----------------------------------------------------------------------------
(* One command of Apply or Remove. *)

\* Mutated: the last command is not the end.
PastLast(r) == [r EXCEPT !.step = r.step + 1]

\* r goes on to its next command, or is through.
Onward(r) ==
  IF r.step < Len(Commands(r.to.sqm)) THEN [r EXCEPT !.step = r.step + 1]
  ELSE [r EXCEPT !.pc = "applied", !.step = 1]

Command(r) == Commands(r.to.sqm)[r.step]

Run(a) ==
  LET r == work[a] IN
  /\ Running(a) /\ Works(Command(r), kernel, r.to.wan)
  /\ kernel' = Effect(Command(r), kernel, r.to.wan, r.to.sqm)
  /\ work' = [work EXCEPT ![a] = Onward(r)]
  /\ UNCHANGED <<process, config, file, tangled, used>>

\* Apply gives up at the first command that fails, for whatever reason.
ApplyFails(a) ==
  LET r == work[a] IN
  /\ Running(a) /\ r.to.sqm # Off
  /\ \/ ~Works(Command(r), kernel, r.to.wan) /\ UNCHANGED used
     \/ used.commands < MaxCmdFails /\ used' = [used EXCEPT !.commands = @ + 1]
  /\ work' = [work EXCEPT ![a] = [r EXCEPT !.pc = "failed", !.step = 1]]
  /\ UNCHANGED <<process, config, file, kernel, tangled>>

\* Remove ignores it, and goes on.
RemoveFails(a) ==
  LET r == work[a] IN
  /\ Running(a) /\ r.to.sqm = Off
  /\ used.commands < MaxCmdFails /\ used' = [used EXCEPT !.commands = @ + 1]
  /\ work' = [work EXCEPT ![a] = [Onward(r) EXCEPT !.clean = FALSE]]
  /\ tangled' = TRUE
  /\ UNCHANGED <<process, config, file, kernel>>

-----------------------------------------------------------------------------
(* The process. *)

\* main: load, and apply if SQM is on, before the dashboard listens.
Start ==
  /\ process = "down"
  /\ LET r == Checked([Idle EXCEPT !.to = file]) IN
     IF file.sqm = Off
       THEN process' = "serving" /\ UNCHANGED <<work, tangled>>
       ELSE /\ process' = "starting"
            /\ work' = [work EXCEPT ![Main] = r]
            /\ tangled' = (tangled \/ Entangles(r))
  /\ UNCHANGED <<config, file, kernel, used>>

\* A failure to shape is logged, and that is all.
Serve ==
  /\ process = "starting" /\ work[Main].pc \in {"applied", "failed"}
  /\ process' = "serving"
  /\ work' = [work EXCEPT ![Main] = Idle]
  /\ UNCHANGED <<config, file, kernel, tangled, used>>

\* The process ends wherever its goroutines are, and its memory with it; the
\* kernel keeps what it has.
Stops ==
  /\ process # "down"
  /\ process' = "down"
  /\ work' = [a \in Actors |-> Idle]
  /\ config' = file
  /\ UNCHANGED <<file, used>>

Stop == Stops /\ UNCHANGED <<kernel, tangled>>
Reboot == Stops /\ kernel' = Booted /\ tangled' = FALSE

ShapingInit ==
  /\ work = [a \in Actors |-> Idle]
  /\ process = "down"
  /\ \E w \in Ifaces \union {NoWAN} : file = [wan |-> w, sqm |-> Off]
  /\ config = file
  /\ kernel = Booted
  /\ tangled = FALSE
  /\ used = [requests |-> 0, saves |-> 0, commands |-> 0]

ShapingNext ==
  \/ \E h \in Handlers : Post(h) \/ Save(h) \/ SaveFails(h) \/ Snap(h) \/ Return(h)
  \/ \E a \in Actors : Run(a) \/ ApplyFails(a) \/ RemoveFails(a)
  \/ Start \/ Serve \/ Stop \/ Reboot

ShapingSpec == ShapingInit /\ [][ShapingNext]_shapingVars

-----------------------------------------------------------------------------
\* A goroutine that runs commands has an interface, limits, and a command to run.
HasCommand(r) ==
  IF r.pc = "run" THEN /\ r.to.wan \in Ifaces /\ r.to.sqm \in Shapings
                       /\ r.step <= Len(Commands(r.to.sqm))
  ELSE r.step = 1

ShapingTypeOK ==
  /\ work \in [Actors -> Jobs]
  /\ \A a \in Actors : HasCommand(work[a])
  /\ process \in {"down", "starting", "serving"}
  /\ config \in Settings /\ file \in Settings
  /\ kernel \in Kernels
  /\ tangled \in BOOLEAN
  /\ used \in [requests : Nat, saves : Nat, commands : Nat]

(* A change of the SQM settings that is reported as applied (server.go:978),
   and a start that logs no failure, have left the WAN interface shaped, or
   free of shaping, as the settings in memory and in the file say, whatever
   was left behind before: a sequence that failed or was interrupted
   half-way, requests that overlapped, settings that were saved without being
   applied.  It has to have run alone; a deletion that fails goes unreported
   (sqm.go:121); and without a WAN interface nothing is removed (sqm.go:118). *)
LoneShapingHonest ==
  \A a \in Actors :
    LET r == work[a] IN
    r.pc = "applied" /\ r.alone /\ r.clean =>
      /\ config.wan = r.to.wan /\ config.sqm = r.to.sqm /\ file = config
      /\ r.to.wan # NoWAN => AsAsked(kernel, r.to.wan, r.to.sqm)

(* What comes in on an interface is never redirected to an ifb0 that is down,
   deleted, or not there yet, so that nothing comes in at all: not between two
   commands of a sequence, and not after one that failed or was cut short by
   the end of the process.  The order of the commands is what ensures it
   (sqm.go:87, 121), as long as sequences do not overlap, none is begun while
   another interface is shaped, and nothing that is to be deleted stays. *)
NoDanglingRedirect ==
  ~tangled =>
    \A i \in Ifaces : /\ kernel.ingress[i] # "dangling"
                      /\ kernel.ingress[i] = "redirect" => kernel.ifb = "up"
=============================================================================
