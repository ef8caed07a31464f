---------------------------- MODULE ShapingProofs ----------------------------
(***************************************************************************)
(* Proofs about TrafficShaping, for any interfaces, limits and number of   *)
(* requests.                                                               *)
(***************************************************************************)
EXTENDS TrafficShaping, TLAPS

ApplySet == {"modprobe", "add", "up", "root", "ingress", "redirect", "shape"}
RemoveSet == {"delRoot", "delIngress", "delShape", "delIfb"}

-----------------------------------------------------------------------------
(* The commands of a sequence, one by one. *)

LEMMA ApplyOrder ==
  ASSUME NEW r \in Jobs, r.pc = "run", HasCommand(r), r.to.sqm # Off
  PROVE  /\ r.to.sqm \in Rates /\ r.to.wan \in Ifaces
         /\ r.step \in 1 .. 7 /\ Len(Commands(r.to.sqm)) = 7
         /\ r.step = 1 => Command(r) = "modprobe"
         /\ r.step = 2 => Command(r) = "add"
         /\ r.step = 3 => Command(r) = "up"
         /\ r.step = 4 => Command(r) = "root"
         /\ r.step = 5 => Command(r) = "ingress"
         /\ r.step = 6 => Command(r) = "redirect"
         /\ r.step = 7 => Command(r) = "shape"
BY DEF HasCommand, Command, Commands, ApplyCommands, Shapings, Jobs

LEMMA RemoveOrder ==
  ASSUME NEW r \in Jobs, r.pc = "run", HasCommand(r), r.to.sqm = Off
  PROVE  /\ r.to.wan \in Ifaces
         /\ r.step \in 1 .. 4 /\ Len(Commands(r.to.sqm)) = 4
         /\ r.step = 1 => Command(r) = "delRoot"
         /\ r.step = 2 => Command(r) = "delIngress"
         /\ r.step = 3 => Command(r) = "delShape"
         /\ r.step = 4 => Command(r) = "delIfb"
BY DEF HasCommand, Command, Commands, RemoveCommands, Jobs

LEMMA CommandKnown ==
  ASSUME NEW r \in Jobs, r.pc = "run", HasCommand(r)
  PROVE  /\ Command(r) \in ApplySet \union RemoveSet
         /\ r.to.sqm \in Shapings /\ r.to.wan \in Ifaces
<1>1. CASE r.to.sqm = Off
  BY <1>1, RemoveOrder DEF RemoveSet, Shapings
<1>2. CASE r.to.sqm # Off
  BY <1>2, ApplyOrder DEF ApplySet, Shapings
<1>3. QED  BY <1>1, <1>2

LEMMA EffectType ==
  ASSUME NEW k \in Kernels, NEW w \in Ifaces, NEW x \in Shapings,
         NEW c \in ApplySet \union RemoveSet
  PROVE  Effect(c, k, w, x) \in Kernels
BY DEF Kernels, Effect, ApplySet, RemoveSet, Shapings, NoTarget

-----------------------------------------------------------------------------
(* Type correctness. *)

LEMMA PlaceNames ==
  /\ 1 \in 1 .. 7
  /\ "idle" \in Places /\ "save" \in Places /\ "snap" \in Places
  /\ "run" \in Places /\ "applied" \in Places /\ "failed" \in Places
BY DEF Places

LEMMA IdleType == Idle \in Jobs /\ HasCommand(Idle)
BY DEF Idle, Jobs, Places, Settings, Shapings, HasCommand

LEMMA BootedType == Booted \in Kernels
BY DEF Booted, Kernels, Shapings

LEMMA CheckedType ==
  ASSUME NEW r \in Jobs, r.step = 1
  PROVE  /\ Checked(r) \in Jobs /\ HasCommand(Checked(r))
         /\ Checked(r).to = r.to /\ Checked(r).step = 1
         /\ Checked(r).alone = r.alone /\ Checked(r).clean = r.clean
         /\ Checked(r).pc \in {"run", "applied", "failed"}
         /\ Checked(r).pc = "run" => r.to.wan # NoWAN
         /\ Checked(r).pc = "applied" => r.to.wan = NoWAN
BY DEF Checked, Jobs, Places, Settings, HasCommand, Shapings, Commands, ApplyCommands,
       RemoveCommands

LEMMA OnwardType ==
  ASSUME NEW r \in Jobs, r.pc = "run", HasCommand(r)
  PROVE  /\ Onward(r) \in Jobs /\ HasCommand(Onward(r))
         /\ Onward(r).to = r.to /\ Onward(r).alone = r.alone /\ Onward(r).clean = r.clean
         /\ Onward(r).pc \in {"run", "applied"}
         /\ Onward(r).pc = "run" => Onward(r).step = r.step + 1
         /\ Onward(r).pc = "applied" <=> r.step = Len(Commands(r.to.sqm))
<1>1. r.step \in 1 .. 7 /\ Len(Commands(r.to.sqm)) \in 1 .. 7
  <2>1. CASE r.to.sqm = Off
    BY <2>1, RemoveOrder
  <2>2. CASE r.to.sqm # Off
    BY <2>2, ApplyOrder
  <2>3. QED  BY <2>1, <2>2
<1>2. r.to.wan \in Ifaces /\ r.to.sqm \in Shapings /\ r.step <= Len(Commands(r.to.sqm))
  BY DEF HasCommand
<1> DEFINE n == Len(Commands(r.to.sqm))
<1>3. n \in 1 .. 7 /\ r.step <= n
  BY <1>1, <1>2
<1>4. Onward(r) = IF r.step < n THEN [r EXCEPT !.step = r.step + 1]
                  ELSE [r EXCEPT !.pc = "applied", !.step = 1]
  BY DEF Onward
<1> HIDE DEF n
<1>5. CASE r.step < n
  <2> DEFINE o == [r EXCEPT !.step = r.step + 1]
  <2>1. o \in Jobs
    BY <1>1, <1>3, <1>5 DEF Jobs
  <2>2. /\ o.to = r.to /\ o.alone = r.alone /\ o.clean = r.clean
        /\ o.pc = "run" /\ o.step = r.step + 1
    BY DEF Jobs
  <2>3. Onward(r) = o
    BY <1>4, <1>5
  <2> HIDE DEF o
  <2>4. HasCommand(o)
    BY <1>1, <1>2, <1>3, <1>5, <2>2 DEF HasCommand, n
  <2>5. QED  BY <1>1, <1>3, <1>5, <2>1, <2>2, <2>3, <2>4 DEF n
<1>6. CASE r.step = n
  <2> DEFINE o == [r EXCEPT !.pc = "applied", !.step = 1]
  <2>1. o \in Jobs
    BY PlaceNames DEF Jobs
  <2>2. /\ o.to = r.to /\ o.alone = r.alone /\ o.clean = r.clean
        /\ o.pc = "applied" /\ o.step = 1
    BY DEF Jobs
  <2>3. Onward(r) = o
    BY <1>1, <1>3, <1>4, <1>6
  <2> HIDE DEF o
  <2>4. QED  BY <1>6, <2>1, <2>2, <2>3 DEF HasCommand, n
<1>7. QED  BY <1>1, <1>3, <1>5, <1>6

LEMMA ChangedType ==
  ASSUME NEW r \in Jobs, config \in Settings
  PROVE  Changed(r) \in Settings
BY DEF Changed, Jobs, Settings

\* The shape of work that every step keeps.
WorkOK == work \in [Actors -> Jobs] /\ \A a \in Actors : HasCommand(work[a])

LEMMA OneJob ==
  ASSUME WorkOK, NEW a \in Actors, NEW r \in Jobs, HasCommand(r),
         work' = [work EXCEPT ![a] = r]
  PROVE  WorkOK'
BY DEF WorkOK, HasCommand

LEMMA JoinsType ==
  ASSUME WorkOK, NEW h \in Handlers, NEW r \in Jobs, HasCommand(r), Joins(h, r)
  PROVE  WorkOK'
<1>1. ASSUME NEW a \in Actors PROVE work'[a] \in Jobs /\ HasCommand(work'[a])
  <2>1. work[a] \in Jobs /\ HasCommand(work[a])
    BY DEF WorkOK
  <2>2. [work[a] EXCEPT !.alone = FALSE] \in Jobs
        /\ HasCommand([work[a] EXCEPT !.alone = FALSE])
    BY <2>1 DEF Jobs, HasCommand
  <2>3. QED  BY <2>1, <2>2 DEF Joins
<1>2. QED  BY <1>1 DEF Joins, WorkOK

LEMMA TypeInit == ShapingInit => ShapingTypeOK
<1> SUFFICES ASSUME ShapingInit PROVE ShapingTypeOK
  OBVIOUS
<1>1. file \in Settings /\ config \in Settings
  BY DEF ShapingInit, Settings, Shapings
<1>2. work \in [Actors -> Jobs] /\ \A a \in Actors : HasCommand(work[a])
  BY IdleType DEF ShapingInit
<1>3. kernel \in Kernels /\ tangled \in BOOLEAN
  BY BootedType DEF ShapingInit
<1>4. QED  BY <1>1, <1>2, <1>3 DEF ShapingInit, ShapingTypeOK

LEMMA TypeNext == ShapingTypeOK /\ [ShapingNext]_shapingVars => ShapingTypeOK'
<1> SUFFICES ASSUME ShapingTypeOK, [ShapingNext]_shapingVars PROVE ShapingTypeOK'
  OBVIOUS
<1> USE DEF ShapingTypeOK
<1>0. WorkOK
  BY DEF WorkOK
<1>1. ASSUME NEW h \in Handlers, Post(h) PROVE ShapingTypeOK'
  <2>1. PICK kind \in {"sqm", "network", "import"}, to \in Settings, lone \in BOOLEAN :
          Joins(h, [Idle EXCEPT !.pc = "save", !.kind = kind, !.to = to, !.alone = lone])
    BY <1>1 DEF Post
  <2> DEFINE s == [Idle EXCEPT !.pc = "save", !.kind = kind, !.to = to, !.alone = lone]
  <2>2. s \in Jobs /\ HasCommand(s)
    <3>1. s \in Jobs
      BY IdleType, PlaceNames DEF Jobs
    <3>2. s.pc = "save" /\ s.step = 1
      BY DEF Idle
    <3>3. QED  BY <3>1, <3>2 DEF HasCommand
  <2> HIDE DEF s
  <2>3. Joins(h, s)
    BY <2>1 DEF s
  <2>4. WorkOK'
    BY <1>0, <2>2, <2>3, JoinsType
  <2>5. used' \in [requests : Nat, saves : Nat, commands : Nat]
    BY <1>1 DEF Post
  <2>6. QED  BY <1>1, <2>4, <2>5 DEF Post, WorkOK
<1>2. ASSUME NEW h \in Handlers, Save(h) PROVE ShapingTypeOK'
  <2>1. h \in Actors /\ work[h] \in Jobs /\ work[h].step = 1
    BY <1>2 DEF Actors, Save, HasCommand
  <2>2. [work[h] EXCEPT !.pc = "snap"] \in Jobs /\ HasCommand([work[h] EXCEPT !.pc = "snap"])
    BY <2>1 DEF Jobs, Places, HasCommand
  <2>3. WorkOK'
    BY <1>0, <1>2, <2>1, <2>2, IdleType, OneJob DEF Save
  <2>4. Changed(work[h]) \in Settings
    BY <2>1, ChangedType
  <2>5. QED  BY <1>2, <2>3, <2>4 DEF Save, WorkOK
<1>3. ASSUME NEW h \in Handlers, SaveFails(h) PROVE ShapingTypeOK'
  <2>1. h \in Actors /\ work[h] \in Jobs /\ work[h].step = 1
    BY <1>3 DEF Actors, SaveFails, HasCommand
  <2>2. /\ [work[h] EXCEPT !.pc = "failed"] \in Jobs
        /\ HasCommand([work[h] EXCEPT !.pc = "failed"])
    BY <2>1 DEF Jobs, Places, HasCommand
  <2>3. WorkOK'
    BY <1>0, <1>3, <2>1, <2>2, OneJob DEF SaveFails
  <2>4. Changed(work[h]) \in Settings
    BY <2>1, ChangedType
  <2>5. QED  BY <1>3, <2>3, <2>4 DEF SaveFails, WorkOK
<1>4. ASSUME NEW h \in Handlers, Snap(h) PROVE ShapingTypeOK'
  <2> DEFINE s == [work[h] EXCEPT !.to = [@ EXCEPT !.wan = config.wan]]
  <2>1. h \in Actors /\ work[h] \in Jobs /\ work[h].step = 1
    BY <1>4 DEF Actors, Snap, HasCommand
  <2>2. s \in Jobs /\ s.step = 1
    BY <2>1 DEF Jobs, Settings
  <2> HIDE DEF s
  <2>3. work' = [work EXCEPT ![h] = Checked(s)] /\ tangled' \in BOOLEAN
    BY <1>4 DEF Snap, s, Entangles
  <2>4. WorkOK'
    BY <1>0, <2>1, <2>2, <2>3, CheckedType, OneJob
  <2>5. QED  BY <1>4, <2>3, <2>4 DEF Snap, WorkOK
<1>5. ASSUME NEW h \in Handlers, Return(h) PROVE ShapingTypeOK'
  <2>1. h \in Actors
    BY DEF Actors
  <2>2. WorkOK'
    BY <1>0, <1>5, <2>1, IdleType, OneJob DEF Return
  <2>3. QED  BY <1>5, <2>2 DEF Return, WorkOK
<1>6. ASSUME NEW a \in Actors, Run(a) PROVE ShapingTypeOK'
  <2>1. /\ work[a] \in Jobs /\ work[a].pc = "run" /\ HasCommand(work[a])
        /\ work[a].to.wan \in Ifaces /\ work[a].to.sqm \in Shapings
    BY <1>6 DEF Run, Running, HasCommand
  <2>2. WorkOK'
    BY <1>0, <1>6, <2>1, OnwardType, OneJob DEF Run
  <2>3. kernel' \in Kernels
    BY <1>6, <2>1, CommandKnown, EffectType DEF Run
  <2>4. QED  BY <1>6, <2>2, <2>3 DEF Run, WorkOK
<1>7. ASSUME NEW a \in Actors, ApplyFails(a) PROVE ShapingTypeOK'
  <2> DEFINE s == [work[a] EXCEPT !.pc = "failed", !.step = 1]
  <2>1. s \in Jobs /\ HasCommand(s)
    <3>1. work[a] \in Jobs
      OBVIOUS
    <3>2. s \in Jobs
      BY <3>1, PlaceNames DEF Jobs
    <3>3. s.pc = "failed" /\ s.step = 1
      BY <3>1 DEF Jobs
    <3>4. QED  BY <3>2, <3>3 DEF HasCommand
  <2> HIDE DEF s
  <2>2. WorkOK'
    BY <1>0, <1>7, <2>1, OneJob DEF ApplyFails, s
  <2>3. QED  BY <1>7, <2>2 DEF ApplyFails, WorkOK
<1>8. ASSUME NEW a \in Actors, RemoveFails(a) PROVE ShapingTypeOK'
  <2> DEFINE s == [Onward(work[a]) EXCEPT !.clean = FALSE]
  <2>1. work[a] \in Jobs /\ work[a].pc = "run" /\ HasCommand(work[a])
    BY <1>8 DEF RemoveFails, Running
  <2>2. s \in Jobs /\ HasCommand(s)
    BY <2>1, OnwardType DEF Jobs, HasCommand
  <2> HIDE DEF s
  <2>3. WorkOK'
    BY <1>0, <1>8, <2>2, OneJob DEF RemoveFails, s
  <2>4. used' \in [requests : Nat, saves : Nat, commands : Nat]
    BY <1>8 DEF RemoveFails
  <2>5. QED  BY <1>8, <2>3, <2>4 DEF RemoveFails, WorkOK
<1>9. CASE Start
  <2> DEFINE s == [Idle EXCEPT !.to = file]
  <2>1. Main \in Actors /\ s \in Jobs /\ s.step = 1
    BY IdleType DEF Actors, Jobs, Idle
  <2> HIDE DEF s
  <2>2. WorkOK' /\ tangled' \in BOOLEAN
    <3>1. CASE file.sqm = Off
      BY <1>0, <1>9, <3>1 DEF Start, WorkOK, HasCommand
    <3>2. CASE file.sqm # Off
      <4>1. work' = [work EXCEPT ![Main] = Checked(s)] /\ tangled' \in BOOLEAN
        BY <1>9, <3>2 DEF Start, s, Entangles
      <4>2. QED  BY <1>0, <2>1, <4>1, CheckedType, OneJob
    <3>3. QED  BY <3>1, <3>2
  <2>3. process' \in {"down", "starting", "serving"}
    BY <1>9 DEF Start
  <2>4. QED  BY <1>9, <2>2, <2>3 DEF Start, WorkOK
<1>10. CASE Serve
  <2>1. WorkOK'
    BY <1>0, <1>10, IdleType, OneJob DEF Serve, Actors
  <2>2. QED  BY <1>10, <2>1 DEF Serve, WorkOK
<1>11. ASSUME Stops PROVE WorkOK' /\ process' = "down" /\ config' = file
                          /\ file' = file /\ used' = used
  BY <1>11, IdleType DEF Stops, WorkOK
<1>12. CASE Stop
  BY <1>11, <1>12 DEF Stop, WorkOK
<1>13. CASE Reboot
  BY <1>11, <1>13, BootedType DEF Reboot, WorkOK
<1>14. CASE UNCHANGED shapingVars
  BY <1>14 DEF shapingVars, HasCommand
<1>15. QED
  BY <1>1, <1>2, <1>3, <1>4, <1>5, <1>6, <1>7, <1>8, <1>9, <1>10, <1>12, <1>13, <1>14
  DEF ShapingNext

(* Every variable keeps to its type, and a sequence of commands always has an
   interface to run on, limits, and a command to run (sqm.go:62). *)
THEOREM ShapingTypeCorrect == ShapingSpec => []ShapingTypeOK
BY TypeInit, TypeNext, PTL DEF ShapingSpec

-----------------------------------------------------------------------------
(* What the commands of a sequence before the next one have brought about. *)

Done(r, k) ==
  IF r.to.sqm = Off
    THEN /\ r.step > 1 => k.root[r.to.wan] = Off
         /\ r.step > 2 => k.ingress[r.to.wan] = "none"
    ELSE /\ r.step > 3 => k.ifb = "up"
         /\ r.step > 4 => k.root[r.to.wan] = r.to.sqm
         /\ r.step > 6 => k.ingress[r.to.wan] = "redirect"

\* What command c changes, and what it leaves alone.
Changes(c, k, w, x, k2) ==
  /\ c \in {"modprobe", "add"} =>
       /\ k2.root = k.root /\ k2.ingress = k.ingress
       /\ k2.ifb = k.ifb \/ k.ifb = "absent"
  /\ c = "up" => k2.root = k.root /\ k2.ingress = k.ingress /\ k2.ifb = "up"
  /\ c = "root" => /\ k2.ingress = k.ingress /\ k2.ifb = k.ifb
                   /\ k2.root = [k.root EXCEPT ![w] = x]
  /\ c = "ingress" =>
       /\ k2.root = k.root /\ k2.ifb = k.ifb
       /\ k2.ingress = [k.ingress EXCEPT ![w] =
            IF k.ingress[w] = "none" THEN "bare" ELSE k.ingress[w]]
  /\ c = "redirect" => /\ k2.root = k.root /\ k2.ifb = k.ifb
                       /\ k2.ingress = [k.ingress EXCEPT ![w] = "redirect"]
  /\ c = "shape" => /\ k2.root = k.root /\ k2.ingress = k.ingress
                    /\ k2.ifb = k.ifb /\ k2.shaped = x
  /\ c = "delRoot" => /\ k2.ingress = k.ingress /\ k2.ifb = k.ifb
                      /\ k2.root = [k.root EXCEPT ![w] = Off]
  /\ c = "delIngress" => /\ k2.root = k.root /\ k2.ifb = k.ifb
                         /\ k2.ingress = [k.ingress EXCEPT ![w] = "none"]
  /\ c = "delShape" => /\ k2.root = k.root /\ k2.ingress = k.ingress
                       /\ k2.ifb = k.ifb
  /\ c = "delIfb" =>
       /\ k2.root = k.root /\ k2.ifb = "absent"
       /\ k2.ingress = [i \in Ifaces |-> NoTarget(k.ingress[i])]

LEMMA Effects ==
  ASSUME NEW k \in Kernels, NEW w \in Ifaces, NEW x \in Shapings,
         NEW c \in ApplySet \union RemoveSet, NEW k2, k2 = Effect(c, k, w, x)
  PROVE  Changes(c, k, w, x, k2)
<1>1. CASE c \in {"modprobe", "add", "up", "root"}
  BY <1>1 DEF Effect, Kernels, Changes
<1>2. CASE c \in {"ingress", "redirect", "shape"}
  BY <1>2 DEF Effect, Kernels, Changes
<1>3. CASE c \in {"delRoot", "delIngress", "delShape"}
  BY <1>3 DEF Effect, Kernels, Changes
<1>4. CASE c = "delIfb"
  BY <1>4 DEF Effect, Kernels, Changes
<1>5. QED  BY <1>1, <1>2, <1>3, <1>4 DEF ApplySet, RemoveSet

LEMMA ApplyStep ==
  ASSUME NEW r \in Jobs, r.pc = "run", HasCommand(r), r.to.sqm # Off,
         NEW k \in Kernels, Done(r, k),
         NEW k2, k2 = Effect(Command(r), k, r.to.wan, r.to.sqm)
  PROVE  /\ \A r2 \in Jobs : r2.to = r.to /\ r2.step = r.step + 1 => Done(r2, k2)
         /\ r.step = 7 => AsAsked(k2, r.to.wan, r.to.sqm)
<1>1. /\ r.to.sqm \in Rates /\ r.to.wan \in Ifaces /\ r.step \in 1 .. 7
      /\ Command(r) \in ApplySet \union RemoveSet /\ r.to.sqm \in Shapings
      /\ k.root \in [Ifaces -> Shapings]
      /\ k.ingress \in [Ifaces -> {"none", "bare", "redirect", "dangling"}]
  BY ApplyOrder, CommandKnown DEF Kernels
<1>0. Changes(Command(r), k, r.to.wan, r.to.sqm, k2)
  BY <1>1, Effects
<1>2. CASE r.step = 1
  BY <1>1, <1>2 DEF Done
<1>3. CASE r.step = 2
  BY <1>1, <1>3 DEF Done
<1>4. CASE r.step = 3
  <2>1. Command(r) = "up"
    BY <1>4, ApplyOrder
  <2>2. k2.ifb = "up"
    BY <1>0, <2>1 DEF Changes
  <2>3. QED  BY <1>1, <1>4, <2>2 DEF Done
<1>5. CASE r.step = 4
  <2>1. Command(r) = "root"
    BY <1>5, ApplyOrder
  <2>2. k2.ifb = k.ifb /\ k2.root = [k.root EXCEPT ![r.to.wan] = r.to.sqm]
    BY <1>0, <2>1 DEF Changes
  <2>3. QED  BY <1>1, <1>5, <2>2 DEF Done
<1>6. CASE r.step = 5
  <2>1. Command(r) = "ingress"
    BY <1>6, ApplyOrder
  <2>2. k2.ifb = k.ifb /\ k2.root = k.root
    BY <1>0, <2>1 DEF Changes
  <2>3. QED  BY <1>1, <1>6, <2>2 DEF Done
<1>7. CASE r.step = 6
  <2>1. Command(r) = "redirect"
    BY <1>7, ApplyOrder
  <2>2. /\ k2.ifb = k.ifb /\ k2.root = k.root
        /\ k2.ingress = [k.ingress EXCEPT ![r.to.wan] = "redirect"]
    BY <1>0, <2>1 DEF Changes
  <2>3. QED  BY <1>1, <1>7, <2>2 DEF Done
<1>8. CASE r.step = 7
  <2>1. Command(r) = "shape"
    BY <1>8, ApplyOrder
  <2>2. /\ k2.ifb = k.ifb /\ k2.root = k.root /\ k2.ingress = k.ingress
        /\ k2.shaped = r.to.sqm
    BY <1>0, <2>1 DEF Changes
  <2>3. \A r2 \in Jobs : r2.step # r.step + 1
    BY <1>8 DEF Jobs
  <2>4. QED  BY <1>1, <1>8, <2>2, <2>3 DEF AsAsked, Done
<1>9. QED  BY <1>1, <1>2, <1>3, <1>4, <1>5, <1>6, <1>7, <1>8

LEMMA RemoveStep ==
  ASSUME NEW r \in Jobs, r.pc = "run", HasCommand(r), r.to.sqm = Off,
         NEW k \in Kernels, Done(r, k),
         NEW k2, k2 = Effect(Command(r), k, r.to.wan, r.to.sqm)
  PROVE  /\ \A r2 \in Jobs : r2.to = r.to /\ r2.step = r.step + 1 => Done(r2, k2)
         /\ r.step = 4 => AsAsked(k2, r.to.wan, r.to.sqm)
<1>1. /\ r.to.wan \in Ifaces /\ r.step \in 1 .. 4
      /\ Command(r) \in ApplySet \union RemoveSet /\ r.to.sqm \in Shapings
      /\ k.root \in [Ifaces -> Shapings]
      /\ k.ingress \in [Ifaces -> {"none", "bare", "redirect", "dangling"}]
  BY RemoveOrder, CommandKnown DEF Kernels
<1>0. Changes(Command(r), k, r.to.wan, r.to.sqm, k2)
  BY <1>1, Effects
<1>2. CASE r.step = 1
  <2>1. Command(r) = "delRoot"
    BY <1>2, RemoveOrder
  <2>2. k2.root = [k.root EXCEPT ![r.to.wan] = Off]
    BY <1>0, <2>1 DEF Changes
  <2>3. QED  BY <1>1, <1>2, <2>2 DEF Done
<1>3. CASE r.step = 2
  <2>1. Command(r) = "delIngress"
    BY <1>3, RemoveOrder
  <2>2. k2.root = k.root /\ k2.ingress = [k.ingress EXCEPT ![r.to.wan] = "none"]
    BY <1>0, <2>1 DEF Changes
  <2>3. QED  BY <1>1, <1>3, <2>2 DEF Done
<1>4. CASE r.step = 3
  <2>1. Command(r) = "delShape"
    BY <1>4, RemoveOrder
  <2>2. k2.root = k.root /\ k2.ingress = k.ingress
    BY <1>0, <2>1 DEF Changes
  <2>3. QED  BY <1>1, <1>4, <2>2 DEF Done
<1>5. CASE r.step = 4
  <2>1. Command(r) = "delIfb"
    BY <1>5, RemoveOrder
  <2>2. /\ k2.root = k.root /\ k2.ifb = "absent"
        /\ k2.ingress = [i \in Ifaces |-> NoTarget(k.ingress[i])]
    BY <1>0, <2>1 DEF Changes
  <2>3. k2.ingress[r.to.wan] = "none" /\ k2.root[r.to.wan] = Off
    BY <1>1, <1>5, <2>2 DEF Done, NoTarget
  <2>4. \A r2 \in Jobs : r2.to = r.to /\ r2.step = r.step + 1 => Done(r2, k2)
    BY <1>5, <2>3 DEF Done
  <2>5. QED  BY <1>1, <1>5, <2>2, <2>3, <2>4 DEF AsAsked
<1>6. QED  BY <1>1, <1>2, <1>3, <1>4, <1>5

LEMMA StepDone ==
  ASSUME NEW r \in Jobs, r.pc = "run", HasCommand(r), NEW k \in Kernels, Done(r, k),
         NEW k2, k2 = Effect(Command(r), k, r.to.wan, r.to.sqm)
  PROVE  /\ Onward(r).pc = "run" => Done(Onward(r), k2)
         /\ Onward(r).pc = "applied" => AsAsked(k2, r.to.wan, r.to.sqm)
<1>1. /\ Onward(r) \in Jobs /\ Onward(r).to = r.to
      /\ Onward(r).pc = "run" => Onward(r).step = r.step + 1
      /\ Onward(r).pc = "applied" => r.step = Len(Commands(r.to.sqm))
  BY OnwardType
<1>2. CASE r.to.sqm = Off
  BY <1>1, <1>2, RemoveOrder, RemoveStep
<1>3. CASE r.to.sqm # Off
  BY <1>1, <1>3, ApplyOrder, ApplyStep
<1>4. QED  BY <1>2, <1>3

-----------------------------------------------------------------------------
(* What a sequence that overlaps with no other leaves to the kernel. *)

\* While r runs no other interface is shaped, and its commands have done their part.
Calm(r, k) ==
  r.pc = "run" => /\ \A i \in Ifaces \ {r.to.wan} : k.ingress[i] = "none"
                  /\ Done(r, k)

OneRuns == \A a, b \in Actors : Running(a) /\ Running(b) => a = b

CalmInv ==
  /\ NoDanglingRedirect
  /\ ~tangled => OneRuns /\ \A a \in Actors : Calm(work[a], kernel)

\* What Post starts.
LEMMA PostJoins ==
  ASSUME NEW h \in Handlers, Post(h)
  PROVE  \E s : /\ Joins(h, s) /\ s.pc = "save" /\ s.step = 1
                /\ s.alone => \A b \in Actors : work[b].pc = "idle"
<1>1. PICK kind \in {"sqm", "network", "import"}, to \in Settings, lone \in BOOLEAN :
        /\ lone <=> \A b \in Actors : work[b].pc = "idle"
        /\ Joins(h, [Idle EXCEPT !.pc = "save", !.kind = kind, !.to = to, !.alone = lone])
  BY DEF Post
<1> DEFINE s == [Idle EXCEPT !.pc = "save", !.kind = kind, !.to = to, !.alone = lone]
<1>2. s.pc = "save" /\ s.step = 1 /\ s.alone = lone
  BY DEF Idle
<1> HIDE DEF s
<1>3. Joins(h, s)
  BY <1>1 DEF s
<1>4. QED  BY <1>1, <1>2, <1>3

\* The kernel lets everything in.
Open(k) == \A i \in Ifaces : /\ k.ingress[i] # "dangling"
                             /\ k.ingress[i] = "redirect" => k.ifb = "up"

LEMMA OpenStep ==
  ASSUME NEW r \in Jobs, r.pc = "run", HasCommand(r), NEW k \in Kernels, Calm(r, k),
         Open(k), NEW k2, k2 = Effect(Command(r), k, r.to.wan, r.to.sqm)
  PROVE  Open(k2) /\ \A i \in Ifaces \ {r.to.wan} : k2.ingress[i] = "none"
<1>1. /\ r.to.wan \in Ifaces /\ Command(r) \in ApplySet \union RemoveSet
      /\ Done(r, k) /\ \A i \in Ifaces \ {r.to.wan} : k.ingress[i] = "none"
      /\ k.ingress \in [Ifaces -> {"none", "bare", "redirect", "dangling"}]
  BY CommandKnown DEF Calm, Kernels
<1>2. Changes(Command(r), k, r.to.wan, r.to.sqm, k2)
  BY <1>1, CommandKnown, Effects
<1>3. CASE Command(r) \in {"modprobe", "add", "up", "root", "delRoot", "shape", "delShape"}
  BY <1>1, <1>2, <1>3 DEF Changes, Open
<1>4. CASE Command(r) \in {"ingress", "delIngress"}
  BY <1>1, <1>2, <1>4 DEF Changes, Open
<1>5. CASE Command(r) = "redirect"
  <2>1. k.ifb = "up"
    <3>1. CASE r.to.sqm = Off
      BY <1>5, <3>1, RemoveOrder
    <3>2. CASE r.to.sqm # Off
      BY <1>1, <1>5, <3>2, ApplyOrder DEF Done
    <3>3. QED  BY <3>1, <3>2
  <2>2. QED  BY <1>1, <1>2, <1>5, <2>1 DEF Changes, Open
<1>6. CASE Command(r) = "delIfb"
  <2>1. k.ingress[r.to.wan] = "none"
    <3>1. CASE r.to.sqm = Off
      BY <1>1, <1>6, <3>1, RemoveOrder DEF Done
    <3>2. CASE r.to.sqm # Off
      BY <1>6, <3>2, ApplyOrder
    <3>3. QED  BY <3>1, <3>2
  <2>2. QED  BY <1>1, <1>2, <1>6, <2>1 DEF Changes, Open, NoTarget
<1>7. QED  BY <1>1, <1>3, <1>4, <1>5, <1>6 DEF ApplySet, RemoveSet

LEMMA CalmInit == ShapingInit => CalmInv
BY DEF ShapingInit, CalmInv, NoDanglingRedirect, OneRuns, Running, Calm, Idle, Booted

\* One goroutine goes on, not to run, and the kernel stays.
LEMMA CalmOne ==
  ASSUME ShapingTypeOK, CalmInv, NEW a \in Actors, NEW r, r.pc # "run",
         work' = [work EXCEPT ![a] = r], kernel' = kernel, tangled' = tangled
  PROVE  CalmInv'
BY DEF ShapingTypeOK, CalmInv, NoDanglingRedirect, OneRuns, Running, Calm

\* It begins a sequence.
LEMMA CalmBegins ==
  ASSUME ShapingTypeOK, CalmInv, NEW a \in Actors, NEW r \in Jobs, r.step = 1,
         work' = [work EXCEPT ![a] = r], kernel' = kernel,
         tangled' = (tangled \/ Entangles(r))
  PROVE  CalmInv'
<1>1. NoDanglingRedirect'
  BY DEF CalmInv, NoDanglingRedirect
<1>2. ASSUME ~tangled' PROVE OneRuns' /\ \A b \in Actors : Calm(work[b], kernel)'
  <2>1. ~tangled /\ ~Entangles(r)
    BY <1>2
  <2>2. OneRuns /\ \A b \in Actors : Calm(work[b], kernel)
    BY <2>1 DEF CalmInv
  <2>3. r.pc = "run" => \A b \in Actors : ~Running(b)
    BY <2>1 DEF Entangles
  <2>4. OneRuns'
    BY <2>2, <2>3 DEF OneRuns, Running, ShapingTypeOK
  <2>5. r.pc = "run" => \A i \in Ifaces \ {r.to.wan} : kernel.ingress[i] = "none"
    BY <2>1 DEF Entangles
  <2>6. Calm(r, kernel)
    BY <2>5 DEF Calm, Done
  <2>7. ASSUME NEW b \in Actors PROVE Calm(work'[b], kernel')
    BY <2>2, <2>6 DEF ShapingTypeOK
  <2>8. QED  BY <2>4, <2>7
<1>3. QED  BY <1>1, <1>2 DEF CalmInv

LEMMA CalmNext == ShapingTypeOK /\ CalmInv /\ [ShapingNext]_shapingVars => CalmInv'
<1> SUFFICES ASSUME ShapingTypeOK, CalmInv, [ShapingNext]_shapingVars PROVE CalmInv'
  OBVIOUS
<1>0. work \in [Actors -> Jobs] /\ kernel \in Kernels
      /\ Handlers \subseteq Actors /\ Main \in Actors
  BY DEF ShapingTypeOK, Actors
<1>1. ASSUME NEW h \in Handlers, Post(h) PROVE CalmInv'
  <2>1. PICK s : Joins(h, s) /\ s.pc = "save"
    BY <1>1, PostJoins
  <2>2. kernel' = kernel /\ tangled' = tangled
    BY <1>1 DEF Post
  <2>3. ASSUME NEW a \in Actors
        PROVE  /\ work'[a].pc = "run" =>
                    /\ work[a].pc = "run" /\ work'[a].to = work[a].to
                    /\ work'[a].step = work[a].step
    <3>1. work[a] \in Jobs
      BY <1>0
    <3>2. QED  BY <2>1, <3>1 DEF Joins, Jobs
  <2>4. NoDanglingRedirect'
    BY <2>2 DEF CalmInv, NoDanglingRedirect
  <2>5. ~tangled => OneRuns'
    BY <2>3 DEF CalmInv, OneRuns, Running
  <2>6. ~tangled => \A a \in Actors : Calm(work'[a], kernel)
    BY <2>3 DEF CalmInv, Calm, Done
  <2>7. QED  BY <2>2, <2>4, <2>5, <2>6 DEF CalmInv
<1>2. ASSUME NEW h \in Handlers, Save(h) PROVE CalmInv'
  <2>1. \E r : r.pc # "run" /\ work' = [work EXCEPT ![h] = r]
    BY <1>0, <1>2 DEF Save, Idle, Jobs
  <2>2. QED  BY <1>0, <1>2, <2>1, CalmOne DEF Save
<1>3. ASSUME NEW h \in Handlers, SaveFails(h) PROVE CalmInv'
  <2>1. \E r : r.pc # "run" /\ work' = [work EXCEPT ![h] = r]
    BY <1>0, <1>3 DEF SaveFails, Jobs
  <2>2. QED  BY <1>0, <1>3, <2>1, CalmOne DEF SaveFails
<1>4. ASSUME NEW h \in Handlers, Snap(h) PROVE CalmInv'
  <2> DEFINE s == [work[h] EXCEPT !.to = [@ EXCEPT !.wan = config.wan]]
  <2>1. work[h].step = 1
    BY <1>0, <1>4 DEF Snap, ShapingTypeOK, HasCommand
  <2>2. s \in Jobs /\ s.step = 1
    BY <1>0, <2>1 DEF Jobs, Settings, ShapingTypeOK
  <2> HIDE DEF s
  <2>3. /\ work' = [work EXCEPT ![h] = Checked(s)] /\ kernel' = kernel
        /\ tangled' = (tangled \/ Entangles(Checked(s)))
    BY <1>4 DEF Snap, s
  <2>4. Checked(s) \in Jobs /\ Checked(s).step = 1
    BY <2>2, CheckedType
  <2>5. QED  BY <1>0, <2>3, <2>4, CalmBegins
<1>5. ASSUME NEW h \in Handlers, Return(h) PROVE CalmInv'
  <2>1. Idle.pc # "run"
    BY DEF Idle
  <2>2. QED  BY <1>0, <1>5, <2>1, CalmOne DEF Return
<1>6. ASSUME NEW a \in Actors, Run(a) PROVE CalmInv'
  <2>1. /\ work[a] \in Jobs /\ work[a].pc = "run" /\ HasCommand(work[a])
        /\ kernel' = Effect(Command(work[a]), kernel, work[a].to.wan, work[a].to.sqm)
        /\ work' = [work EXCEPT ![a] = Onward(work[a])] /\ tangled' = tangled
    BY <1>6 DEF Run, Running, ShapingTypeOK
  <2>2. CASE tangled
    BY <2>1, <2>2 DEF CalmInv, NoDanglingRedirect
  <2>3. CASE ~tangled
    <3>1. Calm(work[a], kernel) /\ Open(kernel) /\ OneRuns
      BY <2>3 DEF CalmInv, NoDanglingRedirect, Open
    <3>2. Open(kernel') /\ \A i \in Ifaces \ {work[a].to.wan} : kernel'.ingress[i] = "none"
      BY <1>0, <2>1, <3>1, OpenStep
    <3>3. Onward(work[a]).to = work[a].to
      BY <2>1, OnwardType
    <3>4. Onward(work[a]).pc = "run" => Done(Onward(work[a]), kernel')
      BY <1>0, <2>1, <3>1, StepDone DEF Calm
    <3>5. Calm(Onward(work[a]), kernel')
      BY <3>2, <3>3, <3>4 DEF Calm
    <3>6. ASSUME NEW b \in Actors, b # a PROVE work'[b] = work[b] /\ work[b].pc # "run"
      BY <1>0, <2>1, <3>1, <3>6 DEF OneRuns, Running
    <3>7. OneRuns' /\ \A b \in Actors : Calm(work'[b], kernel')
      BY <1>0, <2>1, <3>5, <3>6 DEF OneRuns, Running, Calm
    <3>8. QED  BY <3>2, <3>7 DEF CalmInv, NoDanglingRedirect, Open
  <2>4. QED  BY <2>2, <2>3
<1>7. ASSUME NEW a \in Actors, ApplyFails(a) PROVE CalmInv'
  <2>1. \E r : r.pc # "run" /\ work' = [work EXCEPT ![a] = r]
    BY <1>0, <1>7 DEF ApplyFails, Jobs
  <2>2. QED  BY <1>7, <2>1, CalmOne DEF ApplyFails
<1>8. ASSUME NEW a \in Actors, RemoveFails(a) PROVE CalmInv'
  BY <1>8 DEF RemoveFails, CalmInv, NoDanglingRedirect
<1>9. CASE Start
  <2> DEFINE s == [Idle EXCEPT !.to = file]
  <2>1. s \in Jobs /\ s.step = 1
    BY IdleType DEF Jobs, Idle, ShapingTypeOK
  <2> HIDE DEF s
  <2>2. CASE file.sqm = Off
    BY <1>9, <2>2 DEF Start, CalmInv, NoDanglingRedirect, OneRuns, Running
  <2>3. CASE file.sqm # Off
    <3>1. /\ work' = [work EXCEPT ![Main] = Checked(s)] /\ kernel' = kernel
          /\ tangled' = (tangled \/ Entangles(Checked(s)))
      BY <1>9, <2>3 DEF Start, s
    <3>2. Checked(s) \in Jobs /\ Checked(s).step = 1
      BY <2>1, CheckedType
    <3>3. QED  BY <1>0, <3>1, <3>2, CalmBegins
  <2>4. QED  BY <2>2, <2>3
<1>10. CASE Serve
  <2>1. Idle.pc # "run"
    BY DEF Idle
  <2>2. QED  BY <1>0, <1>10, <2>1, CalmOne DEF Serve
<1>11. CASE Stop
  BY <1>11 DEF Stop, Stops, CalmInv, NoDanglingRedirect, OneRuns, Running, Calm, Idle
<1>12. CASE Reboot
  BY <1>12 DEF Reboot, Stops, CalmInv, NoDanglingRedirect, OneRuns, Running, Calm, Idle,
               Booted
<1>13. CASE UNCHANGED shapingVars
  BY <1>13 DEF shapingVars, CalmInv, NoDanglingRedirect, OneRuns, Running
<1>14. QED
  BY <1>1, <1>2, <1>3, <1>4, <1>5, <1>6, <1>7, <1>8, <1>9, <1>10, <1>11, <1>12, <1>13
  DEF ShapingNext

(* Nothing that comes in is lost to an ifb0 that is not up, as long as
   sequences do not overlap, no other interface is shaped and everything that
   is to be deleted goes (sqm.go:87, 121). *)
THEOREM NothingLost == ShapingSpec => []NoDanglingRedirect
<1>1. ShapingSpec => []CalmInv
  BY CalmInit, CalmNext, ShapingTypeCorrect, PTL DEF ShapingSpec
<1>2. CalmInv => NoDanglingRedirect
  BY DEF CalmInv
<1>3. QED  BY <1>1, <1>2, PTL

-----------------------------------------------------------------------------
(* What a request that was alone finds in the settings and in the kernel. *)

Quiet ==
  /\ process # "serving" =>
       config = file /\ \A h \in Handlers : work[h].pc = "idle"
  /\ process # "starting" => work[Main].pc = "idle"

Alone ==
  \A a, b \in Actors :
    a # b /\ work[a].pc # "idle" /\ work[a].alone => work[b].pc = "idle"

Honest(r, c, f, k) ==
  r.alone =>
    /\ r.pc = "snap" => c.sqm = r.to.sqm /\ f = c
    /\ r.pc \in {"run", "applied"} => c.sqm = r.to.sqm /\ c.wan = r.to.wan /\ f = c
    /\ r.pc = "run" /\ r.clean => Done(r, k)
    /\ r.pc = "applied" /\ r.clean /\ r.to.wan # NoWAN =>
         AsAsked(k, r.to.wan, r.to.sqm)

LoneInv == Quiet /\ Alone /\ \A a \in Actors : Honest(work[a], config, file, kernel)

LEMMA LoneInit == ShapingInit => LoneInv
BY DEF ShapingInit, LoneInv, Quiet, Alone, Honest, Idle, Actors

\* A goroutine that is busy goes on as r; the others are not alone.
LEMMA LoneOne ==
  ASSUME work \in [Actors -> Jobs], Alone,
         NEW a \in Actors, work[a].pc # "idle", NEW r, work' = [work EXCEPT ![a] = r],
         r.alone => work[a].alone \/ r.pc = "idle",
         Honest(r, config', file', kernel')
  PROVE  Alone' /\ \A b \in Actors : Honest(work[b], config, file, kernel)'
<1>1. ASSUME NEW b \in Actors, b # a PROVE work[b].pc = "idle" \/ ~work[b].alone
  BY <1>1 DEF Alone
<1>2. ASSUME NEW b \in Actors PROVE Honest(work'[b], config', file', kernel')
  <2>1. CASE b = a
    BY <2>1
  <2>2. CASE b # a
    <3>1. work'[b] = work[b]
      BY <2>2
    <3>2. QED  BY <1>1, <2>2, <3>1 DEF Honest
  <2>3. QED  BY <2>1, <2>2
<1>3. ASSUME NEW b \in Actors, NEW c \in Actors, b # c,
             work'[b].pc # "idle", work'[b].alone
      PROVE  work'[c].pc = "idle"
  <2>1. CASE b = a
    <3>1. work[a].alone /\ work'[c] = work[c]
      BY <1>3, <2>1
    <3>2. QED  BY <1>3, <2>1, <3>1 DEF Alone
  <2>2. CASE b # a
    BY <1>1, <1>3, <2>2
  <2>3. QED  BY <2>1, <2>2
<1>4. QED  BY <1>2, <1>3 DEF Alone

\* A goroutine starts as r while all others are idle.
LEMMA LoneFirst ==
  ASSUME work \in [Actors -> Jobs], \A b \in Actors : work[b].pc = "idle",
         NEW a \in Actors, NEW r, work' = [work EXCEPT ![a] = r],
         Honest(r, config', file', kernel')
  PROVE  Alone' /\ \A b \in Actors : Honest(work[b], config, file, kernel)'
BY DEF Alone, Honest

LEMMA LoneNext == ShapingTypeOK /\ LoneInv /\ [ShapingNext]_shapingVars => LoneInv'
<1> SUFFICES ASSUME ShapingTypeOK, LoneInv, [ShapingNext]_shapingVars PROVE LoneInv'
  OBVIOUS
<1>0. /\ work \in [Actors -> Jobs] /\ kernel \in Kernels
      /\ Handlers \subseteq Actors /\ Main \in Actors /\ Main \notin Handlers
      /\ config \in Settings /\ file \in Settings
      /\ Quiet /\ Alone /\ \A a \in Actors : Honest(work[a], config, file, kernel)
  BY ShapingAssumption DEF ShapingTypeOK, Actors, LoneInv
<1>1. ASSUME NEW h \in Handlers, Post(h) PROVE LoneInv'
  <2>1. PICK s : /\ Joins(h, s) /\ s.pc = "save" /\ s.step = 1
                 /\ s.alone => \A b \in Actors : work[b].pc = "idle"
    BY <1>1, PostJoins
  <2>2. /\ kernel' = kernel /\ config' = config /\ file' = file /\ process' = process
        /\ process = "serving"
    BY <1>1 DEF Post
  <2>3. ASSUME NEW a \in Actors, a # h
        PROVE  /\ work'[a].pc = work[a].pc
               /\ work'[a].pc # "idle" => ~work'[a].alone
    <3>1. work[a] \in Jobs
      BY <1>0
    <3>2. QED  BY <2>1, <2>3, <3>1 DEF Joins, Jobs
  <2>4. work'[h] = s
    BY <1>0, <2>1 DEF Joins
  <2>5. Quiet'
    BY <1>0, <2>2, <2>3 DEF Quiet
  <2>6. Alone'
    BY <1>0, <2>1, <2>3, <2>4 DEF Alone
  <2>7. ASSUME NEW a \in Actors PROVE Honest(work'[a], config', file', kernel')
    BY <2>1, <2>3, <2>4 DEF Honest
  <2>8. QED  BY <2>5, <2>6, <2>7 DEF LoneInv
<1>2. ASSUME NEW h \in Handlers, Save(h) PROVE LoneInv'
  <2> DEFINE s == [work[h] EXCEPT !.pc = "snap"]
  <2>1. work[h] \in Jobs /\ work[h].pc = "save" /\ h \in Actors /\ process = "serving"
    BY <1>0, <1>2 DEF Save, Quiet
  <2>2. /\ config' = Changed(work[h]) /\ file' = config' /\ process' = process
        /\ work' = [work EXCEPT ![h] = IF work[h].kind = "sqm" THEN s ELSE Idle]
    BY <1>2 DEF Save
  <2>3. s.pc = "snap" /\ s.alone = work[h].alone /\ s.to = work[h].to
    BY <2>1 DEF Jobs
  <2> HIDE DEF s
  <2>4. Quiet'
    BY <1>0, <2>1, <2>2 DEF Quiet
  <2>5. CASE work[h].kind = "sqm"
    <3>1. config' = [config EXCEPT !.sqm = work[h].to.sqm]
      BY <2>2, <2>5 DEF Changed
    <3>2. Honest(s, config', file', kernel')
      BY <1>0, <2>2, <2>3, <3>1 DEF Honest, Settings
    <3>3. QED  BY <1>0, <2>1, <2>2, <2>3, <2>4, <2>5, <3>2, LoneOne DEF LoneInv
  <2>6. CASE work[h].kind # "sqm"
    <3>1. Idle.pc = "idle" /\ Honest(Idle, config', file', kernel')
      BY DEF Idle, Honest
    <3>2. QED  BY <1>0, <2>1, <2>2, <2>4, <2>6, <3>1, LoneOne DEF LoneInv
  <2>7. QED  BY <2>5, <2>6
<1>3. ASSUME NEW h \in Handlers, SaveFails(h) PROVE LoneInv'
  <2> DEFINE s == [work[h] EXCEPT !.pc = "failed"]
  <2>1. work[h] \in Jobs /\ work[h].pc = "save" /\ h \in Actors /\ process = "serving"
    BY <1>0, <1>3 DEF SaveFails, Quiet
  <2>2. s.pc = "failed" /\ s.alone = work[h].alone
    BY <2>1 DEF Jobs
  <2> HIDE DEF s
  <2>3. process' = process /\ work' = [work EXCEPT ![h] = s]
    BY <1>3 DEF SaveFails, s
  <2>4. Quiet'
    BY <1>0, <2>1, <2>3 DEF Quiet
  <2>5. Honest(s, config', file', kernel')
    BY <2>2 DEF Honest
  <2>6. QED  BY <1>0, <2>1, <2>2, <2>3, <2>4, <2>5, LoneOne DEF LoneInv
<1>4. ASSUME NEW h \in Handlers, Snap(h) PROVE LoneInv'
  <2> DEFINE s == [work[h] EXCEPT !.to = [@ EXCEPT !.wan = config.wan]]
  <2>1. /\ work[h] \in Jobs /\ work[h].pc = "snap" /\ work[h].step = 1 /\ h \in Actors
        /\ process = "serving"
    BY <1>0, <1>4 DEF Snap, Quiet, ShapingTypeOK, HasCommand
  <2>2. /\ s \in Jobs /\ s.step = 1 /\ s.alone = work[h].alone
        /\ s.to.wan = config.wan /\ s.to.sqm = work[h].to.sqm
    BY <1>0, <2>1 DEF Jobs, Settings
  <2> HIDE DEF s
  <2>3. /\ work' = [work EXCEPT ![h] = Checked(s)] /\ process' = process
        /\ config' = config /\ file' = file
    BY <1>4 DEF Snap, s
  <2>4. Quiet'
    BY <1>0, <2>1, <2>3 DEF Quiet
  <2>5. /\ Checked(s).to = s.to /\ Checked(s).step = 1 /\ Checked(s).alone = s.alone
        /\ Checked(s).pc \in {"run", "applied", "failed"}
        /\ Checked(s).pc = "applied" => s.to.wan = NoWAN
    BY <2>2, CheckedType
  <2>6. s.alone => config.sqm = s.to.sqm /\ file = config
    BY <1>0, <2>1, <2>2 DEF Honest
  <2>7. Honest(Checked(s), config', file', kernel')
    BY <2>2, <2>3, <2>5, <2>6 DEF Honest, Done
  <2>8. QED  BY <1>0, <2>1, <2>2, <2>3, <2>4, <2>5, <2>7, LoneOne DEF LoneInv
<1>5. ASSUME NEW h \in Handlers, Return(h) PROVE LoneInv'
  <2>1. /\ work[h].pc # "idle" /\ h \in Actors /\ work' = [work EXCEPT ![h] = Idle]
        /\ UNCHANGED <<process, config, file>> /\ process = "serving"
    BY <1>0, <1>5 DEF Return, Quiet
  <2>2. Idle.pc = "idle" /\ Honest(Idle, config', file', kernel')
    BY DEF Idle, Honest
  <2>3. Quiet'
    BY <1>0, <2>1 DEF Quiet
  <2>4. QED  BY <1>0, <2>1, <2>2, <2>3, LoneOne DEF LoneInv
<1>6. ASSUME NEW a \in Actors, Run(a) PROVE LoneInv'
  <2>1. /\ work[a] \in Jobs /\ work[a].pc = "run" /\ HasCommand(work[a])
        /\ kernel' = Effect(Command(work[a]), kernel, work[a].to.wan, work[a].to.sqm)
        /\ work' = [work EXCEPT ![a] = Onward(work[a])]
        /\ UNCHANGED <<process, config, file>>
    BY <1>6 DEF Run, Running, ShapingTypeOK
  <2>2. /\ Onward(work[a]).to = work[a].to /\ Onward(work[a]).alone = work[a].alone
        /\ Onward(work[a]).clean = work[a].clean
        /\ Onward(work[a]).pc \in {"run", "applied"}
    BY <2>1, OnwardType
  <2>3. Honest(work[a], config, file, kernel)
    BY <1>0
  <2>4. ASSUME work[a].alone, work[a].clean
        PROVE  /\ Onward(work[a]).pc = "run" => Done(Onward(work[a]), kernel')
               /\ Onward(work[a]).pc = "applied" =>
                    AsAsked(kernel', work[a].to.wan, work[a].to.sqm)
    <3>1. Done(work[a], kernel)
      BY <2>1, <2>3, <2>4 DEF Honest
    <3>2. QED  BY <1>0, <2>1, <3>1, StepDone
  <2>5. Honest(Onward(work[a]), config', file', kernel')
    BY <2>1, <2>2, <2>3, <2>4 DEF Honest
  <2>6. Quiet'
    BY <1>0, <2>1, <2>2 DEF Quiet
  <2>7. QED  BY <1>0, <2>1, <2>2, <2>5, <2>6, LoneOne DEF LoneInv
<1>7. ASSUME NEW a \in Actors, ApplyFails(a) PROVE LoneInv'
  <2> DEFINE s == [work[a] EXCEPT !.pc = "failed", !.step = 1]
  <2>1. work[a] \in Jobs /\ work[a].pc = "run"
    BY <1>0, <1>7 DEF ApplyFails, Running
  <2>2. s.pc = "failed" /\ s.alone = work[a].alone
    BY <2>1 DEF Jobs
  <2> HIDE DEF s
  <2>3. UNCHANGED <<process, config, file>> /\ work' = [work EXCEPT ![a] = s]
    BY <1>7 DEF ApplyFails, s
  <2>4. Quiet'
    BY <1>0, <2>1, <2>3 DEF Quiet
  <2>5. Honest(s, config', file', kernel')
    BY <2>2 DEF Honest
  <2>6. QED  BY <1>0, <2>1, <2>2, <2>3, <2>4, <2>5, LoneOne DEF LoneInv
<1>8. ASSUME NEW a \in Actors, RemoveFails(a) PROVE LoneInv'
  <2> DEFINE o == Onward(work[a])
             s == [o EXCEPT !.clean = FALSE]
  <2>1. work[a] \in Jobs /\ work[a].pc = "run" /\ HasCommand(work[a])
    BY <1>0, <1>8 DEF RemoveFails, Running, ShapingTypeOK
  <2>2. /\ o \in Jobs /\ o.to = work[a].to /\ o.alone = work[a].alone
        /\ o.pc \in {"run", "applied"}
    BY <2>1, OnwardType
  <2>3. UNCHANGED <<process, config, file>> /\ work' = [work EXCEPT ![a] = s]
    BY <1>8 DEF RemoveFails
  <2> HIDE DEF o
  <2>4. s.pc = o.pc /\ s.to = o.to /\ s.alone = o.alone /\ ~s.clean
    BY <2>2 DEF Jobs
  <2> HIDE DEF s
  <2>5. Quiet'
    BY <1>0, <2>1, <2>3 DEF Quiet
  <2>6. Honest(work[a], config, file, kernel)
    BY <1>0
  <2>7. Honest(s, config', file', kernel')
    BY <2>1, <2>2, <2>3, <2>4, <2>6 DEF Honest
  <2>8. QED  BY <1>0, <2>1, <2>2, <2>3, <2>4, <2>5, <2>7, LoneOne DEF LoneInv
<1>9. CASE Start
  <2> DEFINE s == [Idle EXCEPT !.to = file]
  <2>1. s \in Jobs /\ s.step = 1 /\ s.to = file
    BY <1>0, IdleType DEF Jobs, Idle
  <2> HIDE DEF s
  <2>2. /\ config = file /\ config' = config /\ file' = file
        /\ \A b \in Actors : work[b].pc = "idle"
    BY <1>0, <1>9 DEF Start, Quiet, Actors
  <2>3. CASE file.sqm = Off
    BY <1>0, <1>9, <2>2, <2>3 DEF Start, LoneInv, Quiet, Alone, Honest
  <2>4. CASE file.sqm # Off
    <3>1. work' = [work EXCEPT ![Main] = Checked(s)] /\ process' = "starting"
      BY <1>9, <2>4 DEF Start, s
    <3>2. /\ Checked(s).to = file /\ Checked(s).step = 1
          /\ Checked(s).pc \in {"run", "applied", "failed"}
          /\ Checked(s).pc = "applied" => file.wan = NoWAN
      BY <2>1, CheckedType
    <3>3. Honest(Checked(s), config', file', kernel')
      BY <2>2, <3>2 DEF Honest, Done
    <3>4. Quiet'
      BY <1>0, <2>2, <3>1 DEF Quiet
    <3>5. QED  BY <1>0, <2>2, <3>1, <3>3, <3>4, LoneFirst DEF LoneInv
  <2>5. QED  BY <2>3, <2>4
<1>10. CASE Serve
  <2>1. /\ work[Main].pc # "idle" /\ work' = [work EXCEPT ![Main] = Idle]
        /\ UNCHANGED <<config, file>> /\ process' = "serving"
    BY <1>10 DEF Serve
  <2>2. Idle.pc = "idle" /\ Honest(Idle, config', file', kernel')
    BY DEF Idle, Honest
  <2>3. Quiet'
    BY <1>0, <2>1, <2>2 DEF Quiet
  <2>4. QED  BY <1>0, <2>1, <2>2, <2>3, LoneOne DEF LoneInv
<1>11. ASSUME Stops PROVE LoneInv'
  BY <1>0, <1>11 DEF Stops, LoneInv, Quiet, Alone, Honest, Idle
<1>12. CASE UNCHANGED shapingVars
  BY <1>12 DEF shapingVars, LoneInv, Quiet, Alone
<1>13. QED
  BY <1>1, <1>2, <1>3, <1>4, <1>5, <1>6, <1>7, <1>8, <1>9, <1>10, <1>11, <1>12
  DEF ShapingNext, Stop, Reboot

(* A sequence of commands that ran alone and went through has made the WAN
   interface what the settings in memory and in the file say, whatever was
   there before it: sqm.go:62, server.go:978, main.go:114. *)
THEOREM AppliedAsSaved == ShapingSpec => []LoneShapingHonest
<1>1. ShapingSpec => []LoneInv
  BY LoneInit, LoneNext, ShapingTypeCorrect, PTL DEF ShapingSpec
<1>2. ShapingTypeOK /\ LoneInv => LoneShapingHonest
  BY DEF ShapingTypeOK, LoneInv, Honest, LoneShapingHonest, Settings
<1>3. QED  BY <1>1, <1>2, ShapingTypeCorrect, PTL

=============================================================================
