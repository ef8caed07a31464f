----------------------------- MODULE ConfigStore -----------------------------
(***************************************************************************)
(* Locking and persistence of internal/config/config.go: the RWMutex mu    *)
(* that guards the fields, the mutex fileMu that serialises the writes of  *)
(* config.json, synchronous saves (settings edits), deferred saves (leases *)
(* and discovered devices, written by a background flusher), the flush on  *)
(* SIGTERM, failed writes, and the process stopping at any point.          *)
(*                                                                         *)
(* The fields themselves are abstracted to their place in the history of   *)
(* changes: [edits, defers] counts the settings edits and the deferred     *)
(* changes that led to them, which is all the properties tell apart.       *)
(***************************************************************************)
EXTENDS Naturals

CONSTANTS
  Editors,    \* goroutines of web handlers that edit and save settings
  Hot,        \* goroutines on the hot path: DHCP servers, dashboard polls
  Flusher,    \* the background flusher goroutine
  Handler,    \* the signal-handler goroutine of main
  NoOne,      \* "no goroutine", for a mutex that is free
  MaxEdits,   \* bound on settings edits in a run
  MaxDefers,  \* bound on deferred changes in a run
  MaxFails,   \* bound on failed writes in a run
  MaxStops    \* bound on stops (crash or exit) of the process in a run

Writers == Editors \union Hot          \* goroutines that take mu for writing
Flushes == {Flusher, Handler}          \* goroutines that call Flush
Savers  == Editors \union Flushes      \* goroutines that write the file
Threads == Writers \union Flushes

ASSUME ThreadsAssumption ==
  /\ Editors \intersect Hot = {}
  /\ Flusher # Handler
  /\ Flushes \intersect Writers = {}
  /\ NoOne \notin Threads

ASSUME BoundsAssumption ==
  /\ MaxEdits \in Nat /\ MaxDefers \in Nat
  /\ MaxFails \in Nat /\ MaxStops \in Nat

VARIABLES
  up,          \* the process runs
  mem,         \* the configuration fields in memory
  disk,        \* the content of config.json
  muW,         \* writer that holds mu or has announced itself on it
  fileMu,      \* goroutine that holds fileMu
  pc,          \* where each goroutine is
  snap,        \* the snapshot each goroutine of Savers is saving
  seq,         \* Config.seq
  mutGen,      \* Config.mutGen
  flushedGen,  \* Config.flushedGen
  lastWritten, \* Config.lastWritten
  kick,        \* a token is in the channel Config.kick (capacity 1)
  asked,       \* history: deferred changes in memory when the signal came
  base,        \* history: deferred changes in the file this process loaded
  fails,       \* history: failed writes so far
  stops        \* history: stops so far

memory  == <<mem, base, asked>>
locks   == <<muW, fileMu>>
gens    == <<mutGen, flushedGen>>
history == <<fails, stops>>
vars    == <<up, mem, disk, muW, fileMu, pc, snap, seq, mutGen, flushedGen,
             lastWritten, kick, asked, base, fails, stops>>

Content == [edits : Nat, defers : Nat]
Snapshots == [content : Content, seq : Nat, gen : Nat]

\* d contains every change that c contains.
Covers(d, c) == d.edits >= c.edits /\ d.defers >= c.defers

EmptyContent == [edits |-> 0, defers |-> 0]
NoSnapshot == [content |-> EmptyContent, seq |-> 0, gen |-> 0]

-----------------------------------------------------------------------------
(* sync.RWMutex and sync.Mutex.  A writer first announces itself, which     *)
(* keeps new readers out, then waits for the readers inside to leave.  Its  *)
(* Unlock lets in every reader that waits before the next writer.           *)

Readers == {t \in Threads : pc[t] = "read"}

\* Lock, first half: t is the one announced writer.
Announce(t) ==
  /\ pc[t] = "lock"
  /\ muW = NoOne
  /\ muW' = t
  /\ pc' = [pc EXCEPT ![t] = "drain"]
  /\ UNCHANGED <<up, memory, disk, fileMu, snap, seq, gens, lastWritten, kick,
                 history>>

\* Lock, second half: t alone is inside.
HasMu(t) == muW = t /\ Readers = {}

\* pc after the holder of mu unlocks and the waiting readers get in.
AfterUnlock(p) == [t \in Threads |-> IF p[t] = "rlock" THEN "read" ELSE p[t]]

\* RLock by a goroutine that finds no writer announced.
RLock(t) ==
  /\ pc[t] = "rlock"
  /\ muW = NoOne
  /\ pc' = [pc EXCEPT ![t] = "read"]
  /\ UNCHANGED <<up, memory, disk, locks, snap, seq, gens, lastWritten, kick,
                 history>>
-----------------------------------------------------------------------------
(* Hot path: lookups and deferred changes.                                  *)

\* A lookup (LeaseForMAC, IPInUse, Snapshot...) or an upsert is called.
CallHot(h) ==
  /\ up /\ pc[h] = "idle"
  /\ \/ pc' = [pc EXCEPT ![h] = "rlock"]
     \/ /\ mem.defers < MaxDefers
        /\ pc' = [pc EXCEPT ![h] = "lock"]
  /\ UNCHANGED <<up, memory, disk, locks, snap, seq, gens, lastWritten, kick,
                 history>>

\* The lookup has read what it wanted and returns.
ReturnLookup(h) ==
  /\ pc[h] = "read"
  /\ pc' = [pc EXCEPT ![h] = "idle"]
  /\ UNCHANGED <<up, memory, disk, locks, snap, seq, gens, lastWritten, kick,
                 history>>

\* Mutated: no token is sent while the flusher is busy with an earlier one.
KickedIfIdle == kick \/ pc[Flusher] \in {"off", "recv"}

\* The non-blocking send leaves a token in the channel, full or not.
Kicked == TRUE

\* UpsertLease, or UpsertDiscoveredDevice when something changed: change
\* memory, markDirtyLocked (which starts the flusher the first time), return.
Upsert(h) ==
  /\ pc[h] = "drain" /\ HasMu(h)
  /\ mem' = [mem EXCEPT !.defers = @ + 1]
  /\ mutGen' = mutGen + 1
  /\ kick' = Kicked
  /\ muW' = NoOne
  /\ pc' = AfterUnlock([pc EXCEPT ![h] = "idle",
                          ![Flusher] = IF @ = "off" THEN "recv" ELSE @])
  /\ UNCHANGED <<up, base, asked, disk, fileMu, snap, seq, flushedGen,
                 lastWritten, history>>

\* UpsertDiscoveredDevice when the stored record is recent enough.
UpsertUnchanged(h) ==
  /\ pc[h] = "drain" /\ HasMu(h)
  /\ muW' = NoOne
  /\ pc' = AfterUnlock([pc EXCEPT ![h] = "idle"])
  /\ UNCHANGED <<up, memory, disk, fileMu, snap, seq, gens, lastWritten, kick,
                 history>>
-----------------------------------------------------------------------------
(* Settings edits: change memory and save before returning.                 *)

CallEdit(e) ==
  /\ up /\ pc[e] = "idle"
  /\ mem.edits < MaxEdits
  /\ pc' = [pc EXCEPT ![e] = "lock"]
  /\ UNCHANGED <<up, memory, disk, locks, snap, seq, gens, lastWritten, kick,
                 history>>

\* The setter changes its field; saveLocked marshals and numbers the result.
EditAndMarshal(e) ==
  /\ pc[e] = "drain" /\ HasMu(e)
  /\ mem' = [mem EXCEPT !.edits = @ + 1]
  /\ seq' = seq + 1
  /\ snap' = [snap EXCEPT ![e] = [content |-> mem', seq |-> seq', gen |-> mutGen]]
  /\ pc' = [pc EXCEPT ![e] = "file"]
  /\ UNCHANGED <<up, base, asked, disk, locks, gens, lastWritten, kick, history>>
-----------------------------------------------------------------------------
(* writeSnapshot and what its callers do with the result.                   *)

\* Mutated: stale snapshots are written too.
NeverStale(t) == FALSE

\* Mutated: a snapshot counts as stale once a newer one was taken.
StaleWhenTaken(t) == snap[t].seq < seq

\* A newer snapshot than t's has been written.
Stale(t) == snap[t].seq < lastWritten

\* fileMu is taken; a newer snapshot on disk makes the write a no-op.
TakeFile(t) ==
  /\ pc[t] = "file"
  /\ fileMu = NoOne
  /\ IF Stale(t)
       THEN pc' = [pc EXCEPT ![t] = "saved"] /\ UNCHANGED fileMu
       ELSE pc' = [pc EXCEPT ![t] = "write"] /\ fileMu' = t
  /\ UNCHANGED <<up, memory, disk, muW, snap, seq, gens, lastWritten, kick,
                 history>>

\* The temp file is written and renamed over config.json.
WriteOK(t) ==
  /\ pc[t] = "write"
  /\ disk' = snap[t].content
  /\ lastWritten' = snap[t].seq
  /\ fileMu' = NoOne
  /\ pc' = [pc EXCEPT ![t] = "saved"]
  /\ UNCHANGED <<up, memory, muW, snap, seq, gens, kick, history>>

\* Mutated: the signal handler retries like the flusher.
AlwaysRetry(t) == "retry"

\* Where a goroutine that called Flush goes when it fails, and when it ends well.
AfterFail(t) == IF t = Flusher THEN "retry" ELSE "giveup"
AfterFlush(t) == IF t = Flusher THEN "recv" ELSE "exit"

\* WriteFile or Rename fails: an editor unlocks and reports the error, the
\* flusher waits to try again, the signal handler exits all the same.
WriteFail(t) ==
  /\ pc[t] = "write"
  /\ fails < MaxFails
  /\ fails' = fails + 1
  /\ fileMu' = NoOne
  /\ snap' = [snap EXCEPT ![t] = NoSnapshot]
  /\ \/ /\ t \in Editors
        /\ muW' = NoOne
        /\ pc' = AfterUnlock([pc EXCEPT ![t] = "idle"])
     \/ /\ t \in Flushes
        /\ muW' = muW
        /\ pc' = [pc EXCEPT ![t] = AfterFail(t)]
  /\ UNCHANGED <<up, memory, disk, seq, gens, lastWritten, kick, stops>>

\* Mutated: advanceFlushed is given the generation of now, not of the snapshot.
CurrentGen(t) == mutGen

\* The generation of deferred changes that t's snapshot covers.
CoveredGen(t) == snap[t].gen

\* advanceFlushed, and the return of saveLocked or Flush.
Advance(t) ==
  /\ pc[t] = "saved"
  /\ flushedGen' = IF CoveredGen(t) > flushedGen THEN CoveredGen(t) ELSE flushedGen
  /\ snap' = [snap EXCEPT ![t] = NoSnapshot]
  /\ \/ /\ t \in Editors
        /\ muW' = NoOne
        /\ pc' = AfterUnlock([pc EXCEPT ![t] = "idle"])
     \/ /\ t \in Flushes
        /\ muW' = muW
        /\ pc' = [pc EXCEPT ![t] = AfterFlush(t)]
  /\ UNCHANGED <<up, memory, disk, fileMu, seq, mutGen, lastWritten, kick, history>>
-----------------------------------------------------------------------------
(* Flush, called by the flusher and by the signal handler.                  *)

\* The flusher receives the token and sleeps for flushDelay.
Receive ==
  /\ pc[Flusher] = "recv" /\ kick
  /\ kick' = FALSE
  /\ pc' = [pc EXCEPT ![Flusher] = "sleep"]
  /\ UNCHANGED <<up, memory, disk, locks, snap, seq, gens, lastWritten, history>>

Wake ==
  /\ pc[Flusher] = "sleep"
  /\ pc' = [pc EXCEPT ![Flusher] = "rlock"]
  /\ UNCHANGED <<up, memory, disk, locks, snap, seq, gens, lastWritten, kick,
                 history>>

\* Mutated: the retry is left to the next deferred change.
RekickNothing ==
  /\ pc[Flusher] = "retry"
  /\ pc' = [pc EXCEPT ![Flusher] = "recv"]
  /\ UNCHANGED <<up, memory, disk, locks, snap, seq, gens, lastWritten, kick,
                 history>>

\* After a failed flush the flusher sleeps, then puts a token back.
Rekick ==
  /\ pc[Flusher] = "retry"
  /\ kick' = TRUE
  /\ pc' = [pc EXCEPT ![Flusher] = "recv"]
  /\ UNCHANGED <<up, memory, disk, locks, snap, seq, gens, lastWritten, history>>

\* SIGINT or SIGTERM arrives.
Signal ==
  /\ up /\ pc[Handler] = "idle"
  /\ pc' = [pc EXCEPT ![Handler] = "rlock"]
  /\ asked' = mem.defers
  /\ UNCHANGED <<up, mem, base, disk, locks, snap, seq, gens, lastWritten, kick,
                 history>>

\* Mutated: nothing queued for the flusher is taken for nothing dirty.
NothingQueued == ~kick

\* The disk covers every deferred change.
Clean == mutGen = flushedGen

\* Mutated: the early return leaves mu read-locked.
ForgetRUnlock(t) ==
  /\ pc[t] = "read"
  /\ Clean
  /\ UNCHANGED vars

\* Nothing is dirty: Flush returns at once.
FlushClean(t) ==
  /\ pc[t] = "read"
  /\ Clean
  /\ pc' = [pc EXCEPT ![t] = AfterFlush(t)]
  /\ UNCHANGED <<up, memory, disk, locks, snap, seq, gens, lastWritten, kick,
                 history>>

\* Flush marshals and numbers a snapshot, then leaves mu before any I/O.
FlushMarshal(t) ==
  /\ pc[t] = "read"
  /\ ~Clean
  /\ seq' = seq + 1
  /\ snap' = [snap EXCEPT ![t] = [content |-> mem, seq |-> seq', gen |-> mutGen]]
  /\ pc' = [pc EXCEPT ![t] = "file"]
  /\ UNCHANGED <<up, memory, disk, locks, gens, lastWritten, kick, history>>
-----------------------------------------------------------------------------
(* The process.                                                             *)

\* Everything in memory is gone; a later Load will read what is on disk.
Volatile ==
  /\ mem' = disk
  /\ base' = disk.defers /\ asked' = 0
  /\ muW' = NoOne /\ fileMu' = NoOne
  /\ pc' = [t \in Threads |-> IF t = Flusher THEN "off" ELSE "idle"]
  /\ snap' = [t \in Savers |-> NoSnapshot]
  /\ seq' = 0 /\ mutGen' = 0 /\ flushedGen' = 0 /\ lastWritten' = 0
  /\ kick' = FALSE

\* os.Exit at the end of the signal handler, whether its Flush failed or not.
Exit ==
  /\ pc[Handler] \in {"exit", "giveup"}
  /\ stops < MaxStops
  /\ stops' = stops + 1
  /\ up' = FALSE
  /\ Volatile
  /\ UNCHANGED <<disk, fails>>

\* The process is killed or panics, wherever its goroutines are.
Crash ==
  /\ up
  /\ stops < MaxStops
  /\ stops' = stops + 1
  /\ up' = FALSE
  /\ Volatile
  /\ UNCHANGED <<disk, fails>>

\* Mutated: a file that is there is not read, the defaults are saved over it.
BootDefault ==
  /\ ~up
  /\ up' = TRUE
  /\ seq' = 1 /\ lastWritten' = 1
  /\ mem' = EmptyContent /\ disk' = EmptyContent /\ base' = 0
  /\ UNCHANGED <<asked, locks, pc, snap, gens, kick, history>>

\* Load, then the Save of main before any other goroutine exists.
Boot ==
  /\ ~up
  /\ up' = TRUE
  /\ seq' = 1 /\ lastWritten' = 1
  /\ disk' = mem
  /\ UNCHANGED <<memory, locks, pc, snap, gens, kick, history>>

Init ==
  /\ up = FALSE
  /\ mem = EmptyContent /\ disk = EmptyContent
  /\ base = 0 /\ asked = 0
  /\ muW = NoOne /\ fileMu = NoOne
  /\ pc = [t \in Threads |-> IF t = Flusher THEN "off" ELSE "idle"]
  /\ snap = [t \in Savers |-> NoSnapshot]
  /\ seq = 0 /\ mutGen = 0 /\ flushedGen = 0 /\ lastWritten = 0
  /\ kick = FALSE
  /\ fails = 0 /\ stops = 0

HotStep(h) ==
  Announce(h) \/ RLock(h) \/ ReturnLookup(h) \/ Upsert(h) \/ UpsertUnchanged(h)
EditStep(e) ==
  Announce(e) \/ EditAndMarshal(e) \/ TakeFile(e) \/ WriteOK(e) \/ Advance(e)
FlushStep(t) ==
  \/ RLock(t) \/ FlushClean(t) \/ FlushMarshal(t)
  \/ TakeFile(t) \/ WriteOK(t) \/ Advance(t)

Next ==
  \/ \E h \in Hot : CallHot(h) \/ HotStep(h)
  \/ \E e \in Editors : CallEdit(e) \/ EditStep(e)
  \/ \E t \in Flushes : FlushStep(t)
  \/ \E t \in Savers : WriteFail(t)
  \/ Receive \/ Wake \/ Rekick
  \/ Signal \/ Exit \/ Crash \/ Boot

\* Goroutines that can run do run, the two mutexes hand over in the end (their
\* starvation mode), and a write that goes on being tried is not refused for
\* ever; calls, signals, crashes and restarts need never come.
Fairness ==
  /\ \A h \in Hot : SF_vars(Announce(h)) /\ WF_vars(HotStep(h))
  /\ \A e \in Editors : SF_vars(Announce(e)) /\ SF_vars(TakeFile(e))
                        /\ WF_vars(EditStep(e))
  /\ \A t \in Flushes : SF_vars(TakeFile(t)) /\ WF_vars(FlushStep(t))
  /\ WF_vars(Receive) /\ WF_vars(Wake) /\ WF_vars(Rekick) /\ WF_vars(Exit)

Spec == Init /\ [][Next]_vars
FairSpec == Spec /\ Fairness
-----------------------------------------------------------------------------
Places == {"idle", "off", "lock", "drain", "rlock", "read", "file", "write",
           "saved", "recv", "sleep", "retry", "exit", "giveup"}

(* Every variable keeps to its type; the goroutines of each kind keep to    *)
(* the places of their own code.                                            *)
TypeOK ==
  /\ up \in BOOLEAN /\ kick \in BOOLEAN
  /\ mem \in Content /\ disk \in Content
  /\ muW \in Writers \union {NoOne} /\ fileMu \in Savers \union {NoOne}
  /\ pc \in [Threads -> Places]
  /\ \A h \in Hot : pc[h] \in {"idle", "lock", "drain", "rlock", "read"}
  /\ \A e \in Editors : pc[e] \in {"idle", "lock", "drain", "file", "write", "saved"}
  /\ pc[Flusher] \in Places \ {"idle", "lock", "drain", "exit", "giveup"}
  /\ pc[Handler] \in {"idle", "rlock", "read", "file", "write", "saved", "exit",
                      "giveup"}
  /\ snap \in [Savers -> Snapshots]
  /\ seq \in Nat /\ mutGen \in Nat /\ flushedGen \in Nat /\ lastWritten \in Nat
  /\ asked \in Nat /\ base \in Nat /\ fails \in Nat /\ stops \in Nat

(* writeSnapshot, "a slow background flush can never overwrite fresher      *)
(* data": whatever the order in which snapshots were taken and reach the    *)
(* disk, and across restarts, a change that is in config.json stays in it.  *)
DiskMovesForward == [][Covers(disk', disk)]_vars

(* A goroutine whose saveLocked or Flush has succeeded (its own write, or   *)
(* one skipped as stale) finds every change of its snapshot on disk.        *)
SaveIsDurable ==
  \A t \in Savers : pc[t] = "saved" => Covers(disk, snap[t].content)

(* flushedGen never claims more than config.json holds, whichever of the    *)
(* racing saves advanced it: when the configuration counts as clean, and    *)
(* Flush returns without writing, no deferred change is missing on disk.    *)
FlushedIsOnDisk == base + flushedGen <= disk.defers

(* No lost wake-up: while a deferred change is not covered by the disk, a   *)
(* token waits in kick or the flusher is on its way to a flush that will    *)
(* include it.                                                              *)
DirtyHasFlush ==
  flushedGen < mutGen =>
    \/ kick
    \/ pc[Flusher] \in {"sleep", "rlock", "read", "retry"}
    \/ pc[Flusher] \in {"file", "write", "saved"} /\ snap[Flusher].gen = mutGen

(* When the signal handler is about to exit and its flush has not failed,    *)
(* every lease and discovered device recorded before the signal came is on   *)
(* disk, also if the flusher or a settings save was writing at the time.     *)
CleanExitKeepsLeases == pc[Handler] = "exit" => disk.defers >= asked

(* "A stop or restart doesn't lose the last second of" lease changes: when  *)
(* the signal handler is about to exit after a flush that worked, nothing   *)
(* in memory is missing on disk.                                            *)
ExitLosesNothing == pc[Handler] = "exit" => mem.defers = disk.defers

(* A deferred change reaches the disk, or the process stops first.          *)
DeferredReachesDisk ==
  \A n \in 1 .. MaxDefers :
    (up /\ mem.defers >= n) ~> (disk.defers >= n \/ ~up)

(* A lookup or an upsert that was called returns, however long the queue of *)
(* settings saves in front of it, or the process stops.                     *)
HotReturns == \A h \in Hot : (pc[h] \in {"rlock", "lock"}) ~> (pc[h] = "idle")

(* "A slow disk can never stall a DHCP lookup that is waiting on mu": no    *)
(* hot-path caller waits for mu while its holder is writing the file.       *)
LookupNeverWaitsForDisk ==
  \A h \in Hot, e \in Editors :
    ~(pc[h] = "rlock" /\ muW = e /\ pc[e] = "write")

(* The promise to callers, with locks, snapshots and goroutines hidden.     *)
Durable == INSTANCE DurableStore WITH cur <- mem, saved <- disk
ImplementsDurableStore == Durable!Spec
=============================================================================
