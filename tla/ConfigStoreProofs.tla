-------------------------- MODULE ConfigStoreProofs --------------------------
(***************************************************************************)
(* Proofs about ConfigStore for any number of goroutines and any bounds.   *)
(* The order in which snapshots are numbered is the order of what they     *)
(* contain; everything that is promised of the file follows from that.     *)
(* Waiting for the mutexes never goes round in a circle; a deferred change *)
(* is always on its way to the file, and each step of the flusher brings   *)
(* it nearer.                                                              *)
(***************************************************************************)
EXTENDS ConfigStore, TLAPS

\* t carries a snapshot on its way to the disk.
Busy(t) == pc[t] \in {"file", "write", "saved"}

\* No goroutine is under way while the process is down.
RunInv == ~up => \A t \in Threads : pc[t] \in {"idle", "off"}

\* fileMu is held exactly during a write, and what is written is not stale.
FileInv ==
  /\ \A t \in Savers : pc[t] = "write" <=> fileMu = t
  /\ \A t \in Savers : pc[t] = "write" => snap[t].seq >= lastWritten

\* Memory is ahead of the file, and the generations count what was deferred.
MemInv ==
  /\ Covers(mem, disk)
  /\ mem.defers = base + mutGen
  /\ lastWritten <= seq

\* Snapshots are numbered in the order of their contents, the file's included.
OrderInv ==
  /\ \A t \in Savers : Busy(t) =>
       /\ Covers(mem, snap[t].content)
       /\ snap[t].content.defers = base + snap[t].gen
       /\ snap[t].seq <= seq
       /\ snap[t].seq <= lastWritten => Covers(disk, snap[t].content)
       /\ snap[t].seq >= lastWritten => Covers(snap[t].content, disk)
  /\ \A t, u \in Savers :
       Busy(t) /\ Busy(u) /\ snap[t].seq <= snap[u].seq =>
         Covers(snap[u].content, snap[t].content)

\* The signal handler's snapshot includes what was in memory at the signal.
ExitInv ==
  /\ pc[Handler] \in {"rlock", "read"} => asked <= mem.defers
  /\ Busy(Handler) => asked <= snap[Handler].content.defers
  /\ CleanExitKeepsLeases

\* The inductive invariant.
StoreInv == FileInv /\ MemInv /\ OrderInv /\ SaveIsDurable /\ FlushedIsOnDisk
IInv == TypeOK /\ RunInv /\ StoreInv /\ ExitInv /\ DirtyHasFlush

-----------------------------------------------------------------------------
\* A content that covers one that covers a third covers the third.
LEMMA CoversTransitive ==
  ASSUME NEW a \in Content, NEW b \in Content, NEW c \in Content,
         Covers(a, b), Covers(b, c)
  PROVE  Covers(a, c)
BY SMT DEF Content, Covers

\* What the release of mu does to the places of the goroutines.
LEMMA AfterUnlockPlaces ==
  ASSUME NEW p \in [Threads -> Places]
  PROVE  /\ AfterUnlock(p) \in [Threads -> Places]
         /\ \A t \in Threads :
              AfterUnlock(p)[t] = IF p[t] = "rlock" THEN "read" ELSE p[t]
BY DEF AfterUnlock, Places

\* The state of a process that has not started yet is well typed.
THEOREM InitType == Init => TypeOK
<1> SUFFICES ASSUME Init PROVE TypeOK
  OBVIOUS
<1>1. NoSnapshot \in Snapshots /\ EmptyContent \in Content
  BY DEF NoSnapshot, EmptyContent, Snapshots, Content
<1>2. pc \in [Threads -> Places] /\ snap \in [Savers -> Snapshots]
  BY <1>1, SMT DEF Init, Places
<1>3. /\ \A h \in Hot : pc[h] = "idle"
      /\ \A e \in Editors : pc[e] = "idle"
      /\ pc[Flusher] = "off" /\ pc[Handler] = "idle"
  BY ThreadsAssumption, SMT DEF Init, Threads, Writers, Flushes
<1>4. up \in BOOLEAN /\ kick \in BOOLEAN
  BY DEF Init
<1>5. /\ mem \in Content /\ disk \in Content
      /\ muW = NoOne /\ fileMu = NoOne
      /\ seq = 0 /\ mutGen = 0 /\ flushedGen = 0 /\ lastWritten = 0
      /\ asked = 0 /\ base = 0 /\ fails = 0 /\ stops = 0
  BY <1>1 DEF Init
<1> QED
  BY <1>2, <1>3, <1>4, <1>5, SMT DEF TypeOK, Places

\* No step of any goroutine, nor a stop or a start, takes a variable out of its
\* type or a goroutine out of the places of its own code.
THEOREM TypeStep == TypeOK /\ [Next]_vars => TypeOK'
<1> SUFFICES ASSUME TypeOK, [Next]_vars PROVE TypeOK'
  OBVIOUS
<1> USE ThreadsAssumption, BoundsAssumption
    DEF TypeOK, Places, Threads, Writers, Savers, Flushes, memory, locks, gens, history
<1>0. NoSnapshot \in Snapshots /\ EmptyContent \in Content
  BY DEF NoSnapshot, EmptyContent, Snapshots, Content
<1>1. ASSUME NEW h \in Hot, CallHot(h) PROVE TypeOK'
  BY <1>1, SMT DEF CallHot
<1>2. ASSUME NEW t \in Threads, t \in Writers, Announce(t) PROVE TypeOK'
  BY <1>2, SMT DEF Announce
<1>3. ASSUME NEW t \in Threads, RLock(t) PROVE TypeOK'
  BY <1>3, SMT DEF RLock
<1>4. ASSUME NEW h \in Hot, ReturnLookup(h) PROVE TypeOK'
  BY <1>4, SMT DEF ReturnLookup
<1>5. ASSUME NEW h \in Hot, Upsert(h) PROVE TypeOK'
  BY <1>5, SMT DEF Upsert, AfterUnlock, Kicked, Content
<1>6. ASSUME NEW h \in Hot, UpsertUnchanged(h) PROVE TypeOK'
  BY <1>6, SMT DEF UpsertUnchanged, AfterUnlock
<1>7. ASSUME NEW e \in Editors, CallEdit(e) PROVE TypeOK'
  BY <1>7, SMT DEF CallEdit
<1>8. ASSUME NEW e \in Editors, EditAndMarshal(e) PROVE TypeOK'
  <2>1. mem' \in Content /\ seq' \in Nat
    BY <1>8, SMT DEF EditAndMarshal, Content
  <2>2. [content |-> mem', seq |-> seq', gen |-> mutGen] \in Snapshots
    BY <2>1, SMT DEF Snapshots
  <2> QED
    BY <1>8, <2>1, <2>2, SMT DEF EditAndMarshal
<1>9. ASSUME NEW t \in Savers, TakeFile(t) PROVE TypeOK'
  BY <1>9, SMT DEF TakeFile
<1>10. ASSUME NEW t \in Savers, WriteOK(t) PROVE TypeOK'
  BY <1>10, SMT DEF WriteOK, Snapshots
<1>11. ASSUME NEW t \in Savers, WriteFail(t) PROVE TypeOK'
  BY <1>0, <1>11, SMT DEF WriteFail, AfterUnlock, AfterFail
<1>12. ASSUME NEW t \in Savers, Advance(t) PROVE TypeOK'
  BY <1>0, <1>12, SMT DEF Advance, AfterUnlock, AfterFlush, CoveredGen, Snapshots
<1>13. CASE Receive
  <2>1. kick' \in BOOLEAN
    BY <1>13 DEF Receive
  <2>2. pc' = [pc EXCEPT ![Flusher] = "sleep"]
    BY <1>13 DEF Receive
  <2>3. UNCHANGED <<up, memory, disk, locks, snap, seq, gens, lastWritten, history>>
    BY <1>13 DEF Receive
  <2> QED
    BY <2>1, <2>2, <2>3, SMT
<1>14. CASE Wake
  BY <1>14, SMT DEF Wake
<1>15. CASE Rekick
  BY <1>15, SMT DEF Rekick
<1>16. CASE Signal
  BY <1>16, SMT DEF Signal, Content
<1>17. ASSUME NEW t \in Flushes, FlushClean(t) PROVE TypeOK'
  BY <1>17, SMT DEF FlushClean, AfterFlush
<1>18. ASSUME NEW t \in Flushes, FlushMarshal(t) PROVE TypeOK'
  <2>1. [content |-> mem, seq |-> seq', gen |-> mutGen] \in Snapshots
    BY <1>18, SMT DEF FlushMarshal, Snapshots
  <2> QED
    BY <1>18, <2>1, SMT DEF FlushMarshal
<1>19. CASE Exit \/ Crash
  <2>1. Volatile /\ up' = FALSE /\ UNCHANGED <<disk, fails>> /\ stops' = stops + 1
    BY <1>19 DEF Exit, Crash
  <2>2. pc' \in [Threads -> Places] /\ snap' \in [Savers -> Snapshots]
    BY <1>0, <2>1, SMT DEF Volatile
  <2>3. /\ \A h \in Hot : pc'[h] = "idle"
        /\ \A e \in Editors : pc'[e] = "idle"
        /\ pc'[Flusher] = "off" /\ pc'[Handler] = "idle"
    BY <2>1, SMT DEF Volatile
  <2>4. up' \in BOOLEAN /\ kick' \in BOOLEAN
    BY <2>1 DEF Volatile
  <2>5. /\ mem' = disk /\ disk' = disk /\ base' = disk.defers /\ asked' = 0
        /\ muW' = NoOne /\ fileMu' = NoOne
        /\ seq' = 0 /\ mutGen' = 0 /\ flushedGen' = 0 /\ lastWritten' = 0
        /\ fails' = fails /\ stops' = stops + 1
    BY <2>1 DEF Volatile
  <2> QED
    BY <2>2, <2>3, <2>4, <2>5, SMT DEF Content
<1>20. CASE Boot
  BY <1>20, SMT DEF Boot
<1>21. CASE UNCHANGED vars
  BY <1>21, SMT DEF vars
<1> QED
  BY <1>1, <1>2, <1>3, <1>4, <1>5, <1>6, <1>7, <1>8, <1>9, <1>10, <1>11, <1>12,
     <1>13, <1>14, <1>15, <1>16, <1>17, <1>18, <1>19, <1>20, <1>21
  DEF Next, HotStep, EditStep, FlushStep
-----------------------------------------------------------------------------
\* A step that leaves the file, memory, counters and every snapshot alone, and
\* brings no goroutine to or from a place with a snapshot, keeps StoreInv.
LEMMA StoreQuiet ==
  ASSUME StoreInv,
         UNCHANGED <<mem, base, disk, seq, mutGen, flushedGen, lastWritten,
                     snap, fileMu>>,
         \A t \in Savers : Busy(t)' <=> Busy(t),
         \A t \in Savers : (pc[t] = "write")' <=> pc[t] = "write",
         \A t \in Savers : (pc[t] = "saved")' <=> pc[t] = "saved"
  PROVE  StoreInv'
<1>1. FileInv'
  BY DEF StoreInv, FileInv
<1>2. MemInv'
  BY DEF StoreInv, MemInv, Covers
<1>3. OrderInv'
  BY DEF StoreInv, OrderInv, Covers
<1>4. SaveIsDurable' /\ FlushedIsOnDisk'
  BY DEF StoreInv, SaveIsDurable, FlushedIsOnDisk, Covers
<1> QED
  BY <1>1, <1>2, <1>3, <1>4 DEF StoreInv

\* With nothing written yet, StoreInv holds.
THEOREM StoreInit == Init => StoreInv
<1> SUFFICES ASSUME Init PROVE StoreInv
  OBVIOUS
<1>1. \A t \in Savers : pc[t] \in {"idle", "off"}
  BY SMT DEF Init, Savers, Threads, Writers, Flushes
<1>2. fileMu \notin Savers
  BY ThreadsAssumption, SMT DEF Init, Savers, Threads, Writers, Flushes
<1>3. /\ mem.defers = 0 /\ disk.defers = 0 /\ mem.edits = 0 /\ disk.edits = 0
      /\ base = 0 /\ mutGen = 0 /\ flushedGen = 0 /\ seq = 0 /\ lastWritten = 0
  BY DEF Init, EmptyContent
<1> QED
  BY <1>1, <1>2, <1>3, SMT
  DEF StoreInv, FileInv, MemInv, OrderInv, SaveIsDurable, FlushedIsOnDisk, Busy, Covers

\* A goroutine numbers a snapshot of the memory of now, which no other exceeds.
LEMMA SnapshotTaken ==
  ASSUME TypeOK, StoreInv, NEW s \in Savers, ~Busy(s), pc'[s] = "file",
         \A t \in Savers \ {s} : pc'[t] = pc[t],
         mem' \in Content, Covers(mem', mem), mem'.defers = mem.defers,
         seq' = seq + 1,
         snap' = [snap EXCEPT ![s] =
                    [content |-> mem', seq |-> seq', gen |-> mutGen]],
         UNCHANGED <<base, disk, mutGen, flushedGen, lastWritten, fileMu>>
  PROVE  StoreInv'
<1>1. /\ snap'[s].content = mem' /\ snap'[s].seq = seq + 1 /\ snap'[s].gen = mutGen
      /\ \A t \in Savers \ {s} : snap'[t] = snap[t]
  BY DEF TypeOK
<1>2. Busy(s)' /\ \A t \in Savers \ {s} : Busy(t)' <=> Busy(t)
  BY DEF Busy
<1>3. FileInv'
  BY <1>1, SMT DEF StoreInv, FileInv, Busy
<1>4. MemInv'
  BY <1>2, SMT DEF StoreInv, MemInv, TypeOK, Content, Covers
<1>5. OrderInv'
  <2>1. Covers(mem', disk)
    BY SMT DEF StoreInv, MemInv, TypeOK, Content, Covers
  <2>2. \A t \in Savers \ {s} : Busy(t)' =>
          /\ Covers(mem', snap[t].content)
          /\ snap[t].seq <= seq
    BY <1>2, SMT DEF StoreInv, OrderInv, TypeOK, Content, Snapshots, Covers
  <2>3. \A t \in Savers : Busy(t)' =>
          /\ Covers(mem', snap'[t].content)
          /\ snap'[t].content.defers = base + snap'[t].gen
          /\ snap'[t].seq <= seq'
          /\ snap'[t].seq <= lastWritten => Covers(disk, snap'[t].content)
          /\ snap'[t].seq >= lastWritten => Covers(snap'[t].content, disk)
    <3> TAKE t \in Savers
    <3>1. CASE t = s
      BY <3>1, <1>1, <2>1, SMT DEF StoreInv, MemInv, TypeOK, Content, Covers
    <3>2. CASE t # s
      BY <3>2, <1>1, <1>2, <2>2, SMT DEF StoreInv, OrderInv, TypeOK, Snapshots
    <3> QED
      BY <3>1, <3>2
  <2>4. \A t, u \in Savers :
          Busy(t)' /\ Busy(u)' /\ snap'[t].seq <= snap'[u].seq =>
            Covers(snap'[u].content, snap'[t].content)
    <3> TAKE t, u \in Savers
    <3>1. CASE u = s
      BY <3>1, <1>1, <2>3
    <3>2. CASE t = s /\ u # s
      BY <3>2, <1>1, <2>2, SMT DEF TypeOK, Snapshots
    <3>3. CASE t # s /\ u # s
      BY <3>3, <1>1, <1>2 DEF StoreInv, OrderInv
    <3> QED
      BY <3>1, <3>2, <3>3
  <2> QED
    BY <2>3, <2>4 DEF OrderInv, Covers
<1>6. SaveIsDurable' /\ FlushedIsOnDisk'
  BY <1>1, SMT DEF StoreInv, SaveIsDurable, FlushedIsOnDisk, Busy, Covers
<1> QED
  BY <1>3, <1>4, <1>5, <1>6 DEF StoreInv

\* While the process is down every goroutine is at its start.
THEOREM RunStep == TypeOK /\ RunInv /\ [Next]_vars => RunInv'
<1> SUFFICES ASSUME TypeOK, RunInv, [Next]_vars PROVE RunInv'
  OBVIOUS
<1> USE ThreadsAssumption DEF RunInv, Threads, Writers, Savers, Flushes
<1>1. CASE Exit \/ Crash
  BY <1>1, SMT DEF Exit, Crash, Volatile
<1>2. CASE Boot
  BY <1>2 DEF Boot
<1>3. CASE UNCHANGED vars
  BY <1>3 DEF vars
<1>4. ASSUME NEW h \in Hot, CallHot(h) \/ HotStep(h) PROVE RunInv'
  BY <1>4, SMT DEF CallHot, HotStep, Announce, RLock, ReturnLookup, Upsert, UpsertUnchanged
<1>5. ASSUME NEW e \in Editors, CallEdit(e) \/ Announce(e) \/ EditAndMarshal(e)
      PROVE  RunInv'
  BY <1>5, SMT DEF CallEdit, Announce, EditAndMarshal
<1>6. ASSUME NEW t \in Savers,
             TakeFile(t) \/ WriteOK(t) \/ WriteFail(t) \/ Advance(t)
      PROVE  RunInv'
  BY <1>6, SMT DEF TakeFile, WriteOK, WriteFail, Advance
<1>7. ASSUME NEW t \in Flushes, RLock(t) \/ FlushClean(t) \/ FlushMarshal(t)
      PROVE  RunInv'
  BY <1>7, SMT DEF RLock, FlushClean, FlushMarshal
<1>8. CASE Receive \/ Wake \/ Rekick \/ Signal
  BY <1>8, SMT DEF Receive, Wake, Rekick, Signal
<1> QED
  BY <1>1, <1>2, <1>3, <1>4, <1>5, <1>6, <1>7, <1>8 DEF Next, EditStep, FlushStep

\* Every step keeps StoreInv: the file, memory, the numbers of the snapshots
\* and what is in flight stay ordered (saveLocked, Flush, writeSnapshot,
\* advanceFlushed, Load).
THEOREM StoreStep ==
  TypeOK /\ RunInv /\ StoreInv /\ [Next]_vars => StoreInv'
<1> SUFFICES ASSUME TypeOK, RunInv, StoreInv, [Next]_vars PROVE StoreInv'
  OBVIOUS
<1>t. TypeOK'
  BY TypeStep
<1> USE ThreadsAssumption, BoundsAssumption
    DEF Threads, Writers, Savers, Flushes, memory, locks, gens, history
<1>u. ASSUME NEW p \in [Threads -> Places], pc' = AfterUnlock(p), NEW t \in Threads
      PROVE  pc'[t] = IF p[t] = "rlock" THEN "read" ELSE p[t]
  BY <1>u, AfterUnlockPlaces
<1>1. ASSUME NEW h \in Hot, CallHot(h) PROVE StoreInv'
  BY <1>1, StoreQuiet, SMT DEF CallHot, TypeOK, Busy
<1>2. ASSUME NEW t \in Writers, Announce(t) PROVE StoreInv'
  BY <1>2, StoreQuiet, SMT DEF Announce, TypeOK, Busy
<1>3. ASSUME NEW t \in Threads, RLock(t) PROVE StoreInv'
  BY <1>3, StoreQuiet, SMT DEF RLock, TypeOK, Busy
<1>4. ASSUME NEW h \in Hot, ReturnLookup(h) PROVE StoreInv'
  BY <1>4, StoreQuiet, SMT DEF ReturnLookup, TypeOK, Busy
<1>5. ASSUME NEW h \in Hot, Upsert(h) PROVE StoreInv'
  <2>1. /\ mem'.edits = mem.edits /\ mem'.defers = mem.defers + 1
        /\ mutGen' = mutGen + 1
        /\ UNCHANGED <<base, disk, fileMu, snap, seq, flushedGen, lastWritten>>
    BY <1>5, SMT DEF Upsert, TypeOK, Content
  <2>2. \A t \in Savers : /\ Busy(t)' <=> Busy(t)
                          /\ (pc[t] = "write")' <=> pc[t] = "write"
                          /\ (pc[t] = "saved")' <=> pc[t] = "saved"
    BY <1>5, SMT DEF Upsert, AfterUnlock, TypeOK, Busy
  <2>3. FileInv'
    BY <2>1, <2>2 DEF StoreInv, FileInv
  <2>4. MemInv'
    BY <2>1, <2>2, SMT DEF StoreInv, MemInv, TypeOK, Content, Covers
  <2>5. OrderInv'
    BY <2>1, <2>2, SMT DEF StoreInv, OrderInv, TypeOK, Content, Snapshots, Covers
  <2>6. SaveIsDurable' /\ FlushedIsOnDisk'
    BY <2>1, <2>2 DEF StoreInv, SaveIsDurable, FlushedIsOnDisk, Covers
  <2> QED
    BY <2>3, <2>4, <2>5, <2>6 DEF StoreInv
<1>6. ASSUME NEW h \in Hot, UpsertUnchanged(h) PROVE StoreInv'
  BY <1>6, StoreQuiet, SMT DEF UpsertUnchanged, AfterUnlock, TypeOK, Busy
<1>7. ASSUME NEW e \in Editors, CallEdit(e) PROVE StoreInv'
  BY <1>7, StoreQuiet, SMT DEF CallEdit, TypeOK, Busy
<1>8. ASSUME NEW e \in Editors, EditAndMarshal(e) PROVE StoreInv'
  <2>1. mem' \in Content /\ Covers(mem', mem) /\ mem'.defers = mem.defers
    BY <1>8, <1>t, SMT DEF EditAndMarshal, TypeOK, Content, Covers, HasMu
  <2>2. e \in Savers /\ ~Busy(e)
    BY <1>8 DEF EditAndMarshal, Busy
  <2>3. /\ seq' = seq + 1
        /\ snap' = [snap EXCEPT ![e] =
                      [content |-> mem', seq |-> seq', gen |-> mutGen]]
        /\ UNCHANGED <<base, disk, mutGen, flushedGen, lastWritten, fileMu>>
    BY <1>8 DEF EditAndMarshal
  <2>4. pc'[e] = "file" /\ \A t \in Savers \ {e} : pc'[t] = pc[t]
    BY <1>8, SMT DEF EditAndMarshal, TypeOK
  <2> QED
    BY <2>1, <2>2, <2>3, <2>4, SnapshotTaken
<1>9. ASSUME NEW t \in Savers, TakeFile(t) PROVE StoreInv'
  <2>1. CASE Stale(t)
    <3>1. /\ pc[t] = "file" /\ pc' = [pc EXCEPT ![t] = "saved"]
          /\ UNCHANGED <<mem, base, disk, seq, mutGen, flushedGen, lastWritten,
                         snap, fileMu>>
      BY <1>9, <2>1 DEF TakeFile
    <3>2. Covers(disk, snap[t].content)
      BY <2>1, <3>1, SMT DEF Stale, Busy, StoreInv, OrderInv, TypeOK, Snapshots
    <3>3. FileInv'
      BY <3>1, SMT DEF StoreInv, FileInv, TypeOK
    <3>4. \A u \in Savers : Busy(u)' <=> Busy(u)
      BY <3>1, SMT DEF Busy, TypeOK
    <3>5. MemInv' /\ OrderInv'
      BY <3>1, <3>4 DEF StoreInv, MemInv, OrderInv, Covers
    <3>6. SaveIsDurable'
      BY <3>1, <3>2, SMT DEF StoreInv, SaveIsDurable, Covers, TypeOK
    <3> QED
      BY <3>1, <3>3, <3>5, <3>6 DEF StoreInv, FlushedIsOnDisk
  <2>2. CASE ~Stale(t)
    <3>1. /\ pc[t] = "file" /\ pc' = [pc EXCEPT ![t] = "write"]
          /\ fileMu = NoOne /\ fileMu' = t
          /\ UNCHANGED <<mem, base, disk, seq, mutGen, flushedGen, lastWritten, snap>>
      BY <1>9, <2>2 DEF TakeFile
    <3>2. FileInv'
      BY <2>2, <3>1, SMT DEF StoreInv, FileInv, Stale, TypeOK, Snapshots
    <3>3. \A u \in Savers : /\ Busy(u)' <=> Busy(u)
                            /\ (pc[u] = "saved")' <=> pc[u] = "saved"
      BY <3>1, SMT DEF Busy, TypeOK
    <3> QED
      BY <3>1, <3>2, <3>3
      DEF StoreInv, MemInv, OrderInv, SaveIsDurable, FlushedIsOnDisk, Covers
  <2> QED
    BY <2>1, <2>2
<1>10. ASSUME NEW t \in Savers, WriteOK(t) PROVE StoreInv'
  <2>1. /\ pc[t] = "write" /\ pc' = [pc EXCEPT ![t] = "saved"]
        /\ disk' = snap[t].content /\ lastWritten' = snap[t].seq /\ fileMu' = NoOne
        /\ UNCHANGED <<mem, base, seq, mutGen, flushedGen, snap>>
    BY <1>10 DEF WriteOK
  <2>2. Busy(t) /\ snap[t].seq >= lastWritten
    BY <2>1 DEF Busy, StoreInv, FileInv
  <2>3. Covers(mem, disk') /\ Covers(disk', disk) /\ lastWritten' <= seq
    BY <2>1, <2>2, SMT DEF StoreInv, OrderInv
  <2>4. \A u \in Savers : Busy(u)' <=> Busy(u)
    BY <2>1, SMT DEF Busy, TypeOK
  <2>5. FileInv'
    BY <2>1, SMT DEF StoreInv, FileInv, TypeOK
  <2>6. MemInv'
    BY <2>1, <2>3 DEF StoreInv, MemInv, Covers
  <2>7. OrderInv'
    BY <2>1, <2>2, <2>4 DEF StoreInv, OrderInv, Covers
  <2>8. SaveIsDurable'
    <3> SUFFICES ASSUME NEW u \in Savers, pc'[u] = "saved"
                 PROVE  Covers(disk', snap[u].content)
      BY <2>1 DEF SaveIsDurable, Covers
    <3>1. CASE u = t
      BY <3>1, <2>1, SMT DEF Covers, TypeOK, Snapshots, Content
    <3>2. CASE u # t
      <4>1. Covers(disk, snap[u].content)
        BY <3>2, <2>1 DEF StoreInv, SaveIsDurable, TypeOK
      <4>2. disk' \in Content /\ disk \in Content /\ snap[u].content \in Content
        BY <1>t, SMT DEF TypeOK, Snapshots
      <4> QED
        BY <4>1, <4>2, <2>3, CoversTransitive
    <3> QED
      BY <3>1, <3>2
  <2>9. FlushedIsOnDisk'
    BY <1>t, <2>1, <2>3, SMT DEF StoreInv, FlushedIsOnDisk, Covers, TypeOK, Content
  <2> QED
    BY <2>5, <2>6, <2>7, <2>8, <2>9 DEF StoreInv
<1>11. ASSUME NEW t \in Savers, WriteFail(t) PROVE StoreInv'
  <2>1. /\ pc[t] = "write" /\ fileMu' = NoOne
        /\ snap' = [snap EXCEPT ![t] = NoSnapshot]
        /\ UNCHANGED <<mem, base, disk, seq, mutGen, flushedGen, lastWritten>>
    BY <1>11 DEF WriteFail
  <2>2. /\ ~Busy(t)'
        /\ \A u \in Savers \ {t} :
             pc'[u] = pc[u] \/ (pc[u] = "rlock" /\ pc'[u] = "read")
    BY <1>11, SMT DEF WriteFail, AfterUnlock, AfterFail, Busy, TypeOK
  <2>3. \A u \in Savers \ {t} : Busy(u)' <=> Busy(u)
    BY <2>2, SMT DEF Busy
  <2>4. \A u \in Savers \ {t} : snap'[u] = snap[u]
    BY <2>1 DEF TypeOK
  <2>5. FileInv'
    BY <2>1, <2>2, <2>4, SMT DEF StoreInv, FileInv, Busy
  <2>6. MemInv'
    BY <2>1 DEF StoreInv, MemInv, Covers
  <2>7. OrderInv'
    BY <2>1, <2>2, <2>3, <2>4 DEF StoreInv, OrderInv, Covers
  <2>8. SaveIsDurable' /\ FlushedIsOnDisk'
    BY <2>1, <2>2, <2>4, SMT DEF StoreInv, SaveIsDurable, FlushedIsOnDisk, Busy, Covers
  <2> QED
    BY <2>5, <2>6, <2>7, <2>8 DEF StoreInv
<1>12. ASSUME NEW t \in Savers, Advance(t) PROVE StoreInv'
  <2>1. /\ pc[t] = "saved"
        /\ flushedGen' = IF snap[t].gen > flushedGen THEN snap[t].gen ELSE flushedGen
        /\ snap' = [snap EXCEPT ![t] = NoSnapshot]
        /\ UNCHANGED <<mem, base, disk, fileMu, seq, mutGen, lastWritten>>
    BY <1>12 DEF Advance, CoveredGen
  <2>2. /\ ~Busy(t)'
        /\ \A u \in Savers \ {t} :
             pc'[u] = pc[u] \/ (pc[u] = "rlock" /\ pc'[u] = "read")
    BY <1>12, SMT DEF Advance, AfterUnlock, AfterFlush, Busy, TypeOK
  <2>3. \A u \in Savers \ {t} : Busy(u)' <=> Busy(u)
    BY <2>2, SMT DEF Busy
  <2>4. \A u \in Savers \ {t} : snap'[u] = snap[u]
    BY <2>1 DEF TypeOK
  <2>5. FileInv'
    BY <2>1, <2>2, <2>4, SMT DEF StoreInv, FileInv, Busy
  <2>6. MemInv'
    BY <2>1 DEF StoreInv, MemInv, Covers
  <2>7. OrderInv'
    BY <2>1, <2>2, <2>3, <2>4 DEF StoreInv, OrderInv, Covers
  <2>8. SaveIsDurable'
    BY <2>1, <2>2, <2>4, SMT DEF StoreInv, SaveIsDurable, Busy, Covers
  <2>9. FlushedIsOnDisk'
    <3>1. Busy(t) /\ Covers(disk, snap[t].content)
      BY <2>1 DEF Busy, StoreInv, SaveIsDurable
    <3>2. base + snap[t].gen = snap[t].content.defers
      BY <3>1 DEF StoreInv, OrderInv
    <3> QED
      BY <2>1, <3>1, <3>2, SMT
      DEF StoreInv, FlushedIsOnDisk, Covers, TypeOK, Content, Snapshots
  <2> QED
    BY <2>5, <2>6, <2>7, <2>8, <2>9 DEF StoreInv
<1>13. CASE Receive \/ Wake \/ Rekick \/ Signal
  <2>1. UNCHANGED <<mem, base, disk, seq, mutGen, flushedGen, lastWritten, snap, fileMu>>
    BY <1>13 DEF Receive, Wake, Rekick, Signal
  <2>2. \A t \in Savers : /\ Busy(t)' <=> Busy(t)
                          /\ (pc[t] = "write")' <=> pc[t] = "write"
                          /\ (pc[t] = "saved")' <=> pc[t] = "saved"
    BY <1>13, SMT DEF Receive, Wake, Rekick, Signal, Busy, TypeOK
  <2> QED
    BY <2>1, <2>2, StoreQuiet
<1>14. ASSUME NEW t \in Flushes, FlushClean(t) PROVE StoreInv'
  BY <1>14, StoreQuiet, SMT DEF FlushClean, AfterFlush, TypeOK, Busy
<1>15. ASSUME NEW t \in Flushes, FlushMarshal(t) PROVE StoreInv'
  <2>1. mem' \in Content /\ Covers(mem', mem) /\ mem'.defers = mem.defers
    BY <1>15, <1>t, SMT DEF FlushMarshal, TypeOK, Content, Covers
  <2>2. t \in Savers /\ ~Busy(t)
    BY <1>15 DEF FlushMarshal, Busy
  <2>3. /\ seq' = seq + 1
        /\ snap' = [snap EXCEPT ![t] =
                      [content |-> mem', seq |-> seq', gen |-> mutGen]]
        /\ UNCHANGED <<base, disk, mutGen, flushedGen, lastWritten, fileMu>>
    BY <1>15 DEF FlushMarshal
  <2>4. pc'[t] = "file" /\ \A u \in Savers \ {t} : pc'[u] = pc[u]
    BY <1>15, SMT DEF FlushMarshal, TypeOK
  <2> QED
    BY <2>1, <2>2, <2>3, <2>4, SnapshotTaken
<1>16. CASE Exit \/ Crash
  <2>1. /\ mem' = disk /\ disk' = disk /\ base' = disk.defers
        /\ seq' = 0 /\ mutGen' = 0 /\ flushedGen' = 0 /\ lastWritten' = 0
        /\ fileMu' = NoOne
    BY <1>16 DEF Exit, Crash, Volatile
  <2>2. \A t \in Savers : pc'[t] \in {"idle", "off"}
    BY <1>16, SMT DEF Exit, Crash, Volatile
  <2> QED
    BY <2>1, <2>2, SMT
    DEF StoreInv, FileInv, MemInv, OrderInv, SaveIsDurable, FlushedIsOnDisk,
        Busy, Covers, TypeOK, Content
<1>17. CASE Boot
  <2>1. /\ disk' = mem /\ seq' = 1 /\ lastWritten' = 1
        /\ UNCHANGED <<mem, base, fileMu, pc, snap, mutGen, flushedGen>>
    BY <1>17 DEF Boot
  <2>2. \A t \in Savers : pc[t] \in {"idle", "off"}
    BY <1>17 DEF Boot, RunInv
  <2> QED
    BY <2>1, <2>2, SMT
    DEF StoreInv, FileInv, MemInv, OrderInv, SaveIsDurable, FlushedIsOnDisk,
        Busy, Covers, TypeOK, Content
<1>18. CASE UNCHANGED vars
  BY <1>18, StoreQuiet DEF vars, Busy
<1> QED
  BY <1>1, <1>2, <1>3, <1>4, <1>5, <1>6, <1>7, <1>8, <1>9, <1>10, <1>11, <1>12,
     <1>13, <1>14, <1>15, <1>16, <1>17, <1>18
  DEF Next, HotStep, EditStep, FlushStep
-----------------------------------------------------------------------------
\* While memory and the signal handler's places and snapshot stand, or the
\* deferred changes in memory and on disk only grow, ExitInv holds on.
LEMMA ExitQuiet ==
  ASSUME TypeOK, TypeOK', ExitInv, asked' = asked,
         mem'.defers >= mem.defers, disk'.defers >= disk.defers,
         snap'[Handler] = snap[Handler],
         \/ pc'[Handler] = pc[Handler]
         \/ pc[Handler] = "rlock" /\ pc'[Handler] = "read"
         \/ pc[Handler] \in {"file", "write"} /\ pc'[Handler] \in {"write", "saved"}
  PROVE  ExitInv'
BY SMT DEF ExitInv, CleanExitKeepsLeases, Busy, TypeOK, Content

\* Every step keeps ExitInv: what was recorded before the signal came is in the
\* snapshot of the signal handler, or on disk.
THEOREM ExitStep ==
  TypeOK /\ RunInv /\ StoreInv /\ ExitInv /\ [Next]_vars => ExitInv'
<1> SUFFICES ASSUME TypeOK, RunInv, StoreInv, ExitInv, [Next]_vars PROVE ExitInv'
  OBVIOUS
<1>t. TypeOK' /\ StoreInv'
  BY TypeStep, StoreStep
<1>n. mem.defers \in Nat /\ disk.defers \in Nat
  BY DEF TypeOK, Content
<1> USE ThreadsAssumption, BoundsAssumption
    DEF Threads, Writers, Savers, Flushes, memory, locks, gens, history
<1>1. ASSUME NEW h \in Hot, CallHot(h) \/ HotStep(h) PROVE ExitInv'
  <2>1. /\ asked' = asked /\ disk' = disk /\ snap' = snap
        /\ mem' = mem \/ mem' = [mem EXCEPT !.defers = @ + 1]
    BY <1>1 DEF CallHot, HotStep, Announce, RLock, ReturnLookup, Upsert, UpsertUnchanged
  <2>2. pc'[Handler] = pc[Handler] \/ (pc[Handler] = "rlock" /\ pc'[Handler] = "read")
    BY <1>1, SMT
    DEF CallHot, HotStep, Announce, RLock, ReturnLookup, Upsert, UpsertUnchanged,
        AfterUnlock, TypeOK
  <2>3. mem'.defers >= mem.defers /\ disk'.defers >= disk.defers
    BY <1>n, <2>1, SMT DEF TypeOK, Content
  <2> QED
    BY <1>t, <2>1, <2>2, <2>3, ExitQuiet
<1>2. ASSUME NEW e \in Editors, CallEdit(e) \/ Announce(e) \/ EditAndMarshal(e)
      PROVE  ExitInv'
  <2>1. /\ asked' = asked /\ disk' = disk /\ snap'[Handler] = snap[Handler]
        /\ mem' = mem \/ mem' = [mem EXCEPT !.edits = @ + 1]
        /\ pc'[Handler] = pc[Handler]
    BY <1>2, SMT DEF CallEdit, Announce, EditAndMarshal, TypeOK
  <2>2. mem'.defers >= mem.defers /\ disk'.defers >= disk.defers
    BY <1>n, <2>1, SMT DEF TypeOK, Content
  <2> QED
    BY <1>t, <2>1, <2>2, ExitQuiet
<1>3. ASSUME NEW t \in Savers, TakeFile(t) PROVE ExitInv'
  <2>1. /\ asked' = asked /\ disk' = disk /\ mem' = mem /\ snap' = snap
        /\ \/ pc'[Handler] = pc[Handler]
           \/ pc[Handler] = "file" /\ pc'[Handler] \in {"write", "saved"}
    BY <1>3, SMT DEF TakeFile, TypeOK
  <2> QED
    BY <1>t, <1>n, <2>1, ExitQuiet, SMT
<1>4. ASSUME NEW t \in Savers, WriteOK(t) PROVE ExitInv'
  <2>1. /\ asked' = asked /\ mem' = mem /\ snap' = snap
        /\ \/ pc'[Handler] = pc[Handler]
           \/ pc[Handler] = "write" /\ pc'[Handler] = "saved"
    BY <1>4, SMT DEF WriteOK, TypeOK
  <2>2. disk'.defers >= disk.defers
    BY <1>4, SMT DEF WriteOK, StoreInv, FileInv, OrderInv, Busy, Covers
  <2> QED
    BY <1>t, <1>n, <2>1, <2>2, ExitQuiet, SMT
<1>5. ASSUME NEW t \in Savers, WriteFail(t) PROVE ExitInv'
  <2>1. asked' = asked /\ disk' = disk /\ mem' = mem
    BY <1>5 DEF WriteFail
  <2>2. CASE t = Handler
    BY <1>5, <2>2, SMT
    DEF WriteFail, AfterFail, ExitInv, CleanExitKeepsLeases, Busy, TypeOK
  <2>3. CASE t # Handler
    <3>1. /\ snap'[Handler] = snap[Handler]
          /\ pc'[Handler] = pc[Handler] \/ (pc[Handler] = "rlock" /\ pc'[Handler] = "read")
      BY <1>5, <2>3, SMT DEF WriteFail, AfterUnlock, AfterFail, TypeOK
    <3> QED
      BY <1>t, <1>n, <2>1, <3>1, ExitQuiet, SMT
  <2> QED
    BY <2>2, <2>3
<1>6. ASSUME NEW t \in Savers, Advance(t) PROVE ExitInv'
  <2>1. asked' = asked /\ disk' = disk /\ mem' = mem /\ pc[t] = "saved"
    BY <1>6 DEF Advance
  <2>2. CASE t = Handler
    <3>1. asked <= snap[Handler].content.defers /\ Covers(disk, snap[Handler].content)
      BY <2>1, <2>2 DEF ExitInv, Busy, StoreInv, SaveIsDurable
    <3>2. asked <= disk.defers
      BY <1>n, <3>1, SMT DEF Covers, TypeOK, Snapshots, Content
    <3>3. pc'[Handler] = "exit"
      BY <1>6, <2>2, SMT DEF Advance, AfterFlush, TypeOK
    <3> QED
      BY <2>1, <3>2, <3>3, SMT DEF ExitInv, CleanExitKeepsLeases, Busy
  <2>3. CASE t # Handler
    <3>1. /\ snap'[Handler] = snap[Handler]
          /\ pc'[Handler] = pc[Handler] \/ (pc[Handler] = "rlock" /\ pc'[Handler] = "read")
      BY <1>6, <2>3, SMT DEF Advance, AfterUnlock, AfterFlush, TypeOK
    <3> QED
      BY <1>t, <1>n, <2>1, <3>1, ExitQuiet, SMT
  <2> QED
    BY <2>2, <2>3
<1>7. CASE Receive \/ Wake \/ Rekick
  <2>1. /\ asked' = asked /\ disk' = disk /\ mem' = mem /\ snap' = snap
        /\ pc'[Handler] = pc[Handler]
    BY <1>7, SMT DEF Receive, Wake, Rekick, TypeOK
  <2> QED
    BY <1>t, <1>n, <2>1, ExitQuiet, SMT
<1>8. CASE Signal
  BY <1>8, <1>n, SMT DEF Signal, ExitInv, CleanExitKeepsLeases, Busy, TypeOK
<1>9. ASSUME NEW t \in Flushes, RLock(t) PROVE ExitInv'
  <2>1. /\ asked' = asked /\ disk' = disk /\ mem' = mem /\ snap' = snap
        /\ pc'[Handler] = pc[Handler] \/ (pc[Handler] = "rlock" /\ pc'[Handler] = "read")
    BY <1>9, SMT DEF RLock, TypeOK
  <2> QED
    BY <1>t, <1>n, <2>1, ExitQuiet, SMT
<1>10. ASSUME NEW t \in Flushes, FlushClean(t) PROVE ExitInv'
  <2>1. asked' = asked /\ disk' = disk /\ mem' = mem /\ snap' = snap
        /\ pc' = [pc EXCEPT ![t] = AfterFlush(t)] /\ pc[t] = "read" /\ mutGen = flushedGen
    BY <1>10 DEF FlushClean, Clean
  <2>2. mem.defers <= disk.defers
    BY <1>n, <2>1, SMT DEF StoreInv, MemInv, FlushedIsOnDisk, TypeOK
  <2>3. CASE t = Handler
    BY <1>n, <2>1, <2>2, <2>3, SMT
    DEF ExitInv, CleanExitKeepsLeases, AfterFlush, Busy, TypeOK
  <2>4. CASE t # Handler
    BY <1>t, <1>n, <2>1, <2>4, ExitQuiet, SMT DEF TypeOK
  <2> QED
    BY <2>3, <2>4
<1>11. ASSUME NEW t \in Flushes, FlushMarshal(t) PROVE ExitInv'
  <2>1. /\ asked' = asked /\ disk' = disk /\ mem' = mem /\ pc[t] = "read"
        /\ snap' = [snap EXCEPT ![t] = [content |-> mem, seq |-> seq', gen |-> mutGen]]
        /\ pc' = [pc EXCEPT ![t] = "file"]
    BY <1>11 DEF FlushMarshal
  <2>2. CASE t = Handler
    <3>1. snap'[Handler].content = mem /\ pc'[Handler] = "file" /\ asked <= mem.defers
      BY <2>1, <2>2, SMT DEF ExitInv, TypeOK
    <3> QED
      BY <2>1, <3>1, SMT DEF ExitInv, CleanExitKeepsLeases, Busy
  <2>3. CASE t # Handler
    <3>1. snap'[Handler] = snap[Handler] /\ pc'[Handler] = pc[Handler]
      BY <2>1, <2>3, SMT DEF TypeOK
    <3> QED
      BY <1>t, <1>n, <2>1, <3>1, ExitQuiet, SMT
  <2> QED
    BY <2>2, <2>3
<1>12. CASE Exit \/ Crash
  <2>1. pc'[Handler] = "idle"
    BY <1>12, SMT DEF Exit, Crash, Volatile
  <2> QED
    BY <2>1, SMT DEF ExitInv, CleanExitKeepsLeases, Busy
<1>13. CASE Boot
  <2>1. pc'[Handler] \in {"idle", "off"}
    BY <1>13 DEF Boot, RunInv
  <2> QED
    BY <2>1, SMT DEF ExitInv, CleanExitKeepsLeases, Busy
<1>14. CASE UNCHANGED vars
  BY <1>14 DEF vars, ExitInv, CleanExitKeepsLeases, Busy
<1> QED
  BY <1>1, <1>2, <1>3, <1>4, <1>5, <1>6, <1>7, <1>8, <1>9, <1>10, <1>11, <1>12,
     <1>13, <1>14
  DEF Next, EditStep, FlushStep
-----------------------------------------------------------------------------
\* Every step keeps a flush on its way while something is dirty
\* (markDirtyLocked, flusher).
THEOREM DirtyStep ==
  TypeOK /\ StoreInv /\ DirtyHasFlush /\ [Next]_vars => DirtyHasFlush'
<1> SUFFICES ASSUME TypeOK, StoreInv, DirtyHasFlush, [Next]_vars PROVE DirtyHasFlush'
  OBVIOUS
<1> USE ThreadsAssumption
    DEF Threads, Writers, Savers, Flushes, memory, locks, gens, history
<1>n. flushedGen \in Nat /\ mutGen \in Nat /\ \A t \in Savers : snap[t].gen \in Nat
  BY SMT DEF TypeOK, Snapshots
\* The flusher's place and snapshot, the generations and the token all stand.
<1>q. ASSUME UNCHANGED <<flushedGen, mutGen, kick>>,
             \/ UNCHANGED <<pc[Flusher], snap[Flusher]>>
             \/ pc[Flusher] = "rlock" /\ pc'[Flusher] = "read"
             \/ /\ pc[Flusher] \in {"file", "write"} /\ pc'[Flusher] \in {"write", "saved"}
                /\ snap'[Flusher] = snap[Flusher]
      PROVE  DirtyHasFlush'
  BY <1>q DEF DirtyHasFlush
<1>1. ASSUME NEW h \in Hot, Upsert(h) PROVE DirtyHasFlush'
  BY <1>1 DEF Upsert, Kicked, DirtyHasFlush
<1>2. ASSUME NEW h \in Hot,
             CallHot(h) \/ Announce(h) \/ RLock(h) \/ ReturnLookup(h) \/ UpsertUnchanged(h)
      PROVE  DirtyHasFlush'
  <2>1. /\ UNCHANGED <<flushedGen, mutGen, kick, snap>>
        /\ pc'[Flusher] = pc[Flusher] \/ (pc[Flusher] = "rlock" /\ pc'[Flusher] = "read")
    BY <1>2, SMT
    DEF CallHot, Announce, RLock, ReturnLookup, UpsertUnchanged, AfterUnlock, TypeOK
  <2> QED
    BY <1>q, <2>1
<1>3. ASSUME NEW e \in Editors, CallEdit(e) \/ Announce(e) \/ EditAndMarshal(e)
      PROVE  DirtyHasFlush'
  <2>1. UNCHANGED <<flushedGen, mutGen, kick, pc[Flusher], snap[Flusher]>>
    BY <1>3, SMT DEF CallEdit, Announce, EditAndMarshal, TypeOK
  <2> QED
    BY <1>q, <2>1
<1>4. ASSUME NEW t \in Savers, TakeFile(t) \/ WriteOK(t) PROVE DirtyHasFlush'
  <2>1. /\ UNCHANGED <<flushedGen, mutGen, kick, snap>>
        /\ \/ pc'[Flusher] = pc[Flusher]
           \/ pc[Flusher] \in {"file", "write"} /\ pc'[Flusher] \in {"write", "saved"}
    BY <1>4, SMT DEF TakeFile, WriteOK, TypeOK
  <2> QED
    BY <1>q, <2>1
<1>5. ASSUME NEW t \in Savers, WriteFail(t) PROVE DirtyHasFlush'
  <2>1. UNCHANGED <<flushedGen, mutGen, kick>>
    BY <1>5 DEF WriteFail
  <2>2. CASE t = Flusher
    BY <1>5, <2>1, <2>2, SMT DEF WriteFail, AfterFail, DirtyHasFlush, TypeOK
  <2>3. CASE t # Flusher
    <3>1. /\ snap'[Flusher] = snap[Flusher]
          /\ pc'[Flusher] = pc[Flusher] \/ (pc[Flusher] = "rlock" /\ pc'[Flusher] = "read")
      BY <1>5, <2>3, SMT DEF WriteFail, AfterUnlock, AfterFail, TypeOK
    <3> QED
      BY <1>q, <2>1, <3>1
  <2> QED
    BY <2>2, <2>3
<1>6. ASSUME NEW t \in Savers, Advance(t) PROVE DirtyHasFlush'
  <2>1. /\ mutGen' = mutGen /\ kick' = kick
        /\ flushedGen' >= flushedGen /\ flushedGen' >= snap[t].gen
    BY <1>6, <1>n, SMT DEF Advance, CoveredGen
  <2>2. flushedGen' \in Nat
    BY <1>6, <1>n, SMT DEF Advance, CoveredGen
  <2>3. CASE t = Flusher
    \* If something is still dirty, it came after the snapshot and sent a token.
    BY <1>n, <1>6, <2>1, <2>2, <2>3, SMT DEF Advance, DirtyHasFlush
  <2>4. CASE t # Flusher
    <3>1. /\ snap'[Flusher] = snap[Flusher]
          /\ pc'[Flusher] = pc[Flusher] \/ (pc[Flusher] = "rlock" /\ pc'[Flusher] = "read")
      BY <1>6, <2>4, SMT DEF Advance, AfterUnlock, AfterFlush, TypeOK
    <3>2. flushedGen' < mutGen' => flushedGen < mutGen
      BY <1>n, <2>1, <2>2, SMT
    <3> QED
      BY <2>1, <3>1, <3>2 DEF DirtyHasFlush
  <2> QED
    BY <2>3, <2>4
<1>7. CASE Receive
  BY <1>7, SMT DEF Receive, DirtyHasFlush, TypeOK
<1>8. CASE Wake
  BY <1>8, SMT DEF Wake, DirtyHasFlush, TypeOK
<1>9. CASE Rekick
  BY <1>9 DEF Rekick, DirtyHasFlush
<1>10. CASE Signal
  <2>1. UNCHANGED <<flushedGen, mutGen, kick, pc[Flusher], snap[Flusher]>>
    BY <1>10, SMT DEF Signal, TypeOK
  <2> QED
    BY <1>q, <2>1
<1>11. ASSUME NEW t \in Flushes, RLock(t) PROVE DirtyHasFlush'
  <2>1. /\ UNCHANGED <<flushedGen, mutGen, kick, snap>>
        /\ pc'[Flusher] = pc[Flusher] \/ (pc[Flusher] = "rlock" /\ pc'[Flusher] = "read")
    BY <1>11, SMT DEF RLock, TypeOK
  <2> QED
    BY <1>q, <2>1
<1>12. ASSUME NEW t \in Flushes, FlushClean(t) PROVE DirtyHasFlush'
  \* Clean means that nothing is dirty.
  BY <1>12, <1>n, SMT DEF FlushClean, Clean, DirtyHasFlush
<1>13. ASSUME NEW t \in Flushes, FlushMarshal(t) PROVE DirtyHasFlush'
  <2>1. UNCHANGED <<flushedGen, mutGen, kick>>
    BY <1>13 DEF FlushMarshal
  <2>2. CASE t = Flusher
    <3>1. pc'[Flusher] = "file" /\ snap'[Flusher].gen = mutGen
      BY <1>13, <2>2, SMT DEF FlushMarshal, TypeOK
    <3> QED
      BY <2>1, <3>1 DEF DirtyHasFlush
  <2>3. CASE t # Flusher
    <3>1. UNCHANGED <<pc[Flusher], snap[Flusher]>>
      BY <1>13, <2>3, SMT DEF FlushMarshal, TypeOK
    <3> QED
      BY <1>q, <2>1, <3>1
  <2> QED
    BY <2>2, <2>3
<1>14. CASE Exit \/ Crash
  <2>1. flushedGen' = 0 /\ mutGen' = 0
    BY <1>14 DEF Exit, Crash, Volatile
  <2> QED
    BY <2>1, SMT DEF DirtyHasFlush
<1>15. CASE Boot
  <2>1. UNCHANGED <<flushedGen, mutGen, kick, pc, snap>>
    BY <1>15 DEF Boot
  <2> QED
    BY <1>q, <2>1
<1>16. CASE UNCHANGED vars
  BY <1>16 DEF vars, DirtyHasFlush
<1> QED
  BY <1>1, <1>2, <1>3, <1>4, <1>5, <1>6, <1>7, <1>8, <1>9, <1>10, <1>11, <1>12,
     <1>13, <1>14, <1>15, <1>16
  DEF Next, HotStep, EditStep, FlushStep
-----------------------------------------------------------------------------
(* The inductive invariant holds of every reachable state.                  *)
THEOREM Invariance == Spec => []IInv
<1>1. Init => IInv
  <2> SUFFICES ASSUME Init PROVE IInv
    OBVIOUS
  <2>1. TypeOK /\ StoreInv
    BY InitType, StoreInit
  <2>2. \A t \in Threads : pc[t] \in {"idle", "off"}
    BY SMT DEF Init
  <2>3. ExitInv /\ RunInv /\ DirtyHasFlush
    BY <2>2, SMT
    DEF Init, ExitInv, CleanExitKeepsLeases, Busy, RunInv, DirtyHasFlush, Threads, Flushes
  <2> QED
    BY <2>1, <2>3 DEF IInv
<1>2. IInv /\ [Next]_vars => IInv'
  BY TypeStep, RunStep, StoreStep, ExitStep, DirtyStep DEF IInv
<1> QED
  BY <1>1, <1>2, PTL DEF Spec

(* The types and places of every variable are kept.                         *)
THEOREM TypeCorrect == Spec => []TypeOK
BY Invariance, PTL DEF IInv

(* A save that succeeded is on disk (saveLocked, Flush, writeSnapshot).     *)
THEOREM SavesAreDurable == Spec => []SaveIsDurable
BY Invariance, PTL DEF IInv, StoreInv

(* flushedGen never claims what config.json does not hold.                  *)
THEOREM FlushedStaysOnDisk == Spec => []FlushedIsOnDisk
BY Invariance, PTL DEF IInv, StoreInv

(* No deferred change is left dirty without a flush on its way.             *)
THEOREM NoLostWakeup == Spec => []DirtyHasFlush
BY Invariance, PTL DEF IInv

(* The last flush before an exit by signal saves every recorded lease.      *)
THEOREM ExitKeepsLeases == Spec => []CleanExitKeepsLeases
BY Invariance, PTL DEF IInv, ExitInv

\* In a state of the invariant no step takes a change out of config.json.
LEMMA ForwardStep == IInv /\ [Next]_vars => Covers(disk', disk)
<1> SUFFICES ASSUME IInv, [Next]_vars PROVE Covers(disk', disk)
  OBVIOUS
<1> USE DEF IInv, StoreInv
<1>1. CASE disk' = disk
  BY <1>1, SMT DEF TypeOK, Content, Covers
<1>2. ASSUME NEW t \in Savers, WriteOK(t) PROVE Covers(disk', disk)
  BY <1>2, SMT DEF WriteOK, FileInv, OrderInv, Busy
<1>3. CASE Boot
  BY <1>3, SMT DEF Boot, MemInv
<1>4. \/ disk' = disk
      \/ \E t \in Savers : WriteOK(t)
      \/ Boot
  BY DEF Next, HotStep, EditStep, FlushStep, CallHot, Announce, RLock, ReturnLookup,
         Upsert, UpsertUnchanged, CallEdit, EditAndMarshal, TakeFile, WriteFail,
         Advance, Receive, Wake, Rekick, Signal, FlushClean, FlushMarshal, Exit,
         Crash, vars, Savers
<1> QED
  BY <1>1, <1>2, <1>3, <1>4

(* config.json never loses a change it holds.                               *)
THEOREM DiskForward == Spec => DiskMovesForward
<1>1. IInv /\ [Next]_vars => [Covers(disk', disk)]_vars
  BY ForwardStep
<1> QED
  BY <1>1, Invariance, PTL DEF Spec, DiskMovesForward

(* ConfigStore keeps the promise of DurableStore: behind locks, snapshots   *)
(* and goroutines, memory changes one change at a time, the file catches up *)
(* with memory and never falls back, and a restart resumes from the file.   *)
THEOREM Refinement == Spec => ImplementsDurableStore
<1>1. Init => Durable!Init
  BY DEF Init, Durable!Init, EmptyContent
<1>2. IInv /\ IInv' /\ [Next]_vars => [Durable!Next]_(Durable!vars)
  <2> SUFFICES ASSUME IInv, IInv', [Next]_vars
               PROVE  Durable!Change \/ Durable!Persist \/ Durable!Restart
                      \/ UNCHANGED <<mem, disk>>
    BY DEF Durable!Next, Durable!vars
  <2>1. ASSUME NEW h \in Hot, Upsert(h) PROVE Durable!Change
    BY <2>1 DEF Upsert, Durable!Change
  <2>2. ASSUME NEW e \in Editors, EditAndMarshal(e) PROVE Durable!Change
    BY <2>2 DEF EditAndMarshal, Durable!Change
  <2>3. ASSUME NEW t \in Savers, WriteOK(t) PROVE Durable!Persist
    <3>1. mem' = mem /\ disk' \in Content /\ Covers(disk', disk) /\ Covers(mem, disk')
      BY <2>3, ForwardStep, SMT
      DEF WriteOK, IInv, TypeOK, StoreInv, OrderInv, Snapshots, Busy, memory
    <3> QED
      BY <3>1 DEF Durable!Persist, Durable!Covers, Durable!Content, Covers, Content
  <2>4. CASE Boot
    <3>1. mem' = mem /\ disk' \in Content /\ Covers(disk', disk) /\ Covers(mem, disk')
      BY <2>4, ForwardStep, SMT DEF Boot, IInv, TypeOK, Content, Covers, memory
    <3> QED
      BY <3>1 DEF Durable!Persist, Durable!Covers, Durable!Content, Covers, Content
  <2>5. CASE Exit \/ Crash
    BY <2>5 DEF Exit, Crash, Volatile, Durable!Restart
  <2>6. \/ \E h \in Hot : Upsert(h)
        \/ \E e \in Editors : EditAndMarshal(e)
        \/ \E t \in Savers : WriteOK(t)
        \/ Boot \/ Exit \/ Crash
        \/ UNCHANGED <<mem, disk>>
    BY DEF Next, HotStep, EditStep, FlushStep, CallHot, Announce, RLock, ReturnLookup,
           UpsertUnchanged, CallEdit, TakeFile, WriteFail, Advance, Receive, Wake,
           Rekick, Signal, FlushClean, FlushMarshal, vars, Savers, memory
  <2> QED
    BY <2>1, <2>2, <2>3, <2>4, <2>5, <2>6
<1> QED
  BY <1>1, <1>2, Invariance, PTL DEF Spec, Durable!Spec, ImplementsDurableStore
-----------------------------------------------------------------------------
(* Waiting for mutexes.                                                     *)

\* t waits for u: for mu, which u holds or has announced itself on; for u to
\* leave mu, as a reader; for fileMu, which u holds.
WaitsFor(t, u) ==
  \/ pc[t] \in {"lock", "rlock"} /\ muW = u
  \/ pc[t] = "drain" /\ pc[u] = "read"
  \/ pc[t] = "file" /\ fileMu = u

\* How far from its turn t is at most.
Level(t) ==
  IF pc[t] \in {"lock", "rlock"} THEN 3
  ELSE IF pc[t] = "drain" THEN 2 ELSE IF pc[t] = "file" THEN 1 ELSE 0

\* Whoever is waited for is at work within the mutex, and of a lower level: a
\* line of goroutines that wait for one another ends after three, with one that
\* waits for nobody.
NoCircularWait ==
  \A t, u \in Threads : WaitsFor(t, u) =>
    pc[u] \in {"read", "drain", "file", "write", "saved"} /\ Level(u) < Level(t)

\* mu is held for writing by those who are past its Lock, and nobody reads
\* while an editor saves.  Inductive, with TypeOK.
MuInv ==
  /\ muW # NoOne => pc[muW] \in {"drain", "file", "write", "saved"}
  /\ \A t \in Writers : pc[t] \in {"drain", "file", "write", "saved"} => muW = t
  /\ \A e \in Editors : Busy(e) => Readers = {}

\* The holder of mu unlocks it and is idle; waiting readers get in.
LEMMA MuUnlocked ==
  ASSUME TypeOK, MuInv, NEW t \in Writers, muW = t, muW' = NoOne,
         pc[t] \in {"drain", "file", "write", "saved"},
         \A u \in Writers : pc'[u] = IF u = t THEN "idle"
                                     ELSE IF pc[u] = "rlock" THEN "read" ELSE pc[u]
  PROVE  MuInv'
<1>1. \A u \in Writers : u # t => pc[u] \notin {"drain", "file", "write", "saved"}
  BY DEF MuInv
<1>2. \A u \in Writers : pc'[u] \notin {"drain", "file", "write", "saved"}
  BY <1>1
<1> QED
  BY <1>2 DEF MuInv, Busy, Writers

\* Writers stay where they are, or move among the places without mu, or the
\* one that holds it goes on; and nobody starts to read while mu is taken.
LEMMA MuQuiet ==
  ASSUME TypeOK, MuInv, muW' = muW,
         \A t \in Writers :
           \/ pc'[t] = pc[t]
           \/ /\ pc[t] \notin {"drain", "file", "write", "saved"}
              /\ pc'[t] \notin {"drain", "file", "write", "saved"}
           \/ Busy(t) /\ Busy(t)',
         \A t \in Threads : pc'[t] = "read" => pc[t] = "read" \/ muW = NoOne
  PROVE  MuInv'
<1> USE ThreadsAssumption DEF Threads, Writers
<1>1. muW \in Writers \union {NoOne}
  BY DEF TypeOK
<1>2. (muW # NoOne => pc[muW] \in {"drain", "file", "write", "saved"})'
  BY <1>1 DEF MuInv, Busy
<1>3. \A t \in Writers : pc'[t] \in {"drain", "file", "write", "saved"} => muW' = t
  BY DEF MuInv, Busy
<1>4. ASSUME NEW e \in Editors, Busy(e)' PROVE Readers' = {}
  <2>1. CASE Busy(e)
    <3>1. muW # NoOne /\ Readers = {}
      BY <2>1 DEF MuInv, Busy
    <3> QED
      BY <3>1 DEF Readers
  <2>2. CASE ~Busy(e)
    BY <1>4, <2>2 DEF Busy
  <2> QED
    BY <2>1, <2>2
<1> QED
  BY <1>2, <1>3, <1>4 DEF MuInv

\* Every step keeps MuInv.
LEMMA MuStep == TypeOK /\ MuInv /\ [Next]_vars => MuInv'
<1> SUFFICES ASSUME TypeOK, MuInv, [Next]_vars PROVE MuInv'
  OBVIOUS
<1> USE ThreadsAssumption DEF Threads, Writers, Savers, Flushes, locks
<1>p. pc \in [Threads -> Places] /\ \A u \in Threads : pc[u] \in Places
  BY DEF TypeOK
<1>1. ASSUME NEW t \in Writers, Announce(t) PROVE MuInv'
  <2>1. muW = NoOne /\ muW' = t /\ pc' = [pc EXCEPT ![t] = "drain"]
    BY <1>1 DEF Announce
  <2>2. \A u \in Writers : pc[u] \notin {"drain", "file", "write", "saved"}
    BY <2>1 DEF MuInv
  <2> QED
    BY <1>p, <2>1, <2>2 DEF MuInv, Busy
<1>2. ASSUME NEW e \in Editors, EditAndMarshal(e) PROVE MuInv'
  <2>1. /\ pc[e] = "drain" /\ muW = e /\ Readers = {} /\ muW' = e
        /\ pc' = [pc EXCEPT ![e] = "file"]
    BY <1>2 DEF EditAndMarshal, HasMu
  <2>2. Readers' = {}
    BY <1>p, <2>1 DEF Readers
  <2> QED
    BY <1>p, <2>1, <2>2 DEF MuInv, Busy
<1>3. ASSUME NEW h \in Hot, Upsert(h) \/ UpsertUnchanged(h) PROVE MuInv'
  <2>1. pc[h] = "drain" /\ muW = h /\ muW' = NoOne /\ h # Flusher
    BY <1>3 DEF Upsert, UpsertUnchanged, HasMu
  <2>2. \A u \in Writers : pc'[u] = IF u = h THEN "idle"
                                    ELSE IF pc[u] = "rlock" THEN "read" ELSE pc[u]
    BY <1>3, <1>p DEF Upsert, UpsertUnchanged, AfterUnlock
  <2> QED
    BY <2>1, <2>2, MuUnlocked
<1>4. ASSUME NEW e \in Editors, WriteFail(e) \/ Advance(e) PROVE MuInv'
  <2>1. pc[e] \in {"write", "saved"} /\ muW' = NoOne /\ muW = e
    BY <1>4 DEF WriteFail, Advance, MuInv
  <2>2. \A u \in Writers : pc'[u] = IF u = e THEN "idle"
                                    ELSE IF pc[u] = "rlock" THEN "read" ELSE pc[u]
    BY <1>4, <1>p DEF WriteFail, Advance, AfterUnlock
  <2> QED
    BY <2>1, <2>2, MuUnlocked
<1>5. ASSUME NEW t \in Threads, RLock(t) PROVE MuInv'
  BY <1>5, <1>p, MuQuiet DEF RLock, Busy
<1>6. ASSUME NEW h \in Hot, CallHot(h) \/ ReturnLookup(h) PROVE MuInv'
  BY <1>6, <1>p, MuQuiet DEF CallHot, ReturnLookup, Busy
<1>7. ASSUME NEW e \in Editors, CallEdit(e) PROVE MuInv'
  BY <1>7, <1>p, MuQuiet DEF CallEdit, Busy
<1>8. ASSUME NEW t \in Savers, TakeFile(t) \/ WriteOK(t) PROVE MuInv'
  BY <1>8, <1>p, MuQuiet DEF TakeFile, WriteOK, Busy
<1>9. ASSUME NEW t \in Flushes,
             WriteFail(t) \/ Advance(t) \/ FlushClean(t) \/ FlushMarshal(t)
      PROVE  MuInv'
  <2>1. muW' = muW /\ \E place \in Places \ {"read"} : pc' = [pc EXCEPT ![t] = place]
    BY <1>9 DEF WriteFail, Advance, FlushClean, FlushMarshal, AfterFail, AfterFlush, Places
  <2> QED
    BY <1>p, <2>1, MuQuiet
<1>10. CASE Receive \/ Wake \/ Rekick \/ Signal
  <2>1. /\ muW' = muW
        /\ \E t \in Flushes, place \in Places \ {"read"} : pc' = [pc EXCEPT ![t] = place]
    BY <1>10 DEF Receive, Wake, Rekick, Signal, Places
  <2> QED
    BY <1>p, <2>1, MuQuiet
<1>11. CASE Exit \/ Crash
  <2>1. muW' = NoOne /\ \A t \in Threads : pc'[t] \in {"idle", "off"}
    BY <1>11 DEF Exit, Crash, Volatile
  <2> QED
    BY <2>1 DEF MuInv, Busy
<1>12. CASE Boot \/ UNCHANGED vars
  BY <1>12, MuQuiet DEF Boot, vars
<1> QED
  BY <1>1, <1>2, <1>3, <1>4, <1>5, <1>6, <1>7, <1>8, <1>9, <1>10, <1>11, <1>12
  DEF Next, HotStep, EditStep, FlushStep

\* No lock is left behind and no goroutines wait for one another in a circle: mu and
\* fileMu are nested in saveLocked (config.go:353), taken one after the other in
\* Flush, and a writer that has announced itself keeps new readers out meanwhile.
\* With fair mutexes this is why HotReturns holds.
THEOREM WaitsEnd == Spec => []NoCircularWait
<1>1. Init => MuInv
  <2> SUFFICES ASSUME Init PROVE MuInv
    OBVIOUS
  <2>1. muW = NoOne /\ \A t \in Threads : pc[t] \in {"idle", "off"}
    BY DEF Init
  <2> QED
    BY <2>1 DEF MuInv, Busy, Threads, Writers
<1>2. TypeOK /\ FileInv /\ MuInv => NoCircularWait
  <2> SUFFICES ASSUME TypeOK, FileInv, MuInv, NEW t \in Threads, NEW u \in Threads,
                      WaitsFor(t, u)
               PROVE  /\ pc[u] \in {"read", "drain", "file", "write", "saved"}
                      /\ Level(u) < Level(t)
    BY DEF NoCircularWait
  <2>1. NoOne # u
    BY ThreadsAssumption
  <2>2. CASE pc[t] \in {"lock", "rlock"} /\ muW = u
    BY <2>1, <2>2 DEF MuInv, Level
  <2>3. CASE pc[t] = "drain" /\ pc[u] = "read"
    BY <2>3 DEF Level
  <2>4. CASE pc[t] = "file" /\ fileMu = u
    <3>1. u \in Savers /\ pc[u] = "write"
      BY <2>1, <2>4 DEF TypeOK, FileInv
    <3> QED
      BY <2>4, <3>1 DEF Level
  <2> QED
    BY <2>2, <2>3, <2>4 DEF WaitsFor
<1>3. IInv => TypeOK /\ FileInv
  BY DEF IInv, StoreInv
<1> QED
  BY <1>1, <1>2, <1>3, MuStep, Invariance, PTL DEF Spec
-----------------------------------------------------------------------------
(* The way of a deferred change to the disk.                                *)

\* The n-th deferred change is in memory and not on disk.
Owed(n) == up /\ mem.defers >= n /\ disk.defers < n

\* How many steps the flusher is from writing the n-th deferred change, if no
\* write fails: at place p, with a snapshot that has the first k.  It may have to
\* finish a save of an older snapshot first.
LegOf(n, p, k) ==
  CASE p = "file" -> IF k >= n THEN 2 ELSE 9
    [] p = "write" -> IF k >= n THEN 1 ELSE 8
    [] p \in {"saved", "retry"} -> 7
    [] p \in {"recv", "off"} -> 6
    [] p = "sleep" -> 5
    [] p = "rlock" -> 4
    [] p = "read" -> 3

Leg(n) == LegOf(n, pc[Flusher], snap[Flusher].content.defers)

\* With the failures that may come.
Work(n) == 9 * (MaxFails - fails) + Leg(n)

FlusherStep == FlushStep(Flusher) \/ WriteFail(Flusher) \/ Receive \/ Wake \/ Rekick

\* While the n-th change is owed, a step of the flusher brings it nearer to the
\* disk, and no other step takes it further away.
BringsNearer(n) ==
  Owed(n) /\ Owed(n)' =>
    IF FlusherStep THEN Work(n)' < Work(n) ELSE Work(n)' <= Work(n)

\* The flusher is then not waiting for a token that will not come.
OnItsWay(n) ==
  Owed(n) => /\ pc[Flusher] # "off"
             /\ pc[Flusher] = "recv" => kick
             /\ Work(n) \in 1 .. 9 * MaxFails + 9

\* Before the flusher is started nothing was deferred, and failures are counted.
\* Inductive, with TypeOK.
StartInv == (pc[Flusher] = "off" => mutGen = 0) /\ fails <= MaxFails

\* Every step keeps StartInv.
LEMMA StartStep == TypeOK /\ StartInv /\ [Next]_vars => StartInv'
<1> SUFFICES ASSUME TypeOK, StartInv, [Next]_vars PROVE StartInv'
  OBVIOUS
<1> USE ThreadsAssumption, BoundsAssumption
    DEF Threads, Writers, Savers, Flushes, memory, locks, gens, history
<1>p. pc \in [Threads -> Places] /\ Flusher \in Threads /\ fails \in Nat
  BY DEF TypeOK
<1>1. ASSUME fails' <= MaxFails, mutGen' = mutGen, pc[Flusher] # "off" => pc'[Flusher] # "off"
      PROVE  StartInv'
  BY <1>1 DEF StartInv
<1>2. ASSUME NEW h \in Hot, Upsert(h) PROVE StartInv'
  <2>1. pc'[Flusher] # "off" /\ fails' = fails
    BY <1>2, <1>p DEF Upsert, AfterUnlock
  <2> QED
    BY <2>1 DEF StartInv
<1>3. ASSUME NEW h \in Hot,
             CallHot(h) \/ Announce(h) \/ RLock(h) \/ ReturnLookup(h) \/ UpsertUnchanged(h)
      PROVE  StartInv'
  <2>1. /\ fails' = fails /\ mutGen' = mutGen
        /\ pc[Flusher] # "off" => pc'[Flusher] # "off"
    BY <1>3, <1>p DEF CallHot, Announce, RLock, ReturnLookup, UpsertUnchanged, AfterUnlock
  <2> QED
    BY <1>1, <2>1 DEF StartInv
<1>4. ASSUME NEW e \in Editors, CallEdit(e) \/ Announce(e) \/ EditAndMarshal(e)
      PROVE  StartInv'
  BY <1>1, <1>4, <1>p DEF CallEdit, Announce, EditAndMarshal, StartInv
<1>5. ASSUME NEW t \in Savers, TakeFile(t) \/ WriteOK(t) PROVE StartInv'
  BY <1>1, <1>5, <1>p DEF TakeFile, WriteOK, StartInv
<1>6. ASSUME NEW t \in Savers, WriteFail(t) PROVE StartInv'
  <2>1. fails' <= MaxFails /\ mutGen' = mutGen
    BY <1>6, <1>p DEF WriteFail
  <2>2. pc[Flusher] # "off" => pc'[Flusher] # "off"
    BY <1>6, <1>p DEF WriteFail, AfterUnlock, AfterFail
  <2> QED
    BY <1>1, <2>1, <2>2
<1>7. ASSUME NEW t \in Savers, Advance(t) PROVE StartInv'
  BY <1>1, <1>7, <1>p DEF Advance, AfterUnlock, AfterFlush, StartInv
<1>8. ASSUME NEW t \in Flushes, RLock(t) \/ FlushClean(t) \/ FlushMarshal(t)
      PROVE  StartInv'
  BY <1>1, <1>8, <1>p DEF RLock, FlushClean, FlushMarshal, AfterFlush, StartInv
<1>9. CASE Receive \/ Wake \/ Rekick \/ Signal
  BY <1>1, <1>9, <1>p DEF Receive, Wake, Rekick, Signal, StartInv
<1>10. CASE Exit \/ Crash
  BY <1>10 DEF Exit, Crash, Volatile, StartInv
<1>11. CASE Boot \/ UNCHANGED vars
  BY <1>11 DEF Boot, vars, StartInv
<1> QED
  BY <1>2, <1>3, <1>4, <1>5, <1>6, <1>7, <1>8, <1>9, <1>10, <1>11
  DEF Next, HotStep, EditStep, FlushStep

\* LegOf, place by place.
LEMMA LegAt ==
  ASSUME NEW n, NEW k
  PROVE  /\ LegOf(n, "file", k) = IF k >= n THEN 2 ELSE 9
         /\ LegOf(n, "write", k) = IF k >= n THEN 1 ELSE 8
         /\ LegOf(n, "saved", k) = 7 /\ LegOf(n, "retry", k) = 7
         /\ LegOf(n, "recv", k) = 6 /\ LegOf(n, "off", k) = 6
         /\ LegOf(n, "sleep", k) = 5
         /\ LegOf(n, "rlock", k) = 4
         /\ LegOf(n, "read", k) = 3
BY DEF LegOf

\* What is owed is dirty, and known to be.
LEMMA OwedDirty ==
  ASSUME IInv, NEW n \in Nat, Owed(n) PROVE flushedGen < mutGen
<1>1. /\ mem.defers \in Nat /\ disk.defers \in Nat /\ base \in Nat
      /\ mutGen \in Nat /\ flushedGen \in Nat
  BY DEF IInv, TypeOK, Content
<1>2. mem.defers = base + mutGen /\ base + flushedGen <= disk.defers
  BY DEF IInv, StoreInv, MemInv, FlushedIsOnDisk
<1> QED
  BY <1>1, <1>2 DEF Owed

\* A change that is owed has the flusher on its way.
LEMMA OwedOnItsWay ==
  ASSUME IInv, StartInv, NEW n \in Nat PROVE OnItsWay(n)
<1> SUFFICES ASSUME Owed(n) PROVE OnItsWay(n)
  BY DEF OnItsWay
<1>1. flushedGen < mutGen /\ flushedGen \in Nat /\ mutGen \in Nat
  BY OwedDirty DEF IInv, TypeOK
<1>2. pc[Flusher] # "off"
  BY <1>1 DEF StartInv
<1>3. pc[Flusher] = "recv" => kick
  BY <1>1 DEF IInv, DirtyHasFlush
<1>4. pc[Flusher] \in Places \ {"idle", "lock", "drain", "exit", "giveup"}
  BY DEF IInv, TypeOK
<1>5. Leg(n) \in 1 .. 9
  BY <1>4, LegAt DEF Places, Leg
<1>6. fails \in 0 .. MaxFails /\ MaxFails \in Nat
  BY BoundsAssumption DEF IInv, TypeOK, StartInv
<1>7. Work(n) \in 1 .. 9 * MaxFails + 9
  BY <1>5, <1>6 DEF Work
<1> QED
  BY <1>2, <1>3, <1>7 DEF OnItsWay

\* The flusher is where it was, or has been let in to read: no further away.
LEMMA OthersNearer ==
  ASSUME IInv, IInv', StartInv, StartInv', NEW n \in Nat, fails' >= fails,
         \/ UNCHANGED <<pc[Flusher], snap[Flusher]>>
         \/ /\ pc[Flusher] = "rlock" /\ pc'[Flusher] = "read"
            /\ snap'[Flusher] = snap[Flusher]
         \/ /\ pc[Flusher] = "off" /\ pc'[Flusher] = "recv"
            /\ snap'[Flusher] = snap[Flusher]
  PROVE  Work(n)' <= Work(n)
<1>1. pc[Flusher] \in Places \ {"idle", "lock", "drain", "exit", "giveup"}
  BY DEF IInv, TypeOK
<1>2. Leg(n) \in 1 .. 9 /\ Leg(n)' \in 1 .. 9 /\ Leg(n)' <= Leg(n)
  BY <1>1, LegAt DEF Leg, Places
<1>3. fails \in Nat /\ fails' \in Nat /\ fails' <= MaxFails /\ MaxFails \in Nat
  BY BoundsAssumption DEF IInv, TypeOK, StartInv
<1> QED
  BY <1>2, <1>3 DEF Work

\* A step of the flusher itself.
LEMMA FlusherNearer ==
  ASSUME IInv, IInv', StartInv, StartInv', NEW n \in Nat, Owed(n), Owed(n)',
         FlusherStep
  PROVE  Work(n)' < Work(n)
<1> DEFINE k == snap[Flusher].content.defers
<1> USE ThreadsAssumption
    DEF Threads, Writers, Savers, Flushes, memory, locks, gens, history
<1>0. /\ pc \in [Threads -> Places] /\ snap \in [Savers -> Snapshots]
      /\ k \in Nat /\ mem.defers \in Nat
  BY DEF IInv, TypeOK, Snapshots, Content
<1>1. fails \in Nat /\ fails' \in Nat /\ fails' <= MaxFails /\ MaxFails \in Nat
  BY BoundsAssumption DEF IInv, TypeOK, StartInv
<1>2. ASSUME Leg(n) \in 1 .. 9, Leg(n)' \in 1 .. 9, Leg(n)' < Leg(n), fails' = fails
      PROVE  Work(n)' < Work(n)
  BY <1>1, <1>2 DEF Work
\* A snapshot whose save has succeeded does not have the change: it is owed.
<1>3. pc'[Flusher] = "saved" => ~(snap'[Flusher].content.defers >= n)
  <2>1. disk'.defers \in Nat /\ snap'[Flusher].content.defers \in Nat
    BY DEF IInv, TypeOK, Snapshots, Content
  <2>2. pc'[Flusher] = "saved" => disk'.defers >= snap'[Flusher].content.defers
    BY DEF IInv, StoreInv, SaveIsDurable, Covers
  <2> QED
    BY <2>1, <2>2 DEF Owed
<1>4. CASE RLock(Flusher)
  <2>1. pc[Flusher] = "rlock" /\ pc'[Flusher] = "read" /\ fails' = fails
    BY <1>0, <1>4 DEF RLock
  <2> QED
    BY <1>2, <2>1, LegAt DEF Leg
<1>5. CASE FlushClean(Flusher)
  BY <1>5, OwedDirty DEF FlushClean, Clean, IInv, TypeOK
<1>6. CASE FlushMarshal(Flusher)
  <2>1. /\ pc[Flusher] = "read" /\ pc'[Flusher] = "file" /\ fails' = fails
        /\ snap'[Flusher].content = mem
    BY <1>0, <1>6 DEF FlushMarshal
  <2>2. snap'[Flusher].content.defers >= n
    BY <2>1 DEF Owed
  <2> QED
    BY <1>2, <2>1, <2>2, LegAt DEF Leg
<1>7. CASE TakeFile(Flusher)
  <2>1. /\ pc[Flusher] = "file" /\ pc'[Flusher] \in {"write", "saved"}
        /\ fails' = fails /\ snap' = snap
    BY <1>0, <1>7 DEF TakeFile
  <2> QED
    BY <1>2, <1>3, <2>1, LegAt DEF Leg
<1>8. CASE WriteOK(Flusher)
  <2>1. /\ pc[Flusher] = "write" /\ pc'[Flusher] = "saved"
        /\ fails' = fails /\ snap' = snap
    BY <1>0, <1>8 DEF WriteOK
  <2> QED
    BY <1>2, <1>3, <2>1, LegAt DEF Leg
<1>9. CASE Advance(Flusher)
  <2>1. pc[Flusher] = "saved" /\ pc'[Flusher] = "recv" /\ fails' = fails
    BY <1>0, <1>9 DEF Advance, AfterFlush
  <2> QED
    BY <1>2, <2>1, LegAt DEF Leg
<1>10. CASE WriteFail(Flusher)
  <2>1. pc[Flusher] = "write" /\ pc'[Flusher] = "retry" /\ fails' = fails + 1
    BY <1>0, <1>10 DEF WriteFail, AfterFail
  <2>2. Leg(n) >= 1 /\ Leg(n) \in Nat /\ Leg(n)' = 7
    BY <2>1, LegAt DEF Leg
  <2> QED
    BY <1>1, <2>1, <2>2 DEF Work
<1>11. CASE Receive
  <2>1. pc[Flusher] = "recv" /\ pc'[Flusher] = "sleep" /\ fails' = fails
    BY <1>0, <1>11 DEF Receive
  <2> QED
    BY <1>2, <2>1, LegAt DEF Leg
<1>12. CASE Wake
  <2>1. pc[Flusher] = "sleep" /\ pc'[Flusher] = "rlock" /\ fails' = fails
    BY <1>0, <1>12 DEF Wake
  <2> QED
    BY <1>2, <2>1, LegAt DEF Leg
<1>13. CASE Rekick
  <2>1. pc[Flusher] = "retry" /\ pc'[Flusher] = "recv" /\ fails' = fails
    BY <1>0, <1>13 DEF Rekick
  <2> QED
    BY <1>2, <2>1, LegAt DEF Leg
<1> QED
  BY <1>4, <1>5, <1>6, <1>7, <1>8, <1>9, <1>10, <1>11, <1>12, <1>13
  DEF FlusherStep, FlushStep
\* Every step of the others leaves the flusher where it is, lets it in to read, or
\* starts it, unless the process stops or only starts.
LEMMA OthersLeave ==
  ASSUME IInv, NEW n \in Nat, Owed(n), Owed(n)', Next, ~FlusherStep
  PROVE  /\ fails' >= fails
         /\ \/ UNCHANGED <<pc[Flusher], snap[Flusher]>>
            \/ /\ pc[Flusher] = "rlock" /\ pc'[Flusher] = "read"
               /\ snap'[Flusher] = snap[Flusher]
            \/ /\ pc[Flusher] = "off" /\ pc'[Flusher] = "recv"
               /\ snap'[Flusher] = snap[Flusher]
<1> DEFINE Left == /\ fails' >= fails
                   /\ \/ UNCHANGED <<pc[Flusher], snap[Flusher]>>
                      \/ /\ pc[Flusher] = "rlock" /\ pc'[Flusher] = "read"
                         /\ snap'[Flusher] = snap[Flusher]
                      \/ /\ pc[Flusher] = "off" /\ pc'[Flusher] = "recv"
                         /\ snap'[Flusher] = snap[Flusher]
<1> SUFFICES Left
  OBVIOUS
<1> USE ThreadsAssumption
    DEF Threads, Writers, Savers, Flushes, memory, locks, gens, history
<1>p. pc \in [Threads -> Places] /\ snap \in [Savers -> Snapshots] /\ fails \in Nat
  BY DEF IInv, TypeOK
<1>1. ASSUME NEW h \in Hot, CallHot(h) \/ HotStep(h) PROVE Left
  BY <1>1, <1>p
  DEF CallHot, HotStep, Announce, RLock, ReturnLookup, Upsert, UpsertUnchanged, AfterUnlock
<1>2. ASSUME NEW e \in Editors, CallEdit(e) \/ EditStep(e) \/ WriteFail(e) PROVE Left
  BY <1>2, <1>p
  DEF CallEdit, EditStep, Announce, EditAndMarshal, TakeFile, WriteOK, Advance, WriteFail,
      AfterUnlock
<1>3. CASE FlushStep(Handler) \/ WriteFail(Handler)
  BY <1>3, <1>p
  DEF FlushStep, RLock, FlushClean, FlushMarshal, TakeFile, WriteOK, Advance, WriteFail,
      AfterUnlock
<1>4. CASE Signal
  BY <1>4, <1>p DEF Signal
<1>5. CASE Exit \/ Crash \/ Boot
  BY <1>5 DEF Exit, Crash, Boot, Owed
<1> QED
  BY <1>1, <1>2, <1>3, <1>4, <1>5 DEF Next, FlusherStep

\* While a deferred change (a lease, a discovered device) is in memory only, the
\* flusher is on its way to writing it (config.go:393), in a number of its steps that
\* is bounded by the writes that may still fail; nothing that settings pages, look-ups
\* or the signal handler do meanwhile makes the way longer.  With a flusher that runs
\* this is why DeferredReachesDisk holds.
THEOREM DeferredAdvances ==
  Spec => [](\A n \in Nat : OnItsWay(n)) /\ [][\A n \in Nat : BringsNearer(n)]_vars
<1>1. Init => StartInv
  BY BoundsAssumption DEF Init, StartInv
<1>2. IInv /\ StartInv => \A n \in Nat : OnItsWay(n)
  BY OwedOnItsWay
<1>3. IInv /\ StartInv /\ [Next]_vars => StartInv'
  BY StartStep DEF IInv
<1>4. IInv /\ IInv' /\ StartInv /\ StartInv' /\ [Next]_vars
        => [\A n \in Nat : BringsNearer(n)]_vars
  <2> SUFFICES ASSUME IInv, IInv', StartInv, StartInv', Next, NEW n \in Nat,
                      Owed(n), Owed(n)'
               PROVE  IF FlusherStep THEN Work(n)' < Work(n) ELSE Work(n)' <= Work(n)
    BY DEF BringsNearer
  <2> QED
    BY FlusherNearer, OthersLeave, OthersNearer
<1> QED
  BY <1>1, <1>2, <1>3, <1>4, Invariance, PTL DEF Spec
=============================================================================
