---------------------------- MODULE DurableStore ----------------------------
(***************************************************************************)
(* What internal/config promises its callers about config.json, with no    *)
(* locks, snapshots or threads: there is the configuration in memory and   *)
(* the one a restart would read back.  Memory moves on by one change at a  *)
(* time; the file only ever catches up with memory, never falls back; and  *)
(* a restart resumes from the file.                                        *)
(*                                                                         *)
(* A configuration is named by its place in the history of changes: how    *)
(* many settings edits and how many deferred changes (leases, discovered   *)
(* devices) led to it.                                                     *)
(***************************************************************************)
EXTENDS Naturals

VARIABLES
  cur,     \* the configuration in memory
  saved    \* the configuration a restart would load

vars == <<cur, saved>>

Content == [edits : Nat, defers : Nat]

\* d contains every change that c contains.
Covers(d, c) == d.edits >= c.edits /\ d.defers >= c.defers

Init ==
  /\ cur = saved
  /\ saved = [edits |-> 0, defers |-> 0]

\* A settings edit or a deferred change is made to the memory.
Change ==
  /\ \/ cur' = [cur EXCEPT !.edits = @ + 1]
     \/ cur' = [cur EXCEPT !.defers = @ + 1]
  /\ UNCHANGED saved

\* The file is replaced by something at least as new, no newer than memory.
Persist ==
  /\ saved' \in Content
  /\ Covers(saved', saved)
  /\ Covers(cur, saved')
  /\ UNCHANGED cur

\* The process stops; what a restart sees is the file.
Restart ==
  /\ cur' = saved
  /\ UNCHANGED saved

Next == Change \/ Persist \/ Restart

Spec == Init /\ [][Next]_vars
=============================================================================
