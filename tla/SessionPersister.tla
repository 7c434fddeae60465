--------------------------- MODULE SessionPersister --------------------------
(***************************************************************************)
(* Crash-safe session files: session/persist.ts.                           *)
(*                                                                         *)
(* A write call w goes through the awaits of writeSession: wait for the    *)
(* session's lock, write a temporary file, fsync it, rename it over the    *)
(* final name, fsync the directory, release the lock.  stageActivate does  *)
(* the same for a batch of files, without the lock, all renames after all  *)
(* fsyncs and one directory fsync at the end.  Every file-system call can  *)
(* fail, and the process can crash between any two of them.                *)
(*                                                                         *)
(* The payload of a call is the call itself.  body[w] is the state of the  *)
(* bytes of the file w wrote; hist[s] is the sequence of files renamed     *)
(* over the final name of s, so Last(hist[s]) is what a reader finds, and  *)
(* stable[s] counts those of them whose directory entry was fsynced.       *)
(***************************************************************************)
EXTENDS Naturals, Sequences, SequencesExt

CONSTANTS Sessions,         \* session ids
          Calls,            \* write calls
          None,             \* no promise in writeLocks, no session
          WindowsSequence,  \* this.windowsSequence
          MaxCrashes        \* bound on the crashes of a behaviour

ASSUME NoneAssumption == None \notin Sessions \cup Calls
ASSUME WindowsAssumption == WindowsSequence \in BOOLEAN
ASSUME MaxCrashesAssumption == MaxCrashes \in Nat

VARIABLES pc,       \* where each call stands
          sid,      \* the session each call writes
          batch,    \* the calls that settle together: {w}, or a stageActivate batch
          prior,    \* the promise found in writeLocks by the call
          lock,     \* writeLocks
          body,     \* the bytes of the file each call wrote
          hist,     \* files renamed over the final name, oldest first
          stable,   \* how many of them survive a crash
          ticket,   \* history: the order in which calls were made
          calls,    \* history: number of calls made
          crashes   \* history: number of crashes

disk == <<body, hist, stable>>
history == <<ticket, calls, crashes>>
vars == <<pc, sid, batch, prior, lock, disk, history>>

Waiting   == {"waiting"}
Writing   == {"open", "written", "synced", "renamed"}
Settled   == {"fulfilled", "rejected"}
Returned  == {"done", "failed", "lost"}
PCs       == {"idle"} \cup Waiting \cup Writing \cup Settled \cup Returned

(* The calls that go through the per-session lock, unsettled, on session s. *)
Locked(w) == batch[w] = {w}
Live(s)   == {w \in Calls : sid[w] = s /\ Locked(w) /\ pc[w] \in Waiting \cup Writing}

Init ==
  /\ pc = [w \in Calls |-> "idle"]
  /\ sid = [w \in Calls |-> None]
  /\ batch = [w \in Calls |-> {}]
  /\ prior = [w \in Calls |-> None]
  /\ lock = [s \in Sessions |-> None]
  /\ body = [w \in Calls |-> "none"]
  /\ hist = [s \in Sessions |-> <<>>]
  /\ stable = [s \in Sessions |-> 0]
  /\ ticket = [w \in Calls |-> 0]
  /\ calls = 0
  /\ crashes = 0

(* writeSession up to its first await: chain behind the promise in writeLocks. *)
WriteSession(w, s) ==
  /\ pc[w] = "idle"
  /\ pc' = [pc EXCEPT ![w] = "waiting"]
  /\ sid' = [sid EXCEPT ![w] = s]
  /\ batch' = [batch EXCEPT ![w] = {w}]
  /\ prior' = [prior EXCEPT ![w] = lock[s]]
  /\ lock' = [lock EXCEPT ![s] = w]
  /\ calls' = calls + 1
  /\ ticket' = [ticket EXCEPT ![w] = calls + 1]
  /\ UNCHANGED <<disk, crashes>>

PriorNotWriting(w) == \A v \in Live(sid[w]) : pc[v] \notin Writing

PriorFulfilled(w) == prior[w] # None => pc[prior[w]] \in {"fulfilled", "done"}

(* prior.catch(...).then(doWriteSession): runs once the prior promise settled
   either way; creates the temporary file. *)
PriorSettled(w) == prior[w] # None => pc[prior[w]] \notin Waiting \cup Writing

DoWriteSession(w) ==
  /\ pc[w] = "waiting"
  /\ PriorSettled(w)
  /\ pc' = [pc EXCEPT ![w] = "open"]
  /\ body' = [body EXCEPT ![w] = "torn"]
  /\ UNCHANGED <<sid, batch, prior, lock, hist, stable, history>>

Batches == {B \in SUBSET Calls : \E v, w \in B : v # w}

(* stageActivate on a batch of two or more files: no lock. *)
StageActivate(B, target) ==
  /\ \A w \in B : pc[w] = "idle"
  /\ pc' = [w \in Calls |-> IF w \in B THEN "open" ELSE pc[w]]
  /\ sid' = [w \in Calls |-> IF w \in B THEN target[w] ELSE sid[w]]
  /\ batch' = [w \in Calls |-> IF w \in B THEN B ELSE batch[w]]
  /\ body' = [w \in Calls |-> IF w \in B THEN "torn" ELSE body[w]]
  /\ calls' = calls + 1
  /\ ticket' = [w \in Calls |-> IF w \in B THEN calls + 1 ELSE ticket[w]]
  /\ UNCHANGED <<prior, lock, hist, stable, crashes>>

(* fh.writeFile(bytes): the bytes are complete, in the page cache. *)
WriteTmp(w) ==
  /\ pc[w] = "open"
  /\ pc' = [pc EXCEPT ![w] = "written"]
  /\ body' = [body EXCEPT ![w] = "cached"]
  /\ UNCHANGED <<sid, batch, prior, lock, hist, stable, history>>

FsyncTmpSkipped(w) ==
  /\ pc[w] = "written"
  /\ pc' = [pc EXCEPT ![w] = "synced"]
  /\ UNCHANGED <<sid, batch, prior, lock, disk, history>>

(* fh.sync() on the temporary file. *)
FsyncTmp(w) ==
  /\ pc[w] = "written"
  /\ pc' = [pc EXCEPT ![w] = "synced"]
  /\ body' = [body EXCEPT ![w] = "synced"]
  /\ UNCHANGED <<sid, batch, prior, lock, hist, stable, history>>

(* fsp.rename(tmp, final), for a batch once every member's bytes are synced. *)
Rename(w) ==
  /\ pc[w] = "synced"
  /\ \A v \in batch[w] : pc[v] \in {"synced", "renamed"}
  /\ pc' = [pc EXCEPT ![w] = "renamed"]
  /\ hist' = [hist EXCEPT ![sid[w]] = Append(@, w)]
  /\ UNCHANGED <<sid, batch, prior, lock, body, stable, history>>

HardenedNothing(w) == {}

(* The directory fsync covers every file of the directory; on Windows only the
   finals of the batch are flushed. *)
Hardened(w) ==
  IF WindowsSequence THEN {sid[v] : v \in batch[w]} ELSE Sessions

(* finalizeAfterRename, and the last pass of stageActivate: the promise is fulfilled. *)
FsyncDir(w) ==
  /\ pc[w] = "renamed"
  /\ \A v \in batch[w] : pc[v] = "renamed"
  /\ pc' = [v \in Calls |-> IF v \in batch[w] THEN "fulfilled" ELSE pc[v]]
  /\ stable' = [s \in Sessions |-> IF s \in Hardened(w) THEN Len(hist[s]) ELSE stable[s]]
  /\ UNCHANGED <<sid, batch, prior, lock, body, hist, history>>

IoErrorUndone(w) ==
  /\ pc[w] \in Writing
  /\ pc' = [v \in Calls |-> IF v \in batch[w] THEN "rejected" ELSE pc[v]]
  /\ hist' = [s \in Sessions |->
                IF s = sid[w] /\ pc[w] = "renamed" /\ stable[s] < Len(hist[s])
                  THEN Front(hist[s]) ELSE hist[s]]
  /\ UNCHANGED <<sid, batch, prior, lock, body, stable, history>>

(* A file-system call of w throws: the whole promise is rejected.  Temporary
   files stay behind, files already renamed stay renamed. *)
IoError(w) ==
  /\ pc[w] \in Writing
  /\ pc' = [v \in Calls |-> IF v \in batch[w] THEN "rejected" ELSE pc[v]]
  /\ UNCHANGED <<sid, batch, prior, lock, disk, history>>

ReleaseUnnamed(w) ==
  /\ pc[w] \in Settled
  /\ pc' = [pc EXCEPT ![w] = "released"]
  /\ UNCHANGED <<sid, batch, prior, lock, disk, history>>

(* The finally block of writeSession, a microtask after its promise settled:
   drop the lock unless a later call has replaced it. *)
Release(w) ==
  /\ pc[w] \in Settled
  /\ pc' = [pc EXCEPT ![w] = IF @ = "fulfilled" THEN "done" ELSE "failed"]
  /\ lock' = [s \in Sessions |-> IF s = sid[w] /\ lock[s] = w THEN None ELSE lock[s]]
  /\ UNCHANGED <<sid, batch, prior, disk, history>>

(* The process dies: calls in progress are lost, bytes never fsynced are torn,
   and each final name goes back to some entry not older than the stable one. *)
Crash ==
  /\ crashes < MaxCrashes
  /\ crashes' = crashes + 1
  /\ pc' = [w \in Calls |-> IF pc[w] \in Waiting \cup Writing \cup Settled
                              THEN IF pc[w] = "fulfilled" THEN "done" ELSE "lost"
                              ELSE pc[w]]
  /\ lock' = [s \in Sessions |-> None]
  /\ body' = [w \in Calls |-> IF body[w] = "cached" THEN "torn" ELSE body[w]]
  /\ stable' \in [Sessions -> 0..calls]
  /\ \A s \in Sessions : stable[s] <= stable'[s] /\ stable'[s] <= Len(hist[s])
  /\ hist' = [s \in Sessions |-> SubSeq(hist[s], 1, stable'[s])]
  /\ UNCHANGED <<sid, batch, prior, ticket, calls>>

Step(w) ==
  DoWriteSession(w) \/ WriteTmp(w) \/ FsyncTmp(w) \/ Rename(w) \/ FsyncDir(w) \/ Release(w)

Next ==
  \/ \E w \in Calls : Step(w) \/ IoError(w)
  \/ \E w \in Calls, s \in Sessions : WriteSession(w, s)
  \/ \E B \in Batches : \E target \in [B -> Sessions] :
       IsInjective(target) /\ StageActivate(B, target)
  \/ Crash

(* The operating system answers every file-system call, so a started call moves. *)
Fairness == \A w \in Calls : WF_vars(Step(w))

Spec == Init /\ [][Next]_vars
FairSpec == Spec /\ Fairness
-----------------------------------------------------------------------------
(* What readSession and readSessionForResume find for s. *)
ReadSession(s) ==
  CASE hist[s] = <<>>                  -> "file-missing"
    [] hist[s] # <<>> /\ body[Last(hist[s])] = "torn" -> "partial-write-detected"
    [] OTHER                           -> "ok"

TypeOK ==
  /\ pc \in [Calls -> PCs]
  /\ sid \in [Calls -> Sessions \cup {None}]
  /\ batch \in [Calls -> SUBSET Calls]
  /\ prior \in [Calls -> Calls \cup {None}]
  /\ lock \in [Sessions -> Calls \cup {None}]
  /\ body \in [Calls -> {"none", "torn", "cached", "synced"}]
  /\ hist \in [Sessions -> Seq(Calls)]
  /\ stable \in [Sessions -> Nat]
  /\ ticket \in [Calls -> Nat]
  /\ calls \in Nat
  /\ crashes \in Nat

(* persist.ts 15-18: no interleaving of writers, failures and crashes makes a
   reader of a final file find a half-written one. *)
NoPartialRead == \A s \in Sessions : ReadSession(s) # "partial-write-detected"

(* persist.ts 149-150: once writeSession has returned, no crash takes its
   payload away: it, or a payload renamed after it, is what the file holds. *)
AckedSurvives ==
  \A w \in Calls : pc[w] \in {"fulfilled", "done"} =>
    \E i \in 1..stable[sid[w]] : hist[sid[w]][i] = w

(* persist.ts 109-112: writeSession calls on one session never run their
   file-system steps at the same time. *)
WritersExclusive ==
  \A s \in Sessions : \A v, w \in Live(s) :
    pc[v] \in Writing /\ pc[w] \in Writing => v = w

(* Consequence of the lock chain that callers rely on when they write twice in a
   row: locked writes reach the final name in the order they were called. *)
WritesInCallOrder ==
  \A s \in Sessions : \A i, j \in 1..Len(hist[s]) :
    Locked(hist[s][i]) /\ Locked(hist[s][j]) /\ i < j => ticket[hist[s][i]] < ticket[hist[s][j]]

(* The lock chain of persist.ts 109-112 as its callers see it. *)
LockChain == WritersExclusive /\ WritesInCallOrder

(* Every call settles and returns to its caller (or the process crashes): the
   lock chain never strands a waiting writer, even behind a failed one. *)
CallsReturn == \A w \in Calls : pc[w] # "idle" ~> pc[w] \in Returned

Register == INSTANCE SessionRegister WITH acked <- {w \in Calls : pc[w] \in {"fulfilled", "done"}}

(* The persister implements the atomic, crash-safe register of SessionRegister. *)
ImplementsRegister == Register!RSpec
=============================================================================
