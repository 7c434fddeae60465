------------------------------- MODULE AuditSink -----------------------------
(***************************************************************************)
(* The audit-sink degradation machine (audit/sink.ts) with its callers: the *)
(* decisions route, which appends a row to the in-memory chain and awaits  *)
(* recordAuditRow, and the recovery path, which ships the buffered rows    *)
(* one by one, clears buffer and pending directory and returns to healthy. *)
(* A row is the request that appended it. The names that every module has  *)
(* are prefixed here, so that it can be extended beside another one.       *)
(***************************************************************************)
EXTENDS Naturals, Sequences, SequencesExt, FiniteSets

CONSTANTS Rows,         \* requests, and the audit rows they append
          InitialState, \* the state of a fresh process (failure-mode env hook)
          MaxCrashes, MaxErrors, MaxMoves   \* bounds

States == {"healthy", "degraded-buffering", "unreachable-halt"}
Risks  == {"ReadOnly", "Mutating"}

ASSUME SinkAssumption == InitialState \in States
ASSUME SinkBounds == {MaxCrashes, MaxErrors, MaxMoves} \subseteq Nat

VARIABLES state,     \* AuditSink.state
          buffer,    \* AuditSink.buffer
          dir,       \* rows with a file in <sessionDir>/audit/pending/
          chain,     \* the audit chain, in memory
          pc,        \* where each request stands
          flush,     \* the recovery path: [pc, snapshot, next, entries]
          shipped,   \* what the external sink has received, in order
          events,    \* AuditSink.events
          owed,      \* history: rows acknowledged as buffered and not yet shipped
          late,      \* history: rows recorded while a flush was running
          moves, crashes, errors   \* history

counters == <<moves, crashes, errors>>
history == <<owed, late>>
sinkVars == <<state, buffer, dir, chain, pc, flush, shipped, events, history, counters>>

NoFlush == [pc |-> "idle", snapshot |-> <<>>, next |-> 1, entries |-> {}]

(* The event type of each state, and the event of a transition. *)
TypeFor == [s \in States |-> CASE s = "degraded-buffering" -> "AuditSinkDegraded"
                               [] s = "unreachable-halt"   -> "AuditSinkUnreachable"
                               [] s = "healthy"            -> "AuditSinkRecovered"]
EventFor(next, count) == [type |-> TypeFor[next], records |-> count]

(* The constructor: an initial state other than healthy is a transition. *)
BootEvents == IF InitialState = "healthy" THEN <<>> ELSE <<EventFor(InitialState, 0)>>

SinkInit ==
  /\ state = InitialState
  /\ events = BootEvents
  /\ buffer = <<>> /\ dir = {} /\ chain = <<>>
  /\ pc = [r \in Rows |-> "idle"]
  /\ flush = NoFlush
  /\ shipped = <<>>
  /\ owed = {} /\ late = {}
  /\ moves = 0 /\ crashes = 0 /\ errors = 0

ErrorHappens == errors < MaxErrors /\ errors' = errors + 1

(* readinessReason, in the readiness probe every route asks first. *)
Ready == state # "unreachable-halt"
ShouldRefuseMutating(risk) == state = "unreachable-halt" /\ risk = "Mutating"
Admits(risk) == Ready /\ ~ShouldRefuseMutating(risk)

InHandler == {r \in Rows : pc[r] \in {"entered", "buffering"}}

(* A decision request passes the gates of the route. *)
Admit(r, risk) ==
  /\ pc[r] = "idle"
  /\ Admits(risk)
  /\ pc' = [pc EXCEPT ![r] = "entered"]
  /\ UNCHANGED <<state, buffer, dir, chain, flush, shipped, events, history, counters>>

(* chain.append, and recordAuditRow up to its first await. *)
RecordAuditRow(r) ==
  /\ pc[r] = "entered"
  /\ chain' = Append(chain, r)
  /\ IF state = "healthy"
     THEN pc' = [pc EXCEPT ![r] = "recorded"] /\ UNCHANGED buffer
     ELSE pc' = [pc EXCEPT ![r] = "buffering"] /\ buffer' = Append(buffer, r)
  /\ late' = IF flush.pc = "idle" THEN late ELSE late \cup {r}
  /\ UNCHANGED <<state, dir, flush, shipped, events, owed, counters>>

(* writeBufferedRecord returns: the row is in the fsync-backed queue. *)
Buffered(r) ==
  /\ pc[r] = "buffering"
  /\ dir' = dir \cup {r}
  /\ pc' = [pc EXCEPT ![r] = "recorded"]
  /\ owed' = owed \cup ({r} \ ToSet(shipped))
  /\ UNCHANGED <<state, buffer, chain, flush, shipped, events, late, counters>>

(* writeBufferedRecord throws: the route answers 500. *)
BufferFails(r) ==
  /\ pc[r] = "buffering"
  /\ ErrorHappens
  /\ dir' \in {dir, dir \cup {r}}
  /\ pc' = [pc EXCEPT ![r] = "failed"]
  /\ UNCHANGED <<state, buffer, chain, flush, shipped, events, history, moves, crashes>>

(* transitionTo, forced from outside. *)
TransitionTo(next) ==
  /\ next # state
  /\ moves < MaxMoves
  /\ moves' = moves + 1
  /\ state' = next
  /\ events' = Append(events, EventFor(next, Len(buffer)))
  /\ UNCHANGED <<buffer, dir, chain, pc, flush, shipped, history, crashes, errors>>

(* flushAndRecover up to its first await, with no other call of it running. *)
FlushBegin ==
  /\ flush.pc = "idle"
  /\ flush' = [NoFlush EXCEPT !.pc = "shipping", !.snapshot = buffer]
  /\ UNCHANGED <<state, buffer, dir, chain, pc, shipped, events, history, counters>>

(* shipRecord resolves for the next row of the snapshot. *)
Ship ==
  /\ flush.pc = "shipping"
  /\ flush.next <= Len(flush.snapshot)
  /\ shipped' = Append(shipped, flush.snapshot[flush.next])
  /\ owed' = owed \ {flush.snapshot[flush.next]}
  /\ flush' = [flush EXCEPT !.next = @ + 1]
  /\ UNCHANGED <<state, buffer, dir, chain, pc, events, late, counters>>

(* shipRecord rejects: so does flushAndRecover, with the buffer as it is. *)
ShipFails ==
  /\ flush.pc = "shipping"
  /\ flush.next <= Len(flush.snapshot)
  /\ ErrorHappens
  /\ flush' = NoFlush
  /\ UNCHANGED <<state, buffer, dir, chain, pc, shipped, events, history, moves, crashes>>

ClearBufferFirst ==
  /\ flush.pc = "shipping"
  /\ buffer' = <<>>
  /\ flush' = [flush EXCEPT !.pc = "listing"]
  /\ UNCHANGED <<state, dir, chain, pc, shipped, events, history, counters>>

(* All shipped: the buffer is emptied, the pending directory listed. *)
ClearBuffer ==
  /\ flush.pc = "shipping"
  /\ flush.next > Len(flush.snapshot)
  /\ buffer' = <<>>
  /\ flush' = [flush EXCEPT !.pc = "listing"]
  /\ UNCHANGED <<state, dir, chain, pc, shipped, events, history, counters>>

ListPending ==
  /\ flush.pc = "listing"
  /\ flush' = [flush EXCEPT !.pc = "clearing", !.entries = dir]
  /\ UNCHANGED <<state, buffer, dir, chain, pc, shipped, events, history, counters>>

(* readdir rejects: so does flushAndRecover, with the buffer emptied and the
   state as it was. *)
ListFails ==
  /\ flush.pc = "listing"
  /\ ErrorHappens
  /\ flush' = NoFlush
  /\ UNCHANGED <<state, buffer, dir, chain, pc, shipped, events, history, moves, crashes>>

(* One unlink; a failing one is ignored and leaves the file. *)
Unlink(r) ==
  /\ flush.pc = "clearing"
  /\ r \in flush.entries
  /\ flush' = [flush EXCEPT !.entries = @ \ {r}]
  /\ \/ dir' = dir \ {r} /\ UNCHANGED errors
     \/ dir' = dir /\ ErrorHappens
  /\ UNCHANGED <<state, buffer, chain, pc, shipped, events, history, moves, crashes>>

RecoveredSilently ==
  /\ flush.pc = "clearing"
  /\ flush.entries = {}
  /\ state' = "healthy"
  /\ flush' = NoFlush
  /\ UNCHANGED <<buffer, dir, chain, pc, shipped, events, history, counters>>

(* transitionTo("healthy", "sink-recovered"), with the count of the snapshot. *)
Recovered ==
  /\ flush.pc = "clearing"
  /\ flush.entries = {}
  /\ state' = "healthy"
  /\ events' = IF state = "healthy" THEN events
                 ELSE Append(events, EventFor("healthy", Len(flush.snapshot)))
  /\ flush' = NoFlush
  /\ UNCHANGED <<buffer, dir, chain, pc, shipped, history, counters>>

(* The process dies: chain and buffer are gone, the files stay. *)
Crash ==
  /\ crashes < MaxCrashes
  /\ crashes' = crashes + 1
  /\ state' = InitialState /\ events' = BootEvents
  /\ buffer' = <<>> /\ chain' = <<>>
  /\ pc' = [r \in Rows |-> IF r \in InHandler THEN "lost" ELSE pc[r]]
  /\ flush' = NoFlush
  /\ UNCHANGED <<dir, shipped, history, moves, errors>>

SinkNext ==
  \/ \E r \in Rows : RecordAuditRow(r) \/ Buffered(r) \/ BufferFails(r) \/ Unlink(r)
  \/ \E r \in Rows, risk \in Risks : Admit(r, risk)
  \/ \E next \in States : TransitionTo(next)
  \/ FlushBegin \/ Ship \/ ShipFails \/ ClearBuffer
  \/ ListPending \/ ListFails \/ Recovered
  \/ Crash

SinkSpec == SinkInit /\ [][SinkNext]_sinkVars
-----------------------------------------------------------------------------
SinkTypeOK ==
  /\ state \in States
  /\ buffer \in Seq(Rows) /\ chain \in Seq(Rows) /\ shipped \in Seq(Rows)
  /\ dir \subseteq Rows /\ owed \cup late \subseteq Rows
  /\ pc \in [Rows -> {"idle", "entered", "buffering", "recorded", "failed", "lost"}]
  /\ flush \in [pc : {"idle", "shipping", "listing", "clearing"}, snapshot : Seq(Rows),
                next : Nat, entries : SUBSET Rows]
  /\ events \in Seq([type : {TypeFor[s] : s \in States}, records : Nat])

Positions(q, r) == {i \in DOMAIN q : q[i] = r}
Precedes(q, a, b) == \E i \in Positions(q, a) : \A j \in Positions(q, b) : i < j

(* sink.ts 15-16: the external sink first sees the rows of this process in the
   order in which they joined the chain, whatever ships fail and are repeated. *)
ShippedInOrder ==
  \A a, b \in ToSet(chain) :
    b \in ToSet(shipped) /\ Precedes(chain, a, b) /\ a \in ToSet(buffer) \cup ToSet(shipped) =>
      Precedes(shipped, a, b)

(* sink.ts 6-17: the event log tells the state: every change of state, forced or by
   recovery, left its event. *)
EventsTellState ==
  TypeFor[state] = IF events = <<>> THEN "AuditSinkRecovered" ELSE Last(events).type

(* decisions-route.ts 1054-1057 ("can't silently drop a record when the sink is
   known-degraded"): until the first restart, a row that was recorded while no
   flush was running and acknowledged as buffered stays in the buffer, and in the
   pending queue, until the external sink has it; flushes that fail, overlap its
   write or repeat included. *)
CalmRowsKept == crashes = 0 => owed \ late \subseteq ToSet(buffer) \cap dir

(* sink.ts 15-16 and decisions-route.ts 1054-1057, the way of a row to the external
   sink: in order, and never out of buffer and queue before it got there. *)
RowsInv == SinkTypeOK /\ ShippedInOrder /\ CalmRowsKept
=============================================================================
