------------------------------ MODULE Decisions ------------------------------
(***************************************************************************)
(* POST /permissions/decisions (permission/decisions-route.ts) together    *)
(* with what shares its state: POST /sessions, the lazy hydrate of         *)
(* GET /sessions/:id/state, the boot scan, the budget tracker, the hook    *)
(* reentrancy guard and a crash of the Runner.                             *)
(*                                                                         *)
(* A process is a request, a reader (one hydrating GET) or the scanner.    *)
(* An action is the code between two awaits.  A process that writes the    *)
(* session file prepares its private copy of the rows, joins the write     *)
(* lock's queue and goes on when its write has landed: the SessionRegister *)
(* that SessionPersister implements, so a write lands as a whole.          *)
(*                                                                         *)
(* Identities stand for themselves: the audit record of request r is r, the *)
(* random idempotency key of a request that names none is the request.     *)
(***************************************************************************)
EXTENDS SideEffects, PermissionResolver, FiniteSets

CONSTANTS Requests,       \* POST /permissions/decisions calls
          Readers,        \* GET /sessions/:id/state calls, each with its own bearer
          Scanner,        \* the boot scan
          Sessions,       \* session ids
          Keys,           \* client-supplied Idempotency-Key values
          Settings,       \* named ways the Runner is wired and its clients behave
          Owner,          \* the bearer handed out by POST /sessions
          None,           \* no record, no session, no budget state
          Missing,        \* no session file
          MaxCrashes, MaxIoErrors, MaxEvents   \* bounds

Procs == Requests \cup Readers \cup {Scanner}

ShapeType == [risk      : RiskClasses,    \* of the tool, with its default_control
              control   : Controls,
              require   : Requirements,   \* the card's toolRequirements entry for it
              pda       : {"none", "malformed", "forged", "unusable", "valid"},
              role      : Roles,
              says      : {"allow", "deny"},
              residency : {"unpinned", "agrees", "violates"}]

(* A setting: the mode granted to sessions, the wiring of the route, whether the
   memory prefetch times out for the third time, whether clients keep one request
   in flight per session and wait for the boot scan, the contents of their
   requests, a bound on their number, and the budget. *)
SettingType ==
  [mode : Capabilities,
   preHook : BOOLEAN, postHook : BOOLEAN, escalation : BOOLEAN, pda : BOOLEAN,
   memoryFails : BOOLEAN, serial : BOOLEAN, patient : BOOLEAN,
   shapes : SUBSET ShapeType, requests : Nat,
   maxTokens : Nat, turnTokens : Nat, coldStart : Nat, warmTurn : Nat, minSamples : Nat]

ASSUME SettingsAssumption ==
  \A name \in DOMAIN Settings : Settings[name] \in SettingType
ASSUME ProcsAssumption ==
  /\ Scanner \notin Requests \cup Readers
  /\ Requests \cap Readers = {}
  /\ Owner \notin Readers
  /\ NoAudit \notin Requests
  /\ Keys \cap Requests = {}
ASSUME BoundsAssumption == {MaxCrashes, MaxIoErrors, MaxEvents} \subseteq Nat

RowType == [key : Keys \cup Requests, phase : Phases, aud : Requests \cup {NoAudit}]

(* No record is told from a number of turns, no file from an empty one. *)
ASSUME NothingAssumption == None \notin Nat /\ Missing \notin Seq(RowType)

VARIABLES setting,  \* name of the setting of this behaviour; it never changes
          job,      \* every process: where it stands and its local variables
          disk,     \* the side-effect rows of each session file
          queue,    \* writeLocks: the processes waiting to write, first in front
          store,    \* InMemorySessionStore
          chain,    \* rows of the in-memory audit chain
          budget,   \* BudgetTracker: turns recorded
          events,   \* StreamEventEmitter
          scan,     \* progress of the boot scan
          born,     \* session ids minted so far
          ever,     \* history: requests whose decision was ever audited
          crashes, errors   \* history

Cfg == Settings[setting]

memory == <<store, chain, budget, events>>
counters == <<crashes, errors>>
vars == <<setting, job, disk, queue, memory, scan, born, ever, counters>>

Queued   == {"pending", "committing", "compensating", "resuming"}
Awaiting == {"prehook", "load", "decide", "verify", "escalate", "sink", "committed", "posthook",
             "settling"}
Active   == Queued \cup Awaiting \cup {"resumed"}
Answered == {"accepted", "replayed"}
Final    == Answered \cup {"refused", "served", "lost"}

Idle == [pc |-> "idle", sid |-> None, key |-> None, shape |-> None, rows |-> <<>>,
         idx |-> 0, ans |-> NoAudit, again |-> FALSE]

NoScan == [pc |-> "list", todo |-> {}, seen |-> {}, open |-> FALSE]

Init ==
  /\ setting \in DOMAIN Settings
  /\ job = [p \in Procs |-> Idle]
  /\ disk = [s \in Sessions |-> Missing]
  /\ queue = [s \in Sessions |-> <<>>]
  /\ store = [s \in Sessions |-> None]
  /\ chain = {}
  /\ budget = [s \in Sessions |-> None]
  /\ events = [s \in Sessions |-> <<>>]
  /\ scan = NoScan
  /\ born = {} /\ ever = {}
  /\ crashes = 0 /\ errors = 0

Rows(s) == IF disk[s] = Missing THEN <<>> ELSE disk[s]
Event(type, p) == [type |-> type, by |-> p]
Emit(s, new) == events' = [events EXCEPT ![s] = @ \o new]
Enqueue(p, s) == queue' = [queue EXCEPT ![s] = Append(@, p)]
Revoke(s) == store' = [store EXCEPT ![s] = None]

(* The response is sent: a process is done, its copy of the file is garbage. *)
Reply(p, pc) == job' = [job EXCEPT ![p].pc = pc, ![p].rows = <<>>]

ClientsMayCome == Cfg.patient => scan.pc = "done"

IoErrorHappens == errors < MaxIoErrors /\ errors' = errors + 1
-----------------------------------------------------------------------------
(* POST /sessions: registered, persisted, then budget, SessionStart and the
   memory prefetch.  Nobody knows the id before the 201. *)
CreateSession(s) ==
  /\ ClientsMayCome
  /\ s \notin born
  /\ born' = born \cup {s}
  /\ store' = [store EXCEPT ![s] = [bearer |-> Owner, canDecide |-> TRUE]]
  /\ disk' = [disk EXCEPT ![s] = <<>>]
  /\ budget' = [budget EXCEPT ![s] = 0]
  /\ Emit(s, <<Event("SessionStart", None)>> \o
             (IF Cfg.memoryFails THEN <<Event("SessionEnd", "MemoryDegraded")>> ELSE <<>>))
  /\ UNCHANGED <<job, queue, chain, scan, ever, counters>>

(* The persist fails: the registration is rolled back, the client gets a 503. *)
CreateFails(s) ==
  /\ ClientsMayCome
  /\ s \notin born
  /\ IoErrorHappens
  /\ born' = born \cup {s}
  /\ \E left \in {Missing, <<>>} : disk' = [disk EXCEPT ![s] = left]
  /\ UNCHANGED <<job, queue, memory, scan, ever, crashes>>

(* wouldExhaust: the projection on top of what n turns consumed. *)
WouldExhaust(n) ==
  n * Cfg.turnTokens + (IF n < Cfg.minSamples THEN Cfg.coldStart ELSE Cfg.warmTurn) > Cfg.maxTokens

(* The gates of the handler before its first state change. *)
Admitted(r, s) ==
  /\ job[r].pc = "idle"
  /\ store[s] # None
  /\ store[s].canDecide
  /\ Cardinality({q \in Requests : job[q].pc # "idle"}) < Cfg.requests
  /\ Cfg.serial => \A q \in Requests : job[q].sid = s => job[q].pc \notin Active

(* A request already answered 201 for the same session and key. *)
Resubmits(s, k) ==
  \E q \in Requests : job[q].sid = s /\ job[q].key = k /\ job[q].pc \in Answered

Arrived(s, k, sh, pc) ==
  [Idle EXCEPT !.pc = pc, !.sid = s, !.key = k, !.shape = sh, !.again = Resubmits(s, k)]

ResidencyRow(r, sh) ==
  IF sh.residency = "unpinned" THEN {} ELSE {[kind |-> "residency", id |-> r]}

(* The residency pin refuses the tool; the check itself is audited. *)
RefuseResidency(r, s, k, sh) ==
  /\ Admitted(r, s)
  /\ sh.residency = "violates"
  /\ chain' = chain \cup ResidencyRow(r, sh)
  /\ job' = [job EXCEPT ![r] = Arrived(s, k, sh, "refused")]
  /\ UNCHANGED <<disk, queue, store, budget, events, scan, born, ever, counters>>

(* terminateForBudgetExhausted, from the pre-call check. *)
RefuseExhausted(r, s, k, sh) ==
  /\ Admitted(r, s)
  /\ sh.residency # "violates"
  /\ budget[s] # None
  /\ WouldExhaust(budget[s])
  /\ chain' = chain \cup ResidencyRow(r, sh)
  /\ job' = [job EXCEPT ![r] = Arrived(s, k, sh, "refused")]
  /\ Emit(s, <<Event("SessionEnd", "BudgetExhausted")>>)
  /\ Revoke(s)
  /\ budget' = [budget EXCEPT ![s] = None]
  /\ UNCHANGED <<disk, queue, scan, born, ever, counters>>

(* The request gets through to the PreToolUse hook, or to the session file. *)
Arrive(r, s, k, sh) ==
  /\ Admitted(r, s)
  /\ sh.residency # "violates"
  /\ budget[s] # None => ~WouldExhaust(budget[s])
  /\ chain' = chain \cup ResidencyRow(r, sh)
  /\ job' = [job EXCEPT ![r] = Arrived(s, k, sh, IF Cfg.preHook THEN "prehook" ELSE "load")]
  /\ UNCHANGED <<disk, queue, store, budget, events, scan, born, ever, counters>>

(* runHook(PreToolUse) returns: Deny answers 403 at once. *)
PreHookDenies(r) ==
  /\ job[r].pc = "prehook"
  /\ Emit(job[r].sid, <<Event("PreToolUseOutcome", r)>>)
  /\ Reply(r, "refused")
  /\ UNCHANGED <<disk, queue, store, chain, budget, scan, born, ever, counters>>

PreHookPasses(r) ==
  /\ job[r].pc = "prehook"
  /\ job' = [job EXCEPT ![r].pc = "load"]
  /\ UNCHANGED <<disk, queue, memory, scan, born, ever, counters>>

ReentryForgives(s) ==
  /\ \E r \in Requests : job[r].sid = s /\ job[r].pc \in {"prehook", "posthook"}
  /\ Len(events[s]) < MaxEvents
  /\ Emit(s, <<Event("SessionEnd", "HookReentrancy")>>)
  /\ UNCHANGED <<job, disk, queue, store, chain, budget, scan, born, ever, counters>>

(* A request arrives from a hook child of s that is still running: 403, and the
   owning session is terminated. *)
Reentry(s) ==
  /\ \E r \in Requests : job[r].sid = s /\ job[r].pc \in {"prehook", "posthook"}
  /\ Len(events[s]) < MaxEvents
  /\ Emit(s, <<Event("SessionEnd", "HookReentrancy")>>)
  /\ Revoke(s)
  /\ UNCHANGED <<job, disk, queue, chain, budget, scan, born, ever, counters>>

(* readSession returns and the key is cached: 201 replayed. *)
Replay(r) ==
  /\ job[r].pc = "load"
  /\ CacheHits(Rows(job[r].sid), job[r].key) # {}
  /\ job' = [job EXCEPT ![r].pc = "replayed",
                        ![r].ans = FirstHit(Rows(job[r].sid), job[r].key).aud]
  /\ UNCHANGED <<disk, queue, memory, scan, born, ever, counters>>

(* readSession returns, no hit: push a pending row and write the file. *)
OpenBracket(r) ==
  LET s == job[r].sid IN
  /\ job[r].pc = "load"
  /\ CacheHits(Rows(s), job[r].key) = {}
  /\ job' = [job EXCEPT ![r].pc = "pending",
                        ![r].rows = Append(Rows(s), PendingRow(job[r].key)),
                        ![r].idx = Len(Rows(s)) + 1]
  /\ Enqueue(r, s)
  /\ UNCHANGED <<disk, memory, scan, born, ever, counters>>

(* readSession rejects with anything but file-missing: 500. *)
LoadFails(r) ==
  /\ job[r].pc = "load"
  /\ IoErrorHappens
  /\ Reply(r, "refused")
  /\ UNCHANGED <<disk, queue, memory, scan, born, ever, crashes>>
-----------------------------------------------------------------------------
AuditSkipped(r) ==
  /\ chain' = chain
  /\ ever' = ever
  /\ job' = [job EXCEPT ![r].pc = "sink"]
  /\ UNCHANGED <<disk, queue, store, budget, events, scan, born, counters>>

(* chain.append of the decision row; then recordAuditRow is awaited. *)
AppendDecision(r) ==
  /\ chain' = chain \cup {[kind |-> "decision", id |-> r]}
  /\ ever' = ever \cup {r}
  /\ job' = [job EXCEPT ![r].pc = "sink"]
  /\ UNCHANGED <<disk, queue, store, budget, events, scan, born, counters>>

CompensateUnwritten(r) ==
  /\ Reply(r, "refused")
  /\ UNCHANGED <<disk, queue, store, budget, events, scan, born, ever, counters>>

(* compensatePendingSideEffect, then a 4xx. *)
Compensate(r) ==
  /\ job' = [job EXCEPT ![r].pc = "compensating", ![r].rows = CompensateRow(@, job[r].idx)]
  /\ Enqueue(r, job[r].sid)
  /\ UNCHANGED <<disk, store, budget, events, scan, born, ever, counters>>

(* An escalation that ends in a refusal is audited and compensated. *)
RefuseEscalation(r) ==
  /\ chain' = chain \cup {[kind |-> "refusal", id |-> r]}
  /\ Compensate(r)

(* A 4xx or 5xx that leaves the pending row as it is. *)
LeavePending(r) ==
  /\ Reply(r, "refused")
  /\ UNCHANGED <<disk, queue, memory, scan, born, ever, counters>>

(* The pending write has landed: resolve, and look at the PDA. *)
Decide(r) ==
  LET pda == job[r].shape.pda IN
  /\ job[r].pc = "decide"
  /\ \/ pda = "none" /\ AppendDecision(r)
     \/ pda # "none" /\ ~Cfg.pda /\ LeavePending(r)
     \/ /\ pda # "none" /\ Cfg.pda
        /\ job' = [job EXCEPT ![r].pc = "verify"]
        /\ UNCHANGED <<disk, queue, memory, scan, born, ever, counters>>

(* What the resolver says of a request, in the session's granted mode. *)
Resolved(sh) == QueryDecision(Cfg.mode, sh.risk, sh.control, sh.require)

NeedsHuman(sh) == Resolved(sh) = "Prompt" /\ sh.risk \in {"Mutating", "Destructive"}

(* Forgery resistance: a PDA that contradicts the resolver is refused. *)
AcceptOrMismatch(r) ==
  \/ job[r].shape.says \in Implied(Resolved(job[r].shape)) /\ AppendDecision(r)
  \/ job[r].shape.says \notin Implied(Resolved(job[r].shape)) /\ Compensate(r) /\ UNCHANGED chain

ValidPda(r) ==
  LET sh == job[r].shape IN
  CASE NeedsHuman(sh) /\ sh.role = "Coordinator" -> Compensate(r) /\ UNCHANGED chain
    [] NeedsHuman(sh) /\ sh.role = "Autonomous" /\ ~Cfg.escalation -> RefuseEscalation(r)
    [] NeedsHuman(sh) /\ sh.role = "Autonomous" /\ Cfg.escalation ->
         /\ job' = [job EXCEPT ![r].pc = "escalate"]
         /\ UNCHANGED <<disk, queue, memory, scan, born, ever, counters>>
    [] OTHER -> AcceptOrMismatch(r)

(* verifyPda returns or throws.  A forged PDA is coerced to an audited Deny. *)
Verify(r) ==
  LET pda == job[r].shape.pda IN
  /\ job[r].pc = "verify"
  /\ \/ pda = "malformed" /\ Compensate(r) /\ UNCHANGED chain
     \/ pda = "forged" /\ AppendDecision(r)
     \/ pda = "unusable" /\ LeavePending(r)
     \/ pda = "valid" /\ ValidPda(r)

(* awaitResponder returns: timeout or denied, hitl-required, or approved. *)
Escalated(r) ==
  /\ job[r].pc = "escalate"
  /\ \/ RefuseEscalation(r)
     \/ Compensate(r) /\ UNCHANGED chain
     \/ AcceptOrMismatch(r)

CommitAtOnce(r) ==
  /\ job[r].pc = "sink"
  /\ job' = [job EXCEPT ![r].pc = "committed"]
  /\ UNCHANGED <<disk, queue, memory, scan, born, ever, counters>>

(* recordAuditRow returned: mark the row committed and write the file. *)
Commit(r) ==
  /\ job[r].pc = "sink"
  /\ job' = [job EXCEPT ![r].pc = "committing", ![r].rows = CommitRow(@, job[r].idx, r)]
  /\ Enqueue(r, job[r].sid)
  /\ UNCHANGED <<disk, memory, scan, born, ever, counters>>

(* recordAuditRow could not buffer the row: 500, the pending row stays. *)
SinkFails(r) ==
  /\ job[r].pc = "sink"
  /\ IoErrorHappens
  /\ Reply(r, "refused")
  /\ UNCHANGED <<disk, queue, memory, scan, born, ever, crashes>>

(* recordTurn: the turns of the session with this one, from zero when the tracker
   has dropped its state. *)
Turns(s) == (IF budget[s] = None THEN 0 ELSE budget[s]) + 1

(* The committed write has landed: recordTurn, terminate when the cap is
   reached, then the decision events. *)
Finish(r) ==
  LET s == job[r].sid
      spent == Turns(s) * Cfg.turnTokens >= Cfg.maxTokens
      over == IF spent THEN <<Event("SessionEnd", "BudgetExhausted")>> ELSE <<>>
      hook == IF Cfg.preHook THEN <<Event("PreToolUseOutcome", r)>> ELSE <<>>
  IN
  /\ job[r].pc = "committed"
  /\ budget' = [budget EXCEPT ![s] = IF spent THEN None ELSE Turns(s)]
  /\ store' = [store EXCEPT ![s] = IF spent THEN None ELSE @]
  /\ Emit(s, over \o <<Event("PermissionDecision", r)>> \o hook)
  /\ job' = [job EXCEPT ![r].pc = IF Cfg.postHook THEN "posthook" ELSE "accepted",
                        ![r].rows = <<>>, ![r].ans = r]
  /\ UNCHANGED <<disk, queue, chain, scan, born, ever, counters>>

(* runHook(PostToolUse) returns, whatever it says: 201. *)
PostHook(r) ==
  /\ job[r].pc = "posthook"
  /\ Emit(job[r].sid, <<Event("PostToolUseOutcome", r)>>)
  /\ Reply(r, "accepted")
  /\ UNCHANGED <<disk, queue, store, chain, budget, scan, born, ever, counters>>
-----------------------------------------------------------------------------
(* GET /sessions/:id/state on a session the store does not know: resumeSession
   reads the file. *)
Hydrate(x, s) ==
  /\ ClientsMayCome
  /\ job[x].pc = "idle"
  /\ store[s] = None
  /\ disk[s] # Missing
  /\ job' = [job EXCEPT ![x].pc = "settling", ![x].sid = s, ![x].rows = disk[s]]
  /\ UNCHANGED <<disk, queue, memory, scan, born, ever, counters>>

(* resumeSession, of a reader or the scan: the awaited replays and compensations
   are over, the copy read before them is written back. *)
Settle(p) ==
  /\ job[p].pc = "settling"
  /\ job' = [job EXCEPT ![p].pc = "resuming", ![p].rows = ResumeRows(@)]
  /\ Enqueue(p, job[p].sid)
  /\ UNCHANGED <<disk, memory, scan, born, ever, counters>>

(* resumeSession returned: the presented bearer is registered, read-only. *)
Register(x) ==
  /\ job[x].pc = "resumed"
  /\ store' = [store EXCEPT ![job[x].sid] = [bearer |-> x, canDecide |-> FALSE]]
  /\ Reply(x, "served")
  /\ UNCHANGED <<disk, queue, chain, budget, events, scan, born, ever, counters>>

(* The boot scan: listSessionIds, then one session after the other. *)
ScanList ==
  /\ scan.pc = "list"
  /\ scan' = [scan EXCEPT !.pc = "scanning", !.todo = {s \in Sessions : disk[s] # Missing}]
  /\ UNCHANGED <<job, disk, queue, memory, born, ever, counters>>

OpenRows(rows) == {i \in DOMAIN rows : rows[i].phase \in Open}

(* readSessionForResume and resumeSession on the next session of the list. *)
ScanNext(s) ==
  /\ scan.pc = "scanning"
  /\ s \in scan.todo
  /\ job[Scanner].pc = "idle"
  /\ job' = [job EXCEPT ![Scanner].pc = "settling", ![Scanner].sid = s,
                        ![Scanner].rows = disk[s]]
  /\ scan' = [scan EXCEPT !.todo = @ \ {s}, !.seen = @ \cup {s},
                          !.open = OpenRows(disk[s]) # {}]
  /\ UNCHANGED <<disk, queue, memory, born, ever, counters>>

(* One session is resumed; a CrashEvent reports an open bracket. *)
ScanResumed ==
  /\ job[Scanner].pc = "resumed"
  /\ Emit(job[Scanner].sid,
          IF scan.open THEN <<Event("CrashEvent", Scanner)>> ELSE <<>>)
  /\ job' = [job EXCEPT ![Scanner] = Idle]
  /\ UNCHANGED <<disk, queue, store, chain, budget, scan, born, ever, counters>>

(* The loop is over: one audit row per outcome. *)
ScanDone ==
  /\ scan.pc = "scanning"
  /\ scan.todo = {}
  /\ job[Scanner].pc = "idle"
  /\ scan' = [scan EXCEPT !.pc = "done"]
  /\ chain' = chain \cup {[kind |-> "resume", id |-> s] : s \in scan.seen}
  /\ UNCHANGED <<job, disk, queue, store, budget, events, born, ever, counters>>
-----------------------------------------------------------------------------
(* Where a process goes when its write has landed. *)
After(pc) ==
  CASE pc = "pending"      -> "decide"
    [] pc = "compensating" -> "refused"
    [] pc = "committing"   -> "committed"
    [] pc = "resuming"     -> "resumed"

WriteLandsAndForgets(s) ==
  /\ queue[s] # <<>>
  /\ disk' = [disk EXCEPT ![s] = job[Head(queue[s])].rows]
  /\ job' = [job EXCEPT ![Head(queue[s])].pc = After(@)]
  /\ queue' = [queue EXCEPT ![s] = <<>>]
  /\ UNCHANGED <<memory, scan, born, ever, counters>>

(* The write at the head of the session's lock chain lands. *)
WriteLands(s) ==
  /\ queue[s] # <<>>
  /\ disk' = [disk EXCEPT ![s] = job[Head(queue[s])].rows]
  /\ job' = [job EXCEPT ![Head(queue[s])].pc = After(@)]
  /\ queue' = [queue EXCEPT ![s] = Tail(@)]
  /\ UNCHANGED <<memory, scan, born, ever, counters>>

(* It fails, before or after its rename: 500, a swallowed error while
   compensating, a failed outcome of the scan. *)
WriteFails(s) ==
  LET p == Head(queue[s]) IN
  /\ queue[s] # <<>>
  /\ IoErrorHappens
  /\ disk' = disk \/ disk' = [disk EXCEPT ![s] = job[p].rows]
  /\ queue' = [queue EXCEPT ![s] = Tail(@)]
  /\ IF p = Scanner THEN job' = [job EXCEPT ![p] = Idle] ELSE Reply(p, "refused")
  /\ UNCHANGED <<memory, scan, born, ever, crashes>>

(* The process dies and is started again: memory is lost, the write at the head
   of each queue may or may not have reached the disk. *)
Crash ==
  /\ crashes < MaxCrashes
  /\ crashes' = crashes + 1
  /\ \E L \in SUBSET {s \in Sessions : queue[s] # <<>>} :
       disk' = [s \in Sessions |-> IF s \in L THEN job[Head(queue[s])].rows ELSE disk[s]]
  /\ job' = [p \in Procs |-> CASE p = Scanner -> Idle
                               [] p # Scanner /\ job[p].pc \in Active ->
                                    [job[p] EXCEPT !.pc = "lost", !.rows = <<>>]
                               [] OTHER -> job[p]]
  /\ queue' = [s \in Sessions |-> <<>>]
  /\ store' = [s \in Sessions |-> None]
  /\ chain' = {}
  /\ budget' = [s \in Sessions |-> None]
  /\ events' = [s \in Sessions |-> <<>>]
  /\ scan' = NoScan
  /\ UNCHANGED <<born, ever, errors>>

(* A step of the code the request's own process runs next. *)
Progress(r) ==
  \/ PreHookPasses(r) \/ PreHookDenies(r)
  \/ Replay(r) \/ OpenBracket(r)
  \/ Decide(r) \/ Verify(r) \/ Escalated(r)
  \/ Commit(r) \/ Finish(r) \/ PostHook(r)

ScanStep ==
  \/ ScanList \/ Settle(Scanner) \/ ScanResumed \/ ScanDone
  \/ \E s \in Sessions : ScanNext(s)

Step ==
  \/ \E s \in Sessions : CreateSession(s) \/ CreateFails(s) \/ Reentry(s)
  \/ \E r \in Requests, s \in Sessions, sh \in Cfg.shapes : \E k \in Keys \cup {r} :
       RefuseResidency(r, s, k, sh) \/ RefuseExhausted(r, s, k, sh) \/ Arrive(r, s, k, sh)
  \/ \E r \in Requests : Progress(r) \/ LoadFails(r) \/ SinkFails(r)
  \/ \E x \in Readers, s \in Sessions : Hydrate(x, s)
  \/ \E x \in Readers : Settle(x) \/ Register(x)
  \/ ScanStep
  \/ \E s \in Sessions : WriteLands(s) \/ WriteFails(s)
  \/ Crash

Next == Step /\ UNCHANGED setting

(* Promises settle: hooks and escalations have timeouts, the file system
   answers, and the event loop runs every continuation. *)
Fairness ==
  /\ \A r \in Requests : WF_vars(Progress(r) /\ UNCHANGED setting)
  /\ \A x \in Readers : WF_vars((Settle(x) \/ Register(x)) /\ UNCHANGED setting)
  /\ \A s \in Sessions : WF_vars(WriteLands(s) /\ UNCHANGED setting)
  /\ WF_vars(ScanStep /\ UNCHANGED setting)

Spec == Init /\ [][Next]_vars
FairSpec == Spec /\ Fairness
-----------------------------------------------------------------------------
TypeOK ==
  /\ job \in [Procs -> [pc    : {"idle"} \cup Active \cup Final,
                        sid   : Sessions \cup {None},
                        key   : Keys \cup Requests \cup {None},
                        shape : Cfg.shapes \cup {None},
                        rows  : Seq(RowType),
                        idx   : Nat,
                        ans   : Requests \cup {NoAudit},
                        again : BOOLEAN]]
  /\ disk \in [Sessions -> Seq(RowType) \cup {Missing}]
  /\ queue \in [Sessions -> Seq(Procs)]
  /\ store \in [Sessions -> [bearer : Readers \cup {Owner}, canDecide : BOOLEAN] \cup {None}]
  /\ \A row \in chain : row.kind \in {"decision", "refusal", "residency", "resume"}
  /\ budget \in [Sessions -> Nat \cup {None}]
  /\ scan.pc \in {"list", "scanning", "done"} /\ scan.todo \cup scan.seen \subseteq born
  /\ born \subseteq Sessions /\ ever \subseteq Requests

(* decisions-route.ts 1021-1091: an audit id cached in a session file belongs to
   a decision that was audited for this very session and key, whatever writer,
   failure or crash the file has been through. *)
CommittedIsAudited ==
  \A s \in Sessions : \A i \in DOMAIN Rows(s) :
    LET row == Rows(s)[i] IN
    row.aud # NoAudit => /\ row.phase = "committed"
                         /\ row.aud \in ever
                         /\ job[row.aud].sid = s
                         /\ job[row.aud].key = row.key

(* decisions-route.ts 111-114: a 201, fresh or replayed, names a decision row
   that the audit chain of the running process holds, for the same session and
   key.  It leans on hydrated sessions not deciding: their files cache ids of a
   chain that died with the previous process. *)
AnswersAreAudited ==
  [][\A r \in Requests :
       job'[r].pc \in Answered /\ job[r].pc \notin Answered =>
         LET a == job'[r].ans IN
         /\ [kind |-> "decision", id |-> a] \in chain'
         /\ job'[a].sid = job'[r].sid
         /\ job'[a].key = job'[r].key]_vars

(* decisions-route.ts 347-349 and 1350-1353: a session whose SessionEnd was emitted
   for its budget or a reentrant hook admits no further decision.  The SessionEnd
   of the third memory timeout is emitted only: its session goes on. *)
SessionEndIsFinal ==
  \A s \in Sessions :
    (\E i \in DOMAIN events[s] : events[s][i].type = "SessionEnd"
                                  /\ events[s][i].by # "MemoryDegraded") =>
      (store[s] # None => ~store[s].canDecide)

(* decisions-route.ts 274-275: a request submitted after the same session and key
   was answered 201 appends no second decision row. *)
ResubmitReplays == [][\A r \in ever' \ ever : ~job[r].again]_vars

(* The same of clients with one request in flight per session, which come when the
   boot scan is over. *)
Careful == Cfg.serial /\ Cfg.patient
SerialResubmitReplays == [][Careful => \A r \in ever' \ ever : ~job[r].again]_vars

Ends(s) == {i \in DOMAIN events[s] : events[s][i] = Event("SessionEnd", "BudgetExhausted")}

(* decisions-route.ts 1354-1355: terminateForBudgetExhausted is a no-op the second
   time, so a session of careful clients ends once. *)
EndedOnce == Careful => \A s \in Sessions : Cardinality(Ends(s)) <= 1

Turned(s) == {r \in Requests : job[r].sid = s /\ job[r].pc \in {"posthook", "accepted"}}

(* decisions-route.ts 521-527: with one request in flight per session, the pre-call
   projection keeps the committed turns within maxTokensPerRun. *)
NoOverrun == Careful => \A s \in Sessions : Cardinality(Turned(s)) * Cfg.turnTokens <= Cfg.maxTokens

(* decisions-route.ts 1140-1142: a PermissionDecision event reflects the recorded
   outcome: with careful clients the session file holds the committed row and keeps
   it.  (Without a PreToolUse hook: a reentrant call from one revokes the session
   under the request in flight, and a GET that copied the file by then may write its
   copy over the committed row.) *)
DecisionEventDurable ==
  (Careful /\ ~Cfg.preHook) => \A s \in Sessions : \A i \in DOMAIN events[s] :
    LET r == events[s][i].by IN
    events[s][i].type = "PermissionDecision" =>
      /\ job[r].idx \in DOMAIN Rows(s)
      /\ Rows(s)[job[r].idx] = [key |-> job[r].key, phase |-> "committed", aud |-> r]

(* decisions-route.ts 1318-1323: the side effect of a refused request of careful
   clients is not replayed by a later resume, unless a file write failed.  (A PDA
   that cannot be used, or that no key is there to verify, is refused with the row
   left pending.  No PreToolUse hook, as above.) *)
RefusedNotReplayed ==
  (Careful /\ ~Cfg.preHook /\ Cfg.pda /\ errors = 0) => \A r \in Requests :
    (job[r].pc = "refused" /\ job[r].idx # 0 /\ job[r].shape.pda # "unusable") =>
      /\ job[r].idx \in DOMAIN Rows(job[r].sid)
      /\ Rows(job[r].sid)[job[r].idx].phase = "compensated"

(* Every admitted request is answered, or lost in a crash: no write queue, hook
   or escalation strands it. *)
RequestsAnswered == \A r \in Requests : job[r].pc \in Active ~> job[r].pc \in Final

(* The boot scan reaches its end although clients keep writing. *)
ScanFinishes == scan.pc = "list" ~> scan.pc = "done"

(* decisions-route.ts 521-527 and 1350-1355, the life of a session: it ends for good,
   once, and before its budget is overrun. *)
SessionInv == TypeOK /\ SessionEndIsFinal /\ EndedOnce /\ NoOverrun

(* Nothing waits for ever: neither a client on its request nor the start on the scan. *)
WaitsEnd == RequestsAnswered /\ ScanFinishes
=============================================================================
