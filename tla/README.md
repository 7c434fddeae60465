# TLA+ models of the SOA harness Runner

The repository implements the SOA agent harness: a *Runner* (an HTTP process
that decides permissions, keeps sessions, audits and dispatches) and packages
around it (chat UI, command line tools, memory servers, a provider adapter, a
LangGraph adapter, schemas). Nearly all of the protocol logic is in
`src/packages/runner/src`, about 20,000 of some 31,000 lines; it is modelled
here with the memory servers, the provider adapter and the clients of the
dispatcher. Paths below are relative to that directory unless they say more.

## 1. Inventory

| Part | State it keeps | Operations | Hard behaviour | What makes it correct |
|---|---|---|---|---|
| Session persistence, `session/persist.ts` | one JSON file per session, `writeLocks` | `writeSession`, `stageActivate`, `readSession` | a crash between fsync, rename and directory fsync; concurrent and failed writers in the promise chain | files are whole, acknowledged writes survive, writers exclude each other, calls return |
| Decision endpoint, `permission/decisions-route.ts` | rows of `side_effects` in the session file, audit chain, budget, events | `POST /permissions/decisions` | six or more awaits in one request on a private copy of the file; crash between audit and commit; concurrent termination | a 201 is backed by an audit row, a resubmission replays, an ended session decides nothing |
| Resolver, `permission/resolver.ts`, `resolve-for-query.ts` | none | capability gate, tightening, dispatch | two implementations of one rule | configuration only tightens, the two agree |
| Session creation and store, `permission/sessions-route.ts`, `session-store.ts` | bearer, mode and capability per session | `POST /sessions`, `register`, `revoke`, `validate` | rollback, hydrate overwriting a record | no deciding on a session that ended |
| Resume, `session/resume.ts` | the file, a private copy | `resumeSession` | an await per row, two resumers, a crash half-way | committed rows stay and are not replayed, brackets close |
| Boot scan, `session/boot-scan.ts` | progress of the loop | `scanAndResumeInProgressSessions` | races with clients, one bad file among many | reports what the crash interrupted, refuses invalid files, ends |
| State route, `session/state-route.ts` | - | lazy hydrate | `exists` before awaits, `register` after | reading does not reopen rows |
| Budget, `budget/tracker.ts` | turns and tokens per session | `initFor`, `recordTurn`, `wouldExhaust`, `remove` | checked before the awaits, charged after | no overrun, one end |
| Audit sink, `audit/sink.ts` | buffer, pending directory, state | `recordAuditRow`, `flushAndRecover`, `transitionTo` | rows recorded during a flush, restart with a queue | order kept, calm rows kept |
| Hooks, `hook/` | pids in flight | `runHook`, `begin`, `end` | pid reuse, timeout against exit and close | fails closed, guard covers running hooks |
| Escalation and handler keys, `attestation/` | key registry, responder file, revocations | `awaitResponder`, `verifyPda`, enrol, poll | shared responder file, revocation during a wait | only a usable Interactive key approves; suspects flagged once |
| Dispatcher, `dispatch/`; its clients in `chat-ui`, `cli`; `example-provider-adapter` | jobs, in-flight registry, ring, audit rows; the UI's state | dispatch, retry, stream, cancel | cancel between attempts, adapters that break the protocol, two loops in the UI | one row per dispatch, well-formed streams, cancelled ends |
| A2A, `a2a/` | tasks, timers, jti and card caches | five handoff methods, JWT profile | timers against deadline and repeats, awaits around the caches | completed stays, no replay of verified tokens |
| Start-up, `bin/start-runner.ts`, `boot/`, `bootstrap/`, `crl/`, `card/`, `guards/` | CRL cache, readiness, revocation | the refusals of `main()`, boot, refresh, polls | overlapping refreshes, failed boots, a poller's file | the listener is vetted, a revoked publisher stays refused |
| Registry, `registry/` | tool pool | assembly, dynamic add, watcher | trigger file read and truncated | pool sound, batches ingested |
| Memory, `memory/`; `memory-mcp-{sqlite,zep,mem0}`, `tools/memory-mcp-mock` | notes, tombstones, counters, probe | add, search, read, delete, consolidate, prefetch, probe | handlers interleave, outlive their callers, forget at a restart | deleted stays hidden, degraded exactly when due |
| Observation: `stream/`, `audit/*-route.ts`, `observability/`, `system-log/` | rings, reader tokens, limiter | emit, paged reads, status reads | FIFO caps against paging, expiry during a request | pages whole, served while entitled |
| Privacy, markers | subject lists, log lines | suppress, sweep | - | - |

How they interact. The Runner is one Node process: code between two awaits is
atomic, and any other continuation may run at an await. A decision request
reads the session file through the persister, changes its own copy across
several awaits and writes it whole; the boot scan and lazy hydrates do the same
to the same files. The audit chain, budget tracker, event emitter, session
store, registries and caches are maps in memory, shared by all handlers and lost
at a crash; the session files, the sink's pending directory and the operator's
files are what survives. `bin/start-runner.ts` opens the listener, boots the
trust chain, then runs the scan, so clients and the scan overlap. Memory servers
and providers are other processes behind calls with a timeout.

## 2. Modules

| Module | Models | Composition |
|---|---|---|
| `SessionRegister` | what the persister promises: an atomic register per session with install, harden-and-acknowledge, crash | abstract |
| `SessionPersister` | `session/persist.ts` | implements `SessionRegister` (`ImplementsRegister`) |
| `SessionPersisterProofs` | theorems about it | extends it |
| `SideEffects` | the rows of `workflow.side_effects` and what each writer does to them | used by `Decisions` and `Resume` |
| `PermissionResolver` | both resolvers as operators | used by `Decisions` |
| `Decisions` | the decision endpoint with session creation, budget, hooks, hydrate, boot scan and crash | writes go through a queue per session: the register, not the file system |
| `DecisionsProofs` | theorems about it and about the resolver | extends it |
| `Resume` | resume row by row, the scan over all kinds of files, hydrates | the detail `Decisions` leaves out |
| `RestartProofs` | theorems about it and about `Startup`: what a restart may do | extends both |
| `AuditSink` | the sink machine and its callers | `Decisions` sees it as one await that may fail |
| `ReportingProofs` | theorems about it and about `Observe`: how what the Runner did gets out | extends both |
| `Handlers` | hook process, handler keys, responder and revocation files | the detail behind the hook and PDA awaits of `Decisions` |
| `HandlersProofs` | theorems about it | extends it |
| `Dispatch` | dispatcher, streams, adapters, the two reading clients | on its own |
| `DispatchProofs` | theorems about it | extends it |
| `A2aHandoff` | the A2A endpoint | on its own |
| `A2aHandoffProofs` | theorems about it | extends it |
| `Startup` | `main()`, boot, CRL cache, pollers, registry | what runs before and beside `Decisions` |
| `Memory` | the Runner's memory client and four servers | `Decisions` sees the third timeout of a prefetch |
| `MemoryProofs` | theorems about it | extends it |
| `Observe` | the polling endpoints and the stores behind them | reads what the others write |
| `MC*` | values of constants, request shapes, files, symmetry | extend the modules |

**SessionPersister.** A call `w` is also its payload. `pc[w]` walks through the
awaits of `writeSession`; `prior[w]` is the promise it found in `writeLocks`,
`lock` the map itself, dropped by `Release` (the `finally` block) only if still
its own. `body[w]` is torn, cached or synced; `hist[s]` the files renamed over
the final name of `s`; `stable[s]` how many of these a crash cannot take back.
`Crash` tears unsynced bytes and cuts each history to any length from
`stable[s]` up. The payload is serialised when the write starts, not when it is
called; the callers modelled here do not change an object they are awaiting
the write of. In `stageActivate`, members of a batch progress independently up
to the renames, a superset of the code's one-after-another order; the renames
wait for all fsyncs, as in the code. Batches of one file and empty batches are
left out: no production code calls `stageActivate`.

**Decisions.** A process is a request, a reader or the scanner; `job[p]` holds
its place and local variables, `job[p].rows` the private copy of the file.
`queue[s]` is the lock chain; `WriteLands` installs the copy of its head, the
only step of the register these clients see, `WriteFails` may or may not have
installed it. A behaviour has one *setting*, a record of the route's options,
the granted mode, the budget and what clients do. A request's content is a
*shape*: risk class, default control and card override of its tool, what the
PDA is (none, malformed, forged, unusable, valid), the role of its signer, what
it says, the residency pin; `QueryDecision` of `PermissionResolver` decides on
it. The handler's gates follow the code's order. `Reentry` is a request that
names the pid of a running hook. Readers register with `canDecide = FALSE`. The
audit id of a request is the request, so "names a decision of this session and
key" can be stated. `CreateSession` is one step although the code awaits in it:
nobody else knows the random id before the 201. Sessions are created with the
capability to decide; expiry is not modelled since no code reads `expires_at`.

**Resume.** `Init` is any combination of session files a crash can leave, from
a corrupt one to one of another card. `proc[p].copy` is a resumer's copy,
`SettleRow` one turn of the loop up to its await, `ResumeWrite` the final write.
`replays` counts by the position of a row in its file, because idempotency keys
are the clients' and a file may hold one twice (the run has such files).
The scan keeps `pre`, the last committed key before the resume, for the
CrashEvent. Marking a drifted session Failed is a second read and write.

**AuditSink.** `RecordAuditRow` is `chain.append` and the start of `recordAuditRow`,
`Buffered` its return; `flush` is `flushAndRecover`: snapshot, ships one by one,
clearing, listing, unlinks, recovery. One call of it runs at a time: no mutex
says so, but nothing in the repository except two tests calls it. `owed` is the history variable of rows
acknowledged as buffered and not yet shipped. `TransitionTo` is the forced
transition of the failure-mode hook; the code has no other trigger (the header's
60 seconds and 1000 records are not implemented).

**Handlers.** A request goes from its hook to its PDA to an escalation. A hook
process has a pid (`alive` until it is reaped), output a descendant may hold
open after that (`held`), an exit code and the mark of the timeout (`late`),
which sends the kill that `HookReaped` completes; `guard` is `sessionsByPid`.
`byKid`, `revoked` and `crl` are the registry, what the poller has seen and the
operator's file of one record. `enrolled_at` is what the caller of the enrolment
says, and a key without a date never grows old. `responder` is the one file all
escalations poll; emptying it may fail, which the code catches and drops, so
that the next poll reads the answer again (`kept`). Left out: content that is no
JSON, which stays and decides nothing; an answer that is neither approve nor
deny, which is emptied like silence; JSON's `null`, which throws out of the poll.
Cryptography is the field `good` of a PDA.

**Dispatch.** A dispatch is in an adapter call, in its backoff sleep or in a
stream; the wired adapter is the in-memory test double with its behaviours, the
example adapter with its timeout, or any adapter an adopter writes. That one may
yield any event at any time, a MessageEnd without a stop_reason included
(`types.ts` 192 makes it optional and the sequence checker does not ask for it),
and answer a synchronous call with a reason and code of its own, which
pass through unread, or break the echo contract; `OtherVerdicts` are the pairs of
reason and code it uses. `frames` is what went over the wire, `reader` the
loop of the client that reads it and `ui` the React hook's state, whose old
loops may still be running. A cancellation is posted and handled in two steps.

**A2aHandoff.** Time is counted in ticks, several to a second, because the
deadline compares whole seconds and the timers do not; the event loop may run
`MaxLate` ticks behind. `auto` and `eager` are the two timers of a task. A
request with a JWT is authenticated across three awaits (`job`), each of which
others may overtake, and then handled in one step. `verified` holds tokens, not
jtis: a forged token may name the jti of a genuine one.

**Startup.** `cfg` is the environment with the files it names. A launch is one
step: the refusals of `main()` in the code's order are operators that give the
first reason. `passes` are walks over the anchors (by boot, timer or operator),
each anchor in two steps, the distribution point's answer and its landing. The
import walk is the set of its calls that end without an error, depth by depth; it
is over files that exist, and an import that names none, met first, is a state of
the entry file (`dangling`) that ends `main()`. A revocation file that holds
JSON's `null` throws out of the poller's timer and ends the process.
Ages and remaining lifetimes are kept instead of a clock, so time is unbounded.

**Memory.** One server kind per behaviour. A call has its caller's side
(`waiting`), which a timeout ends, of the Runner or of any other client, and its
handler, which goes on; Zep and mem0 suspend at their service, for listings by
time in mem0 too. `ZepPrimes` is the push of the seed and `ZepPrimed` its answer,
which may never come although the service stored the seed. A scored search fails
when the embedding model does. `docs` is that service, where another client's
document may lie. The history variables remember whose deletion was answered,
what was told, and how consolidation runs overlapped.

**Observe.** A behaviour follows one of eleven endpoints with one kind of
bearer. `Send`, the scope guard and `Serve` are three steps, so a token may
expire in between. Readiness rises and falls, the latter not under the merged
list (a bound); `/logs/system/recent` may be wired without the gate (`skipGate`).
The chain holds decision rows, which have an id, and rows without one
(`dispatch`: the dispatcher's, and residency checks and subject suppressions):
`/audit/records` gives no `next_after` for a page that ends on one. `Unfit` are
record types the response schema refuses, with a 500, where a route validates.
`seen` is what the client was given up to its anchor since it last started
from the oldest, `loose` the page after it that came without a `next_after`,
`wrote` all that was written.

## 3. Runs

| Run | Bounds | Shows |
|---|---|---|
| `SessionPersister` | 3 calls, 2 sessions, 1 crash, any call failing, Windows flush sequence, fair | `TypeOK`, `NoPartialRead`, `AckedSurvives`, `LockChain` (`WritersExclusive`, `WritesInCallOrder`), `ImplementsRegister`, `CallsReturn` |
| `Decisions` | settings: 2 overlapping requests with a hook; 3 serial ones in every way refused or approved. A reader, the scan, reentry, 1 crash, 1 I/O error | `CommittedIsAudited`, `AnswersAreAudited`, `SessionInv` (`SessionEndIsFinal`; of careful clients `EndedOnce`, `NoOverrun`); of careful clients `DecisionEventDurable`, `RefusedNotReplayed`, `SerialResubmitReplays` |
| `DecisionsLive` | settings: 2 requests with a hook after the decision, 1 request with a forged or rejected PDA; 1 crash, fair | `WaitsEnd` (`RequestsAnswered`, `ScanFinishes`) |
| `DecisionsResubmit` | 3 overlapping requests | `ResubmitReplays` is violated |
| `Resume` | 2 files of 8 kinds; 1 crash, 1 I/O error, 2 hydrates, at most 2 of these together; fair | `ScanInv` (`CrashReported`, `ServesOnlyValid`), `TerminalPhasesStick`, `ReplaysAllowed` (`DriftNeverReplays`, `CommittedNotReplayed`), `BracketsClose` |
| `AuditSink` | 3 rows, 1 forced transition, 1 crash, 1 error | `RowsInv` (`ShippedInOrder`, `CalmRowsKept`), `EventsTellState` |
| `Handlers` | 2 requests, 1 pid, 3 keys, 1 answer that may be read twice, 1 revocation, 1 day, fair | `HandlerInv` (`GuardCovers`, `HookFailsClosed`, `ResponseUsedOnce`), `SuspectsFlagged`, `SignersEntitled` (`HumanDecides`, `SignerUsable`), `WaitsEnd` (`EscalationEnds`, `HookEnds`) |
| `Dispatch` | 2 dispatches, 3 adapters, 1 retry, ring of 1, 1 cancel, 3 events a stream, fair | `DispatchInv` (`OneRowPerDispatch`, `RetryBudget`, `StreamWellFormed`, `AuditMatchesWire`, `RecentIsAuditTail`), `LiveIsCancellable`, `UiSettled`, `CancelIsFinal` (`CancelledStops`, `CancelledEnds`) |
| `A2aHandoff` | 1 task, 2 requests, 4 tokens, 2 cards, 8 ticks of half a second, 1 restart | `TimerInv` (`AutoExecuteCompletes`, `AutoBeatsDeadline`), `JtiCacheExact` (`VerifiedNotReplayed`, `OnlyVerifiedBurnsJti`), `EtagIsRecent`, `TaskEnds` (`CompletedStays`, `EndIsDue`) |
| `Startup` | about 800 configurations, 3 import files, 2 anchors, 2 passes, 3 faults, 2 launches, fair | `ListenerInv` (`ListensOnlyIfVetted`, `WalkMatchesGraph`, `PoolVetted`, `RefusalExplained`), `ReadinessHolds` (`LastGoodStays`, `FailedBootSticks`, `RevokedStaysUnready`), `KeepsUp` (`ReadyAgain`, `BatchIngested`) |
| `Memory` | 4 servers, 2 connections, 4 calls and restarts together (3 with a service to wait for), 1 restart, 3 faults, fair | `NoteInv` (`DeletedStaysHidden`, `OneTombstone`, `AddedIsReadable`, `NoSensitiveNotes`), `CountersExact` (`DegradedExact`, `NoEarlyRun`), `RunnerMovesOn` (`ReadinessFinal`, `CallEnds`) |
| `Observe` | 11 endpoints, 5 bearers, rings of 2, 4 records, 1 unfit type, fair | `PageInv` (`PagesWhole`, `MergedMissesTies`, `SpansKeepParents`), `AnswersHonest` (`ServedWhileEntitled`, `RetryHonest`), `CatchesUp` |

A property with parts in parentheses is their conjunction; those whose name ends
in `Inv` have the module's `TypeOK` as their first part. (`DecisionsLive` and
`DecisionsResubmit` share the types of `Decisions`.)

Where a property fails in general, it states the condition under which it
holds: `Careful` (clients keep one request in flight per session and come after
the boot scan) for the decision endpoint, for its two durability properties also
no PreToolUse hook (a reentrant call of the hook's child ends the session under
its request, a reader may then hydrate it, and the older copy overwrites the
committed or compensated row) and for `RefusedNotReplayed` a wired PDA check and
no I/O error; in `CommittedNotReplayed` an
overlapping hydrate for rows committed after the restart; in `AuditSink` the
history variable `late` for rows recorded during a flush; in `LastGoodStays` a
refresh that overlapped; in `VerifiedNotReplayed` arrival before the first
verification of the same token; in `OneTombstone` overlapping deletions; in `MergedMissesTies` the
tie itself; in `CatchesUp` a next page that is refused with a 500 or may end on a
row without an id, where a client cannot be relied on to get on; in
`ResponseUsedOnce` an answer the file kept because emptying it failed; in
`GuardCovers` a pid taken again before the close event of its last hook; in
`StreamWellFormed` the second MessageEnd after one that gave no reason; in
`AutoBeatsDeadline` a junk deadline variable; in
`OneRowPerDispatch` two answers without a row; in `SessionEndIsFinal` the end
for memory timeouts, which is announced and revokes nothing.

Bounds. Two overlapping actors are enough for every lost update, double answer
or stale read above; three requests for a pair followed by a resubmission, or
for a budget spent one turn early. One crash suffices because a restart starts
from the files alone, and the proofs about the persister have no bound. The
persister runs on the Windows sequence, whose flush hardens less than the POSIX
directory fsync. One I/O error hits every call in turn. `MaxEvents` bounds
reentries of hook children. Token sizes are chosen so that a session reaches its
cap both by the pre-call projection and by the recorded turn. One pid shared by
two hooks is what reuse needs. Rings hold one or two entries so that they
overflow, by one and by two. In `Memory` the fourth call is what lets a prefetch
time out, one succeed and one time out again after the probe: the reset of the
degradation count decides there. Records the client does not ask for, and unfit
ones, are written while the ring fills only. The deadline and twice the execution delay lie within a second of each
other, since that is where rounding matters. `MaxImportDepth` is 2 instead of 8,
with three files, so chains below, at and above the limit exist. Deadlock
checking is off where a model stops when its requests are answered and its
bounds are spent; `Observe` never stops and checks it.

Fairness. Each is weak fairness of the continuation of one process: the event
loop runs every ready continuation, timers fire, the operating system answers
file calls, `runHook` kills a hook at its timeout, SIGKILL ends a process and
`awaitResponder` has a timeout too. Arrivals, failures, crashes, reentries, forced transitions, the operator's
and the adopter's doing have no fairness: a provider adapter that is not the
test double or the example may never answer, and a memory server need not. The
boot scan has it because `start-runner.ts` awaits it; distribution points have it
in `Startup`, where a hung fetch would hang boot for good (no timeout). In
`Observe` the client keeps polling; that the Runner becomes or stays ready is not
assumed but a premise of `CatchesUp`.

### Where the code and its words differ

`DecisionsResubmit` ends in a counterexample to a sentence of
`decisions-route.ts` (274-275): two requests on one session overlap, the later
writer drops the other's committed row, and its key is decided and audited a
second time. The other disagreements met while modelling are built into the
models and exempted in the properties:

* Decisions and resume. When the write that compensates a refused request fails,
  its row stays pending and the next resume commits it, while
  `decisions-route.ts` 1320-1323 says it is compensated. Two requests that pass
  admission together both emit SessionEnd (1354-1355 says the second pass does
  nothing). Of two overlapping hydrates the last bearer becomes canonical
  (`state-route.ts` 344-346 says the first). A hydrate that overlaps the scan
  replays a row the scan has committed (`resume.ts` 179 says MUST NOT). A
  replayed 201 emits no event (127-128 says both do). A session created with the
  memory service degraded gets SessionEnd and keeps its bearer
  (`sessions-route.ts` 461). The listener is open during the scan
  (`boot-scan.ts` 4). The state route rewrites the file when it hydrates
  (`state-route.ts` 4-5).
* Sink. In unreachable-halt the readiness check refuses ReadOnly requests too
  (`sink.ts` 11-13). `flushAndRecover` clears rows recorded during its ships, and
  the first recovery after a restart deletes the queue of the previous process
  unshipped; both wait for a caller, since nothing outside the tests calls
  `flushAndRecover`.
* Handlers. Two waiting escalations share one responder file, and one answer may
  decide both when emptying the file fails (`escalation.ts` 160-164 drops that
  error). A PDA an escalation ends with is accepted without a second look at its
  key. An unknown kid is
  taken as Interactive, though `escalation.ts` 20-21 says it MUST be enrolled. A
  pid is free when its process is reaped while `end` waits for the close event,
  so a new hook's guard may be dropped. Rows signed by a key after its revocation
  was seen are not flagged; a Prompt forced by a hook does not trigger the role
  gates.
* Dispatch. An invalid request and a cancellation seen between two attempts are
  answered without an audit row (`dispatcher.ts` 392-395 says one per dispatch).
  After a MessageEnd without a stop_reason a failing stream is closed by a second
  MessageEnd, and one that ends well is audited as NaturalStop, which was not on
  the wire. An adapter's own response may carry an error code without
  DispatcherError and the reverse (`types.ts` 114 says non-null iff).
  A second stream under a correlation id takes the registry entry, and whoever
  ends first removes it. An abort of an old UI loop marks a newer stream done.
* A2A. A repeated transfer takes an executing task back to accepted and undoes
  a `timed-out` that was already reported; the eager deadline timer sees that
  computed status as terminal and emits nothing. A junk deadline variable passes
  the collision guard (`server.ts` calls it fail-closed).
* Start-up. A failed boot is final: no timer starts, and `/crl/refresh` cannot
  complete it. `refreshAllNow` swallows errors, so `POST /crl/refresh` always
  reports success (`refresh-route.ts` promises to tell whether any failed). The
  revocation poller does not look at start. A denied tool name can come back
  through dynamic registration (`agents-md.ts` 8-12 says it cannot). A batch
  written between the watcher's read and its truncation is lost. The in-memory
  test-double adapter is served on a public listener once its confirmation
  variable is set: `start-runner.ts` 1139-1141 says it is LOOPBACK-ONLY and
  refused, 1155 looks at the variable only. `ListensOnlyIfVetted` therefore says
  no more than that the adapter is none or a confirmed one.
* Memory. Overlapping deletions in Zep and mem0 mint two tombstones; a restart
  makes them forget tombstones and names. The note counter is reset even if the
  consolidation fails (`consolidation-scheduler.ts` 221-222 says the next tick
  retries). A late success resets the degradation count. `mcp-client.ts` 159-161
  says the count rises with each failed memory call, falls to zero with each
  success, and that at the threshold any session that requires memory MUST end;
  `sessions-route.ts` 428-475 counts prefetches only and of their failures only
  timeouts, and ends the session of the prefetch that timed out, no other.
  `DegradedExact` states what the code does.
* Observe. In the merged list, an event of a smaller session id in the same
  millisecond as the client's anchor is never shown; an anchor may be retained
  while unread events of another session are gone (`emitter.ts` 104 says paging
  stays valid). A session's own bearer cannot read its SessionEnd. A client of
  `/audit/records` whose page ends on a row without an id is given that page again,
  and with pages too small to reach a row with an id it never passes it.

## 4. Proofs

`SessionPersisterProofs` proves for all sets of sessions and calls, any number
of crashes, POSIX and Windows:

* `TypeCorrect`, `ReadsAreWhole`, `AcksAreDurable` and `LockHolds` (from
  `LockExcludes` and `CallOrderKept`): the invariants of run `SessionPersister`;
* `Refinement`: the persister implements `SessionRegister`.

Assumed: `None` is neither a session nor a call, `WindowsSequence` is a Boolean,
`MaxCrashes` a natural number. The argument is one inductive invariant `Inv`.
None of the properties is inductive as stated: exclusion needs to know that
the unsettled calls of a session form a chain (`Chained`: the newest holds the
lock; every other but the oldest waits for an unsettled predecessor, and a
writing call's predecessor has settled), because the lock entry is overwritten
by every new call and deleted by the last. Call order needs that whoever has
yet to rename was called after everyone in the history (`Ordered`). Whole reads
need that only synced bytes are ever renamed (`Synced`), durability that a
renamed call is in the history its directory fsync hardens (`Placed`) and that
batches settle as one (`Grouped`). Each action has a lemma, with a step for
each conjunct; the theorems follow by temporal logic.

`DecisionsProofs`, for any requests, readers, sessions, settings, faults and
crashes: `TypeCorrect`, `CacheIsAudited`, `EndIsFinal`, `AnswersStand` (an action
property) and `SessionLives`. The invariant `Inv` follows an audit id through
every version of the rows of a session, the file and each process's private
copy (`Cached`): each was appended for this session and key (`Audited`), and, in
a session that may still decide, by this process (`Current`), which is what lets
a 201 repeat it. `Lined` says who waits in a write queue, `Bracketed` that a
request owns its row. The ends of a session need a second layer, `Ledger`: with
one request in flight, what has been charged, what is projected and the events
agree. `SessionLives` has the hypothesis `ProjectionCovers`, that a turn consumes
no more than its projection; `tracker.ts` 193-201 means it to, and without it a
budget can be overrun by a turn.

What a session file remembers is the third layer, `Remembering`
(`FilesRemember`), from which `DecisionsDurable`, `RefusalsWithdrawn` and
`ResubmitsReplay` (an action property) follow. Files are replaced whole by
private copies, so each part of it speaks of all *versions* of the rows: the
file's, and the copy of every process that will yet write (`Versions`). Every
version has the committed row of each request that committed (`Kept`), the
compensated row of each refused one (`Withdrawn`) and an answer for each key
answered (`Remembered`), and either all or none of them answer a request that
has yet to read the file (`Agreeing`), so it does not matter which copy lands
last. What keeps this is who may hold a copy: with careful clients a session
that decides has one request in flight (`Solo`), and no reader or scan works on
its file (`Quiet`). A later version `Extends` an earlier one.

The module proves besides, of the operators of `PermissionResolver` and without
assumptions:

* `CardOnlyTightens`: no card entry makes a decision milder than the default;
* `LessCapableDecidesStricter`: a smaller granted mode never gets a milder one;
* `ResolversAgree`: what the dispatching resolver allows, the query resolver
  answers with AutoAllow, or with Prompt and a PDA that says allow.

`RestartProofs`, of `Resume`, for any sessions, files, rows and readers: `ScanIsExact`,
`PhasesStick`, `DriftKept`, `CommittedKept` and both together
(`OnlyAllowedReplays`, three action properties). Each version of a file `Continues` what the restart
found: a row is as it was, or settled, and settled once. A resumer's copy has
settled the rows before its index (`Carried`), a session is to be scanned, under
the scan or judged (`Scanned`), and one that nobody hydrates is untouched but by
the scan (`Alone`), which makes its CrashEvent exact.

Of `Startup`, for any configurations, import graphs, anchors, lists, batches and
overlaps of refreshes: `ListenerVetted` and `ReadinessKept` (three action
properties). The invariant `StartInv` has a part for the refreshes, the life of
the process, its log and its tools. That no older list comes back unless
refreshes of one anchor overlapped needs that every list in hand was published
and is not older than the cached one (`CrlInv`); that a failed boot is final,
that no boot pass outlives the scan (`LifeInv`). A refusal is in the log unless
the ring has wrapped because a full ring stays full (`LogInv`, `PushAllKeeps`),
and the pool is sound because `addDynamic` keeps it so entry by entry
(`AddAllSound`). `Vetted` reads off what a configuration is like that no check of
`main()` refused. `WalkIs` is about the import walk alone, for any graph and any
limit: the files on its stack are never reached as deep as the file it is at
(`Above`), so a file met twice lies on a cycle, and a cycle makes chains of every
length. The recursive definitions involved (the ring, the pool, the walk, what n
imports reach) get their values from `Recursion`, which `CountUp`, induction for
sets of numbers, gives once for all.

`ReportingProofs`, of `Observe`, for any sessions, records, caps, limits, windows
and page sizes: `PagesHold` and `AnswersHold` (an action property). A client's
place is an anchor into a list that is filtered, sorted when it is merged, and
cut off in front while it pages. A ring is the end of all that was written for
its session (`Held`), and the filter commutes with appending (`KeptAppend`,
`KeptConcat`), so what was given so far and the page that follows it are
stretches of one list that meet (`Followed`, `Whole`), also the page that came
without a `next_after`, which begins where the anchor stands (`Loosely`). The merged list is each
retained record once, in order (`MergedFacts`, by counting how many records come
before each); a new record is later than every anchor but for ties (`TiesMissed`).
Spans come in pairs, and a ring that drops one by one splits at most the oldest
(`Paired`). `Limiting` relates the client's wait to the age of the oldest stamp
in the limiter's window. What the filter computes is a recursive function, whose
defining equation follows from `NatSet`, induction for sets of numbers, which is
derived from the well-foundedness of the naturals.

Of `AuditSink`, for any rows, transitions, failures and crashes: `RowsKept` and
`EventsTell`. The buffer is a part of the chain in its order (`BufferInOrder`); a
flush ships the front of the buffer and what joins behind it is late
(`Flushing`).

`HandlersProofs`, for any requests, pids, kids and times: `Handled`,
`FlaggedOnce` and `Signed` (an action property). The guard knows a hook from its
spawn to its close event, its death in between included (`Guarded`), and a
request that reaches the handlers has a hook that ended by itself (`Closed`). An
answer that decided is one the file no longer holds, unless it was kept.
Flags are exact because a flag refers to an earlier row (`Referred`) and the
rows a poll flags, a list of ascending indices picked by counting, holds each of
them once (`AscendingFacts`, from the theorems on finite sets).

`A2aHandoffProofs`, for any tasks, requests and tokens, any resolution of the
clock and any settings the collision guard lets pass: `TimersHold`, `EtagsRecent`,
`JtisExact` and `EndsHold` (an action property). Seconds are floors of ticks, so
the lemmas on `Sec` bound what a difference in seconds says about ticks. A
task's timers are a span from its first transfer (`Held`); a cached card was
fetched within one fetch of being served (`CardDates`), for overlapping fetches
too (`InTime`). `JtisExact` has the hypothesis `UniqueJtis`, that genuine tokens
have jtis of their own (RFC 7519 4.1.7; `a2a-jwt.test.ts` 62 draws them at
random): `register` overwrites, so of two tokens with one jti the later
verification may shorten how long the earlier is remembered.

`DispatchProofs`, for any dispatches and correlation ids, any retry budget and
ring, and an adapter that may do anything: `DispatchHeld`, `StreamsCancellable`,
`ChatSettled` and `CancelStops` (the safety half of `CancelIsFinal`, an action
property). `Fits` says stage by stage what calls and events a dispatch has had.
That the wire is readable needs `Follows`: the sequence checker's three flags and
the last MessageEnd are a summary of everything sent, the count of open blocks
and whether the end gave a reason included, for any verdicts an adapter may give. `Logged` makes a row refer to an answered dispatch and to no other row,
`Ringed` the ring the end of the chain reversed, and `Sharing` says when two
streams may hold one id. Every handler is shown to be one way to `Advance` one
dispatch (`Moves`, `Writes`, `Holds`), and that step to keep the invariant, so
what an adapter yields is looked at once (`YieldsAdvances`, `FinishAdvances`).

`MemoryProofs`, for any callers, ids, faults and restarts of each backend:
`NotesKept`, `RunnerCounts` and `ReadinessDecidedOnce` (the safety half of
`RunnerMovesOn`, an action property). A handler that awaits its service knows
what it read before: a search the names deleted when it began, a deletion the
uuid it resolved (`Placed`). That survives whatever other calls do meanwhile
because a server only `Grows`, no tombstone and no uuid is taken back; a restart
ends all calls. One tombstone needs that a name that is not `crossed` has a
single deletion under way (`Lone`). `Scheduled` ties the scheduler's clock to the
start of the run that succeeded last as long as no two overlapped; `Tracked` is
about the log of prefetches, whose timeouts since the last success are a
cardinality that each outcome changes by one. Every handler is one way to
`Settle` or `Close` one call, so a step is looked at once for all that others
rely on.

Assumed of the constants, in `ASSUME`s that TLC evaluates: `None` and `Missing`
differ from what they stand in for, numbers among it, and `Foreign`, the id of another client's
note, from these and from uuids; bounds are natural numbers, seconds have at
least a tick, a card's time to live is positive, timers are late by at most a
second, a limiter's window is whole seconds, unfit types are types, a
configuration names anchors, tools and documents that there are and an adapter
setting the code distinguishes, and no batch of tools is the truncated file.

Only model-checked: all liveness (the prover does not handle fairness), and what
`KeepsUp`, `CancelIsFinal`, `RunnerMovesOn` and their like say beside the safety
halves above.

## 5. Not modelled, and what is left

Left out for good: cryptography (JWS, canonical JSON, digests), schema
validation, response layout, logging and markers, HTTP wiring and TLS,
scaffolding and one-shot commands, rendering, generated validators, the LangGraph
adapter (a one-pass translation of a third-party event stream that the Runner
does not use), and subject suppression, whose list no other code reads.

Hazards of the code that no property is stated for: overlapping calls of
`flushAndRecover`; a restart with rows in the
sink's pending directory (they are deleted unshipped, see above); escalation
outcomes and residency refusals, which reach the chain without the sink
(`decisions-route.ts` 847); a turn recorded after its session was terminated,
which re-creates the removed budget state (`budget/tracker.ts` 125). The code says
nowhere what should happen in the last two.

What is worth doing next:

1. The percentile over turns of different sizes in the budget tracker.
2. A composition of `Decisions` with `AuditSink`, for rows that reach the chain
   without the sink.
