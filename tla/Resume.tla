-------------------------------- MODULE Resume -------------------------------
(***************************************************************************)
(* Crash recovery after a restart: the resume algorithm (session/resume.ts) *)
(* row by row, the boot scan that runs it over the session directory       *)
(* (session/boot-scan.ts, bin/start-runner.ts) and the lazy hydrate of     *)
(* GET /sessions/:id/state (session/state-route.ts) that runs it at the    *)
(* same time.  A behaviour starts where a crash has left the files.        *)
(*                                                                         *)
(* A write lands in one step, in any order: the copy of a writer is private *)
(* while it waits for the session's write lock.                            *)
(***************************************************************************)
EXTENDS SideEffects, FiniteSets

CONSTANTS Sessions,      \* ids of session files
          Readers,       \* GET /sessions/:id/state calls
          Scanner,       \* the boot scan
          Files,         \* the files a crash may leave, a subset of FileType
          Keys,          \* idempotency keys of the rows
          Compensable,   \* keys of rows whose tool can compensate
          None,          \* no session, no key, no outcome
          MaxCrashes, MaxErrors,  \* bounds
          MaxTogether             \* bound: crashes, errors and hydrates together

Procs == Readers \cup {Scanner}

RowType == [key : Keys, phase : Phases, aud : {NoAudit}]

FileType == [format : {"ok", "corrupt", "invalid"},  \* readable, and of the schema
             status : {"Planning", "Succeeded", "Failed"},
             card   : {"served", "drifted"},         \* card_version
             pool   : {"served", "stale"},           \* tool_pool_hash
             rows   : Seq(RowType)]

ASSUME FilesAssumption == Files \subseteq FileType
ASSUME ScannerAssumption == Scanner \notin Readers /\ Compensable \subseteq Keys
ASSUME OutcomeAssumption ==
  None \notin {"resumed", "skipped-terminal", "failed-read", "failed-resume", "failed-io"}
ASSUME ResumeBounds == {MaxCrashes, MaxErrors, MaxTogether} \subseteq Nat

VARIABLES file,      \* the session files
          proc,      \* every process: where it stands and its local variables
          run,       \* "scanning", "serving" or "exited"
          todo,      \* sessions the scan has still to look at
          outcome,   \* the scan's outcome of each session
          pre,       \* the scan's snapshot before the resume: last committed key
          reports,   \* CrashEvents emitted: session and last_committed_event_id
          replays,   \* calls of replayPending since the restart, per session and row
          store,     \* InMemorySessionStore: the bearer of each session
          boot,      \* history: the files this process found
          crashes, errors   \* history

counters == <<crashes, errors>>
vars == <<file, proc, run, todo, outcome, pre, reports, replays, store, boot, counters>>

Idle == [pc |-> "idle", sid |-> None, copy |-> None, i |-> 0, acted |-> FALSE]
Positions == UNION {DOMAIN f.rows : f \in Files}
NoReplays == [s \in Sessions |-> [j \in Positions |-> 0]]

Terminal == {"Succeeded", "Failed"}

Start(f) ==
  /\ file = f
  /\ boot = f
  /\ proc = [p \in Procs |-> Idle]
  /\ run = "scanning"
  /\ todo = Sessions
  /\ outcome = [s \in Sessions |-> None]
  /\ pre = None
  /\ reports = {}
  /\ replays = NoReplays
  /\ store = [s \in Sessions |-> None]

Init == \E f \in [Sessions -> Files] : Start(f) /\ crashes = 0 /\ errors = 0

MayDisturb ==
  crashes + errors + Cardinality({x \in Readers : proc[x].pc # "idle"}) < MaxTogether
ErrorHappens == errors < MaxErrors /\ MayDisturb /\ errors' = errors + 1
OpenRows(f) == {j \in DOMAIN f.rows : f.rows[j].phase \in Open}

(* buildCrashEventPayload: the key of the last row that is committed. *)
LastCommitted(f) ==
  LET done == {j \in DOMAIN f.rows : f.rows[j].phase = "committed"} IN
  IF done = {} THEN None ELSE f.rows[Max(done)].key

(* What readSessionForResume and steps 1 to 3 of resumeSession find. *)
Verdict(f) ==
  CASE f.format # "ok"     -> "failed-read"
    [] f.format = "ok" /\ f.card = "drifted" -> "drift"
    [] f.format = "ok" /\ f.card = "served" /\ f.pool = "stale" -> "failed-resume"
    [] OTHER -> "resumed"
-----------------------------------------------------------------------------
ScanReadStops(s) ==
  LET f == file[s] IN
  /\ run = "scanning" /\ s \in todo /\ proc[Scanner].pc = "idle"
  /\ \/ /\ f.format = "corrupt"
        /\ todo' = {}
        /\ outcome' = [outcome EXCEPT ![s] = "failed-read"]
        /\ UNCHANGED <<proc, pre>>
     \/ /\ f.format # "corrupt" /\ f.status \in Terminal
        /\ todo' = todo \ {s}
        /\ outcome' = [outcome EXCEPT ![s] = "skipped-terminal"]
        /\ UNCHANGED <<proc, pre>>
     \/ /\ f.format # "corrupt" /\ f.status \notin Terminal
        /\ todo' = todo \ {s}
        /\ proc' = [proc EXCEPT ![Scanner] = [Idle EXCEPT !.pc = "read", !.sid = s]]
        /\ pre' = LastCommitted(f)
        /\ UNCHANGED outcome
  /\ UNCHANGED <<file, run, reports, replays, store, boot, counters>>

(* The scan's loop body up to resumeSession: an unreadable file fails, a
   terminal one is skipped, any other is resumed. *)
ScanRead(s) ==
  LET f == file[s] IN
  /\ run = "scanning" /\ s \in todo /\ proc[Scanner].pc = "idle"
  /\ todo' = todo \ {s}
  /\ \/ /\ f.format = "corrupt"
        /\ outcome' = [outcome EXCEPT ![s] = "failed-read"]
        /\ UNCHANGED <<proc, pre>>
     \/ /\ f.format # "corrupt" /\ f.status \in Terminal
        /\ outcome' = [outcome EXCEPT ![s] = "skipped-terminal"]
        /\ UNCHANGED <<proc, pre>>
     \/ /\ f.format # "corrupt" /\ f.status \notin Terminal
        /\ proc' = [proc EXCEPT ![Scanner] = [Idle EXCEPT !.pc = "read", !.sid = s]]
        /\ pre' = LastCommitted(f)
        /\ UNCHANGED outcome
  /\ UNCHANGED <<file, run, reports, replays, store, boot, counters>>

(* The first read of the scan throws an I/O error: not one of the hard reasons. *)
ScanReadFails(s) ==
  /\ run = "scanning" /\ s \in todo /\ proc[Scanner].pc = "idle"
  /\ ErrorHappens
  /\ todo' = todo \ {s}
  /\ outcome' = [outcome EXCEPT ![s] = "failed-io"]
  /\ UNCHANGED <<file, proc, run, pre, reports, replays, store, boot, crashes>>

(* GET /sessions/:id/state on a session the store does not know. *)
Hydrate(x, s) ==
  /\ MayDisturb
  /\ run # "exited"
  /\ proc[x].pc = "idle"
  /\ store[s] = None
  /\ proc' = [proc EXCEPT ![x] = [Idle EXCEPT !.pc = "read", !.sid = s]]
  /\ UNCHANGED <<file, run, todo, outcome, pre, reports, replays, store, boot, counters>>

(* resumeSession throws: an outcome of the scan (after CardVersionDrift the file
   is marked Failed first), or a 4xx/5xx of the reader. *)
Throw(p, what) ==
  IF p = Scanner
  THEN /\ outcome' = [outcome EXCEPT ![proc[p].sid] = IF what = "drift" THEN "failed-resume" ELSE what]
       /\ proc' = [proc EXCEPT ![p] = IF what = "drift" THEN [@ EXCEPT !.pc = "mark"] ELSE Idle]
  ELSE /\ proc' = [proc EXCEPT ![p].pc = "rejected", ![p].copy = None]
       /\ UNCHANGED outcome

(* Steps 1 to 3: read the file, check format, card_version and tool_pool_hash. *)
ResumeRead(p) ==
  LET f == file[proc[p].sid] IN
  /\ proc[p].pc = "read"
  /\ IF Verdict(f) = "resumed"
     THEN /\ proc' = [proc EXCEPT ![p].pc = "rows", ![p].copy = f, ![p].i = 1]
          /\ UNCHANGED outcome
     ELSE Throw(p, Verdict(f))
  /\ UNCHANGED <<file, run, todo, pre, reports, replays, store, boot, counters>>

SettleEveryRow(p) ==
  LET i == proc[p].i
      row == proc[p].copy.rows[i]
  IN
  /\ proc[p].pc = "rows"
  /\ i <= Len(proc[p].copy.rows)
  /\ proc' = [proc EXCEPT ![p].i = i + 1,
                          ![p].copy.rows[i] = ResumeRow(@),
                          ![p].acted = @ \/ row.phase \in Open]
  /\ replays' = IF row.phase # "inflight"
                  THEN [replays EXCEPT ![proc[p].sid][i] = @ + 1] ELSE replays
  /\ UNCHANGED <<file, run, todo, outcome, pre, reports, store, boot, counters>>

(* readSessionForResume throws an I/O error inside resumeSession. *)
ResumeReadFails(p) ==
  /\ proc[p].pc = "read"
  /\ ErrorHappens
  /\ Throw(p, "failed-resume")
  /\ UNCHANGED <<file, run, todo, pre, reports, replays, store, boot, crashes>>

(* Step 4 on one row, up to its await: a pending row is replayed with its key,
   an inflight row compensated; terminal rows are skipped. *)
SettleRow(p) ==
  LET i == proc[p].i
      row == proc[p].copy.rows[i]
  IN
  /\ proc[p].pc = "rows"
  /\ i <= Len(proc[p].copy.rows)
  /\ proc' = [proc EXCEPT ![p].i = i + 1,
                          ![p].copy.rows[i] = ResumeRow(@),
                          ![p].acted = @ \/ row.phase \in Open]
  /\ replays' = IF row.phase = "pending"
                  THEN [replays EXCEPT ![proc[p].sid][i] = @ + 1] ELSE replays
  /\ UNCHANGED <<file, run, todo, outcome, pre, reports, store, boot, counters>>

(* ctx.replayPending or ctx.compensate throws; the error leaves resumeSession. *)
SettleFails(p) ==
  LET row == proc[p].copy.rows[proc[p].i] IN
  /\ proc[p].pc = "rows"
  /\ proc[p].i <= Len(proc[p].copy.rows)
  /\ row.phase = "pending" \/ (row.phase = "inflight" /\ row.key \in Compensable)
  /\ ErrorHappens
  /\ Throw(p, "failed-resume")
  /\ UNCHANGED <<file, run, todo, pre, reports, replays, store, boot, crashes>>

Settled(p) == proc[p].pc = "rows" /\ proc[p].i > Len(proc[p].copy.rows)

(* writeSession of the settled copy. *)
ResumeWrite(p) ==
  /\ Settled(p)
  /\ file' = [file EXCEPT ![proc[p].sid] = proc[p].copy]
  /\ proc' = [proc EXCEPT ![p].pc = "resumed", ![p].copy = None]
  /\ UNCHANGED <<run, todo, outcome, pre, reports, replays, store, boot, counters>>

ResumeWriteFails(p) ==
  /\ Settled(p)
  /\ ErrorHappens
  /\ file' = file \/ file' = [file EXCEPT ![proc[p].sid] = proc[p].copy]
  /\ Throw(p, "failed-resume")
  /\ UNCHANGED <<run, todo, pre, reports, replays, store, boot, crashes>>

ScanResumedAfter ==
  LET s == proc[Scanner].sid IN
  /\ proc[Scanner].pc = "resumed"
  /\ outcome' = [outcome EXCEPT ![s] = "resumed"]
  /\ reports' = IF proc[Scanner].acted
                  THEN reports \cup {[sid |-> s, last |-> LastCommitted(file[s])]} ELSE reports
  /\ proc' = [proc EXCEPT ![Scanner] = Idle]
  /\ UNCHANGED <<file, run, todo, pre, replays, store, boot, counters>>

(* Back in the scan: the outcome, and a CrashEvent when a bracket was open. *)
ScanResumed ==
  LET s == proc[Scanner].sid IN
  /\ proc[Scanner].pc = "resumed"
  /\ outcome' = [outcome EXCEPT ![s] = "resumed"]
  /\ reports' = IF proc[Scanner].acted THEN reports \cup {[sid |-> s, last |-> pre]} ELSE reports
  /\ proc' = [proc EXCEPT ![Scanner] = Idle]
  /\ UNCHANGED <<file, run, todo, pre, replays, store, boot, counters>>

(* Back in the hydrate: the presented bearer is registered. *)
Register(x) ==
  /\ proc[x].pc = "resumed"
  /\ store' = [store EXCEPT ![proc[x].sid] = x]
  /\ proc' = [proc EXCEPT ![x].pc = "served"]
  /\ UNCHANGED <<file, run, todo, outcome, pre, reports, replays, boot, counters>>

(* markSessionFailedOnDisk: read again, then write with status Failed; a failure
   of either is logged and the scan goes on. *)
MarkRead ==
  /\ proc[Scanner].pc = "mark"
  /\ proc' = [proc EXCEPT ![Scanner].pc = "marking",
                          ![Scanner].copy = [file[proc[Scanner].sid] EXCEPT !.status = "Failed"]]
  /\ UNCHANGED <<file, run, todo, outcome, pre, reports, replays, store, boot, counters>>

MarkWrite ==
  /\ proc[Scanner].pc = "marking"
  /\ file' = [file EXCEPT ![proc[Scanner].sid] = proc[Scanner].copy]
  /\ proc' = [proc EXCEPT ![Scanner] = Idle]
  /\ UNCHANGED <<run, todo, outcome, pre, reports, replays, store, boot, counters>>

MarkFails ==
  /\ proc[Scanner].pc \in {"mark", "marking"}
  /\ ErrorHappens
  /\ proc' = [proc EXCEPT ![Scanner] = Idle]
  /\ UNCHANGED <<file, run, todo, outcome, pre, reports, replays, store, boot, crashes>>

(* The scan is over: an incompatible file closes the listener and the process. *)
ScanDone ==
  /\ run = "scanning" /\ todo = {} /\ proc[Scanner].pc = "idle"
  /\ run' = IF \E s \in Sessions : outcome[s] = "failed-read" THEN "exited" ELSE "serving"
  /\ UNCHANGED <<file, proc, todo, outcome, pre, reports, replays, store, boot, counters>>

(* The process dies once more; a write that was under way may have landed. *)
Crash ==
  /\ crashes < MaxCrashes /\ MayDisturb
  /\ run # "exited"
  /\ crashes' = crashes + 1
  /\ \E P \in SUBSET {p \in Procs : Settled(p)} :
       /\ \A p, q \in P : proc[p].sid = proc[q].sid => p = q
       /\ file' = [s \in Sessions |->
                     IF \E p \in P : proc[p].sid = s
                       THEN proc[CHOOSE p \in P : proc[p].sid = s].copy ELSE file[s]]
  /\ boot' = file'
  /\ proc' = [p \in Procs |-> Idle]
  /\ run' = "scanning" /\ todo' = Sessions
  /\ outcome' = [s \in Sessions |-> None]
  /\ pre' = None /\ reports' = {} /\ replays' = NoReplays
  /\ store' = [s \in Sessions |-> None]
  /\ UNCHANGED errors

Progress(p) == ResumeRead(p) \/ SettleRow(p) \/ ResumeWrite(p)
ScanStep ==
  \/ \E s \in Sessions : ScanRead(s)
  \/ Progress(Scanner) \/ ScanResumed \/ MarkRead \/ MarkWrite \/ ScanDone

Next ==
  \/ ScanStep
  \/ \E s \in Sessions : ScanReadFails(s)
  \/ \E x \in Readers, s \in Sessions : Hydrate(x, s)
  \/ \E x \in Readers : Progress(x) \/ Register(x)
  \/ \E p \in Procs : ResumeReadFails(p) \/ SettleFails(p) \/ ResumeWriteFails(p)
  \/ MarkFails
  \/ Crash

(* start-runner awaits the scan: its continuations run. *)
Spec == Init /\ [][Next]_vars
FairSpec == Spec /\ WF_vars(ScanStep)
-----------------------------------------------------------------------------
TypeOK ==
  /\ file \in [Sessions -> FileType]
  /\ \A p \in Procs : /\ proc[p].pc \in {"idle", "read", "rows", "resumed", "mark", "marking",
                                        "served", "rejected"}
                      /\ proc[p].copy \in FileType \cup {None}
                      /\ proc[p].pc = "rows" => proc[p].i \in 1..(Len(proc[p].copy.rows) + 1)
  /\ run \in {"scanning", "serving", "exited"}
  /\ outcome \in [Sessions -> {None, "resumed", "skipped-terminal", "failed-read",
                               "failed-resume", "failed-io"}]
  /\ store \in [Sessions -> Readers \cup {None}]
  /\ replays \in [Sessions -> [Positions -> Nat]]

(* resume.ts 13-20: no overlap of scan, hydrates and crashes takes a row out of a
   terminal phase: what is committed stays committed, what is compensated stays
   compensated. *)
TerminalPhasesStick ==
  [][\A s \in Sessions : \A j \in DOMAIN file[s].rows :
       file[s].rows[j].phase \notin Open => file'[s].rows[j] = file[s].rows[j]]_vars

(* resume.ts 7-10: a session of another card or tool pool is never replayed and
   keeps its rows. *)
DriftNeverReplays ==
  [][\A s \in Sessions : file[s].card = "drifted" \/ file[s].pool = "stale" =>
       file'[s].rows = file[s].rows /\ (crashes' = crashes => replays'[s] = replays[s])]_vars

(* Sessions that a GET has begun to hydrate in this process. *)
Hydrated == {proc[x].sid : x \in {r \in Readers : proc[r].pc # "idle"}}

(* boot-scan.ts 142-146 and 158-162: of the sessions nobody hydrates, a CrashEvent
   reports exactly the resumed ones that had an open bracket at the restart, with
   the last key committed by then, however busy the other sessions are. *)
CrashReported ==
  run = "serving" =>
    {e \in reports : e.sid \notin Hydrated} =
      {[sid |-> s, last |-> LastCommitted(boot[s])] :
         s \in {t \in Sessions \ Hydrated : outcome[t] = "resumed" /\ OpenRows(boot[t]) # {}}}

(* boot-scan.ts 369-371: traffic is served after the scan only when every file was
   well formed and of the schema, or skipped as terminal, or an I/O error kept the
   scan from looking into it and is its outcome. *)
ServesOnlyValid ==
  run = "serving" => \A s \in Sessions :
    boot[s].format = "ok" \/ boot[s].status \in Terminal
      \/ outcome[s] \in {"failed-io", "failed-resume"}

(* resume.ts 179, HR-05: a row that was committed when the process started is not
   replayed, whoever resumes the session; one that was committed since is replayed
   only when the scan and a hydrate overlap. *)
CommittedNotReplayed ==
  [][\A s \in Sessions : \A j \in DOMAIN file[s].rows :
       /\ file[s].rows[j].phase = "committed"
       /\ boot[s].rows[j].phase = "committed" \/ s \notin Hydrated
       => replays'[s][j] <= replays[s][j]]_vars

(* boot-scan.ts 16-18: the scan ends, and by then every resumable session it met
   has its brackets closed, whatever the other files look like and however hydrates
   overlap, unless an I/O error stopped its resume. *)
BracketsClose ==
  \A s \in Sessions :
    run = "scanning" /\ Verdict(file[s]) = "resumed" /\ file[s].status \notin Terminal
      ~> run # "scanning" /\ (OpenRows(file[s]) = {} \/ errors > 0)

(* boot-scan.ts 142-162 and 369-371, what the scan has established when traffic is
   served: its reports are exact and every file was one it may serve. *)
ScanInv == TypeOK /\ CrashReported /\ ServesOnlyValid

(* resume.ts 7-10 and 179: no side effect is replayed that must not be. *)
ReplaysAllowed == DriftNeverReplays /\ CommittedNotReplayed
=============================================================================
