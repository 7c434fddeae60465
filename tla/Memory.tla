------------------------------- MODULE Memory -------------------------------
(***************************************************************************)
(* Memory: the Runner's client of a Memory MCP server (startup probe,      *)
(* prefetch at session creation, degradation tracker, consolidation        *)
(* scheduler) and the four servers it may find at the other end.  The mock *)
(* keeps notes in memory and the SQLite backend in a database; the Zep and *)
(* mem0 backends keep ids and tombstones in memory and the notes in a      *)
(* service they await, so that their handlers interleave.  A call has a    *)
(* caller's side, which gives up after a timeout, and a handler, which     *)
(* does not know.                                                          *)
(***************************************************************************)
EXTENDS Integers, Sequences, FiniteSets

CONSTANTS
    Kinds,          \* backends: of {"mock", "sqlite", "zep", "mem0"}
    Callers,        \* connections, each with at most one call
    Ids, Seed,      \* note ids, and the one the seed corpus holds
    Foreign,        \* a note in the service that this server did not write
    None,
    Threshold,      \* timeouts in a row that degrade
    MaxAttempts,    \* of the startup probe
    Interval,       \* of consolidation, in clock units
    NoteThreshold,  \* notes that trigger consolidation
    Faults,         \* what the server may be told to inject: hang, the value of
                    \* TIMEOUT_AFTER_N_CALLS or -1, and error, of RETURN_ERROR or None
    MaxCalls,       \* bound on calls and restarts together, for each kind
    MaxDocs, MaxClock, MaxRestarts  \* bounds

ASSUME MemoryAssumption ==
    /\ Kinds \subseteq {"mock", "sqlite", "zep", "mem0"}
    /\ Seed \in Ids /\ Foreign \notin Ids
    /\ Foreign # None /\ Foreign \notin 1..MaxDocs /\ None \notin Nat
    /\ {Threshold, MaxAttempts, Interval, NoteThreshold} \subseteq Nat \ {0}
    /\ MaxCalls \in [Kinds -> Nat] /\ {MaxDocs, MaxClock, MaxRestarts} \subseteq Nat
    /\ \A f \in Faults : f.hang \in Nat \cup {-1}

Docs == 1..MaxDocs

\* What a client may call a note: its id, or the hash of the document's uuid
\* when the server has no id for it.
Names == Ids \cup Docs

Searches == {"prefetch", "probe"}
RunnerOps == Searches \cup {"consolidate"}
Remote == {"zep", "mem0"}

VARIABLES
    kind, fault,    \* how the server was started
    recs,       \* the server's notes: "none", "seed", "new" or "old" (consolidated)
    tomb,       \* tombstone of each name, 0 for none
    docs,       \* the service's documents: content by uuid, or None
    nDocs,      \* uuids given out
    nameOf,     \* extByUuid
    uuidOf,     \* uuidByExt, 0 for none
    primed,     \* Zep's push of the seed: None before it, the uuid while its
                \* answer is on the way, 0 when it is over
    served,     \* callCount
    job,        \* the calls
    calls, tombs, restarts, clock,
    ready,      \* MemoryReadinessProbe
    attempts,
    fails,      \* MemoryDegradationTracker
    log,        \* outcomes of the prefetches, each with "ended" or not
    inContext,  \* in_context_notes the last prefetch recorded, as content
    lastRun, noteCount,
    \* history
    gone,       \* names whose deletion was answered
    kept,       \* ids whose addition was answered and nobody deleted
    told,       \* tombstones answered for each name
    crossed,    \* names of which two deletions overlapped
    runs        \* of consolidation: ok, the start of the newest that succeeded;
                \* overlap, two were under way; early, an elapsed one came early

server == <<kind, fault>>
service == <<docs, nDocs>>
local == <<nameOf, uuidOf, primed>>
store == <<recs, tomb, service, local>>
runner == <<ready, attempts, fails, log, inContext, lastRun, noteCount>>
history == <<gone, kept, told, crossed, runs>>
vars == <<server, store, served, job, calls, tombs, restarts, clock, runner, history>>

Idle == [op |-> "none", waiting |-> FALSE]

\* The environment the server was started in.
StartedWith == kind \in Kinds /\ fault \in Faults

SeedRecs == [x \in Names |-> IF x = Seed THEN "seed" ELSE "none"]

\* The Runner boots beside a server that has been seeded; the service of Zep
\* or mem0 holds a document of somebody else's.
Init ==
    /\ StartedWith
    /\ recs = SeedRecs
    /\ tomb = [x \in Names |-> 0]
    /\ docs = [u \in Docs |-> IF u = 1 /\ kind \in Remote THEN [id |-> Foreign, sens |-> TRUE] ELSE None]
    /\ nDocs = (IF kind \in Remote THEN 1 ELSE 0)
    /\ nameOf = [u \in Docs |-> None]
    /\ uuidOf = [x \in Names |-> 0]
    /\ primed = (IF kind = "zep" THEN None ELSE 0)
    /\ served = 0
    /\ job = [c \in Callers |-> Idle]
    /\ calls = 0 /\ tombs = 0 /\ restarts = 0 /\ clock = 0
    /\ ready = "pending" /\ attempts = 0 /\ fails = 0 /\ log = <<>> /\ inContext = {}
    /\ lastRun = 0 /\ noteCount = 0
    /\ gone = {} /\ kept = {} /\ told = [x \in Names |-> {}] /\ crossed = {}
    /\ runs = [ok |-> 0, overlap |-> FALSE, early |-> FALSE]

-----------------------------------------------------------------------------
(* Calls.                                                                  *)

\* postJson(): the request is on its way, the timer is set.  Any free
\* connection does.
Call(c, op, x, sens) ==
    /\ job[c].op = "none" /\ c = (CHOOSE d \in Callers : job[d].op = "none")
    /\ calls + restarts < MaxCalls[kind]
    /\ calls' = calls + 1
    /\ job' = [job EXCEPT ![c] =
                 [op |-> op, x |-> x, sens |-> sens, at |-> "sent", waiting |-> TRUE,
                  res |-> None, hits |-> {}, gone |-> {}, uuid |-> 0,
                  ranAt |-> IF op = "consolidate" THEN clock ELSE 0]]

Tool(op) == IF op \in Searches THEN "search" ELSE op

Answer(c, res, hits) ==
    job' = [job EXCEPT ![c] =
              IF job[c].waiting THEN [job[c] EXCEPT !.at = "answered", !.res = res, !.hits = hits]
              ELSE Idle]

Suspend(c, at) == job' = [job EXCEPT ![c].at = at, ![c].gone = gone]

\* A handler starts: it hangs for good when the fault injection says so, and
\* its tool may be the one that answers an error.
Handles(c, op) == job[c].op # "none" /\ job[c].at = "sent" /\ Tool(job[c].op) = op

Hangs == fault.hang >= 0 /\ served >= fault.hang

HandlerHangs(c) ==
    /\ job[c].op # "none" /\ job[c].at = "sent" /\ Hangs
    /\ job' = [job EXCEPT ![c] = IF @.waiting THEN [@ EXCEPT !.at = "lost"] ELSE Idle]
    /\ UNCHANGED <<server, store, served, calls, tombs, restarts, clock, runner, history>>

HandlerFails(c) ==
    /\ job[c].op # "none" /\ job[c].at = "sent" /\ ~Hangs /\ Tool(job[c].op) = fault.error
    /\ served' = served + 1
    /\ Answer(c, "error", {})
    /\ UNCHANGED <<server, store, calls, tombs, restarts, clock, runner, history>>

Starts(c, op) ==
    /\ Handles(c, op) /\ ~Hangs /\ fault.error # op
    /\ served' = served + 1
    /\ UNCHANGED <<server, calls, restarts, clock, runner>>

\* Leaves of the handlers: nothing stored, nothing learnt.
Nothing == UNCHANGED <<store, tombs, history>>

-----------------------------------------------------------------------------
(* The mock: search_memories looks at the seed corpus only.                *)

AnswerHits(c, seen) ==
    job' = [job EXCEPT ![c] =
              IF @.waiting
              THEN [@ EXCEPT !.at = "answered", !.res = "ok", !.gone = gone,
                             !.hits = {[name |-> x, id |-> x, sens |-> FALSE] : x \in seen}]
              ELSE Idle]

Corpus == {x \in Names : recs[x] = "seed" /\ tomb[x] = 0}

MockSearch(c) == kind = "mock" /\ Starts(c, "search") /\ Nothing /\ AnswerHits(c, Corpus)

\* search_memories_by_time, which the Runner does not call.
MockByTime(c) == kind = "mock" /\ Starts(c, "bytime") /\ Nothing /\ AnswerHits(c, Corpus)

Wrote(x) == kept' = kept \cup {y \in {x} : tomb[y] = 0}

\* add_memory_note: a known id is answered as it is; any data class is taken.
MockAdd(c) ==
    LET x == job[c].x IN
    /\ kind = "mock" /\ Starts(c, "add")
    /\ recs' = [recs EXCEPT ![x] = IF @ = "none" THEN "new" ELSE @]
    /\ Wrote(x)
    /\ Answer(c, "ok", {})
    /\ UNCHANGED <<tomb, service, local, tombs, gone, told, crossed, runs>>

\* read_memory_note does not look at the tombstones.
MockRead(c) ==
    /\ kind = "mock" /\ Starts(c, "read") /\ Nothing
    /\ Answer(c, IF recs[job[c].x] # "none" THEN "ok" ELSE "error", {})

\* consolidate_memories forgets what was written.
MockConsolidate(c) ==
    /\ kind = "mock" /\ Starts(c, "consolidate")
    /\ recs' = [x \in Names |-> IF recs[x] = "new" THEN "none" ELSE recs[x]]
    /\ kept' = {x \in kept : recs[x] # "new"}
    /\ Answer(c, "ok", {})
    /\ UNCHANGED <<tomb, service, local, tombs, gone, told, crossed, runs>>

Buried(x, n) ==
    /\ tomb' = [tomb EXCEPT ![x] = n]
    /\ tombs' = tombs + 1
    /\ told' = [told EXCEPT ![x] = @ \cup {n}]

\* delete_memory_note: the tombstone there is, or a new one for a known id.
AlreadyBuried(c) ==
    LET x == job[c].x IN
    /\ tomb[x] # 0
    /\ Answer(c, "ok", {})
    /\ gone' = gone \cup {x}
    /\ told' = [told EXCEPT ![x] = @ \cup {tomb[x]}]
    /\ UNCHANGED <<store, tombs, kept, crossed, runs>>

Unknown(c) == Answer(c, "error", {}) /\ Nothing

MockDelete(c) ==
    LET x == job[c].x IN
    /\ kind = "mock" /\ Starts(c, "delete")
    /\ \/ AlreadyBuried(c)
       \/ tomb[x] = 0 /\ recs[x] = "none" /\ Unknown(c)
       \/ /\ tomb[x] = 0 /\ recs[x] # "none"
          /\ Buried(x, tombs + 1)
          /\ recs' = [recs EXCEPT ![x] = IF @ = "new" THEN "none" ELSE @]
          /\ gone' = gone \cup {x} /\ kept' = kept \ {x}
          /\ Answer(c, "ok", {})
          /\ UNCHANGED <<service, local, crossed, runs>>

-----------------------------------------------------------------------------
(* SQLite.                                                                 *)

LiveRows == {x \in Names : recs[x] # "none" /\ tomb[x] = 0}

\* The rows are read, then the scorer is awaited.
SqliteSearch(c) ==
    /\ kind = "sqlite" /\ Starts(c, "search") /\ Nothing
    /\ job' = [job EXCEPT ![c].at = "scoring", ![c].gone = gone,
                          ![c].hits = {[name |-> x, id |-> x, sens |-> FALSE] : x \in LiveRows}]

\* The embedding model may fail to load or to run: a 500.
SqliteScored(c) ==
    /\ job[c].op # "none" /\ job[c].at = "scoring"
    /\ Answer(c, "ok", job[c].hits) \/ Answer(c, "error", {})
    /\ Nothing /\ UNCHANGED <<server, served, calls, restarts, clock, runner>>

SqliteByTime(c) == kind = "sqlite" /\ Starts(c, "bytime") /\ Nothing /\ AnswerHits(c, LiveRows)

\* A data class the table's CHECK does not know makes the insert throw.
SqliteAdd(c) ==
    LET x == job[c].x IN
    /\ kind = "sqlite" /\ Starts(c, "add")
    /\ \/ /\ recs[x] # "none" \/ ~job[c].sens
          /\ recs' = [recs EXCEPT ![x] = IF @ = "none" THEN "new" ELSE @]
          /\ Wrote(x)
          /\ Answer(c, "ok", {})
          /\ UNCHANGED <<tomb, service, local, tombs, gone, told, crossed, runs>>
       \/ recs[x] = "none" /\ job[c].sens /\ Unknown(c)

SqliteRead(c) ==
    /\ kind = "sqlite" /\ Starts(c, "read") /\ Nothing
    /\ Answer(c, IF job[c].x \in LiveRows THEN "ok" ELSE "error", {})

SqliteConsolidate(c) ==
    /\ kind = "sqlite" /\ Starts(c, "consolidate")
    /\ recs' = [x \in Names |-> IF recs[x] = "new" THEN "old" ELSE recs[x]]
    /\ Answer(c, "ok", {})
    /\ UNCHANGED <<tomb, service, local, tombs, history>>

SqliteDelete(c) ==
    LET x == job[c].x IN
    /\ kind = "sqlite" /\ Starts(c, "delete")
    /\ \/ AlreadyBuried(c)
       \/ tomb[x] = 0 /\ recs[x] = "none" /\ Unknown(c)
       \/ /\ tomb[x] = 0 /\ recs[x] # "none"
          /\ Buried(x, tombs + 1)
          /\ gone' = gone \cup {x} /\ kept' = kept \ {x}
          /\ Answer(c, "ok", {})
          /\ UNCHANGED <<recs, service, local, crossed, runs>>

-----------------------------------------------------------------------------
(* Zep and mem0: the service is awaited in search, add and delete.         *)

\* search_memories: no answer is made up of what is known here.
ZepSearch(c) == kind = "zep" /\ Starts(c, "search") /\ Nothing /\ Suspend(c, "service")

Mem0Search(c) == kind = "mem0" /\ Starts(c, "search") /\ Nothing /\ Suspend(c, "service")

\* By time, both look at the ids they know; mem0 asks its service all the same,
\* and does not catch its failure.
ZepByTime(c) == kind = "zep" /\ Starts(c, "bytime") /\ Nothing /\ AnswerHits(c, LiveRows)

Mem0ByTime(c) == kind = "mem0" /\ Starts(c, "bytime") /\ Nothing /\ Suspend(c, "service")

\* What every continuation of a handler leaves alone.
Resumes(c, op, at) ==
    /\ job[c].op # "none" /\ Tool(job[c].op) = op /\ job[c].at = at
    /\ UNCHANGED <<server, served, calls, restarts, clock, runner>>

ServiceSearches(c) ==
    /\ Resumes(c, "search", "service") /\ Nothing
    /\ \/ job' = [job EXCEPT ![c].at = "found",
                             ![c].hits = {[uuid |-> u, doc |-> docs[u]] : u \in {v \in Docs : docs[v] # None}}]
       \/ Answer(c, "error", {})

Mem0ListsAll(c) ==
    /\ Resumes(c, "bytime", "service") /\ Nothing
    /\ \/ Answer(c, "ok", {[name |-> x, id |-> x, sens |-> FALSE] : x \in LiveRows})
       \/ Answer(c, "error", {})

\* toExternal(): a document without a name gets the hash of its uuid.
Named(u) == IF nameOf[u] = None THEN u ELSE nameOf[u]

RemoteVisibleAll(found) == {[name |-> Named(h.uuid), id |-> h.doc.id, sens |-> h.doc.sens] : h \in found}

\* The tombstones are looked at after the service has answered.
RemoteVisible(found) ==
    {[name |-> Named(h.uuid), id |-> h.doc.id, sens |-> h.doc.sens] :
        h \in {g \in found : tomb[Named(g.uuid)] = 0}}

RemoteFound(c) ==
    LET us == {h.uuid : h \in job[c].hits} IN
    /\ Resumes(c, "search", "found")
    /\ nameOf' = [u \in Docs |-> IF u \in us THEN Named(u) ELSE nameOf[u]]
    /\ uuidOf' = [x \in Names |-> IF x \in us /\ nameOf[x] = None THEN x ELSE uuidOf[x]]
    /\ Answer(c, "ok", RemoteVisible(job[c].hits))
    /\ UNCHANGED <<recs, tomb, service, primed, tombs, history>>

\* add_memory_note: sensitive notes are refused and known ids answered before
\* the service is called.  No id: mem0 names the note by its uuid.
RemoteAdd(c) ==
    /\ Starts(c, "add") /\ UNCHANGED <<store, tombs, gone, told, crossed, runs>>
    /\ \/ job[c].sens /\ Answer(c, "error", {}) /\ UNCHANGED kept
       \/ /\ ~job[c].sens /\ job[c].x # None /\ recs[job[c].x] # "none"
          /\ Wrote(job[c].x) /\ Answer(c, "ok", {})
       \/ /\ ~job[c].sens /\ (job[c].x # None => recs[job[c].x] = "none")
          /\ Suspend(c, "service") /\ UNCHANGED kept

ZepAdd(c) == kind = "zep" /\ RemoteAdd(c)

Mem0Add(c) == kind = "mem0" /\ RemoteAdd(c)

\* A service that stores the note may still fail to say so.
ServiceAdds(c) ==
    /\ Resumes(c, "add", "service")
    /\ UNCHANGED <<recs, tomb, local, tombs, history>>
    /\ \/ /\ nDocs < MaxDocs
          /\ nDocs' = nDocs + 1
          /\ docs' = [docs EXCEPT ![nDocs'] = [id |-> job[c].x, sens |-> job[c].sens]]
          /\ \/ job' = [job EXCEPT ![c].at = "found", ![c].uuid = nDocs']
             \/ Answer(c, "error", {})
       \/ Answer(c, "error", {}) /\ UNCHANGED service

RemoteAdded(c) ==
    LET u == job[c].uuid
        x == IF job[c].x = None THEN Named(u) ELSE job[c].x
    IN  /\ Resumes(c, "add", "found")
        /\ nameOf' = [nameOf EXCEPT ![u] = x]
        /\ uuidOf' = [uuidOf EXCEPT ![x] = u]
        /\ recs' = [recs EXCEPT ![x] = "new"]
        /\ Wrote(x)
        /\ Answer(c, "ok", {})
        /\ UNCHANGED <<tomb, service, primed, tombs, gone, told, crossed, runs>>

Shown(x) == recs[x] # "none" /\ tomb[x] = 0

ZepRead(c) ==
    /\ kind = "zep" /\ Starts(c, "read") /\ Nothing
    /\ Answer(c, IF Shown(job[c].x) THEN "ok" ELSE "error", {})

Mem0Read(c) ==
    /\ kind = "mem0" /\ Starts(c, "read") /\ Nothing
    /\ Answer(c, IF Shown(job[c].x) THEN "ok" ELSE "error", {})

ZepConsolidate(c) == kind = "zep" /\ Starts(c, "consolidate") /\ Nothing /\ Answer(c, "ok", {})

Mem0Consolidate(c) == kind = "mem0" /\ Starts(c, "consolidate") /\ Nothing /\ Answer(c, "ok", {})

Deleting(x) == \E c \in Callers : job[c].op = "delete" /\ job[c].x = x /\ job[c].at \in {"service", "found"}

BuriedAfterAll(c) ==
    LET x == job[c].x IN
    /\ Buried(x, tombs + 1)
    /\ gone' = gone \cup {x} /\ kept' = kept \ {x}
    /\ Answer(c, "ok", {})

RemoteDelete(c) ==
    LET x == job[c].x IN
    /\ Starts(c, "delete")
    /\ \/ AlreadyBuried(c)
       \/ tomb[x] = 0 /\ uuidOf[x] = 0 /\ recs[x] = "none" /\ Unknown(c)
       \/ /\ tomb[x] = 0 /\ uuidOf[x] = 0 /\ recs[x] # "none"
          /\ BuriedAfterAll(c)
          /\ UNCHANGED <<recs, service, local, crossed, runs>>
       \/ /\ tomb[x] = 0 /\ uuidOf[x] # 0
          /\ job' = [job EXCEPT ![c].at = "service", ![c].uuid = uuidOf[x]]
          /\ crossed' = crossed \cup {y \in {x} : Deleting(y)}
          /\ UNCHANGED <<store, tombs, gone, kept, told, runs>>

ZepDelete(c) == kind = "zep" /\ RemoteDelete(c)

Mem0Delete(c) == kind = "mem0" /\ RemoteDelete(c)

\* An error of the service is swallowed.
ServiceDeletes(c) ==
    /\ Resumes(c, "delete", "service")
    /\ docs' \in {docs, [docs EXCEPT ![job[c].uuid] = None]}
    /\ job' = [job EXCEPT ![c].at = "found"]
    /\ UNCHANGED <<recs, tomb, nDocs, local, tombs, history>>

\* The tombstone is not looked for again.
RemoteDeleted(c) ==
    /\ Resumes(c, "delete", "found")
    /\ BuriedAfterAll(c)
    /\ UNCHANGED <<recs, service, local, crossed, runs>>

\* primeSeed() of Zep runs beside the first requests: its failure is swallowed,
\* whether or not the service stored the seed.
ZepPrimes ==
    /\ primed = None
    /\ \/ primed' = 0 /\ UNCHANGED service
       \/ /\ nDocs < MaxDocs
          /\ nDocs' = nDocs + 1
          /\ docs' = [docs EXCEPT ![nDocs'] = [id |-> Seed, sens |-> FALSE]]
          /\ primed' \in {0, nDocs'}
    /\ UNCHANGED <<server, recs, tomb, nameOf, uuidOf, served, job, calls, tombs, restarts, clock,
                   runner, history>>

ZepPrimed ==
    /\ primed \in Docs /\ primed' = 0
    /\ nameOf' = [nameOf EXCEPT ![primed] = Seed]
    /\ uuidOf' = [uuidOf EXCEPT ![Seed] = primed]
    /\ UNCHANGED <<server, recs, tomb, service, served, job, calls, tombs, restarts, clock,
                   runner, history>>

-----------------------------------------------------------------------------
(* The server restarts.  SQLite comes back with its tables, Zep and mem0   *)
(* with the service's documents and none of their names, the mock with the *)
(* seed.                                                                   *)

Restarts ==
    /\ restarts < MaxRestarts /\ calls + restarts < MaxCalls[kind]
    /\ restarts' = restarts + 1
    /\ served' = 0
    /\ job' = [c \in Callers |->
                 IF job[c].op = "none" \/ job[c].at = "answered" THEN job[c]
                 ELSE IF job[c].waiting THEN [job[c] EXCEPT !.at = "lost"] ELSE Idle]
    /\ UNCHANGED <<server, service, calls, tombs, clock, runner, runs>>

Forgets ==
    /\ recs' = SeedRecs
    /\ tomb' = [x \in Names |-> 0]
    /\ nameOf' = [u \in Docs |-> None]
    /\ uuidOf' = [x \in Names |-> 0]
    /\ gone' = {} /\ kept' = {} /\ told' = [x \in Names |-> {}] /\ crossed' = {}

MockRestarts == kind = "mock" /\ Restarts /\ Forgets /\ UNCHANGED primed

SqliteRestarts == kind = "sqlite" /\ Restarts /\ UNCHANGED <<recs, tomb, local, gone, kept, told, crossed>>

ZepRestarts == kind = "zep" /\ Restarts /\ Forgets /\ primed' = None

Mem0Restarts == kind = "mem0" /\ Restarts /\ Forgets /\ UNCHANGED primed

-----------------------------------------------------------------------------
(* The Runner.                                                             *)

Quiet == UNCHANGED <<server, store, served, tombs, restarts, clock, gone, kept, told, crossed>>

\* runStartupMemoryProbe(): one attempt after the other.
ProbeCalls(c) ==
    /\ ready = "pending"
    /\ \A d \in Callers : job[d].op # "probe" \/ ~job[d].waiting
    /\ Call(c, "probe", None, FALSE)
    /\ Quiet /\ UNCHANGED <<runner, runs>>

\* POST /sessions, behind the readiness gate.
SessionPrefetches(c) ==
    /\ ready = "ready"
    /\ Call(c, "prefetch", None, FALSE)
    /\ Quiet /\ UNCHANGED <<runner, runs>>

Consolidating == \E c \in Callers : job[c].op = "consolidate" /\ job[c].waiting

Fire(c) ==
    /\ ready # "pending"
    /\ Call(c, "consolidate", None, FALSE)
    /\ Quiet /\ UNCHANGED <<ready, attempts, fails, log, inContext, lastRun>>

\* maybeFireElapsed()
Elapsed(c) ==
    /\ clock - lastRun >= Interval
    /\ Fire(c)
    /\ runs' = [runs EXCEPT !.overlap = @ \/ Consolidating,
                            !.early = @ \/ (~runs.overlap /\ ~Consolidating /\ clock - runs.ok < Interval)]
    /\ UNCHANGED noteCount

\* recordNoteWritten(), which nobody in the Runner calls yet: the count goes
\* back to zero whatever becomes of the run.
RecordNoteWritten(c) ==
    \/ /\ noteCount + 1 < NoteThreshold /\ ready # "pending"
       /\ noteCount' = noteCount + 1
       /\ Quiet /\ UNCHANGED <<job, calls, ready, attempts, fails, log, inContext, lastRun, runs>>
    \/ /\ noteCount + 1 >= NoteThreshold
       /\ noteCount' = 0
       /\ Fire(c)
       /\ runs' = [runs EXCEPT !.overlap = @ \/ Consolidating]

\* Another client of the server, which knows the ids and the hashed names that
\* some search answered.
ClientCalls(c) ==
    /\ \/ \E x \in Ids \cup {u \in Docs : nameOf[u] = u} : Call(c, "delete", x, FALSE)
       \/ \E x \in Ids, sens \in BOOLEAN : Call(c, "add", x, sens)
       \/ kind = "mem0" /\ Call(c, "add", None, FALSE)
       \/ \E x \in Ids : Call(c, "read", x, FALSE)
       \/ Call(c, "bytime", None, FALSE)
    /\ Quiet /\ UNCHANGED <<runner, runs>>

\* isDegraded()
Degraded(n) == n >= Threshold

PrefetchEndsCounting(res, hits) ==
    /\ fails' = IF res = "timeout" THEN fails + 1 ELSE fails
    /\ log' = Append(log, [res |-> res, ended |-> res = "timeout" /\ Degraded(fails + 1)])
    /\ inContext' = IF res = "ok" THEN {h.id : h \in {g \in hits : ~g.sens}} ELSE inContext
    /\ UNCHANGED <<ready, attempts, lastRun, noteCount, runs>>

PrefetchEnds(res, hits) ==
    /\ fails' = CASE res = "ok" -> 0 [] res = "timeout" -> fails + 1 [] OTHER -> fails
    /\ log' = Append(log, [res |-> res, ended |-> res = "timeout" /\ Degraded(fails + 1)])
    /\ inContext' = IF res = "ok" THEN {h.id : h \in {g \in hits : ~g.sens}} ELSE inContext
    /\ UNCHANGED <<ready, attempts, lastRun, noteCount, runs>>

ProbeEnds(res) ==
    /\ attempts' = attempts + 1
    /\ ready' = CASE res = "ok" -> "ready" [] res # "ok" /\ attempts' = MaxAttempts -> "unavailable"
                  [] OTHER -> "pending"
    /\ UNCHANGED <<fails, log, inContext, lastRun, noteCount, runs>>

RunEnds(res, ranAt) ==
    /\ lastRun' = IF res = "ok" THEN ranAt ELSE lastRun
    /\ runs' = IF res = "ok" /\ ranAt > runs.ok THEN [runs EXCEPT !.ok = ranAt] ELSE runs
    /\ UNCHANGED <<ready, attempts, fails, log, inContext, noteCount>>

\* How a call ends for whoever made it.
Ends(c, res) ==
    CASE job[c].op = "prefetch" -> PrefetchEnds(res, job[c].hits)
      [] job[c].op = "probe" -> ProbeEnds(res)
      [] job[c].op = "consolidate" -> RunEnds(res, job[c].ranAt)
      [] OTHER -> UNCHANGED <<runner, runs>>

Receives(c) ==
    /\ job[c].op # "none" /\ job[c].at = "answered"
    /\ Ends(c, job[c].res)
    /\ job' = [job EXCEPT ![c] = Idle]
    /\ Quiet /\ UNCHANGED calls

TimesOutAnswered(c) ==
    /\ job[c].op \in RunnerOps /\ job[c].waiting /\ job[c].at # "lost"
    /\ Ends(c, "timeout")
    /\ job' = [job EXCEPT ![c] = IF @.at = "answered" THEN Idle ELSE [@ EXCEPT !.waiting = FALSE]]
    /\ Quiet /\ UNCHANGED calls

\* The caller's timer, the HTTP client's own once the headers are there, or
\* the connection breaks: the same to the caller, the Runner or another.
TimesOut(c) ==
    /\ job[c].op # "none" /\ job[c].waiting
    /\ Ends(c, "timeout")
    /\ job' = [job EXCEPT ![c] = IF @.at \in {"answered", "lost"} THEN Idle ELSE [@ EXCEPT !.waiting = FALSE]]
    /\ Quiet /\ UNCHANGED calls

Tick ==
    /\ ready # "pending" /\ clock < MaxClock
    /\ clock' = clock + 1
    /\ UNCHANGED <<server, store, served, job, calls, tombs, restarts, runner, history>>

-----------------------------------------------------------------------------

Mock(c) == MockSearch(c) \/ MockByTime(c) \/ MockAdd(c) \/ MockRead(c) \/ MockConsolidate(c) \/ MockDelete(c)
Sqlite(c) ==
    SqliteSearch(c) \/ SqliteScored(c) \/ SqliteByTime(c) \/ SqliteAdd(c) \/ SqliteRead(c) \/ SqliteConsolidate(c) \/ SqliteDelete(c)
Zep(c) == ZepSearch(c) \/ ZepByTime(c) \/ ZepAdd(c) \/ ZepRead(c) \/ ZepConsolidate(c) \/ ZepDelete(c)
Mem0(c) == Mem0Search(c) \/ Mem0ByTime(c) \/ Mem0Add(c) \/ Mem0Read(c) \/ Mem0Consolidate(c) \/ Mem0Delete(c)
Service(c) == ServiceSearches(c) \/ RemoteFound(c) \/ Mem0ListsAll(c) \/ ServiceAdds(c) \/ RemoteAdded(c)
              \/ ServiceDeletes(c) \/ RemoteDeleted(c)

Next ==
    \/ \E c \in Callers :
          \/ HandlerHangs(c) \/ HandlerFails(c)
          \/ Mock(c) \/ Sqlite(c) \/ Zep(c) \/ Mem0(c) \/ Service(c)
          \/ ProbeCalls(c) \/ SessionPrefetches(c) \/ Elapsed(c) \/ RecordNoteWritten(c) \/ ClientCalls(c)
          \/ Receives(c) \/ TimesOut(c)
    \/ MockRestarts \/ SqliteRestarts \/ ZepRestarts \/ Mem0Restarts
    \/ ZepPrimes \/ ZepPrimed \/ Tick

\* The Runner's timers fire; nothing is assumed of servers and services.
Fairness == \A c \in Callers : WF_vars(job[c].op \in RunnerOps /\ TimesOut(c))

Spec == Init /\ [][Next]_vars /\ Fairness

-----------------------------------------------------------------------------
(* Properties.                                                             *)

\* Types: what the tables, the calls and the Runner's counters hold.
TypeOK ==
    /\ recs \in [Names -> {"none", "seed", "new", "old"}]
    /\ tomb \in [Names -> 0..tombs] /\ uuidOf \in [Names -> 0..nDocs]
    /\ \A u \in Docs : nameOf[u] # None => nameOf[u] \in Names /\ u <= nDocs
    /\ ready \in {"pending", "ready", "unavailable"} /\ attempts \in 0..MaxAttempts
    /\ fails \in 0..Len(log) /\ lastRun \in 0..clock /\ noteCount \in 0..NoteThreshold - 1
    /\ \A c \in Callers : job[c].op # "none" =>
          job[c].at \in {"sent", "scoring", "service", "found", "answered", "lost"}

Told(c) == job[c].op # "none" /\ job[c].at = "answered" /\ job[c].res = "ok"

\* A deleted note stays hidden: no search that starts after a deletion was
\* answered names the note, until the server restarts; SQLite's notes stay
\* hidden after that too.
DeletedStaysHidden ==
    \A c \in Callers : Told(c) /\ job[c].op \in Searches \cup {"bytime"} =>
        \A h \in job[c].hits : h.name \notin job[c].gone

\* Deleting again answers the same tombstone, except where two deletions of one
\* note overlapped in a backend that awaits its service.
OneTombstone ==
    \A x \in Names \ crossed : Cardinality(told[x]) <= 1

\* What was added and not deleted can be read, for as long as the backend
\* remembers: in the mock until it is consolidated, in Zep and mem0 until the
\* server restarts.
AddedIsReadable ==
    \A x \in kept : recs[x] # "none" /\ tomb[x] = 0

\* A note of a sensitive class never gets into a session's context, whoever put
\* it into the service, and never gets into the service through this server.
NoSensitiveNotes ==
    /\ Foreign \notin inContext
    /\ \A u \in Docs : docs[u] # None /\ docs[u].sens => docs[u].id = Foreign

\* Start-up fails for good or succeeds for good, and only an answer makes the
\* Runner ready.
ReadinessFinal ==
    [][/\ ready # "pending" => ready' = ready
       /\ ready' = "ready" /\ ready = "pending" =>
             \E c \in Callers : Told(c) /\ job[c].op = "probe" /\ job'[c].op = "none"]_vars

TimeoutsSinceOk(i) ==
    Cardinality({j \in 1..i : log[j].res = "timeout" /\ \A k \in j..i : log[k].res # "ok"})

\* A session is ended as degraded exactly when its prefetch is at least the
\* Threshold-th to time out since one last succeeded, in the order in which
\* the outcomes came in.  This is what sessions-route.ts 428-475 does: the words
\* at mcp-client.ts 159-161 count every failed memory call and end every session
\* that requires memory, and the code does neither.
DegradedExact ==
    \A i \in DOMAIN log :
        log[i].ended <=> log[i].res = "timeout" /\ TimeoutsSinceOk(i) >= Threshold

\* The elapsed trigger never comes early: as long as no two runs overlapped,
\* an Interval has passed since the newest successful run began.
NoEarlyRun == ~runs.early

\* The Runner never waits for ever: a server that hangs, restarts or never answers does
\* not keep a call, and so a session's creation, open.
CallEnds ==
    \A c \in Callers : (job[c].op \in RunnerOps /\ job[c].waiting) ~> ~job[c].waiting

\* The notes of a memory server, for every backend: deleted ones stay hidden under one
\* tombstone, added ones stay readable, sensitive ones stay out.
NoteInv ==
    TypeOK /\ DeletedStaysHidden /\ OneTombstone /\ AddedIsReadable /\ NoSensitiveNotes

\* The Runner's counters of what its servers did (sessions-route.ts,
\* consolidation-scheduler.ts): exact, whatever order the outcomes come in.
CountersExact == DegradedExact /\ NoEarlyRun

\* The Runner gets on with or without its server: its start is decided once, and no
\* call stays open.
RunnerMovesOn == ReadinessFinal /\ CallEnds
=============================================================================
