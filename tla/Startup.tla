------------------------------ MODULE Startup ------------------------------
(***************************************************************************)
(* Start-up of the Runner and what it keeps alive afterwards: the refusals *)
(* of main() before the listener opens, the boot orchestrator and its CRL  *)
(* cache, the readiness answer, the anchor-revocation poller, the boot     *)
(* session's System Event Log, and the tool registry with its dynamic      *)
(* registration watcher.                                                   *)
(*                                                                         *)
(* One process runs at a time; a Launch reads one configuration (the       *)
(* environment and the files it names).  Time is kept as ages and          *)
(* remaining lifetimes, so it is unbounded.  A CRL refresh is split at its *)
(* await: the distribution point answers, later the answer lands.  The     *)
(* distribution point, the operator's files and the HTTP clients are       *)
(* external.                                                               *)
(***************************************************************************)
EXTENDS Naturals, Sequences, FiniteSets, Functions

CONSTANTS
  Configs,        \* the configurations a process may be launched with; each
                  \* carries three bounds: maxLaunches, maxRows (background
                  \* rows per process), maxVersion (lists per anchor)
  Anchors,        \* trust anchors the cards may name
  Tools,          \* descriptors a tools file or a batch may hold
  Batches,        \* contents an operator may write to the dynamic-tools file
  Documents,      \* AGENTS.md and the files it may import; Root is the first
  Root,
  MaxImportDepth, \* MAX_IMPORT_DEPTH
  Ceiling,        \* CrlCache.staleCeilingMs, in ticks
  Interval,       \* BootOrchestrator.refreshIntervalMs, in ticks
  Lifetime,       \* ticks until the not_after of a list just issued
  SweepInterval,  \* RetentionSweepScheduler.intervalMs, in ticks
  LogCap,         \* SystemLogBuffer.maxPerSession
  MaxPasses,      \* bound: refresh passes in flight at once
  MaxFaults,      \* bound: refreshes that fail
  MaxWrites       \* bound: writes of the dynamic-tools file

Empty == "empty"

\* The test hooks of the environment; each is unset, ok or, if it is parsed, bad.
Hooks == {"handler", "overlap", "poll-tick", "sink-failure", "sink-mode", "markers",
          "crash-after", "clock", "consolidation", "cache-hit", "retention"}

\* A configuration names anchors, tools and documents of the world; an issuer
\* serves a first list.
ASSUME ConfigAssumption ==
  \A c \in Configs :
    /\ DOMAIN c.hooks = Hooks
    /\ c.anchors \in Seq(Anchors) /\ c.tools \in Seq(Tools)
    /\ c.imports \in [Documents -> SUBSET Documents]
    /\ c.maxVersion \in Nat \ {0}
    /\ c.adapter \in {"none", "other", "unconfirmed", "confirmed"}
\* The entry file is a document, a batch is not the truncated file, the log
\* holds a row and a pass finds a slot.
ASSUME StartAssumption ==
  /\ Root \in Documents /\ Empty \notin DOMAIN Batches
  /\ \A b \in DOMAIN Batches : Batches[b] \in Seq(Tools)
  /\ {LogCap, MaxPasses} \subseteq Nat \ {0}
  /\ {MaxImportDepth, Ceiling, Interval, Lifetime, SweepInterval, MaxFaults, MaxWrites} \subseteq Nat

VARIABLES
  cfg,        \* the configuration processes are launched with
  phase,      \* "down", "booting" (listener open, boot() running), "up"
  exit,       \* why the last launch was refused, "ok" otherwise
  refusals,   \* precedenceResult.violations and agentsMdValidationErr
  booted,     \* BootOrchestrator.booted
  passes,     \* the refresh passes in flight: slot -> pass
  entries,    \* CrlCache.entries
  published,  \* external: version of the list each distribution point serves
  timer,      \* ticks until the auto-refresh timer fires, once booted
  revFile,    \* content of SOA_BOOTSTRAP_REVOCATION_FILE
  revoked,    \* RevocationPoller.revoked, bootstrapRevoked
  log,        \* SystemLogBuffer rows of the boot session, oldest first
  sweepAge,   \* ticks since the retention sweep last ran
  pool,       \* ToolRegistry.byName
  trigger,    \* content of the dynamic-tools file, Empty if truncated
  watcher,    \* the watcher's tick: where it is and the batch it has read
  faults, launches, rows, writes

startVars == <<cfg, phase, exit, refusals, booted, passes, entries, published, timer,
               revFile, revoked, log, sweepAge, pool, trigger, watcher,
               faults, launches, rows, writes>>
crlVars == <<booted, passes, entries, timer>>
toolVars == <<pool, trigger, watcher, writes>>
logVars == <<log, sweepAge, rows>>

Slots == 1 .. MaxPasses
NoPass == [kind |-> "idle"]
NoEntry == [ver |-> 0, age |-> 0, left |-> 0]
Resting == [at |-> "idle", batch |-> Empty]
Controls == <<"AutoAllow", "Prompt", "Deny">>

(***************************************************************************)
(* The refusals of main(), in the order the code makes them.               *)
(***************************************************************************)

\* What a check answers, and the answer of the first check of a list that fails.
Fails(failed, reason) == IF failed THEN reason ELSE "ok"
FirstBad(answers) ==
  LET bad == {i \in DOMAIN answers : answers[i] # "ok"}
  IN  IF bad = {} THEN "ok" ELSE answers[CHOOSE i \in bad : \A j \in bad : i <= j]

Public(c) == c.host # "loopback"

\* A fixed bootstrap bearer is refused on a public TLS listener.
BearerRefusal(c) ==
  Fails(c.bearer /\ c.tls /\ Public(c), "bootstrap-bearer")

\* Handler hooks: an unparsable number is ignored, so it arms no guard.
HandlerHooks(c) ==
  IF c.hooks["handler"] = "ok" \/ c.hooks["overlap"] # "unset"
  THEN {"handler"} ELSE {}

\* The four bootstrap hooks: a fixture channel, a tick, two watched files.
BootstrapHooks(c) ==
  IF \/ c.channel = "dnssec"
     \/ c.hooks["poll-tick"] = "ok"
     \/ c.watch
     \/ c.secondary.state # "unset"
  THEN {"bootstrap"} ELSE {}

\* Test hooks parsed before the trust files are read.
EarlyHooks(c) ==
  {h \in {"sink-mode", "markers", "crash-after"} : c.hooks[h] = "ok"}
  \cup {h \in {"sink-failure"} : c.hooks[h] # "unset"}
  \cup HandlerHooks(c) \cup BootstrapHooks(c)
  \cup (IF c.dynamic THEN {"dynamic-tools"} ELSE {})
  \cup (IF c.agents # "unset" THEN {"agents-md"} ELSE {})

\* The loopback-only guards at the head of main().  A poll tick that is not
\* a positive integer is refused before its guard.
EarlyRefusal(c) ==
  FirstBad(<< Fails(c.hooks["poll-tick"] = "bad", "env-malformed"),
              Fails(EarlyHooks(c) # {} /\ Public(c), "hook-on-public-listener") >>)

\* The frozen test clock is refused in production and on public TLS.
ClockRefusal(c) ==
  FirstBad(<<
    Fails(c.hooks["clock"] # "unset" /\ c.prod, "test-clock"),
    Fails(c.hooks["clock"] # "unset" /\ c.tls /\ Public(c), "test-clock"),
    Fails(c.hooks["clock"] = "bad", "env-malformed") >>)

\* The initial-trust file: present, without BOM, JSON, of the schema, not
\* expired at launch, and of the pinned publisher.
FileTrustRefusal(c) ==
  FirstBad(<<
    Fails(c.trust.state = "missing", "bootstrap-missing"),
    Fails(c.trust.state \in {"bom", "not-json", "bad-expiry"}, "bootstrap-malformed"),
    Fails(c.trust.state = "bad-schema", "bootstrap-invalid-schema"),
    Fails(c.trust.state = "expired", "bootstrap-expired"),
    Fails(c.pinned # "none" /\ c.trust.kid # c.pinned, "bootstrap-missing") >>)

DnssecUnauthenticated(c) ==
  FirstBad(<<
    Fails(c.trust.state \in {"missing", "empty"}, "bootstrap-missing"),
    Fails(c.trust.state \in {"not-json", "bad-schema"}, "bootstrap-malformed"),
    Fails(c.pinned # "none" /\ c.trust.kid # c.pinned, "bootstrap-missing") >>)

\* The DNSSEC answer that replaces the file: present, JSON, not empty,
\* authenticated, complete, and of the pinned publisher.
DnssecTrustRefusal(c) ==
  FirstBad(<<
    Fails(c.trust.state = "missing", "bootstrap-missing"),
    Fails(c.trust.state = "not-json", "bootstrap-malformed"),
    Fails(c.trust.state = "empty", "bootstrap-missing"),
    Fails(~c.trust.ad, "bootstrap-missing"),
    Fails(c.trust.state = "bad-schema", "bootstrap-malformed"),
    Fails(c.pinned # "none" /\ c.trust.kid # c.pinned, "bootstrap-missing") >>)

TrustRefusal(c) ==
  IF c.channel = "dnssec" THEN DnssecTrustRefusal(c) ELSE FileTrustRefusal(c)

\* A second channel must name the same key, or the announced successor.
SplitBrainRefusal(c) ==
  LET second == c.secondary
      agrees == \/ second.kid = c.trust.kid /\ second.spki = c.trust.spki
                \/ c.trust.successor # "none" /\ second.kid = c.trust.successor
  IN  FirstBad(<<
        Fails(second.state = "missing", "bootstrap-missing"),
        Fails(second.state = "not-json", "bootstrap-malformed"),
        Fails(second.state = "ok" /\ ~agrees, "bootstrap-split-brain") >>)

\* The signing key and its chain come together, or an ephemeral pair is made.
KeyRefusal(c) ==
  Fails(c.keys = "one", "keys-incomplete")

\* The conformance card must match the digest its path is pinned to and
\* still carry the placeholder; an operator's card must be readable.
CardRefusal(c) ==
  FirstBad(<<
    Fails(c.card \in {"missing", "unreadable"}, "card-unreadable"),
    Fails(c.card \in {"manifest-missing", "manifest-malformed", "path-not-found",
                  "digest-mismatch", "missing-placeholder"},
      "conformance-fixture-tampered") >>)

\* With the conformance card, a handler key beside it must be an anchor's.
HandlerPemRefusal(c) ==
  Fails(c.card = "fixture" /\ c.pem = "drift", "handler-key-drift")

\* A supplied detached signature must parse, verify against its leaf, and
\* have a certificate of its chain among the card's anchors.
JwsRefusal(c) ==
  FirstBad(<<
    Fails(c.jws \in {"malformed", "bad-header", "bad-typ", "bad-alg", "no-kid",
                 "no-x5c", "bad-cert", "bad-signature"}, "card-signature"),
    Fails(c.jws = "ok" /\ c.chain \cap Range(c.anchors) = {}, "card-signature") >>)

(***************************************************************************)
(* AGENTS.md: the deny list of the entry file, and the import walk.        *)
(***************************************************************************)

\* The tools the file itself denies; a list in an imported file is not read.
Denied(c) == IF c.agents = "unset" THEN {} ELSE c.deny

AgentsRefusal(c) ==
  Fails(c.agents = "missing", "agents-md-unavailable")

\* A call of the import walk at some depth: the file and the files above it.
Visits == [file : Documents, stack : SUBSET Documents]
Visit(f, stack) == [file |-> f, stack |-> stack]

\* The recursive walk: too deep, on its own stack, or an imported file that
\* redeclares the H1 ends it with an error.  The calls of each depth that
\* end without one:
WalkOK(c) ==
  LET ends[d \in 0 .. MaxImportDepth + 1] ==
        IF d > MaxImportDepth THEN {}
        ELSE {v \in Visits :
                /\ v.file \notin v.stack
                /\ d > 0 => v.file \notin c.h1
                /\ \A g \in c.imports[v.file] :
                     Visit(g, v.stack \cup {v.file}) \in ends[d + 1]}
  IN  Visit(Root, {}) \in ends[0]

\* An import that names no file, met before any other fault, is not one of the
\* errors main() catches.
DanglingRefusal(c) == Fails(c.agents = "dangling", "import-unreadable")

\* Body validation (headings, entrypoint) of the resolved text.
AgentsInvalid(c) == c.agents # "unset" /\ ~(WalkOK(c) /\ c.agents = "ok")

(***************************************************************************)
(* The tool registry.                                                      *)
(***************************************************************************)

\* Short idempotency retention is only allowed for Destructive+Prompt.
Classified(t) ==
  t.retention = "short" => t.risk = "Destructive" /\ t.control = "Prompt"

WellFormed(t) ==
  t.risk \in {"ReadOnly", "Mutating", "Egress", "Destructive"}
  /\ t.control \in Range(Controls)

\* An entry of the registry: a descriptor and where it came from.
Registered(t, source) ==
  [name |-> t.name, risk |-> t.risk, control |-> t.control, retention |-> t.retention,
   source |-> source]

\* The places of the tools file that the deny list leaves in.
Loaded(c) == {i \in DOMAIN c.tools : c.tools[i].name \notin Denied(c)}
LoadedTools(c) == {c.tools[i] : i \in Loaded(c)}

RegistryRefusal(c) ==
  FirstBad(<<
    Fails(\E t \in LoadedTools(c) : ~WellFormed(t), "tools-malformed"),
    Fails(\E i, j \in Loaded(c) : i # j /\ c.tools[i].name = c.tools[j].name,
      "tools-malformed"),
    Fails(\E t \in LoadedTools(c) : ~Classified(t), "tool-pool-stale") >>)

\* Hooks parsed after the audit chain exists; a malformed value is refused.
LateRefusal(c) ==
  FirstBad(<<
    Fails(c.hooks["overlap"] = "bad", "overlap-malformed"),
    Fails(\E h \in {"consolidation", "cache-hit", "retention", "sink-failure"} :
        c.hooks[h] = "bad", "env-malformed"),
    Fails(Public(c) /\ \E h \in {"consolidation", "cache-hit", "retention"} :
        c.hooks[h] = "ok", "hook-on-public-listener") >>)

\* The in-memory dispatch adapter needs the confirmation variable; the host is
\* not looked at.
AdapterRefusal(c) ==
  Fails(c.adapter \in {"other", "unconfirmed"}, "adapter")

Refusal(c) ==
  FirstBad(<<BearerRefusal(c), EarlyRefusal(c), AgentsRefusal(c),
             ClockRefusal(c), TrustRefusal(c), SplitBrainRefusal(c),
             KeyRefusal(c), CardRefusal(c), DanglingRefusal(c), HandlerPemRefusal(c),
             JwsRefusal(c), RegistryRefusal(c), LateRefusal(c), AdapterRefusal(c)>>)

(***************************************************************************)
(* Launching a process.                                                    *)
(***************************************************************************)

\* Position of a control in AutoAllow < Prompt < Deny.
Strictness(control) == CHOOSE i \in DOMAIN Controls : Controls[i] = control

\* The axes on which the card contradicts a stronger setting.
PrecedenceViolations(c) ==
  {axis \in {"agent-type-activeMode", "denylist-tool-requirement",
             "tool-requirement-loosens-default"} :
     CASE axis = "agent-type-activeMode" ->
            c.agentType = "explore" /\ c.mode # "ReadOnly"
       [] axis = "denylist-tool-requirement" ->
            DOMAIN c.needs \cap Denied(c) # {}
       [] OTHER ->
            \E t \in LoadedTools(c) :
              /\ t.name \in DOMAIN c.needs
              /\ Strictness(c.needs[t.name]) < Strictness(t.control)}

\* SystemLogBuffer.write for the boot session: a ring of LogCap rows.
Push(ring, row) ==
  IF Len(ring) = LogCap THEN Append(Tail(ring), row) ELSE Append(ring, row)

\* The ring after a list of rows.
PushAll(list) ==
  LET ring[n \in 0 .. Len(list)] == IF n = 0 THEN <<>> ELSE Push(ring[n - 1], list[n])
  IN  ring[Len(list)]

\* The settings a process is refused for as long as it lives: a card that
\* contradicts a stronger setting, an AGENTS.md that does not validate.
RefusedFor(c) ==
  {"precedence" : axis \in PrecedenceViolations(c)}
  \cup (IF AgentsInvalid(c) THEN {"agents-md"} ELSE {})

\* Rows written before the listener opens: a row per violated axis, one for
\* an invalid AGENTS.md, and the handler poller's immediate tick.
LaunchRows(c) ==
  [i \in 1 .. Cardinality(PrecedenceViolations(c)) |-> "precedence"]
  \o (IF AgentsInvalid(c) THEN <<"agents-md">> ELSE <<>>)
  \o <<"crl-refresh-complete">>

\* A pass over the anchors starts by asking for the first one's list.
Ask(kind, todo) ==
  IF todo = <<>> THEN NoPass
  ELSE [kind |-> kind, todo |-> todo, at |-> "asked", ver |-> 0, left |-> 0,
        overlapped |-> FALSE]

StartInit ==
  /\ cfg \in Configs /\ refusals = {}
  /\ phase = "down" /\ exit = "ok" /\ booted = FALSE
  /\ passes = [p \in Slots |-> NoPass]
  /\ entries = [a \in Anchors |-> NoEntry]
  /\ published = [a \in Anchors |-> 1]
  /\ timer = Interval
  /\ revFile = "absent" /\ revoked = FALSE
  /\ log = <<>> /\ sweepAge = 0 /\ rows = 0
  /\ pool = {} /\ trigger = Empty /\ watcher = Resting
  /\ faults = 0 /\ launches = 0 /\ writes = 0

\* main() up to the listener and the call of boot(): refused, or the
\* listener opens with the log rows, the tool pool and the boot pass begun.
\* With no anchors boot() completes without waiting.
Launch ==
  /\ phase = "down" /\ launches < cfg.maxLaunches
  /\ launches' = launches + 1
  /\ exit' = Refusal(cfg)
  /\ \/ /\ exit' # "ok"
        /\ UNCHANGED <<phase, refusals, crlVars, log, pool>>
     \/ /\ exit' = "ok"
        /\ phase' = "booting"
        /\ refusals' = RefusedFor(cfg)
        /\ booted' = (cfg.anchors = <<>>)
        /\ passes' = [passes EXCEPT ![1] = Ask("boot", cfg.anchors)]
        /\ log' = PushAll(LaunchRows(cfg))
        /\ pool' = {Registered(t, "static-fixture") : t \in LoadedTools(cfg)}
        /\ UNCHANGED <<timer, entries>>
  /\ UNCHANGED <<cfg, published, revFile, revoked, sweepAge, trigger, watcher,
                 faults, rows, writes>>

\* The process ends by a signal; its memory and its requests are gone, the
\* watched files and the distribution points are not.
Die ==
  /\ phase # "down"
  /\ phase' = "down" /\ refusals' = {} /\ booted' = FALSE /\ timer' = Interval
  /\ passes' = [p \in Slots |-> NoPass]
  /\ entries' = [a \in Anchors |-> NoEntry]
  /\ revoked' = FALSE /\ log' = <<>> /\ sweepAge' = 0 /\ rows' = 0
  /\ pool' = {} /\ watcher' = Resting
  /\ UNCHANGED <<cfg, exit, published, revFile, trigger, faults, launches, writes>>

\* Once boot() has returned or thrown, main() scans the session files: a
\* corrupt one ends the process, otherwise the watcher is started.
Scan ==
  /\ phase = "booting" /\ \A p \in Slots : passes[p].kind # "boot"
  /\ ~cfg.corrupt
  /\ phase' = "up"
  /\ UNCHANGED <<cfg, exit, refusals, crlVars, published, revFile, revoked, logVars,
                 toolVars, faults, launches>>

ScanRefuses ==
  /\ phase = "booting" /\ \A p \in Slots : passes[p].kind # "boot"
  /\ cfg.corrupt
  /\ Die

(***************************************************************************)
(* CRL refreshes.                                                          *)
(***************************************************************************)

\* External: the distribution point answers with the list it serves now.
\* Without a fetcher (demo mode off) there is none.
Answer(p) ==
  /\ passes[p].kind # "idle" /\ passes[p].at = "asked" /\ cfg.fetcher
  /\ passes' = [passes EXCEPT ![p].at = "answered",
                   ![p].ver = published[Head(passes[p].todo)],
                   ![p].left = Lifetime]
  /\ UNCHANGED <<cfg, phase, exit, refusals, booted, entries, published, timer, revFile,
                 revoked, logVars, toolVars, faults, launches>>

\* What becomes of a pass after one anchor: boot() stops at a failure,
\* refreshAllNow goes on to the next anchor.
Advance(p, ok) ==
  IF passes[p].kind = "boot" /\ ~ok THEN NoPass
  ELSE Ask(passes[p].kind, Tail(passes[p].todo))

\* boot() completes when its last anchor is in: the timer is scheduled.
BootCompletes(p) == passes[p].kind = "boot" /\ Len(passes[p].todo) = 1

LandedKeepsNotAfter(p) ==
  LET old == entries[Head(passes[p].todo)]
  IN  [ver |-> passes[p].ver, age |-> 0,
       left |-> IF old.ver = 0 THEN passes[p].left ELSE old.left]

\* The entry CrlCache.refresh makes of an answer, stamped when it landed.
Landed(p) == [ver |-> passes[p].ver, age |-> 0, left |-> passes[p].left]

\* CrlCache.refresh after its await: the list replaces whatever is cached.
Land(p) ==
  /\ passes[p].kind # "idle" /\ passes[p].at = "answered"
  /\ LET a == Head(passes[p].todo)
     IN  /\ entries' = [entries EXCEPT ![a] = Landed(p)]
         /\ passes' = [q \in Slots |->
              IF q = p THEN Advance(p, TRUE)
              ELSE IF passes[q].kind # "idle" /\ Head(passes[q].todo) = a
                   THEN [passes[q] EXCEPT !.overlapped = TRUE]
                   ELSE passes[q]]
  /\ booted' = (booted \/ BootCompletes(p))
  /\ timer' = IF BootCompletes(p) THEN Interval ELSE timer
  /\ UNCHANGED <<cfg, phase, exit, refusals, published, revFile, revoked, logVars,
                 toolVars, faults, launches>>

\* The fetch fails or its body is not a CRL: the cached list stays.
RefreshFails(p) ==
  /\ passes[p].kind # "idle"
  /\ \/ ~cfg.fetcher /\ faults' = faults
     \/ cfg.fetcher /\ faults < MaxFaults /\ faults' = faults + 1
  /\ passes' = [passes EXCEPT ![p] = Advance(p, FALSE)]
  /\ UNCHANGED <<cfg, phase, exit, refusals, booted, entries, published, timer, revFile,
                 revoked, logVars, toolVars, launches>>

\* Start a refreshAllNow pass in a free slot.
StartPass(kind) ==
  \E p \in Slots :
    /\ passes[p].kind = "idle"
    /\ \A q \in 1 .. p - 1 : passes[q].kind # "idle"
    /\ passes' = [passes EXCEPT ![p] = Ask(kind, cfg.anchors)]

\* The auto-refresh interval elapses; earlier passes may still be waiting.
TimerFires ==
  /\ booted /\ timer = 0 /\ StartPass("timer")
  /\ timer' = Interval
  /\ UNCHANGED <<cfg, phase, exit, refusals, booted, entries, published, revFile, revoked,
                 logVars, toolVars, faults, launches>>

\* POST /crl/refresh by the operator, served in any phase and not gated by
\* readiness; it neither debounces nor completes a failed boot.
OperatorRefresh ==
  /\ phase # "down" /\ cfg.bearer /\ cfg.anchors # <<>>
  /\ StartPass("operator")
  /\ UNCHANGED <<cfg, phase, exit, refusals, booted, entries, published, timer, revFile,
                 revoked, logVars, toolVars, faults, launches>>

\* External: an anchor's issuer publishes a list with one more revoked key.
Publish(a) ==
  /\ a \in Range(cfg.anchors) /\ published[a] < cfg.maxVersion
  /\ published' = [published EXCEPT ![a] = @ + 1]
  /\ UNCHANGED <<cfg, phase, exit, refusals, crlVars, revFile, revoked, logVars, toolVars,
                 faults, launches>>

\* Time passes; a timer that is due fires first.
Tick ==
  LET down(n) == IF n = 0 THEN 0 ELSE n - 1
  IN  /\ phase # "down" /\ timer # 0
      /\ entries' = [a \in Anchors |->
           IF entries[a].ver = 0 THEN NoEntry
           ELSE [entries[a] EXCEPT !.age = IF @ > Ceiling THEN @ ELSE @ + 1,
                                   !.left = down(@)]]
      /\ passes' = [p \in Slots |->
           IF passes[p].kind # "idle" /\ passes[p].at = "answered"
           THEN [passes[p] EXCEPT !.left = down(@)] ELSE passes[p]]
      /\ timer' = IF booted THEN timer - 1 ELSE timer
      /\ sweepAge' = IF sweepAge = SweepInterval THEN sweepAge ELSE sweepAge + 1
      /\ UNCHANGED <<cfg, phase, exit, refusals, booted, published, revFile, revoked, log,
                     toolVars, faults, launches, rows>>

\* CrlCache.anchorFreshness = "expired": no list, past its not_after, or
\* not refreshed within the ceiling.
Expired(a) ==
  entries[a].ver = 0 \/ entries[a].left = 0 \/ entries[a].age > Ceiling

\* The composed probe behind GET /ready and the gated routes.
Readiness ==
  FirstBad(<<
    Fails(refusals # {}, "bootstrap-pending"),
    Fails(revoked, "bootstrap-pending"),
    Fails(~booted, "crl-stale"),
    Fails(\E a \in Range(cfg.anchors) : Expired(a), "crl-stale"),
    Fails(cfg.sinkHalted, "audit-sink-unreachable"),
    Fails(cfg.memory = "down", "memory-mcp-unavailable") >>)

Ready == phase # "down" /\ Readiness = "ok"

(***************************************************************************)
(* The boot session's log and the anchor-revocation poller.                *)
(***************************************************************************)

\* External: the watched file is written; it holds one record at a time, of
\* a publisher, of a handler key, or unparsable; or JSON's null.
WriteRevFile(x) ==
  /\ cfg.watch /\ phase # "down" /\ x # revFile
  /\ revFile' = x
  /\ UNCHANGED <<cfg, phase, exit, refusals, crlVars, published, revoked, logVars,
                 toolVars, faults, launches>>

\* A file that holds null parses, and reading a field of it throws out of the
\* timer's callback, which nothing catches.
RevocationThrows ==
  /\ cfg.watch /\ ~revoked /\ revFile = "null"
  /\ Die

RevocationTickFollows ==
  /\ cfg.watch /\ phase # "down" /\ revoked # (revFile = cfg.trust.kid)
  /\ revoked' = (revFile = cfg.trust.kid)
  /\ log' = IF revoked' THEN Push(log, "bootstrap-revoked") ELSE log
  /\ UNCHANGED <<cfg, phase, exit, refusals, crlVars, published, revFile, sweepAge, rows,
                 toolVars, faults, launches>>

\* RevocationPoller.tick: a record of the trusted publisher latches the
\* revocation and writes its row once; anything else is ignored.
RevocationTick ==
  /\ cfg.watch /\ phase # "down" /\ ~revoked
  /\ revFile = cfg.trust.kid
  /\ revoked' = TRUE
  /\ log' = Push(log, "bootstrap-revoked")
  /\ UNCHANGED <<cfg, phase, exit, refusals, crlVars, published, revFile, sweepAge, rows,
                 toolVars, faults, launches>>

\* The handler-key poller writes a row on every tick.
HandlerTick ==
  /\ phase # "down" /\ rows < cfg.maxRows
  /\ log' = Push(log, "crl-refresh-complete") /\ rows' = rows + 1
  /\ UNCHANGED <<cfg, phase, exit, refusals, crlVars, published, revFile, revoked,
                 sweepAge, toolVars, faults, launches>>

\* RetentionSweepScheduler: the sweep runs once its interval has elapsed.
RetentionSweep ==
  /\ phase # "down" /\ rows < cfg.maxRows /\ sweepAge >= SweepInterval
  /\ sweepAge' = 0
  /\ log' = Push(log, "retention-sweep-ran") /\ rows' = rows + 1
  /\ UNCHANGED <<cfg, phase, exit, refusals, crlVars, published, revFile, revoked,
                 toolVars, faults, launches>>

\* GET /logs/system/recent is exempt from the readiness gate in processes
\* that are, or may become, refused for their whole life: decided at launch.
GateSkipped == refusals # {} \/ cfg.watch

\* The boot session's rows can be read: its bearer exists and the gate lets
\* the request through.
LogReadable == cfg.bearer /\ (GateSkipped \/ Readiness = "ok")

(***************************************************************************)
(* Dynamic tool registration.                                              *)
(***************************************************************************)

\* External: the operator writes a batch over whatever the file holds.
WriteTrigger(b) ==
  /\ cfg.dynamic /\ phase # "down" /\ writes < MaxWrites
  /\ trigger' = b /\ writes' = writes + 1
  /\ UNCHANGED <<cfg, phase, exit, refusals, crlVars, published, revFile, revoked,
                 logVars, pool, watcher, faults, launches>>

\* ToolRegistry.addDynamic: a malformed or misclassified entry throws, a
\* known name is left as it is.
AddDynamic(tools, t) ==
  IF WellFormed(t) /\ Classified(t) /\ \A u \in tools : u.name # t.name
  THEN tools \cup {Registered(t, "mcp-dynamic")} ELSE tools

\* Each entry is tried on its own: one that throws does not stop the others.
AddAll(tools, batch) ==
  LET added[n \in 0 .. Len(batch)] ==
        IF n = 0 THEN tools ELSE AddDynamic(added[n - 1], batch[n])
  IN  added[Len(batch)]

WatcherReads ==
  /\ phase = "up" /\ cfg.dynamic /\ cfg.registry
  /\ watcher.at = "idle" /\ trigger # Empty
  /\ watcher' = [at |-> "read", batch |-> trigger]
  /\ UNCHANGED <<cfg, phase, exit, refusals, crlVars, published, revFile, revoked,
                 logVars, pool, trigger, writes, faults, launches>>

\* The batch read is parsed and added; a file that is no array adds nothing.
WatcherIngests ==
  /\ watcher.at = "read"
  /\ pool' = AddAll(pool, Batches[watcher.batch])
  /\ watcher' = [watcher EXCEPT !.at = "truncating"]
  /\ UNCHANGED <<cfg, phase, exit, refusals, crlVars, published, revFile, revoked,
                 logVars, trigger, writes, faults, launches>>

\* The file is truncated whatever it holds by now.
WatcherTruncates ==
  /\ watcher.at = "truncating"
  /\ watcher' = Resting /\ trigger' = Empty
  /\ UNCHANGED <<cfg, phase, exit, refusals, crlVars, published, revFile, revoked,
                 logVars, pool, writes, faults, launches>>

\* The truncating write fails: the batch is read again at the next tick.
TruncateFails ==
  /\ watcher.at = "truncating" /\ faults < MaxFaults
  /\ watcher' = Resting /\ faults' = faults + 1
  /\ UNCHANGED <<cfg, phase, exit, refusals, crlVars, published, revFile, revoked,
                 logVars, pool, trigger, writes, launches>>

StartNext ==
  \/ Launch \/ Die \/ Scan \/ ScanRefuses
  \/ \E p \in Slots : Answer(p) \/ Land(p) \/ RefreshFails(p)
  \/ TimerFires \/ OperatorRefresh \/ Tick
  \/ \E a \in Anchors : Publish(a)
  \/ \E x \in {"absent", "unparsable", "null", "handler-record", cfg.trust.kid} : WriteRevFile(x)
  \/ RevocationTick \/ RevocationThrows \/ HandlerTick \/ RetentionSweep
  \/ \E b \in DOMAIN Batches : WriteTrigger(b)
  \/ WatcherReads \/ WatcherIngests \/ WatcherTruncates \/ TruncateFails

StartSpec == StartInit /\ [][StartNext]_startVars

\* Timers fire, time passes, a request in flight is answered and a pending
\* continuation runs; nothing is assumed of operators, issuers or failures.
StartFairness ==
  /\ WF_startVars(Tick) /\ WF_startVars(TimerFires) /\ WF_startVars(Scan)
  /\ \A p \in Slots : WF_startVars(Answer(p)) /\ WF_startVars(Land(p))
  /\ WF_startVars(RevocationTick)
  /\ WF_startVars(WatcherReads) /\ WF_startVars(WatcherIngests) /\ WF_startVars(WatcherTruncates)

FairStart == StartSpec /\ StartFairness

(***************************************************************************)
(* Properties.                                                             *)
(***************************************************************************)

PassType ==
  [kind : {"boot", "timer", "operator"},
   todo : Seq(Anchors) \ {<<>>},
   at : {"asked", "answered"}, ver : 0 .. cfg.maxVersion, left : 0 .. Lifetime,
   overlapped : BOOLEAN]

\* Type invariant of the start-up state.
StartTypeOK ==
  /\ Range(cfg.anchors) \subseteq Anchors
  /\ phase \in {"down", "booting", "up"}
  /\ booted \in BOOLEAN /\ revoked \in BOOLEAN
  /\ passes \in [Slots -> PassType \cup {NoPass}]
  /\ entries \in [Anchors -> [ver : 0 .. cfg.maxVersion, age : 0 .. Ceiling + 1,
                              left : 0 .. Lifetime]]
  /\ timer \in 0 .. Interval
  /\ Len(log) <= LogCap
  /\ trigger \in DOMAIN Batches \cup {Empty}

\* A listener that is open was vetted: on a public host no loopback-only
\* hook is active, the trust root is the pinned one over an authenticated
\* channel the second channel does not contradict, and a supplied card
\* signature chains to an anchor of the card (main's refusals, all orders).
\* The dispatch adapter is none or a confirmed test double, on any host: the
\* refusal of a test double on a public listener that a comment of main()
\* announces is not in the code, so nothing is claimed of it here.
ListensOnlyIfVetted ==
  phase # "down" =>
    /\ Public(cfg) =>
         /\ \A h \in DOMAIN cfg.hooks \ {"clock", "overlap"} : cfg.hooks[h] # "ok"
         /\ ~cfg.dynamic /\ cfg.agents = "unset" /\ ~cfg.watch
         /\ cfg.channel # "dnssec" /\ ~(cfg.tls /\ cfg.bearer)
    /\ cfg.pinned \in {"none", cfg.trust.kid}
    /\ cfg.channel = "dnssec" => cfg.trust.ad
    /\ cfg.secondary.state = "ok" =>
         cfg.secondary.kid \in {cfg.trust.kid, cfg.trust.successor}
    /\ cfg.jws = "ok" => \E a \in Range(cfg.anchors) : a \in cfg.chain
    /\ cfg.adapter \in {"none", "confirmed"}

\* The import walk refuses exactly the import graphs with a cycle reachable
\* from the entry file, a chain longer than the limit, or a second H1.
Reach(c, n) ==
  LET hop[k \in 0 .. n] ==
        IF k = 0 THEN {Root} ELSE UNION {c.imports[f] : f \in hop[k - 1]}
  IN  hop[n]
WalkMatchesGraph ==
  (phase # "down" /\ cfg.agents = "ok") =>
    ("agents-md" \notin refusals <=>
       /\ Reach(cfg, MaxImportDepth + 1) = {}
       /\ (UNION {Reach(cfg, k) : k \in 1 .. MaxImportDepth}) \cap cfg.h1 = {})

\* Every tool of the pool has one entry and a sound classification, however
\* it got there, and a name AGENTS.md denies is there only if it was added
\* dynamically (addDynamic does not know the deny list).
PoolVetted ==
  /\ \A t \in pool : WellFormed(t) /\ Classified(t)
  /\ \A t, u \in pool : t.name = u.name => t = u
  /\ \A t \in pool : t.name \in Denied(cfg) => t.source = "mcp-dynamic"

\* While a process lives, the last good list stays until a newer one lands,
\* failed refreshes included; only a refresh that was already in flight when
\* the newer list landed can bring an older one back (refreshes of one
\* anchor are not ordered).
LastGoodStays ==
  [][\A a \in Anchors :
       (phase' # "down" /\ entries'[a].ver < entries[a].ver) =>
         \E p \in Slots : /\ passes[p].kind # "idle"
                          /\ Head(passes[p].todo) = a
                          /\ passes[p].overlapped]_startVars

\* A boot() that failed is final: refreshes by timer or operator that fill
\* the cache later never make that process ready.
FailedBootSticks ==
  [][(phase = "up" /\ ~booted /\ phase' # "down") => ~Ready']_startVars

\* Once the poller has seen its publisher revoked, the process is not ready
\* again and its row is not written twice, whatever the file says later.
RevokedStaysUnready ==
  [][(revoked /\ phase' # "down") =>
       /\ ~Ready'
       /\ Cardinality({i \in DOMAIN log' : log'[i] = "bootstrap-revoked"}) <= 1]_startVars

\* A process refused for life can be asked why: the row of each refusal is
\* in the log unless the ring has wrapped, and the log can be read.
RefusalExplained ==
  phase # "down" =>
    \A r \in refusals \cup (IF revoked THEN {"bootstrap-revoked"} ELSE {}) :
      /\ r \in Range(log) \/ Len(log) = LogCap
      /\ cfg.bearer => LogReadable

\* A booted process whose lists went stale becomes ready again by itself
\* once refreshes succeed, unless it is stopped, revoked or held back by
\* another gate.
Unpinned == refusals = {} /\ ~cfg.sinkHalted /\ cfg.memory # "down"
ReadyAgain ==
  (phase = "up" /\ booted /\ Unpinned) ~> (Ready \/ revoked \/ phase = "down")

\* A batch found by a resting watcher is ingested whole: every entry that
\* could be added is in the pool, a malformed neighbour notwithstanding,
\* unless the file was overwritten or the process ended first.
BatchIngested ==
  \A b \in DOMAIN Batches :
    (phase = "up" /\ cfg.registry /\ cfg.dynamic /\ watcher.at = "idle" /\ trigger = b)
      ~> \/ phase = "down" \/ trigger \notin {b, Empty}
         \/ \A i \in DOMAIN Batches[b] :
              WellFormed(Batches[b][i]) /\ Classified(Batches[b][i])
                => \E t \in pool : t.name = Batches[b][i].name

\* A listener that is open: vetted on its way through main(), with a sound pool of tools,
\* and able to say why it is refused.
ListenerInv ==
  StartTypeOK /\ ListensOnlyIfVetted /\ WalkMatchesGraph /\ PoolVetted /\ RefusalExplained

\* What refreshes and polls may do to readiness: no step loses the last good list,
\* completes a failed boot or takes back a revocation.
ReadinessHolds == LastGoodStays /\ FailedBootSticks /\ RevokedStaysUnready

\* What a running process does by itself in the end: it becomes ready again and it
\* takes in the tools it was given.
KeepsUp == ReadyAgain /\ BatchIngested
=============================================================================
