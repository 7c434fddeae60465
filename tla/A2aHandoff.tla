----------------------------- MODULE A2aHandoff -----------------------------
(***************************************************************************)
(* The Agent2Agent endpoint POST /a2a/v1: the task registry with its       *)
(* timers and deadlines (a2a/plugin.ts), the JWT profile with its replay   *)
(* cache (a2a/jwt.ts), the caller's card cache (a2a/signer-discovery.ts),  *)
(* capability matching (a2a/matching.ts) and the digest check              *)
(* (a2a/digest-check.ts).                                                  *)
(*                                                                         *)
(* Time is the variable clock in ticks, TicksPerS of them to a second: the *)
(* code's nowFn() is Now, the floor in seconds, while setTimeout counts    *)
(* ticks.  A request is authenticated across awaits and then handled in    *)
(* one step.                                                               *)
(***************************************************************************)
EXTENDS Integers, FiniteSets

CONSTANTS
    Tasks,              \* task ids
    Callers,            \* requests that may be in flight
    Contents,           \* what messages and workflow hash to
    Capabilities,       \* capability tokens
    Served,             \* the receiver's a2a.capabilities
    Jtis,               \* what tokens are named by
    Tokens,             \* JWTs: records, see TokenType
    None,
    TicksPerS,          \* ticks in a second
    Retention,          \* transfer_s: how long an offer is kept
    Deadline,           \* task_execution_s
    MaxLifetime,        \* A2A_JWT_MAX_LIFETIME_S
    ClockSkew,          \* A2A_JWT_DEFAULT_CLOCK_SKEW_S
    JtiExtra,           \* A2A_JWT_JTI_RETENTION_EXTRA_S
    CardTtl,            \* A2A_CARD_CACHE_TTL_S
    FetchTimeout,       \* A2A_CARD_FETCH_TOTAL_TIMEOUT_MS, in ticks
    Options,            \* ways to register the plugin, see OptionType
    MaxClock,           \* bound on clock
    MaxCards,           \* bound on versions of the caller's card
    MaxLate,            \* ticks the event loop may run behind a timer
    MaxCrashes,         \* bound on restarts
    MaxArrivals         \* bound on requests with a JWT

\* A token: exp and iat in seconds; sound: decodes, has an allowed alg, every
\* claim with its type and the right audience; genuine: the signature is by
\* the key on the caller's card; mtls: x5t#S256 matches the peer certificate;
\* etag: the card version it presents.
TokenType == [jti : Jtis, iat : Nat, exp : Nat, sound : BOOLEAN,
              genuine : BOOLEAN, mtls : BOOLEAN, etag : 1..MaxCards]

\* How the plugin was registered: bearer or JWT, with the drift check, the
\* deadline hook, auto = SOA_A2A_AUTO_EXECUTE_AFTER_S (0 when unset), and
\* whether SOA_A2A_TASK_DEADLINE_S is junk: not a number.
OptionType == [auth : {"bearer", "jwt"}, drift : BOOLEAN, hook : BOOLEAN, auto : Nat,
               junk : BOOLEAN]

Terminal == {"completed", "failed", "timed-out", "rejected"}
Statuses == {"accepted", "executing"} \cup Terminal

Stamp == Nat \cup {None}

\* A2aTaskRow, its offer, the pair of timers of a task, and a cached card
OfferType == [content : Contents, at : Nat]
RowType == [status : Statuses, offer : OfferType \cup {None}, acceptedAtS : Stamp]
PairType == [first : Stamp, second : Nat]
CardType == [version : 1..MaxCards, cachedAt : Nat]

ASSUME A2aAssumption ==
    /\ TicksPerS \in Nat \ {0} /\ Retention \in Nat /\ Deadline \in Nat \ {0}
    /\ {MaxLifetime, ClockSkew, JtiExtra, FetchTimeout} \subseteq Nat /\ CardTtl \in Nat \ {0}
    /\ Served \subseteq Capabilities /\ Tokens \subseteq TokenType /\ Options \subseteq OptionType
    /\ MaxClock \in Nat /\ MaxCards \in Nat \ {0}
    /\ MaxLate \in 0..TicksPerS /\ MaxCrashes \in Nat /\ MaxArrivals \in Nat

ASSUME NoneAssumption ==
    None \notin Nat \cup Statuses /\ None \notin RowType \cup OfferType \cup PairType \cup CardType

VARIABLES
    opt,        \* how the plugin was registered
    clock,      \* ticks
    tasks,      \* the registry: A2aTaskRow or None
    auto,       \* autoExecuteTimers: due ticks of the pair, or None
    eager,      \* taskDeadlineTimers: due tick, or None
    jtis,       \* JtiReplayCache: retainUntil, or None
    cards,      \* CallerCardCache: version and cachedAt, or None
    peer,       \* external: the version of the card the caller serves
    job,        \* requests in flight
    crashes,
    arrivals,   \* requests with a JWT so far
    \* history
    current,    \* the last tick each card version was served
    verified,   \* tokens that passed verification
    begun,      \* tick of the first transfer accepted for each task
    accepted,   \* tick of the last one
    returned,   \* tasks whose return was acknowledged
    ended,      \* tick of the last SessionEnd(MaxTurns) of each task
    told        \* what handoff.status last said of each task

registryVars == <<tasks, auto, eager>>
authVars == <<jtis, cards>>
historyVars == <<begun, accepted, returned, ended, told>>
vars == <<opt, clock, tasks, auto, eager, jtis, cards, peer, job, crashes, arrivals,
          current, verified, begun, accepted, returned, ended, told>>

Sec(t) == t \div TicksPerS
Now == Sec(clock)

Idle == [at |-> "idle"]

\* The collision guard of server.ts refuses to start unless 2N seconds are less
\* than the deadline.  It parses the variable itself: junk is NaN there, which
\* no comparison refuses, while the plugin falls back to the default deadline.
AutoAllowed(o) == o.auto = 0 \/ o.junk \/ 2 * o.auto < Deadline

Init ==
    /\ opt \in {o \in Options : AutoAllowed(o)}
    /\ clock = 0
    /\ tasks = [t \in Tasks |-> None]
    /\ auto = [t \in Tasks |-> None]
    /\ eager = [t \in Tasks |-> None]
    /\ jtis = [j \in Jtis |-> None]
    /\ cards = None
    /\ peer = 1
    /\ job = [r \in Callers |-> Idle]
    /\ crashes = 0
    /\ arrivals = 0
    /\ current = [v \in 1..MaxCards |-> 0]
    /\ verified = {}
    /\ begun = [t \in Tasks |-> None]
    /\ accepted = [t \in Tasks |-> None]
    /\ returned = {}
    /\ ended = [t \in Tasks |-> None]
    /\ told = [t \in Tasks |-> None]

-----------------------------------------------------------------------------
(* The registry.  record() refuses to leave a stored terminal status;      *)
(* recordOffer() keeps the status; get() computes timed-out on read.       *)

Row(t) == tasks[t]

Record(t, status, at) ==
    IF Row(t) # None /\ Row(t).status \in Terminal
    THEN tasks
    ELSE [tasks EXCEPT ![t] =
            [status |-> status,
             offer |-> IF Row(t) = None THEN None ELSE Row(t).offer,
             acceptedAtS |-> IF at # None THEN at
                             ELSE IF Row(t) = None THEN None
                             ELSE Row(t).acceptedAtS]]

RecordOffer(t, content) ==
    [tasks EXCEPT ![t] =
        [status |-> IF Row(t) = None THEN "accepted" ELSE Row(t).status,
         offer |-> [content |-> content, at |-> Now],
         acceptedAtS |-> IF Row(t) = None THEN None ELSE Row(t).acceptedAtS]]

GetOfferMetadata(t) ==
    IF Row(t) = None \/ Row(t).offer = None \/ Now - Row(t).offer.at > Retention
    THEN None ELSE Row(t).offer

Get(t) ==
    IF /\ Row(t).acceptedAtS # None
       /\ Row(t).status \notin Terminal
       /\ Now - Row(t).acceptedAtS > Deadline
    THEN "timed-out" ELSE Row(t).status

RescheduleAutoExecute(t) ==
    IF opt.auto = 0 THEN auto
    ELSE [auto EXCEPT ![t] = [first |-> clock + opt.auto * TicksPerS,
                              second |-> clock + 2 * opt.auto * TicksPerS]]

ScheduleAutoExecute(t) ==
    IF opt.auto = 0 \/ auto[t] # None THEN auto
    ELSE [auto EXCEPT ![t] = [first |-> clock + opt.auto * TicksPerS,
                              second |-> clock + 2 * opt.auto * TicksPerS]]

-----------------------------------------------------------------------------
(* Capability matching.  needed is None for a value that is not an array,  *)
(* is too long or has an entry that is not a non-empty string.             *)

MatchA2aCapabilities(needed) ==
    CASE needed = None -> "wire-incompatible"
      [] needed = {} -> "accept"
      [] needed # None /\ needed # {} /\ Served = {} -> "reject-no-capabilities"
      [] OTHER -> IF needed \subseteq Served THEN "accept" ELSE "capability-mismatch"

(* The five methods, each one step of the handler.                         *)

\* handoff.offer; a malformed task id, summary or digest is refused, as
\* needed = None is, and leaves the registry alone.
HandoffOffer ==
    /\ \E t \in Tasks, content \in Contents, needed \in (SUBSET Capabilities) \cup {None} :
          tasks' = IF MatchA2aCapabilities(needed) = "accept"
                   THEN RecordOffer(t, content) ELSE tasks
    /\ UNCHANGED <<auto, eager, historyVars>>

CheckTransferDigests(offer, content) ==
    IF offer = None THEN "missing-offer-state"
    ELSE IF offer.content = content THEN "accept" ELSE "digest-mismatch"

\* handoff.transfer: the content must hash to what a retained offer advertised
\* (checkTransferDigests).  The accept path stamps the task, schedules the
\* execute hook and replaces the eager deadline timer.
HandoffTransfer ==
    \E t \in Tasks, content \in Contents :
        IF CheckTransferDigests(GetOfferMetadata(t), content) # "accept"
        THEN UNCHANGED <<registryVars, historyVars>>
        ELSE /\ tasks' = Record(t, "accepted", Now)
             /\ auto' = ScheduleAutoExecute(t)
             /\ eager' = IF opt.hook
                         THEN [eager EXCEPT ![t] = clock + Deadline * TicksPerS]
                         ELSE eager
             /\ begun' = IF begun[t] = None THEN [begun EXCEPT ![t] = clock] ELSE begun
             /\ accepted' = [accepted EXCEPT ![t] = clock]
             /\ UNCHANGED <<returned, ended, told>>

\* handoff.status: reads, with the deadline computed on read.
HandoffStatus ==
    \E t \in Tasks :
        /\ told' = IF Row(t) = None THEN told ELSE [told EXCEPT ![t] = Get(t)]
        /\ UNCHANGED <<registryVars, begun, accepted, returned, ended>>

\* handoff.return cancels the deadline timer even when its digest is malformed,
\* and then, when it is well formed, the execute hook, and completes the task.
HandoffReturn ==
    \E t \in Tasks, wellFormed \in BOOLEAN :
        /\ eager' = [eager EXCEPT ![t] = None]
        /\ IF wellFormed
           THEN /\ auto' = [auto EXCEPT ![t] = None]
                /\ tasks' = Record(t, "completed", None)
                /\ returned' = returned \cup {t}
           ELSE UNCHANGED <<auto, tasks, returned>>
        /\ UNCHANGED <<begun, accepted, ended, told>>

\* agent.describe, an unknown method and malformed parameters change nothing.
AgentDescribe == UNCHANGED <<registryVars, historyVars>>

Dispatch ==
    HandoffOffer \/ HandoffTransfer \/ HandoffStatus \/ HandoffReturn \/ AgentDescribe

-----------------------------------------------------------------------------
(* Authentication.                                                         *)

\* Bearer mode: the token is compared and the method runs, without an await.
BearerRequest ==
    /\ opt.auth = "bearer"
    /\ Dispatch
    /\ UNCHANGED <<opt, arrivals, clock, authVars, peer, job, crashes, current, verified>>

\* has(): expired entries are pruned first.
Pruned == [j \in Jtis |->
              IF jtis[j] # None /\ jtis[j] <= Now THEN None ELSE jtis[j]]

RegisterShort(k) == [jtis EXCEPT ![k.jti] = k.iat + 1]

Register(k) == [jtis EXCEPT ![k.jti] = k.exp + JtiExtra]

ClaimsHold(k) ==
    /\ k.sound
    /\ k.exp - k.iat <= MaxLifetime
    /\ k.exp > Now
    /\ k.iat <= Now + ClockSkew

\* Steps 1 and 3: claims and the replay check, before the first await.
JwtArrives(r, k) ==
    /\ opt.auth = "jwt"
    /\ job[r] = Idle
    /\ arrivals < MaxArrivals
    /\ arrivals' = arrivals + 1
    /\ IF ClaimsHold(k)
       THEN /\ jtis' = Pruned
            /\ job' = [job EXCEPT ![r] =
                  IF Pruned[k.jti] # None THEN Idle
                  ELSE [at |-> "resolve", tok |-> k, used |-> k \in verified]]
       ELSE UNCHANGED <<jtis, job>>
    /\ UNCHANGED <<opt, clock, registryVars, cards, peer, crashes, current, verified,
                   historyVars>>

CachedLonger == IF cards # None /\ Now - cards.cachedAt > CardTtl THEN None ELSE cards

Cached == IF cards # None /\ Now - cards.cachedAt >= CardTtl THEN None ELSE cards

\* loadCallerCard() for the signing key (step 2) or the drift check (step 4):
\* a hit goes on at once, a miss starts a fetch.  The peer certificate is
\* tried first and needs no card.
Loaded(r, next) ==
    job' = [job EXCEPT ![r] =
        IF Cached = None
        THEN [at |-> "fetch", tok |-> job[r].tok, used |-> job[r].used,
              next |-> next, began |-> clock, seen |-> None]
        ELSE [at |-> next, tok |-> job[r].tok, used |-> job[r].used,
              version |-> Cached.version]]

ResolveKey(r) ==
    /\ job[r].at = "resolve"
    /\ IF job[r].tok.mtls
       THEN /\ job' = [job EXCEPT ![r] = [at |-> "verify", tok |-> job[r].tok,
                                          used |-> job[r].used, version |-> 0]]
            /\ UNCHANGED cards
       ELSE /\ Loaded(r, "verify")
            /\ cards' = Cached
    /\ UNCHANGED <<opt, arrivals, clock, registryVars, jtis, peer, crashes, current, verified,
                   historyVars>>

\* The caller's server answers with the card it serves now ...
CardAnswered(r) ==
    /\ job[r].at = "fetch" /\ job[r].seen = None
    /\ job' = [job EXCEPT ![r].seen = peer]
    /\ UNCHANGED <<opt, arrivals, clock, registryVars, authVars, peer, crashes, current, verified,
                   historyVars>>

\* ... and fetchCallerCard() returns it within its timeout and caches it.
CardFetched(r) ==
    /\ job[r].at = "fetch" /\ job[r].seen # None
    /\ clock - job[r].began <= FetchTimeout
    /\ cards' = [version |-> job[r].seen, cachedAt |-> Now]
    /\ job' = [job EXCEPT ![r] = [at |-> job[r].next, tok |-> job[r].tok,
                                  used |-> job[r].used, version |-> job[r].seen]]
    /\ UNCHANGED <<opt, arrivals, clock, registryVars, jtis, peer, crashes, current, verified,
                   historyVars>>

\* The fetch failed, was aborted, or returned an invalid card or signature.
CardUnreachable(r) ==
    /\ job[r].at = "fetch"
    /\ job' = [job EXCEPT ![r] = Idle]
    /\ UNCHANGED <<opt, arrivals, clock, registryVars, authVars, peer, crashes, current, verified,
                   historyVars>>

\* jwtVerify(); the jti is registered only after the signature holds.  With no
\* drift check the request is handled in the same step.
JwtVerify(r) ==
    LET k == job[r].tok IN
    /\ job[r].at = "verify"
    /\ jtis' = IF k.genuine THEN Register(k) ELSE jtis
    /\ verified' = IF k.genuine THEN verified \cup {k} ELSE verified
    /\ IF k.genuine /\ opt.drift
       THEN Loaded(r, "drift") /\ cards' = Cached
       ELSE job' = [job EXCEPT ![r] = Idle] /\ UNCHANGED cards
    /\ IF k.genuine /\ ~opt.drift THEN Dispatch ELSE UNCHANGED <<registryVars, historyVars>>
    /\ UNCHANGED <<opt, arrivals, clock, peer, crashes, current>>

\* checkAgentCardEtagDrift(), then the method.
DriftChecked(r) ==
    /\ job[r].at = "drift"
    /\ job' = [job EXCEPT ![r] = Idle]
    /\ IF job[r].tok.etag = job[r].version
       THEN Dispatch ELSE UNCHANGED <<registryVars, historyVars>>
    /\ UNCHANGED <<opt, arrivals, clock, authVars, peer, crashes, current, verified>>

-----------------------------------------------------------------------------
(* Timers.  Each fires at or after its due tick.                           *)

AutoExecuting(t) ==
    /\ auto[t] # None /\ auto[t].first # None /\ auto[t].first <= clock
    /\ tasks' = Record(t, "executing", None)
    /\ auto' = [auto EXCEPT ![t].first = None]
    /\ UNCHANGED <<opt, arrivals, clock, eager, authVars, peer, job, crashes, current, verified,
                   historyVars>>

AutoCompleted(t) ==
    /\ auto[t] # None /\ auto[t].first = None /\ auto[t].second <= clock
    /\ tasks' = Record(t, "completed", None)
    /\ auto' = [auto EXCEPT ![t] = None]
    /\ UNCHANGED <<opt, arrivals, clock, eager, authVars, peer, job, crashes, current, verified,
                   historyVars>>

\* The eager deadline timer reads the status with the deadline applied, and
\* emits SessionEnd only for one that is not terminal.
TaskDeadlineBlind(t) ==
    /\ eager[t] # None /\ eager[t] <= clock
    /\ eager' = [eager EXCEPT ![t] = None]
    /\ ended' = [ended EXCEPT ![t] = clock]
    /\ UNCHANGED <<opt, arrivals, clock, tasks, auto, authVars, peer, job, crashes, current, verified,
                   begun, accepted, returned, told>>

TaskDeadline(t) ==
    /\ eager[t] # None /\ eager[t] <= clock
    /\ eager' = [eager EXCEPT ![t] = None]
    /\ ended' = IF Row(t) # None /\ Get(t) \notin Terminal
                THEN [ended EXCEPT ![t] = clock] ELSE ended
    /\ UNCHANGED <<opt, arrivals, clock, tasks, auto, authVars, peer, job, crashes, current, verified,
                   begun, accepted, returned, told>>

Overdue(due) == due # None /\ due + MaxLate <= clock

\* external: time passes, unless the event loop would be later than MaxLate; a
\* loaded card is compared in the same turn of the loop
Tick ==
    /\ clock < MaxClock
    /\ \A r \in Callers : job[r].at # "drift"
    /\ \A t \in Tasks : /\ ~Overdue(eager[t])
                        /\ auto[t] # None => /\ ~Overdue(auto[t].first)
                                             /\ ~Overdue(auto[t].second)
    /\ clock' = clock + 1
    /\ current' = [current EXCEPT ![peer] = clock + 1]
    /\ UNCHANGED <<opt, arrivals, registryVars, authVars, peer, job, crashes, verified, historyVars>>

\* external: the caller publishes a new card
RotateCard ==
    /\ peer < MaxCards
    /\ peer' = peer + 1
    /\ current' = [current EXCEPT ![peer + 1] = clock]
    /\ UNCHANGED <<opt, arrivals, clock, registryVars, authVars, job, crashes, verified, historyVars>>

\* A restart loses the registry, the timers and the caches.
Restart ==
    /\ crashes < MaxCrashes
    /\ crashes' = crashes + 1
    /\ tasks' = [t \in Tasks |-> None]
    /\ auto' = [t \in Tasks |-> None]
    /\ eager' = [t \in Tasks |-> None]
    /\ jtis' = [j \in Jtis |-> None]
    /\ cards' = None
    /\ job' = [r \in Callers |-> Idle]
    /\ verified' = {}
    /\ begun' = [t \in Tasks |-> None]
    /\ accepted' = [t \in Tasks |-> None]
    /\ returned' = {}
    /\ ended' = [t \in Tasks |-> None]
    /\ told' = [t \in Tasks |-> None]
    /\ UNCHANGED <<opt, arrivals, clock, peer, current>>

Next ==
    \/ BearerRequest
    \/ \E r \in Callers :
          \/ \E k \in Tokens : JwtArrives(r, k)
          \/ ResolveKey(r) \/ CardAnswered(r) \/ CardFetched(r) \/ CardUnreachable(r)
          \/ JwtVerify(r) \/ DriftChecked(r)
    \/ \E t \in Tasks : AutoExecuting(t) \/ AutoCompleted(t) \/ TaskDeadline(t)
    \/ Tick \/ RotateCard \/ Restart

Spec == Init /\ [][Next]_vars

-----------------------------------------------------------------------------
\* Every row, timer, cache entry and request has the shape the code gives it.
TypeOK ==
    /\ clock \in 0..MaxClock
    /\ \A t \in Tasks :
          /\ tasks[t] \in RowType \cup {None}
          /\ auto[t] \in PairType \cup {None}
          /\ eager[t] \in Stamp
          /\ {begun[t], accepted[t], ended[t]} \subseteq Stamp
          /\ told[t] \in Statuses \cup {None}
    /\ cards \in CardType \cup {None}
    /\ peer \in 1..MaxCards
    /\ crashes \in 0..MaxCrashes
    /\ returned \subseteq Tasks

\* With the destination execute hook on, a task is completed no later than 2N
\* seconds (and the event loop's delay) after its first accepted transfer,
\* however often the transfer is repeated: scheduleAutoExecute does not
\* reschedule, and record("accepted") of a duplicate does not stop the pair.
AutoExecuteCompletes ==
    \A t \in Tasks :
        opt.auto > 0 /\ begun[t] # None
            /\ clock > begun[t] + 2 * opt.auto * TicksPerS + MaxLate
        => Row(t).status = "completed"

\* The collision guard of server.ts keeps the hook ahead of the deadline: a
\* task that executes by itself is never reported as timed out, although the
\* deadline is compared in whole seconds and the timers run late.  (Not so when
\* the deadline variable is junk: the guard then lets any N pass.)
AutoBeatsDeadline ==
    \A t \in Tasks : opt.auto > 0 /\ ~opt.junk => told[t] # "timed-out"

\* Once handoff.status has reported completed, it reports nothing else until a
\* restart: not after a repeated offer, a duplicate transfer or a late timer.
CompletedStays ==
    [][\A t \in Tasks : told[t] = "completed" /\ crashes' = crashes
                        => told'[t] = "completed"]_vars

\* SessionEnd(MaxTurns) is emitted for a task only when a whole deadline has
\* passed since its last accepted transfer, and never after its return, even
\* when a transfer repeated after the return started a timer again.
EndIsDue ==
    [][\A t \in Tasks : ended'[t] # ended[t] /\ crashes' = crashes
          => /\ t \notin returned
             /\ clock >= accepted[t] + Deadline * TicksPerS]_vars

\* A token that has been verified is refused on arrival until it expires:
\* retention outlives the token.  (Two requests that overlap may both pass: the
\* check is before the awaits, the registration after them.)
VerifiedNotReplayed ==
    \A r \in Callers : job[r] # Idle => ~job[r].used

\* Only a verified signature burns a jti: a forged token that names the jti of
\* a genuine one does not lead to its refusal as a replay.
OnlyVerifiedBurnsJti ==
    \A j \in Jtis : jtis[j] # None => \E k \in verified : k.jti = j

\* With the drift check on, a request whose etag matches presents a card that
\* was served less than the cache's time to live plus one fetch ago, whichever
\* of two overlapping fetches filled the cache last.
EtagIsRecent ==
    \A r \in Callers :
        job[r].at = "drift" /\ job[r].tok.etag = job[r].version
        => clock - current[job[r].version] < CardTtl * TicksPerS + FetchTimeout

\* The two timers of a task together: execution completes, in time, and ahead of
\* the deadline (plugin.ts 103-140 and 189-214).
TimerInv == TypeOK /\ AutoExecuteCompletes /\ AutoBeatsDeadline

\* The jti cache of jwt.ts refuses what it must, and only that.
JtiCacheExact == VerifiedNotReplayed /\ OnlyVerifiedBurnsJti

\* How a task ends (plugin.ts): completed is final, and the end that is announced is due.
TaskEnds == CompletedStays /\ EndIsDue
=============================================================================
