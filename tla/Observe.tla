------------------------------ MODULE Observe -------------------------------
(***************************************************************************)
(* Observe: how the outside learns what the Runner did, by polling.  A     *)
(* client follows one endpoint page by page while records are written to   *)
(* the store behind it, rings drop their oldest, sessions end, its bearer  *)
(* expires and the rate limiter refuses it.                                *)
(*                                                                         *)
(* The stores are independent of each other, so a behaviour writes to one: *)
(* the one behind the endpoint that Init picks, what its client may read.  *)
(***************************************************************************)
EXTENDS Integers, Sequences, FiniteSets

CONSTANTS
    Sessions,       \* numbers: session ids are compared as strings
    Target,         \* the session_id the client asks for
    Types, Asked,   \* event types or log categories, and the one a filter asks for
    None,
    Cap,            \* maxEventsPerSession and its like
    Limit, AdminLimit,  \* requests per window
    Window, Second, \* WINDOW_MS and a second, in clock units
    Ttl,            \* of a reader token, in clock units
    MaxPage,        \* largest limit asked for
    Unfit,          \* types whose records the schema of the response refuses
    MaxClock, MaxRecords, MaxTokens     \* bounds

ASSUME ObserveAssumption ==
    /\ Sessions \subseteq Nat \ {0} /\ Target \in Sessions
    /\ Asked \in Types /\ Unfit \subseteq Types /\ None \notin Types \cup Nat
    /\ {Cap, Limit, AdminLimit, Window, Second, Ttl, MaxPage} \subseteq Nat \ {0}
    /\ {MaxClock, MaxRecords, MaxTokens} \subseteq Nat
    /\ Window % Second = 0

SessionPaged == {"events", "system-log", "otel-spans"}
GlobalPaged == {"audit-records", "sink-events"}
Paged == SessionPaged \cup GlobalPaged
SessionStatus == {"budget", "memory-state"}
GlobalStatus == {"audit-tail", "backpressure", "tools", "key-storage"}
Surfaces == Paged \cup SessionStatus \cup GlobalStatus

\* Whose bearer: of the session asked for, of another session, the bootstrap
\* or operator one, a reader token, none.
Bearers == {"owner", "stranger", "operator", "reader", "none"}

Global == 0     \* where stores that are not per session keep their records

VARIABLES
    surface, who, all, filter,  \* the client: endpoint, bearer, session omitted, type
    skipGate,   \* skipReadinessGate, set at boot and for the system log alone
    ready,      \* what the composite probe answers
    live,       \* SessionStore
    store,      \* the records of each session, or Global
    clock,      \* what records are stamped with
    window,     \* the limiter's timestamps for this bearer, as ages, oldest first
    life,       \* of the reader token; 0 when there is none or it expired
    tokens,     \* minted
    call,       \* "idle", "sent" or "inside" (past the onRequest hook)
    code,       \* of the last reply
    anchor,     \* the next_after the client follows, or None
    seen,       \* what it was given since it last started from the oldest, to its anchor
    loose,      \* and past it: a page that came without a next_after
    \* history
    wrote,      \* every record written
    wait        \* what is left of the last Retry-After, None when it is void

client == <<surface, who, all, filter, skipGate>>
poll == <<call, code, anchor, seen, loose, window, wait>>
place == <<anchor, seen, loose>>
vars == <<client, ready, live, store, clock, life, tokens, poll, wrote>>

Owners == Sessions \cup {Global}
Codes == {0, 200, 401, 403, 404, 429, 500, 503}

Init ==
    /\ surface \in Surfaces /\ who \in Bearers /\ all \in BOOLEAN /\ filter \in {Asked, None}
    /\ all => surface = "events" /\ who = "operator"
    /\ filter # None => surface \in {"events", "system-log"}
    /\ skipGate \in BOOLEAN /\ (skipGate => surface = "system-log")
    /\ ready = FALSE /\ live = Sessions
    /\ store = [s \in Owners |-> <<>>]
    /\ clock = 0 /\ window = <<>> /\ life = 0 /\ tokens = 0
    /\ call = "idle" /\ code = 0 /\ anchor = None /\ seen = <<>> /\ loose = <<>>
    /\ wrote = <<>> /\ wait = None

-----------------------------------------------------------------------------
(* Stores.                                                                 *)

\* push, and shift() when the cap is passed
Push(ring, r) == IF Len(ring) < Cap THEN Append(ring, r) ELSE Append(Tail(ring), r)

Record(s, ty, n) == [id |-> Len(wrote) + n, sess |-> s, ts |-> clock, type |-> ty]

Room(n) == Len(wrote) + n <= MaxRecords

\* Only what the client could come to read is written: records of its session
\* or, in the merged list, of any.  Types the client does not ask for, and unfit
\* ones if it filters none, are written while the ring fills.
Matters(s, ty) ==
    /\ who \in {"owner", "operator"}
    /\ all \/ s = Target
    /\ ty # Asked => /\ s = Target /\ Len(wrote) < Cap
                     /\ filter = None => ~all /\ ty \in Unfit

NotStore == UNCHANGED <<client, ready, live, clock, life, tokens, poll>>

\* StreamEventEmitter.emit(); a type outside the enum throws and stores nothing
Emit(s, ty) ==
    /\ surface = "events" /\ Room(1) /\ Matters(s, ty)
    /\ store' = [store EXCEPT ![s] = Push(@, Record(s, ty, 1))]
    /\ wrote' = Append(wrote, Record(s, ty, 1))
    /\ NotStore

\* SystemLogBuffer.write()
WriteLog(s, ty) ==
    /\ surface = "system-log" /\ Room(1) /\ Matters(s, ty)
    /\ store' = [store EXCEPT ![s] = Push(@, Record(s, ty, 1))]
    /\ wrote' = Append(wrote, Record(s, ty, 1))
    /\ NotStore

\* emitDecisionSpans(): the turn and its child, one after the other
EmitDecisionSpans(s) ==
    /\ surface = "otel-spans" /\ Room(2) /\ Matters(s, Asked)
    /\ store' = [store EXCEPT ![s] = Push(Push(@, Record(s, "turn", 1)), Record(s, "tool", 2))]
    /\ wrote' = wrote \o <<Record(s, "turn", 1), Record(s, "tool", 2)>>
    /\ NotStore

\* AuditChain.append(), without a cap.  The rows of the dispatcher are appended
\* without an id (id, in the model, is the place in the chain).
ChainAppend ==
    /\ surface = "audit-records" /\ Room(1) /\ who \in {"owner", "reader"}
    /\ \E ty \in {"row", "dispatch"} :
          /\ store' = [store EXCEPT ![Global] = Append(@, Record(Global, ty, 1))]
          /\ wrote' = Append(wrote, Record(Global, ty, 1))
    /\ NotStore

\* Every record has an id but a row of the dispatcher.
HasId(r) == surface = "audit-records" => r.type # "dispatch"

\* AuditSink.pushEvent(), without a cap
SinkEvent ==
    /\ surface = "sink-events" /\ Room(1) /\ who = "owner"
    /\ store' = [store EXCEPT ![Global] = Append(@, Record(Global, "sink", 1))]
    /\ wrote' = Append(wrote, Record(Global, "sink", 1))
    /\ NotStore

\* terminateSession(): SessionStore.revoke(); the records stay.  Sessions end
\* that the client's bearer, or the endpoint, is of.
EndSession(s) ==
    /\ s \in live /\ (who = "stranger" \/ (who = "owner" /\ s = Target)) /\ live' = live \ {s}
    /\ UNCHANGED <<client, ready, store, clock, life, tokens, poll, wrote>>

\* POST /audit/reader-tokens with the operator's bearer
MintToken ==
    /\ who = "reader" /\ ready /\ tokens < MaxTokens /\ life = 0 /\ call = "idle"
    /\ tokens' = tokens + 1 /\ life' = Ttl
    /\ UNCHANGED <<client, ready, live, store, clock, poll, wrote>>

\* All probes of the composite have become ready,
Boots ==
    /\ ~ready /\ ready' = TRUE
    /\ UNCHANGED <<client, live, store, clock, life, tokens, poll, wrote>>

\* and one of them no longer is: the audit sink cannot be reached, or the anchor
\* the Runner booted from was revoked.  The merged list is left out of it, a bound.
ReadinessFalls ==
    /\ ready /\ ~all /\ ready' = FALSE
    /\ UNCHANGED <<client, live, store, clock, life, tokens, poll, wrote>>

CountDown(n) == IF n > 0 THEN n - 1 ELSE 0

\* filter() of the limiter: the oldest come first, so the fresh ones are the last.
Fresh(ages) ==
    SubSeq(ages, 1 + Cardinality({i \in DOMAIN ages : ages[i] >= Window}), Len(ages))

\* Stamps, which only the merged list is ordered by, stop at MaxClock; ages and
\* lives go on.
Tick ==
    /\ clock' = IF all /\ clock < MaxClock THEN clock + 1 ELSE clock
    /\ window' = Fresh([i \in DOMAIN window |-> window[i] + 1])
    /\ life' = CountDown(life)
    /\ wait' = IF wait = None THEN None ELSE CountDown(wait)
    /\ UNCHANGED <<client, ready, live, store, tokens, call, code, place, wrote>>

-----------------------------------------------------------------------------
(* The request.                                                            *)

Untouched == UNCHANGED <<client, ready, live, store, clock, life, tokens, wrote>>

\* The client asks again whatever the last answer was.
Send ==
    /\ call = "idle" /\ call' = "sent"
    /\ Untouched /\ UNCHANGED <<code, place, window, wait>>

Refuse(n) == call' = "idle" /\ code' = n /\ UNCHANGED <<place, window, wait>>

\* readerAllowedPath()
ReaderAllowed == {"audit-tail", "audit-records"}

\* makeReaderScopeGuard(): an onRequest hook, awaited before the route
ReaderScopeGuard ==
    /\ call = "sent"
    /\ Untouched
    /\ \/ who # "reader" /\ call' = "inside" /\ UNCHANGED <<code, place, window, wait>>
       \/ who = "reader" /\ life = 0 /\ Refuse(401)
       \/ who = "reader" /\ life > 0 /\ surface \notin ReaderAllowed /\ Refuse(403)
       \/ /\ who = "reader" /\ life > 0 /\ surface \in ReaderAllowed
          /\ call' = "inside" /\ UNCHANGED <<code, place, window, wait>>

\* What every route asks first.
Enter(r) == call = "inside" /\ surface = r /\ Untouched

Gated == ~ready /\ ~skipGate
Unready == Gated /\ Refuse(503)
NoBearer == ~Gated /\ who = "none" /\ Refuse(401)
Admitted == ~Gated /\ who # "none"

\* anySession(): whatever session it is of
AnySession ==
    \/ who = "owner" /\ Target \in live
    \/ who = "stranger" /\ live \ {Target} # {}

PerMinute == IF surface = "events" /\ who = "operator" THEN AdminLimit ELSE Limit

\* Math.max(1, Math.ceil(...)), in seconds
RetryAfter(oldest) == (Window - oldest + Second - 1) \div Second

\* PerBearerLimiter.consume()
Limited ==
    /\ Len(window) >= PerMinute
    /\ call' = "idle" /\ code' = 429
    /\ wait' = Second * RetryAfter(window[1])
    /\ UNCHANGED <<place, window>>

Consume == Len(window) < PerMinute /\ window' = Append(window, 0) /\ wait' = None

Deny(n) == Consume /\ call' = "idle" /\ code' = n /\ UNCHANGED place

\* The order of the merged list: (emitted_at, session_id, sequence)
Before(q, r) ==
    \/ q.ts < r.ts
    \/ q.ts = r.ts /\ q.sess < r.sess
    \/ q.ts = r.ts /\ q.sess = r.sess /\ q.id < r.id

Retained == UNION {{store[s][i] : i \in DOMAIN store[s]} : s \in Owners}

\* collectAllSessionEvents()
Merged ==
    [i \in 1..Cardinality(Retained) |->
        CHOOSE r \in Retained : Cardinality({q \in Retained : Before(q, r)}) = i - 1]

\* The filters of the routes, by event type or log category
OfType(r, type) == type \in {None, r.type}
Wanted(r) == OfType(r, filter)

\* filter(): the records of that type, in the order of the list
Kept(list, type) ==
    LET kept[n \in 0..Len(list)] ==
          IF n = 0 THEN <<>>
          ELSE IF OfType(list[n], type) THEN Append(kept[n - 1], list[n]) ELSE kept[n - 1]
    IN  kept[Len(list)]

\* Where the records of a client that does not ask for all sessions are.
Own == IF surface \in SessionPaged THEN Target ELSE Global

\* The list the route pages through.
Visible == Kept(IF all THEN Merged ELSE store[Own], filter)

\* next_after is the id of the last record, if it has one; without it the
\* client asks for the page again.
Give(page) ==
    /\ call' = "idle" /\ code' = 200
    /\ IF page # <<>> /\ HasId(page[Len(page)])
       THEN anchor' = page[Len(page)].id /\ seen' = seen \o page /\ loose' = <<>>
       ELSE UNCHANGED <<anchor, seen>> /\ loose' = page

\* response-schema-violation; /audit/records validates nothing
Fit(page) == \A i \in DOMAIN page : page[i].type \notin Unfit

StartIndexLax(list) ==
    IF \E i \in DOMAIN list : list[i].id = anchor
    THEN CHOOSE i \in DOMAIN list : list[i].id = anchor
    ELSE 0

\* findIndex() of the anchor: -1 is "unknown-after-id"
StartIndex(list) ==
    IF anchor = None THEN 0
    ELSE IF \E i \in DOMAIN list : list[i].id = anchor
         THEN CHOOSE i \in DOMAIN list : list[i].id = anchor
         ELSE -1

SliceShort(list, start, limit) == SubSeq(list, start + 1, IF start + limit < Len(list) THEN start + limit - 1 ELSE Len(list))

Slice(list, start, limit) == SubSeq(list, start + 1, IF start + limit < Len(list) THEN start + limit ELSE Len(list))

\* An anchor that was evicted is a 404, and the client starts from the oldest.
Page ==
    LET list == Visible
        start == StartIndex(list)
    IN  /\ Consume
        /\ \/ /\ start = -1 /\ call' = "idle" /\ code' = 404
              /\ anchor' = None /\ seen' = <<>> /\ loose' = <<>>
           \/ /\ start >= 0
              /\ \E limit \in 1..MaxPage : LET page == Slice(list, start, limit) IN
                    \/ Fit(page) /\ Give(page)
                    \/ ~Fit(page) /\ call' = "idle" /\ code' = 500 /\ UNCHANGED place

Status == Deny(200)

\* where the body is validated, and what is in it is not the model's
Validated == Status \/ Deny(500)

\* sessions:read:<sid>: the limiter comes before the session is looked at
OfSession(serve) ==
    \/ Unready \/ NoBearer
    \/ Admitted /\ Limited
    \/ Admitted /\ Target \notin live /\ Deny(404)
    \/ Admitted /\ Target \in live /\ who # "owner" /\ Deny(403)
    \/ Admitted /\ Target \in live /\ who = "owner" /\ serve

\* audit:read and admin:read: the limiter comes after the scope is looked at
OfRunner(entitled, serve) ==
    \/ Unready \/ NoBearer
    \/ Admitted /\ ~entitled /\ Refuse(403)
    \/ Admitted /\ entitled /\ (Limited \/ serve)

ReaderValidLax == who = "reader"

\* isReader of the routes: the token is looked at again
ReaderValid == who = "reader" /\ life > 0

\* GET /events/recent: the bootstrap bearer needs no session
EventsRecent ==
    /\ Enter("events")
    /\ \/ who # "operator" /\ OfSession(Page)
       \/ who = "operator" /\ OfRunner(TRUE, Page)

SystemLogRecent == Enter("system-log") /\ OfSession(Page)
OtelSpansRecent == Enter("otel-spans") /\ OfSession(Page)
AuditRecords == Enter("audit-records") /\ OfRunner(ReaderValid \/ AnySession, Page)
AuditSinkEvents == Enter("sink-events") /\ OfRunner(AnySession, Page)
AuditTail == Enter("audit-tail") /\ OfRunner(ReaderValid \/ AnySession, Status)
BudgetProjection == Enter("budget") /\ OfSession(Validated)
\* a session may have no memory state: 404
MemoryState == Enter("memory-state") /\ OfSession(Validated \/ Deny(404))
BackpressureStatus == Enter("backpressure") /\ OfRunner(who = "operator" \/ AnySession, Validated)
ToolsRegistered == Enter("tools") /\ OfRunner(AnySession, Validated)
KeyStorage == Enter("key-storage") /\ OfRunner(who = "operator" \/ AnySession, Status)

Serve ==
    \/ EventsRecent \/ SystemLogRecent \/ OtelSpansRecent \/ AuditRecords \/ AuditSinkEvents
    \/ AuditTail \/ BudgetProjection \/ MemoryState \/ BackpressureStatus \/ ToolsRegistered \/ KeyStorage

Write ==
    \/ \E s \in Sessions, ty \in Types : Emit(s, ty) \/ WriteLog(s, ty)
    \/ \E s \in Sessions : EmitDecisionSpans(s)
    \/ ChainAppend \/ SinkEvent

Next ==
    \/ Write \/ MintToken \/ Boots \/ ReadinessFalls \/ Tick
    \/ \E s \in Sessions : EndSession(s)
    \/ Send \/ ReaderScopeGuard \/ Serve

\* The client keeps polling, time passes, and the Runner answers.
Fairness ==
    WF_vars(Tick) /\ WF_vars(Send) /\ WF_vars(ReaderScopeGuard) /\ WF_vars(Serve)

Spec == Init /\ [][Next]_vars /\ Fairness

-----------------------------------------------------------------------------
(* Properties.                                                             *)

\* Types: rings within their cap, windows within the limit, the client's place.
TypeOK ==
    /\ \A s \in Sessions : Len(store[s]) <= Cap
    /\ Len(window) <= PerMinute /\ \A i \in DOMAIN window : window[i] \in 0..Window - 1
    /\ call \in {"idle", "sent", "inside"} /\ code \in Codes
    /\ anchor # None => anchor \in 1..Len(wrote)
    /\ life \in 0..Ttl /\ live \subseteq Sessions

\* Following next_after loses nothing: what a client of one session, or of the
\* audit chain, was given is a gapless stretch of what was written, however the
\* ring moved between its requests; the ring catching up with it is told by a
\* 404.  Nor does it repeat anything, except a page that ended on a row without
\* an id, which comes again in front of what follows it.
PagesWhole ==
    LET given == seen \o loose
        h == Kept(wrote, filter)
    IN  /\ ~all /\ given # <<>> =>
              \E i \in DOMAIN h :
                 i + Len(given) - 1 <= Len(h) /\ given = SubSeq(h, i, i + Len(given) - 1)
        /\ loose # <<>> => ~HasId(loose[Len(loose)])

Given == {seen[i] : i \in DOMAIN seen}

\* The merged list of all sessions is weaker: an event still held by the Runner
\* that the client has passed without being given it was emitted in the same
\* instant as one it was given of a session with a greater id; no other kind is
\* passed, and none is given twice.
MergedMissesTies ==
    all /\ anchor # None =>
        /\ Cardinality(Given) = Len(seen)
        /\ \A r \in Retained \ Given :
              Wanted(r) /\ Before(r, wrote[anchor]) =>
                 \E g \in Given : g.ts = r.ts /\ r.sess < g.sess

\* Whoever is served is entitled at that moment: a session's bearer while the
\* session lives, a reader token until it expires and on the two audit routes
\* alone, even if it was good when the request came in.
ServedWhileEntitled ==
    [][call = "inside" /\ code' = 200 /\ call' = "idle" =>
         /\ who # "none"
         /\ who = "reader" => life > 0 /\ surface \in ReaderAllowed
         /\ surface \in SessionPaged \cup SessionStatus =>
               (who = "owner" /\ Target \in live) \/ (who = "operator" /\ surface = "events")
         /\ who \in {"owner", "stranger"} => AnySession]_vars

\* Retry-After is honest: a client that waited for it, and was not admitted in
\* between, is not refused again.
RetryHonest ==
    [][call = "inside" /\ call' = "idle" /\ code' = 429 => wait # 0]_vars

\* A tool span is held with its parent, the span before it: the cap drops spans
\* one by one but they come in pairs, so only an odd cap can part the oldest.
SpansKeepParents ==
    surface = "otel-spans" =>
        \A s \in Sessions : \A i \in DOMAIN store[s] :
            store[s][i].type = "tool" =>
                \/ i = 1 /\ Cap % 2 = 1
                \/ i > 1 /\ store[s][i - 1].type = "turn" /\ store[s][i - 1].id = store[s][i].id - 1

MayPage ==
    \/ surface \in SessionPaged /\ who = "owner" /\ Target \in live
    \/ surface = "events" /\ who = "operator"
    \/ surface \in GlobalPaged /\ AnySession

\* A page after the client's place may be refused, or end on a row without an id.
Stuck(list) ==
    \E i \in DOMAIN list :
        /\ i \in StartIndex(list) + 1..StartIndex(list) + MaxPage
        /\ ~HasId(list[i]) \/ list[i].type \in Unfit

\* A client that keeps asking catches up once the Runner stays ready, whatever
\* sizes of pages it asks for and however often it is refused or loses its
\* place: in the end it follows the newest record, or its session has ended, or
\* one of the next records is of a kind it cannot be relied on to pass.
CatchesUp ==
    <>[](ready \/ skipGate) =>
        <>[](MayPage => LET list == Visible
                        IN list = <<>> \/ anchor = list[Len(list)].id \/ Stuck(list))

\* What a reader is given (emitter.ts, otel-span-store.ts, the paged routes): whole pages,
\* of the merged list all but ties, and spans with their parents.
PageInv == TypeOK /\ PagesWhole /\ MergedMissesTies /\ SpansKeepParents

\* What a client is answered holds when it is answered: 200 to the entitled,
\* and a Retry-After after which it is admitted.
AnswersHonest == ServedWhileEntitled /\ RetryHonest
=============================================================================
