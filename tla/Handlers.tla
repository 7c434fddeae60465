------------------------------ MODULE Handlers ------------------------------
(***************************************************************************)
(* Those outside the Runner whose word a permission decision needs, and    *)
(* when their word stops counting: the PreToolUse hook, a child process    *)
(* under a timeout and a reentrancy guard keyed by its pid (hook/); the    *)
(* handler that signed the PDA, whose key has an age, an overlap window    *)
(* and a revocation list polled from a file (attestation/); and the        *)
(* Interactive responder of an escalation, who answers through a file.     *)
(* Decisions.tla models the same request with its persistence; here the    *)
(* hook, the keys and the responder are modelled and the session is not.   *)
(***************************************************************************)
EXTENDS Integers, Sequences, FiniteSets

CONSTANTS
    Requests,       \* permission decisions, each of a session of its own
    Pids,           \* process ids the operating system hands out
    Kids,           \* handler key ids
    Enrolled,       \* the registry at boot: entry or None for each kid
    Pdas,           \* PDAs a request may carry, see PdaType
    ExitCodes,      \* what a hook exits with
    NewRoles,       \* roles enrolment is asked for
    IssuedAts,      \* the issued_at of a request to enrol, None when it is no date
    CrlKids,        \* kids the operator may revoke
    None,
    Day,            \* clock units in a day
    MaxAge,         \* maxAgeDays
    Window,         \* windowMs of the retroactive flagging
    Skew,           \* DEFAULT_SKEW_SECONDS
    MaxWindow,      \* DEFAULT_MAX_WINDOW_SECONDS
    MaxClock,       \* bound on clock
    MaxWrites,      \* bound on writes of the responder file
    MaxCrl          \* bound on writes of the revocation file

Roles == {"Interactive", "Coordinator", "Autonomous"}

\* HandlerKeyEntry: role None when the manifest gave none, at None when
\* enrolled_at is no date
EntryType == [role : Roles \cup {None}, at : Int \cup {None}, overlap : Int \cup {None}]

\* A PDA: who signed it and when it holds; good: the signature verifies
PdaType == [kid : Kids, from : Int, to : Int, good : BOOLEAN]

ASSUME HandlersAssumption ==
    /\ Enrolled \in [Kids -> EntryType \cup {None}]
    /\ Pdas \subseteq PdaType /\ ExitCodes \subseteq 0..255 /\ NewRoles \subseteq Roles /\ CrlKids \subseteq Kids
    /\ IssuedAts \subseteq Int \cup {None}
    /\ Day \in Nat \ {0} /\ {MaxAge, Window, Skew, MaxWindow, MaxClock, MaxWrites, MaxCrl} \subseteq Nat

ASSUME NoneAssumption == None \notin Int /\ None \notin Kids \cup Requests \cup Pids

VARIABLES
    clock,
    job,        \* the requests
    child,      \* the hook process of each: pid, alive, held (a descendant keeps
                \* its output open), code, late (the timeout fired)
    guard,      \* sessionsByPid: whose hook the pid is, or None
    byKid,      \* HandlerKeyRegistry
    revoked,    \* when each kid was revoked, or None
    crl,        \* the revocation file: one record, or None
    responder,  \* the responder file: one answer, or None
    writes, crls,
    audit,      \* the audit chain
    \* history
    used,       \* the answer that decided each escalation
    kept,       \* answers the file kept after a read, for emptying it failed
    revLen,     \* rows in the chain when a kid's revocation was seen
    reused      \* pids taken again before their last hook's close event

hookVars == <<child, guard, reused>>
keyVars == <<byKid, revoked, crl, crls, revLen>>
vars == <<clock, job, child, guard, byKid, revoked, crl, responder, writes, crls, audit,
          used, kept, revLen, reused>>

Idle == [at |-> "idle"]
NoChild == [pid |-> None, alive |-> FALSE, held |-> FALSE, code |-> None, late |-> FALSE]

Init ==
    /\ clock = 0
    /\ job = [r \in Requests |-> Idle]
    /\ child = [r \in Requests |-> NoChild]
    /\ guard = [p \in Pids |-> None]
    /\ byKid = Enrolled
    /\ revoked = [k \in Kids |-> None]
    /\ crl = None
    /\ responder = None
    /\ writes = 0
    /\ crls = 0
    /\ audit = <<>>
    /\ used = [r \in Requests |-> None]
    /\ kept = {}
    /\ revLen = [k \in Kids |-> 0]
    /\ reused = {}

-----------------------------------------------------------------------------
(* The hook.                                                               *)

Busy(p) == \E r \in Requests : child[r].pid = p /\ child[r].alive

\* spawn() and begin(): a pid is free once its process was reaped, while the
\* close event may still be to come.
HookSpawns(r, p) ==
    /\ job[r].at = "idle" /\ ~Busy(p)
    /\ job' = [job EXCEPT ![r] = [at |-> "hook"]]
    /\ child' = [child EXCEPT ![r] = [NoChild EXCEPT !.pid = p, !.alive = TRUE]]
    /\ guard' = [guard EXCEPT ![p] = r]
    /\ reused' = reused \cup {x \in {p} : guard[p] # None}
    /\ UNCHANGED <<clock, responder, writes, audit, used, kept>>
    /\ UNCHANGED keyVars

\* spawn() throws or the child reports an error: the hook crashed, and there
\* was no pid to register.
HookFails(r) ==
    /\ job[r].at = "idle"
    /\ job' = [job EXCEPT ![r] = [at |-> "refused"]]
    /\ UNCHANGED <<clock, child, guard, reused, responder, writes, audit, used, kept>>
    /\ UNCHANGED keyVars

\* The process ends by itself, perhaps leaving a descendant with its output.
HookExits(r) ==
    /\ child[r].alive /\ ~child[r].late
    /\ \E code \in ExitCodes, held \in BOOLEAN :
          child' = [child EXCEPT ![r].alive = FALSE, ![r].code = code, ![r].held = held]
    /\ UNCHANGED <<clock, job, guard, reused, responder, writes, audit, used, kept>>
    /\ UNCHANGED keyVars

OutputCloses(r) ==
    /\ child[r].held
    /\ child' = [child EXCEPT ![r].held = FALSE]
    /\ UNCHANGED <<clock, job, guard, reused, responder, writes, audit, used, kept>>
    /\ UNCHANGED keyVars

\* The timer signals the child; one that has exited but not closed is late too.
HookTimesOut(r) ==
    /\ job[r].at = "hook" /\ ~child[r].late
    /\ child' = [child EXCEPT ![r].late = TRUE]
    /\ UNCHANGED <<clock, job, guard, reused, responder, writes, audit, used, kept>>
    /\ UNCHANGED keyVars

\* The signalled process dies, and its pid is free.
HookReaped(r) ==
    /\ child[r].alive /\ child[r].late
    /\ \E held \in BOOLEAN :
          child' = [child EXCEPT ![r].alive = FALSE, ![r].held = held]
    /\ UNCHANGED <<clock, job, guard, reused, responder, writes, audit, used, kept>>
    /\ UNCHANGED keyVars

\* killed by a signal: code None
DecisionForPre(code) ==
    CASE code = 0 -> "Allow" [] code = 3 -> "Prompt" [] OTHER -> "Deny"

\* end() forgets the pid whoever holds it now.
End(r) == [guard EXCEPT ![child[r].pid] = None]

\* The close event: the hook's outcome.  Deny answers 403 with no row.  The
\* request's PDA and what the resolver said of it matter only from here on,
\* and are chosen here.
HookCloses(r) ==
    LET outcome == IF child[r].late THEN "Deny" ELSE DecisionForPre(child[r].code)
    IN  /\ job[r].at = "hook" /\ ~child[r].alive /\ ~child[r].held
        /\ guard' = End(r)
        /\ child' = [child EXCEPT ![r].pid = None]
        /\ \/ outcome = "Deny" /\ job' = [job EXCEPT ![r].at = "refused"]
           \/ /\ outcome # "Deny"
              /\ \E pda \in Pdas, resolved \in {"AutoAllow", "Prompt"} :
                    job' = [job EXCEPT ![r] = [at |-> "verify", pda |-> pda, resolved |-> resolved,
                                               forced |-> outcome = "Prompt"]]
        /\ UNCHANGED <<clock, reused, responder, writes, audit, used, kept>>
        /\ UNCHANGED keyVars

-----------------------------------------------------------------------------
(* Handler keys.                                                           *)

\* POST /handlers/enroll: 409 for a kid that is known; a role is required, and
\* issued_at is what the caller says.
EnrollKey(k, entry) ==
    /\ byKid[k] = None
    /\ byKid' = [byKid EXCEPT ![k] = entry]

Enroll(k) ==
    /\ \E role \in NewRoles, at \in IssuedAts :
          EnrollKey(k, [role |-> role, at |-> at, overlap |-> None])
    /\ UNCHANGED <<clock, job, revoked, crl, responder, writes, crls, audit, used, kept, revLen>>
    /\ UNCHANGED hookVars

AgeDays(k) == (clock - byKid[k].at) \div Day

\* assertUsable(): an unknown kid passes, a revoked one does not, and inside
\* the overlap window, or without a date, age does not matter.
Usable(k) ==
    byKid[k] # None =>
        /\ revoked[k] = None
        /\ \/ byKid[k].overlap # None /\ clock <= byKid[k].overlap
           \/ byKid[k].at = None \/ AgeDays(k) <= MaxAge

RoleOf(k) == IF byKid[k] = None THEN None ELSE byKid[k].role

\* A row of the chain.  at is None in an admin row, which has no timestamp.
Row(r, signer, decision, reason) ==
    [r |-> r, signer |-> signer, at |-> clock, decision |-> decision, reason |-> reason, ref |-> 0]

SuspectsAll(k, since) == {i \in DOMAIN audit : audit[i].signer = k}

\* appendSuspectDecisionsForKid(): one admin row for each row of the chain that
\* the kid signed since the start of the window.
Suspects(k, since) ==
    {i \in DOMAIN audit :
        audit[i].signer = k /\ audit[i].decision # "SuspectDecision" /\ audit[i].at >= since - Window}

\* the members of a set of indices, in order
Ascending(S) ==
    [n \in 1..Cardinality(S) |-> CHOOSE i \in S : Cardinality({j \in S : j < i}) = n - 1]

SuspectRows(k, since) ==
    LET refs == Ascending(Suspects(k, since))
    IN  [n \in DOMAIN refs |-> [r |-> audit[refs[n]].r, signer |-> None, at |-> None,
                                decision |-> "SuspectDecision", reason |-> "kid-revoked-24h-window",
                                ref |-> refs[n]]]

\* HandlerCrlPoller.tick(): a kid that is revoked already is left alone.
CrlTick ==
    /\ crl # None /\ revoked[crl.kid] = None
    /\ revoked' = [revoked EXCEPT ![crl.kid] = crl.at]
    /\ revLen' = [revLen EXCEPT ![crl.kid] = Len(audit)]
    /\ audit' = audit \o SuspectRows(crl.kid, crl.at)
    /\ UNCHANGED <<clock, job, byKid, crl, responder, writes, crls, used, kept>>
    /\ UNCHANGED hookVars

\* The operator replaces the record, read or not; revoked_at may lie back.
PublishCrl(k) ==
    /\ crls < MaxCrl
    /\ crls' = crls + 1
    /\ \E at \in 0..clock : crl' = [kid |-> k, at |-> at]
    /\ UNCHANGED <<clock, job, byKid, revoked, responder, writes, audit, used, kept, revLen>>
    /\ UNCHANGED hookVars

-----------------------------------------------------------------------------
(* The PDA, and the escalation.                                            *)

\* verifyPda(): the window, a key for the kid, the signature.
PdaHolds(pda) ==
    /\ pda.to - pda.from <= MaxWindow
    /\ clock + Skew >= pda.from /\ clock - Skew <= pda.to
    /\ byKid[pda.kid] # None
    /\ pda.good

Settle(r, at, rows) ==
    /\ job' = [job EXCEPT ![r].at = at]
    /\ audit' = audit \o rows

Final(r) == IF job[r].forced THEN "Prompt" ELSE job[r].resolved

MustRefuseByRole(r) == job[r].resolved = "Prompt" /\ RoleOf(job[r].pda.kid) = "Coordinator"

\* A high-risk tool (the only kind here): the signer's key and role.  The roles
\* are asked for only when the resolver itself said Prompt.
MustRefuse(r) ==
    \/ ~Usable(job[r].pda.kid)
    \/ job[r].resolved = "Prompt" /\ RoleOf(job[r].pda.kid) = "Coordinator"

MustEscalate(r) == job[r].resolved = "Prompt" /\ RoleOf(job[r].pda.kid) = "Autonomous"

Verify(r) ==
    /\ job[r].at = "verify"
    /\ IF ~PdaHolds(job[r].pda) THEN Settle(r, "done", <<Row(r, None, "Deny", "pda-verify-failed")>>)
       ELSE IF MustRefuse(r) THEN Settle(r, "refused", <<>>)
       ELSE IF MustEscalate(r) THEN Settle(r, "escalated", <<>>)
       ELSE Settle(r, "done", <<Row(r, job[r].pda.kid, Final(r), "signed")>>)
    /\ UNCHANGED <<clock, responder, writes, used, kept>>
    /\ UNCHANGED hookVars /\ UNCHANGED keyVars

\* finish(): what the request does with the outcome
Outcome(r, answer) ==
    IF RoleOf(answer.kid) \in {"Autonomous", "Coordinator"}
    THEN Settle(r, "refused", <<>>)
    ELSE IF answer.response = "approve"
    THEN Settle(r, "done", <<Row(r, answer.kid, Final(r), "signed")>>)
    ELSE Settle(r, "refused", <<Row(r, answer.kid, "Deny", "hitl-denied")>>)

PollKeeps(r) ==
    /\ job[r].at = "escalated" /\ responder # None
    /\ IF responder.response = "silence"
       THEN UNCHANGED <<job, audit, used>>
       ELSE Outcome(r, responder) /\ used' = [used EXCEPT ![r] = responder.n]
    /\ UNCHANGED <<clock, responder, writes, kept>>
    /\ UNCHANGED hookVars /\ UNCHANGED keyVars

\* The file is emptied whatever it says; a failure is caught and dropped.
Truncate ==
    \/ responder' = None /\ UNCHANGED kept
    \/ kept' = kept \cup {responder.n} /\ UNCHANGED responder

\* A poll of the responder file, by whichever request's timer comes first: the
\* file names no request.
Poll(r) ==
    /\ job[r].at = "escalated" /\ responder # None
    /\ Truncate
    /\ IF responder.response = "silence"
       THEN UNCHANGED <<job, audit, used>>
       ELSE Outcome(r, responder) /\ used' = [used EXCEPT ![r] = responder.n]
    /\ UNCHANGED <<clock, writes>>
    /\ UNCHANGED hookVars /\ UNCHANGED keyVars

EscalationTimesOutIdle(r) ==
    /\ job[r].at = "escalated" /\ responder = None
    /\ Settle(r, "refused", <<Row(r, job[r].pda.kid, "Deny", "escalation-timeout")>>)
    /\ UNCHANGED <<clock, responder, writes, used, kept>>
    /\ UNCHANGED hookVars /\ UNCHANGED keyVars

EscalationTimesOut(r) ==
    /\ job[r].at = "escalated"
    /\ Settle(r, "refused", <<Row(r, job[r].pda.kid, "Deny", "escalation-timeout")>>)
    /\ UNCHANGED <<clock, responder, writes, used, kept>>
    /\ UNCHANGED hookVars /\ UNCHANGED keyVars

\* The responder writes the file, over what is there.
Respond(k) ==
    /\ writes < MaxWrites
    /\ writes' = writes + 1
    /\ \/ \E response \in {"approve", "deny"} :
             responder' = [kid |-> k, response |-> response, n |-> writes']
       \/ responder' = [kid |-> None, response |-> "silence", n |-> writes']
    /\ UNCHANGED <<clock, job, audit, used, kept>>
    /\ UNCHANGED hookVars /\ UNCHANGED keyVars

-----------------------------------------------------------------------------

Tick ==
    /\ clock < MaxClock
    /\ clock' = clock + 1
    /\ UNCHANGED <<job, responder, writes, audit, used, kept>>
    /\ UNCHANGED hookVars /\ UNCHANGED keyVars

Next ==
    \/ \E r \in Requests :
          \/ \E p \in Pids : HookSpawns(r, p)
          \/ HookFails(r) \/ HookExits(r) \/ OutputCloses(r)
          \/ HookTimesOut(r) \/ HookReaped(r) \/ HookCloses(r)
          \/ Verify(r) \/ Poll(r) \/ EscalationTimesOut(r)
    \/ \E k \in Kids : Enroll(k) \/ Respond(k)
    \/ \E k \in CrlKids : PublishCrl(k)
    \/ CrlTick \/ Tick

\* Timers fire, promises settle and a SIGKILL kills; that a descendant lets go
\* of the hook's output is not the Runner's to promise.
Fairness ==
    \A r \in Requests :
        /\ WF_vars(HookTimesOut(r)) /\ WF_vars(HookReaped(r)) /\ WF_vars(HookCloses(r))
        /\ WF_vars(Verify(r)) /\ WF_vars(EscalationTimesOut(r))

Spec == Init /\ [][Next]_vars /\ Fairness

-----------------------------------------------------------------------------
(* Properties.                                                             *)

\* Types: entries, files and the guard hold what the code puts there.
TypeOK ==
    /\ clock \in 0..MaxClock
    /\ \A r \in Requests : job[r].at \in {"idle", "hook", "verify", "escalated", "done", "refused"}
    /\ byKid \in [Kids -> EntryType \cup {None}]
    /\ guard \in [Pids -> Requests \cup {None}]
    /\ \A k \in Kids : revoked[k] = None \/ revoked[k] \in 0..clock
    /\ \A i \in DOMAIN audit : audit[i].ref \in 0..i - 1
    /\ used \in [Requests -> 1..MaxWrites \cup {None}] /\ kept \subseteq 1..MaxWrites

\* The reentrancy guard: the guard knows every running hook whose pid was not
\* taken again before the close event of the hook that had it before; and it
\* never names a request whose hook is over.  Of a reused pid nothing is said:
\* there end() of the earlier hook does forget the later one.
GuardCovers ==
    /\ \A r \in Requests : child[r].alive /\ child[r].pid \notin reused
          => guard[child[r].pid] = r
    /\ \A p \in Pids : guard[p] # None => job[guard[p]].at = "hook" /\ child[guard[p]].pid = p

\* A hook fails closed: a request gets as far as a row only if its hook ended
\* by itself with 0 or 3, however the timeout, the exit and the close event
\* raced.
HookFailsClosed ==
    \A i \in DOMAIN audit :
        LET c == child[audit[i].r] IN ~c.late /\ c.code \in {0, 3}

\* One answer of the responder decides a second escalation only if emptying
\* the file failed when it was read.
ResponseUsedOnce ==
    \A r1, r2 \in Requests :
        used[r1] # None /\ r1 # r2 /\ used[r1] = used[r2] => used[r1] \in kept

Prompted(i) ==
    /\ audit[i].reason = "signed"
    /\ job[audit[i].r].resolved = "Prompt"

\* A Prompt for a high-risk tool is never satisfied by a signature whose kid
\* was then enrolled as Autonomous or Coordinator: neither by the PDA nor by
\* the responder's file.  Enrolment never changes a role, so the registry of
\* today tells, except for a kid that was not enrolled when it answered.
HumanDecides ==
    [][\A i \in DOMAIN audit' \ DOMAIN audit :
          Prompted(i)' => RoleOf(audit'[i].signer) \notin {"Autonomous", "Coordinator"}]_vars

\* Rows are signed by keys that are good: a kid whose revocation the poller has
\* seen, or whose key is past its age, signs no later row, save the rows an
\* escalation ends with, whose keys are not looked at again.
SignerUsable ==
    [][\A i \in DOMAIN audit' \ DOMAIN audit :
          LET k == audit'[i].signer IN
          k # None => Usable(k) \/ job[audit'[i].r].at = "escalated"]_vars

FlagsOf(i) == {j \in DOMAIN audit : audit[j].ref = i}

\* Retroactive flagging is exact: when a kid's revocation is first seen, every
\* row it signed since the start of the window gets one SuspectDecision row,
\* however often the file is polled or written, and nothing else gets one.
SuspectsFlagged ==
    \A i \in DOMAIN audit :
        LET k == audit[i].signer IN
        Cardinality(FlagsOf(i)) =
            IF /\ k # None /\ revoked[k] # None
               /\ i <= revLen[k] /\ audit[i].at >= revoked[k] - Window
            THEN 1 ELSE 0

\* Nobody waits for ever on a responder or a verification: the timeout answers.
EscalationEnds ==
    \A r \in Requests : job[r].at \in {"verify", "escalated"} ~> job[r].at \in {"done", "refused"}

\* A hook that hangs is killed, and its request goes on once the output closes.
HookEnds ==
    \A r \in Requests : [](job[r].at = "hook" => <>(job[r].at # "hook" \/ child[r].held))

\* What decides a request (reentrancy.ts, hook/runner.ts, escalation.ts): a hook the
\* guard knows, its own exit, and an answer of the responder that decided no other request
\* unless the file could not be emptied.
HandlerInv == TypeOK /\ GuardCovers /\ HookFailsClosed /\ ResponseUsedOnce

\* Who may sign (decisions-route.ts): keys of the right role, and good at that time.
SignersEntitled == HumanDecides /\ SignerUsable

\* Neither a hook nor a responder keeps a request waiting for ever.
WaitsEnd == EscalationEnds /\ HookEnds
=============================================================================
