---------------------------- MODULE HandlersProofs ---------------------------
(***************************************************************************)
(* The guarantees of hooks, handler keys and responders, for any number of *)
(* requests, pids and kids, and any timing.                                *)
(***************************************************************************)
EXTENDS Handlers, FiniteSetTheorems, SequenceTheorems, TLAPS

(* The indices of a set in order: each member once. *)
LEMMA AscendingFacts ==
  ASSUME NEW S \in SUBSET Nat, IsFiniteSet(S)
  PROVE  /\ Cardinality(S) \in Nat
         /\ Ascending(S) \in Seq(S) /\ DOMAIN Ascending(S) = 1 .. Cardinality(S)
         /\ Len(Ascending(S)) = Cardinality(S)
         /\ \A m, n \in DOMAIN Ascending(S) : Ascending(S)[m] = Ascending(S)[n] => m = n
         /\ \A i \in S : \E n \in DOMAIN Ascending(S) : Ascending(S)[n] = i
<1> DEFINE N == Cardinality(S)
           Below(i) == {j \in S : j < i}
           rank == [i \in S |-> Cardinality(Below(i))]
<1>1. N \in Nat
  BY FS_CardinalityType
<1>2. \A i \in S : IsFiniteSet(Below(i)) /\ Cardinality(Below(i)) \in Nat
  BY FS_Subset, FS_CardinalityType
<1>3. \A i \in S : rank[i] \in 0 .. (N - 1)
  <2> SUFFICES ASSUME NEW i \in S PROVE rank[i] \in 0 .. (N - 1)
    OBVIOUS
  <2>1. Below(i) \in SUBSET S /\ Below(i) # S
    OBVIOUS
  <2>2. Cardinality(Below(i)) <= N /\ Cardinality(Below(i)) # N
    BY <2>1, FS_Subset
  <2> QED
    BY <1>1, <1>2, <2>2
<1>4. \A i, j \in S : i < j => rank[i] < rank[j]
  <2> SUFFICES ASSUME NEW i \in S, NEW j \in S, i < j PROVE rank[i] < rank[j]
    OBVIOUS
  <2>0. i \in Nat /\ j \in Nat /\ \A k \in S : k \in Nat
    OBVIOUS
  <2>1. Below(i) \in SUBSET Below(j) /\ i \in Below(j) /\ i \notin Below(i)
    <3>1. ASSUME NEW k \in Below(i) PROVE k \in Below(j)
      <4>1. k \in S /\ k < i /\ k \in Nat
        BY <2>0
      <4> QED
        BY <2>0, <4>1
    <3>2. ~(i < i)
      BY <2>0
    <3> QED
      BY <3>1, <3>2
  <2>2. Cardinality(Below(i)) <= Cardinality(Below(j)) /\ Cardinality(Below(i)) # Cardinality(Below(j))
    BY <1>2, <2>1, FS_Subset
  <2> QED
    BY <1>2, <2>2
<1>5. \A i, j \in S : rank[i] = rank[j] => i = j
  <2>1. \A i \in S : rank[i] \in Nat /\ i \in Nat
    BY <1>2
  <2> HIDE DEF rank
  <2> QED
    BY <1>4, <2>1
<1>6. \A k \in 0 .. (N - 1) : \E i \in S : rank[i] = k
  <2>1. IsFiniteSet(0 .. (N - 1)) /\ Cardinality(0 .. (N - 1)) = N
    <3> HIDE DEF N
    <3>1. 0 \in Int /\ N - 1 \in Int
      BY <1>1
    <3>2. IsFiniteSet(0 .. (N - 1)) /\ Cardinality(0 .. (N - 1)) = IF 0 > N - 1 THEN 0 ELSE (N - 1) - 0 + 1
      BY <3>1, FS_Interval
    <3> QED
      BY <1>1, <3>2
  <2>2. rank \in Injection(S, 0 .. (N - 1))
    BY <1>3, <1>5 DEF Injection, IsInjective
  <2>3. rank \in Surjection(S, 0 .. (N - 1))
    BY <2>1, <2>2, FS_Injection
  <2> QED
    BY <2>3 DEF Surjection
<1> PICK q : q = Ascending(S)
  OBVIOUS
<1>7. \A n \in 1 .. N : q[n] \in S /\ rank[q[n]] = n - 1
  <2> SUFFICES ASSUME NEW n \in 1 .. N PROVE q[n] \in S /\ rank[q[n]] = n - 1
    OBVIOUS
  <2>1. n - 1 \in 0 .. (N - 1)
    BY <1>1
  <2>2. \E i \in S : Cardinality(Below(i)) = n - 1
    BY <1>6, <2>1
  <2>3. q[n] = CHOOSE i \in S : Cardinality(Below(i)) = n - 1
    BY DEF Ascending
  <2>4. q[n] \in S /\ Cardinality(Below(q[n])) = n - 1
    BY <2>2, <2>3
  <2> QED
    BY <2>4
<1>8. q \in Seq(S) /\ DOMAIN q = 1 .. N /\ Len(q) = N
  <2> DEFINE pick(n) == CHOOSE i \in S : Cardinality(Below(i)) = n - 1
  <2>0. q = [n \in 1 .. N |-> pick(n)]
    BY DEF Ascending
  <2> HIDE DEF pick, N
  <2>1. DOMAIN q = 1 .. N /\ q = [n \in 1 .. N |-> q[n]]
    BY <2>0
  <2>2. q \in [1 .. N -> S]
    BY <1>7, <2>1
  <2> QED
    BY <1>1, <2>1, <2>2
<1>9. \A m, n \in 1 .. N : q[m] = q[n] => m = n
  <2> SUFFICES ASSUME NEW m \in 1 .. N, NEW n \in 1 .. N, q[m] = q[n] PROVE m = n
    OBVIOUS
  <2>1. m - 1 = n - 1
    BY <1>7
  <2> QED
    BY <1>1, <2>1
<1>10. \A i \in S : \E n \in 1 .. N : q[n] = i
  <2> SUFFICES ASSUME NEW i \in S PROVE \E n \in 1 .. N : q[n] = i
    OBVIOUS
  <2>1. rank[i] \in 0 .. (N - 1)
    BY <1>3
  <2> HIDE DEF rank, N
  <2>2. rank[i] + 1 \in 1 .. N /\ (rank[i] + 1) - 1 = rank[i]
    BY <1>1, <2>1
  <2> QED
    BY <1>5, <1>7, <2>2
<1> QED
  BY <1>1, <1>8, <1>9, <1>10
-----------------------------------------------------------------------------
(* The inductive invariant.                                                *)

\* A request is asked of the handlers only once its hook let it pass; before
\* that it has no PDA.
AskedType == [at : {"verify", "escalated", "done", "refused"}, pda : Pdas,
              resolved : {"AutoAllow", "Prompt"}, forced : BOOLEAN]
JobType == [at : {"idle", "hook", "refused"}] \cup AskedType

ChildType == [pid : Pids \cup {None}, alive : BOOLEAN, held : BOOLEAN,
              code : ExitCodes \cup {None}, late : BOOLEAN]

Reasons == {"signed", "pda-verify-failed", "hitl-denied", "escalation-timeout"}
RowType == [r : Requests, signer : Kids \cup {None}, at : Nat \cup {None},
            decision : {"AutoAllow", "Prompt", "Deny", "SuspectDecision"},
            reason : Reasons \cup {"kid-revoked-24h-window"}, ref : Nat]

AnswerType == [kid : Kids \cup {None}, response : {"approve", "deny", "silence"}, n : 1 .. writes]

Typed ==
    /\ clock \in 0 .. MaxClock
    /\ job \in [Requests -> JobType]
    /\ child \in [Requests -> ChildType]
    /\ guard \in [Pids -> Requests \cup {None}]
    /\ byKid \in [Kids -> EntryType \cup {None}]
    /\ revoked \in [Kids -> (0 .. clock) \cup {None}]
    /\ crl = None \/ crl \in [kid : Kids, at : 0 .. clock]
    /\ writes \in 0 .. MaxWrites
    /\ responder = None \/ responder \in AnswerType
    /\ audit \in Seq(RowType)
    /\ used \in [Requests -> (1 .. writes) \cup {None}]
    /\ kept \subseteq 1 .. writes
    /\ revLen \in [Kids -> Nat]

\* The guard knows a hook from its spawn to its close event, its death in
\* between included, unless its pid was taken again.
Guarded ==
    /\ \A r \in Requests : job[r].at = "hook" =>
          child[r].pid \in Pids /\ (child[r].pid \notin reused => guard[child[r].pid] = r)
    /\ \A r \in Requests : child[r].alive => job[r].at = "hook"
    /\ \A p \in Pids : guard[p] # None => job[guard[p]].at = "hook" /\ child[guard[p]].pid = p

\* A request the handlers are asked about has a hook that ended by itself, and
\* so has a request with a row, whatever became of it.
Ended(r) == ~child[r].late /\ child[r].code \in {0, 3}

Closed ==
    /\ \A r \in Requests : job[r].at \in {"verify", "escalated", "done"} => Ended(r)
    /\ \A i \in DOMAIN audit : job[audit[i].r].at \notin {"idle", "hook"} /\ Ended(audit[i].r)

\* The answer in the file has decided nothing yet, unless the file kept it.
Fresh ==
    /\ responder # None => \A r \in Requests : used[r] = responder.n => used[r] \in kept
    /\ ResponseUsedOnce

\* A flag refers to an earlier row, a signed row carries its time and is no
\* flag itself, and revocations are seen at a length the chain has reached.
Referred ==
    /\ \A i \in DOMAIN audit : audit[i].ref \in 0 .. i - 1
    /\ \A i \in DOMAIN audit :
          audit[i].signer # None => audit[i].at \in Nat /\ audit[i].decision # "SuspectDecision"
    /\ \A k \in Kids : revLen[k] <= Len(audit)

Flagged == Referred /\ SuspectsFlagged

Inv == Typed /\ Guarded /\ Closed /\ Fresh /\ Flagged
-----------------------------------------------------------------------------
(* Steps that answer a request.                                            *)

\* What a request appends: a row of now, no flag.
NewRow(r, row) ==
    /\ row \in RowType /\ row.r = r /\ row.ref = 0 /\ row.at = clock
    /\ row.decision # "SuspectDecision"

Settled(r) ==
    \E at \in {"escalated", "done", "refused"}, rows \in Seq(RowType) :
        /\ rows = <<>> \/ \E row \in RowType : NewRow(r, row) /\ rows = <<row>>
        /\ Settle(r, at, rows)

LEMMA AskedFacts ==
  ASSUME Typed, NEW r \in Requests, job[r].at \in {"verify", "escalated", "done"}
  PROVE  job[r] \in AskedType /\ Final(r) \in {"AutoAllow", "Prompt"} /\ job[r].pda.kid \in Kids
<1>1. job[r] \in JobType
  BY DEF Typed
<1>2. job[r] \in AskedType
  BY <1>1 DEF JobType
<1>3. job[r].pda \in Pdas
  BY <1>2 DEF AskedType
<1>4. job[r].pda \in PdaType
  BY <1>3, HandlersAssumption
<1> QED
  BY <1>2, <1>4 DEF AskedType, Final, PdaType

LEMMA RowIsNew ==
  ASSUME Typed, NEW r \in Requests, NEW signer \in Kids \cup {None},
         NEW decision \in {"AutoAllow", "Prompt", "Deny"}, NEW reason \in Reasons
  PROVE  NewRow(r, Row(r, signer, decision, reason))
<1>1. clock \in Nat
  BY HandlersAssumption DEF Typed
<1> QED
  BY <1>1 DEF NewRow, Row, RowType

LEMMA SettledBy ==
  ASSUME NEW r \in Requests, NEW at \in {"escalated", "done", "refused"}, NEW rows,
         rows = <<>> \/ \E row \in RowType : NewRow(r, row) /\ rows = <<row>>,
         Settle(r, at, rows)
  PROVE  Settled(r)
<1>1. CASE rows = <<>>
  <2>1. rows \in Seq(RowType)
    BY <1>1
  <2> QED
    BY <1>1, <2>1 DEF Settled
<1>2. CASE \E row \in RowType : NewRow(r, row) /\ rows = <<row>>
  <2>1. rows \in Seq(RowType)
    BY <1>2
  <2> QED
    BY <1>2, <2>1 DEF Settled
<1> QED
  BY <1>1, <1>2

LEMMA SettledByRow ==
  ASSUME Typed, NEW r \in Requests, NEW at \in {"escalated", "done", "refused"},
         NEW signer \in Kids \cup {None}, NEW decision \in {"AutoAllow", "Prompt", "Deny"},
         NEW reason \in Reasons, Settle(r, at, <<Row(r, signer, decision, reason)>>)
  PROVE  Settled(r)
<1>1. NewRow(r, Row(r, signer, decision, reason))
  BY RowIsNew
<1>2. Row(r, signer, decision, reason) \in RowType
  BY <1>1 DEF NewRow
<1> QED
  BY <1>1, <1>2, SettledBy

LEMMA VerifySettles ==
  ASSUME Typed, NEW r \in Requests, Verify(r)
  PROVE  Settled(r) /\ job[r].at = "verify"
<1>1. job[r].at = "verify"
  BY DEF Verify
<1>2. job[r].pda.kid \in Kids /\ Final(r) \in {"AutoAllow", "Prompt"}
  BY <1>1, AskedFacts
<1>3. CASE ~PdaHolds(job[r].pda)
  <2>1. Settle(r, "done", <<Row(r, None, "Deny", "pda-verify-failed")>>)
    BY <1>3 DEF Verify
  <2> QED
    BY <1>1, <2>1, SettledByRow DEF Reasons
<1>4. CASE PdaHolds(job[r].pda) /\ MustRefuse(r)
  <2>1. Settle(r, "refused", <<>>)
    BY <1>4 DEF Verify
  <2> QED
    BY <1>1, <2>1, SettledBy
<1>5. CASE PdaHolds(job[r].pda) /\ ~MustRefuse(r) /\ MustEscalate(r)
  <2>1. Settle(r, "escalated", <<>>)
    BY <1>5 DEF Verify
  <2> QED
    BY <1>1, <2>1, SettledBy
<1>6. CASE PdaHolds(job[r].pda) /\ ~MustRefuse(r) /\ ~MustEscalate(r)
  <2>1. Settle(r, "done", <<Row(r, job[r].pda.kid, Final(r), "signed")>>)
    BY <1>6 DEF Verify
  <2> QED
    BY <1>1, <1>2, <2>1, SettledByRow DEF Reasons
<1> QED
  BY <1>3, <1>4, <1>5, <1>6

LEMMA OutcomeSettles ==
  ASSUME Typed, NEW r \in Requests, job[r].at = "escalated", NEW answer \in AnswerType,
         Outcome(r, answer)
  PROVE  Settled(r)
<1>1. Final(r) \in {"AutoAllow", "Prompt"}
  BY AskedFacts
<1>2. answer.kid \in Kids \cup {None}
  BY DEF AnswerType
<1>3. CASE RoleOf(answer.kid) \in {"Autonomous", "Coordinator"}
  <2>1. Settle(r, "refused", <<>>)
    BY <1>3 DEF Outcome
  <2> QED
    BY <2>1, SettledBy
<1>4. CASE RoleOf(answer.kid) \notin {"Autonomous", "Coordinator"} /\ answer.response = "approve"
  <2>1. Settle(r, "done", <<Row(r, answer.kid, Final(r), "signed")>>)
    BY <1>4 DEF Outcome
  <2> QED
    BY <1>1, <1>2, <2>1, SettledByRow DEF Reasons
<1>5. CASE RoleOf(answer.kid) \notin {"Autonomous", "Coordinator"} /\ answer.response # "approve"
  <2>1. Settle(r, "refused", <<Row(r, answer.kid, "Deny", "hitl-denied")>>)
    BY <1>5 DEF Outcome
  <2> QED
    BY <1>2, <2>1, SettledByRow DEF Reasons
<1> QED
  BY <1>3, <1>4, <1>5

\* A poll that finds silence changes nothing but the file.
LEMMA PollSettles ==
  ASSUME Typed, NEW r \in Requests, Poll(r)
  PROVE  /\ job[r].at = "escalated" /\ responder \in AnswerType
         /\ \/ Settled(r) /\ used' = [used EXCEPT ![r] = responder.n]
            \/ UNCHANGED <<job, audit, used>>
<1>1. job[r].at = "escalated" /\ responder # None
  BY DEF Poll
<1>2. responder \in AnswerType
  BY <1>1 DEF Typed
<1>3. CASE responder.response = "silence"
  BY <1>1, <1>2, <1>3 DEF Poll
<1>4. CASE responder.response # "silence"
  <2>1. Outcome(r, responder) /\ used' = [used EXCEPT ![r] = responder.n]
    BY <1>4 DEF Poll
  <2> QED
    BY <1>1, <1>2, <2>1, OutcomeSettles
<1> QED
  BY <1>3, <1>4

LEMMA TimeoutSettles ==
  ASSUME Typed, NEW r \in Requests, EscalationTimesOut(r)
  PROVE  Settled(r) /\ job[r].at = "escalated"
<1>1. /\ job[r].at = "escalated"
      /\ Settle(r, "refused", <<Row(r, job[r].pda.kid, "Deny", "escalation-timeout")>>)
  BY DEF EscalationTimesOut
<1> QED
  BY <1>1, AskedFacts, SettledByRow DEF Reasons

\* What a settling step does to the requests and to the chain.
LEMMA SettledFacts ==
  ASSUME Typed, NEW r \in Requests, job[r].at \in {"verify", "escalated"}, Settled(r)
  PROVE  /\ job' \in [Requests -> JobType] /\ audit' \in Seq(RowType)
         /\ job'[r].at \in {"escalated", "done", "refused"}
         /\ \A s \in Requests \ {r} : job'[s] = job[s]
         /\ \/ audit' = audit
            \/ \E row \in RowType : NewRow(r, row) /\ audit' = Append(audit, row)
<1> PICK at \in {"escalated", "done", "refused"}, rows \in Seq(RowType) :
        /\ rows = <<>> \/ \E row \in RowType : NewRow(r, row) /\ rows = <<row>>
        /\ Settle(r, at, rows)
  BY DEF Settled
<1>1. job \in [Requests -> JobType] /\ audit \in Seq(RowType) /\ job[r] \in AskedType
  BY AskedFacts DEF Typed
<1>2. [job[r] EXCEPT !.at = at] \in AskedType /\ [job[r] EXCEPT !.at = at].at = at
  BY <1>1 DEF AskedType
<1> PICK j : j = [job[r] EXCEPT !.at = at]
  OBVIOUS
<1>3. job' = [job EXCEPT ![r] = j]
  BY DEF Settle
<1>4. j \in JobType /\ j.at = at
  BY <1>2 DEF JobType
<1>5. /\ job' \in [Requests -> JobType] /\ job'[r] = j
      /\ \A s \in Requests \ {r} : job'[s] = job[s]
  BY ONLY <1>1, <1>3, <1>4
<1>6. audit' = audit \o rows
  BY DEF Settle
<1>7. CASE rows = <<>>
  <2>1. audit' = audit
    BY <1>1, <1>6, <1>7, ConcatEmptySeq
  <2> QED
    BY <1>1, <1>4, <1>5, <2>1
<1>8. CASE \E row \in RowType : NewRow(r, row) /\ rows = <<row>>
  <2> PICK row \in RowType : NewRow(r, row) /\ rows = <<row>>
    BY <1>8
  <2>1. audit' = Append(audit, row)
    BY ONLY <1>1, <1>6, rows = <<row>>, row \in RowType
  <2>2. audit' \in Seq(RowType)
    BY ONLY <1>1, <2>1
  <2> QED
    BY <1>4, <1>5, <2>1, <2>2
<1> QED
  BY <1>7, <1>8
-----------------------------------------------------------------------------
(* Steps of a hook.                                                        *)

\* What no step of a hook touches.
OthersKept == UNCHANGED <<clock, byKid, revoked, crl, responder, writes, audit, used, kept, revLen>>

\* A step of r's hook: its own record and nobody else's.
Moves(r, j, c) ==
    /\ job' = [job EXCEPT ![r] = j] /\ child' = [child EXCEPT ![r] = c]
    /\ j \in JobType /\ c \in ChildType
    /\ OthersKept

LEMMA MovesFacts ==
  ASSUME Typed, NEW r \in Requests, NEW j, NEW c, Moves(r, j, c)
  PROVE  /\ job' \in [Requests -> JobType] /\ child' \in [Requests -> ChildType]
         /\ job'[r] = j /\ child'[r] = c
         /\ \A s \in Requests \ {r} : job'[s] = job[s] /\ child'[s] = child[s]
<1>1. job \in [Requests -> JobType] /\ child \in [Requests -> ChildType]
  BY DEF Typed
<1>2. /\ job' = [job EXCEPT ![r] = j] /\ child' = [child EXCEPT ![r] = c]
      /\ j \in JobType /\ c \in ChildType
  BY DEF Moves
<1> QED
  BY ONLY <1>1, <1>2

LEMMA SpawnMoves ==
  ASSUME Typed, NEW r \in Requests, NEW p \in Pids, HookSpawns(r, p)
  PROVE  \E j, c : /\ Moves(r, j, c) /\ j.at = "hook" /\ c.pid = p /\ job[r].at = "idle"
                   /\ guard' = [guard EXCEPT ![p] = r]
                   /\ reused \subseteq reused' /\ (guard[p] # None => p \in reused')
<1> DEFINE j == [at |-> "hook"]
           c == [NoChild EXCEPT !.pid = p, !.alive = TRUE]
<1>1. j \in JobType /\ c \in ChildType /\ j.at = "hook" /\ c.pid = p
  BY DEF JobType, ChildType, NoChild
<1>2. Moves(r, j, c)
  BY <1>1 DEF HookSpawns, Moves, OthersKept, keyVars
<1>3. /\ job[r].at = "idle" /\ guard' = [guard EXCEPT ![p] = r]
      /\ reused' = reused \cup {x \in {p} : guard[p] # None}
  BY DEF HookSpawns
<1>4. reused \subseteq reused' /\ (guard[p] # None => p \in reused')
  BY <1>3
<1> HIDE DEF j, c
<1> QED
  BY <1>1, <1>2, <1>3, <1>4

LEMMA FailMoves ==
  ASSUME Typed, NEW r \in Requests, HookFails(r)
  PROVE  /\ Moves(r, [at |-> "refused"], child[r]) /\ job[r].at = "idle"
         /\ UNCHANGED <<guard, reused>>
<1>1. [at |-> "refused"] \in JobType /\ child[r] \in ChildType
  BY DEF JobType, Typed
<1>2. child = [child EXCEPT ![r] = child[r]]
  BY DEF Typed
<1> QED
  BY <1>1, <1>2 DEF HookFails, Moves, OthersKept, keyVars

LEMMA ExitMoves ==
  ASSUME Typed, NEW r \in Requests, HookExits(r)
  PROVE  \E c : /\ Moves(r, job[r], c) /\ c.pid = child[r].pid /\ ~c.alive
                /\ child[r].alive /\ UNCHANGED <<guard, reused>>
<1> PICK code \in ExitCodes, held \in BOOLEAN :
        child' = [child EXCEPT ![r].alive = FALSE, ![r].code = code, ![r].held = held]
  BY DEF HookExits
<1> DEFINE c == [child[r] EXCEPT !.alive = FALSE, !.code = code, !.held = held]
<1>1. child \in [Requests -> ChildType] /\ child[r] \in ChildType /\ job[r] \in JobType
  BY DEF Typed
<1>2. c \in ChildType /\ c.pid = child[r].pid /\ ~c.alive
  BY <1>1 DEF ChildType
<1>3. child' = [child EXCEPT ![r] = c]
  BY <1>1
<1>4. job' = [job EXCEPT ![r] = job[r]]
  BY DEF HookExits, Typed
<1> HIDE DEF c
<1>5. Moves(r, job[r], c)
  BY <1>1, <1>2, <1>3, <1>4 DEF HookExits, Moves, OthersKept, keyVars
<1> QED
  BY <1>2, <1>5 DEF HookExits

LEMMA OutputMoves ==
  ASSUME Typed, NEW r \in Requests, OutputCloses(r)
  PROVE  \E c : /\ Moves(r, job[r], c) /\ UNCHANGED <<guard, reused>>
                /\ c.pid = child[r].pid /\ c.alive = child[r].alive
                /\ c.code = child[r].code /\ c.late = child[r].late
<1> DEFINE c == [child[r] EXCEPT !.held = FALSE]
<1>1. child \in [Requests -> ChildType] /\ child[r] \in ChildType /\ job[r] \in JobType
  BY DEF Typed
<1>2. /\ c \in ChildType /\ c.pid = child[r].pid /\ c.alive = child[r].alive
      /\ c.code = child[r].code /\ c.late = child[r].late
  BY <1>1 DEF ChildType
<1>3. child' = [child EXCEPT ![r] = c]
  BY <1>1 DEF OutputCloses
<1>4. job' = [job EXCEPT ![r] = job[r]]
  BY DEF OutputCloses, Typed
<1> HIDE DEF c
<1>5. Moves(r, job[r], c)
  BY <1>1, <1>2, <1>3, <1>4 DEF OutputCloses, Moves, OthersKept, keyVars
<1> QED
  BY <1>2, <1>5 DEF OutputCloses

LEMMA TimeoutMoves ==
  ASSUME Typed, NEW r \in Requests, HookTimesOut(r)
  PROVE  \E c : /\ Moves(r, job[r], c) /\ c.pid = child[r].pid /\ c.alive = child[r].alive
                /\ job[r].at = "hook" /\ UNCHANGED <<guard, reused>>
<1> DEFINE c == [child[r] EXCEPT !.late = TRUE]
<1>1. child \in [Requests -> ChildType] /\ child[r] \in ChildType /\ job[r] \in JobType
  BY DEF Typed
<1>3. c \in ChildType /\ c.pid = child[r].pid /\ c.alive = child[r].alive
  BY <1>1 DEF ChildType
<1>4. child' = [child EXCEPT ![r] = c]
  BY <1>1 DEF HookTimesOut
<1>5. job' = [job EXCEPT ![r] = job[r]]
  BY DEF HookTimesOut, Typed
<1> HIDE DEF c
<1>6. Moves(r, job[r], c)
  BY <1>1, <1>3, <1>4, <1>5 DEF HookTimesOut, Moves, OthersKept, keyVars
<1> QED
  BY <1>3, <1>6 DEF HookTimesOut

LEMMA ReapedMoves ==
  ASSUME Typed, NEW r \in Requests, HookReaped(r)
  PROVE  \E c : /\ Moves(r, job[r], c) /\ c.pid = child[r].pid /\ ~c.alive
                /\ child[r].alive /\ UNCHANGED <<guard, reused>>
<1> PICK held \in BOOLEAN :
        child' = [child EXCEPT ![r].alive = FALSE, ![r].held = held]
  BY DEF HookReaped
<1> DEFINE c == [child[r] EXCEPT !.alive = FALSE, !.held = held]
<1>1. child \in [Requests -> ChildType] /\ child[r] \in ChildType /\ job[r] \in JobType
  BY DEF Typed
<1>2. c \in ChildType /\ c.pid = child[r].pid /\ ~c.alive
  BY <1>1 DEF ChildType
<1>3. child' = [child EXCEPT ![r] = c]
  BY <1>1
<1>4. job' = [job EXCEPT ![r] = job[r]]
  BY DEF HookReaped, Typed
<1> HIDE DEF c
<1>5. Moves(r, job[r], c)
  BY <1>1, <1>2, <1>3, <1>4 DEF HookReaped, Moves, OthersKept, keyVars
<1> QED
  BY <1>2, <1>5 DEF HookReaped

\* At its close event a hook lets the request pass only if it ended by itself.
LEMMA CloseMoves ==
  ASSUME Typed, NEW r \in Requests, HookCloses(r)
  PROVE  \E j, c : /\ Moves(r, j, c) /\ job[r].at = "hook" /\ c.pid = None /\ ~c.alive
                   /\ j.at = "refused" \/ (j.at = "verify" /\ ~c.late /\ c.code \in {0, 3})
                   /\ guard' = End(r) /\ UNCHANGED reused
<1> DEFINE outcome == IF child[r].late THEN "Deny" ELSE DecisionForPre(child[r].code)
           c == [child[r] EXCEPT !.pid = None]
<1>1. child \in [Requests -> ChildType] /\ child[r] \in ChildType /\ job[r] \in JobType
  BY DEF Typed
<1>2. /\ job[r].at = "hook" /\ ~child[r].alive /\ guard' = End(r) /\ UNCHANGED reused
      /\ child' = [child EXCEPT ![r].pid = None]
      /\ OthersKept
  BY DEF HookCloses, OthersKept, keyVars
<1>3. /\ c \in ChildType /\ c.pid = None /\ ~c.alive
      /\ c.late = child[r].late /\ c.code = child[r].code
  BY <1>1, <1>2 DEF ChildType
<1>4. child' = [child EXCEPT ![r] = c]
  BY <1>1, <1>2
<1>5. CASE outcome = "Deny" /\ job' = [job EXCEPT ![r].at = "refused"]
  <2> DEFINE j == [job[r] EXCEPT !.at = "refused"]
  <2>1. j \in JobType /\ j.at = "refused"
    BY <1>1 DEF JobType, AskedType
  <2>2. job' = [job EXCEPT ![r] = j]
    BY <1>5 DEF Typed
  <2> HIDE DEF j, c
  <2>3. Moves(r, j, c)
    BY <1>2, <1>3, <1>4, <2>1, <2>2 DEF Moves
  <2> QED
    BY <1>2, <1>3, <2>1, <2>3
<1>6. CASE outcome # "Deny" /\ \E pda \in Pdas, resolved \in {"AutoAllow", "Prompt"} :
                    job' = [job EXCEPT ![r] = [at |-> "verify", pda |-> pda, resolved |-> resolved,
                                               forced |-> outcome = "Prompt"]]
  <2> PICK pda \in Pdas, resolved \in {"AutoAllow", "Prompt"} :
                    job' = [job EXCEPT ![r] = [at |-> "verify", pda |-> pda, resolved |-> resolved,
                                               forced |-> outcome = "Prompt"]]
    BY <1>6
  <2> PICK forced \in BOOLEAN : forced = (outcome = "Prompt")
    OBVIOUS
  <2> DEFINE j == [at |-> "verify", pda |-> pda, resolved |-> resolved, forced |-> forced]
  <2>1. j \in JobType /\ j.at = "verify"
    BY DEF JobType, AskedType
  <2>2. job' = [job EXCEPT ![r] = j]
    OBVIOUS
  <2>3. ~child[r].late /\ child[r].code \in {0, 3}
    BY <1>6 DEF DecisionForPre
  <2> HIDE DEF j, c
  <2>4. Moves(r, j, c)
    BY <1>2, <1>3, <1>4, <2>1, <2>2 DEF Moves
  <2> QED
    BY <1>2, <1>3, <2>1, <2>3, <2>4
<1> QED
  BY <1>5, <1>6 DEF HookCloses
-----------------------------------------------------------------------------
(* Initially.                                                              *)

LEMMA InitInv ==
  ASSUME Init
  PROVE  Inv
<1>1. 0 \in 0 .. MaxClock /\ 0 \in 0 .. MaxWrites
  BY HandlersAssumption
<1>2. Idle \in JobType /\ NoChild \in ChildType /\ Idle.at = "idle" /\ ~NoChild.alive
  BY DEF Idle, NoChild, JobType, ChildType
<1>3. audit = <<>> /\ DOMAIN audit = {} /\ Len(audit) = 0 /\ audit \in Seq(RowType)
  BY DEF Init
<1>4. Typed
  <2>1. byKid \in [Kids -> EntryType \cup {None}]
    BY HandlersAssumption DEF Init
  <2> HIDE DEF Idle, NoChild, JobType, ChildType
  <2>2. job \in [Requests -> JobType] /\ child \in [Requests -> ChildType]
    BY <1>2 DEF Init
  <2>3. clock \in 0 .. MaxClock /\ writes \in 0 .. MaxWrites
    BY <1>1 DEF Init
  <2> QED
    BY <1>3, <2>1, <2>2, <2>3 DEF Init, Typed
<1>5. Guarded
  <2>1. \A r \in Requests : job[r].at = "idle" /\ ~child[r].alive
    BY <1>2 DEF Init
  <2>2. \A p \in Pids : guard[p] = None
    BY DEF Init
  <2> QED
    BY <2>1, <2>2 DEF Guarded
<1>6. Closed
  <2>1. \A r \in Requests : job[r].at = "idle"
    BY <1>2 DEF Init
  <2> QED
    BY <1>3, <2>1 DEF Closed
<1>7. Fresh
  BY DEF Init, Fresh, ResponseUsedOnce
<1>8. Flagged
  <2>1. \A k \in Kids : revLen[k] <= Len(audit)
    BY <1>3 DEF Init
  <2> QED
    BY <1>3, <2>1 DEF Flagged, Referred, SuspectsFlagged
<1> QED
  BY <1>4, <1>5, <1>6, <1>7, <1>8 DEF Inv

-----------------------------------------------------------------------------
(* The guard and the hooks.                                                *)

\* Steps in which no hook starts, ends or is heard of.
HooksKept == UNCHANGED <<child, guard, reused>>

\* A record that stays with its pid and does not come to life keeps the guard
\* covering it.
LEMMA GuardKept ==
  ASSUME Typed, Guarded, NEW r \in Requests, NEW j, NEW c, Moves(r, j, c),
         UNCHANGED <<guard, reused>>,
         c.alive => child[r].alive,
         c.pid = child[r].pid,
         j.at = "hook" <=> job[r].at = "hook"
  PROVE  Guarded'
<1>1. /\ job'[r] = j /\ child'[r] = c
      /\ \A s \in Requests \ {r} : job'[s] = job[s] /\ child'[s] = child[s]
  BY MovesFacts
<1>2. \A s \in Requests : /\ job'[s].at = "hook" <=> job[s].at = "hook"
                          /\ child'[s].pid = child[s].pid
                          /\ child'[s].alive => child[s].alive
  BY <1>1
<1>3. \A p \in Pids : guard[p] # None => guard[p] \in Requests
  BY DEF Typed
<1> QED
  BY <1>2, <1>3 DEF Guarded

LEMMA SpawnGuarded ==
  ASSUME Typed, Guarded, NEW r \in Requests, NEW p \in Pids, HookSpawns(r, p)
  PROVE  Guarded'
<1> PICK j, c : /\ Moves(r, j, c) /\ j.at = "hook" /\ c.pid = p /\ job[r].at = "idle"
                /\ guard' = [guard EXCEPT ![p] = r]
                /\ reused \subseteq reused' /\ (guard[p] # None => p \in reused')
  BY SpawnMoves
<1>1. /\ job'[r] = j /\ child'[r] = c
      /\ \A s \in Requests \ {r} : job'[s] = job[s] /\ child'[s] = child[s]
  BY MovesFacts
<1>2. guard \in [Pids -> Requests \cup {None}]
  BY DEF Typed
<1>3. guard'[p] = r /\ \A q \in Pids \ {p} : guard'[q] = guard[q]
  BY <1>2
<1>4. r # None /\ \A s \in Requests : s # None
  BY NoneAssumption
<1>5. ASSUME NEW s \in Requests, job'[s].at = "hook"
      PROVE  child'[s].pid \in Pids /\ (child'[s].pid \notin reused' => guard'[child'[s].pid] = s)
  <2>1. CASE s = r
    BY <1>1, <1>3, <2>1
  <2>2. CASE s # r
    <3>1. /\ child[s].pid \in Pids
          /\ child[s].pid \notin reused => guard[child[s].pid] = s
      BY <1>1, <1>5, <2>2 DEF Guarded
    <3>2. child'[s].pid = child[s].pid
      BY <1>1, <2>2
    <3>3. CASE child[s].pid = p
      BY <1>4, <3>1, <3>2, <3>3
    <3>4. CASE child[s].pid # p
      BY <1>3, <3>1, <3>2, <3>4
    <3> QED
      BY <3>3, <3>4
  <2> QED
    BY <2>1, <2>2
<1>6. ASSUME NEW s \in Requests, child'[s].alive PROVE job'[s].at = "hook"
  BY <1>1, <1>6 DEF Guarded
<1>7. ASSUME NEW q \in Pids, guard'[q] # None
      PROVE  job'[guard'[q]].at = "hook" /\ child'[guard'[q]].pid = q
  <2>1. CASE q = p
    BY <1>1, <1>3, <2>1
  <2>2. CASE q # p
    <3>1. guard'[q] = guard[q] /\ guard[q] \in Requests
      BY <1>2, <1>3, <1>7, <2>2
    <3>2. job[guard[q]].at = "hook" /\ child[guard[q]].pid = q
      BY <1>7, <3>1 DEF Guarded
    <3>3. guard[q] # r
      BY <3>2
    <3> QED
      BY <1>1, <3>1, <3>2, <3>3
  <2> QED
    BY <2>1, <2>2
<1> QED
  BY <1>5, <1>6, <1>7 DEF Guarded

LEMMA CloseGuarded ==
  ASSUME Typed, Guarded, NEW r \in Requests, HookCloses(r)
  PROVE  Guarded'
<1> PICK j, c : /\ Moves(r, j, c) /\ job[r].at = "hook" /\ c.pid = None /\ ~c.alive
                /\ j.at = "refused" \/ (j.at = "verify" /\ ~c.late /\ c.code \in {0, 3})
                /\ guard' = End(r) /\ UNCHANGED reused
  BY CloseMoves
<1>1. /\ job'[r] = j /\ child'[r] = c
      /\ \A s \in Requests \ {r} : job'[s] = job[s] /\ child'[s] = child[s]
  BY MovesFacts
<1>2. guard \in [Pids -> Requests \cup {None}]
  BY DEF Typed
<1>3. PICK p \in Pids : p = child[r].pid
  BY DEF Guarded
<1>4. guard'[p] = None /\ \A q \in Pids \ {p} : guard'[q] = guard[q]
  BY <1>2, <1>3 DEF End
<1>5. ASSUME NEW s \in Requests, job'[s].at = "hook"
      PROVE  child'[s].pid \in Pids /\ (child'[s].pid \notin reused' => guard'[child'[s].pid] = s)
  <2>1. s # r
    BY <1>1, <1>5
  <2>2. /\ child'[s].pid = child[s].pid /\ child[s].pid \in Pids
        /\ child[s].pid \notin reused => guard[child[s].pid] = s
    BY <1>1, <1>5, <2>1 DEF Guarded
  <2>3. CASE child[s].pid = p
    <3>1. p \notin reused => guard[p] = r
      BY <1>3 DEF Guarded
    <3> QED
      BY <2>1, <2>2, <2>3, <3>1
  <2>4. CASE child[s].pid # p
    BY <1>4, <2>2, <2>4
  <2> QED
    BY <2>3, <2>4
<1>6. ASSUME NEW s \in Requests, child'[s].alive PROVE job'[s].at = "hook"
  BY <1>1, <1>6 DEF Guarded
<1>7. ASSUME NEW q \in Pids, guard'[q] # None
      PROVE  job'[guard'[q]].at = "hook" /\ child'[guard'[q]].pid = q
  <2>1. q # p /\ guard'[q] = guard[q] /\ guard[q] \in Requests
    BY <1>2, <1>4, <1>7
  <2>2. job[guard[q]].at = "hook" /\ child[guard[q]].pid = q
    BY <1>7, <2>1 DEF Guarded
  <2>3. guard[q] # r
    BY <1>3, <2>1, <2>2
  <2> QED
    BY <1>1, <2>1, <2>2, <2>3
<1> QED
  BY <1>5, <1>6, <1>7 DEF Guarded

\* Answers leave the hooks alone.
LEMMA SettledGuarded ==
  ASSUME Typed, Guarded, NEW r \in Requests, job[r].at \in {"verify", "escalated"},
         Settled(r), HooksKept
  PROVE  Guarded'
<1>1. /\ job'[r].at \in {"escalated", "done", "refused"}
      /\ \A s \in Requests \ {r} : job'[s] = job[s]
  BY SettledFacts
<1>2. \A s \in Requests : job'[s].at = "hook" <=> job[s].at = "hook"
  BY <1>1
<1>3. \A p \in Pids : guard[p] # None => guard[p] \in Requests
  BY DEF Typed
<1> QED
  BY <1>2, <1>3 DEF Guarded, HooksKept
-----------------------------------------------------------------------------
(* Hooks that let a request pass.                                          *)

\* A step of a hook closes nobody else's, and lets r pass only if it ended.
LEMMA MovesClosed ==
  ASSUME Typed, Closed, NEW r \in Requests, NEW j, NEW c, Moves(r, j, c),
         \/ job[r].at \in {"idle", "hook"} /\ (j.at = "verify" => ~c.late /\ c.code \in {0, 3})
            /\ j.at \in {"idle", "hook", "verify", "refused"}
         \/ j = job[r] /\ c.late = child[r].late /\ c.code = child[r].code
  PROVE  Closed'
<1>1. /\ job'[r] = j /\ child'[r] = c
      /\ \A s \in Requests \ {r} : job'[s] = job[s] /\ child'[s] = child[s]
  BY MovesFacts
<1>2. audit' = audit /\ audit \in Seq(RowType)
  BY DEF Moves, OthersKept, Typed
<1>3. \A i \in DOMAIN audit : audit[i].r \in Requests
  <2>1. \A i \in DOMAIN audit : audit[i] \in RowType
    BY <1>2, ElementOfSeq
  <2> QED
    BY <2>1 DEF RowType
<1>4. ASSUME NEW s \in Requests, job'[s].at \in {"verify", "escalated", "done"}
      PROVE  Ended(s)'
  BY <1>1, <1>4 DEF Closed, Ended
<1>5. ASSUME NEW i \in DOMAIN audit
      PROVE  job'[audit[i].r].at \notin {"idle", "hook"} /\ ~child'[audit[i].r].late
             /\ child'[audit[i].r].code \in {0, 3}
  <2>1. audit[i].r \in Requests
    BY <1>3
  <2>2. /\ job[audit[i].r].at \notin {"idle", "hook"}
        /\ ~child[audit[i].r].late /\ child[audit[i].r].code \in {0, 3}
    BY DEF Closed, Ended
  <2> QED
    BY <1>1, <2>1, <2>2
<1> QED
  BY <1>2, <1>4, <1>5 DEF Closed, Ended

LEMMA SettledClosed ==
  ASSUME Typed, Closed, NEW r \in Requests, job[r].at \in {"verify", "escalated"},
         Settled(r), HooksKept
  PROVE  Closed'
<1>1. /\ job'[r].at \in {"escalated", "done", "refused"} /\ audit' \in Seq(RowType)
      /\ \A s \in Requests \ {r} : job'[s] = job[s]
      /\ \/ audit' = audit
         \/ \E row \in RowType : NewRow(r, row) /\ audit' = Append(audit, row)
  BY SettledFacts
<1>2. audit \in Seq(RowType) /\ \A i \in DOMAIN audit : audit[i].r \in Requests
  <2>1. audit \in Seq(RowType)
    BY DEF Typed
  <2>2. \A i \in DOMAIN audit : audit[i] \in RowType
    BY <2>1, ElementOfSeq
  <2> QED
    BY <2>1, <2>2 DEF RowType
<1>3. Ended(r) /\ child' = child
  BY DEF Closed, HooksKept
<1>4. ASSUME NEW s \in Requests, job'[s].at \in {"verify", "escalated", "done"}
      PROVE  Ended(s)'
  BY <1>1, <1>3, <1>4 DEF Closed, Ended
<1>5. ASSUME NEW s \in Requests, job[s].at \notin {"idle", "hook"} PROVE job'[s].at \notin {"idle", "hook"}
  BY <1>1, <1>5
<1>6. job[r].at \notin {"idle", "hook"}
  OBVIOUS
<1>7. ASSUME NEW i \in DOMAIN audit'
      PROVE  /\ job'[audit'[i].r].at \notin {"idle", "hook"}
             /\ ~child'[audit'[i].r].late /\ child'[audit'[i].r].code \in {0, 3}
  <2>1. CASE i \in DOMAIN audit /\ audit'[i] = audit[i]
    BY <1>2, <1>3, <1>5, <2>1 DEF Closed, Ended
  <2>2. CASE audit'[i].r = r
    BY <1>3, <1>5, <1>6, <2>2 DEF Ended
  <2>3. CASE audit' = audit
    BY <1>7, <2>1, <2>3
  <2>4. CASE \E row \in RowType : NewRow(r, row) /\ audit' = Append(audit, row)
    <3> PICK row \in RowType : NewRow(r, row) /\ audit' = Append(audit, row)
      BY <2>4
    <3>1. /\ Len(audit') = Len(audit) + 1 /\ Len(audit) \in Nat
          /\ \A n \in 1 .. Len(audit) : audit'[n] = audit[n]
          /\ audit'[Len(audit) + 1] = row
      BY ONLY <1>2, row \in RowType, audit' = Append(audit, row), AppendProperties
    <3>2. i \in 1 .. Len(audit) \/ i = Len(audit) + 1
      BY <1>1, <1>7, <3>1
    <3>3. row.r = r
      BY DEF NewRow
    <3> QED
      BY <1>2, <2>1, <2>2, <3>1, <3>2, <3>3
  <2> QED
    BY <1>1, <2>3, <2>4
<1> QED
  BY <1>4, <1>7 DEF Closed, Ended

-----------------------------------------------------------------------------
(* Flags.                                                                  *)

\* A row of now flags nothing, is not flagged, and lies after the point where
\* its signer's revocation was seen.
LEMMA RowFlagged ==
  ASSUME Typed, Flagged, NEW r \in Requests, NEW row \in RowType, NewRow(r, row),
         audit' = Append(audit, row), UNCHANGED <<revoked, revLen>>
  PROVE  Flagged'
<1>1. audit \in Seq(RowType) /\ Len(audit) \in Nat /\ DOMAIN audit = 1 .. Len(audit)
  BY DEF Typed
<1>2. /\ Len(audit') = Len(audit) + 1 /\ DOMAIN audit' = 1 .. (Len(audit) + 1)
      /\ \A n \in 1 .. Len(audit) : audit'[n] = audit[n]
      /\ audit'[Len(audit) + 1] = row
  BY ONLY <1>1, row \in RowType, audit' = Append(audit, row), AppendProperties
<1>3. row.ref = 0 /\ row.at \in Nat /\ row.decision # "SuspectDecision" /\ row.signer \in Kids \cup {None}
  BY HandlersAssumption DEF NewRow, Typed, RowType
<1>4. /\ \A i \in DOMAIN audit : audit[i].ref \in 0 .. i - 1
      /\ \A i \in DOMAIN audit :
            audit[i].signer # None => audit[i].at \in Nat /\ audit[i].decision # "SuspectDecision"
      /\ \A k \in Kids : revLen[k] <= Len(audit) /\ revLen[k] \in Nat
  BY DEF Flagged, Referred, Typed
<1> PICK L \in Nat : L = Len(audit)
  BY <1>1
<1>5. \A i \in DOMAIN audit' : (i \in DOMAIN audit /\ audit'[i] = audit[i]) \/ (i = L + 1 /\ audit'[i] = row)
  BY <1>1, <1>2
<1>6. Referred'
  <2>1. ASSUME NEW i \in DOMAIN audit' PROVE audit'[i].ref \in 0 .. i - 1
    BY <1>3, <1>4, <1>5
  <2>2. ASSUME NEW i \in DOMAIN audit', audit'[i].signer # None
        PROVE  audit'[i].at \in Nat /\ audit'[i].decision # "SuspectDecision"
    BY <1>3, <1>4, <1>5, <2>2
  <2>3. ASSUME NEW k \in Kids PROVE revLen'[k] <= Len(audit')
    BY <1>2, <1>4
  <2> QED
    BY <2>1, <2>2, <2>3 DEF Referred
<1>7. ASSUME NEW i \in DOMAIN audit PROVE FlagsOf(i)' = FlagsOf(i)
  <2>1. i # 0 /\ L + 1 \notin DOMAIN audit /\ DOMAIN audit \subseteq DOMAIN audit'
    BY <1>1, <1>2
  <2>2. audit'[L + 1].ref # i
    BY <1>2, <1>3, <2>1
  <2>3. \A n \in DOMAIN audit' : audit'[n].ref = i <=> n \in DOMAIN audit /\ audit[n].ref = i
    BY <1>5, <2>1, <2>2
  <2> QED
    BY <2>1, <2>3 DEF FlagsOf
<1>8. FlagsOf(L + 1)' = {}
  <2>1. ASSUME NEW n \in DOMAIN audit' PROVE audit'[n].ref # L + 1
    BY <1>1, <1>3, <1>4, <1>5
  <2> QED
    BY <2>1 DEF FlagsOf
<1>9. ASSUME NEW i \in DOMAIN audit'
      PROVE  Cardinality(FlagsOf(i)') =
                IF /\ audit'[i].signer # None /\ revoked[audit'[i].signer] # None
                   /\ i <= revLen[audit'[i].signer]
                   /\ audit'[i].at >= revoked[audit'[i].signer] - Window
                THEN 1 ELSE 0
  <2>1. CASE i \in DOMAIN audit /\ audit'[i] = audit[i]
    BY <1>7, <2>1 DEF Flagged, SuspectsFlagged
  <2>2. CASE i = L + 1 /\ audit'[i] = row
    <3>1. Cardinality(FlagsOf(i)') = 0
      BY <1>8, <2>2, FS_EmptySet
    <3>2. audit'[i].signer # None => ~(i <= revLen[audit'[i].signer])
      BY <1>3, <1>4, <2>2
    <3> QED
      BY <3>1, <3>2
  <2> QED
    BY <1>5, <2>1, <2>2
<1>10. SuspectsFlagged'
  BY <1>9 DEF SuspectsFlagged
<1> QED
  BY <1>6, <1>10 DEF Flagged

LEMMA SettledFlagged ==
  ASSUME Typed, Flagged, NEW r \in Requests, job[r].at \in {"verify", "escalated"},
         Settled(r), UNCHANGED <<revoked, revLen>>
  PROVE  Flagged'
<1>1. \/ audit' = audit
      \/ \E row \in RowType : NewRow(r, row) /\ audit' = Append(audit, row)
  BY SettledFacts
<1>2. CASE audit' = audit
  BY <1>2 DEF Flagged, Referred, SuspectsFlagged, FlagsOf
<1>3. CASE \E row \in RowType : NewRow(r, row) /\ audit' = Append(audit, row)
  BY <1>3, RowFlagged
<1> QED
  BY <1>1, <1>2, <1>3
\* The rows of a flagging are rows of the chain: one for each suspect, in order.
LEMMA SuspectRowsFacts ==
  ASSUME Typed, NEW k \in Kids, NEW since \in Nat
  PROVE  /\ Suspects(k, since) \in SUBSET (1 .. Len(audit))
         /\ SuspectRows(k, since) \in Seq(RowType)
         /\ \A n \in DOMAIN SuspectRows(k, since) :
               /\ SuspectRows(k, since)[n].signer = None
               /\ SuspectRows(k, since)[n].ref \in Suspects(k, since)
         /\ \A m, n \in DOMAIN SuspectRows(k, since) :
               SuspectRows(k, since)[m].ref = SuspectRows(k, since)[n].ref => m = n
         /\ \A i \in Suspects(k, since) :
               \E n \in DOMAIN SuspectRows(k, since) : SuspectRows(k, since)[n].ref = i
<1>1. audit \in Seq(RowType) /\ Len(audit) \in Nat /\ DOMAIN audit = 1 .. Len(audit)
  BY DEF Typed
<1>2. \A i \in DOMAIN audit : audit[i].r \in Requests
  <2>1. \A i \in DOMAIN audit : audit[i] \in RowType
    BY <1>1, ElementOfSeq
  <2> QED
    BY <2>1 DEF RowType
<1> PICK S : S = Suspects(k, since)
  OBVIOUS
<1>3. S \in SUBSET (1 .. Len(audit))
  BY <1>1 DEF Suspects
<1>4. S \in SUBSET Nat /\ IsFiniteSet(S)
  <2>1. IsFiniteSet(1 .. Len(audit))
    BY <1>1, FS_Interval
  <2> QED
    BY <1>3, <2>1, FS_Subset
<1> PICK q : q = Ascending(S)
  OBVIOUS
<1>5. /\ Cardinality(S) \in Nat
      /\ q \in Seq(S) /\ DOMAIN q = 1 .. Cardinality(S)
      /\ \A m, n \in DOMAIN q : q[m] = q[n] => m = n
      /\ \A i \in S : \E n \in DOMAIN q : q[n] = i
  BY <1>4, AscendingFacts
<1> PICK N \in Nat : N = Cardinality(S)
  BY <1>5
<1>6. \A n \in 1 .. N : q[n] \in S /\ q[n] \in Nat /\ audit[q[n]].r \in Requests
  <2>1. \A n \in DOMAIN q : q[n] \in S
    BY <1>5, ElementOfSeq
  <2> QED
    BY <1>1, <1>2, <1>3, <1>4, <1>5, <2>1
<1> DEFINE flag(n) == [r |-> audit[q[n]].r, signer |-> None, at |-> None,
                       decision |-> "SuspectDecision", reason |-> "kid-revoked-24h-window",
                       ref |-> q[n]]
<1> PICK R : R = SuspectRows(k, since)
  OBVIOUS
<1>7. R = [n \in 1 .. N |-> flag(n)]
  BY <1>5 DEF SuspectRows
<1>8. \A n \in 1 .. N : flag(n) \in RowType /\ flag(n).signer = None /\ flag(n).ref = q[n]
  BY <1>6 DEF RowType
<1> HIDE DEF flag
<1>9. DOMAIN R = 1 .. N /\ \A n \in 1 .. N : R[n] \in RowType /\ R[n].signer = None /\ R[n].ref = q[n]
  BY <1>7, <1>8
<1>10. R \in Seq(RowType)
  BY <1>7, <1>8
<1> QED
  BY <1>3, <1>5, <1>6, <1>9, <1>10

LEMMA TickTyped ==
  ASSUME Typed, CrlTick
  PROVE  Typed'
<1>1. crl # None /\ crl.kid \in Kids /\ crl.at \in 0 .. clock
  BY DEF CrlTick, Typed
<1>2. clock \in Nat /\ crl.at \in Nat
  BY <1>1, HandlersAssumption DEF Typed
<1>3. SuspectRows(crl.kid, crl.at) \in Seq(RowType)
  BY <1>1, <1>2, SuspectRowsFacts
<1>4. audit \in Seq(RowType) /\ audit' = audit \o SuspectRows(crl.kid, crl.at)
  BY DEF Typed, CrlTick
<1>5. audit' \in Seq(RowType)
  BY ONLY <1>3, <1>4, ConcatProperties
<1>6. revoked' \in [Kids -> (0 .. clock) \cup {None}]
  BY <1>1 DEF Typed, CrlTick
<1>7. Len(audit) \in Nat
  BY <1>4
<1>8. revLen' \in [Kids -> Nat]
  BY <1>1, <1>7 DEF Typed, CrlTick
<1> QED
  BY <1>5, <1>6, <1>8 DEF Typed, CrlTick, hookVars, AnswerType

\* When a revocation is first seen its kid has no flags yet; then each suspect
\* has the one row that was appended for it.
LEMMA TickFlagged ==
  ASSUME Typed, Flagged, CrlTick
  PROVE  Flagged'
<1> PICK k, since : k = crl.kid /\ since = crl.at
  OBVIOUS
<1>1. /\ k \in Kids /\ since \in Nat /\ revoked[k] = None
      /\ revoked' = [revoked EXCEPT ![k] = since] /\ revLen' = [revLen EXCEPT ![k] = Len(audit)]
      /\ audit' = audit \o SuspectRows(k, since)
  <2>1. crl # None /\ crl.kid \in Kids /\ crl.at \in 0 .. clock
    BY DEF CrlTick, Typed
  <2>2. crl.at \in Nat
    BY <2>1, HandlersAssumption DEF Typed
  <2> QED
    BY <2>1, <2>2 DEF CrlTick
<1> PICK R : R = SuspectRows(k, since)
  OBVIOUS
<1> PICK S : S = Suspects(k, since)
  OBVIOUS
<1> PICK L : L = Len(audit)
  OBVIOUS
<1> PICK N : N = Len(R)
  OBVIOUS
<1>2. /\ S \in SUBSET (1 .. L) /\ R \in Seq(RowType)
      /\ \A n \in DOMAIN R : R[n].signer = None /\ R[n].ref \in S
      /\ \A m, n \in DOMAIN R : R[m].ref = R[n].ref => m = n
      /\ \A i \in S : \E n \in DOMAIN R : R[n].ref = i
  <2>1. /\ Suspects(k, since) \in SUBSET (1 .. Len(audit))
        /\ SuspectRows(k, since) \in Seq(RowType)
        /\ \A n \in DOMAIN SuspectRows(k, since) :
              /\ SuspectRows(k, since)[n].signer = None
              /\ SuspectRows(k, since)[n].ref \in Suspects(k, since)
        /\ \A m, n \in DOMAIN SuspectRows(k, since) :
              SuspectRows(k, since)[m].ref = SuspectRows(k, since)[n].ref => m = n
        /\ \A i \in Suspects(k, since) :
              \E n \in DOMAIN SuspectRows(k, since) : SuspectRows(k, since)[n].ref = i
    <3>1. Typed /\ k \in Kids /\ since \in Nat
      BY <1>1
    <3> QED
      BY ONLY <3>1, SuspectRowsFacts
  <2>2. Suspects(k, since) = S /\ SuspectRows(k, since) = R /\ Len(audit) = L
    OBVIOUS
  <2> QED
    BY ONLY <2>1, <2>2
<1>3. /\ audit \in Seq(RowType) /\ L \in Nat /\ DOMAIN audit = 1 .. L
      /\ N \in Nat /\ DOMAIN R = 1 .. N
  BY <1>2 DEF Typed
<1>4. /\ Len(audit') = L + N /\ DOMAIN audit' = 1 .. (L + N)
      /\ \A i \in 1 .. L : audit'[i] = audit[i]
      /\ \A n \in 1 .. N : audit'[L + n] = R[n]
  <2>1. audit' = audit \o R
    BY <1>1
  <2> QED
    BY ONLY <1>2, <1>3, <2>1, L = Len(audit), N = Len(R), ConcatProperties
<1>5. \A i \in DOMAIN audit' : (i \in 1 .. L /\ audit'[i] = audit[i])
                               \/ (\E n \in 1 .. N : i = L + n /\ audit'[i] = R[n])
  <2> SUFFICES ASSUME NEW i \in DOMAIN audit'
               PROVE  (i \in 1 .. L /\ audit'[i] = audit[i])
                      \/ (\E n \in 1 .. N : i = L + n /\ audit'[i] = R[n])
    OBVIOUS
  <2>0. i \in 1 .. (L + N)
    BY <1>4
  <2>1. CASE i \in 1 .. L
    BY <1>4, <2>1
  <2>2. CASE i \notin 1 .. L
    <3>1. i - L \in 1 .. N /\ i = L + (i - L)
      BY <1>3, <2>0, <2>2
    <3> QED
      BY <1>4, <3>1
  <2> QED
    BY <2>1, <2>2
<1>6. /\ \A i \in 1 .. L : audit[i].ref \in 0 .. i - 1
      /\ \A i \in 1 .. L :
            audit[i].signer # None => audit[i].at \in Nat /\ audit[i].decision # "SuspectDecision"
      /\ \A c \in Kids : revLen[c] <= L /\ revLen[c] \in Nat
  BY <1>3 DEF Flagged, Referred, Typed
<1>7. Referred'
  <2>1. ASSUME NEW i \in DOMAIN audit' PROVE audit'[i].ref \in 0 .. i - 1
    <3>1. CASE i \in 1 .. L /\ audit'[i] = audit[i]
      BY <1>6, <3>1
    <3>2. CASE \E n \in 1 .. N : i = L + n /\ audit'[i] = R[n]
      <4> PICK n \in 1 .. N : i = L + n /\ audit'[i] = R[n]
        BY <3>2
      <4>1. R[n].ref \in 1 .. L
        BY <1>2, <1>3
      <4> QED
        BY <1>3, <4>1
    <3> QED
      BY <1>5, <3>1, <3>2
  <2>2. ASSUME NEW i \in DOMAIN audit', audit'[i].signer # None
        PROVE  audit'[i].at \in Nat /\ audit'[i].decision # "SuspectDecision"
    <3>1. \A n \in 1 .. N : audit'[i] # R[n]
      BY <1>2, <1>3, <2>2
    <3>2. i \in 1 .. L /\ audit'[i] = audit[i]
      BY <1>5, <3>1
    <3> QED
      BY <1>6, <2>2, <3>2
  <2>3. ASSUME NEW c \in Kids PROVE revLen'[c] <= Len(audit')
    <3>1. revLen'[c] = L \/ revLen'[c] = revLen[c]
      BY <1>1 DEF Typed
    <3> QED
      BY <1>3, <1>4, <1>6, <3>1
  <2> QED
    BY <2>1, <2>2, <2>3 DEF Referred
<1>8. \A i \in 1 .. L : i \in S <=> /\ audit[i].signer = k /\ audit[i].decision # "SuspectDecision"
                                    /\ audit[i].at >= since - Window
  BY <1>3 DEF Suspects
<1>9. k # None /\ since # None
  BY <1>1, NoneAssumption
<1>10. /\ revoked'[k] = since /\ revLen'[k] = L
       /\ \A c \in Kids \ {k} : revoked'[c] = revoked[c] /\ revLen'[c] = revLen[c]
  BY <1>1 DEF Typed
<1>11. \A i \in 1 .. L : audit[i].signer \in Kids \cup {None}
  <2>1. \A i \in DOMAIN audit : audit[i] \in RowType
    BY <1>3, ElementOfSeq
  <2> QED
    BY <1>3, <2>1 DEF RowType
<1>12. \A i \in 1 .. L : Cardinality(FlagsOf(i)) =
            IF /\ audit[i].signer # None /\ revoked[audit[i].signer] # None
               /\ i <= revLen[audit[i].signer] /\ audit[i].at >= revoked[audit[i].signer] - Window
            THEN 1 ELSE 0
  BY <1>3 DEF Flagged, SuspectsFlagged
<1>13. ASSUME NEW i \in 1 .. L PROVE \A j \in 1 .. L : audit'[j].ref = i <=> j \in FlagsOf(i)
  BY <1>3, <1>4 DEF FlagsOf
<1>14. ASSUME NEW i \in 1 .. L, i \notin S PROVE FlagsOf(i)' = FlagsOf(i)
  <2>1. \A n \in 1 .. N : R[n].ref # i
    BY <1>2, <1>3, <1>14
  <2>2. \A j \in DOMAIN audit' : audit'[j].ref = i <=> j \in 1 .. L /\ audit[j].ref = i
    BY <1>3, <1>4, <1>5, <2>1
  <2>3. DOMAIN audit \subseteq DOMAIN audit'
    BY <1>3, <1>4
  <2> QED
    BY <1>3, <2>2, <2>3 DEF FlagsOf
<1>15. ASSUME NEW i \in S PROVE Cardinality(FlagsOf(i)') = 1
  <2>1. i \in 1 .. L /\ audit[i].signer = k
    BY <1>2, <1>8
  <2>2. Cardinality(FlagsOf(i)) = 0
    BY <1>1, <1>12, <2>1
  <2>3. FlagsOf(i) = {}
    <3>1. FlagsOf(i) \in SUBSET (1 .. L)
      BY <1>3 DEF FlagsOf
    <3>2. IsFiniteSet(1 .. L)
      BY <1>3, FS_Interval
    <3>3. IsFiniteSet(FlagsOf(i))
      BY <3>1, <3>2, FS_Subset
    <3> QED
      BY <2>2, <3>3, FS_EmptySet
  <2>4. \A j \in 1 .. L : audit[j].ref # i
    BY <1>3, <2>3 DEF FlagsOf
  <2>5. PICK n \in 1 .. N : R[n].ref = i
    BY <1>2, <1>3
  <2>6. \A m \in 1 .. N : R[m].ref = i => m = n
    BY <1>2, <1>3, <2>5
  <2>7. \A j \in DOMAIN audit' : audit'[j].ref = i <=> j = L + n
    <3> SUFFICES ASSUME NEW j \in DOMAIN audit' PROVE audit'[j].ref = i <=> j = L + n
      OBVIOUS
    <3>1. CASE j \in 1 .. L /\ audit'[j] = audit[j]
      BY <1>3, <2>4, <3>1
    <3>2. CASE \E m \in 1 .. N : j = L + m /\ audit'[j] = R[m]
      <4> PICK m \in 1 .. N : j = L + m /\ audit'[j] = R[m]
        BY <3>2
      <4>1. R[m].ref = i <=> m = n
        BY <2>5, <2>6
      <4>2. L + m = L + n <=> m = n
        BY <1>3
      <4> QED
        BY <4>1, <4>2
    <3> QED
      BY <1>5, <3>1, <3>2
  <2>8. L + n \in DOMAIN audit'
    BY <1>3, <1>4
  <2>9. FlagsOf(i)' = {L + n}
    BY <2>7, <2>8 DEF FlagsOf
  <2> QED
    BY <2>9, FS_Singleton
<1>16. ASSUME NEW n \in 1 .. N PROVE FlagsOf(L + n)' = {}
  <2>1. ASSUME NEW j \in DOMAIN audit' PROVE audit'[j].ref # L + n
    <3>1. CASE j \in 1 .. L /\ audit'[j] = audit[j]
      BY <1>3, <1>6, <3>1
    <3>2. CASE \E m \in 1 .. N : j = L + m /\ audit'[j] = R[m]
      BY <1>2, <1>3, <3>2
    <3> QED
      BY <1>5, <3>1, <3>2
  <2> QED
    BY <2>1 DEF FlagsOf
<1>17. ASSUME NEW i \in DOMAIN audit'
      PROVE  Cardinality(FlagsOf(i)') =
                IF /\ audit'[i].signer # None /\ revoked'[audit'[i].signer] # None
                   /\ i <= revLen'[audit'[i].signer]
                   /\ audit'[i].at >= revoked'[audit'[i].signer] - Window
                THEN 1 ELSE 0
  <2>1. CASE i \in S
    <3>1. /\ i \in 1 .. L /\ audit'[i] = audit[i] /\ audit[i].signer = k
          /\ audit[i].at >= since - Window /\ i <= L
      BY <1>2, <1>3, <1>4, <1>8, <2>1
    <3>2. Cardinality(FlagsOf(i)') = 1
      BY <1>15, <2>1
    <3> QED
      BY <1>9, <1>10, <3>1, <3>2
  <2>2. CASE i \in 1 .. L /\ i \notin S
    <3>1. FlagsOf(i)' = FlagsOf(i) /\ audit'[i] = audit[i]
      BY <1>4, <1>14, <2>2
    <3>2. CASE audit[i].signer = k
      <4>1. ~(audit[i].at >= since - Window)
        BY <1>6, <1>8, <1>9, <2>2, <3>2
      <4>2. Cardinality(FlagsOf(i)) = 0
        BY <1>1, <1>12, <2>2, <3>2
      <4> QED
        BY <1>10, <3>1, <3>2, <4>1, <4>2
    <3>3. CASE audit[i].signer = None
      BY <1>12, <2>2, <3>1, <3>3
    <3>4. CASE audit[i].signer \in Kids \ {k}
      <4>1. /\ revoked'[audit[i].signer] = revoked[audit[i].signer]
            /\ revLen'[audit[i].signer] = revLen[audit[i].signer]
        BY <1>10, <3>4
      <4> QED
        BY <1>12, <2>2, <3>1, <4>1
    <3> QED
      BY <1>11, <2>2, <3>2, <3>3, <3>4
  <2>3. CASE \E n \in 1 .. N : i = L + n /\ audit'[i] = R[n]
    <3> PICK n \in 1 .. N : i = L + n /\ audit'[i] = R[n]
      BY <2>3
    <3>1. audit'[i].signer = None
      BY <1>2, <1>3
    <3>2. FlagsOf(i)' = {}
      BY <1>16
    <3>3. Cardinality(FlagsOf(i)') = 0
      BY <3>2, FS_EmptySet
    <3> QED
      BY <3>1, <3>3
  <2> QED
    BY <1>5, <2>1, <2>2, <2>3
<1>18. SuspectsFlagged'
  BY <1>17 DEF SuspectsFlagged
<1> QED
  BY <1>7, <1>18 DEF Flagged
-----------------------------------------------------------------------------
(* One step.                                                               *)

LEMMA MovesKeep ==
  ASSUME Inv, NEW r \in Requests, NEW j, NEW c, Moves(r, j, c),
         guard' \in [Pids -> Requests \cup {None}]
  PROVE  Typed' /\ Fresh' /\ Flagged'
<1>1. job' \in [Requests -> JobType] /\ child' \in [Requests -> ChildType]
  BY MovesFacts DEF Inv
<1>2. OthersKept
  BY DEF Moves
<1>3. Typed'
  BY <1>1, <1>2 DEF Inv, Typed, OthersKept, AnswerType
<1>4. Fresh'
  BY <1>2 DEF Inv, Fresh, ResponseUsedOnce, OthersKept
<1>5. Flagged'
  BY <1>2 DEF Inv, Flagged, Referred, SuspectsFlagged, FlagsOf, OthersKept
<1> QED
  BY <1>3, <1>4, <1>5

LEMMA HookStep ==
  ASSUME Inv, NEW r \in Requests,
         \/ \E p \in Pids : HookSpawns(r, p)
         \/ HookFails(r) \/ HookExits(r) \/ OutputCloses(r)
         \/ HookTimesOut(r) \/ HookReaped(r) \/ HookCloses(r)
  PROVE  Inv'
<1>0. Typed /\ Guarded /\ Closed
  BY DEF Inv
<1>a. guard \in [Pids -> Requests \cup {None}]
  BY <1>0 DEF Typed
<1>1. ASSUME NEW p \in Pids, HookSpawns(r, p) PROVE Inv'
  <2> PICK j, c : /\ Moves(r, j, c) /\ j.at = "hook" /\ c.pid = p /\ job[r].at = "idle"
                  /\ guard' = [guard EXCEPT ![p] = r]
    BY <1>0, <1>1, SpawnMoves
  <2>1. guard' \in [Pids -> Requests \cup {None}]
    BY <1>a
  <2>2. Guarded'
    BY <1>0, <1>1, SpawnGuarded
  <2>3. Closed'
    BY <1>0, MovesClosed
  <2> QED
    BY <2>1, <2>2, <2>3, MovesKeep DEF Inv
<1>2. CASE HookFails(r)
  <2> DEFINE j == [at |-> "refused"]
  <2>1. /\ Moves(r, j, child[r]) /\ job[r].at = "idle" /\ j.at = "refused"
        /\ UNCHANGED <<guard, reused>>
    BY <1>0, <1>2, FailMoves
  <2> HIDE DEF j
  <2>2. Guarded'
    BY <1>0, <2>1, GuardKept
  <2>3. Closed'
    BY <1>0, <2>1, MovesClosed
  <2> QED
    BY <1>a, <2>1, <2>2, <2>3, MovesKeep DEF Inv
<1>3. CASE HookExits(r)
  <2> PICK c : /\ Moves(r, job[r], c) /\ c.pid = child[r].pid /\ ~c.alive
               /\ child[r].alive /\ UNCHANGED <<guard, reused>>
    BY <1>0, <1>3, ExitMoves
  <2>1. Guarded'
    BY <1>0, GuardKept
  <2>2. job[r].at = "hook"
    BY <1>0 DEF Guarded
  <2>3. Closed'
    BY <1>0, <2>2, MovesClosed
  <2> QED
    BY <1>a, <2>1, <2>3, MovesKeep DEF Inv
<1>4. CASE OutputCloses(r)
  <2> PICK c : /\ Moves(r, job[r], c) /\ UNCHANGED <<guard, reused>>
               /\ c.pid = child[r].pid /\ c.alive = child[r].alive
               /\ c.code = child[r].code /\ c.late = child[r].late
    BY <1>0, <1>4, OutputMoves
  <2>1. Guarded'
    BY <1>0, GuardKept
  <2>2. Closed'
    BY <1>0, MovesClosed
  <2> QED
    BY <1>a, <2>1, <2>2, MovesKeep DEF Inv
<1>5. CASE HookTimesOut(r)
  <2> PICK c : /\ Moves(r, job[r], c) /\ c.pid = child[r].pid /\ c.alive = child[r].alive
               /\ job[r].at = "hook" /\ UNCHANGED <<guard, reused>>
    BY <1>0, <1>5, TimeoutMoves
  <2>1. Guarded'
    BY <1>0, GuardKept
  <2>2. Closed'
    BY <1>0, MovesClosed
  <2> QED
    BY <1>a, <2>1, <2>2, MovesKeep DEF Inv
<1>7. CASE HookReaped(r)
  <2> PICK c : /\ Moves(r, job[r], c) /\ c.pid = child[r].pid /\ ~c.alive
               /\ child[r].alive /\ UNCHANGED <<guard, reused>>
    BY <1>0, <1>7, ReapedMoves
  <2>1. Guarded'
    BY <1>0, GuardKept
  <2>2. job[r].at = "hook"
    BY <1>0 DEF Guarded
  <2>3. Closed'
    BY <1>0, <2>2, MovesClosed
  <2> QED
    BY <1>a, <2>1, <2>3, MovesKeep DEF Inv
<1>6. CASE HookCloses(r)
  <2> PICK j, c : /\ Moves(r, j, c) /\ job[r].at = "hook" /\ c.pid = None /\ ~c.alive
                  /\ j.at = "refused" \/ (j.at = "verify" /\ ~c.late /\ c.code \in {0, 3})
                  /\ guard' = End(r) /\ UNCHANGED reused
    BY <1>0, <1>6, CloseMoves
  <2>1. guard' \in [Pids -> Requests \cup {None}]
    BY <1>a DEF End
  <2>2. Guarded'
    BY <1>0, <1>6, CloseGuarded
  <2>3. Closed'
    BY <1>0, MovesClosed
  <2> QED
    BY <2>1, <2>2, <2>3, MovesKeep DEF Inv
<1> QED
  BY <1>1, <1>2, <1>3, <1>4, <1>5, <1>6, <1>7

\* A poll uses an answer that was used before only if the file kept it, and
\* leaves it there only as one that was kept.
LEMMA PollFresh ==
  ASSUME Typed, Fresh, NEW r \in Requests, Poll(r)
  PROVE  /\ Fresh' /\ used' \in [Requests -> (1 .. writes) \cup {None}]
         /\ kept' \subseteq 1 .. writes /\ (responder' = None \/ responder' = responder)
<1>1. /\ responder \in AnswerType /\ responder # None
      /\ used' = [used EXCEPT ![r] = responder.n] \/ used' = used
  BY PollSettles DEF Poll
<1>2. /\ used \in [Requests -> (1 .. writes) \cup {None}] /\ kept \subseteq 1 .. writes
      /\ responder.n \in 1 .. writes
  BY <1>1 DEF Typed, AnswerType
<1>3. /\ \A s \in Requests : used[s] = responder.n => used[s] \in kept
      /\ \A r1, r2 \in Requests :
            used[r1] # None /\ r1 # r2 /\ used[r1] = used[r2] => used[r1] \in kept
  BY <1>1 DEF Fresh, ResponseUsedOnce
<1> PICK n \in 1 .. writes : n = responder.n
  BY <1>2
<1>4. \/ responder' = None /\ kept' = kept
      \/ responder' = responder /\ kept' = kept \cup {n}
  BY DEF Poll, Truncate
<1>5. /\ used' \in [Requests -> (1 .. writes) \cup {None}]
      /\ \A s \in Requests : used'[s] = used[s] \/ used'[s] = n
  <2>1. CASE used' = [used EXCEPT ![r] = n]
    <3>1. used'[r] = n /\ \A s \in Requests \ {r} : used'[s] = used[s]
      BY <1>2, <2>1
    <3> QED
      BY <1>2, <2>1, <3>1
  <2>2. CASE used' = used
    BY <1>2, <2>2
  <2> QED
    BY <1>1, <2>1, <2>2
<1>6. \A s \in Requests \ {r} : used'[s] = used[s]
  BY <1>1, <1>2
<1>7. kept \subseteq kept' /\ kept' \subseteq 1 .. writes
  BY <1>2, <1>4
<1>8. ASSUME responder' # None, NEW s \in Requests, used'[s] = responder'.n
      PROVE  used'[s] \in kept'
  BY <1>4, <1>8
<1>9. ASSUME NEW r1 \in Requests, NEW r2 \in Requests, used'[r1] # None, r1 # r2,
             used'[r1] = used'[r2]
      PROVE  used'[r1] \in kept'
  <2>1. CASE used'[r1] = used[r1] /\ used'[r2] = used[r2]
    BY <1>3, <1>7, <1>9, <2>1
  <2>2. CASE used'[r1] # used[r1] \/ used'[r2] # used[r2]
    <3>1. used'[r1] = n /\ used'[r2] = n
      BY <1>5, <1>9, <2>2
    <3>2. used[r1] = n \/ used[r2] = n
      BY <1>6, <1>9, <3>1
    <3>3. n \in kept
      BY <1>3, <3>2
    <3> QED
      BY <1>7, <3>1, <3>3
  <2> QED
    BY <2>1, <2>2
<1>10. Fresh'
  BY <1>8, <1>9 DEF Fresh, ResponseUsedOnce
<1> QED
  BY <1>4, <1>5, <1>7, <1>10

LEMMA SettleStep ==
  ASSUME Inv, NEW r \in Requests, Verify(r) \/ Poll(r) \/ EscalationTimesOut(r)
  PROVE  Inv'
<1>0. Typed /\ Guarded /\ Closed /\ Fresh /\ Flagged
  BY DEF Inv
<1>1. HooksKept /\ UNCHANGED <<clock, byKid, revoked, crl, revLen, writes>>
  BY DEF Verify, Poll, EscalationTimesOut, HooksKept, hookVars, keyVars
<1>2. job[r].at \in {"verify", "escalated"}
  BY DEF Verify, Poll, EscalationTimesOut
<1>3. Settled(r) \/ UNCHANGED <<job, audit>>
  BY <1>0, VerifySettles, PollSettles, TimeoutSettles
<1>4. /\ Fresh' /\ used' \in [Requests -> (1 .. writes) \cup {None}]
      /\ responder' = None \/ responder' = responder
      /\ kept' \subseteq 1 .. writes
  <2>1. CASE Poll(r)
    BY <1>0, <2>1, PollFresh
  <2>2. CASE Verify(r) \/ EscalationTimesOut(r)
    <3>1. used' = used /\ responder' = responder /\ kept' = kept
      BY <2>2 DEF Verify, EscalationTimesOut
    <3> QED
      BY <1>0, <3>1 DEF Fresh, ResponseUsedOnce, Typed
  <2> QED
    BY <2>1, <2>2
<1>5. CASE Settled(r)
  <2>1. job' \in [Requests -> JobType] /\ audit' \in Seq(RowType)
    BY <1>0, <1>2, <1>5, SettledFacts
  <2>2. Typed'
    BY <1>0, <1>1, <1>4, <2>1 DEF Typed, HooksKept, AnswerType
  <2>3. Guarded' /\ Closed' /\ Flagged'
    BY <1>0, <1>1, <1>2, <1>5, SettledGuarded, SettledClosed, SettledFlagged
  <2> QED
    BY <1>4, <2>2, <2>3 DEF Inv
<1>6. CASE UNCHANGED <<job, audit>>
  <2>1. Typed'
    BY <1>0, <1>1, <1>4, <1>6 DEF Typed, HooksKept, AnswerType
  <2>2. Guarded'
    BY <1>0, <1>1, <1>6 DEF Guarded, HooksKept
  <2>3. Closed'
    BY <1>0, <1>1, <1>6 DEF Closed, Ended, HooksKept
  <2>4. Flagged'
    BY <1>0, <1>1, <1>6 DEF Flagged, Referred, SuspectsFlagged, FlagsOf
  <2> QED
    BY <1>4, <2>1, <2>2, <2>3, <2>4 DEF Inv
<1> QED
  BY <1>3, <1>5, <1>6

\* Steps that neither a hook nor a request takes, and that leave the chain.
AsideKept == UNCHANGED <<job, child, guard, reused, revoked, revLen, audit, used, kept>>

LEMMA AsideKeeps ==
  ASSUME Inv, AsideKept
  PROVE  Guarded' /\ Closed' /\ Flagged' /\ ResponseUsedOnce'
<1>1. Guarded'
  BY DEF Inv, Guarded, AsideKept
<1>2. Closed'
  BY DEF Inv, Closed, Ended, AsideKept
<1>3. Flagged'
  BY DEF Inv, Flagged, Referred, SuspectsFlagged, FlagsOf, AsideKept
<1> QED
  BY <1>1, <1>2, <1>3 DEF Inv, Fresh, ResponseUsedOnce, AsideKept

LEMMA AsideStep ==
  ASSUME Inv,
         \/ \E k \in Kids : Enroll(k) \/ Respond(k)
         \/ \E k \in CrlKids : PublishCrl(k)
         \/ Tick
  PROVE  Inv'
<1>0. Typed /\ Fresh
  BY DEF Inv
<1>a. clock \in Nat /\ writes \in Nat /\ MaxClock \in Nat /\ MaxWrites \in Nat
  BY <1>0, HandlersAssumption DEF Typed
<1>1. ASSUME NEW k \in Kids, Enroll(k) PROVE Inv'
  <2> PICK role \in NewRoles, at \in IssuedAts :
          EnrollKey(k, [role |-> role, at |-> at, overlap |-> None])
    BY <1>1 DEF Enroll
  <2>1. AsideKept /\ UNCHANGED <<clock, crl, writes, responder>>
    BY <1>1 DEF Enroll, AsideKept, hookVars
  <2>2. [role |-> role, at |-> at, overlap |-> None] \in EntryType
    BY HandlersAssumption DEF EntryType
  <2>3. byKid' \in [Kids -> EntryType \cup {None}]
    BY <1>0, <2>2 DEF EnrollKey, Typed
  <2>4. Typed'
    BY <1>0, <2>1, <2>3 DEF Typed, AsideKept, AnswerType
  <2>5. Fresh'
    BY <1>0, <2>1 DEF Fresh, ResponseUsedOnce, AsideKept
  <2> QED
    BY <2>1, <2>4, <2>5, AsideKeeps DEF Inv
<1>2. ASSUME NEW k \in Kids, Respond(k) PROVE Inv'
  <2>1. AsideKept /\ UNCHANGED <<clock, crl, byKid>> /\ writes' = writes + 1 /\ writes < MaxWrites
    BY <1>2 DEF Respond, AsideKept, hookVars, keyVars
  <2>2. PICK kid \in Kids \cup {None}, response \in {"approve", "deny", "silence"} :
            responder' = [kid |-> kid, response |-> response, n |-> writes']
    BY <1>2 DEF Respond
  <2>3. writes' \in 1 .. MaxWrites /\ (1 .. writes) \subseteq (1 .. writes') /\ writes' \notin 1 .. writes
    BY <1>a, <2>1
  <2>4. responder' \in AnswerType' /\ responder'.n = writes'
    <3>1. writes' \in 1 .. writes'
      BY <2>3
    <3> QED
      BY <2>2, <3>1 DEF AnswerType
  <2>5. used' \in [Requests -> (1 .. writes') \cup {None}] /\ kept' \subseteq 1 .. writes'
    BY <1>0, <2>1, <2>3 DEF Typed, AsideKept
  <2>6. writes' \in 0 .. MaxWrites
    BY <2>3
  <2>7. Typed'
    BY <1>0, <2>1, <2>4, <2>5, <2>6 DEF Typed, AsideKept
  <2>8. \A r \in Requests : used'[r] # responder'.n
    <3>1. \A r \in Requests : used'[r] \in (1 .. writes) \cup {None}
      BY <1>0, <2>1 DEF Typed, AsideKept
    <3>2. writes' # None
      BY <2>3, NoneAssumption
    <3> QED
      BY <2>3, <2>4, <3>1, <3>2
  <2>9. Fresh'
    BY <1>0, <2>1, <2>8 DEF Fresh, ResponseUsedOnce, AsideKept
  <2> QED
    BY <2>1, <2>7, <2>9, AsideKeeps DEF Inv
<1>3. ASSUME NEW k \in CrlKids, PublishCrl(k) PROVE Inv'
  <2>1. AsideKept /\ UNCHANGED <<clock, writes, responder, byKid>>
    BY <1>3 DEF PublishCrl, AsideKept, hookVars
  <2>2. crl' \in [kid : Kids, at : 0 .. clock]
    BY <1>3, HandlersAssumption DEF PublishCrl
  <2>3. Typed'
    BY <1>0, <2>1, <2>2 DEF Typed, AsideKept, AnswerType
  <2>4. Fresh'
    BY <1>0, <2>1 DEF Fresh, ResponseUsedOnce, AsideKept
  <2> QED
    BY <2>1, <2>3, <2>4, AsideKeeps DEF Inv
<1>4. CASE Tick
  <2>1. AsideKept /\ UNCHANGED <<crl, writes, responder, byKid>> /\ clock' = clock + 1 /\ clock < MaxClock
    BY <1>4 DEF Tick, AsideKept, hookVars, keyVars
  <2>2. clock' \in 0 .. MaxClock /\ (0 .. clock) \subseteq (0 .. clock')
    BY <1>a, <2>1
  <2>3. crl' = None \/ crl' \in [kid : Kids, at : 0 .. clock']
    BY <1>0, <2>1, <2>2 DEF Typed
  <2>4. revoked' \in [Kids -> (0 .. clock') \cup {None}]
    BY <1>0, <2>1, <2>2 DEF Typed, AsideKept
  <2>5. Typed'
    BY <1>0, <2>1, <2>2, <2>3, <2>4 DEF Typed, AsideKept, AnswerType
  <2>6. Fresh'
    BY <1>0, <2>1 DEF Fresh, ResponseUsedOnce, AsideKept
  <2> QED
    BY <2>1, <2>5, <2>6, AsideKeeps DEF Inv
<1> QED
  BY <1>1, <1>2, <1>3, <1>4

LEMMA CrlStep ==
  ASSUME Inv, CrlTick
  PROVE  Inv'
<1>0. Typed /\ Guarded /\ Closed /\ Fresh /\ Flagged
  BY DEF Inv
<1>1. UNCHANGED <<job, child, guard, reused, used, kept, responder>>
  BY DEF CrlTick, hookVars
<1>2. crl.kid \in Kids /\ crl.at \in Nat
  <2>1. crl # None /\ crl.kid \in Kids /\ crl.at \in 0 .. clock
    BY <1>0 DEF CrlTick, Typed
  <2> QED
    BY <1>0, <2>1, HandlersAssumption DEF Typed
<1> PICK R : R = SuspectRows(crl.kid, crl.at)
  OBVIOUS
<1>3. audit' = audit \o R /\ audit \in Seq(RowType)
  BY <1>0 DEF CrlTick, Typed
<1>4. /\ R \in Seq(RowType)
      /\ \A n \in DOMAIN R : \E i \in DOMAIN audit : R[n].r = audit[i].r
  <2>1. R \in Seq(RowType) /\ Suspects(crl.kid, crl.at) \in SUBSET (1 .. Len(audit))
        /\ \A n \in DOMAIN R : R[n].ref \in Suspects(crl.kid, crl.at)
    BY <1>0, <1>2, SuspectRowsFacts
  <2>2. \A n \in DOMAIN R : R[n].ref \in DOMAIN audit
    BY <1>3, <2>1
  <2> DEFINE refs == Ascending(Suspects(crl.kid, crl.at))
  <2>3. \A n \in DOMAIN R : R[n].r = audit[R[n].ref].r
    BY DEF SuspectRows
  <2> QED
    BY <2>1, <2>2, <2>3
<1>5. Guarded'
  BY <1>0, <1>1 DEF Guarded
<1>6. Fresh'
  BY <1>0, <1>1 DEF Fresh, ResponseUsedOnce
<1>7. Closed'
  <2>1. /\ DOMAIN audit' = 1 .. (Len(audit) + Len(R)) /\ Len(audit) \in Nat /\ Len(R) \in Nat
        /\ \A i \in 1 .. Len(audit) : audit'[i] = audit[i]
        /\ \A n \in 1 .. Len(R) : audit'[Len(audit) + n] = R[n]
        /\ DOMAIN audit = 1 .. Len(audit) /\ DOMAIN R = 1 .. Len(R)
    BY ONLY <1>3, <1>4, ConcatProperties
  <2>2. ASSUME NEW i \in DOMAIN audit' PROVE \E m \in DOMAIN audit : audit'[i].r = audit[m].r
    <3>1. CASE i \in 1 .. Len(audit)
      BY <2>1, <3>1
    <3>2. CASE i \notin 1 .. Len(audit)
      <4>1. i - Len(audit) \in 1 .. Len(R) /\ i = Len(audit) + (i - Len(audit))
        BY <2>1, <3>2
      <4>2. audit'[i] = R[i - Len(audit)]
        BY <2>1, <4>1
      <4> QED
        BY <1>4, <2>1, <4>1, <4>2
    <3> QED
      BY <3>1, <3>2
  <2>3. ASSUME NEW i \in DOMAIN audit'
        PROVE  /\ job[audit'[i].r].at \notin {"idle", "hook"}
               /\ ~child[audit'[i].r].late /\ child[audit'[i].r].code \in {0, 3}
    BY <1>0, <2>2 DEF Closed, Ended
  <2> QED
    BY <1>0, <1>1, <2>3 DEF Closed, Ended
<1> QED
  BY <1>0, <1>5, <1>6, <1>7, TickTyped, TickFlagged DEF Inv

LEMMA NextInv ==
  ASSUME Inv, [Next]_vars
  PROVE  Inv'
<1>1. CASE UNCHANGED vars
  <2>1. AsideKept /\ UNCHANGED <<clock, byKid, crl, responder, writes>>
    BY <1>1 DEF vars, AsideKept
  <2>2. Typed'
    BY <2>1 DEF Inv, Typed, AnswerType, AsideKept
  <2>3. Fresh'
    BY <2>1 DEF Inv, Fresh, ResponseUsedOnce, AsideKept
  <2> QED
    BY <2>1, <2>2, <2>3, AsideKeeps DEF Inv
<1>2. CASE Next
  BY <1>2, HookStep, SettleStep, AsideStep, CrlStep DEF Next
<1> QED
  BY <1>1, <1>2

-----------------------------------------------------------------------------
(* The theorems.                                                           *)

\* The inductive invariant holds in every reachable state (hook/reentrancy.ts,
\* hook/runner.ts, attestation/registry.ts, permission/escalation.ts).
THEOREM Inductive == Spec => []Inv
<1>1. Init => Inv
  BY InitInv
<1>2. Inv /\ [Next]_vars => Inv'
  BY NextInv
<1> QED
  BY <1>1, <1>2, PTL DEF Spec

\* For any number of requests, pids and answers the guard knows every running
\* hook whose pid was not taken again, rows come only from hooks that ended by
\* themselves, and an answer of the responder decides a second escalation only
\* if the file could not be emptied when it was read (reentrancy.ts 49-66,
\* runner.ts 71-210, escalation.ts 117-164).
THEOREM Handled == Spec => []HandlerInv
<1>1. Inv => HandlerInv
  <2> SUFFICES ASSUME Inv PROVE HandlerInv
    OBVIOUS
  <2>1. Typed /\ Guarded /\ Closed /\ Fresh /\ Flagged
    BY DEF Inv
  <2>2. TypeOK
    <3>1. \A r \in Requests : job[r].at \in {"idle", "hook", "verify", "escalated", "done", "refused"}
      <4>1. \A r \in Requests : job[r] \in JobType
        BY <2>1 DEF Typed
      <4> QED
        BY <4>1 DEF JobType, AskedType
    <3>2. used \in [Requests -> 1 .. MaxWrites \cup {None}] /\ kept \subseteq 1 .. MaxWrites
      <4>1. writes \in 0 .. MaxWrites /\ MaxWrites \in Nat
        BY <2>1, HandlersAssumption DEF Typed
      <4>2. (1 .. writes) \subseteq (1 .. MaxWrites)
        BY <4>1
      <4> QED
        BY <2>1, <4>2 DEF Typed
    <3> QED
      BY <2>1, <3>1, <3>2 DEF Typed, TypeOK, Flagged, Referred
  <2>3. GuardCovers
    BY <2>1 DEF Guarded, GuardCovers
  <2>4. HookFailsClosed
    BY <2>1 DEF Closed, Ended, HookFailsClosed
  <2> QED
    BY <2>1, <2>2, <2>3, <2>4 DEF HandlerInv, Fresh
<1> QED
  BY <1>1, Inductive, PTL

\* Retroactive flagging is exact for any chain, window and order of polls and
\* writes of the revocation file (crl-poller.ts, audit/suspect.ts).
THEOREM FlaggedOnce == Spec => []SuspectsFlagged
<1>1. Inv => SuspectsFlagged
  BY DEF Inv, Flagged
<1> QED
  BY <1>1, Inductive, PTL
-----------------------------------------------------------------------------
(* Who signs.                                                              *)

Newly == DOMAIN audit' \ DOMAIN audit

\* A step that appends one row appends nothing else.
LEMMA AppendedRow ==
  ASSUME Typed, NEW row \in RowType, audit' = audit \o <<row>>
  PROVE  \A i \in Newly : audit'[i] = row
<1>1. audit \in Seq(RowType) /\ <<row>> \in Seq(RowType) /\ Len(<<row>>) = 1 /\ <<row>>[1] = row
  BY DEF Typed
<1>2. /\ Len(audit) \in Nat /\ DOMAIN audit = 1 .. Len(audit)
      /\ DOMAIN audit' = 1 .. (Len(audit) + 1)
      /\ audit'[Len(audit) + 1] = row
  BY ONLY <1>1, row \in RowType, audit' = audit \o <<row>>
<1>3. \A i \in Newly : i = Len(audit) + 1
  BY <1>2 DEF Newly
<1> QED
  BY <1>2, <1>3

LEMMA NothingAppended ==
  ASSUME Typed, audit' = audit \/ audit' = audit \o <<>>
  PROVE  Newly = {}
<1>1. audit \in Seq(RowType)
  BY DEF Typed
<1>2. audit' = audit
  BY <1>1, ConcatEmptySeq
<1> QED
  BY <1>2 DEF Newly

\* What either property asks of the row that r appends in a settling step.
Entitled(r, row) ==
    /\ row.reason = "signed" /\ job[r].resolved = "Prompt"
         => RoleOf(row.signer) \notin {"Autonomous", "Coordinator"}
    /\ row.signer # None => Usable(row.signer) \/ job[r].at = "escalated"

Signs ==
    \A i \in Newly :
        \/ audit'[i].signer = None /\ audit'[i].reason # "signed"
        \/ \E r \in Requests : audit'[i].r = r /\ job'[r].resolved = job[r].resolved
                               /\ Entitled(r, audit'[i])

LEMMA SettleSigns ==
  ASSUME Typed, NEW r \in Requests, job[r] \in AskedType,
         NEW at \in {"escalated", "done", "refused"}, NEW row \in RowType,
         NewRow(r, row), Entitled(r, row), Settle(r, at, <<row>>)
  PROVE  Signs
<1>1. audit' = audit \o <<row>> /\ job' = [job EXCEPT ![r].at = at]
  BY DEF Settle
<1>2. \A i \in Newly : audit'[i] = row
  BY <1>1, AppendedRow
<1>3. row.r = r
  BY DEF NewRow
<1>4. job'[r].resolved = job[r].resolved
  <2>1. job \in [Requests -> JobType]
    BY DEF Typed
  <2> QED
    BY <1>1, <2>1 DEF AskedType
<1> QED
  BY <1>2, <1>3, <1>4 DEF Signs

LEMMA VerifySigns ==
  ASSUME Typed, NEW r \in Requests, Verify(r)
  PROVE  Signs
<1>1. job[r].at = "verify"
  BY DEF Verify
<1>2. job[r] \in AskedType /\ job[r].pda.kid \in Kids /\ Final(r) \in {"AutoAllow", "Prompt"}
  BY <1>1, AskedFacts
<1>3. CASE ~PdaHolds(job[r].pda)
  <2> PICK row : row = Row(r, None, "Deny", "pda-verify-failed")
    OBVIOUS
  <2>1. Settle(r, "done", <<row>>)
    BY <1>3 DEF Verify
  <2>2. NewRow(r, row)
    BY RowIsNew DEF Reasons
  <2>3. row.signer = None /\ row.reason = "pda-verify-failed"
    BY DEF Row
  <2>4. Entitled(r, row)
    BY <2>3 DEF Entitled
  <2> QED
    BY <1>2, <2>1, <2>2, <2>4, SettleSigns DEF NewRow
<1>4. CASE PdaHolds(job[r].pda) /\ (MustRefuse(r) \/ MustEscalate(r))
  <2>1. audit' = audit \o <<>>
    BY <1>4 DEF Verify, Settle
  <2> QED
    BY <2>1, NothingAppended DEF Signs
<1>5. CASE PdaHolds(job[r].pda) /\ ~MustRefuse(r) /\ ~MustEscalate(r)
  <2> PICK row : row = Row(r, job[r].pda.kid, Final(r), "signed")
    OBVIOUS
  <2>1. Settle(r, "done", <<row>>)
    BY <1>5 DEF Verify
  <2>2. NewRow(r, row)
    BY <1>2, RowIsNew DEF Reasons
  <2>3. row.signer = job[r].pda.kid
    BY DEF Row
  <2>4. Entitled(r, row)
    BY <1>5, <2>3 DEF Entitled, MustRefuse, MustEscalate
  <2> QED
    BY <1>2, <2>1, <2>2, <2>4, SettleSigns DEF NewRow
<1> QED
  BY <1>3, <1>4, <1>5

LEMMA PollSigns ==
  ASSUME Typed, NEW r \in Requests, Poll(r)
  PROVE  Signs
<1>1. job[r].at = "escalated" /\ responder \in AnswerType
  BY PollSettles
<1>2. job[r] \in AskedType /\ Final(r) \in {"AutoAllow", "Prompt"}
  BY <1>1, AskedFacts
<1>3. responder.kid \in Kids \cup {None}
  BY <1>1 DEF AnswerType
<1>4. CASE responder.response = "silence" \/ RoleOf(responder.kid) \in {"Autonomous", "Coordinator"}
  <2>1. audit' = audit \/ audit' = audit \o <<>>
    BY <1>4 DEF Poll, Outcome, Settle
  <2> QED
    BY <2>1, NothingAppended DEF Signs
<1>5. CASE /\ responder.response = "approve"
           /\ RoleOf(responder.kid) \notin {"Autonomous", "Coordinator"}
  <2> PICK row : row = Row(r, responder.kid, Final(r), "signed")
    OBVIOUS
  <2>1. Settle(r, "done", <<row>>)
    BY <1>5 DEF Poll, Outcome
  <2>2. NewRow(r, row)
    BY <1>2, <1>3, RowIsNew DEF Reasons
  <2>3. Entitled(r, row)
    BY <1>1, <1>5 DEF Entitled, Row
  <2> QED
    BY <1>2, <2>1, <2>2, <2>3, SettleSigns DEF NewRow
<1>6. CASE /\ responder.response \notin {"silence", "approve"}
           /\ RoleOf(responder.kid) \notin {"Autonomous", "Coordinator"}
  <2> PICK row : row = Row(r, responder.kid, "Deny", "hitl-denied")
    OBVIOUS
  <2>1. Settle(r, "refused", <<row>>)
    BY <1>6 DEF Poll, Outcome
  <2>2. NewRow(r, row)
    BY <1>3, RowIsNew DEF Reasons
  <2>3. Entitled(r, row)
    BY <1>1 DEF Entitled, Row
  <2> QED
    BY <1>2, <2>1, <2>2, <2>3, SettleSigns DEF NewRow
<1> QED
  BY <1>4, <1>5, <1>6

LEMMA TimeoutSigns ==
  ASSUME Typed, NEW r \in Requests, EscalationTimesOut(r)
  PROVE  Signs
<1>1. job[r].at = "escalated"
  BY DEF EscalationTimesOut
<1>2. job[r] \in AskedType /\ job[r].pda.kid \in Kids
  BY <1>1, AskedFacts
<1> PICK row : row = Row(r, job[r].pda.kid, "Deny", "escalation-timeout")
  OBVIOUS
<1>3. Settle(r, "refused", <<row>>)
  BY DEF EscalationTimesOut
<1>4. NewRow(r, row)
  BY <1>2, RowIsNew DEF Reasons
<1>5. Entitled(r, row)
  BY <1>1 DEF Entitled, Row
<1> QED
  BY <1>2, <1>3, <1>4, <1>5, SettleSigns DEF NewRow

LEMMA TickSigns ==
  ASSUME Typed, CrlTick
  PROVE  Signs
<1>1. crl.kid \in Kids /\ crl.at \in Nat
  <2>1. crl # None /\ crl.kid \in Kids /\ crl.at \in 0 .. clock
    BY DEF CrlTick, Typed
  <2> QED
    BY <2>1, HandlersAssumption DEF Typed
<1> PICK R : R = SuspectRows(crl.kid, crl.at)
  OBVIOUS
<1>2. audit' = audit \o R /\ audit \in Seq(RowType)
  BY DEF CrlTick, Typed
<1>3. R \in Seq(RowType) /\ \A n \in DOMAIN R : R[n].signer = None
  BY <1>1, SuspectRowsFacts
<1>4. \A n \in DOMAIN R : R[n].reason = "kid-revoked-24h-window"
  BY DEF SuspectRows
<1>5. /\ DOMAIN audit' = 1 .. (Len(audit) + Len(R)) /\ Len(audit) \in Nat /\ Len(R) \in Nat
      /\ \A n \in 1 .. Len(R) : audit'[Len(audit) + n] = R[n]
      /\ DOMAIN audit = 1 .. Len(audit) /\ DOMAIN R = 1 .. Len(R)
  BY ONLY <1>2, <1>3, ConcatProperties
<1>6. ASSUME NEW i \in Newly PROVE audit'[i].signer = None /\ audit'[i].reason # "signed"
  <2>1. i - Len(audit) \in 1 .. Len(R) /\ i = Len(audit) + (i - Len(audit))
    BY <1>5 DEF Newly
  <2>2. audit'[i] = R[i - Len(audit)]
    BY <1>5, <2>1
  <2> QED
    BY <1>3, <1>4, <1>5, <2>1, <2>2
<1> QED
  BY <1>6 DEF Signs

LEMMA NextSigns ==
  ASSUME Inv, Next
  PROVE  Signs
<1>1. Typed
  BY DEF Inv
<1>2. ASSUME NEW r \in Requests,
             \/ \E p \in Pids : HookSpawns(r, p)
             \/ HookFails(r) \/ HookExits(r) \/ OutputCloses(r)
             \/ HookTimesOut(r) \/ HookReaped(r) \/ HookCloses(r)
      PROVE  Signs
  <2>1. audit' = audit
    BY <1>2 DEF HookSpawns, HookFails, HookExits, OutputCloses, HookTimesOut, HookReaped, HookCloses
  <2> QED
    BY <1>1, <2>1, NothingAppended DEF Signs
<1>3. ASSUME NEW r \in Requests, Verify(r) \/ Poll(r) \/ EscalationTimesOut(r)
      PROVE  Signs
  BY <1>1, <1>3, VerifySigns, PollSigns, TimeoutSigns
<1>4. ASSUME (\E k \in Kids : Enroll(k) \/ Respond(k)) \/ (\E k \in CrlKids : PublishCrl(k)) \/ Tick
      PROVE  Signs
  <2>1. audit' = audit
    BY <1>4 DEF Enroll, Respond, PublishCrl, Tick
  <2> QED
    BY <1>1, <2>1, NothingAppended DEF Signs
<1>5. ASSUME CrlTick PROVE Signs
  BY <1>1, <1>5, TickSigns
<1> QED
  BY <1>2, <1>3, <1>4, <1>5 DEF Next

\* A Prompt that was resolved before the step and signed in it is entitled.
LEMMA SignsHuman ==
  ASSUME Inv, Next, Signs
  PROVE  \A i \in Newly : /\ audit'[i].reason = "signed"
                          /\ job'[audit'[i].r].resolved = "Prompt"
                          => RoleOf(audit'[i].signer) \notin {"Autonomous", "Coordinator"}
BY DEF Signs, Entitled

\* No Prompt for a high-risk tool is satisfied by an Autonomous or Coordinator
\* signature, and no key signs past its revocation or age save at the end of an
\* escalation (decisions-route.ts 560-650, registry.ts, escalation.ts).
THEOREM Signed == Spec => SignersEntitled
<1>1. ASSUME Inv, Next PROVE Signs
  BY <1>1, NextSigns
<1>2. ASSUME Inv, [Next]_vars
      PROVE  [\A i \in DOMAIN audit' \ DOMAIN audit :
                Prompted(i)' => RoleOf(audit'[i].signer) \notin {"Autonomous", "Coordinator"}]_vars
  BY <1>1, <1>2, SignsHuman DEF Prompted, Newly
<1>3. ASSUME Inv, [Next]_vars
      PROVE  [\A i \in DOMAIN audit' \ DOMAIN audit :
                LET k == audit'[i].signer IN
                k # None => Usable(k) \/ job[audit'[i].r].at = "escalated"]_vars
  BY <1>1, <1>3 DEF Signs, Entitled, Newly
<1> QED
  BY <1>2, <1>3, Inductive, PTL DEF Spec, SignersEntitled, HumanDecides, SignerUsable
=============================================================================
