--------------------------- MODULE DecisionsProofs ---------------------------
(***************************************************************************)
(* The guarantees of POST /permissions/decisions for any number of         *)
(* requests, hydrating readers, sessions, failures and crashes, and every  *)
(* wiring of the Runner; and, last, of the resolver the endpoint calls.    *)
(***************************************************************************)
EXTENDS Decisions, SequenceTheorems, FiniteSetTheorems, WellFoundedInduction, TLAPS

Causes == Procs \cup {None, "MemoryDegraded", "BudgetExhausted", "HookReentrancy"}
EventTypes == {"SessionStart", "PreToolUseOutcome", "PermissionDecision", "PostToolUseOutcome",
               "SessionEnd", "CrashEvent"}
EventType == [type : EventTypes, by : Causes]

(* The emitter holds events of the running process. *)
Evented == events \in [Sessions -> Seq(EventType)]

(* A session nobody has created has left no trace, and no process works on it. *)
Traceless ==
  /\ \A s \in Sessions \ born : disk[s] = Missing /\ store[s] = None /\ events[s] = <<>>
  /\ \A p \in Procs : IF job[p].pc = "idle" THEN job[p].rows = <<>> ELSE job[p].sid \in born

(* The lock chain of a session holds processes that wait to write its file, once each. *)
Lined ==
  /\ \A s \in Sessions : \A i \in DOMAIN queue[s] :
       job[queue[s][i]].sid = s /\ job[queue[s][i]].pc \in Queued
  /\ \A s \in Sessions : \A i, j \in DOMAIN queue[s] : queue[s][i] = queue[s][j] => i = j

(* A request that has arrived knows its key. *)
Keyed == \A r \in Requests : job[r].pc # "idle" => job[r].key \in Keys \cup Requests

Undecided == {"pending", "decide", "verify", "escalate", "sink"}
Bracketing == Undecided \cup {"committing", "compensating"}

(* A request in its bracket has its own row in its copy of the file, and the row caches no
   audit id before it is committed. *)
Bracketed ==
  \A r \in Requests :
    /\ job[r].pc \in Bracketing =>
         job[r].idx \in DOMAIN job[r].rows /\ job[r].rows[job[r].idx].key = job[r].key
    /\ job[r].pc \in Undecided => job[r].rows[job[r].idx].aud = NoAudit

(* The rows with an audit id in some version of the rows of s: the file, or a copy that a
   process may write. *)
Cached(s) ==
  {row \in RowType :
     /\ row.aud # NoAudit
     /\ \/ Contains(Rows(s), row)
        \/ \E p \in Procs : job[p].sid = s /\ Contains(job[p].rows, row)}

(* An audit id cached for s belongs to a decision for s and the row's key. *)
Vouched(row, s) ==
  /\ row.phase = "committed"
  /\ row.aud \in ever
  /\ job[row.aud].sid = s
  /\ job[row.aud].key = row.key

Audited ==
  /\ \A r \in ever : job[r].pc # "idle"
  /\ \A r \in Requests : job[r].pc \in {"sink", "committing", "committed", "posthook"} =>
       r \in ever /\ [kind |-> "decision", id |-> r] \in chain
  /\ \A r \in Requests : job[r].pc = "posthook" => job[r].ans = r
  /\ \A s \in Sessions : \A row \in Cached(s) : Vouched(row, s)

MayDecide(s) ==
  \/ store[s] # None /\ store[s].canDecide
  \/ \E r \in Requests : job[r].sid = s /\ job[r].pc \in Active

(* A session that decides was created by the running process: every audit id its file
   caches is on the chain of this process. *)
Current ==
  \A s \in Sessions : MayDecide(s) =>
    \A row \in Cached(s) : [kind |-> "decision", id |-> row.aud] \in chain

ScanType == [pc : {"list", "scanning", "done"}, todo : SUBSET Sessions, seen : SUBSET Sessions,
             open : BOOLEAN]

(* The sessions the boot scan has still to look at have a file. *)
Listed == scan \in ScanType /\ \A s \in scan.todo : disk[s] # Missing

Inv ==
  /\ setting \in DOMAIN Settings
  /\ TypeOK /\ Evented /\ Traceless /\ Listed /\ Lined /\ Keyed /\ Bracketed /\ Audited /\ Current
  /\ SessionEndIsFinal
-----------------------------------------------------------------------------
JobType == [pc    : {"idle"} \cup Active \cup Final,
            sid   : Sessions \cup {None},
            key   : Keys \cup Requests \cup {None},
            shape : Cfg.shapes \cup {None},
            rows  : Seq(RowType),
            idx   : Nat,
            ans   : Requests \cup {NoAudit},
            again : BOOLEAN]

LEMMA PcFacts ==
  /\ Undecided \ Queued \subseteq Active \ Queued /\ Undecided \ {"pending"} \subseteq Active \ Queued
  /\ {"prehook", "load", "committed", "posthook", "settling", "resumed"} \subseteq Active \ Queued
  /\ {"refused", "served", "accepted", "replayed", "lost"} \subseteq Final \ Queued
  /\ "idle" \notin Active \cup Final /\ Queued \subseteq Active
  /\ Active \cap Final = {} /\ {"refused", "lost"} \subseteq Final
  BY DEF Undecided, Active, Awaiting, Queued, Final, Answered

(* What an element of an extended sequence can be. *)
LEMMA AppendCases ==
  ASSUME NEW S, NEW q \in Seq(S), NEW e \in S
  PROVE  /\ Append(q, e) \in Seq(S)
         /\ Len(q) + 1 \in DOMAIN Append(q, e) /\ Append(q, e)[Len(q) + 1] = e
         /\ DOMAIN q \subseteq DOMAIN Append(q, e)
         /\ \A i \in DOMAIN q : Append(q, e)[i] = q[i]
         /\ \A i \in DOMAIN Append(q, e) : i \in DOMAIN q \/ i = Len(q) + 1
  OBVIOUS

(* The rows of t that cache an audit id are old: some version of t has them already. *)
AddsNothing(t, rows) ==
  \A i \in DOMAIN rows : rows[i] \in RowType /\ (rows[i].aud # NoAudit => rows[i] \in Cached(t))

LEMMA OldRows ==
  ASSUME TypeOK, NEW t \in Sessions
  PROVE  /\ AddsNothing(t, <<>>)
         /\ AddsNothing(t, Rows(t))
         /\ \A p \in Procs : job[p].sid = t => AddsNothing(t, job[p].rows)
<1>1. AddsNothing(t, <<>>)
  BY DEF AddsNothing
<1>2. Rows(t) \in Seq(RowType) /\ \A p \in Procs : job[p].rows \in Seq(RowType)
  BY DEF TypeOK, Rows
<1>3. AddsNothing(t, Rows(t))
  BY <1>2, ElementOfSeq DEF AddsNothing, Cached, Contains
<1>4. \A p \in Procs : job[p].sid = t => AddsNothing(t, job[p].rows)
  BY <1>2, ElementOfSeq DEF AddsNothing, Cached, Contains
<1> QED
  BY <1>1, <1>3, <1>4

(* When no version is new, no audit id is. *)
LEMMA NothingCached ==
  ASSUME NEW t \in Sessions, AddsNothing(t, Rows(t)'),
         \A p \in Procs : job'[p].sid = t => AddsNothing(t, job'[p].rows)
  PROVE  Cached(t)' \subseteq Cached(t)
<1> SUFFICES ASSUME NEW row \in Cached(t)'
             PROVE  row \in Cached(t)
  OBVIOUS
<1>1. row.aud # NoAudit
  BY DEF Cached
<1>2. CASE Contains(Rows(t)', row)
  BY <1>1, <1>2 DEF AddsNothing, Contains
<1>3. ASSUME NEW p \in Procs, job'[p].sid = t, Contains(job'[p].rows, row)
      PROVE  row \in Cached(t)
  BY <1>1, <1>3 DEF AddsNothing, Contains
<1> QED
  BY <1>2, <1>3 DEF Cached

(* A decision keeps its session and its key. *)
LEMMA StaysVouched ==
  ASSUME Audited, ever \subseteq ever',
         \A r \in ever : job'[r].sid = job[r].sid /\ job'[r].key = job[r].key,
         NEW t \in Sessions, NEW row \in Cached(t)
  PROVE  Vouched(row, t)'
<1>1. Vouched(row, t)
  BY DEF Audited
<1> QED
  BY <1>1 DEF Vouched

(* One process moves on, without joining or leaving the queue of a file. *)
Alone(p) ==
  /\ UNCHANGED <<setting, disk, queue, born>>
  /\ job' \in [Procs -> JobType]
  /\ \A q \in Procs \ {p} : job'[q] = job[q]
  /\ job[p].pc \notin Queued /\ job'[p].pc \notin Queued
  /\ IF job'[p].pc = "idle" THEN job'[p].rows = <<>> ELSE job'[p].sid \in born

(* Its decision, when it is a request: it stays in its bracket, or appends its row to the
   chain; what was decided stays. *)
Decides(p) ==
  /\ ever \subseteq ever' /\ ever' \subseteq ever \cup {p} /\ chain \subseteq chain'
  /\ p \in ever => job'[p].sid = job[p].sid /\ job'[p].key = job[p].key
  /\ p \in ever' => job'[p].pc # "idle"
  /\ p \in Requests =>
       /\ job'[p].pc # "idle" => job'[p].key \in Keys \cup Requests
       /\ job'[p].pc \in Bracketing =>
            /\ job[p].pc \in Undecided /\ job'[p].pc \in Undecided
            /\ job'[p].idx = job[p].idx /\ job'[p].key = job[p].key
            /\ job'[p].rows = job[p].rows
       /\ job'[p].pc \in {"sink", "committed", "posthook"} =>
            p \in ever' /\ [kind |-> "decision", id |-> p] \in chain'
       /\ job'[p].pc = "posthook" => job'[p].ans = p

LEMMA ProcessStep ==
  ASSUME Inv, NEW p \in Procs, Alone(p), Decides(p),
         AddsNothing(job'[p].sid, job'[p].rows),
         \A t \in Sessions : MayDecide(t)' => MayDecide(t),
         \A s \in Sessions : store'[s] # store[s] => s \in born,
         \A s \in Sessions : events'[s] # events[s] => s \in born,
         TypeOK', Evented', Listed', SessionEndIsFinal'
  PROVE  Inv'
<1> USE DEF Inv
<1>1. setting' \in DOMAIN Settings
  BY DEF Alone
<1>2. Traceless'
  BY DEF Traceless, Alone, TypeOK
<1>3. Lined'
  <2>1. \A s \in Sessions : \A i \in DOMAIN queue[s] : queue[s][i] \in Procs /\ queue[s][i] # p
    BY DEF Lined, Alone, TypeOK
  <2> QED
    BY <2>1 DEF Lined, Alone
<1>4. Bracketed'
  <2> SUFFICES ASSUME NEW r \in Requests
               PROVE  /\ job'[r].pc \in Bracketing =>
                           job'[r].idx \in DOMAIN job'[r].rows /\ job'[r].rows[job'[r].idx].key = job'[r].key
                      /\ job'[r].pc \in Undecided => job'[r].rows[job'[r].idx].aud = NoAudit
    BY DEF Bracketed
  <2>1. r \in Procs
    BY DEF Procs
  <2> QED
    BY <2>1 DEF Bracketed, Alone, Decides, Bracketing
<1>8. Keyed'
  BY DEF Keyed, Alone, Decides, Procs
<1>5. \A t \in Sessions : Cached(t)' \subseteq Cached(t)
  <2> SUFFICES ASSUME NEW t \in Sessions
               PROVE  Cached(t)' \subseteq Cached(t)
    OBVIOUS
  <2>1. Rows(t)' = Rows(t)
    BY DEF Alone, Rows
  <2>2. \A q \in Procs : job'[q].sid = t => AddsNothing(t, job'[q].rows)
    BY OldRows DEF Alone
  <2> QED
    BY <2>1, <2>2, OldRows, NothingCached
<1>6. Audited'
  <2>1. \A r \in Requests : r \in Procs
    BY DEF Procs
  <2>2. \A r \in ever' : job'[r].pc # "idle"
    BY <2>1 DEF Audited, Alone, Decides, TypeOK
  <2>3. \A r \in Requests :
          /\ job'[r].pc \in {"sink", "committing", "committed", "posthook"} =>
               r \in ever' /\ [kind |-> "decision", id |-> r] \in chain'
          /\ job'[r].pc = "posthook" => job'[r].ans = r
    BY <2>1 DEF Audited, Alone, Decides, Queued
  <2>4. \A r \in ever : job'[r].sid = job[r].sid /\ job'[r].key = job[r].key /\ r \in ever'
    BY <2>1 DEF Alone, Decides, TypeOK
  <2>5. \A t \in Sessions : \A row \in Cached(t)' : Vouched(row, t)'
    BY <1>5, <2>4, StaysVouched DEF Decides
  <2> QED
    BY <2>2, <2>3, <2>5 DEF Audited
<1>7. Current'
  BY <1>5 DEF Current, Decides
<1> QED
  BY <1>1, <1>2, <1>3, <1>4, <1>6, <1>7, <1>8

(* One process has prepared its copy of the file and joins the queue for it. *)
Joins(p) ==
  /\ UNCHANGED <<setting, disk, born, store, events, ever>>
  /\ chain \subseteq chain'
  /\ job' \in [Procs -> JobType]
  /\ \A q \in Procs \ {p} : job'[q] = job[q]
  /\ job[p].pc \in Active \ Queued /\ job'[p].pc \in Queued
  /\ job'[p].sid = job[p].sid /\ job'[p].key = job[p].key
  /\ Enqueue(p, job[p].sid)

(* Its row is in place, and an audit id that is new in the copy is its own. *)
Prepares(p) ==
  /\ p \in Requests => /\ job'[p].pc \in Bracketing =>
                            /\ job'[p].idx \in DOMAIN job'[p].rows
                            /\ job'[p].rows[job'[p].idx].key = job'[p].key
                       /\ job'[p].pc \in Undecided => job'[p].rows[job'[p].idx].aud = NoAudit
                       /\ job'[p].pc = "committing" => job[p].pc = "sink"
  /\ \A i \in DOMAIN job'[p].rows :
       LET row == job'[p].rows[i] IN
       row.aud # NoAudit =>
         \/ row \in Cached(job[p].sid)
         \/ /\ p \in Requests /\ job[p].pc = "sink"
            /\ row.phase = "committed" /\ row.aud = p /\ row.key = job[p].key

LEMMA JoinedLine ==
  ASSUME Lined, TypeOK, NEW p \in Procs, job[p].sid \in Sessions, Joins(p)
  PROVE  queue' \in [Sessions -> Seq(Procs)] /\ Lined'
<1> DEFINE s == job[p].sid
<1>1. queue' \in [Sessions -> Seq(Procs)]
  BY DEF Joins, Enqueue, TypeOK
<1>2. /\ queue[s] \in Seq(Procs) /\ queue'[s] = Append(queue[s], p)
      /\ \A t \in Sessions \ {s} : queue'[t] = queue[t]
  BY DEF Joins, Enqueue, TypeOK
<1>3. \A t \in Sessions : \A i \in DOMAIN queue[t] : queue[t][i] \in Procs /\ queue[t][i] # p
  BY DEF Lined, Joins, TypeOK
<1>4. \A i \in DOMAIN queue'[s] :
        \/ i \in DOMAIN queue[s] /\ queue'[s][i] = queue[s][i]
        \/ i = Len(queue[s]) + 1 /\ queue'[s][i] = p
  BY <1>2, AppendCases
<1>5. ASSUME NEW t \in Sessions, NEW i \in DOMAIN queue'[t]
      PROVE  job'[queue'[t][i]].sid = t /\ job'[queue'[t][i]].pc \in Queued
  <2>1. \A u \in Sessions : \A n \in DOMAIN queue[u] :
          job'[queue[u][n]].sid = u /\ job'[queue[u][n]].pc \in Queued
    BY <1>3 DEF Lined, Joins
  <2>2. job'[p].sid = s /\ job'[p].pc \in Queued
    BY DEF Joins
  <2>3. CASE t # s
    BY <1>2, <2>1, <2>3
  <2>4. CASE t = s
    BY <1>4, <2>1, <2>2, <2>4
  <2> QED
    BY <2>3, <2>4
<1>6. ASSUME NEW t \in Sessions, NEW i \in DOMAIN queue'[t], NEW j \in DOMAIN queue'[t],
             queue'[t][i] = queue'[t][j]
      PROVE  i = j
  <2>1. CASE t # s
    BY <1>2, <1>6, <2>1 DEF Lined
  <2>2. CASE t = s
    <3>1. CASE i \in DOMAIN queue[s] /\ j \in DOMAIN queue[s]
      <4>1. queue'[s][i] = queue[s][i] /\ queue'[s][j] = queue[s][j]
        BY <1>2, <3>1, AppendCases
      <4> QED
        BY <1>6, <2>2, <3>1, <4>1 DEF Lined
    <3>2. CASE ~(i \in DOMAIN queue[s] /\ j \in DOMAIN queue[s])
      BY <1>3, <1>4, <1>6, <2>2, <3>2
    <3> QED
      BY <3>1, <3>2
  <2> QED
    BY <2>1, <2>2
<1> QED
  BY <1>1, <1>5, <1>6 DEF Lined

LEMMA JoinStep ==
  ASSUME Inv, NEW p \in Procs, Joins(p), Prepares(p), UNCHANGED <<budget, scan>>,
         \A row \in chain' : row.kind \in {"decision", "refusal", "residency", "resume"}
  PROVE  Inv'
<1> USE DEF Inv
<1> DEFINE s == job[p].sid
<1>0. /\ s \in Sessions /\ s \in born /\ \A r \in Requests : r \in Procs
      /\ job[p].pc # "idle" /\ job'[p].pc # "idle"
  BY DEF Traceless, TypeOK, Joins, Procs, Active, Awaiting, Queued
<1>1. setting' \in DOMAIN Settings
  BY DEF Joins
<1>2. TypeOK'
  BY <1>0, JoinedLine DEF TypeOK, Joins, JobType, Cfg
<1>3. Evented'
  BY DEF Evented, Joins
<1>4. Traceless'
  BY <1>0 DEF Traceless, Joins
<1>5. Lined'
  BY <1>0, JoinedLine
<1>6. Bracketed'
  BY <1>0 DEF Bracketed, Joins, Prepares
<1>7. ASSUME NEW t \in Sessions, NEW row \in Cached(t)', row \notin Cached(t)
      PROVE  /\ t = s /\ p \in Requests /\ job[p].pc = "sink"
             /\ row.phase = "committed" /\ row.aud = p /\ row.key = job[p].key
  <2>1. row \in RowType /\ row.aud # NoAudit
    BY DEF Cached, RowType
  <2>2. Rows(t)' = Rows(t)
    BY DEF Joins, Rows
  <2>3. ~Contains(Rows(t), row)
    BY <1>7, <2>1 DEF Cached
  <2>4. PICK q \in Procs : job'[q].sid = t /\ Contains(job'[q].rows, row)
    BY <2>2, <2>3 DEF Cached, RowType
  <2>5. q = p
    BY <1>7, <2>1, <2>4 DEF Cached, Joins
  <2> QED
    BY <1>7, <2>1, <2>4, <2>5 DEF Joins, Prepares, Contains
<1>8. Audited'
  <2>1. \A r \in Requests : job'[r].sid = job[r].sid /\ job'[r].key = job[r].key
    BY <1>0 DEF Joins
  <2>2. \A r \in ever' : r \in Requests /\ job'[r].pc # "idle"
    BY <1>0 DEF Audited, Joins, TypeOK, Queued
  <2>3. \A r \in Requests :
          /\ job'[r].pc \in {"sink", "committing", "committed", "posthook"} =>
               r \in ever' /\ [kind |-> "decision", id |-> r] \in chain'
          /\ job'[r].pc = "posthook" => job'[r].ans = r
    BY <1>0 DEF Audited, Joins, Prepares, Queued
  <2>4. ASSUME NEW t \in Sessions, NEW row \in Cached(t)'
        PROVE  Vouched(row, t)'
    <3>1. CASE row \in Cached(t)
      BY <2>1, <3>1, StaysVouched DEF Joins, TypeOK
    <3>2. CASE row \notin Cached(t)
      <4>1. /\ t = s /\ row.aud = p /\ row.key = job[p].key /\ row.phase = "committed"
            /\ p \in Requests /\ p \in ever
        BY <1>7, <3>2 DEF Audited
      <4> QED
        BY <2>1, <4>1 DEF Vouched, Joins
    <3> QED
      BY <3>1, <3>2
  <2> QED
    BY <2>2, <2>3, <2>4 DEF Audited
<1>9. Current'
  <2> SUFFICES ASSUME NEW t \in Sessions, MayDecide(t)', NEW row \in Cached(t)'
               PROVE  [kind |-> "decision", id |-> row.aud] \in chain'
    BY DEF Current
  <2>1. MayDecide(t)
    BY <1>0 DEF MayDecide, Joins
  <2>2. CASE row \in Cached(t)
    BY <2>1, <2>2 DEF Current, Joins
  <2>3. CASE row \notin Cached(t)
    BY <1>7, <2>3 DEF Audited, Joins
  <2> QED
    BY <2>2, <2>3
<1>10. SessionEndIsFinal'
  BY DEF SessionEndIsFinal, Joins
<1>11. Keyed'
  BY <1>0 DEF Keyed, Joins
<1>12. Listed'
  BY DEF Listed, Joins
<1> QED
  BY <1>1, <1>2, <1>3, <1>4, <1>5, <1>6, <1>8, <1>9, <1>10, <1>11, <1>12

(* The write at the head of a queue is over: its process goes on, or is done. *)
Leaves(s, p) ==
  /\ queue[s] # <<>> /\ p = Head(queue[s])
  /\ UNCHANGED <<setting, memory, scan, born, ever>>
  /\ queue' = [queue EXCEPT ![s] = Tail(@)]
  /\ disk' = disk \/ disk' = [disk EXCEPT ![s] = job[p].rows]
  /\ job' \in [Procs -> JobType]
  /\ \A q \in Procs \ {p} : job'[q] = job[q]
  /\ IF job'[p].pc = "idle" THEN job'[p].rows = <<>> /\ p \notin Requests
                            ELSE job'[p].sid = s /\ job'[p].rows \in {<<>>, job[p].rows}
  /\ job'[p].pc \in {"idle", "decide", "committed", "refused", "resumed"}
  /\ p \in Requests =>
       /\ job'[p].key = job[p].key
       /\ job'[p].pc = "decide" =>
            job[p].pc = "pending" /\ job'[p].idx = job[p].idx /\ job'[p].rows = job[p].rows
       /\ job'[p].pc = "committed" => job[p].pc = "committing"

(* The head of a queue, and what is left. *)
LEMMA QueueHead ==
  ASSUME Lined, TypeOK, NEW s \in Sessions, queue[s] # <<>>
  PROVE  /\ Head(queue[s]) \in Procs
         /\ job[Head(queue[s])].sid = s /\ job[Head(queue[s])].pc \in Queued
         /\ Tail(queue[s]) \in Seq(Procs)
         /\ \A i \in DOMAIN Tail(queue[s]) :
              /\ i \in Int /\ i + 1 \in DOMAIN queue[s]
              /\ Tail(queue[s])[i] = queue[s][i + 1] /\ queue[s][i + 1] # Head(queue[s])
<1>1. queue[s] \in Seq(Procs)
  BY DEF TypeOK
<1>2. 1 \in DOMAIN queue[s] /\ Head(queue[s]) = queue[s][1]
  BY <1>1, EmptySeq
<1>3. Tail(queue[s]) \in Seq(Procs)
  BY <1>1
<1>4. ASSUME NEW i \in DOMAIN Tail(queue[s])
      PROVE  /\ i \in Int /\ i + 1 \in DOMAIN queue[s] /\ i + 1 # 1
             /\ Tail(queue[s])[i] = queue[s][i + 1]
  BY <1>1, HeadTailProperties
<1> QED
  BY <1>1, <1>2, <1>3, <1>4 DEF Lined

LEMMA LeftLine ==
  ASSUME Lined, TypeOK, NEW s \in Sessions, NEW p \in Procs, Leaves(s, p)
  PROVE  queue' \in [Sessions -> Seq(Procs)] /\ Lined'
<1>1. /\ queue' \in [Sessions -> Seq(Procs)] /\ queue'[s] = Tail(queue[s])
      /\ \A t \in Sessions \ {s} : queue'[t] = queue[t]
  BY QueueHead DEF Leaves, TypeOK
<1>2. job[p].sid = s /\ p = Head(queue[s])
  BY QueueHead DEF Leaves
<1>3. \A t \in Sessions : \A i \in DOMAIN queue[t] : queue[t][i] \in Procs
  BY DEF TypeOK
<1>4. \A i \in DOMAIN queue'[s] :
        /\ i \in Int /\ i + 1 \in DOMAIN queue[s] /\ queue'[s][i] = queue[s][i + 1]
        /\ queue[s][i + 1] # p
  BY <1>1, <1>2, QueueHead DEF Leaves
<1>5. ASSUME NEW t \in Sessions, NEW i \in DOMAIN queue'[t]
      PROVE  job'[queue'[t][i]].sid = t /\ job'[queue'[t][i]].pc \in Queued
  BY <1>1, <1>2, <1>3, <1>4 DEF Lined, Leaves
<1>6. ASSUME NEW t \in Sessions, NEW i \in DOMAIN queue'[t], NEW j \in DOMAIN queue'[t],
             queue'[t][i] = queue'[t][j]
      PROVE  i = j
  <2>1. CASE t # s
    BY <1>1, <1>6, <2>1 DEF Lined
  <2>2. CASE t = s
    BY <1>4, <1>6, <2>2 DEF Lined
  <2> QED
    BY <2>1, <2>2
<1> QED
  BY <1>1, <1>5, <1>6 DEF Lined

LEMMA LeaveStep ==
  ASSUME Inv, NEW s \in Sessions, NEW p \in Procs, Leaves(s, p)
  PROVE  Inv'
<1> USE DEF Inv, memory
<1>0. /\ p = Head(queue[s]) /\ job[p].sid = s /\ job[p].pc \in Queued
      /\ \A r \in Requests : r \in Procs
  BY QueueHead DEF Leaves, Procs
<1>1. setting' \in DOMAIN Settings
  BY DEF Leaves
<1>2. job[p].rows \in Seq(RowType) /\ s \in born
  BY <1>0 DEF TypeOK, Traceless, Queued
<1>3. TypeOK'
  <2>1. disk' \in [Sessions -> Seq(RowType) \cup {Missing}]
    BY <1>2 DEF Leaves, TypeOK
  <2> QED
    BY <2>1, LeftLine DEF TypeOK, Leaves, JobType, Cfg
<1>4. Evented'
  BY DEF Evented, Leaves
<1>5. Traceless'
  <2>1. \A t \in Sessions \ born : t # s /\ disk'[t] = disk[t]
    BY <1>2 DEF Leaves, TypeOK
  <2>2. \A q \in Procs : IF job'[q].pc = "idle" THEN job'[q].rows = <<>> ELSE job'[q].sid \in born
    BY <1>2 DEF Traceless, Leaves
  <2> QED
    BY <2>1, <2>2 DEF Traceless, Leaves
<1>6. Lined'
  BY LeftLine
<1>7. Bracketed'
  <2> SUFFICES ASSUME NEW r \in Requests
               PROVE  /\ job'[r].pc \in Bracketing =>
                           job'[r].idx \in DOMAIN job'[r].rows /\ job'[r].rows[job'[r].idx].key = job'[r].key
                      /\ job'[r].pc \in Undecided => job'[r].rows[job'[r].idx].aud = NoAudit
    BY DEF Bracketed
  <2>1. CASE r # p
    BY <1>0, <2>1 DEF Bracketed, Leaves
  <2>2. CASE r = p
    BY <1>0, <2>2 DEF Bracketed, Leaves, Bracketing, Undecided
  <2> QED
    BY <2>1, <2>2
<1>8. ASSUME NEW t \in Sessions
      PROVE  Cached(t)' \subseteq Cached(t)
  <2>1. Rows(t)' \in {<<>>, Rows(t)} \/ (t = s /\ Rows(t)' = job[p].rows)
    BY DEF Leaves, Rows, TypeOK
  <2>2. AddsNothing(t, Rows(t)')
    BY <1>0, <2>1, OldRows
  <2>3. \A q \in Procs : job'[q].sid = t => AddsNothing(t, job'[q].rows)
    BY <1>0, OldRows DEF Leaves
  <2> QED
    BY <2>2, <2>3, NothingCached
<1>9. \A r \in Requests : job'[r].sid = job[r].sid /\ job'[r].key = job[r].key
  BY <1>0 DEF Leaves
<1>10. Audited'
  <2>1. ASSUME NEW r \in ever' PROVE job'[r].pc # "idle"
    <3>1. r \in ever /\ r \in Requests /\ job[r].pc # "idle"
      BY DEF Audited, Leaves, TypeOK
    <3>2. CASE r # p
      BY <1>0, <3>1, <3>2 DEF Leaves
    <3>3. CASE r = p
      BY <3>1, <3>3 DEF Leaves
    <3> QED
      BY <3>2, <3>3
  <2>2. \A r \in Requests :
          /\ job'[r].pc \in {"sink", "committing", "committed", "posthook"} =>
               r \in ever' /\ [kind |-> "decision", id |-> r] \in chain'
          /\ job'[r].pc = "posthook" => job'[r].ans = r
    BY <1>0 DEF Audited, Leaves
  <2>3. \A t \in Sessions : \A row \in Cached(t)' : Vouched(row, t)'
    BY <1>8, <1>9, StaysVouched DEF Leaves, TypeOK
  <2> QED
    BY <2>1, <2>2, <2>3 DEF Audited
<1>11. Current'
  <2>1. \A t \in Sessions : MayDecide(t)' => MayDecide(t)
    BY <1>0 DEF MayDecide, Leaves, Active
  <2> QED
    BY <1>8, <2>1 DEF Current, Leaves
<1>12. SessionEndIsFinal'
  BY DEF SessionEndIsFinal, Leaves
<1>13. Keyed'
  BY <1>0, PcFacts DEF Keyed, Leaves
<1>14. Listed'
  <2>1. job[p].rows # Missing
    BY <1>2, NothingAssumption
  <2>2. \A t \in Sessions : disk'[t] = disk[t] \/ disk'[t] # Missing
    BY <2>1 DEF Leaves, TypeOK
  <2> QED
    BY <2>2 DEF Listed, ScanType, Leaves
<1> QED
  BY <1>1, <1>3, <1>4, <1>5, <1>6, <1>7, <1>10, <1>11, <1>12, <1>13, <1>14

(* A process that is not done goes on, or is done, with the rows it has or none; a session
   that cannot decide does not learn it. *)
Moves(p) ==
  /\ UNCHANGED <<setting, disk, queue, born, scan>>
  /\ job' \in [Procs -> JobType]
  /\ \A q \in Procs \ {p} : job'[q] = job[q]
  /\ job[p].pc \in Active \ Queued /\ job'[p].pc \in (Active \cup Final) \ Queued
  /\ job'[p].sid = job[p].sid /\ job'[p].key = job[p].key /\ job'[p].idx = job[p].idx
  /\ job'[p].rows \in {<<>>, job[p].rows}
  /\ \A s \in Sessions :
       \/ store'[s] = store[s]
       \/ s = job[p].sid /\ (store'[s] = None \/ ~store'[s].canDecide)

LEMMA MoveStep ==
  ASSUME Inv, NEW p \in Procs, Moves(p), Decides(p), TypeOK',
         \A s \in Sessions : s # job[p].sid => events'[s] = events[s],
         Evented', SessionEndIsFinal'
  PROVE  Inv'
<1> USE DEF Inv
<1>1. /\ job[p].pc # "idle" /\ job'[p].pc # "idle"
      /\ job[p].sid \in born /\ job[p].sid \in Sessions
  BY DEF Moves, Traceless, TypeOK, Active, Awaiting, Queued, Final, Answered
<1>2. Alone(p)
  BY <1>1 DEF Alone, Moves
<1>3. AddsNothing(job'[p].sid, job'[p].rows)
  BY <1>1, OldRows DEF Moves
<1>4. \A t \in Sessions : MayDecide(t)' => MayDecide(t)
  <2> SUFFICES ASSUME NEW t \in Sessions, MayDecide(t)'
               PROVE  MayDecide(t)
    OBVIOUS
  <2>1. CASE store'[t] # None /\ store'[t].canDecide
    BY <2>1 DEF MayDecide, Moves
  <2>2. ASSUME NEW r \in Requests, job'[r].sid = t, job'[r].pc \in Active
        PROVE  MayDecide(t)
    <3>1. r \in Procs
      BY DEF Procs
    <3> QED
      BY <2>2, <3>1 DEF MayDecide, Moves
  <2> QED
    BY <2>1, <2>2 DEF MayDecide
<1>5. /\ \A s \in Sessions : store'[s] # store[s] => s \in born
      /\ \A s \in Sessions : events'[s] # events[s] => s \in born
  BY <1>1 DEF Moves
<1>6. Listed'
  BY DEF Listed, Moves
<1> QED
  BY <1>2, <1>3, <1>4, <1>5, <1>6, ProcessStep

Ending(e) == e.type = "SessionEnd" /\ e.by # "MemoryDegraded"

(* What a step that emits events does to the emitter. *)
LEMMA Emitted ==
  ASSUME Evented, NEW s \in Sessions, NEW new \in Seq(EventType), Emit(s, new)
  PROVE  /\ Evented'
         /\ \A t \in Sessions : t # s => events'[t] = events[t]
         /\ \A i \in DOMAIN events'[s] :
              \/ i \in DOMAIN events[s] /\ events'[s][i] = events[s][i]
              \/ \E j \in DOMAIN new : events'[s][i] = new[j]
<1>1. events[s] \in Seq(EventType) /\ events' = [events EXCEPT ![s] = events[s] \o new]
  BY DEF Evented, Emit
<1>2. events[s] \o new \in Seq(EventType)
  BY <1>1
<1>3. Evented' /\ events'[s] = events[s] \o new /\ \A t \in Sessions : t # s => events'[t] = events[t]
  BY <1>1, <1>2 DEF Evented
<1>4. ASSUME NEW i \in DOMAIN (events[s] \o new)
      PROVE  \/ i \in DOMAIN events[s] /\ (events[s] \o new)[i] = events[s][i]
             \/ \E j \in DOMAIN new : (events[s] \o new)[i] = new[j]
  <2>1. i \in 1 .. Len(events[s]) + Len(new)
    BY <1>1
  <2>2. CASE i <= Len(events[s])
    BY <1>1, <2>1, <2>2
  <2>3. CASE i > Len(events[s])
    <3>1. i - Len(events[s]) \in DOMAIN new /\ (events[s] \o new)[i] = new[i - Len(events[s])]
      BY <1>1, <2>1, <2>3
    <3> QED
      BY <3>1
  <2> QED
    BY <1>1, <2>1, <2>2, <2>3
<1> QED
  BY <1>3, <1>4

(* A session that ends is revoked in the same step, and none learns to decide. *)
LEMMA StaysFinal ==
  ASSUME SessionEndIsFinal, Evented, NEW s \in Sessions, NEW new \in Seq(EventType), Emit(s, new),
         \A t \in Sessions : store'[t] = store[t] \/ store'[t] = None \/ ~store'[t].canDecide,
         (\E j \in DOMAIN new : Ending(new[j])) => store'[s] = None \/ ~store'[s].canDecide
  PROVE  SessionEndIsFinal'
<1> SUFFICES ASSUME NEW t \in Sessions, NEW i \in DOMAIN events'[t], Ending(events'[t][i])
             PROVE  store'[t] # None => ~store'[t].canDecide
  BY DEF SessionEndIsFinal, Ending
<1>1. CASE \E j \in DOMAIN events[t] : Ending(events[t][j])
  BY <1>1 DEF SessionEndIsFinal, Ending
<1>2. CASE t = s /\ \E j \in DOMAIN new : Ending(new[j])
  BY <1>2
<1> QED
  BY <1>1, <1>2, Emitted

(* The process whose record a step replaces. *)
LEMMA Replaced ==
  ASSUME TypeOK, NEW p \in Procs, NEW j \in JobType, job' = [job EXCEPT ![p] = j]
  PROVE  /\ job' \in [Procs -> JobType] /\ job'[p] = j
         /\ \A q \in Procs \ {p} : job'[q] = job[q]
  BY DEF TypeOK, JobType

LEMMA ReplyFacts ==
  ASSUME TypeOK, NEW p \in Procs, NEW c \in Active \cup Final, Reply(p, c)
  PROVE  /\ job' \in [Procs -> JobType]
         /\ \A q \in Procs \ {p} : job'[q] = job[q]
         /\ job'[p].pc = c /\ job'[p].rows = <<>>
         /\ job'[p].sid = job[p].sid /\ job'[p].key = job[p].key
         /\ job'[p].idx = job[p].idx /\ job'[p].ans = job[p].ans
<1>1. job \in [Procs -> JobType] /\ <<>> \in Seq(RowType)
  BY DEF TypeOK, JobType
<1>2. [job[p] EXCEPT !.pc = c, !.rows = <<>>] \in JobType
  BY <1>1 DEF JobType
<1>3. job' = [job EXCEPT ![p] = [job[p] EXCEPT !.pc = c, !.rows = <<>>]]
  BY <1>1 DEF Reply, JobType
<1>4. job' \in [Procs -> JobType]
  BY <1>1, <1>2, <1>3
<1> QED
  BY <1>1, <1>3, <1>4 DEF JobType

LEMMA GoFacts ==
  ASSUME TypeOK, NEW p \in Procs, NEW c \in Active \cup Final, job' = [job EXCEPT ![p].pc = c]
  PROVE  /\ job' \in [Procs -> JobType]
         /\ \A q \in Procs \ {p} : job'[q] = job[q]
         /\ job'[p].pc = c /\ job'[p].rows = job[p].rows
         /\ job'[p].sid = job[p].sid /\ job'[p].key = job[p].key
         /\ job'[p].idx = job[p].idx /\ job'[p].ans = job[p].ans
  BY DEF TypeOK, JobType

(* A request is refused and leaves file, chain and emitter alone. *)
LEMMA RefusePreserves ==
  ASSUME Inv, NEW r \in Requests, job[r].pc \in Active \ Queued, Reply(r, "refused"),
         UNCHANGED <<setting, disk, queue, memory, scan, born, ever>>
  PROVE  Inv'
<1> USE DEF Inv, memory
<1>1. r \in Procs /\ "refused" \in Final \ Queued /\ "refused" \in Active \cup Final
  BY PcFacts DEF Procs
<1>2. Moves(r)
  BY <1>1, ReplyFacts DEF Moves
<1>3. Decides(r)
  BY <1>1, ReplyFacts, PcFacts DEF Decides, Bracketing, Undecided, Keyed
<1>4. TypeOK'
  BY <1>1, ReplyFacts DEF TypeOK, JobType, Cfg
<1>5. Evented' /\ SessionEndIsFinal'
  BY DEF Evented, SessionEndIsFinal
<1> QED
  BY <1>1, <1>2, <1>3, <1>4, <1>5, MoveStep

(* A request, a reader or the scan goes on, and changes nothing else. *)
LEMMA GoPreserves ==
  ASSUME Inv, NEW r \in Requests, NEW c \in Active \ Queued, job[r].pc \in Active \ Queued,
         c \in Undecided => job[r].pc \in Undecided,
         c \in {"sink", "committed"} => job[r].pc = "sink",
         c # "posthook",
         job' = [job EXCEPT ![r].pc = c],
         UNCHANGED <<setting, disk, queue, memory, scan, born, ever>>
  PROVE  Inv'
<1> USE DEF Inv, memory
<1>1. r \in Procs /\ c \in Active \cup Final
  BY DEF Procs
<1>2. Moves(r)
  BY <1>1, GoFacts DEF Moves
<1>3. Decides(r)
  BY <1>1, GoFacts, PcFacts DEF Decides, Bracketing, Queued, Audited, Keyed
<1>4. TypeOK'
  BY <1>1, GoFacts DEF TypeOK, JobType, Cfg
<1>5. Evented' /\ SessionEndIsFinal'
  BY DEF Evented, SessionEndIsFinal
<1> QED
  BY <1>1, <1>2, <1>3, <1>4, <1>5, MoveStep

(* chain.append of the decision row. *)
LEMMA AppendDecisionPreserves ==
  ASSUME Inv, NEW r \in Requests, job[r].pc \in Undecided \ {"pending"}, AppendDecision(r),
         UNCHANGED setting
  PROVE  Inv'
<1> USE DEF Inv, counters
<1>1. /\ r \in Procs /\ "sink" \in Active \cup Final /\ "sink" \in Active \ Queued
      /\ job[r].pc \in Active \ Queued
  BY PcFacts DEF Procs, Undecided, Queued
<1>2. /\ job' \in [Procs -> JobType] /\ \A q \in Procs \ {r} : job'[q] = job[q]
      /\ job'[r].pc = "sink" /\ job'[r].rows = job[r].rows /\ job'[r].sid = job[r].sid
      /\ job'[r].key = job[r].key /\ job'[r].idx = job[r].idx
  BY <1>1, GoFacts DEF AppendDecision
<1>3. Moves(r)
  BY <1>1, <1>2 DEF Moves, AppendDecision
<1>4. Decides(r)
  BY <1>1, <1>2, PcFacts DEF Decides, AppendDecision, Undecided, Keyed
<1>5. TypeOK'
  BY <1>2 DEF TypeOK, JobType, Cfg, AppendDecision
<1>6. Evented' /\ SessionEndIsFinal'
  BY DEF Evented, SessionEndIsFinal, AppendDecision
<1>7. UNCHANGED events
  BY DEF AppendDecision
<1> QED
  BY <1>1, <1>3, <1>4, <1>5, <1>6, <1>7, MoveStep

LEMMA PreHookDeniesPreserves ==
  ASSUME Inv, NEW r \in Requests, PreHookDenies(r), UNCHANGED setting
  PROVE  Inv'
<1> USE DEF Inv, counters, PreHookDenies
<1> DEFINE new == <<Event("PreToolUseOutcome", r)>>
<1>1. /\ r \in Procs /\ "refused" \in Final \ Queued /\ "refused" \in Active \cup Final
      /\ job[r].pc \in Active \ Queued
  BY PcFacts DEF Procs
<1>2. job[r].sid \in Sessions
  BY DEF Traceless, TypeOK, Procs
<1>3. new \in Seq(EventType) /\ ~\E j \in DOMAIN new : Ending(new[j])
  <2>1. Event("PreToolUseOutcome", r) \in EventType /\ ~Ending(Event("PreToolUseOutcome", r))
    BY <1>1 DEF Event, EventType, EventTypes, Causes, Ending
  <2> QED
    BY <2>1
<1>4. Moves(r)
  BY <1>1, ReplyFacts DEF Moves
<1>5. Decides(r)
  BY <1>1, ReplyFacts, PcFacts DEF Decides, Bracketing, Undecided, Keyed
<1>6. TypeOK'
  BY <1>1, ReplyFacts DEF TypeOK, JobType, Cfg
<1>7. Evented' /\ \A s \in Sessions : s # job[r].sid => events'[s] = events[s]
  BY <1>2, <1>3, Emitted
<1>8. SessionEndIsFinal'
  BY <1>2, <1>3, StaysFinal
<1> QED
  BY <1>1, <1>4, <1>5, <1>6, <1>7, <1>8, MoveStep

(* Min picks the least element. *)
LEMMA MinOfNaturals ==
  ASSUME NEW S \in SUBSET Nat, S # {}
  PROVE  Min(S) \in S /\ \A n \in S : Min(S) <= n
<1> DEFINE Less == OpToRel(<, Nat)
<1>1. IsWellFoundedOn(Less, Nat)
  BY NatLessThanWellFounded
<1>2. \A m, n \in Nat : m < n => <<m, n>> \in Less
  BY DEF OpToRel
<1> HIDE DEF Less
<1>3. PICK m \in S : \A n \in S : ~(<<n, m>> \in Less)
  BY <1>1, WFMin
<1>4. ASSUME NEW n \in S PROVE m <= n
  <2>1. m \in Nat /\ n \in Nat
    OBVIOUS
  <2>2. ~(n < m)
    BY <1>2, <1>3, <2>1
  <2> QED
    BY <2>1, <2>2
<1> QED
  BY <1>4 DEF Min

(* The row a replay answers from is committed for its key and caches an audit id. *)
LEMMA FirstHitIsCached ==
  ASSUME NEW rows \in Seq(RowType), NEW key, CacheHits(rows, key) # {}
  PROVE  LET hit == FirstHit(rows, key) IN
         /\ Contains(rows, hit) /\ hit \in RowType
         /\ hit.key = key /\ hit.phase = "committed" /\ hit.aud # NoAudit
<1>1. CacheHits(rows, key) \in SUBSET Nat
  BY DEF CacheHits
<1>2. Min(CacheHits(rows, key)) \in CacheHits(rows, key)
  BY <1>1, MinOfNaturals
<1>3. PICK i \in DOMAIN rows : /\ FirstHit(rows, key) = rows[i] /\ rows[i].key = key
                               /\ rows[i].phase = "committed" /\ rows[i].aud # NoAudit
  BY <1>2 DEF FirstHit, CacheHits
<1> QED
  BY <1>3 DEF Contains

LEMMA ReplayPreserves ==
  ASSUME Inv, NEW r \in Requests, Replay(r), UNCHANGED setting
  PROVE  Inv'
<1> USE DEF Inv, counters, memory
<1>1. /\ r \in Procs /\ "replayed" \in Final \ Queued /\ "replayed" \in Active \cup Final
      /\ job[r].pc = "load" /\ job[r].pc \in Active \ Queued
  BY PcFacts DEF Procs, Replay
<1>2. /\ job' \in [Procs -> JobType] /\ \A q \in Procs \ {r} : job'[q] = job[q]
      /\ job'[r].pc = "replayed" /\ job'[r].rows = job[r].rows /\ job'[r].sid = job[r].sid
      /\ job'[r].key = job[r].key /\ job'[r].idx = job[r].idx
  <2> DEFINE a == FirstHit(Rows(job[r].sid), job[r].key).aud
  <2>1. job' = [job EXCEPT ![r].pc = "replayed", ![r].ans = a]
    BY DEF Replay
  <2>2. Rows(job[r].sid) \in Seq(RowType)
    BY <1>1 DEF TypeOK, Rows, Traceless
  <2>3. a \in Requests \cup {NoAudit}
    BY <2>2, FirstHitIsCached DEF Replay, RowType
  <2> HIDE DEF a
  <2>4. [job[r] EXCEPT !.pc = "replayed", !.ans = a] \in JobType
    BY <1>1, <2>3 DEF TypeOK, JobType
  <2>5. job' = [job EXCEPT ![r] = [job[r] EXCEPT !.pc = "replayed", !.ans = a]]
    BY <1>1, <2>1 DEF TypeOK
  <2>6. job' \in [Procs -> JobType]
    BY <1>1, <2>4, <2>5 DEF TypeOK, JobType
  <2> QED
    BY <1>1, <2>5, <2>6 DEF TypeOK, JobType
<1>3. Moves(r)
  BY <1>1, <1>2 DEF Moves, Replay
<1>4. Decides(r)
  BY <1>1, <1>2, PcFacts DEF Decides, Bracketing, Undecided, Replay, Keyed
<1>5. TypeOK'
  BY <1>2 DEF TypeOK, JobType, Cfg, Replay
<1>6. Evented' /\ SessionEndIsFinal' /\ UNCHANGED events
  BY DEF Evented, SessionEndIsFinal, Replay
<1> QED
  BY <1>1, <1>3, <1>4, <1>5, <1>6, MoveStep

(* The bracket is opened: the pending row caches nothing. *)
LEMMA OpenBracketPreserves ==
  ASSUME Inv, NEW r \in Requests, OpenBracket(r), UNCHANGED setting
  PROVE  Inv'
<1> USE DEF Inv, counters, memory
<1> DEFINE s == job[r].sid
           new == PendingRow(job[r].key)
           copy == Append(Rows(s), new)
<1>1. /\ r \in Procs /\ job[r].pc = "load" /\ job[r].pc \in Active \ Queued
      /\ "pending" \in Active \cup Final /\ "pending" \in Queued /\ s \in Sessions
  BY PcFacts DEF Procs, OpenBracket, Queued, Active, Traceless, TypeOK
<1>2. job[r].key \in Keys \cup Requests
  BY <1>1 DEF Keyed
<1>3. new \in RowType /\ new.aud = NoAudit /\ new.key = job[r].key
  BY <1>2 DEF PendingRow, RowType, Phases
<1>4. Rows(s) \in Seq(RowType)
  BY <1>1 DEF TypeOK, Rows
<1>5. /\ copy \in Seq(RowType) /\ Len(Rows(s)) + 1 \in Nat
      /\ Len(Rows(s)) + 1 \in DOMAIN copy /\ copy[Len(Rows(s)) + 1] = new
      /\ \A i \in DOMAIN copy : copy[i] = new \/ (i \in DOMAIN Rows(s) /\ copy[i] = Rows(s)[i])
  BY <1>3, <1>4, AppendCases
<1>6. job' = [job EXCEPT ![r].pc = "pending", ![r].rows = copy, ![r].idx = Len(Rows(s)) + 1]
  BY DEF OpenBracket
<1> HIDE DEF copy, new
<1>7. /\ job' \in [Procs -> JobType] /\ \A q \in Procs \ {r} : job'[q] = job[q]
      /\ job'[r].pc = "pending" /\ job'[r].rows = copy /\ job'[r].idx = Len(Rows(s)) + 1
      /\ job'[r].sid = job[r].sid /\ job'[r].key = job[r].key
  <2> DEFINE n == Len(Rows(s)) + 1
             j == [job[r] EXCEPT !.pc = "pending", !.rows = copy, !.idx = n]
  <2>1. job[r] \in JobType /\ job' = [job EXCEPT ![r] = j]
    BY <1>1, <1>6 DEF TypeOK, JobType
  <2>2. n \in Nat
    BY <1>5
  <2> HIDE DEF n
  <2>3. /\ j \in JobType /\ j.pc = "pending" /\ j.rows = copy /\ j.idx = n
        /\ j.sid = job[r].sid /\ j.key = job[r].key
    BY <1>1, <1>5, <2>1, <2>2 DEF JobType
  <2> HIDE DEF j
  <2>4. job' \in [Procs -> JobType] /\ \A q \in Procs \ {r} : job'[q] = job[q] /\ job'[r] = j
    BY <1>1, <2>1, <2>3, Replaced
  <2> USE DEF n
  <2> QED
    BY <1>1, <2>1, <2>3, <2>4, Replaced
<1>8. Joins(r)
  BY <1>1, <1>7 DEF Joins, OpenBracket
<1>9. Prepares(r)
  BY <1>1, <1>3, <1>4, <1>5, <1>7, OldRows DEF Prepares, AddsNothing
<1> QED
  BY <1>1, <1>8, <1>9, JoinStep DEF OpenBracket, TypeOK

(* The row of the request is compensated, whatever is audited of the refusal. *)
LEMMA CompensatePreserves ==
  ASSUME Inv, NEW r \in Requests, job[r].pc \in {"verify", "escalate"}, Compensate(r),
         UNCHANGED setting, chain \subseteq chain',
         \A row \in chain' : row.kind \in {"decision", "refusal", "residency", "resume"}
  PROVE  Inv'
<1> USE DEF Inv, counters
<1> DEFINE s == job[r].sid
           copy == CompensateRow(job[r].rows, job[r].idx)
           j == [job[r] EXCEPT !.pc = "compensating", !.rows = copy]
<1>1. /\ r \in Procs /\ job[r].pc \in Active \ Queued /\ job[r].pc \in Undecided
      /\ "compensating" \in Active \cup Final /\ "compensating" \in Queued
      /\ s \in Sessions /\ job[r] \in JobType
  BY PcFacts DEF Procs, Queued, Active, Awaiting, Undecided, Traceless, TypeOK, JobType
<1>2. /\ job[r].rows \in Seq(RowType) /\ job[r].idx \in DOMAIN job[r].rows
      /\ job[r].rows[job[r].idx].key = job[r].key /\ job[r].rows[job[r].idx].aud = NoAudit
  BY <1>1 DEF Bracketed, Bracketing, TypeOK
<1>3. /\ copy \in Seq(RowType) /\ DOMAIN copy = DOMAIN job[r].rows
      /\ copy[job[r].idx].key = job[r].key /\ copy[job[r].idx].aud = NoAudit
      /\ \A i \in DOMAIN copy : i # job[r].idx => copy[i] = job[r].rows[i]
  <2> DEFINE row == [job[r].rows[job[r].idx] EXCEPT !.phase = "compensated"]
  <2>0. job[r].rows[job[r].idx] \in RowType
    BY <1>2, ElementOfSeq
  <2>1. row \in RowType /\ row.key = job[r].key /\ row.aud = NoAudit
    BY <1>2, <2>0 DEF RowType, Phases
  <2>2. copy = [job[r].rows EXCEPT ![job[r].idx] = row]
    BY <1>2 DEF CompensateRow
  <2> HIDE DEF row, copy
  <2> QED
    BY <1>2, <2>1, <2>2, ExceptSeq
<1>4. job' = [job EXCEPT ![r] = j]
  BY <1>1 DEF Compensate, TypeOK
<1> HIDE DEF copy
<1>5. j \in JobType /\ j.pc = "compensating" /\ j.rows = copy /\ j.sid = s /\ j.key = job[r].key
      /\ j.idx = job[r].idx
  BY <1>1, <1>3 DEF JobType
<1> HIDE DEF j
<1>6. job' \in [Procs -> JobType] /\ job'[r] = j /\ \A q \in Procs \ {r} : job'[q] = job[q]
  BY <1>1, <1>4, <1>5, Replaced
<1>7. Joins(r)
  BY <1>1, <1>5, <1>6 DEF Joins, Compensate
<1>8. Prepares(r)
  <2>1. \A i \in DOMAIN copy : copy[i].aud # NoAudit => copy[i] \in Cached(s)
    BY <1>1, <1>3, OldRows DEF AddsNothing
  <2> QED
    BY <1>2, <1>3, <1>5, <1>6, <2>1 DEF Prepares, Undecided
<1> QED
  BY <1>1, <1>7, <1>8, JoinStep DEF Compensate

(* The row is marked committed with the audit id of the request itself. *)
LEMMA CommitPreserves ==
  ASSUME Inv, NEW r \in Requests, Commit(r), UNCHANGED setting
  PROVE  Inv'
<1> USE DEF Inv, counters, memory
<1> DEFINE s == job[r].sid
           copy == CommitRow(job[r].rows, job[r].idx, r)
           j == [job[r] EXCEPT !.pc = "committing", !.rows = copy]
<1>1. /\ r \in Procs /\ job[r].pc = "sink" /\ job[r].pc \in Active \ Queued
      /\ job[r].pc \in Undecided
      /\ "committing" \in Active \cup Final /\ "committing" \in Queued
      /\ s \in Sessions /\ job[r] \in JobType
  BY PcFacts DEF Commit, Procs, Queued, Active, Awaiting, Undecided, Traceless, TypeOK, JobType
<1>2. /\ job[r].rows \in Seq(RowType) /\ job[r].idx \in DOMAIN job[r].rows
      /\ job[r].rows[job[r].idx].key = job[r].key
  BY <1>1 DEF Bracketed, Bracketing, TypeOK
<1>3. /\ copy \in Seq(RowType) /\ DOMAIN copy = DOMAIN job[r].rows
      /\ copy[job[r].idx].key = job[r].key /\ copy[job[r].idx].aud = r
      /\ copy[job[r].idx].phase = "committed"
      /\ \A i \in DOMAIN copy : i # job[r].idx => copy[i] = job[r].rows[i]
  <2> DEFINE row == [job[r].rows[job[r].idx] EXCEPT !.phase = "committed", !.aud = r]
  <2>0. job[r].rows[job[r].idx] \in RowType
    BY <1>2, ElementOfSeq
  <2>1. row \in RowType /\ row.key = job[r].key /\ row.aud = r /\ row.phase = "committed"
    BY <1>2, <2>0 DEF RowType, Phases
  <2>2. copy = [job[r].rows EXCEPT ![job[r].idx] = row]
    BY <1>2 DEF CommitRow
  <2> HIDE DEF row, copy
  <2> QED
    BY <1>2, <2>1, <2>2, ExceptSeq
<1>4. job' = [job EXCEPT ![r] = j]
  BY <1>1 DEF Commit, TypeOK
<1> HIDE DEF copy
<1>5. j \in JobType /\ j.pc = "committing" /\ j.rows = copy /\ j.sid = s /\ j.key = job[r].key
      /\ j.idx = job[r].idx
  BY <1>1, <1>3 DEF JobType
<1> HIDE DEF j
<1>6. job' \in [Procs -> JobType] /\ job'[r] = j /\ \A q \in Procs \ {r} : job'[q] = job[q]
  BY <1>1, <1>4, <1>5, Replaced
<1>7. Joins(r)
  BY <1>1, <1>5, <1>6 DEF Joins, Commit
<1>8. Prepares(r)
  <2>1. \A i \in DOMAIN copy : i # job[r].idx /\ copy[i].aud # NoAudit => copy[i] \in Cached(s)
    BY <1>1, <1>3, OldRows DEF AddsNothing
  <2> QED
    BY <1>1, <1>2, <1>3, <1>5, <1>6, <2>1 DEF Prepares, Undecided
<1> QED
  BY <1>1, <1>7, <1>8, JoinStep DEF Commit, TypeOK

(* A resume settles open rows and keeps the others: rows that cache an audit id are not
   open. *)
LEMMA SettlePreserves ==
  ASSUME Inv, NEW p \in Procs \ Requests, Settle(p), UNCHANGED setting
  PROVE  Inv'
<1> USE DEF Inv, counters, memory
<1> DEFINE s == job[p].sid
           copy == ResumeRows(job[p].rows)
           j == [job[p] EXCEPT !.pc = "resuming", !.rows = copy]
<1>1. /\ job[p].pc = "settling" /\ job[p].pc \in Active \ Queued
      /\ "resuming" \in Active \cup Final /\ "resuming" \in Queued
      /\ s \in Sessions /\ job[p] \in JobType /\ job[p].rows \in Seq(RowType)
  BY PcFacts DEF Settle, Queued, Active, Awaiting, Traceless, TypeOK, JobType
<1>2. copy \in Seq(RowType) /\ DOMAIN copy = DOMAIN job[p].rows
  <2>0. \A row \in RowType : ResumeRow(row) \in RowType
    BY DEF ResumeRow, RowType, Phases
  <2>1. \A i \in DOMAIN job[p].rows : ResumeRow(job[p].rows[i]) \in RowType
    BY <1>1, <2>0, ElementOfSeq
  <2>2. copy \in [1 .. Len(job[p].rows) -> RowType]
    BY <1>1, <2>1 DEF ResumeRows
  <2> QED
    BY <1>1, <2>2, IsASeq
<1>3. ASSUME NEW i \in DOMAIN copy, copy[i].aud # NoAudit
      PROVE  copy[i] \in Cached(s)
  <2>1. copy[i] = ResumeRow(job[p].rows[i]) /\ job[p].rows[i] \in RowType
    BY <1>1, <1>2, ElementOfSeq DEF ResumeRows
  <2>2. job[p].rows[i].aud # NoAudit
    BY <1>3, <2>1 DEF ResumeRow, RowType
  <2>3. job[p].rows[i] \in Cached(s)
    BY <1>1, <1>2, <2>2, OldRows DEF AddsNothing
  <2>4. job[p].rows[i].phase = "committed"
    BY <1>1, <2>3 DEF Audited, Vouched
  <2> QED
    BY <2>1, <2>3, <2>4 DEF ResumeRow
<1>4. job' = [job EXCEPT ![p] = j]
  BY <1>1 DEF Settle, TypeOK
<1> HIDE DEF copy
<1>5. j \in JobType /\ j.pc = "resuming" /\ j.rows = copy /\ j.sid = s /\ j.key = job[p].key
  BY <1>1, <1>2 DEF JobType
<1> HIDE DEF j
<1>6. job' \in [Procs -> JobType] /\ job'[p] = j /\ \A q \in Procs \ {p} : job'[q] = job[q]
  BY <1>4, <1>5, Replaced
<1>7. Joins(p)
  BY <1>1, <1>5, <1>6 DEF Joins, Settle
<1>8. Prepares(p)
  BY <1>3, <1>5, <1>6 DEF Prepares
<1> QED
  BY <1>7, <1>8, JoinStep DEF Settle, TypeOK

LEMMA DecidePreserves ==
  ASSUME Inv, NEW r \in Requests, Decide(r), UNCHANGED setting
  PROVE  Inv'
<1>1. job[r].pc = "decide" /\ job[r].pc \in Active \ Queued /\ job[r].pc \in Undecided \ {"pending"}
  BY PcFacts DEF Decide, Undecided
<1>2. CASE AppendDecision(r)
  BY <1>1, <1>2, AppendDecisionPreserves
<1>3. CASE LeavePending(r)
  BY <1>1, <1>3, RefusePreserves DEF LeavePending, counters
<1>4. CASE /\ job' = [job EXCEPT ![r].pc = "verify"]
           /\ UNCHANGED <<disk, queue, memory, scan, born, ever, counters>>
  <2>1. "verify" \in Active \ Queued /\ "verify" \notin {"sink", "committed", "posthook"}
    BY PcFacts DEF Undecided
  <2> QED
    BY <1>1, <1>4, <2>1, GoPreserves
<1> QED
  BY <1>2, <1>3, <1>4 DEF Decide

LEMMA RefuseEscalationPreserves ==
  ASSUME Inv, NEW r \in Requests, job[r].pc \in {"verify", "escalate"}, RefuseEscalation(r),
         UNCHANGED setting
  PROVE  Inv'
<1>1. \A row \in chain' : row.kind \in {"decision", "refusal", "residency", "resume"}
  BY DEF RefuseEscalation, Inv, TypeOK
<1> QED
  BY <1>1, CompensatePreserves DEF RefuseEscalation

LEMMA CompensateSilentlyPreserves ==
  ASSUME Inv, NEW r \in Requests, job[r].pc \in {"verify", "escalate"}, Compensate(r),
         UNCHANGED <<setting, chain>>
  PROVE  Inv'
  BY CompensatePreserves DEF Inv, TypeOK

LEMMA AcceptOrMismatchPreserves ==
  ASSUME Inv, NEW r \in Requests, job[r].pc \in {"verify", "escalate"}, AcceptOrMismatch(r),
         UNCHANGED setting
  PROVE  Inv'
<1>1. job[r].pc \in Undecided \ {"pending"}
  BY DEF Undecided
<1> QED
  BY <1>1, AppendDecisionPreserves, CompensateSilentlyPreserves DEF AcceptOrMismatch

LEMMA VerifyPreserves ==
  ASSUME Inv, NEW r \in Requests, Verify(r), UNCHANGED setting
  PROVE  Inv'
<1>1. job[r].pc = "verify" /\ job[r].pc \in Active \ Queued /\ job[r].pc \in Undecided \ {"pending"}
  BY PcFacts DEF Verify, Undecided
<1>2. CASE Compensate(r) /\ UNCHANGED chain
  BY <1>1, <1>2, CompensateSilentlyPreserves
<1>3. CASE AppendDecision(r)
  BY <1>1, <1>3, AppendDecisionPreserves
<1>4. CASE LeavePending(r)
  BY <1>1, <1>4, RefusePreserves DEF LeavePending, counters
<1>5. CASE RefuseEscalation(r)
  BY <1>1, <1>5, RefuseEscalationPreserves
<1>6. CASE AcceptOrMismatch(r)
  BY <1>1, <1>6, AcceptOrMismatchPreserves
<1>7. CASE /\ job' = [job EXCEPT ![r].pc = "escalate"]
           /\ UNCHANGED <<disk, queue, memory, scan, born, ever, counters>>
  <2>1. "escalate" \in Active \ Queued /\ "escalate" \notin {"sink", "committed", "posthook"}
    BY PcFacts DEF Undecided
  <2> QED
    BY <1>1, <1>7, <2>1, GoPreserves
<1> QED
  BY <1>2, <1>3, <1>4, <1>5, <1>6, <1>7 DEF Verify, ValidPda

LEMMA EscalatedPreserves ==
  ASSUME Inv, NEW r \in Requests, Escalated(r), UNCHANGED setting
  PROVE  Inv'
  BY RefuseEscalationPreserves, CompensateSilentlyPreserves, AcceptOrMismatchPreserves DEF Escalated

LEMMA FailuresPreserve ==
  ASSUME Inv, NEW r \in Requests, LoadFails(r) \/ SinkFails(r), UNCHANGED setting
  PROVE  Inv'
<1>1. job[r].pc \in Active \ Queued
  BY PcFacts DEF LoadFails, SinkFails, Undecided, Queued
<1> QED
  BY <1>1, RefusePreserves DEF LoadFails, SinkFails

(* The turn is recorded and its events emitted; when the budget is spent the session is
   revoked in the same step. *)
LEMMA FinishPreserves ==
  ASSUME Inv, NEW r \in Requests, Finish(r), UNCHANGED setting
  PROVE  Inv'
<1> USE DEF Inv, counters
<1> DEFINE s == job[r].sid
           c == IF Cfg.postHook THEN "posthook" ELSE "accepted"
           spent == Turns(s) * Cfg.turnTokens >= Cfg.maxTokens
           end == Event("SessionEnd", "BudgetExhausted")
           over == IF spent THEN <<end>> ELSE <<>>
           hook == IF Cfg.preHook THEN <<Event("PreToolUseOutcome", r)>> ELSE <<>>
           new == over \o <<Event("PermissionDecision", r)>> \o hook
           j == [job[r] EXCEPT !.pc = c, !.rows = <<>>, !.ans = r]
<1>1. /\ r \in Procs /\ job[r].pc = "committed" /\ job[r].pc \in Active \ Queued
      /\ s \in Sessions /\ job[r] \in JobType /\ c \in (Active \cup Final) \ Queued
      /\ c \in {"posthook", "accepted"}
  BY PcFacts DEF Finish, Procs, Traceless, TypeOK, JobType
<1>2. /\ budget' = [budget EXCEPT ![s] = IF spent THEN None ELSE Turns(s)]
      /\ store' = [store EXCEPT ![s] = IF spent THEN None ELSE @]
      /\ Emit(s, new) /\ job' = [job EXCEPT ![r] = j]
      /\ UNCHANGED <<disk, queue, chain, scan, born, ever>>
  BY <1>1 DEF Finish, TypeOK, JobType
<1>3. /\ new \in Seq(EventType)
      /\ ~spent => ~\E i \in DOMAIN new : Ending(new[i])
  <2>1. /\ end \in EventType /\ Event("PermissionDecision", r) \in EventType
        /\ Event("PreToolUseOutcome", r) \in EventType
        /\ ~Ending(Event("PermissionDecision", r)) /\ ~Ending(Event("PreToolUseOutcome", r))
    BY <1>1 DEF Event, EventType, EventTypes, Causes, Ending
  <2> DEFINE decided == Event("PermissionDecision", r)
             hooked == Event("PreToolUseOutcome", r)
  <2> HIDE DEF end, spent, decided, hooked
  <2> QED
    BY <2>1 DEF decided, hooked
<1>4. j \in JobType /\ j.pc = c /\ j.rows = <<>> /\ j.sid = s /\ j.key = job[r].key
      /\ j.idx = job[r].idx /\ j.ans = r
  <2>1. <<>> \in Seq(RowType)
    OBVIOUS
  <2> HIDE DEF c, s
  <2>2. j \in JobType
    BY <1>1, <2>1 DEF JobType
  <2> QED
    BY <1>1, <2>2 DEF JobType, s
<1>5. job' \in [Procs -> JobType] /\ job'[r] = j /\ \A q \in Procs \ {r} : job'[q] = job[q]
  <2> HIDE DEF j
  <2> QED
    BY <1>1, <1>2, <1>4, Replaced
<1>6. Turns(s) \in Nat
  BY <1>1 DEF Turns, TypeOK
<1> HIDE DEF j, new, c, spent
<1>7. Moves(r)
  BY <1>1, <1>2, <1>4, <1>5 DEF Moves
<1>8. Decides(r)
  BY <1>1, <1>2, <1>4, <1>5, PcFacts DEF Decides, Bracketing, Undecided, Queued, Audited, Keyed
<1>9. TypeOK'
  <2>1. budget' \in [Sessions -> Nat \cup {None}]
    BY <1>1, <1>2, <1>6 DEF TypeOK
  <2> QED
    BY <1>1, <1>2, <1>5, <2>1 DEF TypeOK, JobType, Cfg
<1>10. Evented' /\ \A t \in Sessions : t # s => events'[t] = events[t]
  BY <1>1, <1>2, <1>3, Emitted
<1>11. SessionEndIsFinal'
  <2>1. \A t \in Sessions : store'[t] = store[t] \/ store'[t] = None \/ ~store'[t].canDecide
    BY <1>2 DEF TypeOK
  <2>2. (\E i \in DOMAIN new : Ending(new[i])) => store'[s] = None \/ ~store'[s].canDecide
    BY <1>1, <1>2, <1>3 DEF TypeOK
  <2> QED
    BY <1>1, <1>2, <1>3, <2>1, <2>2, StaysFinal
<1> QED
  BY <1>1, <1>7, <1>8, <1>9, <1>10, <1>11, MoveStep

LEMMA PostHookPreserves ==
  ASSUME Inv, NEW r \in Requests, PostHook(r), UNCHANGED setting
  PROVE  Inv'
<1> USE DEF Inv, counters, PostHook
<1> DEFINE new == <<Event("PostToolUseOutcome", r)>>
<1>1. /\ r \in Procs /\ "accepted" \in Final \ Queued /\ "accepted" \in Active \cup Final
      /\ job[r].pc \in Active \ Queued
  BY PcFacts DEF Procs
<1>2. job[r].sid \in Sessions
  BY DEF Traceless, TypeOK, Procs
<1>3. new \in Seq(EventType) /\ ~\E j \in DOMAIN new : Ending(new[j])
  <2>1. Event("PostToolUseOutcome", r) \in EventType /\ ~Ending(Event("PostToolUseOutcome", r))
    BY <1>1 DEF Event, EventType, EventTypes, Causes, Ending
  <2> QED
    BY <2>1
<1>4. Moves(r)
  BY <1>1, ReplyFacts DEF Moves
<1>5. Decides(r)
  BY <1>1, ReplyFacts, PcFacts DEF Decides, Bracketing, Undecided, Keyed
<1>6. TypeOK'
  BY <1>1, ReplyFacts DEF TypeOK, JobType, Cfg
<1>7. Evented' /\ \A s \in Sessions : s # job[r].sid => events'[s] = events[s]
  BY <1>2, <1>3, Emitted
<1>8. SessionEndIsFinal'
  BY <1>2, <1>3, StaysFinal
<1> QED
  BY <1>1, <1>4, <1>5, <1>6, <1>7, <1>8, MoveStep

LEMMA ArrivedType ==
  \A r \in Requests, s \in Sessions, sh \in Cfg.shapes : \A k \in Keys \cup {r},
     c \in {"idle"} \cup Active \cup Final :
       /\ Arrived(s, k, sh, c) \in JobType
       /\ Arrived(s, k, sh, c).pc = c
       /\ Arrived(s, k, sh, c).sid = s
       /\ Arrived(s, k, sh, c).rows = <<>>
       /\ Arrived(s, k, sh, c).key = k
<1> TAKE r \in Requests, s \in Sessions, sh \in Cfg.shapes
<1> TAKE k \in Keys \cup {r}, c \in {"idle"} \cup Active \cup Final
<1>1. Idle \in JobType
  BY DEF Idle, JobType
<1>2. Resubmits(s, k) \in BOOLEAN
  BY DEF Resubmits
<1> HIDE DEF Resubmits
<1>3. Arrived(s, k, sh, c) \in JobType /\ Arrived(s, k, sh, c).rows = Idle.rows
  BY <1>1, <1>2 DEF Arrived, JobType
<1> QED
  BY <1>1, <1>3 DEF Arrived, JobType, Idle

(* A request arrives: it is refused, or goes on without a copy of the file. *)
LEMMA ArrivalPreserves ==
  ASSUME Inv, NEW r \in Requests, NEW s \in Sessions, NEW sh \in Cfg.shapes,
         NEW k \in Keys \cup {r}, NEW c \in {"refused", "prehook", "load"},
         Admitted(r, s), job' = [job EXCEPT ![r] = Arrived(s, k, sh, c)],
         chain' = chain \cup ResidencyRow(r, sh),
         \A t \in Sessions : store'[t] = store[t] \/ (t = s /\ store'[t] = None),
         store' \in [Sessions -> [bearer : Readers \cup {Owner}, canDecide : BOOLEAN] \cup {None}],
         budget' \in [Sessions -> Nat \cup {None}],
         \A t \in Sessions : t # s => events'[t] = events[t],
         UNCHANGED <<setting, disk, queue, scan, born, ever>>,
         Evented', SessionEndIsFinal'
  PROVE  Inv'
<1> USE DEF Inv
<1> DEFINE j == Arrived(s, k, sh, c)
<1>1. /\ r \in Procs /\ c \in (Active \cup Final) \ Queued /\ c # "idle"
      /\ c \notin Bracketing \cup {"sink", "committed", "posthook"}
      /\ job[r].pc = "idle" /\ job[r].pc \notin Queued /\ r \notin ever
      /\ store[s] # None /\ store[s].canDecide /\ s \in born
  BY PcFacts DEF Procs, Admitted, Queued, Bracketing, Undecided, Audited, Traceless
<1>2. j \in JobType /\ j.pc = c /\ j.sid = s /\ j.rows = <<>> /\ j.key = k
  <2>1. c \in {"idle"} \cup Active \cup Final
    BY <1>1
  <2>2. s \in Sessions /\ sh \in Cfg.shapes /\ k \in Keys \cup {r}
    OBVIOUS
  <2>3. /\ Arrived(s, k, sh, c) \in JobType
        /\ Arrived(s, k, sh, c).pc = c /\ Arrived(s, k, sh, c).sid = s
        /\ Arrived(s, k, sh, c).rows = <<>> /\ Arrived(s, k, sh, c).key = k
    BY ONLY <2>1, <2>2, r \in Requests, ArrivedType
  <2> QED
    BY <2>3
<1> HIDE DEF j
<1>3. job' \in [Procs -> JobType] /\ job'[r] = j /\ \A q \in Procs \ {r} : job'[q] = job[q]
  BY <1>1, <1>2, Replaced DEF j
<1>4. Alone(r)
  BY <1>1, <1>2, <1>3 DEF Alone
<1>5. Decides(r)
  BY <1>1, <1>2, <1>3 DEF Decides
<1>6. AddsNothing(job'[r].sid, job'[r].rows)
  BY <1>2, <1>3, OldRows
<1>7. MayDecide(s) /\ \A q \in Requests : q \in Procs
  BY <1>1 DEF MayDecide, Procs
<1>8. \A t \in Sessions : MayDecide(t)' => MayDecide(t)
  BY <1>2, <1>3, <1>7 DEF MayDecide
<1>9. TypeOK'
  <2>1. \A row \in chain' : row.kind \in {"decision", "refusal", "residency", "resume"}
    BY DEF TypeOK, ResidencyRow
  <2> QED
    BY <1>3, <2>1 DEF TypeOK, JobType, Cfg
<1>10. Listed'
  BY DEF Listed
<1> QED
  BY <1>1, <1>4, <1>5, <1>6, <1>8, <1>9, <1>10, ProcessStep

LEMMA RefuseResidencyPreserves ==
  ASSUME Inv, UNCHANGED setting, NEW r \in Requests, NEW s \in Sessions,
         NEW sh \in Cfg.shapes, NEW k \in Keys \cup {r}, RefuseResidency(r, s, k, sh)
  PROVE  Inv'
<1>1. Evented' /\ SessionEndIsFinal'
  BY DEF Inv, Evented, SessionEndIsFinal, RefuseResidency
<1> QED
  BY <1>1, ArrivalPreserves DEF RefuseResidency, Inv, TypeOK

LEMMA ArrivePreserves ==
  ASSUME Inv, UNCHANGED setting, NEW r \in Requests, NEW s \in Sessions,
         NEW sh \in Cfg.shapes, NEW k \in Keys \cup {r}, Arrive(r, s, k, sh)
  PROVE  Inv'
<1> DEFINE c == IF Cfg.preHook THEN "prehook" ELSE "load"
<1>1. Evented' /\ SessionEndIsFinal'
  BY DEF Inv, Evented, SessionEndIsFinal, Arrive
<1>2. job' = [job EXCEPT ![r] = Arrived(s, k, sh, c)] /\ c \in {"refused", "prehook", "load"}
  BY DEF Arrive
<1> HIDE DEF c
<1> QED
  BY <1>1, <1>2, ArrivalPreserves DEF Arrive, Inv, TypeOK

(* The pre-call check ends the session and revokes it. *)
LEMMA RefuseExhaustedPreserves ==
  ASSUME Inv, UNCHANGED setting, NEW r \in Requests, NEW s \in Sessions,
         NEW sh \in Cfg.shapes, NEW k \in Keys \cup {r}, RefuseExhausted(r, s, k, sh)
  PROVE  Inv'
<1> USE DEF Inv
<1> DEFINE new == <<Event("SessionEnd", "BudgetExhausted")>>
<1>1. new \in Seq(EventType)
  <2>1. Event("SessionEnd", "BudgetExhausted") \in EventType
    BY DEF Event, EventType, EventTypes, Causes
  <2> QED
    BY <2>1
<1>2. Emit(s, new) /\ store' = [store EXCEPT ![s] = None] /\ budget' = [budget EXCEPT ![s] = None]
  BY DEF RefuseExhausted, Revoke
<1> HIDE DEF new
<1>3. Evented' /\ \A t \in Sessions : t # s => events'[t] = events[t]
  BY <1>1, <1>2, Emitted
<1>4. SessionEndIsFinal'
  BY <1>1, <1>2, StaysFinal DEF TypeOK
<1>5. /\ store' \in [Sessions -> [bearer : Readers \cup {Owner}, canDecide : BOOLEAN] \cup {None}]
      /\ budget' \in [Sessions -> Nat \cup {None}]
      /\ \A t \in Sessions : store'[t] = store[t] \/ (t = s /\ store'[t] = None)
  BY <1>2 DEF TypeOK
<1>6. /\ Admitted(r, s) /\ job' = [job EXCEPT ![r] = Arrived(s, k, sh, "refused")]
      /\ chain' = chain \cup ResidencyRow(r, sh)
      /\ UNCHANGED <<setting, disk, queue, scan, born, ever>>
  BY DEF RefuseExhausted
<1> QED
  BY <1>3, <1>4, <1>5, <1>6, ArrivalPreserves

(* A reader or the scan takes a copy of the file. *)
LEMMA CopyPreserves ==
  ASSUME Inv, NEW p \in Procs \ Requests, NEW s \in Sessions, disk[s] # Missing,
         job[p].pc = "idle",
         job' = [job EXCEPT ![p].pc = "settling", ![p].sid = s, ![p].rows = disk[s]],
         UNCHANGED <<setting, disk, queue, memory, born, ever>>,
         scan' \in ScanType, scan'.todo \subseteq scan.todo,
         scan'.seen \subseteq scan.seen \cup {s}
  PROVE  Inv'
<1> USE DEF Inv, memory
<1> DEFINE j == [job[p] EXCEPT !.pc = "settling", !.sid = s, !.rows = disk[s]]
<1>1. /\ "settling" \in Active \cup Final /\ "settling" \notin Queued /\ "idle" \notin Queued
      /\ s \in born /\ disk[s] \in Seq(RowType) /\ disk[s] = Rows(s) /\ p \notin ever
      /\ job[p] \in JobType
  BY PcFacts DEF Queued, Traceless, TypeOK, Rows, JobType
<1>2. job' = [job EXCEPT ![p] = j]
  BY DEF TypeOK
<1>3. j \in JobType /\ j.pc = "settling" /\ j.sid = s /\ j.rows = Rows(s)
  BY <1>1 DEF JobType
<1> HIDE DEF j
<1>4. job' \in [Procs -> JobType] /\ job'[p] = j /\ \A q \in Procs \ {p} : job'[q] = job[q]
  BY <1>2, <1>3, Replaced
<1>5. Alone(p)
  BY <1>1, <1>3, <1>4 DEF Alone
<1>6. Decides(p)
  BY <1>1 DEF Decides
<1>7. AddsNothing(job'[p].sid, job'[p].rows)
  <2>1. AddsNothing(s, Rows(s)) /\ job'[p].sid = s /\ job'[p].rows = Rows(s)
    BY <1>3, <1>4, OldRows
  <2> QED
    BY <2>1
<1>8. \A t \in Sessions : MayDecide(t)' => MayDecide(t)
  BY <1>4 DEF MayDecide, Procs
<1>9. TypeOK' /\ Listed'
  BY <1>1, <1>4 DEF TypeOK, Listed, ScanType, JobType, Cfg
<1>10. Evented' /\ SessionEndIsFinal'
  BY DEF Evented, SessionEndIsFinal
<1> QED
  BY <1>5, <1>6, <1>7, <1>8, <1>9, <1>10, ProcessStep

LEMMA HydratePreserves ==
  ASSUME Inv, NEW x \in Readers, NEW s \in Sessions, Hydrate(x, s), UNCHANGED setting
  PROVE  Inv'
<1>1. x \in Procs \ Requests
  BY ProcsAssumption DEF Procs
<1> QED
  BY <1>1, CopyPreserves DEF Hydrate, Inv, Listed

LEMMA ScanNextPreserves ==
  ASSUME Inv, NEW s \in Sessions, ScanNext(s), UNCHANGED setting
  PROVE  Inv'
<1>1. Scanner \in Procs \ Requests /\ disk[s] # Missing
  BY ProcsAssumption DEF Procs, Inv, Listed, ScanNext
<1>2. /\ scan' \in ScanType /\ scan'.todo \subseteq scan.todo
      /\ scan'.seen \subseteq scan.seen \cup {s}
  <2> DEFINE open == OpenRows(disk[s]) # {}
  <2>1. scan' = [scan EXCEPT !.todo = @ \ {s}, !.seen = @ \cup {s}, !.open = open]
    BY DEF ScanNext
  <2>2. open \in BOOLEAN
    OBVIOUS
  <2> HIDE DEF open
  <2> QED
    BY <2>1, <2>2 DEF Inv, Listed, ScanType
<1> QED
  BY <1>1, <1>2, CopyPreserves DEF ScanNext, memory

LEMMA PreHookPassesPreserves ==
  ASSUME Inv, NEW r \in Requests, PreHookPasses(r), UNCHANGED setting
  PROVE  Inv'
<1>1. /\ job[r].pc \in Active \ Queued /\ "load" \in Active \ Queued
      /\ "load" \notin Undecided \cup {"sink", "committed", "posthook"}
  BY PcFacts DEF PreHookPasses, Undecided
<1> QED
  BY <1>1, GoPreserves DEF PreHookPasses

(* A hydrated session is registered read-only. *)
LEMMA RegisterPreserves ==
  ASSUME Inv, NEW x \in Readers, Register(x), UNCHANGED setting
  PROVE  Inv'
<1> USE DEF Inv, counters
<1>1. /\ x \in Procs /\ x \notin Requests /\ job[x].pc \in Active \ Queued
      /\ "served" \in Final \ Queued /\ "served" \in Active \cup Final
  BY PcFacts, ProcsAssumption DEF Procs, Register
<1>2. job[x].sid \in Sessions /\ Reply(x, "served")
  BY <1>1, PcFacts DEF Traceless, TypeOK, Register
<1>3. \A s \in Sessions : store'[s] = store[s] \/ (s = job[x].sid /\ ~store'[s].canDecide)
  BY <1>2 DEF TypeOK, Register
<1>4. Moves(x)
  BY <1>1, <1>2, <1>3, ReplyFacts DEF Moves, Register
<1>5. Decides(x)
  BY <1>1 DEF Decides, Register, TypeOK
<1>6. TypeOK'
  <2>1. [bearer |-> x, canDecide |-> FALSE] \in [bearer : Readers \cup {Owner}, canDecide : BOOLEAN]
    OBVIOUS
  <2>2. store' \in [Sessions -> [bearer : Readers \cup {Owner}, canDecide : BOOLEAN] \cup {None}]
    BY <1>2, <2>1 DEF TypeOK, Register
  <2> QED
    BY <1>1, <1>2, <2>2, ReplyFacts DEF TypeOK, JobType, Cfg, Register
<1>7. Evented' /\ UNCHANGED events
  BY DEF Evented, Register
<1>8. SessionEndIsFinal'
  BY <1>3, <1>7 DEF SessionEndIsFinal
<1> QED
  BY <1>1, <1>4, <1>5, <1>6, <1>7, <1>8, MoveStep

(* The scan goes on to its next session, and reports what it found. *)
LEMMA ScanResumedPreserves ==
  ASSUME Inv, ScanResumed, UNCHANGED setting
  PROVE  Inv'
<1> USE DEF Inv, counters
<1> DEFINE s == job[Scanner].sid
           new == IF scan.open THEN <<Event("CrashEvent", Scanner)>> ELSE <<>>
<1>1. /\ Scanner \in Procs /\ Scanner \notin Requests /\ job[Scanner].pc \in Active \ Queued
      /\ job[Scanner].pc # "idle" /\ "idle" \notin Queued
  BY PcFacts, ProcsAssumption DEF Procs, ScanResumed, Queued
<1>2. s \in Sessions /\ s \in born
  BY <1>1 DEF Traceless, TypeOK
<1>3. Emit(s, new) /\ job' = [job EXCEPT ![Scanner] = Idle]
  BY DEF ScanResumed
<1>4. new \in Seq(EventType) /\ ~\E j \in DOMAIN new : Ending(new[j])
  <2>1. Event("CrashEvent", Scanner) \in EventType /\ ~Ending(Event("CrashEvent", Scanner))
    BY <1>1 DEF Event, EventType, EventTypes, Causes, Ending
  <2> QED
    BY <2>1
<1>5. Idle \in JobType /\ Idle.pc = "idle" /\ Idle.rows = <<>> /\ Idle.sid = None
  BY DEF Idle, JobType
<1> HIDE DEF new
<1>6. job' \in [Procs -> JobType] /\ job'[Scanner] = Idle /\ \A q \in Procs \ {Scanner} : job'[q] = job[q]
  BY <1>1, <1>3, <1>5, Replaced
<1>7. Alone(Scanner)
  BY <1>1, <1>5, <1>6 DEF Alone, ScanResumed
<1>8. Decides(Scanner)
  BY <1>1 DEF Decides, ScanResumed, TypeOK
<1>9. AddsNothing(job'[Scanner].sid, job'[Scanner].rows)
  BY <1>5, <1>6 DEF AddsNothing
<1>10. \A t \in Sessions : MayDecide(t)' => MayDecide(t)
  BY <1>1, <1>6 DEF MayDecide, ScanResumed, Procs
<1>11. TypeOK' /\ Listed'
  BY <1>6 DEF TypeOK, JobType, Cfg, Listed, ScanResumed
<1>12. Evented' /\ \A t \in Sessions : t # s => events'[t] = events[t]
  BY <1>2, <1>3, <1>4, Emitted
<1>13. SessionEndIsFinal'
  BY <1>2, <1>3, <1>4, StaysFinal DEF ScanResumed
<1>14. UNCHANGED store
  BY DEF ScanResumed
<1> QED
  BY <1>1, <1>2, <1>7, <1>8, <1>9, <1>10, <1>11, <1>12, <1>13, <1>14, ProcessStep

(* A session is created: its file is empty, nothing is cached for it. *)
LEMMA CreateSessionPreserves ==
  ASSUME Inv, NEW s \in Sessions, CreateSession(s), UNCHANGED setting
  PROVE  Inv'
<1> USE DEF Inv, counters
<1> DEFINE new == <<Event("SessionStart", None)>> \o
                  (IF Cfg.memoryFails THEN <<Event("SessionEnd", "MemoryDegraded")>> ELSE <<>>)
<1>1. /\ s \notin born /\ born' = born \cup {s} /\ Emit(s, new)
      /\ UNCHANGED <<setting, job, queue, chain, scan, ever>>
  BY DEF CreateSession
<1>2. /\ new \in Seq(EventType)
      /\ ~\E j \in DOMAIN new : Ending(new[j])
  <2> DEFINE start == Event("SessionStart", None)
             end == Event("SessionEnd", "MemoryDegraded")
  <2>1. /\ start \in EventType /\ end \in EventType /\ ~Ending(start) /\ ~Ending(end)
    BY DEF Event, EventType, EventTypes, Causes, Ending
  <2> HIDE DEF start, end
  <2> QED
    BY <2>1 DEF start, end
<1> HIDE DEF new
<1>3. /\ disk' \in [Sessions -> Seq(RowType) \cup {Missing}] /\ disk'[s] = <<>>
      /\ \A t \in Sessions \ {s} : disk'[t] = disk[t]
  <2>1. <<>> \in Seq(RowType)
    OBVIOUS
  <2> QED
    BY <2>1 DEF CreateSession, TypeOK
<1>4. /\ store' \in [Sessions -> [bearer : Readers \cup {Owner}, canDecide : BOOLEAN] \cup {None}]
      /\ \A t \in Sessions \ {s} : store'[t] = store[t]
  BY DEF CreateSession, TypeOK
<1>5. budget' \in [Sessions -> Nat \cup {None}]
  BY DEF CreateSession, TypeOK
<1>6. TypeOK'
  BY <1>1, <1>3, <1>4, <1>5 DEF TypeOK, Cfg
<1>7. Evented' /\ \A t \in Sessions : t # s => events'[t] = events[t]
  BY <1>1, <1>2, Emitted
<1>8. Traceless'
  BY <1>1, <1>3, <1>4, <1>7 DEF Traceless
<1>9. Listed'
  <2>1. disk'[s] # Missing
    <3>1. <<>> \in Seq(RowType)
      OBVIOUS
    <3> QED
      BY <1>3, <3>1, NothingAssumption
  <2>2. \A t \in scan.todo : t \in Sessions
    BY DEF Listed, ScanType
  <2> QED
    BY <1>1, <1>3, <2>1, <2>2 DEF Listed
<1>10. Lined' /\ Keyed' /\ Bracketed'
  BY <1>1 DEF Lined, Keyed, Bracketed
<1>11. \A t \in Sessions : Cached(t)' \subseteq Cached(t)
  <2> SUFFICES ASSUME NEW t \in Sessions
               PROVE  Cached(t)' \subseteq Cached(t)
    OBVIOUS
  <2>1. Rows(t)' \in {<<>>, Rows(t)}
    BY <1>3 DEF Rows
  <2>2. AddsNothing(t, Rows(t)')
    BY <2>1, OldRows
  <2>3. \A p \in Procs : job'[p].sid = t => AddsNothing(t, job'[p].rows)
    BY <1>1, OldRows
  <2> QED
    BY <2>2, <2>3, NothingCached
<1>12. Cached(s)' = {}
  <2>1. Rows(s)' = <<>>
    BY <1>3 DEF Rows
  <2>2. \A p \in Procs : job'[p].sid = s => job'[p].rows = <<>>
    BY <1>1 DEF Traceless
  <2> QED
    BY <2>1, <2>2 DEF Cached, Contains
<1>13. Audited'
  <2>1. \A t \in Sessions : \A row \in Cached(t)' : Vouched(row, t)'
    BY <1>1, <1>11, StaysVouched
  <2> QED
    BY <1>1, <2>1 DEF Audited
<1>14. Current'
  <2>1. \A t \in Sessions \ {s} : MayDecide(t)' => MayDecide(t)
    BY <1>1, <1>4 DEF MayDecide
  <2> QED
    BY <1>1, <1>11, <1>12, <2>1 DEF Current
<1>15. SessionEndIsFinal'
  <2> SUFFICES ASSUME NEW t \in Sessions, NEW i \in DOMAIN events'[t], Ending(events'[t][i])
               PROVE  store'[t] # None => ~store'[t].canDecide
    BY DEF SessionEndIsFinal, Ending
  <2>1. CASE t # s
    BY <1>4, <1>7, <2>1 DEF SessionEndIsFinal, Ending
  <2>2. CASE t = s
    <3>1. events[s] = <<>>
      BY <1>1 DEF Traceless
    <3>2. \E j \in DOMAIN new : events'[s][i] = new[j]
      BY <1>1, <1>2, <2>2, <3>1, Emitted
    <3> QED
      BY <1>2, <2>2, <3>2
  <2> QED
    BY <2>1, <2>2
<1> QED
  BY <1>1, <1>6, <1>7, <1>8, <1>9, <1>10, <1>13, <1>14, <1>15

(* The file of a session whose persist fails is empty, or was never there. *)
LEMMA CreateFailsPreserves ==
  ASSUME Inv, NEW s \in Sessions, CreateFails(s), UNCHANGED setting
  PROVE  Inv'
<1> USE DEF Inv, counters, memory
<1>1. /\ s \notin born /\ born' = born \cup {s}
      /\ UNCHANGED <<job, queue, store, chain, budget, events, scan, ever>>
  BY DEF CreateFails
<1>2. /\ disk' \in [Sessions -> Seq(RowType) \cup {Missing}] /\ disk'[s] \in {Missing, <<>>}
      /\ \A t \in Sessions \ {s} : disk'[t] = disk[t]
  <2>1. <<>> \in Seq(RowType)
    OBVIOUS
  <2>2. PICK left \in {Missing, <<>>} : disk' = [disk EXCEPT ![s] = left]
    BY DEF CreateFails
  <2> QED
    BY <2>1, <2>2 DEF TypeOK
<1>3. TypeOK' /\ Evented' /\ Lined' /\ Keyed' /\ Bracketed' /\ SessionEndIsFinal'
  BY <1>1, <1>2 DEF TypeOK, Cfg, Evented, Lined, Keyed, Bracketed, SessionEndIsFinal
<1>4. Traceless'
  BY <1>1, <1>2 DEF Traceless
<1>5. Listed'
  <2>1. \A t \in scan.todo : t \in Sessions /\ t # s
    BY <1>1 DEF Listed, ScanType, Traceless
  <2> QED
    BY <1>1, <1>2, <2>1 DEF Listed
<1>6. \A t \in Sessions : Cached(t)' \subseteq Cached(t)
  <2> SUFFICES ASSUME NEW t \in Sessions
               PROVE  Cached(t)' \subseteq Cached(t)
    OBVIOUS
  <2>1. Rows(t)' \in {<<>>, Rows(t)}
    BY <1>2 DEF Rows
  <2>2. AddsNothing(t, Rows(t)')
    BY <2>1, OldRows
  <2>3. \A p \in Procs : job'[p].sid = t => AddsNothing(t, job'[p].rows)
    BY <1>1, OldRows
  <2> QED
    BY <2>2, <2>3, NothingCached
<1>7. Audited'
  <2>1. \A t \in Sessions : \A row \in Cached(t)' : Vouched(row, t)'
    BY <1>1, <1>6, StaysVouched
  <2> QED
    BY <1>1, <2>1 DEF Audited
<1>8. Current'
  BY <1>1, <1>6 DEF Current, MayDecide
<1> QED
  BY <1>1, <1>3, <1>4, <1>5, <1>7, <1>8

(* Steps that touch neither a process nor a file: the invariant is about what they leave
   alone, or grows with the chain. *)
LEMMA AsidePreserves ==
  ASSUME Inv, UNCHANGED <<setting, job, disk, queue, budget, born, ever>>, chain \subseteq chain',
         \A s \in Sessions : store'[s] = store[s] \/ store'[s] = None,
         \A s \in Sessions : events'[s] # events[s] => s \in born,
         TypeOK', Evented', Listed', SessionEndIsFinal'
  PROVE  Inv'
<1> USE DEF Inv
<1>1. Traceless' /\ Lined' /\ Keyed' /\ Bracketed'
  BY DEF Traceless, Lined, Keyed, Bracketed
<1>2. \A t \in Sessions : Cached(t)' = Cached(t)
  BY DEF Cached, Rows
<1>3. Audited'
  <2>1. \A t \in Sessions : \A row \in Cached(t)' : Vouched(row, t)'
    BY <1>2, StaysVouched
  <2> QED
    BY <2>1 DEF Audited
<1>4. Current'
  BY <1>2 DEF Current, MayDecide
<1> QED
  BY <1>1, <1>3, <1>4

(* A reentrant request ends and revokes the session of the hook. *)
LEMMA ReentryPreserves ==
  ASSUME Inv, NEW s \in Sessions, Reentry(s), UNCHANGED setting
  PROVE  Inv'
<1> USE DEF Inv, counters
<1> DEFINE new == <<Event("SessionEnd", "HookReentrancy")>>
<1>1. new \in Seq(EventType)
  <2>1. Event("SessionEnd", "HookReentrancy") \in EventType
    BY DEF Event, EventType, EventTypes, Causes
  <2> QED
    BY <2>1
<1>2. Emit(s, new) /\ store' = [store EXCEPT ![s] = None]
  BY DEF Reentry, Revoke
<1> HIDE DEF new
<1>3. s \in born
  <2>1. PICK r \in Requests : job[r].sid = s /\ job[r].pc \in {"prehook", "posthook"}
    BY DEF Reentry
  <2> QED
    BY <2>1 DEF Traceless, Procs
<1>4. Evented' /\ \A t \in Sessions : t # s => events'[t] = events[t]
  BY <1>1, <1>2, Emitted
<1>5. SessionEndIsFinal'
  BY <1>1, <1>2, StaysFinal DEF TypeOK
<1>6. TypeOK' /\ Listed' /\ \A t \in Sessions : store'[t] = store[t] \/ store'[t] = None
  BY <1>2 DEF TypeOK, Cfg, Listed, Reentry
<1> QED
  BY <1>3, <1>4, <1>5, <1>6, AsidePreserves DEF Reentry

LEMMA ScanListPreserves ==
  ASSUME Inv, ScanList, UNCHANGED setting
  PROVE  Inv'
<1> USE DEF Inv, counters, memory
<1> DEFINE todo == {s \in Sessions : disk[s] # Missing}
<1>1. scan' = [scan EXCEPT !.pc = "scanning", !.todo = todo]
  BY DEF ScanList
<1>2. todo \subseteq Sessions /\ todo \subseteq born
  BY DEF Traceless
<1>3. Listed'
  <2>1. UNCHANGED disk /\ \A s \in todo : disk[s] # Missing
    BY DEF ScanList
  <2> HIDE DEF todo
  <2> QED
    BY <1>1, <1>2, <2>1 DEF Listed, ScanType
<1>4. TypeOK' /\ Evented' /\ SessionEndIsFinal'
  <2> HIDE DEF todo
  <2>1. scan'.pc \in {"list", "scanning", "done"} /\ scan'.todo \cup scan'.seen \subseteq born
    BY <1>1, <1>2 DEF TypeOK, Listed, ScanType
  <2> QED
    BY <2>1 DEF TypeOK, Cfg, Evented, SessionEndIsFinal, ScanList
<1> QED
  BY <1>3, <1>4, AsidePreserves DEF ScanList

LEMMA ScanDonePreserves ==
  ASSUME Inv, ScanDone, UNCHANGED setting
  PROVE  Inv'
<1> USE DEF Inv, counters
<1>1. scan' = [scan EXCEPT !.pc = "done"] /\ chain \subseteq chain'
  BY DEF ScanDone
<1>2. \A row \in chain' : row.kind \in {"decision", "refusal", "residency", "resume"}
  BY DEF ScanDone, TypeOK
<1>3. Listed' /\ scan'.pc = "done" /\ scan'.todo = scan.todo /\ scan'.seen = scan.seen
  BY <1>1 DEF Listed, ScanType, ScanDone
<1>4. TypeOK' /\ Evented' /\ SessionEndIsFinal'
  BY <1>2, <1>3 DEF TypeOK, Cfg, Evented, SessionEndIsFinal, ScanDone
<1> QED
  BY <1>1, <1>3, <1>4, AsidePreserves DEF ScanDone

LEMMA WriteLandsPreserves ==
  ASSUME Inv, NEW s \in Sessions, WriteLands(s), UNCHANGED setting
  PROVE  Inv'
<1> USE DEF Inv, counters, memory
<1> DEFINE p == Head(queue[s])
           c == After(job[p].pc)
<1>1. /\ p \in Procs /\ job[p].sid = s /\ job[p].pc \in Queued /\ queue[s] # <<>>
      /\ \A r \in Requests : r \in Procs
  BY QueueHead DEF WriteLands, Procs
<1>2. /\ c \in Active \cup Final /\ c \in {"decide", "refused", "committed", "resumed"}
      /\ c = "decide" => job[p].pc = "pending"
      /\ c = "committed" => job[p].pc = "committing"
  <2>1. /\ After("pending") = "decide" /\ After("compensating") = "refused"
        /\ After("committing") = "committed" /\ After("resuming") = "resumed"
    BY DEF After
  <2>2. {"decide", "refused", "committed", "resumed"} \subseteq Active \cup Final
    BY PcFacts DEF Undecided
  <2> QED
    BY <1>1, <2>1, <2>2 DEF Queued
<1>3. /\ disk' = [disk EXCEPT ![s] = job[p].rows] /\ job' = [job EXCEPT ![p].pc = c]
      /\ queue' = [queue EXCEPT ![s] = Tail(@)]
      /\ UNCHANGED <<setting, memory, scan, born, ever>>
  BY <1>1 DEF WriteLands, TypeOK
<1>4. p = Head(queue[s])
  OBVIOUS
<1> HIDE DEF c, p
<1>5. /\ job' \in [Procs -> JobType] /\ \A q \in Procs \ {p} : job'[q] = job[q]
      /\ job'[p].pc = c /\ job'[p].rows = job[p].rows /\ job'[p].sid = s
      /\ job'[p].key = job[p].key /\ job'[p].idx = job[p].idx
  BY <1>1, <1>2, <1>3, GoFacts
<1>6. Leaves(s, p)
  BY <1>1, <1>2, <1>3, <1>4, <1>5 DEF Leaves
<1> QED
  BY <1>1, <1>6, LeaveStep

LEMMA WriteFailsPreserves ==
  ASSUME Inv, NEW s \in Sessions, WriteFails(s), UNCHANGED setting
  PROVE  Inv'
<1> USE DEF Inv, memory
<1> DEFINE p == Head(queue[s])
<1>1. /\ p \in Procs /\ job[p].sid = s /\ queue[s] # <<>> /\ Scanner \notin Requests
      /\ "refused" \in Active \cup Final
  BY QueueHead, PcFacts, ProcsAssumption DEF WriteFails
<1>2. /\ disk' = disk \/ disk' = [disk EXCEPT ![s] = job[p].rows]
      /\ queue' = [queue EXCEPT ![s] = Tail(@)]
      /\ IF p = Scanner THEN job' = [job EXCEPT ![p] = Idle] ELSE Reply(p, "refused")
      /\ UNCHANGED <<setting, memory, scan, born, ever>>
  BY DEF WriteFails
<1>3. p = Head(queue[s])
  OBVIOUS
<1> HIDE DEF p
<1>4. CASE p = Scanner
  <2>1. Idle \in JobType /\ Idle.pc = "idle" /\ Idle.rows = <<>>
    BY DEF Idle, JobType
  <2>2. job' \in [Procs -> JobType] /\ job'[p] = Idle /\ \A q \in Procs \ {p} : job'[q] = job[q]
    BY <1>1, <1>2, <1>4, <2>1, Replaced
  <2>3. Leaves(s, p)
    BY <1>1, <1>2, <1>3, <1>4, <2>1, <2>2 DEF Leaves
  <2> QED
    BY <1>1, <2>3, LeaveStep
<1>5. CASE p # Scanner
  <2>1. Reply(p, "refused")
    BY <1>2, <1>5
  <2>2. Leaves(s, p)
    BY <1>1, <1>2, <1>3, <2>1, ReplyFacts DEF Leaves
  <2> QED
    BY <1>1, <2>2, LeaveStep
<1> QED
  BY <1>4, <1>5

(* After a crash no process is at work, and a file holds what it held, or the copy whose
   write was under way. *)
LEMMA CrashPreserves ==
  ASSUME Inv, Crash, UNCHANGED setting
  PROVE  Inv'
<1> USE DEF Inv
<1>1. PICK L \in SUBSET {s \in Sessions : queue[s] # <<>>} :
        disk' = [s \in Sessions |-> IF s \in L THEN job[Head(queue[s])].rows ELSE disk[s]]
  BY DEF Crash
<1>2. \A s \in L : /\ s \in Sessions /\ Head(queue[s]) \in Procs
                   /\ job[Head(queue[s])].sid = s /\ job[Head(queue[s])].pc \in Queued
  BY QueueHead
<1>3. /\ queue' = [s \in Sessions |-> <<>>] /\ store' = [s \in Sessions |-> None] /\ chain' = {}
      /\ budget' = [s \in Sessions |-> None] /\ events' = [s \in Sessions |-> <<>>]
      /\ scan' = NoScan /\ UNCHANGED <<setting, born, ever>>
  BY DEF Crash
<1>4. \A r \in Requests : r \in Procs /\ r # Scanner
  BY ProcsAssumption DEF Procs
<1>5. /\ job' \in [Procs -> JobType]
      /\ \A p \in Procs :
           /\ job'[p].pc \in {"idle"} \cup Final
           /\ job'[p].rows \in {<<>>, job[p].rows}
           /\ p # Scanner => job'[p].sid = job[p].sid /\ job'[p].key = job[p].key
           /\ job'[p].pc = "idle" => job'[p].rows = <<>>
           /\ job'[p].pc # "idle" => job'[p].sid = job[p].sid
           /\ job'[p].pc = "idle" <=> (p = Scanner \/ job[p].pc = "idle")
  <2> DEFINE lost(p) == [job[p] EXCEPT !.pc = "lost", !.rows = <<>>]
  <2>1. Idle \in JobType /\ Idle.pc = "idle" /\ Idle.rows = <<>>
    BY DEF Idle, JobType
  <2>2. \A p \in Procs : job[p] \in JobType /\ job[p].pc \in {"idle"} \cup Active \cup Final
    BY DEF TypeOK, JobType
  <2>3. "lost" \in Final /\ "lost" # "idle" /\ "idle" \notin Active \cup Final
    BY PcFacts DEF Final
  <2>4. ASSUME NEW p \in Procs
        PROVE  /\ lost(p) \in JobType /\ lost(p).pc = "lost" /\ lost(p).rows = <<>>
               /\ lost(p).sid = job[p].sid /\ lost(p).key = job[p].key
    <3>1. <<>> \in Seq(RowType) /\ "lost" \in {"idle"} \cup Active \cup Final
      BY <2>3
    <3> QED
      BY <2>2, <3>1 DEF JobType
  <2>5. job' = [p \in Procs |-> CASE p = Scanner -> Idle
                                  [] p # Scanner /\ job[p].pc \in Active -> lost(p)
                                  [] OTHER -> job[p]]
    BY DEF Crash
  <2> HIDE DEF lost
  <2>6. ASSUME NEW p \in Procs
        PROVE  /\ p = Scanner => job'[p] = Idle
               /\ p # Scanner /\ job[p].pc \in Active => job'[p] = lost(p)
               /\ p # Scanner /\ job[p].pc \notin Active => job'[p] = job[p]
    BY <2>5
  <2>7. \A p \in Procs : job[p].pc = "idle" => job[p].rows = <<>>
    BY DEF Traceless
  <2>8. job' \in [Procs -> JobType]
    BY <2>1, <2>2, <2>4, <2>5, <2>6
  <2>9. ASSUME NEW p \in Procs
        PROVE  /\ job'[p].pc \in {"idle"} \cup Final
               /\ job'[p].rows \in {<<>>, job[p].rows}
               /\ p # Scanner => job'[p].sid = job[p].sid /\ job'[p].key = job[p].key
               /\ job'[p].pc = "idle" => job'[p].rows = <<>>
               /\ job'[p].pc # "idle" => job'[p].sid = job[p].sid
               /\ job'[p].pc = "idle" <=> (p = Scanner \/ job[p].pc = "idle")
    <3>1. CASE p = Scanner
      BY <2>1, <2>6, <3>1
    <3>2. CASE p # Scanner /\ job[p].pc \in Active
      BY <2>3, <2>4, <2>6, <3>2
    <3>3. CASE p # Scanner /\ job[p].pc \notin Active
      BY <2>2, <2>6, <2>7, <3>3
    <3> QED
      BY <3>1, <3>2, <3>3
  <2> QED
    BY <2>8, <2>9
<1>6. /\ disk' \in [Sessions -> Seq(RowType) \cup {Missing}]
      /\ \A t \in Sessions \ L : disk'[t] = disk[t]
      /\ \A t \in L : disk'[t] = job[Head(queue[t])].rows
  BY <1>1, <1>2 DEF TypeOK
<1>7. TypeOK' /\ Evented' /\ Listed'
  <2>1. <<>> \in Seq(Procs) /\ <<>> \in Seq(EventType)
    OBVIOUS
  <2>2. NoScan \in ScanType /\ NoScan.todo = {} /\ NoScan.seen = {} /\ NoScan.pc = "list"
    BY DEF NoScan, ScanType
  <2>3. TypeOK'
    BY <1>3, <1>5, <1>6, <2>1, <2>2 DEF TypeOK, JobType, Cfg
  <2> QED
    BY <1>3, <2>1, <2>2, <2>3 DEF Evented, Listed
<1>8. Traceless'
  <2>1. \A s \in L : s \in born
    BY <1>2, PcFacts DEF Traceless
  <2>2. \A p \in Procs : IF job'[p].pc = "idle" THEN job'[p].rows = <<>> ELSE job'[p].sid \in born
    BY <1>5 DEF Traceless
  <2> QED
    BY <1>3, <1>6, <2>1, <2>2 DEF Traceless
<1>9. Lined' /\ Keyed'
  BY <1>3, <1>4, <1>5 DEF Lined, Keyed
<1>10. Active \cap ({"idle"} \cup Final) = {} /\ Bracketing \subseteq Active /\ Undecided \subseteq Active
  BY DEF Active, Final, Queued, Awaiting, Answered, Bracketing, Undecided
<1>11. Bracketed'
  BY <1>4, <1>5, <1>10 DEF Bracketed
<1>12. \A t \in Sessions : Cached(t)' \subseteq Cached(t)
  <2> SUFFICES ASSUME NEW t \in Sessions
               PROVE  Cached(t)' \subseteq Cached(t)
    OBVIOUS
  <2>1. Rows(t)' = Rows(t) \/ (t \in L /\ Rows(t)' \in {<<>>, job[Head(queue[t])].rows})
    BY <1>6 DEF Rows
  <2>2. AddsNothing(t, Rows(t)')
    BY <1>2, <2>1, OldRows
  <2>3. ASSUME NEW p \in Procs, job'[p].sid = t
        PROVE  AddsNothing(t, job'[p].rows)
    <3>1. CASE job'[p].pc = "idle"
      BY <1>5, <3>1, OldRows
    <3>2. CASE job'[p].pc # "idle"
      <4>1. job[p].sid = t /\ job'[p].rows \in {<<>>, job[p].rows}
        BY <1>5, <2>3, <3>2
      <4> QED
        BY <4>1, OldRows
    <3> QED
      BY <3>1, <3>2
  <2> QED
    BY <2>2, <2>3, NothingCached
<1>13. Audited'
  <2>1. \A r \in ever' : r \in Requests /\ job'[r].pc # "idle"
    BY <1>3, <1>4, <1>5 DEF Audited, TypeOK
  <2>2. \A r \in Requests : job'[r].pc \notin {"sink", "committing", "committed", "posthook"}
    BY <1>4, <1>5 DEF Final, Answered
  <2>3. \A r \in ever : job'[r].sid = job[r].sid /\ job'[r].key = job[r].key
    BY <1>4, <1>5 DEF TypeOK
  <2>4. \A t \in Sessions : \A row \in Cached(t)' : Vouched(row, t)'
    BY <1>3, <1>12, <2>3, StaysVouched
  <2> QED
    BY <2>1, <2>2, <2>4 DEF Audited
<1>14. Current'
  BY <1>3, <1>4, <1>5, <1>10 DEF Current, MayDecide
<1>15. SessionEndIsFinal'
  BY <1>3 DEF SessionEndIsFinal
<1> QED
  BY <1>3, <1>7, <1>8, <1>9, <1>11, <1>13, <1>14, <1>15

LEMMA InitInv == Init => Inv
<1> SUFFICES ASSUME Init
             PROVE  Inv
  OBVIOUS
<1> USE DEF Init
<1>1. Idle \in JobType /\ Idle.pc = "idle" /\ Idle.rows = <<>>
  BY DEF Idle, JobType
<1>2. \A p \in Procs : job[p] = Idle
  OBVIOUS
<1>3. \A r \in Requests : r \in Procs
  BY DEF Procs
<1>4. NoScan \in ScanType /\ NoScan.todo = {} /\ NoScan.seen = {} /\ NoScan.pc = "list"
  BY DEF NoScan, ScanType
<1>5. <<>> \in Seq(Procs) /\ <<>> \in Seq(EventType)
  OBVIOUS
<1>6. job \in [Procs -> JobType]
  BY <1>1
<1> HIDE DEF Idle
<1>7. TypeOK
  <2>1. job \in [Procs -> JobType]
    BY <1>1
  <2> QED
    BY <1>4, <1>5, <2>1 DEF TypeOK, JobType, Cfg
<1>8. Evented /\ Listed /\ Lined
  BY <1>4, <1>5 DEF Evented, Listed, Lined
<1>9. Traceless
  BY <1>1, <1>2 DEF Traceless
<1>10. Keyed
  BY <1>1, <1>2, <1>3 DEF Keyed
<1>11. Bracketed
  BY <1>1, <1>2, <1>3 DEF Bracketed, Bracketing, Undecided
<1>12. \A s \in Sessions : Cached(s) = {}
  <2>1. \A s \in Sessions : Rows(s) = <<>>
    BY DEF Rows
  <2> QED
    BY <1>1, <1>2, <2>1 DEF Cached, Contains
<1>13. Audited /\ Current
  BY <1>1, <1>2, <1>3, <1>12 DEF Audited, Current
<1>14. SessionEndIsFinal
  BY DEF SessionEndIsFinal
<1> QED
  BY <1>7, <1>8, <1>9, <1>10, <1>11, <1>13, <1>14 DEF Inv

LEMMA StutterInv == Inv /\ UNCHANGED vars => Inv'
<1> SUFFICES ASSUME Inv, UNCHANGED vars
             PROVE  Inv'
  OBVIOUS
<1>1. TypeOK' /\ Evented' /\ Listed' /\ SessionEndIsFinal'
  BY DEF Inv, vars, memory, TypeOK, Cfg, Evented, Listed, SessionEndIsFinal
<1> QED
  BY <1>1, AsidePreserves DEF vars, memory

LEMMA NextInv == Inv /\ [Next]_vars => Inv'
<1> SUFFICES ASSUME Inv, [Next]_vars
             PROVE  Inv'
  OBVIOUS
<1>1. CASE UNCHANGED vars
  BY <1>1, StutterInv
<1>2. CASE Next
  <2>1. UNCHANGED setting /\ Step
    BY <1>2 DEF Next
  <2>2. ASSUME NEW s \in Sessions, CreateSession(s) \/ CreateFails(s) \/ Reentry(s)
        PROVE  Inv'
    BY <2>1, <2>2, CreateSessionPreserves, CreateFailsPreserves, ReentryPreserves
  <2>3. ASSUME NEW r \in Requests, NEW s \in Sessions, NEW sh \in Cfg.shapes, NEW k \in Keys \cup {r},
               RefuseResidency(r, s, k, sh) \/ RefuseExhausted(r, s, k, sh) \/ Arrive(r, s, k, sh)
        PROVE  Inv'
    BY <2>1, <2>3, RefuseResidencyPreserves, RefuseExhaustedPreserves, ArrivePreserves
  <2>4. ASSUME NEW r \in Requests, Progress(r) \/ LoadFails(r) \/ SinkFails(r)
        PROVE  Inv'
    <3>1. CASE PreHookPasses(r) \/ PreHookDenies(r) \/ Replay(r) \/ OpenBracket(r)
      BY <2>1, <3>1, PreHookPassesPreserves, PreHookDeniesPreserves, ReplayPreserves,
         OpenBracketPreserves
    <3>2. CASE Decide(r) \/ Verify(r) \/ Escalated(r)
      BY <2>1, <3>2, DecidePreserves, VerifyPreserves, EscalatedPreserves
    <3>3. CASE Commit(r) \/ Finish(r) \/ PostHook(r)
      BY <2>1, <3>3, CommitPreserves, FinishPreserves, PostHookPreserves
    <3>4. CASE LoadFails(r) \/ SinkFails(r)
      BY <2>1, <3>4, FailuresPreserve
    <3> QED
      BY <2>4, <3>1, <3>2, <3>3, <3>4 DEF Progress
  <2>5. ASSUME NEW x \in Readers, NEW s \in Sessions, Hydrate(x, s)
        PROVE  Inv'
    BY <2>1, <2>5, HydratePreserves
  <2>6. Scanner \in Procs \ Requests /\ \A x \in Readers : x \in Procs \ Requests
    BY ProcsAssumption DEF Procs
  <2>7. ASSUME NEW x \in Readers, Settle(x) \/ Register(x)
        PROVE  Inv'
    BY <2>1, <2>6, <2>7, SettlePreserves, RegisterPreserves
  <2>8. CASE ScanStep
    BY <2>1, <2>6, <2>8, ScanListPreserves, SettlePreserves, ScanResumedPreserves,
       ScanDonePreserves, ScanNextPreserves DEF ScanStep
  <2>9. ASSUME NEW s \in Sessions, WriteLands(s) \/ WriteFails(s)
        PROVE  Inv'
    BY <2>1, <2>9, WriteLandsPreserves, WriteFailsPreserves
  <2>10. CASE Crash
    BY <2>1, <2>10, CrashPreserves
  <2> QED
    BY <2>1, <2>2, <2>3, <2>4, <2>5, <2>7, <2>8, <2>9, <2>10 DEF Step
<1> QED
  BY <1>1, <1>2

(* The inductive invariant holds in every reachable state (decisions-route.ts, store.ts,
   state-route.ts). *)
THEOREM Inductive == Spec => []Inv
  BY InitInv, NextInv, PTL DEF Spec
-----------------------------------------------------------------------------
(* Sessions, files, queues and processes keep the shape the code gives them. *)
THEOREM TypeCorrect == Spec => []TypeOK
  BY Inductive, PTL DEF Inv

(* decisions-route.ts 1021-1091: whatever writer, failure or crash a session file has been
   through, an audit id it caches is that of a decision made for this session and key. *)
THEOREM CacheIsAudited == Spec => []CommittedIsAudited
<1>1. Inv => CommittedIsAudited
  <2> SUFFICES ASSUME Inv, NEW s \in Sessions, NEW i \in DOMAIN Rows(s), Rows(s)[i].aud # NoAudit
               PROVE  Vouched(Rows(s)[i], s)
    BY DEF CommittedIsAudited, Vouched
  <2>1. Rows(s) \in Seq(RowType)
    BY DEF Inv, TypeOK, Rows
  <2>2. Rows(s)[i] \in Cached(s)
    BY <2>1, ElementOfSeq DEF Cached, Contains
  <2> QED
    BY <2>2 DEF Inv, Audited
<1> QED
  BY <1>1, Inductive, PTL

(* decisions-route.ts 347-349 and 1350-1353: a session that ended for its budget or a
   reentrant hook decides nothing more. *)
THEOREM EndIsFinal == Spec => []SessionEndIsFinal
  BY Inductive, PTL DEF Inv

(* The answer of one request in one step. *)
AnswerStands(r) ==
  LET a == job'[r].ans IN
  /\ [kind |-> "decision", id |-> a] \in chain'
  /\ job'[a].sid = job'[r].sid
  /\ job'[a].key = job'[r].key

NewlyAnswered(r) == job'[r].pc \in Answered /\ job[r].pc \notin Answered

(* A 201 leaves by three statements of the handler: the replay, the end of the handler, and
   the return of the PostToolUse hook. *)
LEMMA WhoAnswers ==
  ASSUME Inv, Next, NEW r \in Requests, NewlyAnswered(r)
  PROVE  Replay(r) \/ Finish(r) \/ PostHook(r)
<1> USE DEF NewlyAnswered
<1>1. /\ r \in Procs /\ r # Scanner /\ r \notin Readers /\ job \in [Procs -> JobType]
      /\ \A q \in Requests \cup Readers : q \in Procs
      /\ UNCHANGED setting /\ Step
  BY ProcsAssumption DEF Procs, Inv, TypeOK, JobType, Next
<1>2. Answered = {"accepted", "replayed"}
  BY DEF Answered
<1>4. UNCHANGED job => FALSE
  OBVIOUS
<1>5. ASSUME NEW p \in Procs, NEW c, c \notin Answered, job' = [job EXCEPT ![p].pc = c]
      PROVE  FALSE
  BY <1>1, <1>5 DEF JobType
<1>6. ASSUME NEW p \in Procs, Reply(p, "refused") \/ Reply(p, "served")
      PROVE  FALSE
  BY <1>1, <1>2, <1>6 DEF Reply, JobType
<1>7. ASSUME NEW p \in Procs, Compensate(p)
      PROVE  FALSE
  BY <1>1, <1>2, <1>7 DEF Compensate, JobType
<1>8. ASSUME NEW p \in Procs, AppendDecision(p) \/ LeavePending(p)
      PROVE  FALSE
  BY <1>2, <1>5, <1>6, <1>8 DEF AppendDecision, LeavePending
<1>9. ASSUME NEW s \in Sessions, CreateSession(s) \/ CreateFails(s) \/ Reentry(s)
      PROVE  FALSE
  BY <1>4, <1>9 DEF CreateSession, CreateFails, Reentry
<1>10. ASSUME NEW q \in Requests, NEW s \in Sessions, NEW sh \in Cfg.shapes, NEW k \in Keys \cup {q},
              RefuseResidency(q, s, k, sh) \/ RefuseExhausted(q, s, k, sh) \/ Arrive(q, s, k, sh)
      PROVE  FALSE
  <2>1. PICK c \in {"refused", "prehook", "load"} : job' = [job EXCEPT ![q] = Arrived(s, k, sh, c)]
    BY <1>10 DEF RefuseResidency, RefuseExhausted, Arrive
  <2>2. c \in {"idle"} \cup Active \cup Final
    BY PcFacts
  <2>3. Arrived(s, k, sh, c).pc = c
    BY <2>2, ArrivedType
  <2> QED
    BY <1>1, <1>2, <2>1, <2>3
<1>11. ASSUME NEW q \in Requests, Progress(q) \/ LoadFails(q) \/ SinkFails(q),
              ~(Replay(q) \/ Finish(q) \/ PostHook(q))
      PROVE  FALSE
  <2>0. q \in Procs
    BY <1>1
  <2>1. CASE PreHookPasses(q) \/ PreHookDenies(q) \/ LoadFails(q) \/ SinkFails(q)
    BY <1>2, <1>5, <1>6, <2>0, <2>1 DEF PreHookPasses, PreHookDenies, LoadFails, SinkFails
  <2>2. CASE OpenBracket(q)
    BY <1>1, <1>2, <2>0, <2>2 DEF OpenBracket, JobType
  <2>3. CASE Decide(q)
    BY <1>2, <1>5, <1>8, <2>0, <2>3 DEF Decide
  <2>4. CASE Verify(q) \/ Escalated(q)
    BY <1>2, <1>5, <1>7, <1>8, <2>0, <2>4
       DEF Verify, ValidPda, Escalated, AcceptOrMismatch, RefuseEscalation
  <2>5. CASE Commit(q)
    BY <1>1, <1>2, <2>0, <2>5 DEF Commit, JobType
  <2> QED
    BY <1>11, <2>1, <2>2, <2>3, <2>4, <2>5 DEF Progress
<1>12. ASSUME NEW q \in Requests, Replay(q) \/ Finish(q) \/ PostHook(q), q # r
      PROVE  FALSE
  BY <1>1, <1>12 DEF Replay, Finish, PostHook, Reply
<1>13. ASSUME NEW p \in Procs, Settle(p)
      PROVE  FALSE
  BY <1>1, <1>2, <1>13 DEF Settle, JobType
<1>14. ASSUME NEW x \in Readers, NEW s \in Sessions, Hydrate(x, s)
      PROVE  FALSE
  BY <1>1, <1>14 DEF Hydrate
<1>15. ASSUME NEW x \in Readers, Register(x)
      PROVE  FALSE
  BY <1>1, <1>6, <1>15 DEF Register
<1>16. Scanner \in Procs
  BY DEF Procs
<1>17. CASE ScanStep
  <2>1. ASSUME ScanResumed PROVE FALSE
    BY <1>1, <1>16, <2>1 DEF ScanResumed
  <2>2. ASSUME NEW s \in Sessions, ScanNext(s) PROVE FALSE
    BY <1>1, <1>16, <2>2 DEF ScanNext
  <2>3. ASSUME ScanList \/ ScanDone PROVE FALSE
    BY <1>4, <2>3 DEF ScanList, ScanDone
  <2> QED
    BY <1>13, <1>16, <1>17, <2>1, <2>2, <2>3 DEF ScanStep
<1>18. ASSUME NEW s \in Sessions, WriteLands(s)
      PROVE  FALSE
  <2> DEFINE p == Head(queue[s])
             c == After(job[p].pc)
  <2>1. p \in Procs /\ job[p].pc \in Queued
    BY <1>18, QueueHead DEF Inv, WriteLands
  <2>2. job' = [job EXCEPT ![p].pc = c]
    BY <1>1, <1>18, <2>1 DEF WriteLands
  <2>3. c \notin Answered
    BY <1>2, <2>1 DEF After, Queued
  <2> HIDE DEF c, p
  <2> QED
    BY <1>5, <2>1, <2>2, <2>3
<1>19. ASSUME NEW s \in Sessions, WriteFails(s)
      PROVE  FALSE
  <2> DEFINE p == Head(queue[s])
  <2>1. p \in Procs
    BY <1>19, QueueHead DEF Inv, WriteFails
  <2>2. job' = [job EXCEPT ![p] = Idle] \/ Reply(p, "refused")
    BY <1>19 DEF WriteFails
  <2>3. Idle.pc = "idle"
    BY DEF Idle
  <2> HIDE DEF p
  <2> QED
    BY <1>1, <1>2, <1>6, <2>1, <2>2, <2>3
<1>20. CASE Crash
  BY <1>1, <1>2, <1>20 DEF Crash, JobType
<1> QED
  BY <1>1, <1>9, <1>10, <1>11, <1>12, <1>13, <1>14, <1>15, <1>17, <1>18, <1>19, <1>20 DEF Step

(* decisions-route.ts 111-114: the row that a 201 names is on the audit chain of the
   process that answers, for the session and the key of the request. *)
THEOREM AnswersStand == Spec => AnswersAreAudited
<1>1. ASSUME Inv, Next, NEW r \in Requests, NewlyAnswered(r)
      PROVE  AnswerStands(r)
  <2>1. Inv' /\ r \in Procs
    BY <1>1, NextInv DEF Procs
  <2>2. CASE Finish(r) \/ PostHook(r)
    <3>1. /\ job'[r].ans = r
          /\ [kind |-> "decision", id |-> r] \in chain /\ chain' = chain
      BY <2>1, <2>2, <1>1 DEF Finish, PostHook, Reply, Inv, Audited, TypeOK
    <3> QED
      BY <3>1 DEF AnswerStands
  <2>3. CASE Replay(r)
    <3> DEFINE s == job[r].sid
               hit == FirstHit(Rows(s), job[r].key)
    <3>1. /\ job'[r].ans = hit.aud /\ job'[r].sid = s /\ job'[r].key = job[r].key
          /\ \A q \in Procs : job'[q].sid = job[q].sid /\ job'[q].key = job[q].key
          /\ chain' = chain /\ job[r].pc = "load"
      BY <1>1, <2>1, <2>3 DEF Replay, Inv, TypeOK, memory
    <3>2. s \in Sessions /\ Rows(s) \in Seq(RowType)
      BY <1>1, <2>1, <3>1 DEF Inv, Traceless, TypeOK, Rows
    <3>3. Contains(Rows(s), hit) /\ hit \in RowType /\ hit.key = job[r].key /\ hit.aud # NoAudit
      BY <2>3, <3>2, FirstHitIsCached DEF Replay
    <3> HIDE DEF hit
    <3>4. hit \in Cached(s)
      BY <3>3 DEF Cached
    <3>5. Vouched(hit, s)
      BY <1>1, <3>2, <3>4 DEF Inv, Audited
    <3>6. MayDecide(s)
      BY <1>1, <3>1, PcFacts DEF MayDecide
    <3>7. [kind |-> "decision", id |-> hit.aud] \in chain
      BY <1>1, <3>2, <3>4, <3>6 DEF Inv, Current
    <3>8. hit.aud \in Procs
      BY <1>1, <3>5 DEF Vouched, Inv, TypeOK, Procs
    <3> QED
      BY <3>1, <3>3, <3>5, <3>7, <3>8 DEF AnswerStands, Vouched
  <2> QED
    BY <1>1, <2>2, <2>3, WhoAnswers
<1>2. ASSUME Inv, [Next]_vars
      PROVE  [\A r \in Requests : job'[r].pc \in Answered /\ job[r].pc \notin Answered =>
                LET a == job'[r].ans IN
                /\ [kind |-> "decision", id |-> a] \in chain'
                /\ job'[a].sid = job'[r].sid
                /\ job'[a].key = job'[r].key]_vars
  BY <1>1, <1>2 DEF AnswerStands, NewlyAnswered
<1> QED
  BY <1>2, Inductive, PTL DEF Spec, AnswersAreAudited
-----------------------------------------------------------------------------
(* A request of these has been admitted and has not recorded its turn. *)
Spending == Active \ {"posthook"}
Spent == Event("SessionEnd", "BudgetExhausted")

(* With one request in flight per session, its budget is a ledger: the turns counted are the
   decisions made, the next one fits, and the end is written once, when the count stops. *)
Solo == \A q, r \in Requests :
          job[q].pc \in Active /\ job[r].pc \in Active /\ job[q].sid = job[r].sid => q = r
Funded == \A s \in Sessions :
            \/ store[s] # None /\ store[s].canDecide
            \/ \E r \in Requests : job[r].sid = s /\ job[r].pc \in Spending
            => budget[s] # None
Once == \A s \in Sessions :
          IF budget[s] = None THEN \E i \in Nat : Ends(s) \subseteq {i} ELSE Ends(s) = {}
Counted == \A s \in Sessions :
             /\ IsFiniteSet(Turned(s)) /\ Cardinality(Turned(s)) * Cfg.turnTokens <= Cfg.maxTokens
             /\ budget[s] # None => Cardinality(Turned(s)) = budget[s]
Room == \A r \in Requests :
          job[r].pc \in Spending => (budget[job[r].sid] + 1) * Cfg.turnTokens <= Cfg.maxTokens

Ledger == Cfg.serial => Solo /\ Funded /\ Once /\ Counted /\ Room

(* tracker.ts 193-201: the projection of a turn is not below what a turn consumes.  Warm, it
   is the 95th percentile of the recorded turns times 1.15; cold, it is the floor of 4096
   tokens, and the estimate a decision records is configured. *)
ProjectionCovers ==
  \A name \in DOMAIN Settings :
    /\ Settings[name].turnTokens <= Settings[name].coldStart
    /\ Settings[name].turnTokens <= Settings[name].warmTurn

(* The ends of a session's budget among its events and the new ones. *)
LEMMA EndsAfter ==
  ASSUME Evented, NEW s \in Sessions, NEW new \in Seq(EventType), Emit(s, new)
  PROVE  /\ \A t \in Sessions : t # s => Ends(t)' = Ends(t)
         /\ Ends(s)' \subseteq Ends(s) \cup {Len(events[s]) + i : i \in {j \in DOMAIN new : new[j] = Spent}}
         /\ Ends(s) \subseteq Ends(s)'
         /\ Len(events[s]) \in Nat
<1>1. events[s] \in Seq(EventType) /\ events'[s] = events[s] \o new
  BY DEF Evented, Emit
<1>2. \A t \in Sessions : t # s => events'[t] = events[t]
  BY DEF Evented, Emit
<1>3. \A t \in Sessions : t # s => Ends(t)' = Ends(t)
  BY <1>2 DEF Ends
<1>4. ASSUME NEW i \in DOMAIN (events[s] \o new)
      PROVE  \/ i \in DOMAIN events[s] /\ (events[s] \o new)[i] = events[s][i]
             \/ \E j \in DOMAIN new : i = Len(events[s]) + j /\ (events[s] \o new)[i] = new[j]
  <2>1. i \in 1 .. Len(events[s]) + Len(new)
    BY <1>1
  <2>2. CASE i <= Len(events[s])
    BY <1>1, <2>1, <2>2
  <2>3. CASE i > Len(events[s])
    <3>1. /\ i - Len(events[s]) \in DOMAIN new /\ (events[s] \o new)[i] = new[i - Len(events[s])]
          /\ i = Len(events[s]) + (i - Len(events[s]))
      BY <1>1, <2>1, <2>3
    <3> QED
      BY <3>1
  <2> QED
    BY <1>1, <2>1, <2>2, <2>3
<1>5. \A i \in DOMAIN events[s] : i \in DOMAIN (events[s] \o new) /\ (events[s] \o new)[i] = events[s][i]
  BY <1>1
<1>6. Ends(s)' \subseteq Ends(s) \cup {Len(events[s]) + i : i \in {j \in DOMAIN new : new[j] = Spent}}
  BY <1>1, <1>4 DEF Ends, Spent
<1>7. Ends(s) \subseteq Ends(s)'
  BY <1>1, <1>5 DEF Ends
<1> QED
  BY <1>1, <1>3, <1>6, <1>7

(* The first of the new events ends the session, or none does. *)
LEMMA EndsHere ==
  ASSUME Evented, NEW s \in Sessions, NEW new \in Seq(EventType), Emit(s, new), Ends(s) = {},
         \A j \in DOMAIN new : new[j] = Spent => j = 1
  PROVE  /\ \E i \in Nat : Ends(s)' \subseteq {i}
         /\ (\A j \in DOMAIN new : new[j] # Spent) => Ends(s)' = {}
<1> DEFINE D == {j \in DOMAIN new : new[j] = Spent}
<1>1. D \subseteq {1} /\ ((\A j \in DOMAIN new : new[j] # Spent) => D = {})
  OBVIOUS
<1>2. Ends(s)' \subseteq {Len(events[s]) + i : i \in D} /\ Len(events[s]) \in Nat
  BY EndsAfter
<1> HIDE DEF D
<1>3. {Len(events[s]) + i : i \in D} \subseteq {Len(events[s]) + 1} /\ Len(events[s]) + 1 \in Nat
  BY <1>1, <1>2
<1>4. D = {} => {Len(events[s]) + i : i \in D} = {}
  OBVIOUS
<1> QED
  BY <1>1, <1>2, <1>3, <1>4

(* A step that admits no request, records no turn and ends no session. *)
CalmMove(p) ==
  /\ \A q \in Procs \ {p} : job'[q] = job[q]
  /\ p \in Requests =>
       /\ job[p].pc # "idle" => job'[p].sid = job[p].sid
       /\ job'[p].pc \in Active => job[p].pc \in Active
       /\ job'[p].pc \in Spending => job[p].pc \in Spending
       /\ job'[p].pc \in {"posthook", "accepted"} <=> job[p].pc \in {"posthook", "accepted"}

Calm ==
  /\ UNCHANGED <<setting, budget>>
  /\ UNCHANGED job \/ \E p \in Procs : CalmMove(p)
  /\ \A s \in Sessions : Ends(s)' = Ends(s)
  /\ \A s \in Sessions :
       store'[s] # None /\ store'[s].canDecide => store[s] # None /\ store[s].canDecide

LEMMA CalmKeepsLedger ==
  ASSUME Ledger, Calm
  PROVE  Ledger'
<1> SUFFICES ASSUME Cfg.serial
             PROVE  (Solo /\ Funded /\ Once /\ Counted /\ Room)'
  BY DEF Ledger, Calm, Cfg
<1>1. Solo /\ Funded /\ Once /\ Counted /\ Room
  BY DEF Ledger
<1>2. \A r \in Requests :
        /\ job[r].pc # "idle" => job'[r].sid = job[r].sid
        /\ job'[r].pc \in Active => job[r].pc \in Active
        /\ job'[r].pc \in Spending => job[r].pc \in Spending
        /\ job'[r].pc \in {"posthook", "accepted"} <=> job[r].pc \in {"posthook", "accepted"}
  BY DEF Calm, CalmMove, Procs
<1>3. "idle" \notin Active \cup Spending
  BY PcFacts DEF Spending
<1>4. Cfg' = Cfg /\ budget' = budget
  BY DEF Calm, Cfg
<1>5. Solo'
  BY <1>1, <1>2, <1>3 DEF Solo
<1>6. Funded'
  BY <1>1, <1>2, <1>3, <1>4 DEF Funded, Calm
<1>7. Once'
  BY <1>1, <1>4 DEF Once, Calm
<1>8. Counted'
  <2>1. \A s \in Sessions : Turned(s)' = Turned(s)
    BY <1>2 DEF Turned
  <2> QED
    BY <1>1, <1>4, <2>1 DEF Counted
<1>9. Room'
  BY <1>1, <1>2, <1>3, <1>4 DEF Room
<1> QED
  BY <1>5, <1>6, <1>7, <1>8, <1>9

(* Events that are no end of a budget leave Ends alone. *)
LEMMA EndsStay ==
  ASSUME Evented, NEW s \in Sessions, NEW new \in Seq(EventType), Emit(s, new),
         \A j \in DOMAIN new : new[j] # Spent
  PROVE  \A t \in Sessions : Ends(t)' = Ends(t)
<1>1. {j \in DOMAIN new : new[j] = Spent} = {}
  OBVIOUS
<1>2. Ends(s)' = Ends(s)
  BY <1>1, EndsAfter
<1> QED
  BY <1>2, EndsAfter

(* The moves of one request in flight. *)
LEMMA CalmMoves ==
  ASSUME Inv, NEW r \in Requests, job[r].pc \in Spending,
         \/ \E c \in Spending \cup {"refused"} : job' = [job EXCEPT ![r].pc = c]
         \/ Reply(r, "refused")
         \/ Compensate(r) \/ OpenBracket(r) \/ Commit(r) \/ Replay(r)
  PROVE  CalmMove(r)
<1>1. r \in Procs /\ job \in [Procs -> JobType]
  BY DEF Procs, Inv, TypeOK, JobType
<1>2. /\ {"pending", "compensating", "committing"} \subseteq Spending
      /\ {"refused", "replayed"} \cap (Active \cup {"posthook", "accepted"}) = {}
      /\ Spending \cap {"posthook", "accepted", "idle"} = {} /\ Spending \subseteq Active
  BY DEF Spending, Active, Queued, Awaiting
<1>3. ASSUME NEW c \in Spending \cup {"refused"}, job' = [job EXCEPT ![r].pc = c]
      PROVE  CalmMove(r)
  BY <1>1, <1>2, <1>3 DEF CalmMove, JobType
<1>4. CASE Reply(r, "refused")
  BY <1>1, <1>2, <1>4 DEF CalmMove, JobType, Reply
<1>5. CASE Compensate(r)
  BY <1>1, <1>2, <1>5 DEF CalmMove, JobType, Compensate
<1>6. CASE OpenBracket(r)
  BY <1>1, <1>2, <1>6 DEF CalmMove, JobType, OpenBracket
<1>7. CASE Commit(r)
  BY <1>1, <1>2, <1>7 DEF CalmMove, JobType, Commit
<1>8. CASE Replay(r)
  BY <1>1, <1>2, <1>8 DEF CalmMove, JobType, Replay
<1> QED
  BY <1>3, <1>4, <1>5, <1>6, <1>7, <1>8

(* What a request does between its arrival and its turn, or its refusal, and after it. *)
LEMMA CalmRequest ==
  ASSUME Inv, NEW r \in Requests, UNCHANGED setting,
         Progress(r) \/ LoadFails(r) \/ SinkFails(r), ~Finish(r)
  PROVE  Calm
<1> USE DEF memory
<1>1. r \in Procs /\ job \in [Procs -> JobType]
  BY DEF Procs, Inv, TypeOK, JobType
<1>2. {"sink", "verify", "escalate", "load"} \subseteq Spending
  BY DEF Spending, Active, Awaiting
<1>3. CASE PostHook(r)
  <2> DEFINE new == <<Event("PostToolUseOutcome", r)>>
  <2>1. job[r].pc = "posthook" /\ Reply(r, "accepted") /\ Emit(job[r].sid, new)
        /\ UNCHANGED <<budget, store>>
    BY <1>3 DEF PostHook
  <2>2. job[r].sid \in Sessions
    BY <1>1, <2>1 DEF Inv, Traceless, TypeOK
  <2>3. Event("PostToolUseOutcome", r) \in EventType /\ Event("PostToolUseOutcome", r) # Spent
    BY <1>1 DEF Event, EventType, EventTypes, Causes, Spent
  <2>4. new \in Seq(EventType) /\ \A j \in DOMAIN new : new[j] # Spent
    BY <2>3
  <2>5. CalmMove(r)
    BY <1>1, <2>1 DEF CalmMove, JobType, Reply, Spending, Active, Awaiting, Queued
  <2> QED
    BY <1>1, <2>1, <2>2, <2>4, <2>5, EndsStay DEF Calm, Inv
<1>4. CASE PreHookDenies(r)
  <2> DEFINE new == <<Event("PreToolUseOutcome", r)>>
  <2>1. job[r].pc \in Spending /\ Reply(r, "refused") /\ Emit(job[r].sid, new)
        /\ UNCHANGED <<budget, store>>
    BY <1>4 DEF PreHookDenies, Spending, Active, Awaiting
  <2>2. job[r].sid \in Sessions
    BY <1>1, <2>1, PcFacts DEF Inv, Traceless, TypeOK, Spending
  <2>3. Event("PreToolUseOutcome", r) \in EventType /\ Event("PreToolUseOutcome", r) # Spent
    BY <1>1 DEF Event, EventType, EventTypes, Causes, Spent
  <2>4. new \in Seq(EventType) /\ \A j \in DOMAIN new : new[j] # Spent
    BY <2>3
  <2>5. CalmMove(r)
    BY <2>1, CalmMoves
  <2> QED
    BY <1>1, <2>1, <2>2, <2>4, <2>5, EndsStay DEF Calm, Inv
<1>5. CASE ~PostHook(r) /\ ~PreHookDenies(r)
  <2>1. job[r].pc \in Spending
    BY <1>5 DEF Progress, PreHookPasses, Replay, OpenBracket, Decide, Verify, Escalated, Commit,
       LoadFails, SinkFails, Spending, Active, Awaiting
  <2>2. /\ UNCHANGED <<budget, store, events>>
        /\ \/ \E c \in Spending \cup {"refused"} : job' = [job EXCEPT ![r].pc = c]
           \/ Reply(r, "refused")
           \/ Compensate(r) \/ OpenBracket(r) \/ Commit(r) \/ Replay(r)
    <3> DEFINE Plain == \E c \in Spending \cup {"refused"} : job' = [job EXCEPT ![r].pc = c]
    <3>1. CASE PreHookPasses(r)
      BY <1>2, <3>1 DEF PreHookPasses
    <3>2. CASE LoadFails(r) \/ SinkFails(r)
      BY <3>2 DEF LoadFails, SinkFails
    <3>3. CASE Replay(r) \/ OpenBracket(r) \/ Commit(r)
      BY <3>3 DEF Replay, OpenBracket, Commit
    <3>4. AppendDecision(r) => UNCHANGED <<budget, store, events>> /\ Plain
      BY <1>2 DEF AppendDecision
    <3>5. Compensate(r) => UNCHANGED <<budget, store, events>>
      BY DEF Compensate
    <3>6. LeavePending(r) => UNCHANGED <<budget, store, events>> /\ Reply(r, "refused")
      BY DEF LeavePending
    <3>7. CASE Decide(r)
      BY <1>2, <3>4, <3>6, <3>7 DEF Decide
    <3>8. CASE Verify(r)
      BY <1>2, <3>4, <3>5, <3>6, <3>8 DEF Verify, ValidPda, AcceptOrMismatch, RefuseEscalation
    <3>9. CASE Escalated(r)
      BY <3>4, <3>5, <3>9 DEF Escalated, AcceptOrMismatch, RefuseEscalation
    <3> QED
      BY <1>5, <3>1, <3>2, <3>3, <3>7, <3>8, <3>9 DEF Progress
  <2>3. CalmMove(r)
    BY <2>1, <2>2, CalmMoves
  <2>4. \A s \in Sessions : Ends(s)' = Ends(s)
    BY <2>2 DEF Ends
  <2> QED
    BY <1>1, <2>2, <2>3, <2>4 DEF Calm
<1> QED
  BY <1>3, <1>4, <1>5

(* A write that lands or fails, of a request or a resume. *)
LEMMA CalmWrite ==
  ASSUME Inv, NEW s \in Sessions, WriteLands(s) \/ WriteFails(s), UNCHANGED setting
  PROVE  Calm
<1> USE DEF memory
<1> DEFINE p == Head(queue[s])
<1>1. /\ p \in Procs /\ job[p].pc \in Queued /\ job \in [Procs -> JobType]
      /\ Scanner \notin Requests
  BY QueueHead, ProcsAssumption DEF Inv, WriteLands, WriteFails, TypeOK, JobType
<1>2. UNCHANGED <<budget, store, events>>
  BY DEF WriteLands, WriteFails
<1>3. \A t \in Sessions : Ends(t)' = Ends(t)
  BY <1>2 DEF Ends
<1>4. \/ \E c \in {"decide", "refused", "committed", "resumed"} : job' = [job EXCEPT ![p].pc = c]
      \/ Reply(p, "refused")
      \/ p = Scanner /\ job' = [job EXCEPT ![p] = Idle]
  <2>1. CASE WriteLands(s)
    <3>1. job' = [job EXCEPT ![p].pc = After(job[p].pc)]
      BY <1>1, <2>1 DEF WriteLands
    <3>2. After(job[p].pc) \in {"decide", "refused", "committed", "resumed"}
      BY <1>1 DEF After, Queued
    <3> QED
      BY <3>1, <3>2
  <2>2. CASE WriteFails(s)
    BY <2>2 DEF WriteFails
  <2> QED
    BY <2>1, <2>2
<1>5. Queued \subseteq Spending /\ Spending \subseteq Active
  BY DEF Queued, Spending, Active
<1> HIDE DEF p
<1>6. CalmMove(p)
  <2>1. ASSUME NEW c \in {"decide", "refused", "committed", "resumed"}, job' = [job EXCEPT ![p].pc = c]
        PROVE  CalmMove(p)
    BY <1>1, <1>5, <2>1 DEF CalmMove, JobType, Queued
  <2>2. CASE Reply(p, "refused")
    BY <1>1, <1>5, <2>2 DEF CalmMove, JobType, Queued, Reply
  <2>3. CASE p = Scanner /\ job' = [job EXCEPT ![p] = Idle]
    BY <1>1, <2>3 DEF CalmMove
  <2> QED
    BY <1>4, <2>1, <2>2, <2>3
<1> QED
  BY <1>1, <1>2, <1>3, <1>6 DEF Calm

(* Readers, the scan, a reentrant request, a session that could not be created. *)
LEMMA CalmOthers ==
  ASSUME Inv, UNCHANGED setting,
         \/ \E s \in Sessions : CreateFails(s) \/ Reentry(s)
         \/ \E x \in Readers : (\E s \in Sessions : Hydrate(x, s)) \/ Settle(x) \/ Register(x)
         \/ ScanStep
  PROVE  Calm
<1> USE DEF memory
<1>1. /\ job \in [Procs -> JobType] /\ Scanner \in Procs \ Requests
      /\ \A x \in Readers : x \in Procs \ Requests
  BY ProcsAssumption DEF Inv, TypeOK, JobType, Procs
<1>2. \A p \in Procs \ Requests : (\A q \in Procs \ {p} : job'[q] = job[q]) => CalmMove(p)
  BY DEF CalmMove
<1>3. UNCHANGED <<budget, store, events>> /\ (UNCHANGED job \/ \E p \in Procs : CalmMove(p)) => Calm
  BY DEF Calm, Ends
<1>4. ASSUME NEW s \in Sessions, CreateFails(s)
      PROVE  Calm
  BY <1>3, <1>4 DEF CreateFails
<1>5. ASSUME NEW s \in Sessions, Reentry(s)
      PROVE  Calm
  <2> DEFINE new == <<Event("SessionEnd", "HookReentrancy")>>
  <2>1. Event("SessionEnd", "HookReentrancy") \in EventType /\ Event("SessionEnd", "HookReentrancy") # Spent
    BY DEF Event, EventType, EventTypes, Causes, Spent
  <2>2. new \in Seq(EventType) /\ \A j \in DOMAIN new : new[j] # Spent
    BY <2>1
  <2>3. \A t \in Sessions : Ends(t)' = Ends(t)
    BY <1>5, <2>2, EndsStay DEF Reentry, Inv
  <2> QED
    BY <1>5, <2>3 DEF Calm, Reentry, Revoke, Inv, TypeOK
<1>6. ASSUME NEW x \in Readers, NEW s \in Sessions, Hydrate(x, s)
      PROVE  Calm
  BY <1>1, <1>2, <1>3, <1>6 DEF Hydrate
<1>7. ASSUME NEW p \in Procs \ Requests, Settle(p)
      PROVE  Calm
  BY <1>1, <1>2, <1>3, <1>7 DEF Settle
<1>8. ASSUME NEW x \in Readers, Register(x)
      PROVE  Calm
  <2>1. CalmMove(x)
    BY <1>1, <1>2, <1>8 DEF Register, Reply
  <2>2. /\ UNCHANGED <<budget, events>>
        /\ \A s \in Sessions : store'[s] = store[s] \/ ~store'[s].canDecide
    BY <1>8 DEF Register, Inv, TypeOK
  <2> QED
    BY <1>1, <2>1, <2>2 DEF Calm, Ends
<1>9. CASE ScanResumed
  <2> DEFINE new == IF scan.open THEN <<Event("CrashEvent", Scanner)>> ELSE <<>>
  <2>1. Event("CrashEvent", Scanner) \in EventType /\ Event("CrashEvent", Scanner) # Spent
    BY <1>1 DEF Event, EventType, EventTypes, Causes, Spent
  <2>2. new \in Seq(EventType) /\ \A j \in DOMAIN new : new[j] # Spent
    BY <2>1
  <2>3. job[Scanner].sid \in Sessions
    BY <1>1, <1>9, PcFacts DEF ScanResumed, Inv, Traceless, TypeOK
  <2>4. \A t \in Sessions : Ends(t)' = Ends(t)
    BY <1>9, <2>2, <2>3, EndsStay DEF ScanResumed, Inv
  <2>5. CalmMove(Scanner)
    BY <1>1, <1>2, <1>9 DEF ScanResumed
  <2> QED
    BY <1>1, <1>9, <2>4, <2>5 DEF Calm, ScanResumed
<1>10. ASSUME NEW s \in Sessions, ScanNext(s)
       PROVE  Calm
  BY <1>1, <1>2, <1>3, <1>10 DEF ScanNext
<1>11. CASE ScanList
  BY <1>3, <1>11 DEF ScanList
<1>12. CASE ScanDone
  BY <1>3, <1>12 DEF ScanDone
<1> QED
  BY <1>1, <1>4, <1>5, <1>6, <1>7, <1>8, <1>9, <1>10, <1>11, <1>12 DEF ScanStep

(* A request that is refused as it arrives. *)
LEMMA CalmRefusal ==
  ASSUME Inv, UNCHANGED setting, NEW r \in Requests, NEW s \in Sessions,
         NEW sh \in Cfg.shapes, NEW k \in Keys \cup {r}, RefuseResidency(r, s, k, sh)
  PROVE  Calm
<1>1. r \in Procs /\ job \in [Procs -> JobType] /\ "refused" \in {"idle"} \cup Active \cup Final
  BY PcFacts DEF Procs, Inv, TypeOK, JobType
<1>2. /\ job[r].pc = "idle" /\ job' = [job EXCEPT ![r] = Arrived(s, k, sh, "refused")]
      /\ UNCHANGED <<budget, store, events>>
  BY DEF RefuseResidency, Admitted
<1>3. Arrived(s, k, sh, "refused").pc = "refused"
  BY <1>1, ArrivedType
<1>4. CalmMove(r)
  BY <1>1, <1>2, <1>3, PcFacts DEF CalmMove, Spending
<1> QED
  BY <1>1, <1>2, <1>4 DEF Calm, Ends

LEMMA CreateSessionKeepsLedger ==
  ASSUME Inv, Ledger, NEW s \in Sessions, CreateSession(s), UNCHANGED setting
  PROVE  Ledger'
<1> SUFFICES ASSUME Cfg.serial
             PROVE  (Solo /\ Funded /\ Once /\ Counted /\ Room)'
  BY DEF Ledger, Cfg
<1> DEFINE start == Event("SessionStart", None)
           end == Event("SessionEnd", "MemoryDegraded")
           new == <<start>> \o (IF Cfg.memoryFails THEN <<end>> ELSE <<>>)
<1>1. /\ s \notin born /\ Emit(s, new) /\ UNCHANGED <<setting, job>>
      /\ budget' = [budget EXCEPT ![s] = 0] /\ \A t \in Sessions \ {s} : store'[t] = store[t]
  BY DEF CreateSession, Inv, TypeOK
<1>2. Solo /\ Funded /\ Once /\ Counted /\ Room /\ Cfg' = Cfg
  BY <1>1 DEF Ledger, Cfg
<1>3. /\ budget'[s] = 0 /\ budget'[s] # None
      /\ \A t \in Sessions \ {s} : budget'[t] = budget[t]
  BY <1>1, NothingAssumption DEF Inv, TypeOK
<1>4. \A r \in Requests : job[r].pc # "idle" => job[r].sid # s
  BY <1>1 DEF Inv, Traceless, Procs
<1>5. "idle" \notin Active \cup Spending
  BY PcFacts DEF Spending
<1>6. \A t \in Sessions : t # s => Ends(t)' = Ends(t)
  BY <1>1 DEF Emit, Ends, Inv, Evented
<1>7. Ends(s)' = {}
  <2>1. start \in EventType /\ end \in EventType /\ start # Spent /\ end # Spent
    BY DEF Event, EventType, EventTypes, Causes, Spent
  <2> HIDE DEF start, end
  <2>2. new \in Seq(EventType) /\ \A j \in DOMAIN new : new[j] # Spent
    BY <2>1
  <2>3. Ends(s) = {}
    BY <1>1 DEF Ends, Inv, Traceless
  <2> HIDE DEF new
  <2> QED
    BY <1>1, <2>2, <2>3, EndsStay DEF Inv
<1>8. Solo' /\ Room'
  <2>1. ASSUME NEW r \in Requests, job[r].pc \in Spending
        PROVE  budget'[job[r].sid] = budget[job[r].sid]
    <3>1. job[r].sid \in Sessions /\ job[r].sid # s
      BY <1>4, <1>5, <2>1 DEF Inv, Traceless, Procs, TypeOK
    <3> QED
      BY <1>3, <3>1
  <2> QED
    BY <1>1, <1>2, <2>1 DEF Solo, Room
<1>9. Funded'
  BY <1>1, <1>2, <1>3 DEF Funded
<1>10. Once'
  BY <1>2, <1>3, <1>6, <1>7 DEF Once
<1>11. Counted'
  <2>1. \A t \in Sessions : Turned(t)' = Turned(t)
    BY <1>1 DEF Turned
  <2>2. Turned(s) = {}
    BY <1>4 DEF Turned
  <2> QED
    BY <1>2, <1>3, <2>1, <2>2, FS_EmptySet DEF Counted
<1> QED
  BY <1>8, <1>9, <1>10, <1>11

(* The numbers of a setting. *)
LEMMA CfgNumbers ==
  ASSUME Inv
  PROVE  /\ Cfg.turnTokens \in Nat /\ Cfg.maxTokens \in Nat /\ Cfg.coldStart \in Nat
         /\ Cfg.warmTurn \in Nat /\ Cfg.minSamples \in Nat
         /\ ProjectionCovers => Cfg.turnTokens <= Cfg.coldStart /\ Cfg.turnTokens <= Cfg.warmTurn
  BY SettingsAssumption DEF Inv, Cfg, SettingType, ProjectionCovers

LEMMA ArriveKeepsLedger ==
  ASSUME Inv, Ledger, ProjectionCovers, UNCHANGED setting, NEW r \in Requests, NEW s \in Sessions,
         NEW sh \in Cfg.shapes, NEW k \in Keys \cup {r}, Arrive(r, s, k, sh)
  PROVE  Ledger'
<1> SUFFICES ASSUME Cfg.serial
             PROVE  (Solo /\ Funded /\ Once /\ Counted /\ Room)'
  BY DEF Ledger, Cfg
<1> DEFINE c == IF Cfg.preHook THEN "prehook" ELSE "load"
<1>1. Solo /\ Funded /\ Once /\ Counted /\ Room /\ Cfg' = Cfg
  BY DEF Ledger, Cfg
<1>2. /\ Admitted(r, s) /\ (budget[s] # None => ~WouldExhaust(budget[s]))
      /\ UNCHANGED <<budget, store, events>>
      /\ job' = [job EXCEPT ![r] = Arrived(s, k, sh, c)]
  BY DEF Arrive
<1>3. /\ c \in Spending /\ c \in {"idle"} \cup Active \cup Final
      /\ c \notin {"posthook", "accepted"} /\ "idle" \notin {"posthook", "accepted"}
  BY DEF Spending, Active, Awaiting
<1>4. Arrived(s, k, sh, c).pc = c /\ Arrived(s, k, sh, c).sid = s
  BY <1>3, ArrivedType
<1> HIDE DEF c
<1>5. /\ job'[r].pc = c /\ job'[r].sid = s /\ job[r].pc = "idle"
      /\ \A q \in Requests \ {r} : job'[q] = job[q]
      /\ \A q \in Requests : job[q].sid = s => job[q].pc \notin Active
  BY <1>2, <1>4 DEF Admitted, Inv, TypeOK, Procs
<1>6. budget[s] # None /\ budget[s] \in Nat
  BY <1>1, <1>2 DEF Funded, Admitted, Inv, TypeOK
<1>7. (budget[s] + 1) * Cfg.turnTokens <= Cfg.maxTokens
  <2>1. PICK p \in Nat : /\ budget[s] * Cfg.turnTokens + p <= Cfg.maxTokens
                         /\ Cfg.turnTokens <= p
    <3> DEFINE proj == IF budget[s] < Cfg.minSamples THEN Cfg.coldStart ELSE Cfg.warmTurn
    <3>1. proj \in Nat /\ Cfg.turnTokens <= proj
      BY CfgNumbers
    <3>2. ~(budget[s] * Cfg.turnTokens + proj > Cfg.maxTokens)
      BY <1>2, <1>6 DEF WouldExhaust
    <3> HIDE DEF proj
    <3>3. budget[s] * Cfg.turnTokens + proj <= Cfg.maxTokens
      BY <1>6, <3>1, <3>2, CfgNumbers
    <3> QED
      BY <3>1, <3>3
  <2>2. (budget[s] + 1) * Cfg.turnTokens = budget[s] * Cfg.turnTokens + Cfg.turnTokens
    BY <1>6, CfgNumbers
  <2>3. budget[s] * Cfg.turnTokens \in Nat
    BY <1>6, CfgNumbers
  <2> QED
    BY <2>1, <2>2, <2>3, CfgNumbers
<1>8. Spending \subseteq Active /\ "idle" \notin Active
  BY PcFacts DEF Spending
<1>9. Solo'
  BY <1>1, <1>5 DEF Solo
<1>10. Funded'
  BY <1>1, <1>2, <1>5, <1>6 DEF Funded
<1>11. Once'
  BY <1>1, <1>2 DEF Once, Ends
<1>12. Counted'
  <2>1. \A t \in Sessions : Turned(t)' = Turned(t)
    BY <1>3, <1>5 DEF Turned
  <2> QED
    BY <1>1, <1>2, <2>1 DEF Counted
<1>13. Room'
  BY <1>1, <1>2, <1>5, <1>7 DEF Room
<1> QED
  BY <1>9, <1>10, <1>11, <1>12, <1>13

LEMMA RefuseExhaustedKeepsLedger ==
  ASSUME Inv, Ledger, UNCHANGED setting, NEW r \in Requests, NEW s \in Sessions,
         NEW sh \in Cfg.shapes, NEW k \in Keys \cup {r}, RefuseExhausted(r, s, k, sh)
  PROVE  Ledger'
<1> SUFFICES ASSUME Cfg.serial
             PROVE  (Solo /\ Funded /\ Once /\ Counted /\ Room)'
  BY DEF Ledger, Cfg
<1>1. Solo /\ Funded /\ Once /\ Counted /\ Room /\ Cfg' = Cfg
  BY DEF Ledger, Cfg
<1>2. /\ Admitted(r, s) /\ budget[s] # None
      /\ store' = [store EXCEPT ![s] = None] /\ budget' = [budget EXCEPT ![s] = None]
      /\ Emit(s, <<Spent>>) /\ job' = [job EXCEPT ![r] = Arrived(s, k, sh, "refused")]
  BY DEF RefuseExhausted, Revoke, Spent
<1>3. /\ "refused" \in {"idle"} \cup Active \cup Final /\ "refused" \notin Active
      /\ {"refused", "idle"} \cap {"posthook", "accepted"} = {}
      /\ Spending \subseteq Active
  BY PcFacts DEF Spending
<1>4. Arrived(s, k, sh, "refused").pc = "refused"
  BY <1>3, ArrivedType
<1>5. /\ job'[r].pc = "refused" /\ job[r].pc = "idle"
      /\ \A q \in Requests \ {r} : job'[q] = job[q]
      /\ \A q \in Requests : job[q].sid = s => job[q].pc \notin Active
  BY <1>2, <1>4 DEF Admitted, Inv, TypeOK, Procs
<1>6. /\ budget'[s] = None /\ \A t \in Sessions \ {s} : budget'[t] = budget[t]
      /\ store'[s] = None /\ \A t \in Sessions \ {s} : store'[t] = store[t]
  BY <1>2 DEF Inv, TypeOK
<1>7. Solo'
  BY <1>1, <1>3, <1>5 DEF Solo
<1>8. Funded'
  BY <1>1, <1>3, <1>5, <1>6 DEF Funded
<1>9. Once'
  <2>1. Spent \in EventType
    BY DEF Spent, Event, EventType, EventTypes, Causes
  <2>2. <<Spent>> \in Seq(EventType) /\ \A j \in DOMAIN <<Spent>> : j = 1
    BY <2>1
  <2>3. Ends(s) = {}
    BY <1>1, <1>2 DEF Once
  <2>4. \E i \in Nat : Ends(s)' \subseteq {i}
    BY <1>2, <2>2, <2>3, EndsHere DEF Inv
  <2>5. \A t \in Sessions : t # s => Ends(t)' = Ends(t)
    BY <1>2, <2>2, EndsAfter DEF Inv
  <2> QED
    BY <1>1, <1>6, <2>4, <2>5 DEF Once
<1>10. Counted'
  <2>1. \A t \in Sessions : Turned(t)' = Turned(t)
    BY <1>3, <1>5 DEF Turned
  <2> QED
    BY <1>1, <1>6, <2>1 DEF Counted
<1>11. Room'
  <2> SUFFICES ASSUME NEW q \in Requests, job'[q].pc \in Spending
               PROVE  (budget'[job'[q].sid] + 1) * Cfg.turnTokens <= Cfg.maxTokens
    BY <1>1 DEF Room
  <2>1. q # r /\ job'[q] = job[q] /\ job[q].sid # s
    BY <1>3, <1>5
  <2>2. job[q].sid \in Sessions
    BY <1>3, <2>1, PcFacts DEF Inv, Traceless, TypeOK, Procs
  <2> QED
    BY <1>1, <1>6, <2>1, <2>2 DEF Room
<1> QED
  BY <1>7, <1>8, <1>9, <1>10, <1>11

LEMMA FinishKeepsLedger ==
  ASSUME Inv, Ledger, UNCHANGED setting, NEW r \in Requests, Finish(r)
  PROVE  Ledger'
<1> SUFFICES ASSUME Cfg.serial
             PROVE  (Solo /\ Funded /\ Once /\ Counted /\ Room)'
  BY DEF Ledger, Cfg
<1>0. PICK s \in Sessions : job[r].sid = s
  BY PcFacts DEF Inv, Traceless, TypeOK, Finish, Procs
<1> DEFINE n == budget[s]
           spent == Turns(s) * Cfg.turnTokens >= Cfg.maxTokens
           decided == Event("PermissionDecision", r)
           hooked == Event("PreToolUseOutcome", r)
           over == IF spent THEN <<Spent>> ELSE <<>>
           hook == IF Cfg.preHook THEN <<hooked>> ELSE <<>>
           new == over \o <<decided>> \o hook
<1>1. Solo /\ Funded /\ Once /\ Counted /\ Room /\ Cfg' = Cfg
  BY DEF Ledger, Cfg
<1>2. /\ job[r].pc = "committed" /\ r \in Procs /\ job \in [Procs -> JobType]
      /\ "committed" \in Spending /\ Spending \subseteq Active
      /\ Spending \cap {"posthook", "accepted"} = {} /\ "accepted" \notin Active
  BY DEF Finish, Procs, Inv, TypeOK, JobType, Spending, Active, Awaiting, Queued
<1>3. n # None /\ n \in Nat
  BY <1>0, <1>1, <1>2 DEF Funded, Inv, TypeOK
<1>4. /\ budget' = [budget EXCEPT ![s] = IF spent THEN None ELSE n + 1]
      /\ store' = [store EXCEPT ![s] = IF spent THEN None ELSE @]
      /\ Emit(s, new)
  BY <1>0, <1>3 DEF Finish, Turns, Spent
<1>5. /\ job'[r].pc \in {"posthook", "accepted"} /\ job'[r].sid = s
      /\ \A q \in Requests \ {r} : job'[q] = job[q]
      /\ \A q \in Requests \ {r} : job[q].sid = s => job[q].pc \notin Active
  BY <1>0, <1>1, <1>2 DEF Finish, Solo, JobType, Procs
<1>6. /\ (spent /\ budget'[s] = None /\ store'[s] = None) \/ (~spent /\ budget'[s] = n + 1)
      /\ \A t \in Sessions \ {s} : budget'[t] = budget[t] /\ store'[t] = store[t]
  BY <1>3, <1>4 DEF Inv, TypeOK
<1>7. n + 1 # None
  BY <1>3, NothingAssumption
<1>8. Solo'
  <2> SUFFICES ASSUME NEW q1 \in Requests, NEW q2 \in Requests, job'[q1].pc \in Active,
                      job'[q2].pc \in Active, job'[q1].sid = job'[q2].sid
               PROVE  q1 = q2
    BY DEF Solo
  <2> QED
    BY <1>1, <1>5 DEF Solo
<1>9. Funded'
  <2> SUFFICES ASSUME NEW t \in Sessions,
                      \/ store'[t] # None /\ store'[t].canDecide
                      \/ \E q \in Requests : job'[q].sid = t /\ job'[q].pc \in Spending
               PROVE  budget'[t] # None
    BY DEF Funded
  <2>1. CASE t # s
    <3>1. \A q \in Requests : job'[q].sid = t => q # r
      BY <1>5, <2>1
    <3> QED
      BY <1>1, <1>5, <1>6, <2>1, <3>1 DEF Funded
  <2>2. CASE t = s
    <3>1. ~\E q \in Requests : job'[q].sid = s /\ job'[q].pc \in Spending
      BY <1>2, <1>5
    <3> QED
      BY <1>6, <1>7, <2>2, <3>1
  <2> QED
    BY <2>1, <2>2
<1>10. Once'
  <2>1. /\ Spent \in EventType /\ decided \in EventType /\ hooked \in EventType
        /\ decided # Spent /\ hooked # Spent
    BY <1>2 DEF Spent, Event, EventType, EventTypes, Causes
  <2> HIDE DEF decided, hooked, spent
  <2>2. /\ new \in Seq(EventType)
        /\ \A j \in DOMAIN new : new[j] = Spent => j = 1
        /\ ~spent => \A j \in DOMAIN new : new[j] # Spent
    <3>1. over \in Seq(EventType) /\ hook \in Seq(EventType) /\ Len(over) \in {0, 1}
      BY <2>1
    <3>2. CASE spent
      BY <2>1, <3>2
    <3>3. CASE ~spent
      BY <2>1, <3>3
    <3> QED
      BY <3>2, <3>3
  <2>3. Ends(s) = {}
    BY <1>1, <1>3 DEF Once
  <2> HIDE DEF new
  <2>4. (\E i \in Nat : Ends(s)' \subseteq {i}) /\ (~spent => Ends(s)' = {})
    BY <1>3, <1>4, <2>2, <2>3, EndsHere DEF Inv
  <2>6. \A t \in Sessions : t # s => Ends(t)' = Ends(t)
    BY <1>3, <1>4, <2>2, EndsAfter DEF Inv
  <2> QED
    BY <1>1, <1>6, <2>4, <2>6 DEF Once
<1>11. Counted'
  <2>1. \A t \in Sessions : t # s => Turned(t)' = Turned(t)
    BY <1>2, <1>5 DEF Turned
  <2>2. Turned(s)' = Turned(s) \cup {r} /\ r \notin Turned(s)
    BY <1>0, <1>2, <1>5 DEF Turned
  <2>3. IsFiniteSet(Turned(s)) /\ Cardinality(Turned(s)) = n
    BY <1>1, <1>3 DEF Counted
  <2>4. IsFiniteSet(Turned(s)') /\ Cardinality(Turned(s)') = n + 1
    BY <2>2, <2>3, FS_AddElement
  <2>5. (n + 1) * Cfg.turnTokens <= Cfg.maxTokens
    BY <1>0, <1>1, <1>2 DEF Room
  <2> HIDE DEF n, spent, new
  <2>6. /\ IsFiniteSet(Turned(s)') /\ Cardinality(Turned(s)') * Cfg'.turnTokens <= Cfg'.maxTokens
        /\ budget'[s] # None => Cardinality(Turned(s)') = budget'[s]
    BY <1>1, <1>6, <2>4, <2>5
  <2>7. \A t \in Sessions : t # s =>
          /\ IsFiniteSet(Turned(t)') /\ Cardinality(Turned(t)') * Cfg'.turnTokens <= Cfg'.maxTokens
          /\ budget'[t] # None => Cardinality(Turned(t)') = budget'[t]
    BY <1>1, <1>6, <2>1 DEF Counted
  <2> QED
    BY <2>6, <2>7 DEF Counted
<1>12. Room'
  <2> SUFFICES ASSUME NEW q \in Requests, job'[q].pc \in Spending
               PROVE  (budget'[job'[q].sid] + 1) * Cfg.turnTokens <= Cfg.maxTokens
    BY <1>1 DEF Room
  <2>1. q # r /\ job'[q] = job[q] /\ job[q].sid # s
    BY <1>2, <1>5
  <2>2. job[q].sid \in Sessions
    BY <1>2, <2>1, PcFacts DEF Inv, Traceless, TypeOK, Procs
  <2> QED
    BY <1>1, <1>6, <2>1, <2>2 DEF Room
<1> QED
  BY <1>8, <1>9, <1>10, <1>11, <1>12

LEMMA CrashKeepsLedger ==
  ASSUME Inv, Ledger, UNCHANGED setting, Crash
  PROVE  Ledger'
<1> SUFFICES ASSUME Cfg.serial
             PROVE  (Solo /\ Funded /\ Once /\ Counted /\ Room)'
  BY DEF Ledger, Cfg
<1>1. Solo /\ Funded /\ Once /\ Counted /\ Room /\ Cfg' = Cfg
  BY DEF Ledger, Cfg
<1>2. /\ \A s \in Sessions : store'[s] = None /\ budget'[s] = None /\ events'[s] = <<>>
      /\ \A r \in Requests : job'[r].pc \notin Active
      /\ \A r \in Requests : job'[r].pc \in {"posthook", "accepted"} =>
           job[r].pc \in {"posthook", "accepted"} /\ job'[r].sid = job[r].sid
  <2>1. /\ job \in [Procs -> JobType] /\ \A r \in Requests : r \in Procs /\ r # Scanner
    BY ProcsAssumption DEF Inv, TypeOK, JobType, Procs
  <2>2. {"lost", "idle"} \cap (Active \cup {"posthook", "accepted"}) = {}
    BY DEF Active, Awaiting, Queued
  <2>3. \A r \in Requests :
          job'[r] = IF job[r].pc \in Active THEN [job[r] EXCEPT !.pc = "lost", !.rows = <<>>] ELSE job[r]
    BY <2>1 DEF Crash
  <2>4. \A r \in Requests : [job[r] EXCEPT !.pc = "lost", !.rows = <<>>].pc = "lost"
    BY <2>1 DEF JobType
  <2>5. \A s \in Sessions : store'[s] = None /\ budget'[s] = None /\ events'[s] = <<>>
    BY DEF Crash
  <2>6. \A r \in Requests : /\ job'[r].pc \notin Active
                            /\ job'[r].pc \in {"posthook", "accepted"} => job'[r] = job[r]
    BY <2>2, <2>3, <2>4
  <2> QED
    BY <2>5, <2>6
<1>3. Spending \subseteq Active
  BY DEF Spending
<1>4. Solo' /\ Funded' /\ Room'
  BY <1>2, <1>3 DEF Solo, Funded, Room
<1>5. Once'
  BY <1>2 DEF Once, Ends
<1>6. Counted'
  <2>1. ASSUME NEW s \in Sessions
        PROVE  /\ IsFiniteSet(Turned(s)')
               /\ Cardinality(Turned(s)') * Cfg.turnTokens <= Cfg.maxTokens
    <3> DEFINE m == Cardinality(Turned(s)')
               n == Cardinality(Turned(s))
    <3>1. Turned(s)' \subseteq Turned(s)
      BY <1>2 DEF Turned
    <3>2. IsFiniteSet(Turned(s)') /\ m \in Nat /\ n \in Nat /\ m <= n
      BY <1>1, <3>1, FS_Subset, FS_CardinalityType DEF Counted
    <3>3. n * Cfg.turnTokens <= Cfg.maxTokens
      BY <1>1 DEF Counted
    <3> HIDE DEF m, n
    <3>4. PICK d \in Nat : n = m + d
      <4>1. n - m \in Nat /\ n = m + (n - m)
        BY <3>2
      <4> QED
        BY <4>1
    <3>5. n * Cfg.turnTokens = m * Cfg.turnTokens + d * Cfg.turnTokens
      BY <3>2, <3>4, CfgNumbers
    <3>6. m * Cfg.turnTokens \in Nat /\ d * Cfg.turnTokens \in Nat
      BY <3>2, <3>4, CfgNumbers
    <3>7. m * Cfg.turnTokens <= Cfg.maxTokens
      BY <3>3, <3>5, <3>6, CfgNumbers
    <3> QED
      BY <3>2, <3>7 DEF m
  <2> QED
    BY <1>1, <1>2, <2>1 DEF Counted
<1> QED
  BY <1>4, <1>5, <1>6

LEMMA NextLedger ==
  ASSUME Inv, Ledger, ProjectionCovers, [Next]_vars
  PROVE  Ledger'
<1>1. CASE UNCHANGED vars
  <2>1. Calm
    BY <1>1 DEF vars, memory, Calm, Ends
  <2> QED
    BY <2>1, CalmKeepsLedger
<1>2. CASE Next
  <2>1. UNCHANGED setting /\ Step
    BY <1>2 DEF Next
  <2>2. ASSUME NEW s \in Sessions, CreateSession(s)
        PROVE  Ledger'
    BY <2>1, <2>2, CreateSessionKeepsLedger
  <2>3. ASSUME NEW r \in Requests, NEW s \in Sessions, NEW sh \in Cfg.shapes, NEW k \in Keys \cup {r},
               RefuseResidency(r, s, k, sh) \/ RefuseExhausted(r, s, k, sh) \/ Arrive(r, s, k, sh)
        PROVE  Ledger'
    BY <2>1, <2>3, CalmRefusal, CalmKeepsLedger, RefuseExhaustedKeepsLedger, ArriveKeepsLedger
  <2>4. ASSUME NEW r \in Requests, Progress(r) \/ LoadFails(r) \/ SinkFails(r)
        PROVE  Ledger'
    BY <2>1, <2>4, FinishKeepsLedger, CalmRequest, CalmKeepsLedger
  <2>5. ASSUME \/ \E s \in Sessions : CreateFails(s) \/ Reentry(s)
               \/ \E x \in Readers : (\E s \in Sessions : Hydrate(x, s)) \/ Settle(x) \/ Register(x)
               \/ ScanStep
        PROVE  Ledger'
    BY <2>1, <2>5, CalmOthers, CalmKeepsLedger
  <2>6. ASSUME NEW s \in Sessions, WriteLands(s) \/ WriteFails(s)
        PROVE  Ledger'
    BY <2>1, <2>6, CalmWrite, CalmKeepsLedger
  <2>7. CASE Crash
    BY <2>1, <2>7, CrashKeepsLedger
  <2> QED
    BY <2>1, <2>2, <2>3, <2>4, <2>5, <2>6, <2>7 DEF Step
<1> QED
  BY <1>1, <1>2

(* decisions-route.ts 521-527 and 1350-1355: a session ends for good; with one request in
   flight it ends once, and its committed turns never exceed maxTokensPerRun when the
   projection covers a turn. *)
THEOREM SessionLives == ProjectionCovers => (Spec => []SessionInv)
<1> SUFFICES ASSUME ProjectionCovers
             PROVE  Spec => []SessionInv
  OBVIOUS
<1>1. Init => Ledger
  <2> SUFFICES ASSUME Init
               PROVE  Ledger
    OBVIOUS
  <2>1. /\ \A r \in Requests : job[r].pc = "idle"
        /\ \A s \in Sessions : store[s] = None /\ budget[s] = None /\ events[s] = <<>>
    BY DEF Init, Idle, Procs
  <2>2. "idle" \notin Active \cup Spending
    BY PcFacts DEF Spending
  <2>3. Solo /\ Funded /\ Room
    BY <2>1, <2>2 DEF Solo, Funded, Room
  <2>5. Once
    <3>1. \A s \in Sessions : Ends(s) = {} /\ budget[s] = None
      BY <2>1 DEF Ends
    <3> QED
      BY <3>1 DEF Once
  <2>4. Counted
    <3>1. \A s \in Sessions : Turned(s) = {}
      BY <2>1 DEF Turned
    <3>2. 0 * Cfg.turnTokens = 0 /\ 0 <= Cfg.maxTokens
      BY InitInv, CfgNumbers
    <3> QED
      BY <2>1, <3>1, <3>2, FS_EmptySet DEF Counted
  <2> QED
    BY <2>3, <2>4, <2>5 DEF Ledger
<1>2. Inv /\ Ledger => SessionInv
  <2> SUFFICES ASSUME Inv, Ledger
               PROVE  SessionInv
    OBVIOUS
  <2>1. EndedOnce
    <3> SUFFICES ASSUME Careful, NEW s \in Sessions
                 PROVE  Cardinality(Ends(s)) <= 1
      BY DEF EndedOnce
    <3>1. PICK i : Ends(s) \subseteq {i}
      BY DEF Ledger, Careful, Once
    <3>2. IsFiniteSet({i}) /\ Cardinality({i}) = 1
      BY FS_Singleton
    <3> QED
      BY <3>1, <3>2, FS_Subset
  <2>2. NoOverrun
    BY DEF NoOverrun, Careful, Ledger, Counted
  <2> QED
    BY <2>1, <2>2 DEF SessionInv, Inv
<1>3. Inv /\ Ledger /\ [Next]_vars => Ledger'
  BY NextLedger
<1> QED
  BY <1>1, <1>2, <1>3, Inductive, PTL DEF Spec
-----------------------------------------------------------------------------
(* The row of request r when its decision is made. *)
Recorded(r) == [key |-> job[r].key, phase |-> "committed", aud |-> r]

Waiting(r) == job[r].pc \in {"prehook", "load"}

(* What the handler knows of its own row and of where it stands. *)
Tracked ==
  /\ errors \in Nat
  /\ scan.pc = "done" => job[Scanner].pc = "idle"
  /\ \A r \in Requests :
       /\ Waiting(r) => job[r].idx = 0
       /\ job[r].pc = "prehook" => Cfg.preHook
       /\ job[r].pc \in Undecided => job[r].rows[job[r].idx].phase = "pending"
       /\ job[r].pc = "compensating" => job[r].rows[job[r].idx].phase = "compensated"
       /\ job[r].pc = "committing" => job[r].rows[job[r].idx] = Recorded(r)
  /\ \A s \in Sessions : \A i \in DOMAIN events[s] :
       LET r == events[s][i].by IN
       events[s][i].type = "PermissionDecision" =>
         r \in Requests /\ job[r].sid = s /\ job[r].pc \in {"posthook", "accepted"}

(* A process in one of these places holds a copy of the file that it will write. *)
Copying == Bracketing \cup {"settling", "resuming"}

(* The versions of the rows of s: what the file holds, and what it may come to hold. *)
Versions(s) ==
  {Rows(s)} \cup {job[p].rows : p \in {q \in Procs : job[q].sid = s /\ job[q].pc \in Copying}}

OpenTo(s) == store[s] # None /\ store[s].canDecide

(* Some request may still be answered from the rows of s. *)
Consulted(s) == OpenTo(s) \/ \E r \in Requests : job[r].sid = s /\ Waiting(r)

(* While a session decides, neither a hydrating reader nor the boot scan works on its file. *)
Quiet ==
  \A s \in Sessions : OpenTo(s) =>
    /\ scan.pc = "done"
    /\ \A p \in Procs \ Requests : job[p].sid = s => job[p].pc \notin Active

(* Whatever copy of the file lands before a request reads it, the request finds its key or
   does not. *)
Agreeing ==
  \A s \in Sessions : \A r \in Requests : job[r].sid = s /\ Waiting(r) =>
    \A v, w \in Versions(s) : CacheHits(v, job[r].key) # {} => CacheHits(w, job[r].key) # {}

(* A request answered, or about to be, has its key in every version of the file. *)
Remembered ==
  \A s \in Sessions : Consulted(s) =>
    \A q \in Requests : job[q].sid = s /\ job[q].pc \in Answered \cup {"committed", "posthook"} =>
      \A v \in Versions(s) : CacheHits(v, job[q].key) # {}

(* A resubmitted request is still one, and opens no bracket. *)
Resubmitted ==
  \A r \in Requests : job[r].again =>
    /\ Waiting(r) => \E q \in Requests : /\ job[q].sid = job[r].sid /\ job[q].key = job[r].key
                                         /\ job[q].pc \in Answered
    /\ job[r].pc \notin Undecided

(* Without a PreToolUse hook nothing revokes a session under a request. *)
Attended ==
  \A s \in Sessions : \A r \in Requests : job[r].sid = s /\ job[r].pc \in Spending => OpenTo(s)

(* Every version holds the committed row of a decision ... *)
Kept ==
  \A s \in Sessions : \A r \in Requests :
    job[r].sid = s /\ job[r].pc \in {"committed", "posthook", "accepted"} =>
      \A v \in Versions(s) : job[r].idx \in DOMAIN v /\ v[job[r].idx] = Recorded(r)

(* ... and the compensated row of a refusal. *)
Withdrawn ==
  Cfg.pda /\ errors = 0 => \A s \in Sessions : \A r \in Requests :
    job[r].sid = s /\ job[r].pc = "refused" /\ job[r].idx # 0 /\ job[r].shape.pda # "unusable" =>
      \A v \in Versions(s) : job[r].idx \in DOMAIN v /\ v[job[r].idx].phase = "compensated"

(* Careful clients: what the file of a session remembers, and of which requests. *)
Remembering ==
  /\ Tracked
  /\ Careful => Solo /\ Quiet /\ Agreeing /\ Remembered /\ Resubmitted
  /\ Careful /\ ~Cfg.preHook => Attended /\ Kept /\ Withdrawn
-----------------------------------------------------------------------------
(* A later version keeps the rows that an earlier one has settled. *)
Extends(v, w) ==
  /\ DOMAIN v \subseteq DOMAIN w
  /\ \A i \in DOMAIN v : v[i].phase \in {"committed", "compensated"} => w[i] = v[i]

(* It answers no key that the earlier one does not. *)
NoNewHits(v, w) == \A k \in Keys \cup Requests : CacheHits(w, k) \subseteq CacheHits(v, k)

LEMMA HitsStay ==
  ASSUME NEW v, NEW w, Extends(v, w), NEW k
  PROVE  CacheHits(v, k) \subseteq CacheHits(w, k)
  BY DEF Extends, CacheHits

LEMMA AppendExtends ==
  ASSUME NEW v \in Seq(RowType), NEW key \in Keys \cup Requests
  PROVE  Extends(v, Append(v, PendingRow(key))) /\ NoNewHits(v, Append(v, PendingRow(key)))
<1> DEFINE new == PendingRow(key)
<1>1. new \in RowType /\ new.phase = "pending"
  BY DEF PendingRow, RowType, Phases
<1> HIDE DEF new
<1>2. /\ DOMAIN v \subseteq DOMAIN Append(v, new) /\ \A i \in DOMAIN v : Append(v, new)[i] = v[i]
      /\ \A i \in DOMAIN Append(v, new) : i \in DOMAIN v \/ Append(v, new)[i] = new
  BY <1>1, AppendCases
<1> QED
  BY <1>1, <1>2 DEF Extends, NoNewHits, CacheHits, new

LEMMA CompensateExtends ==
  ASSUME NEW v \in Seq(RowType), NEW i \in DOMAIN v, v[i].phase = "pending"
  PROVE  /\ Extends(v, CompensateRow(v, i)) /\ NoNewHits(v, CompensateRow(v, i))
         /\ i \in DOMAIN CompensateRow(v, i) /\ CompensateRow(v, i)[i].phase = "compensated"
<1> DEFINE w == CompensateRow(v, i)
<1>1. /\ DOMAIN w = DOMAIN v /\ \A j \in DOMAIN v \ {i} : w[j] = v[j]
      /\ w[i].phase = "compensated"
  <2>1. v[i] \in RowType
    BY ElementOfSeq
  <2> QED
    BY <2>1 DEF CompensateRow, RowType
<1> HIDE DEF w
<1> QED
  BY <1>1 DEF Extends, NoNewHits, CacheHits, w

LEMMA CommitExtends ==
  ASSUME NEW v \in Seq(RowType), NEW i \in DOMAIN v, v[i].phase = "pending", NEW a \in Requests
  PROVE  /\ Extends(v, CommitRow(v, i, a)) /\ i \in DOMAIN CommitRow(v, i, a)
         /\ CommitRow(v, i, a)[i] = [key |-> v[i].key, phase |-> "committed", aud |-> a]
<1> DEFINE w == CommitRow(v, i, a)
<1>1. /\ DOMAIN w = DOMAIN v /\ \A j \in DOMAIN v \ {i} : w[j] = v[j]
      /\ w[i] = [key |-> v[i].key, phase |-> "committed", aud |-> a]
  <2>1. v[i] \in RowType
    BY ElementOfSeq
  <2> QED
    BY <2>1 DEF CommitRow, RowType
<1> HIDE DEF w
<1> QED
  BY <1>1 DEF Extends, w

LEMMA ResumeExtends ==
  ASSUME NEW v \in Seq(RowType), \A i \in DOMAIN v : v[i].aud # NoAudit => v[i].phase = "committed"
  PROVE  Extends(v, ResumeRows(v)) /\ NoNewHits(v, ResumeRows(v))
<1> DEFINE w == ResumeRows(v)
<1>1. /\ DOMAIN w = DOMAIN v
      /\ \A i \in DOMAIN v : w[i] = ResumeRow(v[i])
  BY DEF ResumeRows
<1>2. \A i \in DOMAIN v : v[i] \in RowType
  BY ElementOfSeq
<1>3. \A i \in DOMAIN v : v[i].phase \in {"committed", "compensated"} => w[i] = v[i]
  BY <1>1 DEF ResumeRow
<1>4. \A i \in DOMAIN v : w[i].key = v[i].key /\ w[i].aud = v[i].aud
  BY <1>1, <1>2 DEF ResumeRow, RowType
<1> HIDE DEF w
<1> QED
  BY <1>1, <1>3, <1>4 DEF Extends, NoNewHits, CacheHits, w

LEMMA ExtendsItself ==
  ASSUME NEW v
  PROVE  Extends(v, v) /\ NoNewHits(v, v)
  BY DEF Extends, NoNewHits
-----------------------------------------------------------------------------
(* The copy p comes to hold follows one of the versions; only a commit adds a hit. *)
Follows(p) ==
  job'[p].pc \in Copying => \A s \in Sessions : job'[p].sid = s =>
    \E v \in Versions(s) :
      /\ Extends(v, job'[p].rows)
      /\ NoNewHits(v, job'[p].rows) \/ (p \in Requests /\ job[p].pc = "sink" /\ job[p].sid = s)

(* A request comes to an open session ... *)
Comes(r) ==
  /\ job[r].pc = "idle" /\ job'[r].pc \in {"prehook", "load", "refused"}
  /\ job'[r].pc = "prehook" => Cfg.preHook
  /\ job'[r].idx = 0 /\ job'[r].sid \in Sessions
  /\ \A s \in Sessions : job'[r].sid = s =>
       /\ OpenTo(s)
       /\ Cfg.serial => \A q \in Requests : job[q].sid = s => job[q].pc \notin Active
       /\ job'[r].again => \E q \in Requests : /\ job[q].sid = s /\ job[q].key = job'[r].key
                                               /\ job[q].pc \in Answered

(* ... and goes its way. *)
Goes(r) ==
  /\ job[r].pc \in Active /\ job'[r].pc \in Active \cup Final
  /\ job'[r].sid = job[r].sid /\ job'[r].key = job[r].key
  /\ job'[r].shape = job[r].shape /\ job'[r].again = job[r].again
  /\ job'[r].idx = job[r].idx \/ job'[r].pc = "pending"
  /\ job'[r].pc = "prehook" => job[r].pc = "prehook"
  /\ job'[r].pc = "load" => job[r].pc \in {"prehook", "load"}
  /\ job'[r].pc \in Spending => job[r].pc \in Spending
  /\ job'[r].pc \in Undecided =>
       /\ job[r].pc \in Undecided \cup {"load"}
       /\ job'[r].rows[job'[r].idx].phase = "pending"
       /\ job[r].pc = "load" => \A s \in Sessions :
            job[r].sid = s => CacheHits(Rows(s), job[r].key) = {}
  /\ job'[r].pc = "compensating" => job'[r].rows[job[r].idx].phase = "compensated"
  /\ job'[r].pc = "committing" => job'[r].rows[job[r].idx] = Recorded(r)
  /\ job'[r].pc = "committed" =>
       job[r].pc = "committing" /\ \A s \in Sessions : job[r].sid = s => Rows(s)' = job[r].rows
  /\ job'[r].pc \in {"posthook", "accepted"} => job[r].pc \in {"committed", "posthook"}
  /\ job[r].pc = "posthook" => job'[r].pc \in {"posthook", "accepted"}
  /\ job'[r].pc = "replayed" =>
       job[r].pc = "load" /\ \A s \in Sessions :
         job[r].sid = s => CacheHits(Rows(s), job[r].key) # {}
  /\ job'[r].pc = "refused" =>
       \/ Waiting(r) \/ errors' = errors + 1 \/ ~Cfg.pda \/ job[r].shape.pda = "unusable"
       \/ job[r].pc = "compensating" /\ \A s \in Sessions : job[r].sid = s => Rows(s)' = job[r].rows

(* A reader or the scan takes up a session that does not decide. *)
TakesUp(p) ==
  job'[p].pc \in Active =>
    \/ job[p].pc \in Active /\ job'[p].sid = job[p].sid
    \/ scan.pc = "scanning"
    \/ \A s \in Sessions : job'[p].sid = s => ~OpenTo(s) /\ ~OpenTo(s)'

Opens(s) == OpenTo(s)' => OpenTo(s) \/ (s \notin born /\ ClientsMayCome)

(* What closes a session. *)
Closes(s) ==
  OpenTo(s) => \/ OpenTo(s)'
               \/ \E r \in Requests : job[r].sid = s /\ job[r].pc \in {"prehook", "posthook"}
               \/ \E r \in Requests : /\ job[r].sid = s /\ job[r].pc = "committed"
                                      /\ job'[r].pc \in {"posthook", "accepted"}
               \/ Cfg.serial => \A r \in Requests : /\ job[r].sid = s => job[r].pc \notin Active
                                                    /\ job'[r].pc \in Active => job[r].pc \in Active
               \/ \E p \in Procs \ Requests : job[p].sid = s /\ job[p].pc \in Active

Decided(s) ==
  \A i \in DOMAIN events'[s] : events'[s][i].type = "PermissionDecision" =>
    \/ i \in DOMAIN events[s] /\ events'[s][i] = events[s][i]
    \/ LET r == events'[s][i].by IN
       /\ r \in Requests /\ job[r].sid = s /\ job[r].pc = "committed"
       /\ job'[r].pc \in {"posthook", "accepted"}

(* The scan does not start again, and its process is idle when it is done. *)
ScanGoesOn ==
  /\ scan.pc = "done" => scan'.pc = "done"
  /\ scan.pc # "done" /\ scan'.pc = "done" => UNCHANGED job /\ job[Scanner].pc = "idle"

(* Every step but a crash: one process moves at most. *)
Course ==
  /\ UNCHANGED setting
  /\ errors' \in {errors, errors + 1}
  /\ ScanGoesOn
  /\ \A s \in Sessions : Opens(s) /\ Closes(s) /\ Decided(s) /\ Rows(s)' \in Versions(s)
  /\ \/ UNCHANGED job
     \/ \E p \in Procs :
          /\ \A q \in Procs \ {p} : job'[q] = job[q]
          /\ Follows(p)
          /\ IF p \in Requests THEN Comes(p) \/ Goes(p)
             ELSE TakesUp(p) /\ (p = Scanner /\ job'[p].pc # "idle" =>
                                   scan.pc # "done" \/ job[p].pc # "idle")
-----------------------------------------------------------------------------
(* What each version of the next state comes from. *)
LEMMA VersionsFollow ==
  ASSUME Course, NEW s \in Sessions, NEW w \in Versions(s)'
  PROVE  \E v \in Versions(s) :
           /\ Extends(v, w)
           /\ NoNewHits(v, w) \/ \E r \in Requests : job[r].sid = s /\ job[r].pc = "sink"
<1>1. CASE w = Rows(s)'
  BY <1>1, ExtendsItself DEF Course
<1>2. ASSUME NEW p \in Procs, job'[p].sid = s, job'[p].pc \in Copying, w = job'[p].rows
      PROVE  \E v \in Versions(s) :
               /\ Extends(v, w)
               /\ NoNewHits(v, w) \/ \E r \in Requests : job[r].sid = s /\ job[r].pc = "sink"
  <2>1. CASE job'[p] = job[p]
    <3>1. w \in Versions(s)
      BY <1>2, <2>1 DEF Versions
    <3> QED
      BY <3>1, ExtendsItself
  <2>2. CASE job'[p] # job[p]
    <3>1. Follows(p)
      BY <2>2 DEF Course
    <3> QED
      BY <1>2, <3>1 DEF Follows
  <2> QED
    BY <2>1, <2>2
<1> QED
  BY <1>1, <1>2 DEF Versions

LEMMA CopyingActive ==
  /\ Copying \subseteq Active /\ Spending \subseteq Active /\ Undecided \subseteq Spending
  /\ {"prehook", "load"} \subseteq Spending
  /\ {"committed", "committing", "compensating"} \subseteq Spending
  /\ {"prehook", "load", "committed", "posthook"} \cap (Copying \cup Final \cup Undecided \cup Answered) = {}
  /\ Active \cap Final = {} /\ "idle" \notin Active \cup Final
  /\ Answered \subseteq Final /\ "posthook" \notin Spending \cup Undecided
  /\ {"refused", "accepted", "replayed"} \subseteq Final
  BY DEF Copying, Bracketing, Undecided, Active, Awaiting, Queued, Spending, Final, Answered

(* How the step sees one request, one other process. *)
LEMMA OneMoves ==
  ASSUME Course
  PROVE  /\ \A r \in Requests : job'[r] = job[r] \/ Comes(r) \/ Goes(r)
         /\ \A p \in Procs \ Requests : job'[p] = job[p] \/ TakesUp(p)
         /\ \A p, q \in Procs : job'[p] # job[p] /\ job'[q] # job[q] => p = q
  BY DEF Course, Procs

(* Nobody but the request works on the session it has in flight. *)
LEMMA LoneVersion ==
  ASSUME NEW s \in Sessions, \A p \in Procs : job'[p].sid = s => job'[p].pc \notin Copying
  PROVE  Versions(s)' = {Rows(s)'}
  BY DEF Versions

LEMMA CourseKeepsSolo ==
  ASSUME Course, Solo, Traceless, Cfg.serial, TypeOK
  PROVE  Solo'
<1> SUFFICES ASSUME NEW q \in Requests, NEW r \in Requests, q # r,
                    job'[q].pc \in Active, job'[r].pc \in Active, job'[q].sid = job'[r].sid
             PROVE  FALSE
  BY DEF Solo
<1>1. q \in Procs /\ r \in Procs
  BY DEF Procs
<1>2. ASSUME NEW a \in Requests, NEW b \in Requests, a # b, job'[a].pc \in Active,
             job'[b].pc \in Active, job'[a].sid = job'[b].sid, job'[b] = job[b]
      PROVE  FALSE
  <2>1. job[b].sid \in Sessions
    BY <1>2, CopyingActive DEF Traceless, TypeOK, Procs
  <2>2. CASE Comes(a)
    BY <1>2, <2>1, <2>2 DEF Comes
  <2>3. CASE Goes(a) \/ job'[a] = job[a]
    BY <1>2, <2>3 DEF Goes, Solo
  <2> QED
    BY <2>2, <2>3, OneMoves
<1> QED
  BY <1>1, <1>2, OneMoves

LEMMA CourseKeepsQuiet ==
  ASSUME Course, Quiet, Traceless, TypeOK, Cfg.patient
  PROVE  Quiet'
<1> SUFFICES ASSUME NEW s \in Sessions, OpenTo(s)'
             PROVE  /\ scan'.pc = "done"
                    /\ \A p \in Procs \ Requests : job'[p].sid = s => job'[p].pc \notin Active
  BY DEF Quiet
<1>1. /\ scan.pc = "done"
      /\ \A p \in Procs \ Requests : job[p].sid = s => job[p].pc \notin Active
  <2>1. CASE OpenTo(s)
    BY <2>1 DEF Quiet
  <2>2. CASE s \notin born /\ ClientsMayCome
    BY <2>2, CopyingActive DEF Traceless, ClientsMayCome
  <2> QED
    BY <2>1, <2>2 DEF Course, Opens
<1>2. scan'.pc = "done"
  BY <1>1 DEF Course, ScanGoesOn
<1>3. ASSUME NEW p \in Procs \ Requests, job'[p].sid = s, job'[p].pc \in Active
      PROVE  FALSE
  <2>1. CASE job'[p] = job[p]
    BY <1>1, <1>3, <2>1
  <2>2. CASE TakesUp(p)
    BY <1>1, <1>3, <2>2 DEF TakesUp
  <2> QED
    BY <2>1, <2>2, OneMoves
<1> QED
  BY <1>2, <1>3

(* A request that comes finds the file to itself. *)
LEMMA ComesAlone ==
  ASSUME Course, Quiet, Cfg.serial, NEW r \in Requests, Comes(r), NEW s \in Sessions,
         job'[r].sid = s
  PROVE  Versions(s)' = {Rows(s)'} /\ Versions(s) = {Rows(s)} /\ Rows(s)' = Rows(s)
<1>1. OpenTo(s) /\ \A q \in Requests : job[q].sid = s => job[q].pc \notin Active
  BY DEF Comes
<1>2. \A p \in Procs : job[p].sid = s => job[p].pc \notin Active
  BY <1>1 DEF Quiet
<1>3. Versions(s) = {Rows(s)}
  BY <1>2, CopyingActive DEF Versions
<1>4. r \in Procs /\ job'[r] # job[r]
  BY CopyingActive DEF Procs, Comes
<1>5. \A p \in Procs : job'[p].sid = s => job'[p].pc \notin Copying
  <2>1. \A p \in Procs \ {r} : job'[p] = job[p]
    BY <1>4, OneMoves
  <2>2. job'[r].pc \notin Copying
    BY CopyingActive DEF Comes
  <2> QED
    BY <1>2, <2>1, <2>2, CopyingActive
<1> QED
  BY <1>3, <1>5, LoneVersion DEF Course

LEMMA CourseKeepsAgreeing ==
  ASSUME Course, Agreeing, Quiet, Solo, Keyed, Traceless, Cfg.serial
  PROVE  Agreeing'
<1> SUFFICES ASSUME NEW s \in Sessions, NEW r \in Requests, job'[r].sid = s, Waiting(r)',
                    NEW v \in Versions(s)', NEW w \in Versions(s)', CacheHits(v, job'[r].key) # {}
             PROVE  CacheHits(w, job'[r].key) # {}
  BY DEF Agreeing
<1>1. CASE Comes(r)
  BY <1>1, ComesAlone
<1>2. CASE job'[r] = job[r] \/ Goes(r)
  <2>1. job[r].sid = s /\ Waiting(r) /\ job'[r].key = job[r].key
    BY <1>2 DEF Goes, Waiting
  <2>2. job[r].key \in Keys \cup Requests
    BY <2>1, CopyingActive DEF Keyed, Waiting
  <2>3. ~\E q \in Requests : job[q].sid = s /\ job[q].pc = "sink"
    BY <2>1, CopyingActive DEF Solo, Waiting, Undecided
  <2>4. PICK a \in Versions(s) : NoNewHits(a, v)
    BY <2>3, VersionsFollow
  <2>5. PICK b \in Versions(s) : Extends(b, w)
    BY VersionsFollow
  <2>6. CacheHits(a, job[r].key) # {}
    BY <2>1, <2>2, <2>4 DEF NoNewHits
  <2>7. CacheHits(b, job[r].key) # {}
    BY <2>1, <2>6 DEF Agreeing
  <2> QED
    BY <2>1, <2>5, <2>7, HitsStay
<1> QED
  BY <1>1, <1>2, OneMoves

(* Sessions that may be consulted were consulted before, or nobody has come to them. *)
LEMMA ConsultedBefore ==
  ASSUME Course, NEW s \in Sessions, Consulted(s)'
  PROVE  Consulted(s) \/ s \notin born
<1>1. CASE OpenTo(s)'
  BY <1>1 DEF Course, Opens, Consulted
<1>2. ASSUME NEW r \in Requests, job'[r].sid = s, Waiting(r)'
      PROVE  Consulted(s)
  <2>1. CASE Comes(r)
    BY <1>2, <2>1 DEF Comes, Consulted
  <2>2. CASE job'[r] = job[r] \/ Goes(r)
    BY <1>2, <2>2 DEF Goes, Waiting, Consulted
  <2> QED
    BY <2>1, <2>2, OneMoves
<1> QED
  BY <1>1, <1>2 DEF Consulted

(* The write of a request lands while nobody else works on the session. *)
LEMMA LandsAlone ==
  ASSUME Course, Solo, Quiet, NEW r \in Requests, NEW s \in Sessions, job[r].sid = s, OpenTo(s),
         job[r].pc \in Active, job'[r].pc \notin Copying, job'[r] # job[r]
  PROVE  Versions(s)' = {Rows(s)'}
<1>1. r \in Procs /\ \A p \in Procs \ {r} : job'[p] = job[p]
  BY OneMoves DEF Procs
<1>2. \A p \in Procs \ {r} : job[p].sid = s => job[p].pc \notin Active
  BY DEF Solo, Quiet
<1>3. \A p \in Procs : job'[p].sid = s => job'[p].pc \notin Copying
  BY <1>1, <1>2, CopyingActive
<1> QED
  BY <1>3, LoneVersion

LEMMA CourseKeepsRemembered ==
  ASSUME Course, Tracked, Remembered, Agreeing, Quiet, Solo, Traceless, Bracketed
  PROVE  Remembered'
<1> DEFINE Told == Answered \cup {"committed", "posthook"}
<1> SUFFICES ASSUME NEW s \in Sessions, Consulted(s)', NEW q \in Requests, job'[q].sid = s,
                    job'[q].pc \in Told, NEW w \in Versions(s)'
             PROVE  CacheHits(w, job'[q].key) # {}
  BY DEF Remembered
<1>1. q \in Procs /\ "idle" \notin Told
  BY CopyingActive DEF Procs
<1>2. ~Comes(q)
  BY CopyingActive DEF Comes, Answered
<1>3. job'[q].sid = job[q].sid /\ job'[q].key = job[q].key /\ job[q].pc # "idle"
  BY <1>1, <1>2, OneMoves, CopyingActive DEF Goes
<1>4. Consulted(s)
  BY <1>1, <1>3, ConsultedBefore DEF Traceless
<1>5. PICK v \in Versions(s) : Extends(v, w)
  BY VersionsFollow
<1>6. CacheHits(v, job[q].key) # {} => CacheHits(w, job[q].key) # {}
  BY <1>5, HitsStay
<1>7. CASE job[q].pc \in Told
  BY <1>3, <1>4, <1>6, <1>7 DEF Remembered
<1>8. CASE job[q].pc \notin Told
  <2>1. Goes(q)
    BY <1>2, <1>8, OneMoves
  <2>2. CASE job'[q].pc = "replayed"
    <3>1. job[q].pc = "load" /\ CacheHits(Rows(s), job[q].key) # {}
      BY <1>3, <2>1, <2>2 DEF Goes
    <3>2. CacheHits(v, job[q].key) # {}
      BY <1>3, <3>1 DEF Agreeing, Waiting, Versions
    <3> QED
      BY <1>3, <1>6, <3>2
  <2>3. CASE job'[q].pc = "committed"
    <3>1. job[q].pc = "committing" /\ Rows(s)' = job[q].rows
      BY <1>3, <2>1, <2>3 DEF Goes
    <3>2. OpenTo(s)
      <4>1. \A r \in Requests : job[r].sid = s /\ Waiting(r) => FALSE
        BY <1>3, <3>1, CopyingActive DEF Solo, Waiting
      <4> QED
        BY <1>4, <4>1 DEF Consulted
    <3>3. w = job[q].rows
      BY <1>3, <2>3, <3>1, <3>2, LandsAlone, CopyingActive
    <3>4. job[q].rows[job[q].idx] = Recorded(q) /\ job[q].idx \in DOMAIN job[q].rows
      BY <3>1 DEF Tracked, Bracketed, Bracketing
    <3>5. job[q].idx \in CacheHits(w, job[q].key)
      BY <3>3, <3>4, ProcsAssumption DEF Recorded, CacheHits
    <3> QED
      BY <1>3, <3>5
  <2> QED
    BY <1>8, <2>1, <2>2, <2>3 DEF Goes, Answered
<1> QED
  BY <1>7, <1>8

LEMMA CourseKeepsResubmitted ==
  ASSUME Course, Resubmitted, Remembered, Traceless, TypeOK
  PROVE  Resubmitted'
<1>1. ASSUME NEW q \in Requests, job[q].pc \in Answered
      PROVE  job'[q].pc \in Answered /\ job'[q].sid = job[q].sid /\ job'[q].key = job[q].key
  BY <1>1, OneMoves, CopyingActive DEF Comes, Goes
<1> SUFFICES ASSUME NEW r \in Requests, job'[r].again
             PROVE  /\ Waiting(r)' => \E q \in Requests : /\ job'[q].sid = job'[r].sid
                                                          /\ job'[q].key = job'[r].key
                                                          /\ job'[q].pc \in Answered
                    /\ job'[r].pc \notin Undecided
  BY DEF Resubmitted
<1>2. CASE Comes(r)
  <2>1. job'[r].sid \in Sessions => job'[r].pc \notin Undecided /\
          \E q \in Requests : job[q].sid = job'[r].sid /\ job[q].key = job'[r].key /\ job[q].pc \in Answered
    BY <1>2, CopyingActive DEF Comes
  <2>2. job'[r].sid \in Sessions
    BY <1>2, CopyingActive DEF Comes
  <2> QED
    BY <1>1, <2>1, <2>2
<1>3. CASE job'[r] = job[r]
  BY <1>1, <1>3 DEF Resubmitted, Waiting
<1>4. CASE Goes(r)
  <2>1. job[r].again /\ job'[r].sid = job[r].sid /\ job'[r].key = job[r].key
    BY <1>4 DEF Goes
  <2>2. Waiting(r)' => Waiting(r)
    BY <1>4 DEF Goes, Waiting
  <2>3. ASSUME job'[r].pc \in Undecided
        PROVE  FALSE
    <3>1. job[r].pc = "load" /\ Waiting(r) /\ job[r].sid \in Sessions
      BY <1>4, <2>1, <2>3, CopyingActive DEF Goes, Resubmitted, Waiting, Traceless, TypeOK, Procs
    <3>2. CacheHits(Rows(job[r].sid), job[r].key) = {}
      BY <1>4, <2>3, <3>1 DEF Goes
    <3>3. PICK q \in Requests : job[q].sid = job[r].sid /\ job[q].key = job[r].key /\ job[q].pc \in Answered
      BY <2>1, <3>1 DEF Resubmitted
    <3>4. \A s \in Sessions : Rows(s) \in Versions(s)
      BY DEF Versions
    <3>5. \A s \in Sessions : job[r].sid = s => Consulted(s)
      BY <3>1 DEF Consulted
    <3>6. \A s \in Sessions : job[r].sid = s => CacheHits(Rows(s), job[q].key) # {}
      BY <3>3, <3>4, <3>5 DEF Remembered
    <3> QED
      BY <3>1, <3>2, <3>3, <3>6
  <2> QED
    BY <1>1, <2>1, <2>2, <2>3 DEF Resubmitted
<1> QED
  BY <1>2, <1>3, <1>4, OneMoves

(* Nothing revokes a session under a request without a PreToolUse hook. *)
LEMMA CourseKeepsAttended ==
  ASSUME Course, Tracked, Attended, Quiet, Solo, Cfg.serial, ~Cfg.preHook
  PROVE  Attended'
<1> SUFFICES ASSUME NEW s \in Sessions, NEW r \in Requests, job'[r].sid = s, job'[r].pc \in Spending
             PROVE  OpenTo(s)'
  BY DEF Attended
<1>1. r \in Procs /\ \A q \in Requests : q \in Procs
  BY DEF Procs
<1>2. OpenTo(s)
  BY OneMoves DEF Comes, Goes, Attended
<1>3. ASSUME NEW q \in Requests, job[q].sid = s, job[q].pc \in Active
      PROVE  q = r
  <2>1. CASE Comes(r)
    BY <1>3, <2>1 DEF Comes
  <2>2. CASE job'[r] = job[r] \/ Goes(r)
    <3>1. job[r].sid = s /\ job[r].pc \in Active
      BY <2>2, CopyingActive DEF Goes
    <3> QED
      BY <1>3, <3>1 DEF Solo
  <2> QED
    BY <2>1, <2>2, OneMoves
<1>4. ASSUME NEW q \in Requests, job[q].sid = s, job[q].pc \in {"prehook", "posthook"}
      PROVE  FALSE
  <2>1. q = r /\ job[r].pc = "posthook"
    BY <1>3, <1>4, PcFacts DEF Tracked
  <2> QED
    BY <2>1, OneMoves, CopyingActive DEF Comes, Goes
<1>5. ASSUME NEW q \in Requests, job[q].sid = s, job[q].pc = "committed",
             job'[q].pc \in {"posthook", "accepted"}
      PROVE  FALSE
  <2>1. q = r
    BY <1>3, <1>5, PcFacts
  <2> QED
    BY <1>5, <2>1, CopyingActive
<1>6. ASSUME \A q \in Requests : /\ job[q].sid = s => job[q].pc \notin Active
                                 /\ job'[q].pc \in Active => job[q].pc \in Active
      PROVE  FALSE
  BY <1>6, OneMoves, CopyingActive DEF Comes, Goes
<1>7. ~\E p \in Procs \ Requests : job[p].sid = s /\ job[p].pc \in Active
  BY <1>2 DEF Quiet
<1> QED
  BY <1>2, <1>4, <1>5, <1>6, <1>7 DEF Course, Closes

LEMMA CourseKeepsKept ==
  ASSUME Course, Tracked, Kept, Attended, Quiet, Solo, Bracketed
  PROVE  Kept'
<1> SUFFICES ASSUME NEW s \in Sessions, NEW r \in Requests, job'[r].sid = s,
                    job'[r].pc \in {"committed", "posthook", "accepted"}, NEW w \in Versions(s)'
             PROVE  job'[r].idx \in DOMAIN w /\ w[job'[r].idx] = Recorded(r)'
  BY DEF Kept
<1>1. /\ job[r].sid = s /\ job'[r].idx = job[r].idx /\ job'[r].key = job[r].key
      /\ job'[r] = job[r] \/ Goes(r)
  BY OneMoves DEF Comes, Goes
<1>2. Recorded(r)' = Recorded(r)
  BY <1>1 DEF Recorded
<1>3. CASE job[r].pc \in {"committed", "posthook", "accepted"}
  <2>1. PICK v \in Versions(s) : Extends(v, w)
    BY VersionsFollow
  <2>2. job[r].idx \in DOMAIN v /\ v[job[r].idx] = Recorded(r)
    BY <1>1, <1>3 DEF Kept
  <2>3. Recorded(r).phase = "committed"
    BY DEF Recorded
  <2> QED
    BY <1>1, <1>2, <2>1, <2>2, <2>3 DEF Extends
<1>4. CASE job[r].pc \notin {"committed", "posthook", "accepted"}
  <2>1. Goes(r)
    BY <1>1, <1>4
  <2>2. job'[r].pc = "committed" /\ job[r].pc = "committing" /\ Rows(s)' = job[r].rows
    BY <1>1, <1>4, <2>1 DEF Goes
  <2>3. OpenTo(s) /\ job[r].pc \in Active
    BY <1>1, <2>2, CopyingActive DEF Attended
  <2>4. Versions(s)' = {Rows(s)'}
    BY <1>1, <2>2, <2>3, LandsAlone, CopyingActive
  <2>5. job[r].rows[job[r].idx] = Recorded(r) /\ job[r].idx \in DOMAIN job[r].rows
    BY <2>2 DEF Tracked, Bracketed, Bracketing
  <2> QED
    BY <1>1, <1>2, <2>2, <2>4, <2>5
<1> QED
  BY <1>3, <1>4

LEMMA CourseKeepsWithdrawn ==
  ASSUME Course, Tracked, Withdrawn, Attended, Quiet, Solo, Bracketed
  PROVE  Withdrawn'
<1> SUFFICES ASSUME Cfg.pda, errors' = 0, NEW s \in Sessions, NEW r \in Requests, job'[r].sid = s,
                    job'[r].pc = "refused", job'[r].idx # 0, job'[r].shape.pda # "unusable",
                    NEW w \in Versions(s)'
             PROVE  job'[r].idx \in DOMAIN w /\ w[job'[r].idx].phase = "compensated"
  BY DEF Withdrawn, Course, Cfg
<1>1. errors = 0 /\ errors' # errors + 1
  BY DEF Tracked, Course
<1>2. /\ job[r].sid = s /\ job'[r].idx = job[r].idx /\ job'[r].shape = job[r].shape
      /\ job'[r] = job[r] \/ Goes(r)
  BY OneMoves DEF Comes, Goes
<1>3. CASE job[r].pc = "refused"
  <2>1. PICK v \in Versions(s) : Extends(v, w)
    BY VersionsFollow
  <2>2. job[r].idx \in DOMAIN v /\ v[job[r].idx].phase = "compensated"
    BY <1>1, <1>2, <1>3 DEF Withdrawn
  <2> QED
    BY <1>2, <2>1, <2>2 DEF Extends
<1>4. CASE job[r].pc # "refused"
  <2>1. Goes(r)
    BY <1>2, <1>4
  <2>2. job[r].pc = "compensating" /\ Rows(s)' = job[r].rows
    BY <1>1, <1>2, <2>1 DEF Goes, Tracked
  <2>3. OpenTo(s) /\ job[r].pc \in Active
    BY <1>2, <2>2, CopyingActive DEF Attended
  <2>4. Versions(s)' = {Rows(s)'}
    BY <1>2, <2>2, <2>3, LandsAlone, CopyingActive
  <2>5. job[r].rows[job[r].idx].phase = "compensated" /\ job[r].idx \in DOMAIN job[r].rows
    BY <2>2 DEF Tracked, Bracketed, Bracketing
  <2> QED
    BY <1>2, <2>2, <2>4, <2>5
<1> QED
  BY <1>3, <1>4

LEMMA CourseKeepsTracked ==
  ASSUME Course, Tracked
  PROVE  Tracked'
<1>1. errors' \in Nat /\ (scan'.pc = "done" => job'[Scanner].pc = "idle")
  <2>1. Scanner \in Procs \ Requests
    BY ProcsAssumption DEF Procs
  <2>2. CASE scan.pc = "done"
    <3>1. job[Scanner].pc = "idle"
      BY <2>2 DEF Tracked
    <3> QED
      BY <2>1, <2>2, <3>1 DEF Course, Tracked
  <2>3. CASE scan.pc # "done"
    BY <2>3 DEF Course, ScanGoesOn, Tracked
  <2> QED
    BY <2>2, <2>3
<1>2. ASSUME NEW r \in Requests
      PROVE  /\ Waiting(r)' => job'[r].idx = 0
             /\ job'[r].pc = "prehook" => Cfg.preHook
             /\ job'[r].pc \in Undecided => job'[r].rows[job'[r].idx].phase = "pending"
             /\ job'[r].pc = "compensating" => job'[r].rows[job'[r].idx].phase = "compensated"
             /\ job'[r].pc = "committing" => job'[r].rows[job'[r].idx] = Recorded(r)'
  <2>1. CASE job'[r] = job[r]
    BY <2>1 DEF Tracked, Waiting, Recorded
  <2>2. CASE Comes(r)
    BY <2>2, CopyingActive DEF Comes, Waiting, Copying, Bracketing, Undecided
  <2>3. CASE Goes(r)
    <3>1. Recorded(r)' = Recorded(r) /\ (Waiting(r)' => Waiting(r))
      BY <2>3 DEF Goes, Recorded, Waiting
    <3>2. Waiting(r)' => job'[r].pc # "pending"
      BY DEF Waiting
    <3> QED
      BY <2>3, <3>1, <3>2 DEF Goes, Tracked
  <2> QED
    BY <2>1, <2>2, <2>3, OneMoves
<1>3. ASSUME NEW s \in Sessions, NEW i \in DOMAIN events'[s],
             events'[s][i].type = "PermissionDecision"
      PROVE  LET r == events'[s][i].by IN
             r \in Requests /\ job'[r].sid = s /\ job'[r].pc \in {"posthook", "accepted"}
  <2> DEFINE r == events'[s][i].by
  <2>1. /\ r \in Requests /\ job[r].sid = s
        /\ \/ job[r].pc \in {"posthook", "accepted"}
           \/ job[r].pc = "committed" /\ job'[r].pc \in {"posthook", "accepted"}
    BY <1>3 DEF Course, Decided, Tracked
  <2> HIDE DEF r
  <2>2. job'[r].sid = s
    BY <2>1, OneMoves, CopyingActive DEF Comes, Goes
  <2>3. job'[r].pc \in {"posthook", "accepted"}
    BY <2>1, OneMoves, CopyingActive DEF Comes, Goes
  <2> QED
    BY <2>1, <2>2, <2>3 DEF r
<1>4. UNCHANGED setting /\ Cfg' = Cfg
  BY DEF Course, Cfg
<1> QED
  BY <1>1, <1>2, <1>3, <1>4 DEF Tracked
-----------------------------------------------------------------------------
(* A step of the request that leaves file, store and scan alone. *)
LEMMA RequestCourse ==
  ASSUME UNCHANGED <<setting, disk, scan, store>>, errors' \in {errors, errors + 1},
         NEW r \in Requests, \A q \in Procs \ {r} : job'[q] = job[q], Follows(r), Goes(r),
         \A s \in Sessions : Decided(s)
  PROVE  Course
<1>1. r \in Procs
  BY DEF Procs
<1>2. \A s \in Sessions : Rows(s)' = Rows(s) /\ OpenTo(s)' = OpenTo(s)
  BY DEF Rows, OpenTo
<1>3. \A s \in Sessions : Opens(s) /\ Closes(s) /\ Rows(s)' \in Versions(s)
  BY <1>2 DEF Opens, Closes, Versions
<1> QED
  BY <1>1, <1>3 DEF Course, ScanGoesOn

(* The events of a step that announces the decisions of finished requests, or none. *)
LEMMA Announced ==
  ASSUME Evented, NEW s \in Sessions, NEW new \in Seq(EventType), Emit(s, new),
         \A j \in DOMAIN new : new[j].type = "PermissionDecision" =>
           LET r == new[j].by IN
           /\ r \in Requests /\ job[r].sid = s /\ job[r].pc = "committed"
           /\ job'[r].pc \in {"posthook", "accepted"}
  PROVE  \A t \in Sessions : Decided(t)
<1>1. events[s] \in Seq(EventType) /\ events'[s] = events[s] \o new
  BY DEF Evented, Emit
<1>2. \A t \in Sessions \ {s} : events'[t] = events[t]
  BY DEF Evented, Emit
<1>3. ASSUME NEW i \in DOMAIN (events[s] \o new)
      PROVE  \/ i \in DOMAIN events[s] /\ (events[s] \o new)[i] = events[s][i]
             \/ \E j \in DOMAIN new : (events[s] \o new)[i] = new[j]
  <2>1. i \in 1 .. Len(events[s]) + Len(new)
    BY <1>1
  <2>2. CASE i <= Len(events[s])
    BY <1>1, <2>1, <2>2
  <2>3. CASE i > Len(events[s])
    <3>1. i - Len(events[s]) \in DOMAIN new /\ (events[s] \o new)[i] = new[i - Len(events[s])]
      BY <1>1, <2>1, <2>3
    <3> QED
      BY <3>1
  <2> QED
    BY <1>1, <2>1, <2>2, <2>3
<1>4. Decided(s)
  <2> SUFFICES ASSUME NEW i \in DOMAIN events'[s], events'[s][i].type = "PermissionDecision"
               PROVE  \/ i \in DOMAIN events[s] /\ events'[s][i] = events[s][i]
                      \/ LET r == events'[s][i].by IN
                         /\ r \in Requests /\ job[r].sid = s /\ job[r].pc = "committed"
                         /\ job'[r].pc \in {"posthook", "accepted"}
    BY DEF Decided
  <2>1. CASE i \in DOMAIN events[s] /\ (events[s] \o new)[i] = events[s][i]
    BY <1>1, <2>1
  <2>2. ASSUME NEW j \in DOMAIN new, (events[s] \o new)[i] = new[j]
        PROVE  LET r == events'[s][i].by IN
               /\ r \in Requests /\ job[r].sid = s /\ job[r].pc = "committed"
               /\ job'[r].pc \in {"posthook", "accepted"}
    <3>1. events'[s][i] = new[j] /\ new[j].type = "PermissionDecision"
      BY <1>1, <2>2
    <3> QED
      BY <3>1
  <2> QED
    BY <1>1, <1>3, <2>1, <2>2
<1>5. \A t \in Sessions \ {s} : Decided(t)
  BY <1>2 DEF Decided
<1> QED
  BY <1>4, <1>5

LEMMA SilentDecided == UNCHANGED events => \A t \in Sessions : Decided(t)
  BY DEF Decided

(* What does not change when a process goes to c, with its copy of the file or without. *)
LEMMA Passes ==
  ASSUME TypeOK, NEW p \in Procs, NEW c \in Active \cup Final,
         Reply(p, c) \/ job' = [job EXCEPT ![p].pc = c]
  PROVE  /\ \A q \in Procs \ {p} : job'[q] = job[q]
         /\ job'[p].pc = c /\ job'[p].rows \in {job[p].rows, <<>>}
         /\ job' = [job EXCEPT ![p].pc = c] => job'[p].rows = job[p].rows
         /\ job'[p].sid = job[p].sid /\ job'[p].key = job[p].key /\ job'[p].idx = job[p].idx
         /\ job'[p].shape = job[p].shape /\ job'[p].again = job[p].again
  BY DEF TypeOK, Reply

(* A request that does not copy the file. *)
LEMMA FollowsNothing == \A p \in Procs : job'[p].pc \notin Copying => Follows(p)
  BY DEF Follows

LEMMA FollowsItself ==
  ASSUME NEW p \in Procs, job[p].pc \in Copying, job'[p].rows = job[p].rows, job'[p].sid = job[p].sid
  PROVE  Follows(p)
  BY ExtendsItself DEF Follows, Versions

(* Where a request is refused without a trace in the file. *)
LEMMA RefusedCourse ==
  ASSUME Inv, Tracked, NEW r \in Requests, Reply(r, "refused"), job[r].pc \in Spending,
         Waiting(r) \/ errors' = errors + 1 \/ ~Cfg.pda \/ job[r].shape.pda = "unusable",
         UNCHANGED <<setting, disk, scan, store>>, errors' \in {errors, errors + 1},
         \A s \in Sessions : Decided(s)
  PROVE  Course
<1>1. r \in Procs /\ "refused" \in Active \cup Final
  BY PcFacts DEF Procs
<1>2. /\ \A q \in Procs \ {r} : job'[q] = job[q]
      /\ job'[r].pc = "refused"
      /\ job'[r].sid = job[r].sid /\ job'[r].key = job[r].key /\ job'[r].idx = job[r].idx
      /\ job'[r].shape = job[r].shape /\ job'[r].again = job[r].again
  BY <1>1, Passes DEF Inv
<1>3. "refused" \notin Spending \cup Undecided \cup Copying
  BY DEF Spending, Undecided, Copying, Bracketing, Active, Awaiting, Queued
<1>4. Goes(r)
  BY <1>1, <1>2, <1>3, CopyingActive DEF Goes
<1> QED
  BY <1>1, <1>2, <1>3, <1>4, FollowsNothing, RequestCourse

(* A request goes on to c without touching its copy. *)
LEMMA GoCourse ==
  ASSUME Inv, Tracked, NEW r \in Requests, NEW c \in Undecided \cup {"load"},
         job[r].pc \in Undecided \/ (c = "load" /\ job[r].pc = "prehook"),
         c = "load" => job[r].pc = "prehook", c # "pending",
         job' = [job EXCEPT ![r].pc = c], UNCHANGED <<setting, disk, scan, store, events, errors>>
  PROVE  Course
<1>1. r \in Procs /\ c \in Active \cup Final
  BY CopyingActive DEF Procs
<1>2. /\ \A q \in Procs \ {r} : job'[q] = job[q]
      /\ job'[r].pc = c /\ job'[r].rows = job[r].rows
      /\ job'[r].sid = job[r].sid /\ job'[r].key = job[r].key /\ job'[r].idx = job[r].idx
      /\ job'[r].shape = job[r].shape /\ job'[r].again = job[r].again
  BY <1>1, Passes DEF Inv
<1>3. Follows(r)
  BY <1>1, <1>2, CopyingActive, FollowsNothing, FollowsItself DEF Copying, Bracketing
<1>4. Goes(r)
  BY <1>1, <1>2, CopyingActive DEF Goes, Tracked, Undecided
<1> QED
  BY <1>2, <1>3, <1>4, SilentDecided, RequestCourse

LEMMA PreHookCourse ==
  ASSUME Inv, Tracked, UNCHANGED setting, NEW r \in Requests, PreHookDenies(r) \/ PreHookPasses(r)
  PROVE  Course
<1>1. CASE PreHookPasses(r)
  BY <1>1, GoCourse DEF PreHookPasses, memory, counters
<1>2. CASE PreHookDenies(r)
  <2> DEFINE e == Event("PreToolUseOutcome", r)
             new == <<e>>
  <2>1. e \in EventType /\ e.type # "PermissionDecision"
    BY DEF Event, EventType, EventTypes, Causes, Procs
  <2> HIDE DEF e
  <2>2. new \in Seq(EventType) /\ \A j \in DOMAIN new : new[j].type # "PermissionDecision"
    BY <2>1
  <2>3. job[r].sid \in Sessions /\ Emit(job[r].sid, new)
    BY <1>2, PcFacts DEF PreHookDenies, Inv, Traceless, TypeOK, Procs, e
  <2>4. \A s \in Sessions : Decided(s)
    BY <2>2, <2>3, Announced DEF Inv
  <2> QED
    BY <1>2, <2>4, RefusedCourse, CopyingActive DEF PreHookDenies, Waiting, counters
<1> QED
  BY <1>1, <1>2

LEMMA LoadCourse ==
  ASSUME Inv, Tracked, UNCHANGED setting, NEW r \in Requests, Replay(r) \/ LoadFails(r) \/ SinkFails(r)
  PROVE  Course
<1>1. CASE LoadFails(r)
  BY <1>1, RefusedCourse, CopyingActive, SilentDecided DEF LoadFails, Waiting, memory, IoErrorHappens
<1>2. CASE SinkFails(r)
  BY <1>2, RefusedCourse, CopyingActive, SilentDecided DEF SinkFails, Undecided, memory, IoErrorHappens
<1>3. CASE Replay(r)
  <2>1. r \in Procs /\ job \in [Procs -> JobType]
    BY DEF Procs, Inv, TypeOK, JobType
  <2>2. /\ job[r].pc = "load" /\ CacheHits(Rows(job[r].sid), job[r].key) # {}
        /\ UNCHANGED <<disk, store, events, scan, errors>>
        /\ \A q \in Procs \ {r} : job'[q] = job[q]
        /\ job'[r].pc = "replayed" /\ job'[r].rows = job[r].rows
        /\ job'[r].sid = job[r].sid /\ job'[r].key = job[r].key /\ job'[r].idx = job[r].idx
        /\ job'[r].shape = job[r].shape /\ job'[r].again = job[r].again
    BY <1>3, <2>1 DEF Replay, memory, counters, JobType
  <2>3. "replayed" \notin Spending \cup Undecided \cup Copying /\ "replayed" \in Final
    BY DEF Spending, Undecided, Copying, Bracketing, Active, Awaiting, Queued, Final, Answered
  <2>4. Goes(r)
    BY <2>2, <2>3, CopyingActive DEF Goes
  <2> QED
    BY <2>1, <2>2, <2>3, <2>4, FollowsNothing, SilentDecided, RequestCourse
<1> QED
  BY <1>1, <1>2, <1>3

LEMMA OpenBracketCourse ==
  ASSUME Inv, Tracked, UNCHANGED setting, NEW r \in Requests, OpenBracket(r)
  PROVE  Course
<1> DEFINE s == job[r].sid
           rows == Append(Rows(s), PendingRow(job[r].key))
           i == Len(Rows(s)) + 1
<1>1. /\ r \in Procs /\ job \in [Procs -> JobType] /\ s \in Sessions /\ job[r].pc = "load"
      /\ job[r].key \in Keys \cup Requests
  BY PcFacts DEF OpenBracket, Procs, Inv, TypeOK, JobType, Traceless, Keyed
<1>2. /\ CacheHits(Rows(s), job[r].key) = {} /\ UNCHANGED <<disk, store, events, scan, errors>>
      /\ \A q \in Procs \ {r} : job'[q] = job[q]
      /\ job'[r].pc = "pending" /\ job'[r].rows = rows /\ job'[r].idx = i
      /\ job'[r].sid = s /\ job'[r].key = job[r].key
      /\ job'[r].shape = job[r].shape /\ job'[r].again = job[r].again
  BY <1>1 DEF OpenBracket, memory, counters, JobType
<1>3. Rows(s) \in Seq(RowType) /\ PendingRow(job[r].key) \in RowType
      /\ PendingRow(job[r].key).phase = "pending"
  <2>1. Rows(s) \in Seq(RowType)
    BY <1>1 DEF Inv, TypeOK, Rows
  <2>2. PendingRow(job[r].key) \in RowType /\ PendingRow(job[r].key).phase = "pending"
    BY <1>1 DEF PendingRow, RowType, Phases
  <2> QED
    BY <2>1, <2>2
<1>4. Extends(Rows(s), rows) /\ NoNewHits(Rows(s), rows)
  BY <1>1, <1>3, AppendExtends
<1>5. rows[i].phase = "pending"
  <2> HIDE DEF s
  <2> DEFINE new == PendingRow(job[r].key)
  <2>1. new \in RowType /\ new.phase = "pending"
    BY <1>3
  <2> HIDE DEF new
  <2> QED
    BY <1>3, <2>1 DEF new
<1> HIDE DEF rows, i
<1>6. Follows(r)
  BY <1>1, <1>2, <1>4 DEF Follows, Versions
<1>7. Goes(r)
  BY <1>1, <1>2, <1>5, CopyingActive DEF Goes, Undecided
<1> QED
  BY <1>2, <1>6, <1>7, SilentDecided, RequestCourse

(* The copy of a request in its bracket, and its own row of it. *)
LEMMA OwnRow ==
  ASSUME Inv, Tracked, NEW r \in Requests, job[r].pc \in Undecided
  PROVE  /\ r \in Procs /\ job \in [Procs -> JobType] /\ job[r].sid \in Sessions
         /\ job[r].rows \in Seq(RowType) /\ job[r].idx \in DOMAIN job[r].rows
         /\ job[r].rows[job[r].idx].phase = "pending" /\ job[r].rows[job[r].idx].key = job[r].key
         /\ \A s \in Sessions : job[r].sid = s => job[r].rows \in Versions(s)
  BY CopyingActive
     DEF Procs, Inv, TypeOK, JobType, Bracketed, Bracketing, Tracked, Traceless, Versions, Copying

LEMMA CompensateCourse ==
  ASSUME Inv, Tracked, UNCHANGED setting, NEW r \in Requests, job[r].pc \in Undecided, Compensate(r)
  PROVE  Course
<1> DEFINE rows == CompensateRow(job[r].rows, job[r].idx)
<1>1. /\ UNCHANGED <<disk, store, events, scan, errors>>
      /\ \A q \in Procs \ {r} : job'[q] = job[q]
      /\ job'[r].pc = "compensating" /\ job'[r].rows = rows /\ job'[r].idx = job[r].idx
      /\ job'[r].sid = job[r].sid /\ job'[r].key = job[r].key
      /\ job'[r].shape = job[r].shape /\ job'[r].again = job[r].again
  BY OwnRow DEF Compensate, memory, counters, JobType
<1>2. Extends(job[r].rows, rows) /\ NoNewHits(job[r].rows, rows) /\ rows[job[r].idx].phase = "compensated"
  BY OwnRow, CompensateExtends
<1> HIDE DEF rows
<1>3. Follows(r)
  BY <1>1, <1>2, OwnRow DEF Follows
<1>4. Goes(r)
  BY <1>1, <1>2, CopyingActive DEF Goes, Undecided, Waiting
<1> QED
  BY <1>1, <1>3, <1>4, SilentDecided, RequestCourse

LEMMA CommitCourse ==
  ASSUME Inv, Tracked, UNCHANGED setting, NEW r \in Requests, Commit(r)
  PROVE  Course
<1> DEFINE rows == CommitRow(job[r].rows, job[r].idx, r)
<1>1. job[r].pc = "sink" /\ job[r].pc \in Undecided
  BY DEF Commit, Undecided
<1>2. /\ UNCHANGED <<disk, store, events, scan, errors>>
      /\ \A q \in Procs \ {r} : job'[q] = job[q]
      /\ job'[r].pc = "committing" /\ job'[r].rows = rows /\ job'[r].idx = job[r].idx
      /\ job'[r].sid = job[r].sid /\ job'[r].key = job[r].key
      /\ job'[r].shape = job[r].shape /\ job'[r].again = job[r].again
  BY <1>1, OwnRow DEF Commit, memory, counters, JobType
<1>3. Extends(job[r].rows, rows) /\ rows[job[r].idx] = Recorded(r)
  BY <1>1, OwnRow, CommitExtends DEF Recorded
<1> HIDE DEF rows
<1>4. Follows(r)
  BY <1>1, <1>2, <1>3, OwnRow DEF Follows
<1>5. Goes(r)
  BY <1>1, <1>2, <1>3, CopyingActive DEF Goes, Undecided, Waiting
<1> QED
  BY <1>2, <1>4, <1>5, SilentDecided, RequestCourse

LEMMA LeavePendingCourse ==
  ASSUME Inv, Tracked, UNCHANGED setting, NEW r \in Requests, LeavePending(r), job[r].pc \in Undecided,
         ~Cfg.pda \/ job[r].shape.pda = "unusable"
  PROVE  Course
  BY RefusedCourse, CopyingActive, SilentDecided DEF LeavePending, memory, counters

LEMMA AppendDecisionCourse ==
  ASSUME Inv, Tracked, UNCHANGED setting, NEW r \in Requests, AppendDecision(r), job[r].pc \in Undecided
  PROVE  Course
<1>1. "sink" \in Undecided \cup {"load"}
  BY DEF Undecided
<1> QED
  BY <1>1, GoCourse DEF AppendDecision, counters

LEMMA DecidingCourse ==
  ASSUME Inv, Tracked, UNCHANGED setting, NEW r \in Requests, Decide(r) \/ Verify(r) \/ Escalated(r)
  PROVE  Course
<1>1. job[r].pc \in Undecided /\ {"verify", "escalate"} \subseteq Undecided \cup {"load"}
  BY DEF Decide, Verify, Escalated, Undecided
<1>2. AcceptOrMismatch(r) => Course
  BY <1>1, AppendDecisionCourse, CompensateCourse DEF AcceptOrMismatch
<1>3. RefuseEscalation(r) => Course
  BY <1>1, CompensateCourse DEF RefuseEscalation
<1>4. CASE Decide(r)
  BY <1>1, <1>4, AppendDecisionCourse, LeavePendingCourse, GoCourse DEF Decide, memory, counters
<1>5. CASE Escalated(r)
  BY <1>1, <1>2, <1>3, <1>5, CompensateCourse DEF Escalated
<1>6. ValidPda(r) => Course
  <2> SUFFICES ASSUME ValidPda(r)
               PROVE  Course
    OBVIOUS
  <2>1. \/ Compensate(r) \/ RefuseEscalation(r) \/ AcceptOrMismatch(r)
        \/ /\ job' = [job EXCEPT ![r].pc = "escalate"]
           /\ UNCHANGED <<disk, queue, memory, scan, born, ever, counters>>
    BY DEF ValidPda
  <2> QED
    BY <1>1, <1>2, <1>3, <2>1, CompensateCourse, GoCourse DEF memory, counters
<1>7. CASE Verify(r)
  BY <1>1, <1>6, <1>7, AppendDecisionCourse, LeavePendingCourse, CompensateCourse DEF Verify
<1> QED
  BY <1>4, <1>5, <1>7

LEMMA PostHookCourse ==
  ASSUME Inv, Tracked, UNCHANGED setting, NEW r \in Requests, PostHook(r)
  PROVE  Course
<1> DEFINE e == Event("PostToolUseOutcome", r)
           new == <<e>>
<1>1. e \in EventType /\ e.type # "PermissionDecision" /\ r \in Procs /\ "accepted" \in Active \cup Final
  BY PcFacts DEF Event, EventType, EventTypes, Causes, Procs
<1> HIDE DEF e
<1>2. new \in Seq(EventType) /\ \A j \in DOMAIN new : new[j].type # "PermissionDecision"
  BY <1>1
<1>3. job[r].sid \in Sessions /\ Emit(job[r].sid, new) /\ job[r].pc = "posthook"
  BY PcFacts DEF PostHook, Inv, Traceless, TypeOK, Procs, e
<1>4. \A s \in Sessions : Decided(s)
  BY <1>2, <1>3, Announced DEF Inv
<1>5. /\ \A q \in Procs \ {r} : job'[q] = job[q]
      /\ job'[r].pc = "accepted"
      /\ job'[r].sid = job[r].sid /\ job'[r].key = job[r].key /\ job'[r].idx = job[r].idx
      /\ job'[r].shape = job[r].shape /\ job'[r].again = job[r].again
      /\ UNCHANGED <<disk, store, scan, errors>>
  BY <1>1, Passes DEF Inv, PostHook, counters
<1>6. "accepted" \notin Spending \cup Undecided \cup Copying
  BY DEF Spending, Undecided, Copying, Bracketing, Active, Awaiting, Queued
<1>7. Goes(r)
  BY <1>1, <1>3, <1>5, <1>6, PcFacts, CopyingActive DEF Goes
<1> QED
  BY <1>1, <1>4, <1>5, <1>6, <1>7, FollowsNothing, RequestCourse

LEMMA FinishCourse ==
  ASSUME Inv, Tracked, UNCHANGED setting, NEW r \in Requests, Finish(r)
  PROVE  Course
<1> DEFINE s == job[r].sid
           c == IF Cfg.postHook THEN "posthook" ELSE "accepted"
           spent == Turns(s) * Cfg.turnTokens >= Cfg.maxTokens
           end == Event("SessionEnd", "BudgetExhausted")
           decided == Event("PermissionDecision", r)
           hooked == Event("PreToolUseOutcome", r)
           over == IF spent THEN <<end>> ELSE <<>>
           hook == IF Cfg.preHook THEN <<hooked>> ELSE <<>>
           new == over \o <<decided>> \o hook
           j == [job[r] EXCEPT !.pc = c, !.rows = <<>>, !.ans = r]
<1>1. /\ r \in Procs /\ job[r].pc = "committed" /\ s \in Sessions /\ job \in [Procs -> JobType]
      /\ c \in {"posthook", "accepted"}
  BY PcFacts DEF Finish, Procs, Inv, Traceless, TypeOK, JobType
<1>2. /\ store' = [store EXCEPT ![s] = IF spent THEN None ELSE @]
      /\ Emit(s, new) /\ job' = [job EXCEPT ![r] = j]
      /\ UNCHANGED <<disk, scan, errors>>
  BY <1>1 DEF Finish, counters, JobType
<1>3. /\ new \in Seq(EventType)
      /\ \A i \in DOMAIN new : new[i].type = "PermissionDecision" => new[i].by = r
  <2>1. /\ end \in EventType /\ decided \in EventType /\ hooked \in EventType
        /\ end.type # "PermissionDecision" /\ hooked.type # "PermissionDecision" /\ decided.by = r
    BY <1>1 DEF Event, EventType, EventTypes, Causes
  <2> HIDE DEF end, spent, decided, hooked
  <2> QED
    BY <2>1
<1>4. /\ \A q \in Procs \ {r} : job'[q] = job[q]
      /\ job'[r].pc = c /\ job'[r].sid = s /\ job'[r].key = job[r].key /\ job'[r].idx = job[r].idx
      /\ job'[r].shape = job[r].shape /\ job'[r].again = job[r].again
  <2> HIDE DEF c, s
  <2> QED
    BY <1>1, <1>2 DEF JobType, s
<1> HIDE DEF new, c, spent
<1>5. \A t \in Sessions : Decided(t)
  BY <1>1, <1>2, <1>3, <1>4, Announced DEF Inv
<1>6. {"posthook", "accepted"} \cap (Spending \cup Undecided \cup Copying) = {}
  BY DEF Spending, Undecided, Copying, Bracketing, Active, Awaiting, Queued
<1>7. Goes(r)
  BY <1>1, <1>4, <1>6, PcFacts, CopyingActive DEF Goes
<1>8. Follows(r)
  BY <1>1, <1>4, <1>6, FollowsNothing
<1>9. \A t \in Sessions : Rows(t)' = Rows(t) /\ (store'[t] = store[t] \/ (t = s /\ store'[t] = None))
  BY <1>1, <1>2 DEF Rows, Inv, TypeOK
<1>10. \A t \in Sessions : Opens(t) /\ Rows(t)' \in Versions(t) /\ Closes(t)
  BY <1>1, <1>4, <1>9 DEF Opens, Closes, OpenTo, Versions
<1> QED
  BY <1>1, <1>2, <1>4, <1>5, <1>7, <1>8, <1>10 DEF Course, ScanGoesOn

LEMMA ProgressCourse ==
  ASSUME Inv, Tracked, UNCHANGED setting, NEW r \in Requests, Progress(r) \/ LoadFails(r) \/ SinkFails(r)
  PROVE  Course
  BY PreHookCourse, LoadCourse, OpenBracketCourse, DecidingCourse, CommitCourse, FinishCourse,
     PostHookCourse DEF Progress

(* What a request knows on arrival. *)
LEMMA ArrivedFacts ==
  ASSUME NEW r \in Requests, NEW s, NEW sh, NEW k, NEW c, TypeOK,
         NEW j, j = Arrived(s, k, sh, c), job' = [job EXCEPT ![r] = j]
  PROVE  /\ \A q \in Procs \ {r} : job'[q] = job[q]
         /\ job'[r].pc = c /\ job'[r].sid = s /\ job'[r].key = k /\ job'[r].idx = 0
         /\ job'[r].again => Resubmits(s, k)
<1>1. r \in Procs /\ DOMAIN job = Procs
  BY DEF Procs, TypeOK
<1>2. job'[r] = j /\ \A q \in Procs \ {r} : job'[q] = job[q]
  BY <1>1
<1>3. /\ j.pc = c /\ j.sid = s /\ j.key = k /\ j.idx = 0 /\ (j.again => Resubmits(s, k))
  BY Zenon DEF Arrived, Idle
<1> QED
  BY <1>2, <1>3

LEMMA ArrivalCourse ==
  ASSUME Inv, Tracked, UNCHANGED <<setting, disk, scan, errors>>, NEW r \in Requests, NEW s \in Sessions,
         NEW sh \in Cfg.shapes, NEW k \in Keys \cup {r}, NEW c \in {"refused", "prehook", "load"},
         Admitted(r, s), job' = [job EXCEPT ![r] = Arrived(s, k, sh, c)], c = "prehook" => Cfg.preHook,
         \A t \in Sessions : store'[t] = store[t] \/ (t = s /\ store'[t] = None /\ c = "refused"),
         \A t \in Sessions : Decided(t)
  PROVE  Course
<1> DEFINE j == Arrived(s, k, sh, c)
<1>1. /\ \A q \in Procs \ {r} : job'[q] = job[q]
      /\ job'[r].pc = c /\ job'[r].sid = s /\ job'[r].key = k /\ job'[r].idx = 0
      /\ job'[r].again => Resubmits(s, k)
  <2>1. TypeOK /\ j = Arrived(s, k, sh, c) /\ job' = [job EXCEPT ![r] = j]
    BY DEF Inv
  <2> HIDE DEF j
  <2> QED
    BY ONLY <2>1, r \in Requests, ArrivedFacts
<1> HIDE DEF j
<1>2. /\ r \in Procs /\ \A q \in Requests : q \in Procs
      /\ job[r].pc = "idle" /\ OpenTo(s)
      /\ Cfg.serial => \A q \in Requests : job[q].sid = s => job[q].pc \notin Active
  BY DEF Procs, Admitted, OpenTo
<1>3. job'[r].again => \E q \in Requests : job[q].sid = s /\ job[q].key = k /\ job[q].pc \in Answered
  BY <1>1 DEF Resubmits
<1>4. Comes(r)
  BY <1>1, <1>2, <1>3 DEF Comes
<1>5. Follows(r)
  BY <1>1, <1>2, CopyingActive, FollowsNothing
<1>6. c = "refused" => \A q \in Requests : job'[q].pc \in Active => job[q].pc \in Active
  BY <1>1, <1>2, CopyingActive
<1>7. \A t \in Sessions : Opens(t) /\ Closes(t) /\ Rows(t)' \in Versions(t)
  BY <1>2, <1>6 DEF Opens, Closes, OpenTo, Versions, Rows
<1> QED
  BY <1>1, <1>2, <1>4, <1>5, <1>7 DEF Course, ScanGoesOn

LEMMA ArriveCourse ==
  ASSUME Inv, Tracked, UNCHANGED setting, NEW r \in Requests, NEW s \in Sessions,
         NEW sh \in Cfg.shapes, NEW k \in Keys \cup {r},
         RefuseResidency(r, s, k, sh) \/ RefuseExhausted(r, s, k, sh) \/ Arrive(r, s, k, sh)
  PROVE  Course
<1>1. CASE RefuseResidency(r, s, k, sh)
  BY <1>1, ArrivalCourse, SilentDecided DEF RefuseResidency, counters
<1>2. CASE RefuseExhausted(r, s, k, sh)
  <2> DEFINE e == Event("SessionEnd", "BudgetExhausted")
             new == <<e>>
  <2>1. e \in EventType /\ e.type # "PermissionDecision"
    BY DEF Event, EventType, EventTypes, Causes
  <2> HIDE DEF e
  <2>2. new \in Seq(EventType) /\ \A j \in DOMAIN new : new[j].type # "PermissionDecision"
    BY <2>1
  <2>3. Emit(s, new)
    BY <1>2 DEF RefuseExhausted, e
  <2>4. \A t \in Sessions : Decided(t)
    BY <2>2, <2>3, Announced DEF Inv
  <2>5. \A t \in Sessions : store'[t] = store[t] \/ (t = s /\ store'[t] = None)
    BY <1>2 DEF RefuseExhausted, Revoke, Inv, TypeOK
  <2> QED
    BY <1>2, <2>4, <2>5, ArrivalCourse DEF RefuseExhausted, counters
<1>3. CASE Arrive(r, s, k, sh)
  <2> DEFINE c == IF Cfg.preHook THEN "prehook" ELSE "load"
  <2>1. job' = [job EXCEPT ![r] = Arrived(s, k, sh, c)] /\ c \in {"refused", "prehook", "load"}
        /\ (c = "prehook" => Cfg.preHook)
    BY <1>3 DEF Arrive
  <2> HIDE DEF c
  <2> QED
    BY <1>3, <2>1, ArrivalCourse, SilentDecided DEF Arrive, counters
<1> QED
  BY <1>1, <1>2, <1>3

LEMMA WriteCourse ==
  ASSUME Inv, Tracked, UNCHANGED setting, NEW s \in Sessions, WriteLands(s) \/ WriteFails(s)
  PROVE  Course
<1> DEFINE p == Head(queue[s])
<1>1. /\ p \in Procs /\ job \in [Procs -> JobType] /\ job[p].sid = s /\ job[p].pc \in Queued
      /\ job[p].rows \in Seq(RowType) /\ job[p].rows # Missing
      /\ job[p].pc \in Copying /\ job[p].pc \in Active \cap Spending
  <2>1. queue[s] # <<>>
    BY DEF WriteLands, WriteFails
  <2>2. p \in Procs /\ job[p].sid = s /\ job[p].pc \in Queued
    BY <2>1, QueueHead DEF Inv
  <2>3. job \in [Procs -> JobType] /\ job[p].rows \in Seq(RowType)
    BY <2>2 DEF Inv, TypeOK, JobType
  <2> HIDE DEF p
  <2> QED
    BY <2>2, <2>3, NothingAssumption
    DEF Queued, Copying, Bracketing, Undecided, Active, Awaiting, Spending
<1>2. \A t \in Sessions : /\ Opens(t) /\ Closes(t) /\ Decided(t)
                          /\ Rows(t)' = Rows(t) \/ (t = s /\ Rows(t)' = job[p].rows)
  <2>1. UNCHANGED <<store, events>>
    BY DEF WriteLands, WriteFails, memory
  <2>2. \/ disk' = disk \/ disk' = [disk EXCEPT ![s] = job[p].rows]
    BY DEF WriteLands, WriteFails
  <2>3. DOMAIN disk = Sessions
    BY DEF Inv, TypeOK
  <2> HIDE DEF p
  <2>4. \A t \in Sessions : Rows(t)' = Rows(t) \/ (t = s /\ Rows(t)' = job[p].rows)
    BY <1>1, <2>2, <2>3 DEF Rows
  <2>5. \A t \in Sessions : Opens(t) /\ Closes(t) /\ Decided(t)
    BY <2>1, SilentDecided DEF Opens, Closes, OpenTo
  <2> QED
    BY <2>4, <2>5
<1>3. \A t \in Sessions : Rows(t)' \in Versions(t)
  <2> HIDE DEF p
  <2> QED
    BY <1>1, <1>2 DEF Versions
<1>4. CASE WriteLands(s)
  <2> DEFINE c == After(job[p].pc)
  <2>1. job' = [job EXCEPT ![p].pc = c] /\ UNCHANGED <<scan, errors>>
    BY <1>1, <1>4 DEF WriteLands, JobType, counters
  <2>2. Rows(s)' = job[p].rows
    <3>1. disk' = [disk EXCEPT ![s] = job[p].rows] /\ DOMAIN disk = Sessions
      BY <1>4 DEF WriteLands, Inv, TypeOK
    <3> HIDE DEF p
    <3> QED
      BY <1>1, <3>1 DEF Rows
  <2> HIDE DEF p, c
  <2>3. /\ c \in Active \cup Final
        /\ \/ job[p].pc = "pending" /\ c = "decide"
           \/ job[p].pc = "compensating" /\ c = "refused"
           \/ job[p].pc = "committing" /\ c = "committed"
           \/ job[p].pc = "resuming" /\ c = "resumed"
    BY <1>1 DEF c, After, Queued, Active, Awaiting, Final
  <2>4. /\ \A q \in Procs \ {p} : job'[q] = job[q]
        /\ job'[p].pc = c /\ job'[p].rows = job[p].rows
        /\ job'[p].sid = job[p].sid /\ job'[p].key = job[p].key /\ job'[p].idx = job[p].idx
        /\ job'[p].shape = job[p].shape /\ job'[p].again = job[p].again
    BY <1>1, <2>1, <2>3, Passes DEF Inv
  <2>5. Follows(p)
    BY <1>1, <2>4, FollowsItself
  <2>6. ASSUME p \in Requests
        PROVE  Goes(p)
    <3>1. c \in Undecided => job[p].pc = "pending" /\ job[p].pc \in Undecided
      BY <2>3 DEF Undecided
    <3>2. c \in Undecided => job'[p].rows[job'[p].idx].phase = "pending"
      BY <2>4, <2>6, <3>1 DEF Tracked
    <3>3. c \notin {"compensating", "committing", "posthook", "accepted", "replayed", "prehook", "load"}
      BY <2>3
    <3>4. job[p].pc \in Active /\ job[p].pc \in Spending /\ job[p].pc # "posthook"
      BY <1>1 DEF Spending
    <3>5. job[p].pc # "load"
      BY <1>1 DEF Queued
    <3>6. c = "refused" => \A t \in Sessions : job[p].sid = t => Rows(t)' = job[p].rows
      BY <1>1, <2>2
    <3>7. c = "committed" =>
            job[p].pc = "committing" /\ \A t \in Sessions : job[p].sid = t => Rows(t)' = job[p].rows
      BY <1>1, <2>2, <2>3
    <3>8. c = "refused" => job[p].pc = "compensating"
      BY <2>3
    <3> QED
      BY <2>3, <2>4, <3>1, <3>2, <3>3, <3>4, <3>5, <3>6, <3>7, <3>8 DEF Goes
  <2>7. TakesUp(p) /\ job[p].pc # "idle"
    BY <1>1, <2>4, CopyingActive DEF TakesUp
  <2>8. \A t \in Sessions : Opens(t) /\ Closes(t) /\ Decided(t)
    BY <1>2 DEF p
  <2> QED
    BY <1>1, <1>3, <2>1, <2>4, <2>5, <2>6, <2>7, <2>8 DEF Course, ScanGoesOn
<1>5. CASE WriteFails(s)
  <2>1. /\ errors' = errors + 1 /\ UNCHANGED scan
        /\ IF p = Scanner THEN job' = [job EXCEPT ![p] = Idle] ELSE Reply(p, "refused")
    BY <1>5 DEF WriteFails, IoErrorHappens
  <2>2. \A t \in Sessions : Opens(t) /\ Closes(t) /\ Decided(t)
    BY <1>2
  <2> HIDE DEF p
  <2>3. \A q \in Procs \ {p} : job'[q] = job[q]
    BY <1>1, <2>1 DEF Reply
  <2>4. /\ job'[p].pc \in {"idle", "refused"} /\ (job'[p].pc = "idle" => p = Scanner)
        /\ p = Scanner => job'[p].pc = "idle"
    BY <1>1, <2>1 DEF Reply, Idle, JobType
  <2>5. {"idle", "refused"} \cap (Active \cup Copying \cup Undecided \cup Spending) = {}
    BY DEF Copying, Bracketing, Undecided, Active, Awaiting, Queued, Spending
  <2>6. Follows(p) /\ TakesUp(p)
    BY <1>1, <2>4, <2>5, FollowsNothing DEF TakesUp
  <2>7. ASSUME p \in Requests
        PROVE  Goes(p)
    <3>1. p # Scanner /\ "refused" \in Active \cup Final
      BY <2>7, ProcsAssumption, PcFacts
    <3>2. /\ job'[p].pc = "refused"
          /\ job'[p].sid = job[p].sid /\ job'[p].key = job[p].key /\ job'[p].idx = job[p].idx
          /\ job'[p].shape = job[p].shape /\ job'[p].again = job[p].again
      BY <1>1, <2>1, <3>1, Passes DEF Inv
    <3>3. job[p].pc # "posthook"
      BY <1>1 DEF Queued
    <3> QED
      BY <1>1, <2>1, <2>5, <3>1, <3>2, <3>3 DEF Goes
  <2> QED
    BY <1>1, <1>3, <2>1, <2>2, <2>3, <2>4, <2>6, <2>7 DEF Course, ScanGoesOn
<1> QED
  BY <1>4, <1>5

(* A step of a reader or of the scan that leaves files, store and failures alone. *)
LEMMA OtherCourse ==
  ASSUME UNCHANGED <<setting, disk, store, errors>>, ScanGoesOn, NEW p \in Procs \ Requests,
         \A q \in Procs \ {p} : job'[q] = job[q], Follows(p), TakesUp(p),
         p = Scanner /\ job'[p].pc # "idle" => scan.pc # "done" \/ job[p].pc # "idle",
         \A s \in Sessions : Decided(s)
  PROVE  Course
<1>1. \A s \in Sessions : Opens(s) /\ Closes(s) /\ Rows(s)' \in Versions(s)
  BY DEF Opens, Closes, OpenTo, Versions, Rows
<1> QED
  BY <1>1 DEF Course

LEMMA SettleCourse ==
  ASSUME Inv, Tracked, UNCHANGED setting, NEW p \in Procs \ Requests, Settle(p)
  PROVE  Course
<1> DEFINE rows == ResumeRows(job[p].rows)
<1>1. /\ job \in [Procs -> JobType] /\ job[p].pc = "settling" /\ job[p].sid \in Sessions
      /\ job[p].rows \in Seq(RowType)
  BY PcFacts DEF Settle, Inv, TypeOK, JobType, Traceless
<1>2. /\ \A q \in Procs \ {p} : job'[q] = job[q]
      /\ job'[p].pc = "resuming" /\ job'[p].rows = rows /\ job'[p].sid = job[p].sid
      /\ UNCHANGED <<disk, store, events, scan, errors>>
  BY <1>1 DEF Settle, memory, counters, JobType
<1>3. \A i \in DOMAIN job[p].rows : job[p].rows[i].aud # NoAudit => job[p].rows[i].phase = "committed"
  BY <1>1, OldRows DEF Inv, AddsNothing, Audited, Vouched
<1>4. Extends(job[p].rows, rows) /\ NoNewHits(job[p].rows, rows)
  BY <1>1, <1>3, ResumeExtends
<1> HIDE DEF rows
<1>5. job[p].pc \in Copying /\ job[p].pc \in Active /\ job[p].pc # "idle"
  BY <1>1, PcFacts DEF Copying
<1>6. Follows(p)
  BY <1>1, <1>2, <1>4, <1>5 DEF Follows, Versions
<1> QED
  BY <1>2, <1>5, <1>6, SilentDecided, OtherCourse DEF TakesUp, ScanGoesOn

(* A reader or the scan reads the file of s. *)
LEMMA CopyCourse ==
  ASSUME Inv, Tracked, UNCHANGED <<setting, disk, store, events, errors>>, ScanGoesOn,
         NEW p \in Procs \ Requests, NEW s \in Sessions, disk[s] # Missing,
         job' = [job EXCEPT ![p].pc = "settling", ![p].sid = s, ![p].rows = disk[s]],
         scan.pc = "scanning" \/ (p # Scanner /\ store[s] = None)
  PROVE  Course
<1>1. job \in [Procs -> JobType]
  BY DEF Inv, TypeOK, JobType
<1>2. /\ \A q \in Procs \ {p} : job'[q] = job[q]
      /\ job'[p].pc = "settling" /\ job'[p].sid = s /\ job'[p].rows = Rows(s)
  BY <1>1 DEF JobType, Rows
<1>3. Follows(p)
  BY <1>2, ExtendsItself DEF Follows, Versions
<1>4. TakesUp(p)
  BY <1>2 DEF TakesUp, OpenTo
<1> QED
  BY <1>2, <1>3, <1>4, SilentDecided, OtherCourse

LEMMA ReaderCourse ==
  ASSUME Inv, Tracked, UNCHANGED setting, NEW x \in Readers,
         (\E s \in Sessions : Hydrate(x, s)) \/ Settle(x) \/ Register(x)
  PROVE  Course
<1>1. x \in Procs \ Requests /\ x # Scanner /\ job \in [Procs -> JobType]
  BY ProcsAssumption DEF Procs, Inv, TypeOK, JobType
<1>2. ASSUME NEW s \in Sessions, Hydrate(x, s)
      PROVE  Course
  BY <1>1, <1>2, CopyCourse DEF Hydrate, memory, counters, ScanGoesOn
<1>3. CASE Register(x)
  <2>1. job[x].pc = "resumed" /\ job[x].sid \in Sessions /\ job[x].pc \in Active
    BY <1>1, <1>3, PcFacts DEF Register, Inv, Traceless, TypeOK
  <2>2. /\ \A q \in Procs \ {x} : job'[q] = job[q]
        /\ job'[x].pc = "served" /\ UNCHANGED <<disk, events, scan, errors>>
    BY <1>1, <1>3 DEF Register, Reply, counters, JobType
  <2>3. \A t \in Sessions : store'[t] = store[t] \/ (t = job[x].sid /\ ~store'[t].canDecide)
    BY <1>3 DEF Register, Inv, TypeOK
  <2>4. "served" \notin Copying \cup Active
    BY DEF Copying, Bracketing, Undecided, Active, Awaiting, Queued
  <2>5. \A t \in Sessions : Opens(t) /\ Closes(t) /\ Decided(t) /\ Rows(t)' \in Versions(t)
    BY <1>1, <2>1, <2>2, <2>3, SilentDecided DEF Opens, Closes, OpenTo, Versions, Rows
  <2>6. Follows(x) /\ TakesUp(x)
    BY <1>1, <2>2, <2>4, FollowsNothing DEF TakesUp
  <2> QED
    BY <1>1, <2>2, <2>5, <2>6 DEF Course, ScanGoesOn
<1> QED
  BY <1>1, <1>2, <1>3, SettleCourse

LEMMA ScanCourse ==
  ASSUME Inv, Tracked, UNCHANGED setting, ScanStep
  PROVE  Course
<1>1. Scanner \in Procs \ Requests /\ job \in [Procs -> JobType]
  BY ProcsAssumption DEF Procs, Inv, TypeOK, JobType
<1>2. UNCHANGED <<job, disk, store, events, errors>> /\ ScanGoesOn => Course
  BY SilentDecided DEF Course, Opens, Closes, OpenTo, Versions, Rows
<1>3. CASE ScanList
  <2>1. scan'.pc = "scanning" /\ scan.pc = "list"
    BY <1>3 DEF ScanList, Inv, Listed, ScanType
  <2> QED
    BY <1>2, <1>3, <2>1 DEF ScanList, memory, counters, ScanGoesOn
<1>4. CASE ScanDone
  <2>1. scan'.pc = "done"
    BY <1>4 DEF ScanDone, Inv, Listed, ScanType
  <2> QED
    BY <1>2, <1>4, <2>1 DEF ScanDone, counters, ScanGoesOn
<1>5. ASSUME NEW s \in Sessions, ScanNext(s)
      PROVE  Course
  <2>1. scan.pc = "scanning" /\ scan'.pc = "scanning" /\ disk[s] # Missing
    BY <1>5 DEF ScanNext, Inv, Listed, ScanType
  <2> QED
    BY <1>1, <1>5, <2>1, CopyCourse DEF ScanNext, memory, counters, ScanGoesOn
<1>6. CASE ScanResumed
  <2> DEFINE e == Event("CrashEvent", Scanner)
             new == IF scan.open THEN <<e>> ELSE <<>>
  <2>1. e \in EventType /\ e.type # "PermissionDecision"
    BY <1>1 DEF Event, EventType, EventTypes, Causes
  <2> HIDE DEF e
  <2>2. new \in Seq(EventType) /\ \A j \in DOMAIN new : new[j].type # "PermissionDecision"
    BY <2>1
  <2>3. job[Scanner].sid \in Sessions /\ Emit(job[Scanner].sid, new)
    BY <1>1, <1>6, PcFacts DEF ScanResumed, Inv, Traceless, TypeOK, e
  <2> HIDE DEF new
  <2>4. \A s \in Sessions : Decided(s)
    BY <2>2, <2>3, Announced DEF Inv
  <2>5. /\ \A q \in Procs \ {Scanner} : job'[q] = job[q]
        /\ job'[Scanner].pc = "idle" /\ UNCHANGED <<disk, store, scan, errors>>
    BY <1>1, <1>6 DEF ScanResumed, Idle, counters
  <2>6. "idle" \notin Copying \cup Active
    BY CopyingActive
  <2> QED
    BY <1>1, <2>4, <2>5, <2>6, FollowsNothing, OtherCourse DEF TakesUp, ScanGoesOn
<1> QED
  BY <1>1, <1>3, <1>4, <1>5, <1>6, SettleCourse DEF ScanStep

LEMMA SessionCourse ==
  ASSUME Inv, Tracked, UNCHANGED setting, NEW s \in Sessions,
         CreateSession(s) \/ CreateFails(s) \/ Reentry(s)
  PROVE  Course
<1>1. CASE CreateSession(s)
  <2> DEFINE start == Event("SessionStart", None)
             end == Event("SessionEnd", "MemoryDegraded")
             new == <<start>> \o (IF Cfg.memoryFails THEN <<end>> ELSE <<>>)
  <2>1. /\ start \in EventType /\ end \in EventType
        /\ start.type # "PermissionDecision" /\ end.type # "PermissionDecision"
    BY DEF Event, EventType, EventTypes, Causes
  <2>2. Emit(s, new)
    BY <1>1 DEF CreateSession
  <2> HIDE DEF start, end
  <2>3. new \in Seq(EventType) /\ \A j \in DOMAIN new : new[j].type # "PermissionDecision"
    BY <2>1
  <2> HIDE DEF new
  <2>4. \A t \in Sessions : Decided(t)
    BY <2>2, <2>3, Announced DEF Inv
  <2>5. /\ s \notin born /\ ClientsMayCome /\ store[s] = None
        /\ \A t \in Sessions \ {s} : store'[t] = store[t]
    BY <1>1 DEF CreateSession, Inv, TypeOK, Traceless
  <2>6. \A t \in Sessions : Rows(t)' = Rows(t)
    BY <1>1 DEF CreateSession, Inv, TypeOK, Traceless, Rows
  <2>7. \A t \in Sessions : Opens(t) /\ Closes(t) /\ Rows(t)' \in Versions(t)
    BY <2>5, <2>6 DEF Opens, Closes, OpenTo, Versions
  <2> QED
    BY <1>1, <2>4, <2>7 DEF Course, CreateSession, counters, ScanGoesOn
<1>2. CASE CreateFails(s)
  <2>1. \A t \in Sessions : Rows(t)' = Rows(t)
    BY <1>2 DEF CreateFails, Inv, TypeOK, Traceless, Rows
  <2>2. \A t \in Sessions : Opens(t) /\ Closes(t) /\ Rows(t)' \in Versions(t) /\ Decided(t)
    BY <1>2, <2>1, SilentDecided DEF CreateFails, memory, Opens, Closes, OpenTo, Versions
  <2> QED
    BY <1>2, <2>2 DEF Course, CreateFails, IoErrorHappens, ScanGoesOn
<1>3. CASE Reentry(s)
  <2> DEFINE e == Event("SessionEnd", "HookReentrancy")
             new == <<e>>
  <2>1. e \in EventType /\ e.type # "PermissionDecision"
    BY DEF Event, EventType, EventTypes, Causes
  <2>2. Emit(s, new)
    BY <1>3 DEF Reentry
  <2> HIDE DEF e
  <2>3. new \in Seq(EventType) /\ \A j \in DOMAIN new : new[j].type # "PermissionDecision"
    BY <2>1
  <2> HIDE DEF new
  <2>4. \A t \in Sessions : Decided(t)
    BY <2>2, <2>3, Announced DEF Inv
  <2>5. \A t \in Sessions : store'[t] = store[t] \/ (t = s /\ store'[t] = None)
    BY <1>3 DEF Reentry, Revoke, Inv, TypeOK
  <2>6. \A t \in Sessions : Opens(t) /\ Closes(t) /\ Rows(t)' \in Versions(t)
    BY <1>3, <2>5 DEF Reentry, Opens, Closes, OpenTo, Versions, Rows
  <2> QED
    BY <1>3, <2>4, <2>6 DEF Course, Reentry, counters, ScanGoesOn
<1> QED
  BY <1>1, <1>2, <1>3
-----------------------------------------------------------------------------
(* A crash ends every process in flight; a file keeps a version that it could have had. *)
LEMMA CrashKeepsRemembering ==
  ASSUME Inv, Remembering, UNCHANGED setting, Crash
  PROVE  Remembering'
<1>1. Cfg' = Cfg /\ (Careful' <=> Careful)
  BY DEF Cfg, Careful
<1>2. /\ job \in [Procs -> JobType] /\ Scanner \notin Requests /\ errors' = errors
      /\ Scanner \in Procs /\ Requests \subseteq Procs
      /\ \A p \in Procs :
           job'[p] = IF p = Scanner THEN Idle
                     ELSE IF job[p].pc \in Active THEN [job[p] EXCEPT !.pc = "lost", !.rows = <<>>]
                     ELSE job[p]
  BY ProcsAssumption DEF Inv, TypeOK, JobType, Crash, Procs
<1>3. {"lost", "idle"} \cap Active = {} /\ Idle.pc = "idle"
  BY DEF Active, Awaiting, Queued, Idle
<1>4. /\ \A p \in Procs : job'[p].pc \notin Active
      /\ \A r \in Requests : job'[r].pc = "lost" \/ job'[r] = job[r]
      /\ job'[Scanner].pc = "idle"
  <2>1. \A p \in Procs : [job[p] EXCEPT !.pc = "lost", !.rows = <<>>].pc = "lost"
    BY <1>2 DEF JobType
  <2>2. job'[Scanner] = Idle
    BY <1>2
  <2>3. ASSUME NEW p \in Procs \ {Scanner}
        PROVE  job'[p].pc \notin Active /\ (job'[p].pc = "lost" \/ job'[p] = job[p])
    BY <1>2, <1>3, <2>1
  <2> QED
    BY <1>2, <1>3, <2>2, <2>3
<1>5. /\ \A s \in Sessions : events'[s] = <<>> /\ ~OpenTo(s)'
  BY DEF Crash, OpenTo
<1>6. \A r \in Requests : ~Waiting(r)' /\ job'[r].pc \notin Undecided \cup Spending
  BY <1>2, <1>4, CopyingActive DEF Waiting
<1>7. ASSUME NEW s \in Sessions
      PROVE  Versions(s)' = {Rows(s)'} /\ Rows(s)' \in Versions(s)
  <2>1. Versions(s)' = {Rows(s)'}
    BY <1>4, CopyingActive, LoneVersion
  <2>2. disk'[s] = disk[s] \/ (queue[s] # <<>> /\ disk'[s] = job[Head(queue[s])].rows)
    BY DEF Crash
  <2>3. CASE disk'[s] = disk[s]
    BY <2>1, <2>3 DEF Versions, Rows
  <2>4. ASSUME queue[s] # <<>>, disk'[s] = job[Head(queue[s])].rows
        PROVE  Rows(s)' \in Versions(s)
    <3> DEFINE p == Head(queue[s])
    <3>1. p \in Procs /\ job[p].sid = s /\ job[p].pc \in Queued
      BY <2>4, QueueHead DEF Inv
    <3> HIDE DEF p
    <3>2. job[p].rows # Missing /\ job[p].pc \in Copying
      BY <1>2, <3>1, NothingAssumption DEF JobType, Queued, Copying, Bracketing, Undecided
    <3> QED
      BY <2>4, <3>1, <3>2 DEF p, Versions, Rows
  <2> QED
    BY <2>1, <2>2, <2>3, <2>4
<1>8. Tracked'
  <2>1. \A r \in Requests : job'[r].pc \notin {"prehook", "compensating", "committing"}
    BY <1>6, CopyingActive
  <2>2. errors' \in Nat
    BY <1>2 DEF Remembering, Tracked
  <2> QED
    BY <1>4, <1>5, <1>6, <2>1, <2>2 DEF Tracked
<1>9. (Solo /\ Quiet /\ Agreeing /\ Remembered /\ Resubmitted)'
  BY <1>2, <1>4, <1>5, <1>6 DEF Solo, Quiet, Agreeing, Remembered, Resubmitted, Consulted
<1>10. ASSUME Careful, ~Cfg.preHook
       PROVE  (Attended /\ Kept /\ Withdrawn)'
  <2>1. Kept /\ Withdrawn
    BY <1>10 DEF Remembering
  <2>2. Attended'
    BY <1>6 DEF Attended
  <2>3. \A r \in Requests :
          job'[r].pc \in {"committed", "posthook", "accepted", "refused"} => job'[r] = job[r]
    BY <1>4
  <2>4. Kept'
    BY <1>7, <2>1, <2>3 DEF Kept, Recorded
  <2>5. Withdrawn'
    <3> SUFFICES ASSUME Cfg.pda, errors = 0, NEW s \in Sessions, NEW r \in Requests, job'[r].sid = s,
                        job'[r].pc = "refused", job'[r].idx # 0, job'[r].shape.pda # "unusable",
                        NEW v \in Versions(s)'
                 PROVE  job'[r].idx \in DOMAIN v /\ v[job'[r].idx].phase = "compensated"
      BY <1>1, <1>2 DEF Withdrawn
    <3>1. v \in Versions(s) /\ job'[r] = job[r]
      BY <1>7, <2>3
    <3> QED
      BY <2>1, <3>1 DEF Withdrawn
  <2> QED
    BY <2>2, <2>4, <2>5
<1> QED
  BY <1>1, <1>8, <1>9, <1>10 DEF Remembering

LEMMA CourseKeepsRemembering ==
  ASSUME Inv, Remembering, Course
  PROVE  Remembering'
<1>1. Cfg' = Cfg /\ (Careful' <=> Careful)
  BY DEF Cfg, Careful, Course
<1>2. Tracked /\ Traceless /\ TypeOK /\ Keyed /\ Bracketed
  BY DEF Inv, Remembering
<1>3. ASSUME Careful
      PROVE  (Solo /\ Quiet /\ Agreeing /\ Remembered /\ Resubmitted)'
  BY <1>2, <1>3, CourseKeepsSolo, CourseKeepsQuiet, CourseKeepsAgreeing, CourseKeepsRemembered,
     CourseKeepsResubmitted DEF Remembering, Careful
<1>4. ASSUME Careful, ~Cfg.preHook
      PROVE  (Attended /\ Kept /\ Withdrawn)'
  BY <1>2, <1>4, CourseKeepsAttended, CourseKeepsKept, CourseKeepsWithdrawn DEF Remembering, Careful
<1>5. Tracked'
  BY <1>2, CourseKeepsTracked
<1> QED
  BY <1>1, <1>3, <1>4, <1>5 DEF Remembering

LEMMA StepCourse ==
  ASSUME Inv, Tracked, [Next]_vars
  PROVE  Course \/ (Crash /\ UNCHANGED setting)
<1>1. CASE UNCHANGED vars
  BY <1>1, SilentDecided DEF vars, memory, counters, Course, Opens, Closes, OpenTo, Versions, Rows, ScanGoesOn
<1>2. CASE Next
  <2>1. UNCHANGED setting /\ Step
    BY <1>2 DEF Next
  <2>2. ASSUME NEW s \in Sessions,
               CreateSession(s) \/ CreateFails(s) \/ Reentry(s) \/ WriteLands(s) \/ WriteFails(s)
        PROVE  Course
    BY <2>1, <2>2, SessionCourse, WriteCourse
  <2>3. ASSUME NEW r \in Requests, NEW s \in Sessions, NEW sh \in Cfg.shapes, NEW k \in Keys \cup {r},
               RefuseResidency(r, s, k, sh) \/ RefuseExhausted(r, s, k, sh) \/ Arrive(r, s, k, sh)
        PROVE  Course
    BY <2>1, <2>3, ArriveCourse
  <2>4. ASSUME NEW r \in Requests, Progress(r) \/ LoadFails(r) \/ SinkFails(r)
        PROVE  Course
    BY <2>1, <2>4, ProgressCourse
  <2>5. ASSUME NEW x \in Readers, (\E s \in Sessions : Hydrate(x, s)) \/ Settle(x) \/ Register(x)
        PROVE  Course
    BY <2>1, <2>5, ReaderCourse
  <2>6. CASE ScanStep
    BY <2>1, <2>6, ScanCourse
  <2> QED
    BY <2>1, <2>2, <2>3, <2>4, <2>5, <2>6 DEF Step
<1> QED
  BY <1>1, <1>2

LEMMA NextRemembering ==
  ASSUME Inv, Remembering, [Next]_vars
  PROVE  Remembering'
<1>1. Tracked
  BY DEF Remembering
<1> QED
  BY <1>1, StepCourse, CourseKeepsRemembering, CrashKeepsRemembering

LEMMA InitRemembering == Init => Remembering
<1> SUFFICES ASSUME Init
             PROVE  Remembering
  OBVIOUS
<1>1. /\ \A p \in Procs : job[p] = Idle /\ job[p].pc = "idle" /\ ~job[p].again
      /\ \A s \in Sessions : ~OpenTo(s) /\ events[s] = <<>>
      /\ errors = 0 /\ scan.pc = "list" /\ Requests \subseteq Procs
  BY DEF Init, Idle, OpenTo, Procs, NoScan
<1>2. "idle" \notin Active \cup Copying \cup Spending \cup Undecided
  BY CopyingActive
<1>3. \A r \in Requests : ~Waiting(r)
  BY <1>1 DEF Waiting
<1>4. Tracked
  BY <1>1, <1>2, <1>3 DEF Tracked
<1>5. Solo /\ Quiet /\ Agreeing /\ Remembered /\ Resubmitted
  BY <1>1, <1>2, <1>3 DEF Solo, Quiet, Agreeing, Remembered, Resubmitted, Consulted
<1>6. Attended /\ Kept /\ Withdrawn
  BY <1>1, <1>2 DEF Attended, Kept, Withdrawn
<1> QED
  BY <1>4, <1>5, <1>6 DEF Remembering

(* decisions-route.ts 1004-1142 and 1318-1323: with careful clients, what a request has left
   in a session file stays there, in the file and in every copy that may still be written. *)
THEOREM FilesRemember == Spec => []Remembering
  BY InitRemembering, Inductive, NextRemembering, PTL DEF Spec

(* decisions-route.ts 1140-1142: a PermissionDecision event of a careful client is backed by
   the committed row in the session file, now and after every later write or crash. *)
THEOREM DecisionsDurable == Spec => []DecisionEventDurable
<1>1. Remembering => DecisionEventDurable
  <2> SUFFICES ASSUME Remembering, Careful, ~Cfg.preHook, NEW s \in Sessions,
                      NEW i \in DOMAIN events[s], events[s][i].type = "PermissionDecision"
               PROVE  LET r == events[s][i].by IN
                      /\ job[r].idx \in DOMAIN Rows(s)
                      /\ Rows(s)[job[r].idx] = [key |-> job[r].key, phase |-> "committed", aud |-> r]
    BY DEF DecisionEventDurable
  <2> DEFINE r == events[s][i].by
  <2>1. r \in Requests /\ job[r].sid = s /\ job[r].pc \in {"posthook", "accepted"}
    BY DEF Remembering, Tracked
  <2> HIDE DEF r
  <2>2. Rows(s) \in Versions(s) /\ Kept
    BY DEF Versions, Remembering
  <2>3. job[r].idx \in DOMAIN Rows(s) /\ Rows(s)[job[r].idx] = Recorded(r)
    BY <2>1, <2>2 DEF Kept
  <2> QED
    BY <2>3 DEF r, Recorded
<1> QED
  BY <1>1, FilesRemember, PTL

(* decisions-route.ts 1318-1323: the row of a refused request of a careful client is
   compensated in the file, whatever copy was written since: no resume replays it. *)
THEOREM RefusalsWithdrawn == Spec => []RefusedNotReplayed
<1>1. Inv /\ Remembering => RefusedNotReplayed
  <2> SUFFICES ASSUME Inv, Remembering, Careful, ~Cfg.preHook, Cfg.pda, errors = 0, NEW r \in Requests,
                      job[r].pc = "refused", job[r].idx # 0, job[r].shape.pda # "unusable"
               PROVE  /\ job[r].idx \in DOMAIN Rows(job[r].sid)
                      /\ Rows(job[r].sid)[job[r].idx].phase = "compensated"
    BY DEF RefusedNotReplayed
  <2>1. job[r].sid \in Sessions
    BY DEF Inv, Traceless, TypeOK, Procs
  <2>2. \A s \in Sessions : Rows(s) \in Versions(s)
    BY DEF Versions
  <2> QED
    BY <2>1, <2>2 DEF Remembering, Withdrawn
<1> QED
  BY <1>1, Inductive, FilesRemember, PTL

(* A decision is audited in the bracket of its request. *)
LEMMA WhoDecides ==
  ASSUME Inv, [Next]_vars, NEW r \in ever' \ ever
  PROVE  r \in Requests /\ job[r].pc \in Undecided
<1>1. CASE UNCHANGED vars
  BY <1>1 DEF vars
<1>2. CASE Next
  <2>1. ASSUME NEW q \in Requests, Decide(q) \/ Verify(q) \/ Escalated(q)
        PROVE  job[q].pc \in Undecided /\ ever' \subseteq ever \cup {q}
    <3>1. job[q].pc \in Undecided
      BY <2>1 DEF Decide, Verify, Escalated, Undecided
    <3>2. AppendDecision(q) \/ Compensate(q) \/ LeavePending(q) => ever' \subseteq ever \cup {q}
      BY DEF AppendDecision, Compensate, LeavePending
    <3>3. AcceptOrMismatch(q) \/ RefuseEscalation(q) => ever' \subseteq ever \cup {q}
      BY <3>2 DEF AcceptOrMismatch, RefuseEscalation
    <3>4. ValidPda(q) => ever' \subseteq ever \cup {q}
      BY <3>2, <3>3 DEF ValidPda
    <3> QED
      BY <2>1, <3>1, <3>2, <3>3, <3>4 DEF Decide, Verify, Escalated
  <2>2. ASSUME NEW q \in Requests, Progress(q) \/ LoadFails(q) \/ SinkFails(q),
               ~(Decide(q) \/ Verify(q) \/ Escalated(q))
        PROVE  ever' = ever
    BY <2>2 DEF Progress, PreHookPasses, PreHookDenies, Replay, OpenBracket, Commit, Finish, PostHook,
                LoadFails, SinkFails
  <2>3. ASSUME NEW q \in Requests, NEW s \in Sessions, NEW sh \in Cfg.shapes, NEW k \in Keys \cup {q},
               RefuseResidency(q, s, k, sh) \/ RefuseExhausted(q, s, k, sh) \/ Arrive(q, s, k, sh)
        PROVE  ever' = ever
    BY <2>3 DEF RefuseResidency, RefuseExhausted, Arrive
  <2>4. ASSUME NEW s \in Sessions,
               CreateSession(s) \/ CreateFails(s) \/ Reentry(s) \/ WriteLands(s) \/ WriteFails(s)
        PROVE  ever' = ever
    BY <2>4 DEF CreateSession, CreateFails, Reentry, WriteLands, WriteFails
  <2>5. ASSUME NEW x \in Readers, (\E s \in Sessions : Hydrate(x, s)) \/ Settle(x) \/ Register(x)
        PROVE  ever' = ever
    BY <2>5 DEF Hydrate, Settle, Register
  <2>6. CASE ScanStep
    BY <2>6 DEF ScanStep, ScanList, Settle, ScanResumed, ScanDone, ScanNext
  <2>7. CASE Crash
    BY <2>7 DEF Crash
  <2> QED
    BY <1>2, <2>1, <2>2, <2>3, <2>4, <2>5, <2>6, <2>7 DEF Next, Step
<1> QED
  BY <1>1, <1>2

(* decisions-route.ts 274-275: a careful client that submits an answered request again gets
   the recorded answer, and no second decision is audited. *)
THEOREM ResubmitsReplay == Spec => SerialResubmitReplays
<1>1. ASSUME Inv, Remembering, [Next]_vars, Careful, NEW r \in ever' \ ever
      PROVE  ~job[r].again
  <2>1. r \in Requests /\ job[r].pc \in Undecided
    BY <1>1, WhoDecides
  <2> QED
    BY <1>1, <2>1 DEF Remembering, Resubmitted
<1>2. ASSUME Inv, Remembering, [Next]_vars
      PROVE  [Careful => \A r \in ever' \ ever : ~job[r].again]_vars
  BY <1>1, <1>2
<1> QED
  BY <1>2, Inductive, FilesRemember, PTL DEF Spec, SerialResubmitReplays
-----------------------------------------------------------------------------
(* The resolver that a decision asks: what layers of configuration can and cannot do. *)

(* How far a query decision goes in refusing. *)
Severity(decision) ==
  IF decision = "AutoAllow" THEN 0 ELSE IF decision = "Prompt" THEN 1 ELSE 2

(* The order of the capabilities, ReadOnly < WorkspaceWrite < DangerFullAccess. *)
AtMost(less, more) ==
  \/ less = "ReadOnly"
  \/ less = "WorkspaceWrite" /\ more # "ReadOnly"
  \/ more = "DangerFullAccess"

(* No entry of a card makes a decision milder than the registry's default
   alone would: the override tightens or is refused (resolver.ts step 3). *)
THEOREM CardOnlyTightens ==
  ASSUME NEW capability \in Capabilities, NEW risk \in RiskClasses,
         NEW default \in Controls, NEW requirement \in Requirements
  PROVE  Severity(QueryDecision(capability, risk, default, requirement))
           >= Severity(QueryDecision(capability, risk, default, "none"))
<1>1. CASE risk \notin Permits(capability)
  BY <1>1 DEF QueryDecision, Severity
<1>2. CASE risk \in Permits(capability)
  <2>1. QueryDecision(capability, risk, default, "none") = default
    BY <1>2 DEF QueryDecision, Loosens, Tightened
  <2>2. CASE Loosens(default, requirement)
    BY <1>2, <2>1, <2>2 DEF QueryDecision, Severity, Controls
  <2>3. CASE ~Loosens(default, requirement)
    <3>1. QueryDecision(capability, risk, default, requirement)
            = Tightened(default, requirement)
      BY <1>2, <2>3 DEF QueryDecision
    <3>2. CASE requirement = "none"
      BY <2>1, <3>1, <3>2 DEF Tightened, Severity, Controls
    <3>3. CASE requirement # "none"
      BY <2>1, <2>3, <3>1, <3>3
         DEF Loosens, Tightened, Rank, Severity, Controls, Requirements
    <3> QED BY <3>2, <3>3
  <2> QED BY <2>2, <2>3
<1> QED BY <1>1, <1>2

(* A session granted less can do nothing a session granted more cannot. *)
THEOREM LessCapableDecidesStricter ==
  ASSUME NEW less \in Capabilities, NEW more \in Capabilities, AtMost(less, more),
         NEW risk \in RiskClasses, NEW default \in Controls,
         NEW requirement \in Requirements
  PROVE  Severity(QueryDecision(less, risk, default, requirement))
           >= Severity(QueryDecision(more, risk, default, requirement))
<1>1. Permits(less) \subseteq Permits(more)
  BY DEF Permits, AtMost, Capabilities, RiskClasses
<1>2. QueryDecision(more, risk, default, requirement) \in
        Controls \cup {"CapabilityDenied", "ConfigPrecedenceViolation"}
  BY DEF QueryDecision, Tightened, Requirements, Controls
<1>3. Severity(QueryDecision(more, risk, default, requirement)) \in 0 .. 2
  BY <1>2 DEF Severity, Controls
<1>4. CASE risk \notin Permits(less)
  <2>1. Severity(QueryDecision(less, risk, default, requirement)) = 2
    BY <1>4 DEF QueryDecision, Severity
  <2> QED BY <1>3, <2>1
<1>5. CASE risk \in Permits(less)
  <2>1. QueryDecision(less, risk, default, requirement)
          = QueryDecision(more, risk, default, requirement)
    BY <1>1, <1>5 DEF QueryDecision
  <2> QED BY <1>3, <2>1
<1> QED BY <1>4, <1>5

(* The two resolvers agree: what the dispatching one allows, the query one
   answered AutoAllow, or Prompt and a verified PDA says allow; so the answer
   of GET /permissions/resolve is no milder than the decision. *)
THEOREM ResolversAgree ==
  ASSUME NEW capability \in Capabilities, NEW risk \in RiskClasses,
         NEW default \in Controls, NEW requirement \in Requirements,
         NEW role \in Roles, NEW attested \in Attested,
         Resolution(capability, risk, default, requirement, role, attested) = "allow"
  PROVE  LET d == QueryDecision(capability, risk, default, requirement)
         IN  /\ d = "AutoAllow" \/ (d = "Prompt" /\ attested = "allow")
             /\ "allow" \in Implied(d)
<1> DEFINE control == Tightened(default, requirement)
<1>1. /\ risk \in Permits(capability)
      /\ ~Loosens(default, requirement)
      /\ control # "Deny"
  BY DEF Resolution
<1>2. control \in {"AutoAllow", "Prompt"}
  BY <1>1 DEF Tightened, Controls, Requirements
<1>3. QueryDecision(capability, risk, default, requirement) = control
  BY <1>1 DEF QueryDecision
<1>4. control = "Prompt" => attested = "allow"
  BY <1>1 DEF Resolution, Attested
<1> QED
  BY <1>2, <1>3, <1>4 DEF Implied
=============================================================================
