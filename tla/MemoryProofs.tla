---------------------------- MODULE MemoryProofs ----------------------------
(***************************************************************************)
(* The guarantees of a memory server and of the Runner that uses it, for   *)
(* any number of callers, note ids and documents, every kind of backend,   *)
(* fault and restart.                                                      *)
(***************************************************************************)
EXTENDS Memory, FiniteSetTheorems, SequenceTheorems, TLAPS

-----------------------------------------------------------------------------
(* The invariant.                                                          *)

Note == [name : Names, id : Names \cup {Foreign, None}, sens : BOOLEAN]
Document == [id : Ids \cup {Foreign, None}, sens : BOOLEAN]
Found == [uuid : Docs, doc : Document]

Ops == RunnerOps \cup {"add", "delete", "read", "bytime"}
Places == {"sent", "scoring", "service", "found", "answered", "lost"}

CallType ==
  [op : Ops, x : Names \cup {None}, sens : BOOLEAN, at : Places, waiting : BOOLEAN,
   res : {None, "ok", "error"}, hits : SUBSET (Note \cup Found), gone : SUBSET Names,
   uuid : Nat, ranAt : Nat]

Outcome == [res : {"ok", "error", "timeout"}, ended : BOOLEAN]

\* What a server and its service hold.
Stored ==
  /\ kind \in Kinds
  /\ recs \in [Names -> {"none", "seed", "new", "old"}]
  /\ tombs \in Nat /\ tomb \in [Names -> 0..tombs]
  /\ nDocs \in Nat /\ uuidOf \in [Names -> 0..nDocs]
  /\ docs \in [Docs -> Document \cup {None}]
  /\ nameOf \in [Docs -> Names \cup {None}]

\* A document has a uuid the service has given out, and is somebody else's if it is sensitive.
Catalogued ==
  /\ \A u \in Docs : docs[u] # None => u <= nDocs /\ (docs[u].id = Foreign <=> docs[u].sens)
  /\ \A u \in Docs : nameOf[u] # None => u <= nDocs

\* The answered deletions and additions, as the server remembers them.
Remembered ==
  /\ gone \in SUBSET Names /\ kept \in SUBSET Names /\ told \in [Names -> SUBSET Nat]
  /\ \A x \in gone : tomb[x] # 0
  /\ AddedIsReadable
  /\ \A x \in Names \ crossed :
       /\ told[x] \subseteq {tomb[x]}
       /\ tomb[x] = 0 => told[x] = {}

\* The service is deleting the note that c named x.
Deletes(c, x) == job[c].op = "delete" /\ job[c].x = x /\ job[c].at \in {"service", "found"}

\* Two deletions of a note are under way only if the history says that they crossed.
Lone ==
  \A x \in Names \ crossed : \A c, d \in Callers :
    Deletes(c, x) => tomb[x] = 0 /\ (Deletes(d, x) => c = d)

\* What a search may answer: notes that were not deleted when it began, and the foreign
\* one as sensitive.
Presentable(c) ==
  \A h \in job[c].hits :
    h \in Note /\ h.name \notin job[c].gone /\ (h.id = Foreign => h.sens)

\* What each operation names.
Addressed(c) ==
  /\ job[c].op = "delete" => job[c].x \in Names
  /\ job[c].op = "add" => job[c].x \in Ids \cup {None} /\ (kind # "mem0" => job[c].x \in Ids)
  /\ job[c].op = "read" => job[c].x \in Ids

\* Where a call may be, and what its handler then knows.
Placed(c) ==
  /\ job[c].at = "scoring" => job[c].op \in Searches
  /\ job[c].at \in {"service", "found"} =>
       /\ kind \in Remote /\ job[c].op \in Searches \cup {"bytime", "add", "delete"}
       /\ job[c].op \in Searches \cup {"bytime"} => \A x \in job[c].gone : tomb[x] # 0
       /\ job[c].op = "add" => ~job[c].sens
       /\ job[c].op = "delete" => uuidOf[job[c].x] # 0
  /\ job[c].at = "found" =>
       /\ job[c].op = "add" => job[c].uuid \in 1..nDocs /\ job[c].uuid \in Docs
       /\ job[c].op \in Searches => \A h \in job[c].hits :
            h \in Found /\ h.uuid <= nDocs /\ (h.doc.id = Foreign <=> h.doc.sens)
  /\ job[c].at = "scoring" \/ (Told(c) /\ job[c].op \in Searches \cup {"bytime"}) => Presentable(c)

\* The calls of the servers' clients.
Called ==
  /\ job \in [Callers -> CallType \cup {Idle}]
  /\ \A c \in Callers : job[c].op # "none" => Addressed(c) /\ Placed(c)

\* The notes of a memory server are in order, and what becomes of the calls follows.
Kept == Stored /\ Catalogued /\ Remembered /\ Lone /\ Called

\* The service has given out the uuid of the seed that Zep pushes.
Pushed == primed \in Docs => primed <= nDocs

-----------------------------------------------------------------------------

Waits(c, op) == job[c].op = op /\ job[c].waiting

\* Only a call that somebody waits for is answered or lost.
Awaited ==
  \A c \in Callers : job[c].op # "none" /\ job[c].at \in {"answered", "lost"} =>
    /\ job[c].waiting
    /\ job[c].at = "answered" => job[c].res \in {"ok", "error"}

\* One probe at a time, until the Runner is ready or has given up.
Probing ==
  /\ ready \in {"pending", "ready", "unavailable"} /\ attempts \in 0..MaxAttempts
  /\ ready = "pending" => attempts < MaxAttempts
  /\ \A c \in Callers : Waits(c, "probe") => ready = "pending"
  /\ \A c, d \in Callers : Waits(c, "probe") /\ Waits(d, "probe") => c = d

\* The scheduler's time is that of the newest run, unless two runs overlapped.
Scheduled ==
  /\ clock \in Nat /\ lastRun \in 0..clock /\ noteCount \in 0..NoteThreshold - 1
  /\ runs \in [ok : 0..clock, overlap : BOOLEAN, early : BOOLEAN]
  /\ NoEarlyRun
  /\ \A c \in Callers : Waits(c, "consolidate") => job[c].ranAt <= clock
  /\ ~runs.overlap =>
       /\ runs.ok <= lastRun
       /\ \A c \in Callers : Waits(c, "consolidate") => lastRun <= job[c].ranAt
       /\ \A c, d \in Callers : Waits(c, "consolidate") /\ Waits(d, "consolidate") => c = d

\* The tracker's count is that of the timeouts since the last success.
Tracked ==
  /\ log \in Seq(Outcome) /\ fails \in 0..Len(log)
  /\ fails = TimeoutsSinceOk(Len(log))
  /\ DegradedExact

\* What the last prefetch recorded is fit for a session's context.
Clean == Foreign \notin inContext

Inv == Kept /\ Pushed /\ Awaited /\ Probing /\ Scheduled /\ Tracked /\ Clean

-----------------------------------------------------------------------------
(* Calls.                                                                  *)

\* Nothing that a call in the service relies on is undone.
Grows ==
  /\ kind' = kind /\ nDocs' >= nDocs
  /\ \A x \in Names : (tomb[x] # 0 => tomb'[x] # 0) /\ (uuidOf[x] # 0 => uuidOf'[x] # 0)

\* Only the call of c moves, to where it may be.
Lands(c) ==
  /\ job' \in [Callers -> CallType \cup {Idle}]
  /\ \A d \in Callers \ {c} : job'[d] = job[d]
  /\ job'[c].op # "none" => (Addressed(c) /\ Placed(c))'

\* The call moves, and deletes nothing then that it did not delete before.
Settles(c) == Lands(c) /\ \A x : Deletes(c, x)' => Deletes(c, x)

\* The call is answered, or nobody waits for the answer.
Closes(c) == Lands(c) /\ \A x : ~Deletes(c, x)'

LEMMA CallTypes ==
  ASSUME Called, NEW c \in Callers, job[c].op # "none"
  PROVE  job[c] \in CallType /\ Addressed(c) /\ Placed(c)
  BY DEF Called, Idle

LEMMA UntouchedStays ==
  ASSUME Called, Grows, Stored, Stored', NEW d \in Callers, job'[d] = job[d], job[d].op # "none"
  PROVE  (Addressed(d) /\ Placed(d))'
<1>1. job'[d] = job[d] /\ job[d] \in CallType /\ Addressed(d) /\ Placed(d)
  BY CallTypes
<1>2. Addressed(d)'
  BY <1>1 DEF Addressed, Grows
<1>3. Presentable(d) => Presentable(d)'
  BY <1>1 DEF Presentable
<1>4. Told(d)' <=> Told(d)
  BY <1>1 DEF Told
<1>5. ASSUME job[d].at \in {"service", "found"}
      PROVE  /\ kind' \in Remote /\ job[d].op \in Searches \cup {"bytime", "add", "delete"}
             /\ job[d].op \in Searches \cup {"bytime"} => \A x \in job[d].gone : tomb'[x] # 0
             /\ job[d].op = "add" => ~job[d].sens
             /\ job[d].op = "delete" => uuidOf'[job[d].x] # 0
  BY <1>1, <1>5 DEF Placed, Grows, CallType, Addressed
<1>6. ASSUME job[d].at = "found"
      PROVE  /\ job[d].op = "add" => job[d].uuid \in 1..nDocs' /\ job[d].uuid \in Docs
             /\ job[d].op \in Searches => \A h \in job[d].hits :
                  h \in Found /\ h.uuid <= nDocs' /\ (h.doc.id = Foreign <=> h.doc.sens)
  BY <1>1, <1>6 DEF Placed, Grows, CallType, Stored, Found, Docs
<1> QED BY <1>1, <1>2, <1>3, <1>4, <1>5, <1>6 DEF Placed

LEMMA OthersStay ==
  ASSUME Called, Grows, NEW c \in Callers, Lands(c), Stored, Stored'
  PROVE  Called'
<1> SUFFICES ASSUME NEW d \in Callers, d # c, job'[d].op # "none"
             PROVE  (Addressed(d) /\ Placed(d))'
  BY DEF Called, Lands
<1>1. job'[d] = job[d]
  BY DEF Lands
<1> QED BY <1>1, UntouchedStays

LEMMA AnswerCloses ==
  ASSUME Called, kind' = kind, NEW c \in Callers, job[c].op # "none",
         NEW res \in {"ok", "error"}, NEW hits \in SUBSET (Note \cup Found),
         Answer(c, res, hits),
         res = "ok" /\ job[c].op \in Searches \cup {"bytime"} =>
           \A h \in hits : h \in Note /\ h.name \notin job[c].gone /\ (h.id = Foreign => h.sens)
  PROVE  Closes(c)
<1>1. job[c] \in CallType /\ Addressed(c) /\ job \in [Callers -> CallType \cup {Idle}]
  BY CallTypes DEF Called
<1>2. CASE job[c].waiting
  <2> DEFINE new == [job[c] EXCEPT !.at = "answered", !.res = res, !.hits = hits]
  <2>1. job' = [job EXCEPT ![c] = new]
    BY <1>2 DEF Answer
  <2>2. new \in CallType /\ job'[c] = new
    BY <1>1, <2>1 DEF CallType, Places
  <2>3. Addressed(c)'
    BY <1>1, <2>2 DEF Addressed, CallType
  <2>4. Placed(c)'
    BY <1>1, <2>2 DEF Placed, CallType, Told, Presentable
  <2> QED BY <1>1, <2>1, <2>2, <2>3, <2>4 DEF Closes, Lands, Deletes, CallType
<1>3. CASE ~job[c].waiting
  <2>1. job' = [job EXCEPT ![c] = Idle]
    BY <1>3 DEF Answer
  <2> QED BY <1>1, <2>1 DEF Closes, Lands, Deletes, Idle
<1> QED BY <1>2, <1>3

LEMMA AnswerHitsCloses ==
  ASSUME Called, kind' = kind, NEW c \in Callers, job[c].op # "none", NEW seen \in SUBSET Names,
         gone \in SUBSET Names, seen \cap gone = {}, AnswerHits(c, seen)
  PROVE  Closes(c)
<1>1. job[c] \in CallType /\ Addressed(c) /\ job \in [Callers -> CallType \cup {Idle}]
  BY CallTypes DEF Called
<1>2. CASE job[c].waiting
  <2> DEFINE notes == {[name |-> x, id |-> x, sens |-> FALSE] : x \in seen}
             new == [job[c] EXCEPT !.at = "answered", !.res = "ok", !.gone = gone, !.hits = notes]
  <2>0. job' = [job EXCEPT ![c] = new]
    BY <1>2 DEF AnswerHits
  <2>1. notes \in SUBSET Note /\ \A h \in notes : h.name \notin gone /\ h.id # Foreign
    <3>1. Foreign \notin Names
      BY MemoryAssumption DEF Names, Docs
    <3>2. ASSUME NEW h \in notes
          PROVE  h \in Note /\ h.name \notin gone /\ h.id # Foreign
      <4>1. PICK x \in seen : h = [name |-> x, id |-> x, sens |-> FALSE]
        OBVIOUS
      <4> QED BY <3>1, <4>1 DEF Note
    <3> QED BY <3>2
  <2>2. new \in CallType /\ job'[c] = new
    BY <1>1, <2>0, <2>1 DEF CallType, Places
  <2>3. Addressed(c)'
    BY <1>1, <2>2 DEF Addressed, CallType
  <2>4. Placed(c)'
    BY <1>1, <2>1, <2>2 DEF Placed, CallType, Told, Presentable
  <2> QED BY <1>1, <2>0, <2>2, <2>3, <2>4 DEF Closes, Lands, Deletes, CallType
<1>3. CASE ~job[c].waiting
  <2>1. job' = [job EXCEPT ![c] = Idle]
    BY <1>3 DEF AnswerHits
  <2> QED BY <1>1, <2>1 DEF Closes, Lands, Deletes, Idle
<1> QED BY <1>2, <1>3

-----------------------------------------------------------------------------
(* Steps that leave the notes alone.                                       *)

NotesStay == UNCHANGED <<kind, recs, tomb, service, nameOf, uuidOf, tombs, gone, kept, told, crossed>>

LEMMA ClosesSettles ==
  ASSUME NEW c, Closes(c)
  PROVE  Settles(c)
  BY DEF Closes, Settles

LEMMA DeletionsStay ==
  ASSUME NEW c \in Callers, Settles(c), NEW d \in Callers, NEW x, Deletes(d, x)'
  PROVE  Deletes(d, x)
<1>1. CASE d = c
  BY <1>1 DEF Settles
<1>2. CASE d # c
  <2>1. job'[d] = job[d]
    BY <1>2 DEF Settles, Lands
  <2> QED BY <2>1 DEF Deletes
<1> QED BY <1>1, <1>2

\* A name is buried only when its last deletion is through.
LEMMA LoneStays ==
  ASSUME Lone, crossed' = crossed,
         \A d \in Callers, x \in Names : Deletes(d, x)' => Deletes(d, x),
         \A x \in Names : tomb'[x] = tomb[x] \/ \A d \in Callers : x \in crossed \/ ~Deletes(d, x)'
  PROVE  Lone'
  BY DEF Lone

LEMMA CalmStore ==
  ASSUME Stored, Catalogued, Remembered, NotesStay
  PROVE  Stored' /\ Catalogued' /\ Remembered' /\ Grows
<1>1. Stored'
  BY DEF Stored, NotesStay, service
<1>2. Catalogued'
  BY DEF Catalogued, NotesStay, service
<1>3. Remembered'
  BY DEF Remembered, AddedIsReadable, NotesStay
<1>4. Grows
  BY DEF Grows, NotesStay, service, Stored
<1> QED BY <1>1, <1>2, <1>3, <1>4

LEMMA CalmKeeps ==
  ASSUME Kept, NotesStay, NEW c \in Callers, Settles(c)
  PROVE  Kept'
<1>1. Stored' /\ Catalogued' /\ Remembered' /\ Grows
  BY CalmStore DEF Kept
<1>2. Lone'
  BY LoneStays, DeletionsStay DEF Kept, NotesStay
<1>3. Called'
  BY <1>1, OthersStay DEF Kept, Settles
<1> QED BY <1>1, <1>2, <1>3 DEF Kept

LEMMA IdleCallsKeep ==
  ASSUME Kept, NotesStay, UNCHANGED job
  PROVE  Kept'
<1>1. Stored' /\ Catalogued' /\ Remembered' /\ Grows
  BY CalmStore DEF Kept
<1>2. Lone'
  BY DEF Lone, Deletes, NotesStay, Kept
<1>3. Called'
  BY DEF Called, Addressed, Placed, Presentable, Told, NotesStay, service, Kept
<1> QED BY <1>1, <1>2, <1>3 DEF Kept

LEMMA CallSettles ==
  ASSUME Called, kind' = kind, clock \in Nat, NEW c \in Callers, NEW op \in Ops,
         NEW x \in Names \cup {None}, NEW sens \in BOOLEAN, Call(c, op, x, sens),
         op = "delete" => x \in Names,
         op = "add" => x \in Ids \cup {None} /\ (kind # "mem0" => x \in Ids),
         op = "read" => x \in Ids
  PROVE  Settles(c)
<1> DEFINE new == [op |-> op, x |-> x, sens |-> sens, at |-> "sent", waiting |-> TRUE,
                   res |-> None, hits |-> {}, gone |-> {}, uuid |-> 0,
                   ranAt |-> IF op = "consolidate" THEN clock ELSE 0]
<1>1. job \in [Callers -> CallType \cup {Idle}] /\ job' = [job EXCEPT ![c] = new]
  BY DEF Called, Call
<1>2. new \in CallType /\ job'[c] = new
  BY <1>1 DEF CallType, Places
<1>3. Addressed(c)' /\ Placed(c)'
  BY <1>2 DEF Addressed, Placed, Told
<1> QED BY <1>1, <1>2, <1>3 DEF Settles, Lands, Deletes

\* A call that is only given up, or answered by nobody.
LEMMA LeavesSettle ==
  ASSUME Called, Stored, kind' = kind, tomb' = tomb, nDocs' = nDocs, uuidOf' = uuidOf,
         NEW c \in Callers, job[c].op # "none",
         \/ job' = [job EXCEPT ![c] = Idle]
         \/ job' = [job EXCEPT ![c] = [@ EXCEPT !.waiting = FALSE]]
         \/ job' = [job EXCEPT ![c] = [@ EXCEPT !.at = "lost"]]
  PROVE  Settles(c)
<1>1. job[c] \in CallType /\ Addressed(c) /\ Placed(c) /\ job \in [Callers -> CallType \cup {Idle}]
  BY CallTypes DEF Called
<1>2. CASE job' = [job EXCEPT ![c] = Idle]
  BY <1>1, <1>2 DEF Settles, Lands, Deletes, Idle
<1>3. CASE job' = [job EXCEPT ![c] = [@ EXCEPT !.waiting = FALSE]]
  <2>1. /\ job'[c] = [job[c] EXCEPT !.waiting = FALSE] /\ job'[c] \in CallType
        /\ job' \in [Callers -> CallType \cup {Idle}]
    BY <1>1, <1>3 DEF CallType
  <2>2. Addressed(c)'
    BY <1>1, <2>1 DEF Addressed, CallType
  <2>3. Placed(c)'
    BY <1>1, <2>1 DEF Placed, CallType, Told, Presentable
  <2> QED BY <1>1, <1>3, <2>1, <2>2, <2>3 DEF Settles, Lands, Deletes, CallType
<1>4. CASE job' = [job EXCEPT ![c] = [@ EXCEPT !.at = "lost"]]
  <2>1. /\ job'[c] = [job[c] EXCEPT !.at = "lost"] /\ job'[c] \in CallType
        /\ job' \in [Callers -> CallType \cup {Idle}]
    BY <1>1, <1>4 DEF CallType, Places
  <2>2. Addressed(c)'
    BY <1>1, <2>1 DEF Addressed, CallType
  <2>3. Placed(c)'
    BY <1>1, <2>1 DEF Placed, CallType, Told
  <2> QED BY <1>1, <1>4, <2>1, <2>2, <2>3 DEF Settles, Lands, Deletes, CallType
<1> QED BY <1>2, <1>3, <1>4

\* A search waits for its service, an addition too.
LEMMA SuspendSettles ==
  ASSUME Called, Remembered, kind' = kind, tomb' = tomb, NEW c \in Callers, job[c].op # "none",
         Suspend(c, "service"), kind \in Remote,
         job[c].op \in Searches \cup {"bytime"} \/ (job[c].op = "add" /\ ~job[c].sens)
  PROVE  Settles(c)
<1>1. job[c] \in CallType /\ Addressed(c) /\ job \in [Callers -> CallType \cup {Idle}]
  BY CallTypes DEF Called
<1>2. job' = [job EXCEPT ![c] = [job[c] EXCEPT !.at = "service", !.gone = gone]]
  BY <1>1 DEF Suspend
<1>3. /\ job'[c] = [job[c] EXCEPT !.at = "service", !.gone = gone] /\ job'[c] \in CallType
      /\ job' \in [Callers -> CallType \cup {Idle}]
  BY <1>1, <1>2 DEF CallType, Places, Remembered
<1>4. Addressed(c)'
  BY <1>1, <1>3 DEF Addressed, CallType
<1>5. Placed(c)'
  BY <1>1, <1>3 DEF Placed, CallType, Told, Searches, Remembered
<1> QED BY <1>1, <1>2, <1>3, <1>4, <1>5 DEF Settles, Lands, Deletes, CallType, Searches

LEMMA StartsFacts ==
  ASSUME Called, NEW c \in Callers, NEW op, Starts(c, op)
  PROVE  /\ job[c].op # "none" /\ job[c].at = "sent" /\ kind' = kind
         /\ op = "search" => job[c].op \in Searches
         /\ op # "search" => job[c].op = op
<1>1. /\ job[c].op # "none" /\ job[c].at = "sent" /\ kind' = kind
      /\ op = IF job[c].op \in Searches THEN "search" ELSE job[c].op
  BY DEF Starts, Handles, Tool, server
<1>2. job[c].op \in Ops
  BY <1>1, CallTypes DEF CallType
<1> QED BY <1>1, <1>2 DEF Ops, RunnerOps, Searches

LEMMA HandlerHangsKeeps ==
  ASSUME Kept, NEW c \in Callers, HandlerHangs(c)
  PROVE  Kept'
<1>1. NotesStay
  BY DEF HandlerHangs, NotesStay, server, store, local, history
<1>2. Settles(c)
  BY <1>1, LeavesSettle DEF HandlerHangs, Kept, NotesStay, service
<1> QED BY <1>1, <1>2, CalmKeeps

LEMMA HandlerFailsKeeps ==
  ASSUME Kept, NEW c \in Callers, HandlerFails(c)
  PROVE  Kept'
<1>1. NotesStay
  BY DEF HandlerFails, NotesStay, server, store, local, history
<1>2. Closes(c)
  BY <1>1, AnswerCloses DEF HandlerFails, Kept, NotesStay
<1> QED BY <1>1, <1>2, CalmKeeps, ClosesSettles

LEMMA NothingStays ==
  ASSUME Nothing, kind' = kind
  PROVE  NotesStay
  BY DEF Nothing, NotesStay, store, local, history

\* A handler that answers without a hit, and stores nothing.
LEMMA NothingAnswered ==
  ASSUME Kept, NEW c \in Callers, NEW op, Starts(c, op), Nothing, NEW res \in {"ok", "error"},
         Answer(c, res, {})
  PROVE  Kept'
<1>1. job[c].op # "none" /\ NotesStay /\ kind' = kind
  BY StartsFacts, NothingStays DEF Kept
<1>2. Closes(c)
  BY <1>1, AnswerCloses DEF Kept
<1> QED BY <1>1, <1>2, CalmKeeps, ClosesSettles

\* A search answered at once.
LEMMA SeenAnswered ==
  ASSUME Kept, NEW c \in Callers, NEW op, Starts(c, op), Nothing, NEW seen \in SUBSET LiveRows,
         AnswerHits(c, seen)
  PROVE  Kept'
<1>1. job[c].op # "none" /\ NotesStay /\ kind' = kind
  BY StartsFacts, NothingStays DEF Kept
<1>2. seen \in SUBSET Names /\ gone \in SUBSET Names /\ seen \cap gone = {}
  BY DEF LiveRows, Kept, Remembered
<1>3. Closes(c)
  BY <1>1, <1>2, AnswerHitsCloses DEF Kept
<1> QED BY <1>1, <1>3, CalmKeeps, ClosesSettles

LEMMA CorpusLives == Corpus \in SUBSET LiveRows
  BY DEF Corpus, LiveRows

-----------------------------------------------------------------------------
(* Handlers that store something.                                          *)

LEMMA WriteKeeps ==
  ASSUME Kept, NEW c \in Callers, Closes(c), NEW x \in Names,
         UNCHANGED <<kind, tomb, service, nameOf, uuidOf, tombs, gone, told, crossed>>,
         recs' \in [Names -> {"none", "seed", "new", "old"}], recs'[x] # "none",
         \A y \in Names : recs[y] # "none" => recs'[y] # "none",
         kept' = kept \/ Wrote(x)
  PROVE  Kept'
<1>1. Stored' /\ Catalogued' /\ Grows
  BY DEF Kept, Stored, Catalogued, Grows, service
<1>2. Remembered'
  BY DEF Kept, Remembered, AddedIsReadable, Wrote
<1>3. Lone'
  BY LoneStays, DeletionsStay, ClosesSettles DEF Kept
<1>4. Called'
  BY <1>1, OthersStay DEF Kept, Closes
<1> QED BY <1>1, <1>2, <1>3, <1>4 DEF Kept

LEMMA ConsolidationKeeps ==
  ASSUME Kept, NEW c \in Callers, Closes(c),
         UNCHANGED <<kind, tomb, service, nameOf, uuidOf, tombs, gone, told, crossed>>,
         recs' \in [Names -> {"none", "seed", "new", "old"}],
         kept' \subseteq kept, \A x \in kept' : recs[x] # "none" => recs'[x] # "none"
  PROVE  Kept'
<1>1. Stored' /\ Catalogued' /\ Grows
  BY DEF Kept, Stored, Catalogued, Grows, service
<1>2. Remembered'
  BY DEF Kept, Remembered, AddedIsReadable
<1>3. Lone'
  BY LoneStays, DeletionsStay, ClosesSettles DEF Kept
<1>4. Called'
  BY <1>1, OthersStay DEF Kept, Closes
<1> QED BY <1>1, <1>2, <1>3, <1>4 DEF Kept

\* A note gets its tombstone, its first unless deletions of it crossed, when nobody else is
\* deleting it.
LEMMA BuryKeeps ==
  ASSUME Kept, NEW c \in Callers, Closes(c), NEW x \in Names,
         UNCHANGED <<kind, service, nameOf, uuidOf, crossed>>,
         recs' \in [Names -> {"none", "seed", "new", "old"}],
         \A y \in Names \ {x} : recs'[y] = recs[y],
         Buried(x, tombs + 1), gone' = gone \cup {x}, kept' = kept \ {x},
         x \in crossed \/ (tomb[x] = 0 /\ \A d \in Callers : ~Deletes(d, x)')
  PROVE  Kept'
<1>1. /\ tombs \in Nat /\ tomb \in [Names -> 0..tombs] /\ tombs' = tombs + 1
      /\ tomb' = [tomb EXCEPT ![x] = tombs + 1] /\ told' = [told EXCEPT ![x] = @ \cup {tombs + 1}]
      /\ told \in [Names -> SUBSET Nat]
  BY DEF Kept, Stored, Remembered, Buried
<1>2. tomb' \in [Names -> 0..tombs'] /\ \A y \in Names \ {x} : tomb'[y] = tomb[y] /\ told'[y] = told[y]
  BY <1>1
<1>3. tomb'[x] # 0 /\ tomb'[x] = tombs + 1 /\ told'[x] = told[x] \cup {tombs + 1}
  BY <1>1
<1>4. Stored' /\ Catalogued' /\ Grows
  BY <1>1, <1>2, <1>3 DEF Kept, Stored, Catalogued, Grows, service
<1>5. Remembered'
  <2>1. told' \in [Names -> SUBSET Nat] /\ gone' \in SUBSET Names /\ kept' \in SUBSET Names
    BY <1>1 DEF Kept, Remembered
  <2>2. \A y \in gone' : tomb'[y] # 0
    BY <1>2, <1>3 DEF Kept, Remembered
  <2>3. AddedIsReadable'
    BY <1>2 DEF Kept, Remembered, AddedIsReadable
  <2>4. \A y \in Names \ crossed : told'[y] \subseteq {tomb'[y]} /\ (tomb'[y] = 0 => told'[y] = {})
    <3> SUFFICES ASSUME NEW y \in Names \ crossed
                 PROVE  told'[y] \subseteq {tomb'[y]} /\ (tomb'[y] = 0 => told'[y] = {})
      OBVIOUS
    <3>1. CASE y = x
      BY <1>3, <3>1 DEF Kept, Remembered
    <3>2. CASE y # x
      BY <1>2, <3>2 DEF Kept, Remembered
    <3> QED BY <3>1, <3>2
  <2> QED BY <2>1, <2>2, <2>3, <2>4 DEF Remembered
<1>6. Lone'
  BY <1>2, LoneStays, DeletionsStay, ClosesSettles DEF Kept
<1>7. Called'
  BY <1>4, OthersStay DEF Kept, Closes
<1> QED BY <1>4, <1>5, <1>6, <1>7 DEF Kept

LEMMA AlreadyBuriedKeeps ==
  ASSUME Kept, NEW c \in Callers, Starts(c, "delete"), AlreadyBuried(c)
  PROVE  Kept'
<1> DEFINE x == job[c].x
<1>1. job[c].op = "delete" /\ x \in Names /\ kind' = kind /\ job[c].op # "none"
  BY StartsFacts, CallTypes DEF Kept, Addressed
<1>2. Closes(c)
  BY <1>1, AnswerCloses DEF Kept, AlreadyBuried
<1>3. /\ UNCHANGED <<recs, tomb, service, nameOf, uuidOf, tombs, kept, crossed>>
      /\ tomb[x] # 0 /\ gone' = gone \cup {x} /\ told' = [told EXCEPT ![x] = @ \cup {tomb[x]}]
  BY DEF AlreadyBuried, store, local
<1>4. Stored' /\ Catalogued' /\ Grows
  BY <1>1, <1>3 DEF Kept, Stored, Catalogued, Grows, service
<1>5. Remembered'
  <2>1. tomb[x] \in Nat /\ told \in [Names -> SUBSET Nat]
    BY <1>1 DEF Kept, Remembered, Stored
  <2>2. told' \in [Names -> SUBSET Nat] /\ told'[x] = told[x] \cup {tomb[x]}
        /\ \A y \in Names \ {x} : told'[y] = told[y]
    BY <1>1, <1>3, <2>1
  <2>3. \A y \in Names \ crossed : told'[y] \subseteq {tomb[y]} /\ (tomb[y] = 0 => told'[y] = {})
    BY <1>1, <1>3, <2>2 DEF Kept, Remembered
  <2> QED BY <1>1, <1>3, <2>2, <2>3 DEF Kept, Remembered, AddedIsReadable
<1>6. Lone'
  BY <1>2, <1>3, LoneStays, DeletionsStay, ClosesSettles DEF Kept
<1>7. Called'
  BY <1>2, <1>4, OthersStay DEF Kept, Closes
<1> QED BY <1>4, <1>5, <1>6, <1>7 DEF Kept

LEMMA UnknownKeeps ==
  ASSUME Kept, NEW c \in Callers, NEW op, Starts(c, op), Unknown(c)
  PROVE  Kept'
  BY NothingAnswered DEF Unknown

-----------------------------------------------------------------------------
(* The mock and SQLite.                                                    *)

\* A server without a service is not in the middle of a deletion.
LEMMA NobodyDeletes ==
  ASSUME Called, kind \notin Remote, NEW d \in Callers, NEW x
  PROVE  ~Deletes(d, x)
  BY CallTypes DEF Deletes, Placed

LEMMA LocalBuryKeeps ==
  ASSUME Kept, NEW c \in Callers, Starts(c, "delete"), kind \notin Remote, tomb[job[c].x] = 0,
         Buried(job[c].x, tombs + 1), gone' = gone \cup {job[c].x}, kept' = kept \ {job[c].x},
         Answer(c, "ok", {}), UNCHANGED <<service, local, crossed, runs>>,
         recs' = recs \/ recs' = [recs EXCEPT ![job[c].x] = IF @ = "new" THEN "none" ELSE @]
  PROVE  Kept'
<1>1. job[c].op = "delete" /\ job[c].x \in Names /\ kind' = kind /\ job[c].op # "none"
  BY StartsFacts, CallTypes DEF Kept, Addressed
<1>x. PICK x \in Names : x = job[c].x
  BY <1>1
<1>2. Closes(c)
  BY <1>1, AnswerCloses DEF Kept
<1>3. \A d \in Callers : ~Deletes(d, x)'
  BY <1>2, NobodyDeletes, DeletionsStay, ClosesSettles DEF Kept
<1>4. /\ recs' \in [Names -> {"none", "seed", "new", "old"}]
      /\ \A y \in Names \ {x} : recs'[y] = recs[y]
  BY <1>x DEF Kept, Stored
<1>5. UNCHANGED <<kind, service, nameOf, uuidOf, crossed>>
  BY <1>1 DEF local
<1>6. /\ tomb[x] = 0 /\ Buried(x, tombs + 1)
      /\ gone' = gone \cup {x} /\ kept' = kept \ {x}
  BY <1>x
<1> QED BY <1>2, <1>3, <1>4, <1>5, <1>6, BuryKeeps

LEMMA MockAddKeeps ==
  ASSUME Kept, NEW c \in Callers, MockAdd(c)
  PROVE  Kept'
<1>1. job[c].op = "add" /\ kind' = kind /\ job[c].op # "none"
  BY StartsFacts DEF Kept, MockAdd
<1>2. job[c].x \in Names
  BY <1>1, CallTypes DEF Kept, Addressed, MockAdd, Names
<1>3. Closes(c)
  BY <1>1, AnswerCloses DEF Kept, MockAdd
<1>4. recs' = [recs EXCEPT ![job[c].x] = IF @ = "none" THEN "new" ELSE @]
  BY DEF MockAdd
<1>5. /\ recs' \in [Names -> {"none", "seed", "new", "old"}] /\ recs'[job[c].x] # "none"
      /\ \A y \in Names : recs[y] # "none" => recs'[y] # "none"
  BY <1>2, <1>4 DEF Kept, Stored
<1> QED BY <1>1, <1>2, <1>3, <1>5, WriteKeeps DEF MockAdd, local

LEMMA MockConsolidateKeeps ==
  ASSUME Kept, NEW c \in Callers, MockConsolidate(c)
  PROVE  Kept'
<1>1. job[c].op # "none" /\ kind' = kind
  BY StartsFacts DEF Kept, MockConsolidate
<1>2. Closes(c)
  BY <1>1, AnswerCloses DEF Kept, MockConsolidate
<1>3. /\ recs' \in [Names -> {"none", "seed", "new", "old"}] /\ kept' \subseteq kept
      /\ \A x \in kept' : recs[x] # "none" => recs'[x] # "none"
  BY DEF MockConsolidate, Kept, Stored, Remembered
<1> QED BY <1>1, <1>2, <1>3, ConsolidationKeeps DEF MockConsolidate, local

LEMMA MockKeeps ==
  ASSUME Kept, NEW c \in Callers, Mock(c)
  PROVE  Kept'
<1>1. CASE MockSearch(c)
  BY <1>1, SeenAnswered, CorpusLives DEF MockSearch
<1>2. CASE MockByTime(c)
  BY <1>2, SeenAnswered, CorpusLives DEF MockByTime
<1>3. CASE MockRead(c)
  BY <1>3, NothingAnswered DEF MockRead
<1>4. CASE MockDelete(c)
  <2>1. Starts(c, "delete") /\ kind \notin Remote
    BY <1>4 DEF MockDelete, Remote
  <2>2. CASE AlreadyBuried(c)
    BY <2>1, <2>2, AlreadyBuriedKeeps
  <2>3. CASE Unknown(c)
    BY <2>1, <2>3, UnknownKeeps
  <2> QED BY <1>4, <2>1, <2>2, <2>3, LocalBuryKeeps DEF MockDelete
<1> QED BY <1>1, <1>2, <1>3, <1>4, MockAddKeeps, MockConsolidateKeeps DEF Mock

LEMMA SqliteSearchKeeps ==
  ASSUME Kept, NEW c \in Callers, SqliteSearch(c)
  PROVE  Kept'
<1> DEFINE notes == {[name |-> x, id |-> x, sens |-> FALSE] : x \in LiveRows}
           new == [job[c] EXCEPT !.at = "scoring", !.gone = gone, !.hits = notes]
<1>1. job[c].op \in Searches /\ NotesStay /\ kind' = kind /\ job[c].op # "none"
  BY StartsFacts, NothingStays DEF SqliteSearch, Kept
<1>2. job[c] \in CallType /\ Addressed(c) /\ job \in [Callers -> CallType \cup {Idle}]
  BY <1>1, CallTypes DEF Kept, Called
<1>3. notes \in SUBSET Note /\ \A h \in notes : h.name \notin gone /\ h.id # Foreign
  <2>1. Foreign \notin Names /\ LiveRows \subseteq Names /\ LiveRows \cap gone = {}
    BY MemoryAssumption DEF Names, Docs, LiveRows, Kept, Remembered
  <2>2. ASSUME NEW h \in notes
        PROVE  h \in Note /\ h.name \notin gone /\ h.id # Foreign
    <3>1. PICK x \in LiveRows : h = [name |-> x, id |-> x, sens |-> FALSE]
      OBVIOUS
    <3> QED BY <2>1, <3>1 DEF Note
  <2> QED BY <2>2
<1>4. job' = [job EXCEPT ![c] = new]
  BY <1>2 DEF SqliteSearch
<1>5. new \in CallType /\ job'[c] = new
  BY <1>2, <1>3, <1>4 DEF CallType, Places, Kept, Remembered
<1>6. Addressed(c)'
  BY <1>1, <1>2, <1>5 DEF Addressed, CallType
<1>7. Placed(c)'
  BY <1>1, <1>2, <1>3, <1>5 DEF Placed, CallType, Told, Presentable
<1>8. Settles(c)
  BY <1>2, <1>4, <1>5, <1>6, <1>7 DEF Settles, Lands, Deletes, CallType
<1> QED BY <1>1, <1>8, CalmKeeps

LEMMA SqliteScoredKeeps ==
  ASSUME Kept, NEW c \in Callers, SqliteScored(c)
  PROVE  Kept'
<1>1. job[c].op # "none" /\ NotesStay /\ kind' = kind
  BY NothingStays DEF SqliteScored, server
<1>2. job[c] \in CallType /\ Placed(c)
  BY <1>1, CallTypes DEF Kept
<1>3. Presentable(c)
  BY <1>2 DEF SqliteScored, Placed
<1>4. CASE Answer(c, "error", {})
  BY <1>1, <1>4, AnswerCloses, CalmKeeps, ClosesSettles DEF Kept
<1>5. CASE Answer(c, "ok", job[c].hits)
  <2>1. Closes(c)
    BY <1>1, <1>2, <1>3, <1>5, AnswerCloses DEF Kept, CallType, Presentable
  <2> QED BY <1>1, <2>1, CalmKeeps, ClosesSettles
<1> QED BY <1>4, <1>5 DEF SqliteScored

LEMMA SqliteAddKeeps ==
  ASSUME Kept, NEW c \in Callers, SqliteAdd(c)
  PROVE  Kept'
<1>1. Starts(c, "add") /\ job[c].op = "add" /\ kind' = kind /\ job[c].op # "none"
  BY StartsFacts DEF Kept, SqliteAdd
<1>2. CASE Unknown(c)
  BY <1>1, <1>2, UnknownKeeps
<1>3. CASE ~Unknown(c)
  <2>1. /\ recs' = [recs EXCEPT ![job[c].x] = IF @ = "none" THEN "new" ELSE @]
        /\ Wrote(job[c].x) /\ Answer(c, "ok", {})
        /\ UNCHANGED <<tomb, service, local, tombs, gone, told, crossed, runs>>
    BY <1>3 DEF SqliteAdd
  <2>2. job[c].x \in Names
    BY <1>1, CallTypes DEF Kept, Addressed, SqliteAdd, Names
  <2>3. Closes(c)
    BY <1>1, <2>1, AnswerCloses DEF Kept
  <2>4. /\ recs' \in [Names -> {"none", "seed", "new", "old"}] /\ recs'[job[c].x] # "none"
        /\ \A y \in Names : recs[y] # "none" => recs'[y] # "none"
    BY <2>1, <2>2 DEF Kept, Stored
  <2> QED BY <1>1, <2>1, <2>2, <2>3, <2>4, WriteKeeps DEF local
<1> QED BY <1>2, <1>3

LEMMA SqliteConsolidateKeeps ==
  ASSUME Kept, NEW c \in Callers, SqliteConsolidate(c)
  PROVE  Kept'
<1>1. job[c].op # "none" /\ kind' = kind
  BY StartsFacts DEF Kept, SqliteConsolidate
<1>2. Closes(c)
  BY <1>1, AnswerCloses DEF Kept, SqliteConsolidate
<1>3. /\ recs' \in [Names -> {"none", "seed", "new", "old"}]
      /\ \A x \in kept : recs[x] # "none" => recs'[x] # "none"
  BY DEF SqliteConsolidate, Kept, Stored, Remembered
<1> QED BY <1>1, <1>2, <1>3, ConsolidationKeeps DEF SqliteConsolidate, local, history

LEMMA SqliteKeeps ==
  ASSUME Kept, NEW c \in Callers, Sqlite(c)
  PROVE  Kept'
<1>1. CASE SqliteByTime(c)
  BY <1>1, SeenAnswered DEF SqliteByTime
<1>2. CASE SqliteRead(c)
  BY <1>2, NothingAnswered DEF SqliteRead
<1>3. CASE SqliteDelete(c)
  <2>1. Starts(c, "delete") /\ kind \notin Remote
    BY <1>3 DEF SqliteDelete, Remote
  <2>2. CASE AlreadyBuried(c)
    BY <2>1, <2>2, AlreadyBuriedKeeps
  <2>3. CASE Unknown(c)
    BY <2>1, <2>3, UnknownKeeps
  <2> QED BY <1>3, <2>1, <2>2, <2>3, LocalBuryKeeps DEF SqliteDelete
<1> QED
  BY <1>1, <1>2, <1>3, SqliteSearchKeeps, SqliteScoredKeeps, SqliteAddKeeps, SqliteConsolidateKeeps
     DEF Sqlite

-----------------------------------------------------------------------------
(* Zep and mem0.                                                           *)

LEMMA RemoteSearchKeeps ==
  ASSUME Kept, NEW c \in Callers, kind \in Remote, NEW op \in {"search", "bytime"}, Starts(c, op),
         Nothing, Suspend(c, "service")
  PROVE  Kept'
<1>1. job[c].op \in Searches \cup {"bytime"} /\ job[c].op # "none" /\ kind' = kind /\ NotesStay
  BY StartsFacts, NothingStays DEF Kept
<1>2. Settles(c)
  BY <1>1, SuspendSettles DEF Kept, NotesStay
<1> QED BY <1>1, <1>2, CalmKeeps

LEMMA RemoteAddKeeps ==
  ASSUME Kept, NEW c \in Callers, kind \in Remote, RemoteAdd(c)
  PROVE  Kept'
<1>1. Starts(c, "add") /\ job[c].op = "add" /\ kind' = kind /\ job[c].op # "none"
  BY StartsFacts DEF Kept, RemoteAdd
<1>2. UNCHANGED <<recs, tomb, service, nameOf, uuidOf, tombs, gone, told, crossed>>
  BY DEF RemoteAdd, store, local
<1>3. CASE job[c].sens /\ Answer(c, "error", {}) /\ UNCHANGED kept
  <2>1. Closes(c)
    BY <1>1, <1>3, AnswerCloses DEF Kept
  <2> QED BY <1>1, <1>2, <1>3, <2>1, CalmKeeps, ClosesSettles DEF NotesStay
<1>4. CASE ~job[c].sens /\ job[c].x # None /\ recs[job[c].x] # "none"
           /\ Wrote(job[c].x) /\ Answer(c, "ok", {})
  <2>1. Closes(c)
    BY <1>1, <1>4, AnswerCloses DEF Kept
  <2>2. PICK x \in Names : x = job[c].x
    BY <1>1, <1>4, CallTypes DEF Kept, Addressed, Names
  <2>3. recs' \in [Names -> {"none", "seed", "new", "old"}] /\ recs'[x] # "none" /\ Wrote(x)
    BY <1>2, <1>4, <2>2 DEF Kept, Stored
  <2> QED BY <1>1, <1>2, <2>1, <2>3, WriteKeeps
<1>5. CASE ~job[c].sens /\ Suspend(c, "service") /\ UNCHANGED kept
  <2>1. NotesStay
    BY <1>1, <1>2, <1>5 DEF NotesStay
  <2>2. Settles(c)
    BY <1>1, <1>2, <1>5, SuspendSettles DEF Kept
  <2> QED BY <2>1, <2>2, CalmKeeps
<1> QED BY <1>3, <1>4, <1>5 DEF RemoteAdd

\* A deletion asks the service, and crosses another of the same note that does.
LEMMA RemoteDeleteWaits ==
  ASSUME Kept, NEW c \in Callers, kind \in Remote, Starts(c, "delete"),
         tomb[job[c].x] = 0, uuidOf[job[c].x] # 0,
         job' = [job EXCEPT ![c].at = "service", ![c].uuid = uuidOf[job[c].x]],
         crossed' = crossed \cup {y \in {job[c].x} : Deleting(y)},
         UNCHANGED <<store, tombs, gone, kept, told, runs>>
  PROVE  Kept'
<1>1. job[c].op = "delete" /\ kind' = kind /\ job[c].op # "none" /\ job[c].at = "sent"
  BY StartsFacts DEF Kept
<1>2. job[c] \in CallType /\ Addressed(c) /\ job \in [Callers -> CallType \cup {Idle}]
  BY <1>1, CallTypes DEF Kept, Called
<1>x. PICK x \in Names : x = job[c].x
  BY <1>1, <1>2 DEF Addressed
<1>3. UNCHANGED <<kind, recs, tomb, service, nameOf, uuidOf, tombs, gone, kept, told>>
  BY <1>1 DEF store, local
<1>4. Stored' /\ Catalogued' /\ Grows
  BY <1>3 DEF Kept, Stored, Catalogued, Grows, service
<1>5. Remembered'
  BY <1>3 DEF Kept, Remembered, AddedIsReadable
<1> DEFINE new == [job[c] EXCEPT !.at = "service", !.uuid = uuidOf[x]]
<1>6. /\ job' = [job EXCEPT ![c] = new] /\ new \in CallType
      /\ new.op = "delete" /\ new.x = x /\ new.at = "service"
  <2>1. uuidOf[x] \in Nat
    BY DEF Kept, Stored
  <2>2. job' = [job EXCEPT ![c].at = "service", ![c].uuid = uuidOf[x]]
    BY <1>x
  <2>3. job' = [job EXCEPT ![c] = new]
    BY <1>2, <2>2
  <2> QED BY <1>1, <1>2, <1>x, <2>1, <2>3 DEF CallType, Places
<1>7. job'[c] = new /\ job' \in [Callers -> CallType \cup {Idle}] /\ \A d \in Callers \ {c} : job'[d] = job[d]
  BY <1>2, <1>6
<1>8. Addressed(c)' /\ Placed(c)'
  <2>1. Addressed(c)'
    BY <1>6, <1>7 DEF Addressed
  <2> QED BY <1>3, <1>6, <1>7, <2>1, <1>x DEF Placed, Told, Searches
<1>9. Called'
  BY <1>4, <1>7, <1>8, OthersStay DEF Kept, Lands
<1>10. Lone'
  <2> SUFFICES ASSUME NEW y \in Names \ crossed', NEW d \in Callers, NEW e \in Callers, Deletes(d, y)'
               PROVE  tomb[y] = 0 /\ (Deletes(e, y)' => d = e)
    BY <1>3 DEF Lone
  <2>1. \A b \in Callers \ {c} : Deletes(b, y)' => Deletes(b, y)
    BY <1>7 DEF Deletes
  <2>2. Deletes(c, y)' => y = x
    BY <1>6, <1>7 DEF Deletes
  <2>3. y = x => \A b \in Callers : ~Deletes(b, x)
    BY <1>x DEF Deleting, Deletes
  <2>4. y \in Names \ crossed
    OBVIOUS
  <2>5. CASE y = x
    BY <1>x, <2>1, <2>3, <2>5
  <2>6. CASE y # x
    <3>1. d # c /\ Deletes(d, y) /\ (Deletes(e, y)' => Deletes(e, y))
      BY <2>1, <2>2, <2>6
    <3> QED BY <2>4, <3>1 DEF Kept, Lone
  <2> QED BY <2>5, <2>6
<1> QED BY <1>4, <1>5, <1>9, <1>10 DEF Kept

LEMMA BuriedAfterAllKeeps ==
  ASSUME Kept, NEW c \in Callers, job[c].op # "none", kind' = kind, NEW x \in Names, x = job[c].x,
         BuriedAfterAll(c), UNCHANGED <<recs, service, local, crossed, runs>>,
         x \in crossed \/ (tomb[x] = 0 /\ \A d \in Callers \ {c} : ~Deletes(d, x))
  PROVE  Kept'
<1>1. Closes(c)
  BY AnswerCloses DEF Kept, BuriedAfterAll
<1>2. /\ Buried(x, tombs + 1) /\ gone' = gone \cup {x} /\ kept' = kept \ {x}
      /\ UNCHANGED <<kind, service, nameOf, uuidOf, crossed>>
  BY DEF BuriedAfterAll, local
<1>3. recs' \in [Names -> {"none", "seed", "new", "old"}] /\ \A y \in Names \ {x} : recs'[y] = recs[y]
  BY DEF Kept, Stored
<1>4. x \in crossed \/ (tomb[x] = 0 /\ \A d \in Callers : ~Deletes(d, x)')
  BY <1>1, DeletionsStay, ClosesSettles DEF Closes
<1> QED BY <1>1, <1>2, <1>3, <1>4, BuryKeeps

LEMMA RemoteDeleteKeeps ==
  ASSUME Kept, NEW c \in Callers, kind \in Remote, RemoteDelete(c)
  PROVE  Kept'
<1>1. Starts(c, "delete") /\ job[c].op = "delete" /\ kind' = kind /\ job[c].op # "none"
  BY StartsFacts DEF Kept, RemoteDelete
<1>x. PICK x \in Names : x = job[c].x
  BY <1>1, CallTypes DEF Kept, Addressed
<1>2. CASE AlreadyBuried(c)
  BY <1>1, <1>2, AlreadyBuriedKeeps
<1>3. CASE Unknown(c)
  BY <1>1, <1>3, UnknownKeeps
<1>4. CASE /\ tomb[x] = 0 /\ uuidOf[x] = 0 /\ recs[x] # "none"
           /\ BuriedAfterAll(c) /\ UNCHANGED <<recs, service, local, crossed, runs>>
  <2>1. \A d \in Callers : ~Deletes(d, x)
    BY <1>4, CallTypes DEF Deletes, Placed, Kept, Remote
  <2> QED BY <1>1, <1>x, <1>4, <2>1, BuriedAfterAllKeeps
<1>5. CASE /\ tomb[x] = 0 /\ uuidOf[x] # 0
           /\ job' = [job EXCEPT ![c].at = "service", ![c].uuid = uuidOf[x]]
           /\ crossed' = crossed \cup {y \in {x} : Deleting(y)}
           /\ UNCHANGED <<store, tombs, gone, kept, told, runs>>
  BY <1>1, <1>x, <1>5, RemoteDeleteWaits
<1> QED BY <1>x, <1>2, <1>3, <1>4, <1>5 DEF RemoteDelete

LEMMA RemoteHandlersKeep ==
  ASSUME Kept, NEW c \in Callers, Zep(c) \/ Mem0(c)
  PROVE  Kept'
<1>1. kind \in Remote
  BY DEF Zep, Mem0, ZepSearch, ZepByTime, ZepAdd, ZepRead, ZepConsolidate, ZepDelete,
         Mem0Search, Mem0ByTime, Mem0Add, Mem0Read, Mem0Consolidate, Mem0Delete, Remote
<1>2. CASE ZepSearch(c) \/ Mem0Search(c) \/ Mem0ByTime(c)
  BY <1>1, <1>2, RemoteSearchKeeps DEF ZepSearch, Mem0Search, Mem0ByTime
<1>3. CASE ZepByTime(c)
  BY <1>3, SeenAnswered DEF ZepByTime
<1>4. CASE ZepAdd(c) \/ Mem0Add(c)
  BY <1>1, <1>4, RemoteAddKeeps DEF ZepAdd, Mem0Add
<1>5. CASE ZepRead(c) \/ Mem0Read(c)
  BY <1>5, NothingAnswered DEF ZepRead, Mem0Read
<1>6. CASE ZepConsolidate(c) \/ Mem0Consolidate(c)
  BY <1>6, NothingAnswered DEF ZepConsolidate, Mem0Consolidate
<1>7. CASE ZepDelete(c) \/ Mem0Delete(c)
  BY <1>1, <1>7, RemoteDeleteKeeps DEF ZepDelete, Mem0Delete
<1> QED BY <1>2, <1>3, <1>4, <1>5, <1>6, <1>7 DEF Zep, Mem0

-----------------------------------------------------------------------------
(* What the handlers do when the service has answered.                     *)

LEMMA ResumesFacts ==
  ASSUME Called, NEW c \in Callers, NEW op, NEW at, Resumes(c, op, at)
  PROVE  /\ job[c].op # "none" /\ job[c].at = at /\ kind' = kind
         /\ op = "search" => job[c].op \in Searches
         /\ op # "search" => job[c].op = op
         /\ job[c] \in CallType /\ Addressed(c) /\ Placed(c)
         /\ job \in [Callers -> CallType \cup {Idle}]
<1>1. /\ job[c].op # "none" /\ job[c].at = at /\ kind' = kind
      /\ op = IF job[c].op \in Searches THEN "search" ELSE job[c].op
  BY DEF Resumes, Tool, server
<1>2. job[c] \in CallType /\ Addressed(c) /\ Placed(c) /\ job \in [Callers -> CallType \cup {Idle}]
  BY <1>1, CallTypes DEF Called
<1>3. job[c].op \in Ops
  BY <1>2 DEF CallType
<1> QED BY <1>1, <1>2, <1>3 DEF Ops, RunnerOps, Searches

LEMMA ServiceSearchesKeeps ==
  ASSUME Kept, NEW c \in Callers, ServiceSearches(c)
  PROVE  Kept'
<1>1. /\ job[c].op # "none" /\ job[c].at = "service" /\ kind' = kind /\ job[c].op \in Searches
      /\ job[c] \in CallType /\ Addressed(c) /\ Placed(c) /\ job \in [Callers -> CallType \cup {Idle}]
  BY ResumesFacts DEF Kept, ServiceSearches
<1>2. NotesStay
  BY <1>1, NothingStays DEF ServiceSearches
<1>3. CASE Answer(c, "error", {})
  <2>1. Closes(c)
    BY <1>1, <1>3, AnswerCloses DEF Kept
  <2> QED BY <1>2, <2>1, CalmKeeps, ClosesSettles
<1> DEFINE found == {[uuid |-> u, doc |-> docs[u]] : u \in {v \in Docs : docs[v] # None}}
           new == [job[c] EXCEPT !.at = "found", !.hits = found]
<1>4. CASE job' = [job EXCEPT ![c].at = "found", ![c].hits = found]
  <2>1. ASSUME NEW h \in found
        PROVE  h \in Found /\ h.uuid <= nDocs /\ (h.doc.id = Foreign <=> h.doc.sens)
    <3>1. PICK u \in Docs : docs[u] # None /\ h = [uuid |-> u, doc |-> docs[u]]
      OBVIOUS
    <3>2. docs[u] \in Document /\ u <= nDocs /\ (docs[u].id = Foreign <=> docs[u].sens)
      BY <3>1 DEF Kept, Stored, Catalogued
    <3> QED BY <3>1, <3>2 DEF Found
  <2>2. job' = [job EXCEPT ![c] = new]
    BY <1>1, <1>4
  <2>3. found \in SUBSET (Note \cup Found)
    BY <2>1
  <2> HIDE DEF found
  <2>4. new \in CallType /\ job'[c] = new
    BY <1>1, <2>2, <2>3 DEF CallType, Places
  <2>5. new.at = "found" /\ new.hits = found /\ new.op = job[c].op /\ new.gone = job[c].gone
    BY <1>1 DEF CallType
  <2>6. Addressed(c)'
    BY <1>1, <2>4, <2>5 DEF Addressed, Searches
  <2>7. Placed(c)'
    BY <1>1, <1>2, <2>1, <2>4, <2>5 DEF Placed, Told, Searches, NotesStay, service
  <2>8. Settles(c)
    BY <1>1, <2>2, <2>4, <2>5, <2>6, <2>7 DEF Settles, Lands, Deletes, Searches
  <2> QED BY <1>2, <2>8, CalmKeeps
<1> QED BY <1>3, <1>4 DEF ServiceSearches

\* The ids that mem0 lists were not buried when the search began.
LEMMA Mem0ListsAllKeeps ==
  ASSUME Kept, NEW c \in Callers, Mem0ListsAll(c)
  PROVE  Kept'
<1>1. /\ job[c].op # "none" /\ job[c].at = "service" /\ kind' = kind /\ job[c].op = "bytime" /\ Placed(c)
  BY ResumesFacts DEF Kept, Mem0ListsAll
<1>2. NotesStay
  BY <1>1, NothingStays DEF Mem0ListsAll
<1>3. CASE Answer(c, "error", {})
  BY <1>1, <1>2, <1>3, AnswerCloses, CalmKeeps, ClosesSettles DEF Kept
<1> DEFINE notes == {[name |-> x, id |-> x, sens |-> FALSE] : x \in LiveRows}
<1>4. CASE Answer(c, "ok", notes)
  <2>1. Foreign \notin Names /\ LiveRows \subseteq Names /\ \A x \in LiveRows : x \notin job[c].gone
    BY <1>1, MemoryAssumption DEF Names, Docs, LiveRows, Placed
  <2>2. ASSUME NEW h \in notes
        PROVE  h \in Note /\ h.name \notin job[c].gone /\ (h.id = Foreign => h.sens)
    <3>1. PICK x \in LiveRows : h = [name |-> x, id |-> x, sens |-> FALSE]
      OBVIOUS
    <3> QED BY <2>1, <3>1 DEF Note
  <2>3. notes \in SUBSET (Note \cup Found)
    BY <2>2
  <2> HIDE DEF notes
  <2>4. Closes(c)
    BY <1>1, <1>4, <2>2, <2>3, AnswerCloses DEF Kept
  <2> QED BY <1>2, <2>4, CalmKeeps, ClosesSettles
<1> QED BY <1>3, <1>4 DEF Mem0ListsAll

LEMMA RemoteFoundKeeps ==
  ASSUME Kept, NEW c \in Callers, RemoteFound(c)
  PROVE  Kept'
<1> DEFINE us == {h.uuid : h \in job[c].hits}
<1>1. /\ job[c].op # "none" /\ job[c].at = "found" /\ kind' = kind /\ job[c].op \in Searches
      /\ job[c] \in CallType /\ Addressed(c) /\ Placed(c) /\ job \in [Callers -> CallType \cup {Idle}]
  BY ResumesFacts DEF Kept, RemoteFound
<1>2. /\ \A h \in job[c].hits : h \in Found /\ h.uuid <= nDocs /\ (h.doc.id = Foreign <=> h.doc.sens)
      /\ \A x \in job[c].gone : tomb[x] # 0
  BY <1>1 DEF Placed
<1>3. us \subseteq Docs /\ \A u \in us : u <= nDocs
  BY <1>2 DEF Found
<1>4. \A u \in Docs : Named(u) \in Names
  BY DEF Named, Kept, Stored, Names
<1>5. ASSUME NEW h \in RemoteVisible(job[c].hits)
      PROVE  h \in Note /\ h.name \notin job[c].gone /\ (h.id = Foreign => h.sens)
  <2>1. PICK g \in job[c].hits : /\ tomb[Named(g.uuid)] = 0
                                 /\ h = [name |-> Named(g.uuid), id |-> g.doc.id, sens |-> g.doc.sens]
    BY DEF RemoteVisible
  <2>2. g.uuid \in Docs /\ g.doc \in Document /\ (g.doc.id = Foreign <=> g.doc.sens)
    BY <1>2 DEF Found
  <2>3. Named(g.uuid) \in Names /\ g.doc.id \in Names \cup {Foreign, None} /\ g.doc.sens \in BOOLEAN
    BY <1>4, <2>2 DEF Document, Names
  <2> QED BY <1>2, <2>1, <2>2, <2>3 DEF Note
<1>6. Closes(c)
  <2>1. RemoteVisible(job[c].hits) \in SUBSET (Note \cup Found)
    BY <1>5
  <2> QED BY <1>1, <1>5, <2>1, AnswerCloses DEF Kept, RemoteFound
<1>7. /\ nameOf' = [u \in Docs |-> IF u \in us THEN Named(u) ELSE nameOf[u]]
      /\ uuidOf' = [x \in Names |-> IF x \in us /\ nameOf[x] = None THEN x ELSE uuidOf[x]]
      /\ UNCHANGED <<recs, tomb, service, tombs, gone, kept, told, crossed>>
  BY DEF RemoteFound, history
<1>8. Stored'
  <2>1. nameOf' \in [Docs -> Names \cup {None}]
    BY <1>4, <1>7 DEF Kept, Stored
  <2>2. uuidOf' \in [Names -> 0..nDocs]
    <3> SUFFICES ASSUME NEW x \in Names
                 PROVE  (IF x \in us /\ nameOf[x] = None THEN x ELSE uuidOf[x]) \in 0..nDocs
      BY <1>7
    <3>1. x \in us => x \in 0..nDocs
      <4>1. nDocs \in Nat /\ MaxDocs \in Nat
        BY MemoryAssumption DEF Kept, Stored
      <4>2. x \in us => x \in 1..MaxDocs /\ x <= nDocs
        BY <1>3 DEF Docs
      <4> HIDE DEF us
      <4> QED BY <4>1, <4>2
    <3> QED BY <3>1 DEF Kept, Stored
  <2> QED BY <1>1, <1>7, <2>1, <2>2 DEF Kept, Stored, service
<1>9. Catalogued'
  BY <1>3, <1>7 DEF Kept, Catalogued, service
<1>10. Grows
  <2>1. \A x \in Names : uuidOf[x] # 0 => uuidOf'[x] # 0
    BY <1>3, <1>7, MemoryAssumption DEF Docs
  <2> QED BY <1>1, <1>7, <2>1 DEF Grows, service, Kept, Stored
<1>11. Remembered'
  BY <1>7 DEF Kept, Remembered, AddedIsReadable
<1>12. Lone'
  BY <1>6, <1>7, LoneStays, DeletionsStay, ClosesSettles DEF Kept
<1>13. Called'
  BY <1>6, <1>8, <1>10, OthersStay DEF Kept, Closes
<1> QED BY <1>8, <1>9, <1>11, <1>12, <1>13 DEF Kept

\* A document comes into the service, under a new uuid.
LEMMA Catalogues ==
  ASSUME Stored, Catalogued, nDocs < MaxDocs, nDocs' = nDocs + 1, NEW doc \in Document,
         doc.id = Foreign <=> doc.sens, docs' = [docs EXCEPT ![nDocs'] = doc]
  PROVE  /\ nDocs' \in Docs /\ docs' \in [Docs -> Document \cup {None}]
         /\ \A u \in Docs : docs'[u] # None => u <= nDocs' /\ (docs'[u].id = Foreign <=> docs'[u].sens)
<1>1. nDocs' \in Docs
  BY MemoryAssumption DEF Stored, Docs
<1>2. docs' \in [Docs -> Document \cup {None}] /\ docs'[nDocs'] = doc
      /\ \A u \in Docs \ {nDocs'} : docs'[u] = docs[u]
  BY <1>1 DEF Stored
<1>3. \A u \in Docs : u <= nDocs => u <= nDocs'
  BY MemoryAssumption DEF Docs, Stored
<1>4. nDocs' <= nDocs'
  BY DEF Stored
<1> QED BY <1>1, <1>2, <1>3, <1>4 DEF Catalogued

LEMMA ServiceAddsKeeps ==
  ASSUME Kept, NEW c \in Callers, ServiceAdds(c)
  PROVE  Kept'
<1>1. /\ job[c].op # "none" /\ job[c].at = "service" /\ kind' = kind /\ job[c].op = "add"
      /\ job[c] \in CallType /\ Addressed(c) /\ Placed(c) /\ job \in [Callers -> CallType \cup {Idle}]
  BY ResumesFacts DEF Kept, ServiceAdds
<1>2. UNCHANGED <<recs, tomb, nameOf, uuidOf, tombs, gone, kept, told, crossed>>
  BY DEF ServiceAdds, local, history
<1>3. CASE Answer(c, "error", {}) /\ UNCHANGED service
  <2>1. Closes(c)
    BY <1>1, <1>3, AnswerCloses DEF Kept
  <2> QED BY <1>1, <1>2, <1>3, <2>1, CalmKeeps, ClosesSettles DEF NotesStay
<1> DEFINE new == [job[c] EXCEPT !.at = "found", !.uuid = nDocs + 1]
<1>4. CASE /\ nDocs < MaxDocs /\ nDocs' = nDocs + 1
           /\ docs' = [docs EXCEPT ![nDocs'] = [id |-> job[c].x, sens |-> job[c].sens]]
           /\ \/ job' = [job EXCEPT ![c].at = "found", ![c].uuid = nDocs']
              \/ Answer(c, "error", {})
  <2>1. job[c].sens = FALSE /\ job[c].x \in Ids \cup {None} /\ kind \in Remote
    BY <1>1 DEF Placed, Addressed, CallType
  <2>x. Foreign \notin Ids \cup {None}
    BY MemoryAssumption
  <2> DEFINE doc == [id |-> job[c].x, sens |-> job[c].sens]
  <2>2. doc \in Document /\ (doc.id = Foreign <=> doc.sens)
    BY <2>1, <2>x DEF Document
  <2>3. docs' = [docs EXCEPT ![nDocs'] = doc]
    BY <1>4
  <2> HIDE DEF doc
  <2>4. /\ nDocs' \in Docs /\ docs' \in [Docs -> Document \cup {None}]
        /\ \A u \in Docs : docs'[u] # None => u <= nDocs' /\ (docs'[u].id = Foreign <=> docs'[u].sens)
    BY <1>4, <2>2, <2>3, Catalogues DEF Kept
  <2>5. Stored' /\ Grows
    BY <1>1, <1>2, <1>4, <2>4 DEF Kept, Stored, Grows
  <2>6. Catalogued'
    BY <1>2, <1>4, <2>4, MemoryAssumption DEF Kept, Stored, Catalogued, Docs
  <2>7. Remembered'
    BY <1>2 DEF Kept, Remembered, AddedIsReadable
  <2>8. Settles(c)
    <3>1. CASE Answer(c, "error", {})
      BY <1>1, <3>1, AnswerCloses, ClosesSettles DEF Kept
    <3>2. CASE job' = [job EXCEPT ![c].at = "found", ![c].uuid = nDocs']
      <4>1. nDocs + 1 \in Nat
        BY DEF Kept, Stored
      <4>2. job' = [job EXCEPT ![c] = new]
        BY <1>1, <1>4, <3>2
      <4>3. new \in CallType /\ job'[c] = new
        BY <1>1, <4>1, <4>2 DEF CallType, Places
      <4>4. /\ new.at = "found" /\ new.op = "add" /\ new.uuid = nDocs + 1
            /\ new.x = job[c].x /\ new.sens = job[c].sens
        BY <1>1 DEF CallType
      <4>5. new.uuid \in 1..nDocs' /\ new.uuid \in Docs
        BY <1>4, <2>4, <4>4 DEF Kept, Stored
      <4>6. Addressed(c)'
        BY <1>1, <4>3, <4>4 DEF Addressed
      <4>7. Placed(c)'
        BY <1>1, <2>1, <4>3, <4>4, <4>5 DEF Placed, Told, Searches
      <4> QED BY <1>1, <4>2, <4>3, <4>4, <4>6, <4>7 DEF Settles, Lands, Deletes
    <3> QED BY <1>4, <3>1, <3>2
  <2>9. Lone'
    BY <1>2, <2>8, LoneStays, DeletionsStay DEF Kept
  <2>10. Called'
    BY <2>5, <2>8, OthersStay DEF Kept, Settles
  <2> QED BY <2>5, <2>6, <2>7, <2>9, <2>10 DEF Kept
<1> QED BY <1>3, <1>4 DEF ServiceAdds

LEMMA RemoteAddedKeeps ==
  ASSUME Kept, NEW c \in Callers, RemoteAdded(c)
  PROVE  Kept'
<1>1. /\ job[c].op # "none" /\ job[c].at = "found" /\ kind' = kind /\ job[c].op = "add"
      /\ job[c] \in CallType /\ Addressed(c) /\ Placed(c) /\ job \in [Callers -> CallType \cup {Idle}]
  BY ResumesFacts DEF Kept, RemoteAdded
<1>2. PICK u \in Docs : u = job[c].uuid /\ u \in 1..nDocs
  BY <1>1 DEF Placed
<1>3. PICK x \in Names : x = IF job[c].x = None THEN Named(u) ELSE job[c].x
  BY <1>1 DEF Addressed, Named, Names, Kept, Stored
<1>4. /\ nameOf' = [nameOf EXCEPT ![u] = x] /\ uuidOf' = [uuidOf EXCEPT ![x] = u]
      /\ recs' = [recs EXCEPT ![x] = "new"] /\ Wrote(x) /\ Answer(c, "ok", {})
      /\ UNCHANGED <<tomb, service, tombs, gone, told, crossed>>
  BY <1>2, <1>3 DEF RemoteAdded
<1>5. Closes(c)
  BY <1>1, <1>4, AnswerCloses DEF Kept
<1>6. Stored'
  BY <1>1, <1>2, <1>4 DEF Kept, Stored, service
<1>7. Catalogued'
  <2>1. u <= nDocs
    BY <1>2 DEF Kept, Stored
  <2> QED BY <1>4, <2>1 DEF Kept, Catalogued, service, Stored
<1>8. Grows
  <2>1. u # 0
    BY <1>2 DEF Kept, Stored
  <2> QED BY <1>1, <1>4, <2>1 DEF Grows, Kept, Stored, service
<1>9. Remembered'
  BY <1>4 DEF Kept, Remembered, AddedIsReadable, Wrote, Stored
<1>10. Lone'
  BY <1>4, <1>5, LoneStays, DeletionsStay, ClosesSettles DEF Kept
<1>11. Called'
  BY <1>5, <1>6, <1>8, OthersStay DEF Kept, Closes
<1> QED BY <1>6, <1>7, <1>9, <1>10, <1>11 DEF Kept

LEMMA ServiceDeletesKeeps ==
  ASSUME Kept, NEW c \in Callers, ServiceDeletes(c)
  PROVE  Kept'
<1>1. /\ job[c].op # "none" /\ job[c].at = "service" /\ kind' = kind /\ job[c].op = "delete"
      /\ job[c] \in CallType /\ Addressed(c) /\ Placed(c) /\ job \in [Callers -> CallType \cup {Idle}]
  BY ResumesFacts DEF Kept, ServiceDeletes
<1>2. UNCHANGED <<recs, tomb, nDocs, nameOf, uuidOf, tombs, gone, kept, told, crossed>>
  BY DEF ServiceDeletes, local, history
<1> DEFINE new == [job[c] EXCEPT !.at = "found"]
<1>3. /\ job' = [job EXCEPT ![c] = new] /\ new \in CallType /\ job'[c] = new
      /\ new.at = "found" /\ new.op = "delete" /\ new.x = job[c].x
  BY <1>1 DEF ServiceDeletes, CallType, Places
<1>4. /\ docs' \in [Docs -> Document \cup {None}]
      /\ \A u \in Docs : docs'[u] # None => docs'[u] = docs[u]
  BY DEF ServiceDeletes, Kept, Stored
<1>5. Stored' /\ Grows
  BY <1>1, <1>2, <1>4 DEF Kept, Stored, Grows
<1>6. Catalogued'
  BY <1>2, <1>4 DEF Kept, Catalogued
<1>7. Remembered'
  BY <1>2 DEF Kept, Remembered, AddedIsReadable
<1>8. Settles(c)
  <2>1. Addressed(c)'
    BY <1>1, <1>3 DEF Addressed
  <2>2. Placed(c)'
    BY <1>1, <1>2, <1>3 DEF Placed, Told, Searches
  <2> QED BY <1>1, <1>3, <2>1, <2>2 DEF Settles, Lands, Deletes
<1>9. Lone'
  BY <1>2, <1>8, LoneStays, DeletionsStay DEF Kept
<1>10. Called'
  BY <1>5, <1>8, OthersStay DEF Kept, Settles
<1> QED BY <1>5, <1>6, <1>7, <1>9, <1>10 DEF Kept

\* The deletion that is through is the only one of its note, unless it was crossed.
LEMMA RemoteDeletedKeeps ==
  ASSUME Kept, NEW c \in Callers, RemoteDeleted(c)
  PROVE  Kept'
<1>1. /\ job[c].op # "none" /\ job[c].at = "found" /\ kind' = kind /\ job[c].op = "delete"
      /\ Addressed(c)
  BY ResumesFacts DEF Kept, RemoteDeleted
<1>2. PICK x \in Names : x = job[c].x
  BY <1>1 DEF Addressed
<1>3. Deletes(c, x)
  BY <1>1, <1>2 DEF Deletes
<1>4. x \in crossed \/ (tomb[x] = 0 /\ \A d \in Callers \ {c} : ~Deletes(d, x))
  BY <1>3 DEF Kept, Lone
<1>5. BuriedAfterAll(c) /\ UNCHANGED <<recs, service, local, crossed, runs>>
  BY DEF RemoteDeleted
<1> QED BY <1>1, <1>2, <1>4, <1>5, BuriedAfterAllKeeps

LEMMA ServiceKeeps ==
  ASSUME Kept, NEW c \in Callers, Service(c)
  PROVE  Kept'
  BY ServiceSearchesKeeps, RemoteFoundKeeps, Mem0ListsAllKeeps, ServiceAddsKeeps, RemoteAddedKeeps,
     ServiceDeletesKeeps, RemoteDeletedKeeps DEF Service

\* The service and its names grow while no call moves.
LEMMA GrowthKeeps ==
  ASSUME Kept, UNCHANGED <<job, tomb, gone, kept, told, crossed, recs>>, Grows, Stored', Catalogued'
  PROVE  Kept'
<1>1. Remembered'
  BY DEF Kept, Remembered, AddedIsReadable
<1>2. Lone'
  BY DEF Kept, Lone, Deletes
<1>3. Called'
  <2> SUFFICES ASSUME NEW c \in Callers, job'[c].op # "none"
               PROVE  (Addressed(c) /\ Placed(c))'
    BY DEF Kept, Called
  <2> QED BY UntouchedStays DEF Kept
<1> QED BY <1>1, <1>2, <1>3 DEF Kept

LEMMA ZepPrimesKeeps ==
  ASSUME Kept, ZepPrimes
  PROVE  Kept'
<1>1. UNCHANGED <<kind, recs, tomb, nameOf, uuidOf, tombs, gone, kept, told, crossed, job>>
  BY DEF ZepPrimes, server, history
<1>2. CASE UNCHANGED service
  BY <1>1, <1>2, IdleCallsKeep DEF NotesStay
<1> DEFINE doc == [id |-> Seed, sens |-> FALSE]
<1>3. CASE /\ nDocs < MaxDocs /\ nDocs' = nDocs + 1
           /\ docs' = [docs EXCEPT ![nDocs'] = [id |-> Seed, sens |-> FALSE]]
  <2>1. doc \in Document /\ (doc.id = Foreign <=> doc.sens)
    BY MemoryAssumption DEF Document
  <2>2. docs' = [docs EXCEPT ![nDocs'] = doc]
    BY <1>3
  <2> HIDE DEF doc
  <2>3. /\ nDocs' \in Docs /\ docs' \in [Docs -> Document \cup {None}]
        /\ \A u \in Docs : docs'[u] # None => u <= nDocs' /\ (docs'[u].id = Foreign <=> docs'[u].sens)
    BY <1>3, <2>1, <2>2, Catalogues DEF Kept
  <2>4. Stored' /\ Grows
    BY <1>1, <1>3, <2>3 DEF Kept, Stored, Grows
  <2>5. Catalogued'
    BY <1>1, <1>3, <2>3, MemoryAssumption DEF Kept, Stored, Catalogued, Docs
  <2> QED BY <1>1, <2>4, <2>5, GrowthKeeps
<1> QED BY <1>2, <1>3 DEF ZepPrimes

LEMMA ZepPrimedKeeps ==
  ASSUME Kept, Pushed, ZepPrimed
  PROVE  Kept'
<1>1. UNCHANGED <<kind, recs, tomb, service, tombs, gone, kept, told, crossed, job>>
  BY DEF ZepPrimed, server, history
<1>2. PICK u \in Docs : u = primed /\ u <= nDocs /\ u # 0 /\ u \in 0..nDocs
  BY MemoryAssumption DEF ZepPrimed, Pushed, Docs, Kept, Stored
<1>3. Seed \in Names /\ nameOf' = [nameOf EXCEPT ![u] = Seed] /\ uuidOf' = [uuidOf EXCEPT ![Seed] = u]
  BY <1>2, MemoryAssumption DEF ZepPrimed, Names
<1>4. Stored' /\ Grows
  BY <1>1, <1>2, <1>3 DEF Kept, Stored, Grows, service
<1>5. Catalogued'
  BY <1>1, <1>2, <1>3 DEF Kept, Stored, Catalogued, service
<1> QED BY <1>1, <1>4, <1>5, GrowthKeeps

-----------------------------------------------------------------------------
(* The server restarts.                                                    *)

\* The calls that were under way are lost, the answers stay.
LEMMA RestartsCalls ==
  ASSUME Called, kind' = kind, Restarts
  PROVE  Called' /\ \A c \in Callers : \A x : ~Deletes(c, x)'
<1>1. ASSUME NEW c \in Callers
      PROVE  /\ job'[c] \in CallType \cup {Idle}
             /\ job'[c].op # "none" => (Addressed(c) /\ Placed(c))'
             /\ \A x : ~Deletes(c, x)'
  <2>1. job'[c] = IF job[c].op = "none" \/ job[c].at = "answered" THEN job[c]
                  ELSE IF job[c].waiting THEN [job[c] EXCEPT !.at = "lost"] ELSE Idle
    BY DEF Restarts
  <2>2. CASE job[c].op = "none"
    BY <2>1, <2>2 DEF Called, Deletes
  <2>3. CASE job[c].op # "none" /\ job[c].at = "answered"
    <3>1. job'[c] = job[c] /\ job[c] \in CallType /\ Addressed(c) /\ Placed(c)
      BY <2>1, <2>3, CallTypes
    <3> QED BY <2>3, <3>1 DEF Addressed, Placed, Told, Presentable, Deletes
  <2>4. CASE job[c].op # "none" /\ job[c].at # "answered" /\ job[c].waiting
    <3>1. job'[c] = [job[c] EXCEPT !.at = "lost"] /\ job[c] \in CallType /\ Addressed(c)
      BY <2>1, <2>4, CallTypes
    <3>2. /\ job'[c] \in CallType /\ job'[c].at = "lost" /\ job'[c].op = job[c].op
          /\ job'[c].x = job[c].x
      BY <3>1 DEF CallType, Places
    <3> QED BY <3>1, <3>2 DEF Addressed, Placed, Told, Deletes
  <2>5. CASE job[c].op # "none" /\ job[c].at # "answered" /\ ~job[c].waiting
    BY <2>1, <2>5 DEF Idle, Deletes
  <2> QED BY <2>2, <2>3, <2>4, <2>5
<1>2. job' = [c \in Callers |-> job'[c]]
  BY DEF Restarts
<1> QED BY <1>1, <1>2 DEF Called

LEMMA RestartsKeep ==
  ASSUME Kept, MockRestarts \/ SqliteRestarts \/ ZepRestarts \/ Mem0Restarts
  PROVE  Kept'
<1>1. Restarts /\ UNCHANGED <<kind, service, tombs>>
  BY DEF MockRestarts, SqliteRestarts, ZepRestarts, Mem0Restarts, Restarts, server
<1>2. Called' /\ \A c \in Callers : \A x : ~Deletes(c, x)'
  BY <1>1, RestartsCalls DEF Kept
<1>3. Lone'
  BY <1>2 DEF Lone
<1>4. CASE UNCHANGED <<recs, tomb, nameOf, uuidOf, gone, kept, told, crossed>>
  <2>1. Stored' /\ Catalogued' /\ Remembered'
    BY <1>1, <1>4, CalmStore DEF Kept, NotesStay
  <2> QED BY <1>2, <1>3, <2>1 DEF Kept
<1>5. CASE Forgets
  <2>1. recs' \in [Names -> {"none", "seed", "new", "old"}]
    BY <1>5 DEF Forgets, SeedRecs
  <2>2. Stored'
    BY <1>1, <1>5, <2>1 DEF Forgets, Kept, Stored, service
  <2>3. Catalogued'
    BY <1>1, <1>5 DEF Forgets, Kept, Catalogued, service
  <2>4. Remembered'
    BY <1>5 DEF Forgets, Remembered, AddedIsReadable
  <2> QED BY <1>2, <1>3, <2>2, <2>3, <2>4 DEF Kept
<1> QED BY <1>4, <1>5 DEF MockRestarts, SqliteRestarts, ZepRestarts, Mem0Restarts, local

-----------------------------------------------------------------------------
(* The Runner and the other clients.                                       *)

LEMMA QuietStays ==
  ASSUME Quiet
  PROVE  NotesStay
  BY DEF Quiet, NotesStay, server, store, local

LEMMA CallKeeps ==
  ASSUME Kept, clock \in Nat, Quiet, NEW c \in Callers, NEW op \in Ops,
         NEW x \in Names \cup {None}, NEW sens \in BOOLEAN, Call(c, op, x, sens),
         op = "delete" => x \in Names,
         op = "add" => x \in Ids \cup {None} /\ (kind # "mem0" => x \in Ids),
         op = "read" => x \in Ids
  PROVE  Kept'
<1>1. NotesStay
  BY QuietStays
<1>2. Settles(c)
  BY <1>1, CallSettles DEF Kept, NotesStay
<1> QED BY <1>1, <1>2, CalmKeeps

LEMMA RunnerCallsKeep ==
  ASSUME Kept, clock \in Nat, NEW c \in Callers,
         ProbeCalls(c) \/ SessionPrefetches(c) \/ Elapsed(c) \/ RecordNoteWritten(c)
  PROVE  Kept'
<1> USE DEF Ops, RunnerOps, Searches
<1>1. CASE ProbeCalls(c)
  BY <1>1, CallKeeps DEF ProbeCalls
<1>2. CASE SessionPrefetches(c)
  BY <1>2, CallKeeps DEF SessionPrefetches
<1>3. CASE Fire(c)
  BY <1>3, CallKeeps DEF Fire
<1>4. CASE RecordNoteWritten(c) /\ ~Fire(c)
  <2>1. Quiet /\ UNCHANGED job
    BY <1>4 DEF RecordNoteWritten
  <2> QED BY <2>1, QuietStays, IdleCallsKeep
<1> QED BY <1>1, <1>2, <1>3, <1>4 DEF Elapsed

LEMMA ClientCallsKeeps ==
  ASSUME Kept, clock \in Nat, NEW c \in Callers, ClientCalls(c)
  PROVE  Kept'
<1> USE DEF Ops, Names
<1>1. Quiet
  BY DEF ClientCalls
<1>2. CASE \E x \in Ids \cup {u \in Docs : nameOf[u] = u} : Call(c, "delete", x, FALSE)
  <2>1. PICK x \in Ids \cup {u \in Docs : nameOf[u] = u} : Call(c, "delete", x, FALSE)
    BY <1>2
  <2> QED BY <1>1, <2>1, CallKeeps
<1>3. CASE \E x \in Ids, sens \in BOOLEAN : Call(c, "add", x, sens)
  <2>1. PICK x \in Ids, sens \in BOOLEAN : Call(c, "add", x, sens)
    BY <1>3
  <2> QED BY <1>1, <2>1, CallKeeps
<1>4. CASE kind = "mem0" /\ Call(c, "add", None, FALSE)
  BY <1>1, <1>4, CallKeeps
<1>5. CASE \E x \in Ids : Call(c, "read", x, FALSE)
  <2>1. PICK x \in Ids : Call(c, "read", x, FALSE)
    BY <1>5
  <2> QED BY <1>1, <2>1, CallKeeps
<1>6. CASE Call(c, "bytime", None, FALSE)
  BY <1>1, <1>6, CallKeeps
<1> QED BY <1>2, <1>3, <1>4, <1>5, <1>6 DEF ClientCalls

LEMMA EndsKeep ==
  ASSUME Kept, NEW c \in Callers, Receives(c) \/ TimesOut(c)
  PROVE  Kept'
<1>1. NotesStay
  BY QuietStays DEF Receives, TimesOut
<1>2. /\ job[c].op # "none"
      /\ \/ job' = [job EXCEPT ![c] = Idle]
         \/ job' = [job EXCEPT ![c] = [@ EXCEPT !.waiting = FALSE]]
  BY DEF Receives, TimesOut
<1>3. Settles(c)
  BY <1>1, <1>2, LeavesSettle DEF Kept, NotesStay, service
<1> QED BY <1>1, <1>3, CalmKeeps

LEMMA NextKeeps ==
  ASSUME Kept, Pushed, clock \in Nat, [Next]_vars
  PROVE  Kept'
<1>1. CASE UNCHANGED vars
  BY <1>1, IdleCallsKeep DEF vars, NotesStay, server, store, local, history
<1>2. CASE Tick
  BY <1>2, IdleCallsKeep DEF Tick, NotesStay, server, store, local, history
<1>3. ASSUME NEW c \in Callers,
             \/ HandlerHangs(c) \/ HandlerFails(c)
             \/ Mock(c) \/ Sqlite(c) \/ Zep(c) \/ Mem0(c) \/ Service(c)
             \/ ProbeCalls(c) \/ SessionPrefetches(c) \/ Elapsed(c) \/ RecordNoteWritten(c) \/ ClientCalls(c)
             \/ Receives(c) \/ TimesOut(c)
      PROVE  Kept'
  BY <1>3, HandlerHangsKeeps, HandlerFailsKeeps, MockKeeps, SqliteKeeps, RemoteHandlersKeep, ServiceKeeps,
     RunnerCallsKeep, ClientCallsKeeps, EndsKeep
<1> QED BY <1>1, <1>2, <1>3, RestartsKeep, ZepPrimesKeeps, ZepPrimedKeeps DEF Next

LEMMA InitKeeps == Init => Kept
<1> SUFFICES ASSUME Init PROVE Kept
  OBVIOUS
<1>1. recs \in [Names -> {"none", "seed", "new", "old"}]
  BY DEF Init, SeedRecs
<1>2. docs \in [Docs -> Document \cup {None}]
  BY DEF Init, Document
<1>3. Stored
  <2>1. nDocs \in Nat /\ 0 \in 0..nDocs /\ tombs = 0
    BY DEF Init
  <2>2. tomb \in [Names -> 0..tombs] /\ uuidOf \in [Names -> 0..nDocs]
    BY <2>1 DEF Init
  <2>3. nameOf \in [Docs -> Names \cup {None}]
    BY DEF Init
  <2>4. kind \in Kinds
    BY DEF Init, StartedWith
  <2> QED BY <1>1, <1>2, <2>1, <2>2, <2>3, <2>4 DEF Stored
<1>4. Catalogued
  BY DEF Init, Catalogued
<1>5. Remembered
  BY DEF Init, Remembered, AddedIsReadable
<1>6. Lone /\ Called
  BY DEF Init, Lone, Called, Deletes, Idle
<1> QED BY <1>3, <1>4, <1>5, <1>6 DEF Kept

\* The seed's uuid stays given out.
LEMMA NextPushes ==
  ASSUME Kept, Pushed, [Next]_vars
  PROVE  Pushed'
<1>0. nDocs \in Nat /\ 0 \notin Docs /\ None \notin Docs
  BY MemoryAssumption DEF Kept, Stored, Docs
<1>1. ASSUME primed' = primed, nDocs' = nDocs \/ (nDocs < MaxDocs /\ nDocs' = nDocs + 1)
      PROVE  Pushed'
  BY <1>0, <1>1, MemoryAssumption DEF Pushed, Docs
<1>2. CASE ZepPrimes
  <2>1. primed' = 0 \/ primed' = nDocs'
    BY <1>2 DEF ZepPrimes
  <2>2. nDocs' \in Nat
    BY <1>0, <1>2 DEF ZepPrimes, service
  <2> QED BY <1>0, <2>1, <2>2 DEF Pushed
<1>3. CASE ZepPrimed \/ ZepRestarts
  BY <1>0, <1>3 DEF Pushed, ZepPrimed, ZepRestarts
<1>4. CASE UNCHANGED <<service, primed>>
  BY <1>1, <1>4 DEF service
<1>5. CASE UNCHANGED vars \/ Tick \/ MockRestarts \/ SqliteRestarts \/ Mem0Restarts
  BY <1>4, <1>5 DEF vars, store, Tick, MockRestarts, SqliteRestarts, Mem0Restarts, Restarts, local
<1>6. ASSUME NEW c \in Callers, HandlerHangs(c) \/ HandlerFails(c) \/ Mock(c) \/ Sqlite(c)
      PROVE  Pushed'
  BY <1>4, <1>6
     DEF HandlerHangs, HandlerFails, Mock, MockSearch, MockByTime, MockAdd, MockRead, MockConsolidate,
         MockDelete, Sqlite, SqliteSearch, SqliteScored, SqliteByTime, SqliteAdd, SqliteRead,
         SqliteConsolidate, SqliteDelete, AlreadyBuried, Unknown, Nothing, store, local
<1>7. ASSUME NEW c \in Callers, Zep(c) \/ Mem0(c)
      PROVE  Pushed'
  BY <1>4, <1>7
     DEF Zep, ZepSearch, ZepByTime, ZepAdd, ZepRead, ZepConsolidate, ZepDelete, Mem0, Mem0Search,
         Mem0ByTime, Mem0Add, Mem0Read, Mem0Consolidate, Mem0Delete, RemoteAdd, RemoteDelete,
         AlreadyBuried, Unknown, Nothing, store, local
<1>8. ASSUME NEW c \in Callers, Service(c)
      PROVE  Pushed'
  <2>1. primed' = primed /\ (nDocs' = nDocs \/ (nDocs < MaxDocs /\ nDocs' = nDocs + 1))
    BY <1>8
       DEF Service, ServiceSearches, RemoteFound, Mem0ListsAll, ServiceAdds, RemoteAdded,
           ServiceDeletes, RemoteDeleted, Nothing, store, service, local
  <2> QED BY <1>1, <2>1
<1>9. ASSUME NEW c \in Callers,
             \/ ProbeCalls(c) \/ SessionPrefetches(c) \/ Elapsed(c) \/ RecordNoteWritten(c) \/ ClientCalls(c)
             \/ Receives(c) \/ TimesOut(c)
      PROVE  Pushed'
  <2>1. Quiet
    BY <1>9 DEF ProbeCalls, SessionPrefetches, Elapsed, RecordNoteWritten, ClientCalls, Receives,
                TimesOut, Fire
  <2> QED BY <1>4, <2>1 DEF Quiet, store, local
<1> QED BY <1>2, <1>3, <1>5, <1>6, <1>7, <1>8, <1>9 DEF Next

LEMMA InitPushed == Init => Pushed
  BY MemoryAssumption DEF Init, Pushed, Docs

-----------------------------------------------------------------------------
(* The Runner's side of the calls.                                         *)

Runs == Awaited /\ Probing /\ Scheduled /\ Tracked /\ Clean

\* Whoever waits goes on waiting for the same call, or the call is over.
Carried(d) ==
  \/ job'[d] = job[d]
  \/ job'[d] = Idle
  \/ /\ job'[d].op = job[d].op /\ job'[d].waiting = job[d].waiting /\ job'[d].ranAt = job[d].ranAt
     /\ job'[d].at \in {"answered", "lost"} => job[d].waiting
     /\ job'[d].at = "answered" => job'[d].res \in {"ok", "error"}

\* A step of the server or its service.
Serves == (\A d \in Callers : Carried(d)) /\ UNCHANGED <<clock, runner, runs>>

LEMMA ServesRuns ==
  ASSUME Runs, Serves
  PROVE  Runs'
<1>1. /\ UNCHANGED <<clock, runs, ready, attempts, fails, log, inContext, lastRun, noteCount>>
      /\ \A d \in Callers : Carried(d)
  BY DEF Serves, runner
<1>2. Awaited'
  BY <1>1 DEF Runs, Awaited, Carried, Idle
<1>3. \A d \in Callers, op \in {"probe", "consolidate"} :
        Waits(d, op)' => Waits(d, op) /\ job'[d].ranAt = job[d].ranAt
  BY <1>1 DEF Carried, Waits, Idle
<1>4. Probing'
  BY <1>1, <1>3 DEF Runs, Probing
<1>5. Scheduled'
  BY <1>1, <1>3 DEF Runs, Scheduled, NoEarlyRun
<1>6. Tracked' /\ Clean'
  BY <1>1 DEF Runs, Tracked, Clean, DegradedExact, TimeoutsSinceOk
<1> QED BY <1>2, <1>4, <1>5, <1>6 DEF Runs

LEMMA AnswerCarries ==
  ASSUME Called, NEW c \in Callers, job[c].op # "none", NEW res \in {"ok", "error"}, NEW hits,
         Answer(c, res, hits)
  PROVE  \A d \in Callers : Carried(d)
  BY CallTypes DEF Called, Answer, Carried, CallType

LEMMA AnswerHitsCarries ==
  ASSUME Called, NEW c \in Callers, job[c].op # "none", NEW seen, AnswerHits(c, seen)
  PROVE  \A d \in Callers : Carried(d)
<1> DEFINE notes == {[name |-> x, id |-> x, sens |-> FALSE] : x \in seen}
<1>1. job' = [job EXCEPT ![c] =
                IF @.waiting
                THEN [@ EXCEPT !.at = "answered", !.res = "ok", !.gone = gone, !.hits = notes]
                ELSE Idle]
  BY DEF AnswerHits
<1> HIDE DEF notes
<1> QED BY <1>1, CallTypes DEF Called, Carried, CallType

\* The call stays under way.
LEMMA MovesCarry ==
  ASSUME Called, NEW c \in Callers, job[c].op # "none", NEW at, at \notin {"answered", "lost"},
         NEW hits, NEW past, NEW uuid,
         \/ job' = [job EXCEPT ![c].at = at]
         \/ job' = [job EXCEPT ![c].at = at, ![c].gone = past]
         \/ job' = [job EXCEPT ![c].at = at, ![c].gone = past, ![c].hits = hits]
         \/ job' = [job EXCEPT ![c].at = at, ![c].hits = hits]
         \/ job' = [job EXCEPT ![c].at = at, ![c].uuid = uuid]
  PROVE  \A d \in Callers : Carried(d)
<1>1. job[c] \in CallType /\ job \in [Callers -> CallType \cup {Idle}]
  BY CallTypes DEF Called
<1>2. /\ \A d \in Callers \ {c} : job'[d] = job[d]
      /\ job'[c].op = job[c].op /\ job'[c].waiting = job[c].waiting /\ job'[c].ranAt = job[c].ranAt
      /\ job'[c].at = at
  BY <1>1 DEF CallType
<1> QED BY <1>2 DEF Carried

LEMMA HandlersServe ==
  ASSUME Kept, NEW c \in Callers,
         \/ HandlerHangs(c) \/ HandlerFails(c) \/ Mock(c) \/ Sqlite(c) \/ Zep(c) \/ Mem0(c)
  PROVE  Serves
<1>1. CASE HandlerHangs(c)
  <2>1. job[c] \in CallType /\ job \in [Callers -> CallType \cup {Idle}]
    BY <1>1, CallTypes DEF Kept, Called, HandlerHangs
  <2>2. \A d \in Callers : Carried(d)
    BY <1>1, <2>1 DEF HandlerHangs, Carried, CallType
  <2> QED BY <1>1, <2>2 DEF Serves, HandlerHangs, history
<1>2. CASE HandlerFails(c)
  BY <1>2, AnswerCarries DEF Kept, Serves, HandlerFails, history
<1>3. ASSUME NEW op, Starts(c, op), UNCHANGED runs,
             \/ \E res \in {"ok", "error"} : Answer(c, res, {})
             \/ \E seen : AnswerHits(c, seen)
             \/ Suspend(c, "service")
      PROVE  Serves
  <2>1. job[c].op # "none" /\ UNCHANGED <<clock, runner>>
    BY <1>3 DEF Starts, Handles
  <2>2. CASE \E res \in {"ok", "error"} : Answer(c, res, {})
    BY <1>3, <2>1, <2>2, AnswerCarries DEF Kept, Serves
  <2>3. CASE \E seen : AnswerHits(c, seen)
    BY <1>3, <2>1, <2>3, AnswerHitsCarries DEF Kept, Serves
  <2>4. CASE Suspend(c, "service")
    BY <1>3, <2>1, <2>4, MovesCarry DEF Kept, Serves, Suspend
  <2> QED BY <1>3, <2>2, <2>3, <2>4
<1>4. CASE Mock(c)
  <2>1. CASE MockSearch(c) \/ MockByTime(c)
    BY <1>3, <2>1 DEF MockSearch, MockByTime, Nothing, history
  <2>2. CASE MockAdd(c) \/ MockRead(c) \/ MockConsolidate(c)
    BY <1>3, <2>2 DEF MockAdd, MockRead, MockConsolidate, Nothing, history
  <2>3. CASE MockDelete(c)
    BY <1>3, <2>3 DEF MockDelete, AlreadyBuried, Unknown, Nothing, history
  <2> QED BY <1>4, <2>1, <2>2, <2>3 DEF Mock
<1>5. CASE Sqlite(c)
  <2>1. CASE SqliteSearch(c)
    <3> DEFINE notes == {[name |-> x, id |-> x, sens |-> FALSE] : x \in LiveRows}
    <3>1. job' = [job EXCEPT ![c].at = "scoring", ![c].gone = gone, ![c].hits = notes]
      BY <2>1 DEF SqliteSearch
    <3> HIDE DEF notes
    <3>2. job[c].op # "none" /\ UNCHANGED <<clock, runner, runs>>
      BY <2>1 DEF SqliteSearch, Starts, Handles, Nothing, history
    <3>3. "scoring" \notin {"answered", "lost"} /\ Called
      BY DEF Kept
    <3>4. \A d \in Callers : Carried(d)
      BY <3>1, <3>2, <3>3, MovesCarry
    <3> QED BY <3>2, <3>4 DEF Serves
  <2>2. CASE SqliteScored(c)
    <3>1. CASE Answer(c, "ok", job[c].hits)
      BY <2>2, <3>1, AnswerCarries DEF SqliteScored, Nothing, history, Kept, Serves
    <3>2. CASE Answer(c, "error", {})
      BY <2>2, <3>2, AnswerCarries DEF SqliteScored, Nothing, history, Kept, Serves
    <3> QED BY <2>2, <3>1, <3>2 DEF SqliteScored
  <2>3. CASE SqliteByTime(c) \/ SqliteRead(c)
    BY <1>3, <2>3 DEF SqliteByTime, SqliteRead, Nothing, history
  <2>4. CASE SqliteAdd(c) \/ SqliteConsolidate(c)
    BY <1>3, <2>4 DEF SqliteAdd, SqliteConsolidate, Unknown, Nothing, history
  <2>5. CASE SqliteDelete(c)
    BY <1>3, <2>5 DEF SqliteDelete, AlreadyBuried, Unknown, Nothing, history
  <2> QED BY <1>5, <2>1, <2>2, <2>3, <2>4, <2>5 DEF Sqlite
<1>6. CASE RemoteAdd(c)
  BY <1>3, <1>6 DEF RemoteAdd, Wrote
<1>7. CASE RemoteDelete(c)
  <2>1. CASE job' = [job EXCEPT ![c].at = "service", ![c].uuid = uuidOf[job[c].x]] /\ UNCHANGED runs
    BY <1>7, <2>1, MovesCarry DEF RemoteDelete, Starts, Handles, Kept, Serves
  <2>2. CASE AlreadyBuried(c) \/ Unknown(c) \/ (BuriedAfterAll(c) /\ UNCHANGED runs)
    BY <1>3, <1>7, <2>2 DEF RemoteDelete, AlreadyBuried, Unknown, BuriedAfterAll, Nothing, history
  <2> QED BY <1>7, <2>1, <2>2 DEF RemoteDelete
<1>8. CASE Zep(c) \/ Mem0(c)
  <2>1. CASE ZepSearch(c) \/ Mem0Search(c) \/ Mem0ByTime(c)
    BY <1>3, <2>1 DEF ZepSearch, Mem0Search, Mem0ByTime, Nothing, history
  <2>2. CASE ZepByTime(c)
    BY <1>3, <2>2 DEF ZepByTime, Nothing, history
  <2>3. CASE ZepRead(c) \/ Mem0Read(c) \/ ZepConsolidate(c) \/ Mem0Consolidate(c)
    BY <1>3, <2>3 DEF ZepRead, Mem0Read, ZepConsolidate, Mem0Consolidate, Nothing, history
  <2> QED BY <1>6, <1>7, <1>8, <2>1, <2>2, <2>3 DEF Zep, Mem0, ZepAdd, Mem0Add, ZepDelete, Mem0Delete
<1> QED BY <1>1, <1>2, <1>4, <1>5, <1>8

LEMMA ServiceServes ==
  ASSUME Kept, NEW c \in Callers, Service(c)
  PROVE  Serves
<1>1. /\ job[c].op # "none" /\ UNCHANGED <<clock, runner>> /\ Called
      /\ job[c] \in CallType /\ job \in [Callers -> CallType \cup {Idle}]
  BY CallTypes DEF Kept, Called, Service, ServiceSearches, RemoteFound, Mem0ListsAll, ServiceAdds,
                   RemoteAdded, ServiceDeletes, RemoteDeleted, Resumes
<1>2. UNCHANGED runs
  BY DEF Service, ServiceSearches, Nothing, RemoteFound, Mem0ListsAll, ServiceAdds, RemoteAdded,
         ServiceDeletes, RemoteDeleted, history
<1>3. ASSUME NEW res \in {"ok", "error"}, NEW hits, Answer(c, res, hits)
      PROVE  Serves
  BY <1>1, <1>2, <1>3, AnswerCarries DEF Serves
<1>4. CASE ServiceSearches(c)
  <2> DEFINE found == {[uuid |-> u, doc |-> docs[u]] : u \in {v \in Docs : docs[v] # None}}
  <2>1. CASE job' = [job EXCEPT ![c].at = "found", ![c].hits = found]
    <3> HIDE DEF found
    <3>1. "found" \notin {"answered", "lost"}
      OBVIOUS
    <3>2. \A d \in Callers : Carried(d)
      BY <1>1, <2>1, <3>1, MovesCarry
    <3> QED BY <1>1, <1>2, <3>2 DEF Serves
  <2> QED BY <1>3, <1>4, <2>1 DEF ServiceSearches
<1>5. CASE RemoteFound(c)
  <2>1. PICK hits : Answer(c, "ok", hits)
    BY <1>5 DEF RemoteFound
  <2> QED BY <1>3, <2>1
<1>6. CASE ServiceAdds(c)
  <2>1. CASE job' = [job EXCEPT ![c].at = "found", ![c].uuid = nDocs']
    <3>1. PICK u : job' = [job EXCEPT ![c].at = "found", ![c].uuid = u]
      BY <2>1
    <3>2. "found" \notin {"answered", "lost"}
      OBVIOUS
    <3>3. \A d \in Callers : Carried(d)
      BY <1>1, <3>1, <3>2, MovesCarry
    <3> QED BY <1>1, <1>2, <3>3 DEF Serves
  <2> QED BY <1>3, <1>6, <2>1 DEF ServiceAdds
<1>7. CASE RemoteAdded(c) \/ RemoteDeleted(c)
  BY <1>3, <1>7 DEF RemoteAdded, RemoteDeleted, BuriedAfterAll
<1>8. CASE Mem0ListsAll(c)
  <2>1. PICK res \in {"ok", "error"} : \E hits : Answer(c, res, hits)
    BY <1>8 DEF Mem0ListsAll
  <2> QED BY <1>3, <2>1
<1>9. CASE ServiceDeletes(c)
  <2>1. job' = [job EXCEPT ![c].at = "found"] /\ "found" \notin {"answered", "lost"}
    BY <1>9 DEF ServiceDeletes
  <2>2. \A d \in Callers : Carried(d)
    BY <1>1, <2>1, MovesCarry
  <2> QED BY <1>1, <1>2, <2>2 DEF Serves
<1> QED BY <1>4, <1>5, <1>6, <1>7, <1>8, <1>9 DEF Service

LEMMA RestartsServe ==
  ASSUME Kept, MockRestarts \/ SqliteRestarts \/ ZepRestarts \/ Mem0Restarts
  PROVE  Serves
<1>1. Restarts
  BY DEF MockRestarts, SqliteRestarts, ZepRestarts, Mem0Restarts
<1>2. ASSUME NEW d \in Callers
      PROVE  Carried(d)
  <2>1. job'[d] = IF job[d].op = "none" \/ job[d].at = "answered" THEN job[d]
                  ELSE IF job[d].waiting THEN [job[d] EXCEPT !.at = "lost"] ELSE Idle
    BY <1>1 DEF Restarts
  <2>2. job[d].op # "none" => job[d] \in CallType
    BY CallTypes DEF Kept
  <2> QED BY <2>1, <2>2 DEF Carried, CallType
<1> QED BY <1>1, <1>2 DEF Serves, Restarts

LEMMA RemainsServe ==
  ASSUME UNCHANGED vars \/ ZepPrimes \/ ZepPrimed
  PROVE  Serves
  BY DEF ZepPrimes, ZepPrimed, vars, history, Serves, Carried

-----------------------------------------------------------------------------
(* The outcomes of the prefetches.                                         *)

TimedOut(l, i) ==
  {j \in 1..i : l[j].res = "timeout" /\ \A k \in j..i : l[k].res # "ok"}

LEMMA TimedOutFinite ==
  ASSUME NEW l, NEW i \in Nat
  PROVE  IsFiniteSet(TimedOut(l, i)) /\ Cardinality(TimedOut(l, i)) \in Nat
<1>1. IsFiniteSet(1..i)
  BY FS_Interval
<1>2. TimedOut(l, i) \subseteq 1..i
  BY DEF TimedOut
<1> QED BY <1>1, <1>2, FS_Subset, FS_CardinalityType

\* One more outcome: a success forgets the timeouts, and only a timeout adds one.
LEMMA TimedOutGrows ==
  ASSUME NEW l \in Seq(Outcome), NEW e \in Outcome
  PROVE  LET n == Len(l)
             m == Append(l, e)
         IN  /\ \A i \in 1..n : TimedOut(m, i) = TimedOut(l, i) /\ m[i] = l[i]
             /\ e.res = "ok" => TimedOut(m, n + 1) = {}
             /\ e.res = "timeout" => TimedOut(m, n + 1) = TimedOut(l, n) \cup {n + 1}
             /\ e.res = "error" => TimedOut(m, n + 1) = TimedOut(l, n)
<1> DEFINE n == Len(l)
           m == Append(l, e)
<1>1. n \in Nat /\ m[n + 1] = e /\ \A i \in 1..n : m[i] = l[i]
  OBVIOUS
<1> HIDE DEF m, n
<1>2. \A i \in 1..n : TimedOut(m, i) = TimedOut(l, i)
  BY <1>1 DEF TimedOut
<1>3. e.res = "ok" => TimedOut(m, n + 1) = {}
  BY <1>1 DEF TimedOut
<1>4. ASSUME e.res # "ok"
      PROVE  /\ \A j \in 1..n : j \in TimedOut(m, n + 1) <=> j \in TimedOut(l, n)
             /\ n + 1 \in TimedOut(m, n + 1) <=> e.res = "timeout"
  <2>1. ASSUME NEW j \in 1..n
        PROVE  (\A k \in j..(n + 1) : m[k].res # "ok") <=> (\A k \in j..n : l[k].res # "ok")
    BY <1>1, <1>4
  <2>2. (n + 1)..(n + 1) = {n + 1}
    BY <1>1
  <2> QED BY <1>1, <1>4, <2>1, <2>2 DEF TimedOut
<1>5. TimedOut(m, n + 1) \subseteq 1..(n + 1) /\ TimedOut(l, n) \subseteq 1..n
  BY DEF TimedOut
<1>6. \A j \in 1..(n + 1) : j \in 1..n \/ j = n + 1
  BY <1>1
<1>7. n + 1 \notin TimedOut(l, n)
  BY <1>1, <1>5
<1>8. e.res = "timeout" => TimedOut(m, n + 1) = TimedOut(l, n) \cup {n + 1}
  BY <1>4, <1>5, <1>6
<1>9. e.res = "error" => TimedOut(m, n + 1) = TimedOut(l, n)
  BY <1>4, <1>5, <1>6
<1> QED BY <1>1, <1>2, <1>3, <1>8, <1>9 DEF m, n

LEMMA Positive ==
  /\ Threshold \in Nat \ {0} /\ MaxAttempts \in Nat \ {0}
  /\ Interval \in Nat \ {0} /\ NoteThreshold \in Nat \ {0}
  BY MemoryAssumption

LEMMA PrefetchTracked ==
  ASSUME Tracked, NEW res \in {"ok", "error", "timeout"}, NEW hits, PrefetchEnds(res, hits)
  PROVE  Tracked'
<1> DEFINE e == [res |-> res, ended |-> res = "timeout" /\ Degraded(fails + 1)]
           n == Len(log)
<1>1. /\ log' = Append(log, e) /\ e \in Outcome /\ log \in Seq(Outcome) /\ n \in Nat
      /\ e.res = res /\ (e.ended <=> (res = "timeout" /\ fails + 1 >= Threshold))
  <2>1. n \in Nat /\ log' = Append(log, e) /\ log \in Seq(Outcome)
    BY DEF PrefetchEnds, Tracked
  <2>2. (res = "timeout" /\ Degraded(fails + 1)) \in BOOLEAN
    BY DEF Degraded
  <2> QED BY <2>1, <2>2 DEF Outcome, Degraded
<1>2. log' \in Seq(Outcome) /\ Len(log') = n + 1 /\ log'[n + 1] = e
  BY <1>1
<1>3. /\ \A i \in 1..n : TimedOut(log', i) = TimedOut(log, i) /\ log'[i] = log[i]
      /\ res = "ok" => TimedOut(log', n + 1) = {}
      /\ res = "timeout" => TimedOut(log', n + 1) = TimedOut(log, n) \cup {n + 1}
      /\ res = "error" => TimedOut(log', n + 1) = TimedOut(log, n)
  <2>1. PICK o \in Outcome : o = e
    BY <1>1
  <2>2. LET m == Append(log, o)
        IN  /\ \A i \in 1..n : TimedOut(m, i) = TimedOut(log, i) /\ m[i] = log[i]
            /\ o.res = "ok" => TimedOut(m, n + 1) = {}
            /\ o.res = "timeout" => TimedOut(m, n + 1) = TimedOut(log, n) \cup {n + 1}
            /\ o.res = "error" => TimedOut(m, n + 1) = TimedOut(log, n)
    BY <1>1, TimedOutGrows
  <2> HIDE DEF e
  <2> QED BY <1>1, <2>1, <2>2
<1>4. /\ IsFiniteSet(TimedOut(log, n)) /\ n + 1 \notin TimedOut(log, n)
      /\ fails = Cardinality(TimedOut(log, n)) /\ fails \in 0..n
  <2>1. n + 1 \notin 1..n /\ TimedOut(log, n) \subseteq 1..n
    BY <1>1 DEF TimedOut
  <2>2. fails = Cardinality(TimedOut(log, n)) /\ fails \in 0..n
    BY DEF Tracked, TimeoutsSinceOk, TimedOut
  <2>3. IsFiniteSet(TimedOut(log, n))
    BY <1>1, TimedOutFinite
  <2> HIDE DEF n
  <2> QED BY <2>1, <2>2, <2>3
<1>5. /\ fails' = CASE res = "ok" -> 0 [] res = "timeout" -> fails + 1 [] OTHER -> fails
      /\ res = "ok" => fails' = 0
      /\ res = "timeout" => fails' = fails + 1
      /\ res = "error" => fails' = fails
  BY DEF PrefetchEnds
<1> HIDE DEF e
<1>6. fails' = Cardinality(TimedOut(log', n + 1))
  <2>1. CASE res = "ok"
    BY <1>3, <1>5, <2>1, FS_EmptySet
  <2>2. CASE res = "timeout"
    BY <1>3, <1>4, <1>5, <2>2, FS_AddElement
  <2>3. CASE res = "error"
    BY <1>3, <1>4, <1>5, <2>3
  <2> QED BY <2>1, <2>2, <2>3
<1>7. fails' \in 0..(n + 1)
  BY <1>1, <1>4, <1>5
<1> HIDE DEF n
<1>8. ASSUME NEW i \in 1..(n + 1)
      PROVE  log'[i].ended <=> log'[i].res = "timeout" /\ Cardinality(TimedOut(log', i)) >= Threshold
  <2>1. CASE i = n + 1
    BY <1>1, <1>2, <1>5, <1>6, <2>1
  <2>2. CASE i # n + 1
    <3>1. i \in 1..n
      BY <1>1, <2>2
    <3>2. i \in DOMAIN log
      BY <1>1, <3>1 DEF n
    <3> QED BY <1>3, <3>1, <3>2 DEF Tracked, DegradedExact, TimeoutsSinceOk, TimedOut
  <2> QED BY <2>1, <2>2
<1>9. DOMAIN log' = 1..(n + 1)
  BY <1>2
<1>10. DegradedExact'
  BY <1>8, <1>9 DEF DegradedExact, TimeoutsSinceOk, TimedOut
<1>11. fails' = TimeoutsSinceOk(Len(log))'
  BY <1>2, <1>6 DEF TimeoutsSinceOk, TimedOut
<1> QED BY <1>2, <1>7, <1>10, <1>11 DEF Tracked

\* The caller of c stops waiting.
Quits(c) ==
  /\ \A d \in Callers \ {c} : job'[d] = job[d]
  /\ ~job'[c].waiting
  /\ job'[c].op # "none" => job'[c].at \notin {"answered", "lost"}

LEMMA QuitsFacts ==
  ASSUME Awaited, NEW c \in Callers, Quits(c)
  PROVE  /\ Awaited'
         /\ \A d \in Callers, op \in {"probe", "consolidate"} :
              Waits(d, op)' => d # c /\ Waits(d, op) /\ job'[d].ranAt = job[d].ranAt
  BY DEF Awaited, Quits, Waits

LEMMA ProbeEndsRuns ==
  ASSUME Probing, Awaited, NEW c \in Callers, Quits(c), Waits(c, "probe"), NEW res, ProbeEnds(res)
  PROVE  Probing'
<1>1. /\ ready = "pending" /\ attempts \in 0..MaxAttempts /\ attempts < MaxAttempts
      /\ MaxAttempts \in Nat /\ attempts' = attempts + 1
      /\ \A d \in Callers : ~Waits(d, "probe")'
  BY QuitsFacts, Positive DEF Probing, ProbeEnds
<1>2. /\ res = "ok" => ready' = "ready"
      /\ res # "ok" /\ attempts' = MaxAttempts => ready' = "unavailable"
      /\ res # "ok" /\ attempts' # MaxAttempts => ready' = "pending"
  BY DEF ProbeEnds
<1> QED BY <1>1, <1>2 DEF Probing

LEMMA RunEndsRuns ==
  ASSUME Scheduled, Awaited, NEW c \in Callers, Quits(c), Waits(c, "consolidate"), clock' = clock,
         job[c].ranAt \in Nat, NEW res, RunEnds(res, job[c].ranAt)
  PROVE  Scheduled'
<1> DEFINE at == job[c].ranAt
<1>1. /\ clock \in Nat /\ lastRun \in 0..clock /\ at \in 0..clock /\ noteCount' = noteCount
      /\ runs \in [ok : 0..clock, overlap : BOOLEAN, early : BOOLEAN] /\ ~runs.early
      /\ noteCount \in 0..NoteThreshold - 1
  BY DEF Scheduled, RunEnds, NoEarlyRun
<1>2. /\ lastRun' = IF res = "ok" THEN at ELSE lastRun
      /\ runs' = IF res = "ok" /\ at > runs.ok THEN [runs EXCEPT !.ok = at] ELSE runs
  BY DEF RunEnds
<1>3. /\ lastRun' \in 0..clock /\ runs' \in [ok : 0..clock, overlap : BOOLEAN, early : BOOLEAN]
      /\ ~runs'.early /\ runs'.overlap = runs.overlap
      /\ runs'.ok = IF res = "ok" /\ at > runs.ok THEN at ELSE runs.ok
  BY <1>1, <1>2
<1>4. \A d \in Callers : Waits(d, "consolidate")' =>
        d # c /\ Waits(d, "consolidate") /\ job'[d].ranAt = job[d].ranAt
  BY QuitsFacts
<1>5. ASSUME ~runs.overlap
      PROVE  /\ runs'.ok <= lastRun' /\ \A d \in Callers : ~Waits(d, "consolidate")'
  BY <1>1, <1>2, <1>3, <1>4, <1>5 DEF Scheduled
<1> QED BY <1>1, <1>3, <1>4, <1>5 DEF Scheduled, NoEarlyRun

LEMMA EndsRuns ==
  ASSUME Runs, NEW c \in Callers, job[c] \in CallType, job[c].waiting, Quits(c), clock' = clock,
         NEW res \in {"ok", "error", "timeout"}, Ends(c, res),
         res = "ok" /\ job[c].op = "prefetch" => Presentable(c)
  PROVE  Runs'
<1>1. Awaited' /\ \A d \in Callers, op \in {"probe", "consolidate"} :
        Waits(d, op)' => d # c /\ Waits(d, op) /\ job'[d].ranAt = job[d].ranAt
  BY QuitsFacts DEF Runs
<1>2. UNCHANGED <<ready, attempts>> => Probing'
  BY <1>1 DEF Runs, Probing
<1>3. UNCHANGED <<lastRun, noteCount, runs>> => Scheduled'
  BY <1>1 DEF Runs, Scheduled, NoEarlyRun
<1>4. UNCHANGED <<log, fails>> => Tracked'
  BY DEF Runs, Tracked, DegradedExact, TimeoutsSinceOk
<1>5. UNCHANGED inContext => Clean'
  BY DEF Runs, Clean
<1>6. CASE job[c].op = "prefetch"
  <2>1. PrefetchEnds(res, job[c].hits)
    BY <1>6 DEF Ends
  <2>2. Tracked'
    BY <2>1, PrefetchTracked DEF Runs
  <2>3. Clean'
    <3>1. CASE res = "ok"
      BY <1>6, <2>1, <3>1 DEF PrefetchEnds, Presentable, Clean
    <3>2. CASE res # "ok"
      BY <1>5, <2>1, <3>2 DEF PrefetchEnds
    <3> QED BY <3>1, <3>2
  <2> QED BY <1>1, <1>2, <1>3, <2>1, <2>2, <2>3 DEF Runs, PrefetchEnds
<1>7. CASE job[c].op = "probe"
  <2>1. ProbeEnds(res) /\ Waits(c, "probe")
    BY <1>7 DEF Ends, Waits
  <2>2. Probing'
    BY <2>1, ProbeEndsRuns DEF Runs
  <2> QED BY <1>1, <1>3, <1>4, <1>5, <2>1, <2>2 DEF Runs, ProbeEnds
<1>8. CASE job[c].op = "consolidate"
  <2>1. RunEnds(res, job[c].ranAt) /\ Waits(c, "consolidate") /\ job[c].ranAt \in Nat
    BY <1>8 DEF Ends, Waits, CallType
  <2>2. Scheduled'
    BY <2>1, RunEndsRuns DEF Runs
  <2> QED BY <1>1, <1>2, <1>4, <1>5, <2>1, <2>2 DEF Runs, RunEnds
<1>9. CASE job[c].op \notin {"prefetch", "probe", "consolidate"}
  <2>1. UNCHANGED <<runner, runs>>
    BY <1>9 DEF Ends
  <2> QED BY <1>1, <1>2, <1>3, <1>4, <1>5, <2>1 DEF Runs, runner
<1> QED BY <1>6, <1>7, <1>8, <1>9

LEMMA ReceivesRuns ==
  ASSUME Kept, Runs, NEW c \in Callers, Receives(c)
  PROVE  Runs'
<1>1. job[c].op # "none" /\ job[c].at = "answered" /\ clock' = clock
  BY DEF Receives, Quiet
<1>2. job[c] \in CallType /\ Placed(c) /\ job \in [Callers -> CallType \cup {Idle}]
  BY <1>1, CallTypes DEF Kept, Called
<1>3. job[c].waiting /\ job[c].res \in {"ok", "error"}
  BY <1>1 DEF Runs, Awaited
<1>4. Quits(c)
  BY <1>2 DEF Receives, Quits, Idle
<1>5. job[c].res = "ok" /\ job[c].op = "prefetch" => Presentable(c)
  BY <1>1, <1>2 DEF Placed, Told, Searches
<1>6. Ends(c, job[c].res)
  BY DEF Receives
<1> QED BY <1>1, <1>2, <1>3, <1>4, <1>5, <1>6, EndsRuns

LEMMA TimesOutRuns ==
  ASSUME Kept, Runs, NEW c \in Callers, TimesOut(c)
  PROVE  Runs'
<1>1. job[c].op # "none" /\ job[c].waiting /\ clock' = clock /\ Ends(c, "timeout")
  BY DEF TimesOut, Quiet
<1>2. job[c] \in CallType /\ job \in [Callers -> CallType \cup {Idle}]
  BY <1>1, CallTypes DEF Kept, Called
<1>3. Quits(c)
  BY <1>2 DEF TimesOut, Quits, Idle, CallType
<1> QED BY <1>1, <1>2, <1>3, EndsRuns

\* A new call waits for its server.
Opens(c, op) ==
  /\ \A d \in Callers \ {c} : job'[d] = job[d]
  /\ job'[c].op = op /\ job'[c].waiting /\ job'[c].at = "sent"
  /\ op = "consolidate" => job'[c].ranAt = clock

LEMMA CallOpens ==
  ASSUME Called, NEW c \in Callers, NEW op, NEW x, NEW sens, Call(c, op, x, sens)
  PROVE  Opens(c, op)
  BY DEF Called, Call, Opens

LEMMA OpensRuns ==
  ASSUME Runs, NEW c \in Callers, NEW op, Opens(c, op), clock' = clock,
         UNCHANGED <<ready, attempts, fails, log, inContext, lastRun>>,
         op = "probe" => ready = "pending" /\ \A d \in Callers : ~Waits(d, "probe"),
         op = "consolidate" \/ UNCHANGED <<noteCount, runs>>, op = "consolidate" => Scheduled'
  PROVE  Runs'
<1>1. Awaited'
  BY DEF Runs, Awaited, Opens
<1>2. \A d \in Callers, o \in {"probe", "consolidate"} :
        Waits(d, o)' => (d = c /\ o = op) \/ (Waits(d, o) /\ job'[d].ranAt = job[d].ranAt)
  BY DEF Opens, Waits
<1>3. Probing'
  BY <1>2 DEF Runs, Probing
<1>4. Scheduled'
  BY <1>2 DEF Runs, Scheduled, NoEarlyRun
<1>5. Tracked' /\ Clean'
  BY DEF Runs, Tracked, Clean, DegradedExact, TimeoutsSinceOk
<1> QED BY <1>1, <1>3, <1>4, <1>5 DEF Runs

LEMMA ConsolidatingWaits ==
  Consolidating <=> \E c \in Callers : Waits(c, "consolidate")
  BY DEF Consolidating, Waits

\* A run begins, alone unless the history says that two overlapped.
LEMMA OpensScheduled ==
  ASSUME Scheduled, NEW c \in Callers, Opens(c, "consolidate"), clock' = clock, lastRun' = lastRun,
         noteCount' \in 0..NoteThreshold - 1,
         runs' \in [ok : 0..clock, overlap : BOOLEAN, early : BOOLEAN], ~runs'.early,
         runs'.ok = runs.ok, runs'.overlap <=> (runs.overlap \/ Consolidating)
  PROVE  Scheduled'
<1>1. \A d \in Callers : Waits(d, "consolidate")' =>
        (d = c /\ job'[d].ranAt = clock) \/ (d # c /\ Waits(d, "consolidate") /\ job'[d].ranAt = job[d].ranAt)
  BY DEF Opens, Waits
<1>2. clock \in Nat /\ lastRun \in 0..clock
  BY DEF Scheduled
<1>3. \A d \in Callers : Waits(d, "consolidate")' => job'[d].ranAt <= clock
  BY <1>1, <1>2 DEF Scheduled
<1>4. ASSUME ~runs'.overlap
      PROVE  /\ runs'.ok <= lastRun
             /\ \A d \in Callers : Waits(d, "consolidate")' => d = c /\ job'[d].ranAt = clock
  BY <1>1, <1>4, ConsolidatingWaits DEF Scheduled
<1>5. ~runs'.overlap => /\ runs'.ok <= lastRun'
                        /\ \A d \in Callers : Waits(d, "consolidate")' => lastRun' <= job'[d].ranAt
                        /\ \A d, e \in Callers :
                             Waits(d, "consolidate")' /\ Waits(e, "consolidate")' => d = e
  BY <1>2, <1>4
<1> QED BY <1>2, <1>3, <1>5 DEF Scheduled, NoEarlyRun

LEMMA FireOpens ==
  ASSUME Called, NEW c \in Callers, Fire(c)
  PROVE  /\ Opens(c, "consolidate") /\ clock' = clock
         /\ UNCHANGED <<ready, attempts, fails, log, inContext, lastRun>>
  BY CallOpens DEF Fire, Quiet

LEMMA ElapsedRuns ==
  ASSUME Kept, Runs, NEW c \in Callers, Elapsed(c)
  PROVE  Runs'
<1>1. Called /\ Fire(c) /\ Scheduled
  BY DEF Kept, Runs, Elapsed
<1>2. /\ Opens(c, "consolidate") /\ clock' = clock
      /\ UNCHANGED <<ready, attempts, fails, log, inContext, lastRun>>
  BY <1>1, FireOpens
<1>3. /\ clock \in Nat /\ lastRun \in 0..clock /\ noteCount' \in 0..NoteThreshold - 1 /\ Interval \in Nat
      /\ runs \in [ok : 0..clock, overlap : BOOLEAN, early : BOOLEAN] /\ runs.early = FALSE
      /\ clock - lastRun >= Interval /\ (~runs.overlap => runs.ok <= lastRun)
  BY <1>1, Positive DEF Scheduled, NoEarlyRun, Elapsed
<1> DEFINE overlap == runs.overlap \/ Consolidating
           early == runs.early \/ (~runs.overlap /\ ~Consolidating /\ clock - runs.ok < Interval)
<1>4. runs' = [runs EXCEPT !.overlap = overlap, !.early = early]
  BY <1>3 DEF Elapsed
<1>5. early = FALSE
  BY <1>3
<1>6. overlap \in BOOLEAN
  BY <1>3 DEF Consolidating
<1>7. /\ runs' \in [ok : 0..clock, overlap : BOOLEAN, early : BOOLEAN] /\ ~runs'.early
      /\ runs'.ok = runs.ok /\ (runs'.overlap <=> overlap)
  <2> HIDE DEF overlap, early
  <2> QED BY <1>3, <1>4, <1>5, <1>6
<1>8. Scheduled'
  BY <1>1, <1>2, <1>3, <1>7, OpensScheduled
<1> QED BY <1>2, <1>8, OpensRuns

LEMMA RecordNoteWrittenRuns ==
  ASSUME Kept, Runs, NEW c \in Callers, RecordNoteWritten(c)
  PROVE  Runs'
<1>1. Called /\ Scheduled /\ NoteThreshold \in Nat \ {0}
  BY Positive DEF Kept, Runs
<1>2. CASE /\ noteCount + 1 < NoteThreshold /\ noteCount' = noteCount + 1
           /\ Quiet /\ UNCHANGED <<job, calls, ready, attempts, fails, log, inContext, lastRun, runs>>
  <2>1. noteCount' \in 0..NoteThreshold - 1 /\ clock' = clock
    BY <1>1, <1>2 DEF Scheduled, Quiet
  <2>2. Scheduled'
    BY <1>2, <2>1 DEF Runs, Scheduled, Waits, NoEarlyRun
  <2> QED BY <1>2, <2>2 DEF Runs, Awaited, Probing, Waits, Tracked, Clean, DegradedExact, TimeoutsSinceOk
<1>3. CASE Fire(c) /\ noteCount' = 0 /\ runs' = [runs EXCEPT !.overlap = @ \/ Consolidating]
  <2>1. /\ Opens(c, "consolidate") /\ clock' = clock
        /\ UNCHANGED <<ready, attempts, fails, log, inContext, lastRun>>
    BY <1>1, <1>3, FireOpens
  <2>2. /\ noteCount' \in 0..NoteThreshold - 1
        /\ runs \in [ok : 0..clock, overlap : BOOLEAN, early : BOOLEAN] /\ ~runs.early
    BY <1>1, <1>3 DEF Scheduled, NoEarlyRun
  <2> DEFINE overlap == runs.overlap \/ Consolidating
  <2>3. overlap \in BOOLEAN
    BY <2>2 DEF Consolidating
  <2>4. runs' = [runs EXCEPT !.overlap = overlap]
    BY <1>3, <2>2
  <2>5. /\ runs' \in [ok : 0..clock, overlap : BOOLEAN, early : BOOLEAN] /\ ~runs'.early
        /\ runs'.ok = runs.ok /\ (runs'.overlap <=> overlap)
    <3> HIDE DEF overlap
    <3> QED BY <2>2, <2>3, <2>4
  <2>6. Scheduled'
    BY <1>1, <2>1, <2>2, <2>5, OpensScheduled
  <2> QED BY <2>1, <2>6, OpensRuns
<1> QED BY <1>2, <1>3 DEF RecordNoteWritten

LEMMA CallsRun ==
  ASSUME Kept, Runs, NEW c \in Callers, ProbeCalls(c) \/ SessionPrefetches(c) \/ ClientCalls(c)
  PROVE  Runs'
<1>1. Called /\ clock' = clock /\ UNCHANGED <<runner, runs>>
  BY DEF Kept, ProbeCalls, SessionPrefetches, ClientCalls, Quiet
<1>2. ASSUME NEW op, op # "consolidate", NEW x, NEW sens, Call(c, op, x, sens),
             op = "probe" => ready = "pending" /\ \A d \in Callers : ~Waits(d, "probe")
      PROVE  Runs'
  BY <1>1, <1>2, CallOpens, OpensRuns DEF runner
<1>3. CASE ProbeCalls(c)
  BY <1>2, <1>3 DEF ProbeCalls, Waits
<1>4. CASE SessionPrefetches(c)
  BY <1>2, <1>4 DEF SessionPrefetches
<1>5. CASE ClientCalls(c)
  BY <1>2, <1>5 DEF ClientCalls
<1> QED BY <1>3, <1>4, <1>5

LEMMA TickRuns ==
  ASSUME Called, Runs, Tick
  PROVE  Runs'
<1>1. /\ UNCHANGED <<job, runs, ready, attempts, fails, log, inContext, lastRun, noteCount>>
      /\ clock' = clock + 1
  BY DEF Tick, runner, history
<1>2. Scheduled'
  <2>1. clock \in Nat /\ lastRun \in 0..clock /\ runs \in [ok : 0..clock, overlap : BOOLEAN, early : BOOLEAN]
    BY DEF Runs, Scheduled
  <2>2. clock' \in Nat /\ 0..clock \subseteq 0..clock'
    BY <1>1, <2>1
  <2>3. lastRun' \in 0..clock' /\ runs' \in [ok : 0..clock', overlap : BOOLEAN, early : BOOLEAN]
    BY <1>1, <2>1, <2>2
  <2>4. ASSUME NEW c \in Callers, Waits(c, "consolidate")'
        PROVE  job'[c].ranAt <= clock'
    <3>1. Waits(c, "consolidate") /\ job'[c].ranAt = job[c].ranAt
      BY <1>1, <2>4 DEF Waits
    <3>2. job[c].ranAt \in Nat
      BY <3>1, CallTypes DEF Waits, CallType
    <3> QED BY <1>1, <2>1, <3>1, <3>2 DEF Runs, Scheduled
  <2>5. runs'.overlap = runs.overlap /\ runs'.ok = runs.ok /\ lastRun' = lastRun
    BY <1>1
  <2>6. \A c \in Callers : Waits(c, "consolidate")' <=> Waits(c, "consolidate")
    BY <1>1 DEF Waits
  <2> QED BY <1>1, <2>1, <2>2, <2>3, <2>4, <2>5, <2>6 DEF Runs, Scheduled, NoEarlyRun
<1> QED BY <1>1, <1>2 DEF Runs, Awaited, Probing, Waits, Tracked, Clean, DegradedExact, TimeoutsSinceOk

LEMMA InitRuns == Init => Runs
<1> SUFFICES ASSUME Init PROVE Runs
  OBVIOUS
<1>1. Awaited /\ Probing
  BY Positive DEF Init, Awaited, Probing, Waits, Idle
<1>2. Scheduled
  BY Positive DEF Init, Scheduled, Waits, Idle, NoEarlyRun
<1>3. Tracked
  <2>1. log = <<>> /\ Len(log) = 0 /\ fails = 0 /\ log \in Seq(Outcome) /\ DOMAIN log = {}
    BY DEF Init
  <2>2. TimeoutsSinceOk(0) = 0
    <3>1. {j \in 1..0 : log[j].res = "timeout" /\ \A k \in j..0 : log[k].res # "ok"} = {}
      OBVIOUS
    <3> QED BY <3>1, FS_EmptySet DEF TimeoutsSinceOk
  <2> QED BY <2>1, <2>2 DEF Tracked, DegradedExact
<1> QED BY <1>1, <1>2, <1>3 DEF Init, Runs, Clean

-----------------------------------------------------------------------------
(* The theorems.                                                           *)

LEMMA InitInv == Init => Inv
  BY InitKeeps, InitPushed, InitRuns DEF Inv, Runs

LEMMA NextInv == Inv /\ [Next]_vars => Inv'
<1> SUFFICES ASSUME Inv, [Next]_vars PROVE Inv'
  OBVIOUS
<1>1. Kept /\ Pushed /\ Runs /\ Called /\ clock \in Nat
  BY DEF Inv, Runs, Kept, Scheduled
<1>2. Kept' /\ Pushed'
  BY <1>1, NextKeeps, NextPushes
<1>3. Runs'
  <2>1. CASE UNCHANGED vars \/ ZepPrimes \/ ZepPrimed
    BY <1>1, <2>1, RemainsServe, ServesRuns
  <2>2. CASE MockRestarts \/ SqliteRestarts \/ ZepRestarts \/ Mem0Restarts
    BY <1>1, <2>2, RestartsServe, ServesRuns
  <2>3. CASE Tick
    BY <1>1, <2>3, TickRuns
  <2>4. ASSUME NEW c \in Callers,
               HandlerHangs(c) \/ HandlerFails(c) \/ Mock(c) \/ Sqlite(c) \/ Zep(c) \/ Mem0(c) \/ Service(c)
        PROVE  Runs'
    BY <1>1, <2>4, HandlersServe, ServiceServes, ServesRuns
  <2>5. ASSUME NEW c \in Callers, ProbeCalls(c) \/ SessionPrefetches(c) \/ ClientCalls(c)
        PROVE  Runs'
    BY <1>1, <2>5, CallsRun
  <2>6. ASSUME NEW c \in Callers, Elapsed(c) \/ RecordNoteWritten(c)
        PROVE  Runs'
    BY <1>1, <2>6, ElapsedRuns, RecordNoteWrittenRuns
  <2>7. ASSUME NEW c \in Callers, Receives(c) \/ TimesOut(c)
        PROVE  Runs'
    BY <1>1, <2>7, ReceivesRuns, TimesOutRuns
  <2> QED BY <2>1, <2>2, <2>3, <2>4, <2>5, <2>6, <2>7 DEF Next
<1> QED BY <1>2, <1>3 DEF Inv, Runs

\* The invariant that makes the others inductive holds of every backend.
THEOREM MemoryInvariant == Spec => []Inv
  BY InitInv, NextInv, PTL DEF Spec

\* A deleted note stays hidden under one tombstone, an added one stays readable, a
\* sensitive one stays out of the sessions' contexts, for any number of concurrent calls
\* of every backend.
THEOREM NotesKept == Spec => []NoteInv
<1>1. Inv => NoteInv
  <2> SUFFICES ASSUME Inv PROVE NoteInv
    OBVIOUS
  <2>1. TypeOK
    <3>1. \A u \in Docs : nameOf[u] # None => nameOf[u] \in Names /\ u <= nDocs
      BY DEF Inv, Kept, Stored, Catalogued
    <3>2. \A c \in Callers : job[c].op # "none" => job[c].at \in Places
      BY CallTypes DEF Inv, Kept, CallType
    <3> QED BY <3>1, <3>2 DEF TypeOK, Inv, Kept, Stored, Probing, Scheduled, Tracked, Places
  <2>2. DeletedStaysHidden
    BY CallTypes DEF DeletedStaysHidden, Inv, Kept, Placed, Presentable, Told
  <2>3. OneTombstone
    <3> SUFFICES ASSUME NEW x \in Names \ crossed
                 PROVE  Cardinality(told[x]) <= 1
      BY DEF OneTombstone
    <3>1. told[x] = {} \/ told[x] = {tomb[x]}
      BY DEF Inv, Kept, Remembered
    <3>2. Cardinality({}) = 0 /\ Cardinality({tomb[x]}) = 1
      BY FS_EmptySet, FS_Singleton
    <3> QED BY <3>1, <3>2
  <2>4. AddedIsReadable
    BY DEF Inv, Kept, Remembered
  <2>5. NoSensitiveNotes
    BY DEF Inv, Kept, Catalogued, Clean, NoSensitiveNotes
  <2> QED BY <2>1, <2>2, <2>3, <2>4, <2>5 DEF NoteInv
<1> QED BY <1>1, MemoryInvariant, PTL

\* A session is ended as degraded exactly at the Threshold-th timeout since a prefetch
\* last succeeded, and consolidation never comes early, in whatever order answers,
\* timeouts and restarts of the server come in.
THEOREM RunnerCounts == Spec => []CountersExact
<1>1. Inv => CountersExact
  BY DEF Inv, Tracked, Scheduled, CountersExact
<1> QED BY <1>1, MemoryInvariant, PTL

LEMMA ReadyStays ==
  ASSUME Inv, [Next]_vars
  PROVE  \/ ready' = ready
         \/ /\ ready = "pending"
            /\ ready' = "ready" =>
                 \E c \in Callers : Told(c) /\ job[c].op = "probe" /\ job'[c].op = "none"
<1>1. Kept /\ Called /\ Probing
  BY DEF Inv, Kept
<1>2. CASE \E c \in Callers : Receives(c)
  <2>1. PICK c \in Callers : Receives(c)
    BY <1>2
  <2>2. job[c].op # "none" /\ job[c].at = "answered" /\ job[c].waiting /\ job[c].res \in {"ok", "error"}
    BY <2>1 DEF Receives, Inv, Awaited
  <2>3. job'[c].op = "none"
    BY <1>1, <2>1 DEF Receives, Called, Idle
  <2>4. CASE job[c].op = "probe"
    <3>1. ready = "pending" /\ ProbeEnds(job[c].res)
      BY <1>1, <2>1, <2>2, <2>4 DEF Probing, Waits, Receives, Ends
    <3>2. ready' = "ready" => job[c].res = "ok"
      BY <3>1 DEF ProbeEnds
    <3> QED BY <2>2, <2>3, <2>4, <3>1, <3>2 DEF Told
  <2>5. CASE job[c].op # "probe"
    BY <2>1, <2>5 DEF Receives, Ends, PrefetchEnds, RunEnds, runner
  <2> QED BY <2>4, <2>5
<1>3. CASE \E c \in Callers : TimesOut(c)
  <2>1. PICK c \in Callers : TimesOut(c)
    BY <1>3
  <2>2. CASE job[c].op = "probe"
    <3>1. ready = "pending" /\ ProbeEnds("timeout")
      BY <1>1, <2>1, <2>2 DEF Probing, Waits, TimesOut, Ends
    <3> QED BY <3>1 DEF ProbeEnds
  <2>3. CASE job[c].op # "probe"
    BY <2>1, <2>3 DEF TimesOut, Ends, PrefetchEnds, RunEnds, runner
  <2> QED BY <2>2, <2>3
<1>4. CASE Serves \/ Tick
  BY <1>4 DEF Serves, Tick, runner
<1>5. CASE \E c \in Callers : ProbeCalls(c) \/ SessionPrefetches(c) \/ ClientCalls(c)
                               \/ Elapsed(c) \/ RecordNoteWritten(c)
  BY <1>5 DEF ProbeCalls, SessionPrefetches, ClientCalls, Elapsed, RecordNoteWritten, Fire, runner
<1> QED
  BY <1>1, <1>2, <1>3, <1>4, <1>5, HandlersServe, ServiceServes, RestartsServe, RemainsServe DEF Next

\* Start-up is decided once, and only a probe's answer makes the Runner ready.
THEOREM ReadinessDecidedOnce == Spec => ReadinessFinal
<1>1. Inv /\ [Next]_vars =>
        [/\ ready # "pending" => ready' = ready
         /\ ready' = "ready" /\ ready = "pending" =>
               \E c \in Callers : Told(c) /\ job[c].op = "probe" /\ job'[c].op = "none"]_vars
  BY ReadyStays
<1> QED BY <1>1, MemoryInvariant, PTL DEF Spec, ReadinessFinal
=============================================================================
