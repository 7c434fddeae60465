------------------------ MODULE SessionPersisterProofs -----------------------
(***************************************************************************)
(* The guarantees of session/persist.ts for any number of sessions, calls  *)
(* and crashes.  One inductive invariant carries them all: the bytes of a  *)
(* renamed file are synced, an acknowledged file lies in the stable part   *)
(* of its history, and the unsettled calls of a session are ordered by the *)
(* promises they found in writeLocks.                                      *)
(***************************************************************************)
EXTENDS SessionPersister, SequenceTheorems, TLAPS

NotRenamed == {"idle", "waiting", "open", "written", "synced"}

(* Calls know their session and their batch; batches settle as a whole. *)
Grouped ==
  /\ \A w \in Calls : pc[w] # "idle" => sid[w] \in Sessions /\ w \in batch[w]
  /\ \A w \in Calls : \A v \in batch[w] : batch[v] = batch[w]
  /\ \A w \in Calls : pc[w] = "idle" => batch[w] = {}
  /\ \A w \in Calls : pc[w] = "waiting" => batch[w] = {w}
  /\ \A w \in Calls : pc[w] \in Writing => \A v \in batch[w] : pc[v] \in Writing

(* Only synced bytes are ever named; a call appears in a history once it renamed. *)
Synced ==
  /\ \A w \in Calls : pc[w] \in {"synced", "renamed"} => body[w] = "synced"
  /\ \A s \in Sessions : \A i \in 1..Len(hist[s]) :
       body[hist[s][i]] = "synced" /\ pc[hist[s][i]] \notin NotRenamed

(* A renamed call is in its session's history, an acknowledged one in the stable part. *)
Placed ==
  /\ \A s \in Sessions : stable[s] <= Len(hist[s])
  /\ \A w \in Calls : pc[w] = "renamed" =>
       \E i \in 1..Len(hist[sid[w]]) : hist[sid[w]][i] = w
  /\ AckedSurvives

(* The lock chain: the newest unsettled call holds the lock, every other one but
   the oldest waits for an unsettled predecessor. *)
Chained ==
  /\ \A w \in Calls : ticket[w] <= calls
  /\ \A s \in Sessions : lock[s] # None => pc[lock[s]] # "idle"
  /\ \A w \in Calls : prior[w] # None => pc[prior[w]] # "idle"
  /\ \A s \in Sessions : \A w \in Live(s) :
       lock[s] \in Live(s) /\ ticket[w] <= ticket[lock[s]]
  /\ \A s \in Sessions : \A v, w \in Live(s) :
       /\ ticket[v] = ticket[w] => v = w
       /\ ticket[v] < ticket[w] => prior[w] \in Live(s) /\ ticket[v] <= ticket[prior[w]]
  /\ \A s \in Sessions : \A w \in Live(s) : pc[w] \in Writing => prior[w] \notin Live(s)

(* Locked calls that have yet to rename were made after all locked calls that did. *)
Ordered ==
  /\ \A s \in Sessions : \A w \in Live(s) : \A i \in 1..Len(hist[s]) :
       pc[w] \in NotRenamed /\ Locked(hist[s][i]) => ticket[hist[s][i]] < ticket[w]
  /\ WritesInCallOrder

Inv == TypeOK /\ Grouped /\ Synced /\ Placed /\ Chained /\ Ordered
-----------------------------------------------------------------------------
(* The operators of the standard modules the steps need. *)
LEMMA AppendFacts ==
  ASSUME NEW S, NEW q \in Seq(S), NEW e \in S
  PROVE  /\ Append(q, e) \in Seq(S)
         /\ Len(Append(q, e)) = Len(q) + 1
         /\ \A i \in 1..Len(q) : Append(q, e)[i] = q[i]
         /\ Append(q, e)[Len(q) + 1] = e
  OBVIOUS

(* The prefix a crash keeps of a history. *)
LEMMA PrefixFacts ==
  ASSUME NEW S, NEW q \in Seq(S), NEW n \in Nat, n <= Len(q)
  PROVE  /\ SubSeq(q, 1, n) \in Seq(S)
         /\ Len(SubSeq(q, 1, n)) = n
         /\ \A i \in 1..n : SubSeq(q, 1, n)[i] = q[i]
  BY SubSeqProperties

(* A new call joins the lock chain behind the promise it found and becomes its newest
   member; no history changes. *)
LEMMA WriteSessionPreserves ==
  ASSUME NEW w \in Calls, NEW s \in Sessions, WriteSession(w, s), Inv
  PROVE  Inv'
<1> USE DEF Inv, WriteSession, Waiting, Writing, Settled, Returned, disk, history
<1>0. \A t \in Sessions : Live(t)' = IF t = s THEN Live(t) \cup {w} ELSE Live(t)
  BY DEF Live, Locked, Grouped, TypeOK
<1>1. TypeOK'
  BY DEF TypeOK, PCs
<1>2. Grouped'
  BY DEF Grouped, TypeOK
<1>3. Synced'
  BY DEF Synced, Grouped, TypeOK, NotRenamed
<1>4. Placed'
  <2>1. \A v \in Calls : pc'[v] = "renamed" =>
          \E i \in 1..Len(hist[sid'[v]]) : hist[sid'[v]][i] = v
    BY DEF Placed, TypeOK
  <2>2. AckedSurvives'
    BY DEF Placed, AckedSurvives, TypeOK
  <2> QED
    BY <2>1, <2>2 DEF Placed
<1>5. Chained'
  <2>1. \A v \in Calls : ticket'[v] <= calls'
    BY DEF Chained, TypeOK
  <2>6. /\ \A t \in Sessions : lock'[t] # None => pc'[lock'[t]] # "idle"
        /\ \A v \in Calls : prior'[v] # None => pc'[prior'[v]] # "idle"
    BY NoneAssumption DEF Chained, TypeOK
  <2>2. \A t \in Sessions : \A v \in Live(t) : v # w /\ v \in Calls /\ prior'[v] = prior[v]
          /\ ticket'[v] = ticket[v] /\ pc'[v] = pc[v] /\ prior[v] # w
    BY NoneAssumption DEF Live, Chained, Grouped, TypeOK
  <2>3. \A t \in Sessions : \A v \in Live(t)' :
          lock'[t] \in Live(t)' /\ ticket'[v] <= ticket'[lock'[t]]
    BY <1>0, <2>1, <2>2 DEF Chained, TypeOK
  <2>4. \A t \in Sessions : \A u, v \in Live(t)' :
       /\ ticket'[u] = ticket'[v] => u = v
       /\ ticket'[u] < ticket'[v] => prior'[v] \in Live(t)' /\ ticket'[u] <= ticket'[prior'[v]]
    <3> SUFFICES ASSUME NEW t \in Sessions, NEW u \in Live(t)', NEW v \in Live(t)'
                 PROVE  /\ ticket'[u] = ticket'[v] => u = v
                        /\ ticket'[u] < ticket'[v] =>
                             prior'[v] \in Live(t)' /\ ticket'[u] <= ticket'[prior'[v]]
      OBVIOUS
    <3>1. ticket'[w] = calls + 1 /\ \A x \in Live(t) : ticket'[x] < calls + 1
      BY <2>2 DEF Chained, TypeOK
    <3>2. CASE u \in Live(t) /\ v \in Live(t)
      BY <1>0, <2>2, <3>2 DEF Chained
    <3>3. CASE u \in Live(t) /\ v = w
      <4>1. lock[t] \in Live(t) /\ ticket[u] <= ticket[lock[t]]
        BY <3>3 DEF Chained
      <4>2. t = s
        BY <1>0, <2>2, <3>3
      <4>3. prior'[v] = lock[t]
        BY <3>3, <4>2 DEF TypeOK
      <4> QED
        BY <1>0, <2>2, <3>1, <3>3, <4>1, <4>2, <4>3 DEF TypeOK
    <3>4. CASE u = w
      <4>1. v = w \/ (v \in Calls /\ ticket'[v] \in Nat /\ ticket'[v] < calls + 1)
        BY <1>0, <2>2, <3>1 DEF TypeOK
      <4> QED
        BY <3>1, <3>4, <4>1 DEF TypeOK
    <3> QED
      BY <1>0, <3>2, <3>3, <3>4
  <2>5. \A t \in Sessions : \A v \in Live(t)' : pc'[v] \in Writing => prior'[v] \notin Live(t)'
    <3> SUFFICES ASSUME NEW t \in Sessions, NEW v \in Live(t)', pc'[v] \in Writing
                 PROVE  prior'[v] \notin Live(t)'
      OBVIOUS
    <3>1. v # w
      BY DEF TypeOK
    <3> QED
      BY <1>0, <2>2, <3>1 DEF Chained
  <2> QED
    BY <2>1, <2>3, <2>4, <2>5, <2>6 DEF Chained
<1>6. Ordered'
  <2>1. \A t \in Sessions : \A i \in 1..Len(hist[t]) :
          hist[t][i] \in Calls /\ hist[t][i] # w
    BY DEF Synced, NotRenamed, TypeOK
  <2>2. WritesInCallOrder'
    BY <2>1 DEF Ordered, WritesInCallOrder, Locked, TypeOK
  <2>3. \A t \in Sessions : \A v \in Live(t)' : \A i \in 1..Len(hist[t]) :
          pc'[v] \in NotRenamed /\ Locked(hist[t][i])' => ticket'[hist[t][i]] < ticket'[v]
    <3> SUFFICES ASSUME NEW t \in Sessions, NEW v \in Live(t)', NEW i \in 1..Len(hist[t]),
                        pc'[v] \in NotRenamed, Locked(hist[t][i])'
                 PROVE  ticket'[hist[t][i]] < ticket'[v]
      OBVIOUS
    <3>1. CASE v = w
      BY <2>1, <3>1 DEF Chained, TypeOK
    <3>2. CASE v # w
      <4>1. v \in Live(t) /\ Locked(hist[t][i])
        BY <1>0, <2>1, <3>2 DEF Locked, TypeOK
      <4> QED
        BY <2>1, <3>2, <4>1 DEF Ordered, Live, TypeOK
    <3> QED
      BY <3>1, <3>2
  <2> QED
    BY <2>2, <2>3 DEF Ordered
<1> QED
  BY <1>1, <1>2, <1>3, <1>4, <1>5, <1>6

(* The oldest unsettled call of a session starts writing: its predecessor settled, so no
   other locked call of the session is writing. *)
LEMMA DoWriteSessionPreserves ==
  ASSUME NEW w \in Calls, DoWriteSession(w), Inv
  PROVE  Inv'
<1> USE DEF Inv, DoWriteSession, Waiting, Writing, Settled, Returned, disk, history
<1>0. \A t \in Sessions : Live(t)' = Live(t)
  BY DEF Live, Locked, Grouped, TypeOK
<1>1. TypeOK'
  BY DEF TypeOK, PCs
<1>2. Grouped'
  <2>1. \A v \in batch[w] : v = w
    BY DEF Grouped, TypeOK
  <2> QED
    BY <2>1 DEF Grouped, TypeOK
<1>3. Synced'
  BY DEF Synced, Grouped, TypeOK, NotRenamed
<1>4. Placed'
  <2>1. \A v \in Calls : pc'[v] = "renamed" =>
          \E i \in 1..Len(hist[sid'[v]]) : hist[sid'[v]][i] = v
    BY DEF Placed, TypeOK
  <2>2. AckedSurvives'
    BY DEF Placed, AckedSurvives, TypeOK
  <2> QED
    BY <2>1, <2>2 DEF Placed
<1>5. Chained'
  <2>0. /\ \A t \in Sessions : lock'[t] # None => pc'[lock'[t]] # "idle"
        /\ \A v \in Calls : prior'[v] # None => pc'[prior'[v]] # "idle"
    BY DEF Chained, TypeOK
  <2>1. \A t \in Sessions : prior[w] \notin Live(t)
    BY NoneAssumption DEF PriorSettled, Live, TypeOK
  <2>2. \A t \in Sessions : \A v \in Live(t) : pc'[v] \in Writing => prior[v] \notin Live(t)
    BY <2>1 DEF Chained, Live, TypeOK
  <2> QED
    BY <1>0, <2>0, <2>2 DEF Chained, TypeOK
<1>6. Ordered'
  <2>1. \A v \in Calls : pc'[v] \in NotRenamed => pc[v] \in NotRenamed
    BY DEF NotRenamed, TypeOK
  <2>2. WritesInCallOrder'
    BY DEF Ordered, WritesInCallOrder, Locked, TypeOK
  <2>3. \A t \in Sessions : \A v \in Live(t) : \A i \in 1..Len(hist[t]) :
          pc'[v] \in NotRenamed /\ Locked(hist[t][i])' => ticket'[hist[t][i]] < ticket'[v]
    BY <2>1 DEF Ordered, Locked, Live, TypeOK
  <2> QED
    BY <1>0, <2>2, <2>3 DEF Ordered
<1> QED
  BY <1>1, <1>2, <1>3, <1>4, <1>5, <1>6

(* Writing the temporary file touches only bytes that no final name refers to. *)
LEMMA WriteTmpPreserves ==
  ASSUME NEW w \in Calls, WriteTmp(w), Inv
  PROVE  Inv'
<1> USE DEF Inv, WriteTmp, Waiting, Writing, Settled, Returned, disk, history
<1>0. \A t \in Sessions : Live(t)' = Live(t)
  BY DEF Live, Locked, Grouped, TypeOK
<1>1. TypeOK'
  BY DEF TypeOK, PCs
<1>2. Grouped'
  BY DEF Grouped, TypeOK
<1>3. Synced'
  BY DEF Synced, Grouped, TypeOK, NotRenamed
<1>4. Placed'
  <2>1. \A v \in Calls : pc'[v] = "renamed" =>
          \E i \in 1..Len(hist[sid'[v]]) : hist[sid'[v]][i] = v
    BY DEF Placed, TypeOK
  <2>2. AckedSurvives'
    BY DEF Placed, AckedSurvives, TypeOK
  <2> QED
    BY <2>1, <2>2 DEF Placed
<1>5. Chained'
  <2>0. /\ \A t \in Sessions : lock'[t] # None => pc'[lock'[t]] # "idle"
        /\ \A v \in Calls : prior'[v] # None => pc'[prior'[v]] # "idle"
    BY DEF Chained, TypeOK
  <2>1. \A t \in Sessions : \A v \in Live(t) : pc'[v] \in Writing => prior[v] \notin Live(t)
    BY NoneAssumption DEF Chained, Live, TypeOK
  <2> QED
    BY <1>0, <2>0, <2>1 DEF Chained, TypeOK
<1>6. Ordered'
  <2>1. \A v \in Calls : pc'[v] \in NotRenamed => pc[v] \in NotRenamed
    BY DEF NotRenamed, TypeOK
  <2>2. WritesInCallOrder'
    BY DEF Ordered, WritesInCallOrder, Locked, TypeOK
  <2>3. \A t \in Sessions : \A v \in Live(t) : \A i \in 1..Len(hist[t]) :
          pc'[v] \in NotRenamed /\ Locked(hist[t][i])' => ticket'[hist[t][i]] < ticket'[v]
    BY <2>1 DEF Ordered, Locked, Live, TypeOK
  <2> QED
    BY <1>0, <2>2, <2>3 DEF Ordered
<1> QED
  BY <1>1, <1>2, <1>3, <1>4, <1>5, <1>6

(* Syncing the temporary file likewise. *)
LEMMA FsyncTmpPreserves ==
  ASSUME NEW w \in Calls, FsyncTmp(w), Inv
  PROVE  Inv'
<1> USE DEF Inv, FsyncTmp, Waiting, Writing, Settled, Returned, disk, history
<1>0. \A t \in Sessions : Live(t)' = Live(t)
  BY DEF Live, Locked, Grouped, TypeOK
<1>1. TypeOK'
  BY DEF TypeOK, PCs
<1>2. Grouped'
  BY DEF Grouped, TypeOK
<1>3. Synced'
  BY DEF Synced, Grouped, TypeOK, NotRenamed
<1>4. Placed'
  <2>1. \A v \in Calls : pc'[v] = "renamed" =>
          \E i \in 1..Len(hist[sid'[v]]) : hist[sid'[v]][i] = v
    BY DEF Placed, TypeOK
  <2>2. AckedSurvives'
    BY DEF Placed, AckedSurvives, TypeOK
  <2> QED
    BY <2>1, <2>2 DEF Placed
<1>5. Chained'
  <2>0. /\ \A t \in Sessions : lock'[t] # None => pc'[lock'[t]] # "idle"
        /\ \A v \in Calls : prior'[v] # None => pc'[prior'[v]] # "idle"
    BY DEF Chained, TypeOK
  <2>1. \A t \in Sessions : \A v \in Live(t) : pc'[v] \in Writing => prior[v] \notin Live(t)
    BY NoneAssumption DEF Chained, Live, TypeOK
  <2> QED
    BY <1>0, <2>0, <2>1 DEF Chained, TypeOK
<1>6. Ordered'
  <2>1. \A v \in Calls : pc'[v] \in NotRenamed => pc[v] \in NotRenamed
    BY DEF NotRenamed, TypeOK
  <2>2. WritesInCallOrder'
    BY DEF Ordered, WritesInCallOrder, Locked, TypeOK
  <2>3. \A t \in Sessions : \A v \in Live(t) : \A i \in 1..Len(hist[t]) :
          pc'[v] \in NotRenamed /\ Locked(hist[t][i])' => ticket'[hist[t][i]] < ticket'[v]
    BY <2>1 DEF Ordered, Locked, Live, TypeOK
  <2> QED
    BY <1>0, <2>2, <2>3 DEF Ordered
<1> QED
  BY <1>1, <1>2, <1>3, <1>4, <1>5, <1>6

(* The finally block drops the lock only when the call is still the newest, and a settled
   call is in no chain. *)
LEMMA ReleasePreserves ==
  ASSUME NEW w \in Calls, Release(w), Inv
  PROVE  Inv'
<1> USE DEF Inv, Release, Waiting, Writing, Settled, Returned, disk, history
<1>0. \A t \in Sessions : Live(t)' = Live(t)
  BY DEF Live, Locked, Grouped, TypeOK
<1>1. TypeOK'
  BY DEF TypeOK, PCs
<1>2. Grouped'
  BY DEF Grouped, TypeOK
<1>3. Synced'
  BY DEF Synced, Grouped, TypeOK, NotRenamed
<1>4. Placed'
  <2>1. \A v \in Calls : pc'[v] = "renamed" =>
          \E i \in 1..Len(hist[sid'[v]]) : hist[sid'[v]][i] = v
    BY DEF Placed, TypeOK
  <2>2. AckedSurvives'
    BY DEF Placed, AckedSurvives, TypeOK
  <2> QED
    BY <2>1, <2>2 DEF Placed
<1>5. Chained'
  <2>0. /\ \A t \in Sessions : lock'[t] # None => pc'[lock'[t]] # "idle"
        /\ \A v \in Calls : prior'[v] # None => pc'[prior'[v]] # "idle"
    BY DEF Chained, TypeOK
  <2>1. \A t \in Sessions : \A v \in Live(t) : lock'[t] = lock[t]
    <3>1. \A t \in Sessions : w \notin Live(t)
      BY DEF Live
    <3> QED
      BY <3>1 DEF Chained, TypeOK
  <2>2. \A t \in Sessions : \A v \in Live(t) : pc'[v] \in Writing => prior[v] \notin Live(t)
    BY DEF Chained, Live, TypeOK
  <2> QED
    BY <1>0, <2>0, <2>1, <2>2 DEF Chained, TypeOK
<1>6. Ordered'
  <2>1. \A v \in Calls : pc'[v] \in NotRenamed => pc[v] \in NotRenamed
    BY DEF NotRenamed, TypeOK
  <2>2. WritesInCallOrder'
    BY DEF Ordered, WritesInCallOrder, Locked, TypeOK
  <2>3. \A t \in Sessions : \A v \in Live(t) : \A i \in 1..Len(hist[t]) :
          pc'[v] \in NotRenamed /\ Locked(hist[t][i])' => ticket'[hist[t][i]] < ticket'[v]
    BY <2>1 DEF Ordered, Locked, Live, TypeOK
  <2> QED
    BY <1>0, <2>2, <2>3 DEF Ordered
<1> QED
  BY <1>1, <1>2, <1>3, <1>4, <1>5, <1>6

(* A batch starts outside the lock chain. *)
LEMMA StageActivatePreserves ==
  ASSUME NEW B \in Batches, NEW target \in [B -> Sessions], StageActivate(B, target), Inv
  PROVE  Inv'
<1> USE DEF Inv, StageActivate, Waiting, Writing, Settled, Returned, disk, history
<1>B. B \subseteq Calls /\ \A v \in Calls : B # {v}
  BY DEF Batches
<1>0. \A t \in Sessions : Live(t)' = Live(t)
  BY <1>B DEF Live, Locked, Grouped, TypeOK
<1>1. TypeOK'
  BY <1>B DEF TypeOK, PCs
<1>2. Grouped'
  <2>1. \A v \in Calls : \A u \in batch[v] : v \notin B /\ u \notin B
    BY DEF Grouped, TypeOK
  <2> QED
    BY <1>B, <2>1 DEF Grouped, TypeOK
<1>3. Synced'
  BY DEF Synced, Grouped, TypeOK, NotRenamed
<1>4. Placed'
  <2>1. \A v \in Calls : pc'[v] = "renamed" =>
          \E i \in 1..Len(hist[sid'[v]]) : hist[sid'[v]][i] = v
    BY DEF Placed, TypeOK
  <2>2. AckedSurvives'
    BY DEF Placed, AckedSurvives, TypeOK
  <2> QED
    BY <2>1, <2>2 DEF Placed
<1>5. Chained'
  <2>1. \A t \in Sessions : \A v \in Live(t) : v \in Calls \ B /\ prior[v] \notin B /\ lock[t] \notin B
    BY NoneAssumption, <1>B DEF Live, Chained, TypeOK
  <2>2. /\ \A t \in Sessions : lock'[t] # None => pc'[lock'[t]] # "idle"
        /\ \A v \in Calls : prior'[v] # None => pc'[prior'[v]] # "idle"
    BY <1>B DEF Chained, TypeOK
  <2>3. \A v \in Calls : ticket'[v] <= calls'
    BY DEF Chained, TypeOK
  <2> QED
    BY <1>0, <1>B, <2>1, <2>2, <2>3 DEF Chained, TypeOK
<1>6. Ordered'
  <2>1. \A t \in Sessions : \A i \in 1..Len(hist[t]) : hist[t][i] \in Calls \ B
    BY <1>B DEF Synced, NotRenamed, TypeOK
  <2>2. \A t \in Sessions : \A v \in Live(t) : v \in Calls \ B
    BY <1>B DEF Live
  <2>3. WritesInCallOrder'
    BY <2>1 DEF Ordered, WritesInCallOrder, Locked, TypeOK
  <2> QED
    BY <1>0, <2>1, <2>2, <2>3 DEF Ordered, Locked, TypeOK
<1> QED
  BY <1>1, <1>2, <1>3, <1>4, <1>5, <1>6

(* A rename appends a synced file to the history; a locked one is newer than every locked
   file in it. *)
LEMMA RenamePreserves ==
  ASSUME NEW w \in Calls, Rename(w), Inv
  PROVE  Inv'
<1> USE DEF Inv, Rename, Waiting, Writing, Settled, Returned, disk, history
<1>0. \A t \in Sessions : Live(t)' = Live(t)
  BY DEF Live, Locked, Grouped, TypeOK
<1>S. sid[w] \in Sessions
  BY DEF Grouped, TypeOK
<1>H. /\ hist' \in [Sessions -> Seq(Calls)]
      /\ Len(hist'[sid[w]]) = Len(hist[sid[w]]) + 1
      /\ hist'[sid[w]][Len(hist[sid[w]]) + 1] = w
      /\ \A i \in 1..Len(hist[sid[w]]) : hist'[sid[w]][i] = hist[sid[w]][i]
      /\ \A t \in Sessions \ {sid[w]} : hist'[t] = hist[t]
  BY <1>S, AppendFacts DEF TypeOK
<1>1. TypeOK'
  BY <1>H DEF TypeOK, PCs
<1>2. Grouped'
  BY DEF Grouped, TypeOK
<1>3. Synced'
  <2>1. \A t \in Sessions : \A i \in 1..Len(hist'[t]) :
          body'[hist'[t][i]] = "synced" /\ pc'[hist'[t][i]] \notin NotRenamed
    <3> SUFFICES ASSUME NEW t \in Sessions, NEW i \in 1..Len(hist'[t])
                 PROVE  body'[hist'[t][i]] = "synced" /\ pc'[hist'[t][i]] \notin NotRenamed
      OBVIOUS
    <3>1. hist'[t][i] = w \/ (i \in 1..Len(hist[t]) /\ hist'[t][i] = hist[t][i])
      BY <1>S, <1>H DEF TypeOK
    <3> QED
      BY <3>1 DEF Synced, NotRenamed, TypeOK
  <2> QED
    BY <2>1 DEF Synced, TypeOK
<1>4. Placed'
  <2>0. \A t \in Sessions : Len(hist[t]) \in Nat /\ Len(hist[t]) <= Len(hist'[t])
          /\ \A i \in 1..Len(hist[t]) : hist'[t][i] = hist[t][i]
    BY <1>S, <1>H DEF TypeOK
  <2>1. \A t \in Sessions : stable'[t] <= Len(hist'[t])
    BY <1>S, <1>H, <2>0 DEF Placed, TypeOK
  <2>2. \A v \in Calls : pc'[v] = "renamed" =>
          \E i \in 1..Len(hist'[sid'[v]]) : hist'[sid'[v]][i] = v
    <3> SUFFICES ASSUME NEW v \in Calls, pc'[v] = "renamed"
                 PROVE  \E i \in 1..Len(hist'[sid[v]]) : hist'[sid[v]][i] = v
      OBVIOUS
    <3>1. CASE v = w
      <4>1. Len(hist[sid[w]]) + 1 \in 1..Len(hist'[sid[w]])
        BY <1>S, <1>H, <2>0
      <4> QED
        BY <1>H, <3>1, <4>1
    <3>2. CASE v # w
      <4>1. sid[v] \in Sessions /\ \E i \in 1..Len(hist[sid[v]]) : hist[sid[v]][i] = v
        BY <3>2 DEF Placed, Grouped, TypeOK
      <4> QED
        BY <2>0, <4>1, <1>H DEF TypeOK
    <3> QED
      BY <3>1, <3>2
  <2>3. AckedSurvives'
    <3> SUFFICES ASSUME NEW v \in Calls, pc'[v] \in {"fulfilled", "done"}
                 PROVE  \E i \in 1..stable[sid[v]] : hist'[sid[v]][i] = v
      BY DEF AckedSurvives
    <3>1. sid[v] \in Sessions /\ \E i \in 1..stable[sid[v]] : hist[sid[v]][i] = v
      BY DEF Placed, AckedSurvives, Grouped, TypeOK
    <3> QED
      BY <2>0, <3>1 DEF Placed, TypeOK
  <2> QED
    BY <2>1, <2>2, <2>3 DEF Placed
<1>5. Chained'
  <2>0. /\ \A t \in Sessions : lock'[t] # None => pc'[lock'[t]] # "idle"
        /\ \A v \in Calls : prior'[v] # None => pc'[prior'[v]] # "idle"
    BY DEF Chained, TypeOK
  <2>1. \A t \in Sessions : \A v \in Live(t) : pc'[v] \in Writing => prior[v] \notin Live(t)
    BY NoneAssumption DEF Chained, Live, TypeOK
  <2> QED
    BY <1>0, <2>0, <2>1 DEF Chained, TypeOK
<1>6. Ordered'
  <2>1. \A t \in Sessions : \A i \in 1..Len(hist'[t]) :
          (t = sid[w] /\ i = Len(hist[t]) + 1 /\ hist'[t][i] = w)
            \/ (i \in 1..Len(hist[t]) /\ hist'[t][i] = hist[t][i])
    BY <1>S, <1>H DEF TypeOK
  <2>2. Locked(w) => w \in Live(sid[w])
    BY DEF Live, TypeOK
  <2>3. WritesInCallOrder'
    <3> SUFFICES ASSUME NEW t \in Sessions, NEW i \in 1..Len(hist'[t]), NEW j \in 1..Len(hist'[t]),
                        Locked(hist'[t][i]), Locked(hist'[t][j]), i < j
                 PROVE  ticket[hist'[t][i]] < ticket[hist'[t][j]]
      BY DEF WritesInCallOrder, Locked
    <3>1. i \in 1..Len(hist[t]) /\ hist'[t][i] = hist[t][i]
      BY <2>1 DEF TypeOK
    <3>2. CASE hist'[t][j] = w /\ t = sid[w]
      BY <2>2, <3>1, <3>2 DEF Ordered, NotRenamed
    <3>3. CASE j \in 1..Len(hist[t]) /\ hist'[t][j] = hist[t][j]
      BY <3>1, <3>3 DEF Ordered, WritesInCallOrder
    <3> QED
      BY <2>1, <3>2, <3>3
  <2>4. \A t \in Sessions : \A v \in Live(t) : \A i \in 1..Len(hist'[t]) :
          pc'[v] \in NotRenamed /\ Locked(hist'[t][i]) => ticket[hist'[t][i]] < ticket[v]
    <3> SUFFICES ASSUME NEW t \in Sessions, NEW v \in Live(t), NEW i \in 1..Len(hist'[t]),
                        pc'[v] \in NotRenamed, Locked(hist'[t][i])
                 PROVE  ticket[hist'[t][i]] < ticket[v]
      OBVIOUS
    <3>1. v \in Calls /\ v # w /\ pc[v] \in NotRenamed
      BY DEF Live, NotRenamed, TypeOK
    <3>2. CASE hist'[t][i] = w /\ t = sid[w]
      <4>1. w \in Live(t) /\ prior[w] \notin Live(t)
        BY <2>2, <3>2 DEF Chained
      <4> QED
        BY <3>1, <3>2, <4>1 DEF Chained, TypeOK
    <3>3. CASE i \in 1..Len(hist[t]) /\ hist'[t][i] = hist[t][i]
      BY <3>1, <3>3 DEF Ordered
    <3> QED
      BY <2>1, <3>2, <3>3
  <2> QED
    BY <1>0, <2>3, <2>4 DEF Ordered, Locked
<1> QED
  BY <1>1, <1>2, <1>3, <1>4, <1>5, <1>6

(* The directory fsync covers the whole history of the sessions it hardens, so the batch
   it acknowledges lies in the stable part. *)
LEMMA FsyncDirPreserves ==
  ASSUME NEW w \in Calls, FsyncDir(w), Inv
  PROVE  Inv'
<1> USE DEF Inv, FsyncDir, Waiting, Writing, Settled, Returned, disk, history
<1>0. \A t \in Sessions : Live(t)' = Live(t) \ batch[w]
  BY DEF Live, Locked, Grouped, TypeOK
<1>1. TypeOK'
  BY DEF TypeOK, PCs
<1>2. Grouped'
  BY DEF Grouped, TypeOK
<1>3. Synced'
  BY DEF Synced, Grouped, TypeOK, NotRenamed
<1>4. Placed'
  <2>1. \A t \in Sessions : stable'[t] <= Len(hist'[t]) /\ stable[t] <= stable'[t] /\ stable'[t] \in Nat
    BY DEF Placed, TypeOK
  <2>2. \A v \in Calls : pc'[v] = "renamed" => \E i \in 1..Len(hist'[sid'[v]]) : hist'[sid'[v]][i] = v
    BY DEF Placed, TypeOK
  <2>3. AckedSurvives'
    <3> SUFFICES ASSUME NEW v \in Calls, pc'[v] \in {"fulfilled", "done"}
                 PROVE  \E i \in 1..stable'[sid[v]] : hist[sid[v]][i] = v
      BY DEF AckedSurvives
    <3>1. CASE v \in batch[w]
      <4>1. sid[v] \in Sessions /\ \E i \in 1..Len(hist[sid[v]]) : hist[sid[v]][i] = v
        BY <3>1 DEF Placed, Grouped, TypeOK
      <4>2. stable'[sid[v]] = Len(hist[sid[v]])
        BY <3>1, <4>1 DEF Hardened, TypeOK
      <4> QED
        BY <4>1, <4>2
    <3>2. CASE v \notin batch[w]
      <4>1. sid[v] \in Sessions /\ \E i \in 1..stable[sid[v]] : hist[sid[v]][i] = v
        BY <3>2 DEF Placed, AckedSurvives, Grouped, TypeOK
      <4> QED
        BY <2>1, <4>1 DEF TypeOK
    <3> QED
      BY <3>1, <3>2
  <2> QED
    BY <2>1, <2>2, <2>3 DEF Placed
<1>5. Chained'
  <2>1. \A t \in Sessions : \A v \in Live(t) : v \in batch[w] => v = w
    BY DEF Live, Locked, Grouped, TypeOK
  <2>2. \A t \in Sessions : \A u, v \in Live(t)' : u \in Live(t) /\ v \in Live(t) /\ u # w /\ v # w
    BY <1>0 DEF Grouped, TypeOK
  <2>3. \A t \in Sessions : w \in Live(t) => \A v \in Live(t) : ticket[w] <= ticket[v]
    <3>1. \A t \in Sessions : w \in Live(t) => prior[w] \notin Live(t)
      BY DEF Chained
    <3>2. \A t \in Sessions : \A v \in Live(t) : ticket[v] \in Nat
      BY DEF Live, TypeOK
    <3> QED
      BY <3>1, <3>2 DEF Chained
  <2>4. \A t \in Sessions : \A v \in Live(t)' :
          lock'[t] \in Live(t)' /\ ticket'[v] <= ticket'[lock'[t]]
    <3> SUFFICES ASSUME NEW t \in Sessions, NEW v \in Live(t)'
                 PROVE  lock[t] \in Live(t)' /\ ticket[v] <= ticket[lock[t]]
      OBVIOUS
    <3>1. v \in Live(t) /\ v # w /\ lock[t] \in Live(t) /\ ticket[v] <= ticket[lock[t]]
      BY <2>2 DEF Chained
    <3>2. lock[t] # w
      <4> SUFFICES ASSUME lock[t] = w PROVE FALSE
        OBVIOUS
      <4>1. ticket[v] = ticket[w] /\ w \in Live(t)
        BY <2>3, <3>1 DEF Live, TypeOK
      <4> QED
        BY <3>1, <4>1 DEF Chained
    <3> QED
      BY <1>0, <2>1, <3>1, <3>2
  <2>5. \A t \in Sessions : \A u, v \in Live(t)' :
       /\ ticket'[u] = ticket'[v] => u = v
       /\ ticket'[u] < ticket'[v] => prior'[v] \in Live(t)' /\ ticket'[u] <= ticket'[prior'[v]]
    <3> SUFFICES ASSUME NEW t \in Sessions, NEW u \in Live(t)', NEW v \in Live(t)'
                 PROVE  /\ ticket[u] = ticket[v] => u = v
                        /\ ticket[u] < ticket[v] => prior[v] \in Live(t)' /\ ticket[u] <= ticket[prior[v]]
      OBVIOUS
    <3>1. u \in Live(t) /\ v \in Live(t) /\ u # w /\ v # w
      BY <2>2
    <3>2. ASSUME ticket[u] < ticket[v], prior[v] = w PROVE FALSE
      <4>1. w \in Live(t) /\ ticket[u] <= ticket[w]
        BY <3>1, <3>2 DEF Chained
      <4>2. ticket[u] = ticket[w]
        BY <2>3, <3>1, <4>1 DEF Live, TypeOK
      <4> QED
        BY <3>1, <4>1, <4>2 DEF Chained
    <3> QED
      BY <1>0, <2>1, <3>1, <3>2 DEF Chained
  <2>6. \A t \in Sessions : \A v \in Live(t)' : pc'[v] \in Writing => prior'[v] \notin Live(t)'
    BY <1>0, <2>2 DEF Chained, Live, TypeOK
  <2>7. /\ \A t \in Sessions : lock'[t] # None => pc'[lock'[t]] # "idle"
        /\ \A v \in Calls : prior'[v] # None => pc'[prior'[v]] # "idle"
    BY DEF Chained, TypeOK
  <2> QED
    BY <2>4, <2>5, <2>6, <2>7 DEF Chained
<1>6. Ordered'
  <2>1. WritesInCallOrder'
    BY DEF Ordered, WritesInCallOrder, Locked
  <2>2. \A t \in Sessions : \A v \in Live(t)' : v \in Live(t) /\ pc'[v] = pc[v]
    BY <1>0 DEF Live, TypeOK
  <2> QED
    BY <2>1, <2>2 DEF Ordered, Locked
<1> QED
  BY <1>1, <1>2, <1>3, <1>4, <1>5, <1>6

(* A failed call settles without an acknowledgement and leaves the chain. *)
LEMMA IoErrorPreserves ==
  ASSUME NEW w \in Calls, IoError(w), Inv
  PROVE  Inv'
<1> USE DEF Inv, IoError, Waiting, Writing, Settled, Returned, disk, history
<1>0. \A t \in Sessions : Live(t)' = Live(t) \ batch[w]
  BY DEF Live, Locked, Grouped, TypeOK
<1>1. TypeOK'
  BY DEF TypeOK, PCs
<1>2. Grouped'
  BY DEF Grouped, TypeOK
<1>3. Synced'
  BY DEF Synced, Grouped, TypeOK, NotRenamed
<1>4. Placed'
  BY DEF Placed, AckedSurvives, Grouped, TypeOK
<1>5. Chained'
  <2>1. \A t \in Sessions : \A v \in Live(t) : v \in batch[w] => v = w
    BY DEF Live, Locked, Grouped, TypeOK
  <2>2. \A t \in Sessions : \A u, v \in Live(t)' : u \in Live(t) /\ v \in Live(t) /\ u # w /\ v # w
    BY <1>0 DEF Grouped, TypeOK
  <2>3. \A t \in Sessions : w \in Live(t) => \A v \in Live(t) : ticket[w] <= ticket[v]
    <3>1. \A t \in Sessions : w \in Live(t) => prior[w] \notin Live(t)
      BY DEF Chained
    <3>2. \A t \in Sessions : \A v \in Live(t) : ticket[v] \in Nat
      BY DEF Live, TypeOK
    <3> QED
      BY <3>1, <3>2 DEF Chained
  <2>4. \A t \in Sessions : \A v \in Live(t)' :
          lock'[t] \in Live(t)' /\ ticket'[v] <= ticket'[lock'[t]]
    <3> SUFFICES ASSUME NEW t \in Sessions, NEW v \in Live(t)'
                 PROVE  lock[t] \in Live(t)' /\ ticket[v] <= ticket[lock[t]]
      OBVIOUS
    <3>1. v \in Live(t) /\ v # w /\ lock[t] \in Live(t) /\ ticket[v] <= ticket[lock[t]]
      BY <2>2 DEF Chained
    <3>2. lock[t] # w
      <4> SUFFICES ASSUME lock[t] = w PROVE FALSE
        OBVIOUS
      <4>1. ticket[v] = ticket[w] /\ w \in Live(t)
        BY <2>3, <3>1 DEF Live, TypeOK
      <4> QED
        BY <3>1, <4>1 DEF Chained
    <3> QED
      BY <1>0, <2>1, <3>1, <3>2
  <2>5. \A t \in Sessions : \A u, v \in Live(t)' :
       /\ ticket'[u] = ticket'[v] => u = v
       /\ ticket'[u] < ticket'[v] => prior'[v] \in Live(t)' /\ ticket'[u] <= ticket'[prior'[v]]
    <3> SUFFICES ASSUME NEW t \in Sessions, NEW u \in Live(t)', NEW v \in Live(t)'
                 PROVE  /\ ticket[u] = ticket[v] => u = v
                        /\ ticket[u] < ticket[v] => prior[v] \in Live(t)' /\ ticket[u] <= ticket[prior[v]]
      OBVIOUS
    <3>1. u \in Live(t) /\ v \in Live(t) /\ u # w /\ v # w
      BY <2>2
    <3>2. ASSUME ticket[u] < ticket[v], prior[v] = w PROVE FALSE
      <4>1. w \in Live(t) /\ ticket[u] <= ticket[w]
        BY <3>1, <3>2 DEF Chained
      <4>2. ticket[u] = ticket[w]
        BY <2>3, <3>1, <4>1 DEF Live, TypeOK
      <4> QED
        BY <3>1, <4>1, <4>2 DEF Chained
    <3> QED
      BY <1>0, <2>1, <3>1, <3>2 DEF Chained
  <2>6. \A t \in Sessions : \A v \in Live(t)' : pc'[v] \in Writing => prior'[v] \notin Live(t)'
    BY <1>0, <2>2 DEF Chained, Live, TypeOK
  <2>7. /\ \A t \in Sessions : lock'[t] # None => pc'[lock'[t]] # "idle"
        /\ \A v \in Calls : prior'[v] # None => pc'[prior'[v]] # "idle"
    BY DEF Chained, TypeOK
  <2> QED
    BY <2>4, <2>5, <2>6, <2>7 DEF Chained
<1>6. Ordered'
  <2>1. WritesInCallOrder'
    BY DEF Ordered, WritesInCallOrder, Locked
  <2>2. \A t \in Sessions : \A v \in Live(t)' : v \in Live(t) /\ pc'[v] = pc[v]
    BY <1>0 DEF Live, TypeOK
  <2> QED
    BY <2>1, <2>2 DEF Ordered, Locked
<1> QED
  BY <1>1, <1>2, <1>3, <1>4, <1>5, <1>6

(* A crash empties the chains and keeps a prefix of each history that contains the stable
   part. *)
LEMMA CrashPreserves ==
  ASSUME Crash, Inv
  PROVE  Inv'
<1> USE DEF Inv, Crash, Waiting, Writing, Settled, Returned, disk, history
<1>0. \A t \in Sessions : Live(t)' = {}
  BY DEF Live, Locked, Grouped, TypeOK
<1>H. \A t \in Sessions :
        /\ hist'[t] \in Seq(Calls) /\ stable'[t] \in Nat /\ Len(hist'[t]) = stable'[t]
        /\ stable[t] <= stable'[t] /\ stable'[t] <= Len(hist[t])
        /\ \A i \in 1..stable'[t] : hist'[t][i] = hist[t][i] /\ i \in 1..Len(hist[t])
  BY PrefixFacts DEF TypeOK
<1>1. TypeOK'
  <2>1. hist' \in [Sessions -> Seq(Calls)] /\ stable' \in [Sessions -> Nat]
    BY <1>H DEF TypeOK
  <2> QED
    BY <2>1 DEF TypeOK, PCs
<1>2. Grouped'
  BY DEF Grouped, TypeOK
<1>3. Synced'
  BY <1>H DEF Synced, NotRenamed, TypeOK
<1>4. Placed'
  <2>1. AckedSurvives'
    <3> SUFFICES ASSUME NEW v \in Calls, pc'[v] \in {"fulfilled", "done"}
                 PROVE  \E i \in 1..stable'[sid'[v]] : hist'[sid'[v]][i] = v
      BY DEF AckedSurvives
    <3>1. sid'[v] \in Sessions /\ \E i \in 1..stable[sid'[v]] : hist[sid'[v]][i] = v
      BY DEF Placed, AckedSurvives, Grouped, TypeOK
    <3>2. PICK i \in 1..stable[sid'[v]] : hist[sid'[v]][i] = v
      BY <3>1
    <3>3. i \in 1..stable'[sid'[v]]
      BY <1>H, <3>1, <3>2 DEF TypeOK
    <3>4. hist'[sid'[v]][i] = v
      BY <1>H, <3>1, <3>2, <3>3
    <3> QED
      BY <3>3, <3>4
  <2> QED
    BY <1>H, <2>1 DEF Placed, TypeOK
<1>5. Chained'
  <2>1. /\ \A t \in Sessions : lock'[t] # None => pc'[lock'[t]] # "idle"
        /\ \A v \in Calls : prior'[v] # None => pc'[prior'[v]] # "idle"
    BY DEF Chained, TypeOK
  <2> QED
    BY <1>0, <2>1 DEF Chained, TypeOK
<1>6. Ordered'
  <2>1. WritesInCallOrder'
    <3> SUFFICES ASSUME NEW t \in Sessions, NEW i \in 1..stable'[t], NEW j \in 1..stable'[t],
                        Locked(hist[t][i]), Locked(hist[t][j]), i < j
                 PROVE  ticket[hist[t][i]] < ticket[hist[t][j]]
      <4>1. \A x : Locked(x)' <=> Locked(x)
        BY DEF Locked
      <4> QED
        BY <1>H, <4>1 DEF WritesInCallOrder
    <3>1. i \in 1..Len(hist[t]) /\ j \in 1..Len(hist[t])
      BY <1>H
    <3>2. \A k, l \in 1..Len(hist[t]) : Locked(hist[t][k]) /\ Locked(hist[t][l]) /\ k < l =>
             ticket[hist[t][k]] < ticket[hist[t][l]]
      BY DEF Ordered, WritesInCallOrder
    <3> QED
      BY <3>1, <3>2
  <2> QED
    BY <1>0, <2>1 DEF Ordered
<1> QED
  BY <1>1, <1>2, <1>3, <1>4, <1>5, <1>6

-----------------------------------------------------------------------------
(* Initially nothing is written, locked or acknowledged. *)
LEMMA InvInit == Init => Inv
<1> SUFFICES ASSUME Init PROVE Inv
  OBVIOUS
<1> USE DEF Init
<1>1. TypeOK
  BY DEF TypeOK, PCs
<1>2. \A s \in Sessions : Live(s) = {} /\ hist[s] = <<>>
  BY DEF Live, Waiting, Writing
<1>3. Grouped /\ Synced
  BY <1>2 DEF Grouped, Synced, Writing
<1>4. Placed
  BY <1>2 DEF Placed, AckedSurvives
<1>5. Chained /\ Ordered
  BY <1>2 DEF Chained, Ordered, WritesInCallOrder
<1> QED
  BY <1>1, <1>3, <1>4, <1>5 DEF Inv

(* Every step preserves the invariant, one lemma per action. *)
LEMMA InvStep == Inv /\ [Next]_vars => Inv'
<1> SUFFICES ASSUME Inv, [Next]_vars PROVE Inv'
  OBVIOUS
<1>1. CASE UNCHANGED vars
  <2> USE <1>1 DEF vars, disk, history, Inv
  <2>1. \A s : Live(s)' = Live(s)
    BY DEF Live, Locked
  <2>2. \A w : Locked(w)' <=> Locked(w)
    BY DEF Locked
  <2>3. TypeOK' /\ Grouped' /\ Synced'
    BY DEF TypeOK, Grouped, Synced
  <2>4. Placed'
    BY DEF Placed, AckedSurvives
  <2>5. Chained'
    BY <2>1 DEF Chained
  <2>6. Ordered'
    BY <2>1, <2>2 DEF Ordered, WritesInCallOrder
  <2> QED
    BY <2>3, <2>4, <2>5, <2>6
<1> QED
  BY <1>1, WriteSessionPreserves, DoWriteSessionPreserves, StageActivatePreserves,
    WriteTmpPreserves, FsyncTmpPreserves, RenamePreserves, FsyncDirPreserves,
    IoErrorPreserves, ReleasePreserves, CrashPreserves DEF Next, Step

(* The invariant that carries every guarantee below. *)
THEOREM InvHolds == Spec => []Inv
  BY InvInit, InvStep, PTL DEF Spec

(* Type correctness of the persister. *)
THEOREM TypeCorrect == Spec => []TypeOK
<1>1. Inv => TypeOK
  BY DEF Inv
<1> QED
  BY <1>1, InvHolds, PTL

(* No reader of a session file ever meets a half-written one, whatever the
   interleaving of writers, I/O errors and crashes. *)
THEOREM ReadsAreWhole == Spec => []NoPartialRead
<1>1. Inv => NoPartialRead
  <2> SUFFICES ASSUME Inv, NEW s \in Sessions, hist[s] # <<>>
               PROVE  body[Last(hist[s])] # "torn"
    BY DEF NoPartialRead, ReadSession
  <2>1. Len(hist[s]) \in 1..Len(hist[s])
    BY EmptySeq DEF Inv, TypeOK
  <2> QED
    BY <2>1 DEF Inv, Synced, Last
<1> QED
  BY <1>1, InvHolds, PTL

(* An acknowledged writeSession survives every later crash. *)
THEOREM AcksAreDurable == Spec => []AckedSurvives
<1>1. Inv => AckedSurvives
  BY DEF Inv, Placed
<1> QED
  BY <1>1, InvHolds, PTL

(* The promise chain in writeLocks is a mutual exclusion lock per session. *)
THEOREM LockExcludes == Spec => []WritersExclusive
<1>1. Inv => WritersExclusive
  <2> SUFFICES ASSUME Inv, NEW s \in Sessions, NEW v \in Live(s), NEW w \in Live(s),
                      pc[v] \in Writing, pc[w] \in Writing
               PROVE  v = w
    BY DEF WritersExclusive
  <2>1. ticket[v] \in Nat /\ ticket[w] \in Nat
    BY DEF Live, Inv, TypeOK
  <2>2. prior[v] \notin Live(s) /\ prior[w] \notin Live(s)
    BY DEF Inv, Chained
  <2>3. ~(ticket[v] < ticket[w]) /\ ~(ticket[w] < ticket[v])
    BY <2>2 DEF Inv, Chained
  <2>4. ticket[v] = ticket[w]
    BY <2>1, <2>3
  <2> QED
    BY <2>4 DEF Inv, Chained
<1> QED
  BY <1>1, InvHolds, PTL

(* Locked writes of one session take effect in the order they were called. *)
THEOREM CallOrderKept == Spec => []WritesInCallOrder
<1>1. Inv => WritesInCallOrder
  BY DEF Inv, Ordered
<1> QED
  BY <1>1, InvHolds, PTL

(* The lock chain as its callers see it: one writer at a time, in call order. *)
THEOREM LockHolds == Spec => []LockChain
<1>1. WritersExclusive /\ WritesInCallOrder => LockChain
  BY DEF LockChain
<1> QED
  BY <1>1, LockExcludes, CallOrderKept, PTL
-----------------------------------------------------------------------------
Acked == {w \in Calls : pc[w] \in {"fulfilled", "done"}}

(* SessionPersister implements the crash-safe atomic register SessionRegister:
   renames install, directory fsyncs harden and acknowledge, everything else stutters. *)
THEOREM Refinement == Spec => ImplementsRegister
<1> USE DEF Acked
<1>1. Init => Register!RInit
  BY DEF Init, Register!RInit
<1>2. Inv /\ [Next]_vars => [Register!RNext]_(Register!rvars)
  <2> SUFFICES ASSUME Inv, [Next]_vars
               PROVE  Register!RNext \/ UNCHANGED Register!rvars
    OBVIOUS
  <2> USE DEF Waiting, Writing, Settled, disk, history
  <2>1. ASSUME NEW w \in Calls, Rename(w) PROVE Register!RNext
    <3>1. sid[w] \in Sessions
      BY <2>1 DEF Rename, Inv, Grouped, TypeOK
    <3>2. Register!Install(sid[w], w)
      BY <2>1, <3>1 DEF Rename, Register!Install, Inv, TypeOK
    <3> QED
      BY <3>1, <3>2 DEF Register!RNext
  <2>2. ASSUME NEW w \in Calls, FsyncDir(w) PROVE Register!RNext
    <3>1. Hardened(w) \in SUBSET Sessions /\ batch[w] \in SUBSET Calls
      BY <2>2 DEF FsyncDir, Hardened, Inv, Grouped, TypeOK
    <3>2. \A c \in batch[w] : \E s \in Hardened(w) : \E i \in 1..Len(hist[s]) : hist[s][i] = c
      <4> SUFFICES ASSUME NEW c \in batch[w]
                   PROVE  \E s \in Hardened(w) : \E i \in 1..Len(hist[s]) : hist[s][i] = c
        OBVIOUS
      <4>1. sid[c] \in Sessions /\ \E i \in 1..Len(hist[sid[c]]) : hist[sid[c]][i] = c
        BY <2>2, <3>1 DEF FsyncDir, Inv, Placed, Grouped, TypeOK
      <4>2. sid[c] \in Hardened(w)
        BY <4>1 DEF Hardened
      <4> QED
        BY <4>1, <4>2
    <3>3. Acked' = Acked \cup batch[w]
      BY <2>2, <3>1 DEF FsyncDir, Inv, TypeOK
    <3>4. \E S \in SUBSET Sessions, C \in SUBSET Calls : Register!HardenAndAck(S, C)
      BY <2>2, <3>1, <3>2, <3>3 DEF FsyncDir, Register!HardenAndAck
    <3> QED
      BY <3>4 DEF Register!RNext
  <2>3. ASSUME Crash PROVE Register!RNext
    <3>1. Acked' = Acked
      BY <2>3 DEF Crash, Inv, TypeOK
    <3>2. stable' \in [Sessions -> Nat]
      BY <2>3 DEF Crash, Inv, TypeOK
    <3>3. Register!RCrash
      BY <2>3, <3>1, <3>2 DEF Crash, Register!RCrash
    <3> QED
      BY <3>3 DEF Register!RNext
  <2>4. ASSUME NEW w \in Calls, NEW s \in Sessions, WriteSession(w, s) PROVE UNCHANGED Register!rvars
    BY <2>4 DEF WriteSession, Register!rvars, Inv, TypeOK
  <2>5. ASSUME NEW w \in Calls, DoWriteSession(w) \/ WriteTmp(w) \/ FsyncTmp(w)
        PROVE  UNCHANGED Register!rvars
    BY <2>5 DEF DoWriteSession, WriteTmp, FsyncTmp, Register!rvars, Inv, TypeOK
  <2>6. ASSUME NEW B \in Batches, NEW target \in [B -> Sessions], StageActivate(B, target)
        PROVE  UNCHANGED Register!rvars
    BY <2>6 DEF StageActivate, Batches, Register!rvars, Inv, TypeOK
  <2>7. ASSUME NEW w \in Calls, IoError(w) PROVE UNCHANGED Register!rvars
    <3>1. \A v \in batch[w] : pc[v] \in Writing
      BY <2>7 DEF IoError, Inv, Grouped
    <3> QED
      BY <2>7, <3>1 DEF IoError, Register!rvars, Inv, TypeOK
  <2>8. ASSUME NEW w \in Calls, Release(w) PROVE UNCHANGED Register!rvars
    BY <2>8 DEF Release, Register!rvars, Inv, TypeOK
  <2>9. CASE UNCHANGED vars
    BY <2>9 DEF vars, Register!rvars
  <2> QED
    BY <2>1, <2>2, <2>3, <2>4, <2>5, <2>6, <2>7, <2>8, <2>9 DEF Next, Step
<1> QED
  BY <1>1, <1>2, InvHolds, PTL DEF Spec, ImplementsRegister, Register!RSpec
=============================================================================
