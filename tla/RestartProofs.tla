----------------------------- MODULE RestartProofs ----------------------------
(***************************************************************************)
(* The guarantees of a restart.  First the resume algorithm, the boot scan *)
(* and the hydrates beside it, for any number of sessions, rows, readers,  *)
(* I/O errors and crashes; then main() on its way to an open listener and  *)
(* what it keeps alive afterwards, for any configurations, import graphs,  *)
(* anchors, refreshes and batches of tools.                                *)
(***************************************************************************)
EXTENDS Resume, Startup, FiniteSetTheorems, SequenceTheorems, WellFoundedInduction, TLAPS

ProcType == [pc    : {"idle", "read", "rows", "resumed", "mark", "marking", "served", "rejected"},
             sid   : Sessions \cup {None},
             copy  : FileType \cup {None},
             i     : Nat,
             acted : BOOLEAN]

Typed ==
  /\ file \in [Sessions -> FileType] /\ boot \in [Sessions -> FileType]
  /\ proc \in [Procs -> ProcType]
  /\ \A p \in Procs : proc[p].pc # "idle" => proc[p].sid \in Sessions
  /\ \A x \in Readers : proc[x].pc \notin {"mark", "marking"}
  /\ run \in {"scanning", "serving", "exited"}
  /\ todo \in SUBSET Sessions
  /\ outcome \in [Sessions -> {None, "resumed", "skipped-terminal", "failed-read",
                               "failed-resume", "failed-io"}]
  /\ store \in [Sessions -> Readers \cup {None}]
  /\ replays \in [Sessions -> [Positions -> Nat]]

(* A later version of a file: each row is as it was, or settled. *)
Continues(f, g) ==
  /\ f.format = g.format /\ f.card = g.card /\ f.pool = g.pool
  /\ DOMAIN f.rows = DOMAIN g.rows
  /\ \A j \in DOMAIN g.rows : f.rows[j] = g.rows[j] \/ f.rows[j] = ResumeRow(g.rows[j])

(* The files continue the ones this process found. *)
Kept == \A s \in Sessions : Continues(file[s], boot[s])

(* So do the copies in hand: the rows passed are settled, the file is one that may be
   resumed; a file that is being marked keeps its rows meanwhile. *)
Carries(p) ==
  LET c == proc[p].copy
      s == proc[p].sid
  IN
  /\ proc[p].pc = "rows" =>
       /\ c \in FileType /\ Continues(c, boot[s])
       /\ c.status = file[s].status /\ Verdict(c) = "resumed"
       /\ proc[p].i \in 1 .. (Len(c.rows) + 1)
       /\ \A j \in DOMAIN c.rows : j < proc[p].i => c.rows[j].phase \notin Open
  /\ proc[p].pc = "marking" =>
       c \in FileType /\ Continues(c, boot[s]) /\ c.card = "drifted" /\ c.rows = file[s].rows
  /\ proc[p].pc = "mark" => file[s].card = "drifted"
  /\ proc[p].pc = "resumed" => file[s].format = "ok"

Carried == \A p \in Procs : Carries(p)

Resuming == {"read", "rows", "resumed"}
ScannerAt(s) == proc[Scanner].pc \in Resuming /\ proc[Scanner].sid = s

(* What an outcome says of the file. *)
Judged(s) ==
  /\ outcome[s] # None
  /\ outcome[s] = "resumed" => boot[s].format = "ok"
  /\ outcome[s] = "skipped-terminal" => boot[s].status \in Terminal

(* A session is to be scanned, is being resumed, or has its outcome. *)
Scanned ==
  /\ run # "scanning" => todo = {} /\ proc[Scanner].pc = "idle"
  /\ run = "serving" => \A s \in Sessions : outcome[s] # "failed-read"
  /\ proc[Scanner].pc # "idle" => proc[Scanner].sid \notin todo
  /\ \A s \in todo : outcome[s] = None /\ file[s].status = boot[s].status
  /\ \A s \in Sessions : ScannerAt(s) => outcome[s] = None
  /\ \A s \in Sessions \ todo : ScannerAt(s) \/ Judged(s)

(* What the scan knows of a session nobody hydrates: its file is as it was at the restart
   until the scan itself writes it. *)
Alone(s) ==
  /\ s \in todo => file[s] = boot[s]
  /\ ScannerAt(s) =>
       LET me == proc[Scanner] IN
       /\ pre = LastCommitted(boot[s])
       /\ me.pc = "read" => file[s] = boot[s] /\ ~me.acted
       /\ me.pc = "rows" =>
            /\ file[s] = boot[s]
            /\ \A j \in DOMAIN me.copy.rows : j >= me.i => me.copy.rows[j] = boot[s].rows[j]
            /\ me.acted <=> \E j \in DOMAIN boot[s].rows : j < me.i /\ boot[s].rows[j].phase \in Open
       /\ me.pc = "resumed" => (me.acted <=> OpenRows(boot[s]) # {})

(* The CrashEvents so far. *)
Exact ==
  {e \in reports : e.sid \notin Hydrated} =
    {[sid |-> s, last |-> LastCommitted(boot[s])] :
       s \in {t \in Sessions \ Hydrated : outcome[t] = "resumed" /\ OpenRows(boot[t]) # {}}}

Reported == Exact /\ \A s \in Sessions \ Hydrated : Alone(s)

Inv == Typed /\ Kept /\ Carried /\ Scanned /\ Reported
-----------------------------------------------------------------------------
(* Settling a row keeps its key and is done once. *)
LEMMA RowFacts ==
  ASSUME NEW row \in RowType
  PROVE  /\ ResumeRow(row) \in RowType /\ ResumeRow(row).key = row.key
         /\ ResumeRow(row).phase \notin Open
         /\ row.phase \notin Open => ResumeRow(row) = row
         /\ row.phase \in Open => ResumeRow(row).phase # row.phase
  BY DEF ResumeRow, RowType, Phases, Open

LEMMA FileFacts ==
  ASSUME NEW f \in FileType
  PROVE  /\ f.rows \in Seq(RowType) /\ DOMAIN f.rows = 1 .. Len(f.rows) /\ Len(f.rows) \in Nat
         /\ \A j \in DOMAIN f.rows : f.rows[j] \in RowType
         /\ f.status \in {"Planning", "Succeeded", "Failed"}
         /\ f.card \in {"served", "drifted"} /\ f.pool \in {"served", "stale"}
         /\ f.format \in {"ok", "corrupt", "invalid"}
         /\ Verdict(f) \in {"resumed", "drift", "failed-read", "failed-resume"}
         /\ Verdict(f) = "resumed" <=> f.format = "ok" /\ f.card = "served" /\ f.pool = "served"
         /\ Verdict(f) = "drift" <=> f.format = "ok" /\ f.card = "drifted"
         /\ Verdict(f) = "failed-read" <=> f.format # "ok"
<1>1. f.rows \in Seq(RowType)
  BY DEF FileType
<1>2. \A j \in DOMAIN f.rows : f.rows[j] \in RowType
  BY <1>1, ElementOfSeq
<1> QED
  BY <1>1, <1>2 DEF FileType, Verdict

LEMMA ContinuesItself ==
  ASSUME NEW f, NEW g, f.format = g.format, f.card = g.card, f.pool = g.pool, f.rows = g.rows
  PROVE  Continues(f, g)
  BY DEF Continues

(* The copy of a process that has settled every row: it continues the file on disk and
   takes no row out of a terminal phase. *)

LEMMA SettledCopy ==
  ASSUME Inv, NEW p \in Procs, Settled(p)
  PROVE  LET c == proc[p].copy
             s == proc[p].sid
         IN
         /\ s \in Sessions /\ c \in FileType /\ Continues(c, boot[s])
         /\ Verdict(c) = "resumed" /\ Verdict(file[s]) = "resumed" /\ c.status = file[s].status
         /\ DOMAIN c.rows = DOMAIN file[s].rows
         /\ \A j \in DOMAIN c.rows : c.rows[j].phase \notin Open
         /\ \A j \in DOMAIN file[s].rows : file[s].rows[j].phase \notin Open => c.rows[j] = file[s].rows[j]
<1> DEFINE c == proc[p].copy
           s == proc[p].sid
<1>1. /\ proc[p].pc = "rows" /\ proc[p].i > Len(c.rows) /\ s \in Sessions
      /\ proc[p].i \in Nat
  BY DEF Settled, Inv, Typed, ProcType
<1>2. /\ c \in FileType /\ Continues(c, boot[s]) /\ c.status = file[s].status /\ Verdict(c) = "resumed"
      /\ \A j \in DOMAIN c.rows : j < proc[p].i => c.rows[j].phase \notin Open
  BY <1>1 DEF Inv, Carried, Carries
<1>3. Continues(file[s], boot[s]) /\ file[s] \in FileType /\ boot[s] \in FileType
  BY <1>1 DEF Inv, Kept, Typed
<1>4. \A j \in DOMAIN c.rows : c.rows[j].phase \notin Open
  BY <1>1, <1>2, FileFacts
<1>5. Verdict(file[s]) = "resumed"
  BY <1>2, <1>3, FileFacts DEF Continues
<1>6. DOMAIN c.rows = DOMAIN file[s].rows
  BY <1>2, <1>3 DEF Continues
<1>7. ASSUME NEW j \in DOMAIN file[s].rows, file[s].rows[j].phase \notin Open
      PROVE  c.rows[j] = file[s].rows[j]
  <2> DEFINE b == boot[s].rows[j]
  <2>1. j \in DOMAIN boot[s].rows /\ b \in RowType
    BY <1>3, FileFacts DEF Continues
  <2>2. /\ file[s].rows[j] = b \/ file[s].rows[j] = ResumeRow(b)
        /\ c.rows[j] = b \/ c.rows[j] = ResumeRow(b)
        /\ c.rows[j].phase \notin Open
    BY <1>2, <1>3, <1>4, <1>6, <2>1 DEF Continues
  <2> QED
    BY <1>7, <2>1, <2>2, RowFacts
<1> QED
  BY <1>1, <1>2, <1>4, <1>5, <1>6, <1>7

(* What a write makes of the files: nothing, or the settled copy of a process, or the file
   marked Failed. *)
Written(s) ==
  \/ file'[s] = file[s]
  \/ \E p \in Procs : Settled(p) /\ proc[p].sid = s /\ file'[s] = proc[p].copy
  \/ proc[Scanner].pc = "marking" /\ proc[Scanner].sid = s /\ file'[s] = proc[Scanner].copy

LEMMA FileStep ==
  ASSUME Inv, NEW s \in Sessions, Written(s)
  PROVE  /\ file'[s] \in FileType
         /\ Continues(file'[s], boot[s])
         /\ file[s].card = "drifted" \/ file'[s].status = file[s].status
         /\ file[s].card = "drifted" \/ file[s].pool = "stale" => file'[s].rows = file[s].rows
         /\ \A j \in DOMAIN file[s].rows :
              file[s].rows[j].phase \notin Open => file'[s].rows[j] = file[s].rows[j]
<1>1. file[s] \in FileType /\ boot[s] \in FileType /\ Continues(file[s], boot[s])
  BY DEF Inv, Typed, Kept
<1>2. CASE file'[s] = file[s]
  BY <1>1, <1>2
<1>3. ASSUME NEW p \in Procs, Settled(p), proc[p].sid = s, file'[s] = proc[p].copy
      PROVE  /\ file'[s] \in FileType /\ Continues(file'[s], boot[s])
             /\ file'[s].status = file[s].status
             /\ ~(file[s].card = "drifted" \/ file[s].pool = "stale")
             /\ \A j \in DOMAIN file[s].rows :
                  file[s].rows[j].phase \notin Open => file'[s].rows[j] = file[s].rows[j]
  <2>1. Verdict(file[s]) = "resumed"
    BY <1>3, SettledCopy
  <2>2. file[s].card = "served" /\ file[s].pool = "served"
    BY <1>1, <2>1, FileFacts
  <2> QED
    BY <1>3, <2>2, SettledCopy
<1>4. CASE proc[Scanner].pc = "marking" /\ proc[Scanner].sid = s /\ file'[s] = proc[Scanner].copy
  <2>1. Carries(Scanner)
    BY DEF Inv, Carried, Procs
  <2>2. /\ file'[s] \in FileType /\ Continues(file'[s], boot[s]) /\ file'[s].card = "drifted"
        /\ file'[s].rows = file[s].rows
    BY <1>4, <2>1 DEF Carries
  <2>3. file[s].card = "drifted"
    BY <1>1, <2>2 DEF Continues
  <2> QED
    BY <2>2, <2>3
<1> QED
  BY <1>2, <1>3, <1>4 DEF Written

(* A process that does not move in a step carries its copy through the writes of others. *)
LEMMA CarriedOn ==
  ASSUME Inv, boot' = boot, \A s \in Sessions : Written(s), NEW p \in Procs, proc'[p] = proc[p]
  PROVE  Carries(p)'
<1> DEFINE s == proc[p].sid
           c == proc[p].copy
<1>1. CASE proc[p].pc \in {"rows", "marking", "mark", "resumed"}
  <2>1. s \in Sessions /\ file[s] \in FileType /\ boot[s] \in FileType /\ Continues(file[s], boot[s])
    BY <1>1 DEF Inv, Typed, Kept
  <2>2. /\ Continues(file'[s], boot[s])
        /\ file[s].card = "drifted" \/ file'[s].status = file[s].status
        /\ file[s].card = "drifted" \/ file[s].pool = "stale" => file'[s].rows = file[s].rows
    BY <2>1, FileStep
  <2>3. file'[s].card = file[s].card /\ file'[s].format = file[s].format
    BY <2>1, <2>2 DEF Continues
  <2>4. Carries(p)
    BY DEF Inv, Carried
  <2>5. CASE proc[p].pc = "rows"
    <3>1. c \in FileType /\ Continues(c, boot[s]) /\ Verdict(c) = "resumed"
      BY <2>4, <2>5 DEF Carries
    <3>2. file[s].card # "drifted"
      BY <2>1, <3>1, FileFacts DEF Continues
    <3> QED
      BY <2>2, <2>4, <2>5, <3>2 DEF Carries
  <2>6. CASE proc[p].pc = "marking"
    <3>1. Continues(c, boot[s]) /\ c.card = "drifted"
      BY <2>4, <2>6 DEF Carries
    <3>2. file[s].card = "drifted"
      BY <2>1, <3>1 DEF Continues
    <3> QED
      BY <2>2, <2>4, <2>6, <3>2 DEF Carries
  <2>7. CASE proc[p].pc \in {"mark", "resumed"}
    BY <2>3, <2>4, <2>7 DEF Carries
  <2> QED
    BY <1>1, <2>5, <2>6, <2>7
<1>2. CASE proc[p].pc \notin {"rows", "marking", "mark", "resumed"}
  BY <1>2 DEF Carries
<1> QED
  BY <1>1, <1>2

(* The process whose record a step replaces. *)
LEMMA Replaced ==
  ASSUME Typed, NEW p \in Procs, NEW j \in ProcType, proc' = [proc EXCEPT ![p] = j]
  PROVE  /\ proc' \in [Procs -> ProcType] /\ proc'[p] = j
         /\ \A q \in Procs \ {p} : proc'[q] = proc[q]
  BY DEF Typed

(* What a step of one reader x leaves to show: it may write its own settled copy, and it
   moves neither the scan nor any other reader. *)

LEMMA ReaderStep ==
  ASSUME Inv, NEW x \in Readers, NEW j \in ProcType,
         proc' = [proc EXCEPT ![x] = j], j.pc # "idle",
         proc[x].pc = "idle" \/ j.sid = proc[x].sid,
         UNCHANGED <<run, todo, outcome, pre, reports, boot>>,
         \/ file' = file
         \/ Settled(x) /\ file' = [file EXCEPT ![proc[x].sid] = proc[x].copy]
  PROVE  /\ file' \in [Sessions -> FileType] /\ Kept' /\ Scanned' /\ Reported'
         /\ \A q \in Procs \ {x} : Carries(q)'
         /\ \A s \in Sessions : Written(s)
<1>1. x \in Procs /\ Scanner \in Procs /\ x # Scanner
  BY ScannerAssumption DEF Procs
<1>2. /\ proc' \in [Procs -> ProcType] /\ proc'[x] = j
      /\ \A q \in Procs \ {x} : proc'[q] = proc[q]
  <2> HIDE DEF ProcType
  <2> QED
    BY <1>1, Replaced DEF Inv
<1>3. Typed /\ Kept /\ Scanned /\ Reported
  BY DEF Inv
<1>4. Settled(x) => proc[x].sid \in Sessions /\ proc[x].pc # "idle"
  BY <1>1, <1>3 DEF Settled, Typed
<1>5. \A s \in Sessions : \/ file'[s] = file[s]
                          \/ Settled(x) /\ proc[x].sid = s /\ file'[s] = proc[x].copy
  BY <1>3, <1>4 DEF Typed
<1>6. \A s \in Sessions : Written(s)
  BY <1>1, <1>5 DEF Written
<1>7. file' \in [Sessions -> FileType]
  <2>1. Settled(x) => proc[x].copy \in FileType
    BY <1>1, SettledCopy
  <2> QED
    BY <1>3, <2>1 DEF Typed
<1>8. Kept'
  <2>1. \A s \in Sessions : Continues(file'[s], boot[s])
    BY <1>6, FileStep
  <2> QED
    BY <2>1 DEF Kept
<1>9. \A q \in Procs \ {x} : Carries(q)'
  BY <1>2, <1>6, CarriedOn
<1>10. proc'[Scanner] = proc[Scanner]
  BY <1>1, <1>2
<1>11. Scanned'
  <2>1. \A s \in todo : file'[s].status = boot[s].status
    <3> SUFFICES ASSUME NEW s \in todo PROVE file'[s].status = boot[s].status
      OBVIOUS
    <3>1. s \in Sessions /\ file[s].status = boot[s].status
      BY <1>3 DEF Typed, Scanned
    <3>2. Settled(x) /\ proc[x].sid = s => proc[x].copy.status = file[s].status
      BY <1>1, SettledCopy
    <3> QED
      BY <1>5, <3>1, <3>2
  <2> QED
    BY <1>3, <1>10, <2>1 DEF Scanned, ScannerAt, Judged
<1>12. Hydrated \subseteq Hydrated'
  BY <1>1, <1>2 DEF Hydrated
<1>13. Settled(x) => proc[x].sid \in Hydrated
  BY <1>4 DEF Hydrated
<1>14. Reported'
  <2>1. ASSUME NEW s \in Sessions \ Hydrated'
        PROVE  Alone(s)'
    <3>1. s \notin Hydrated /\ Alone(s)
      BY <1>3, <1>12, <2>1 DEF Reported
    <3>2. file'[s] = file[s]
      BY <1>5, <1>13, <3>1
    <3> QED
      BY <1>10, <3>1, <3>2 DEF Alone, ScannerAt
  <2> DEFINE line(s) == [sid |-> s, last |-> LastCommitted(boot[s])]
             done(H) == {t \in Sessions \ H : outcome[t] = "resumed" /\ OpenRows(boot[t]) # {}}
  <2>2. {e \in reports : e.sid \notin Hydrated} = {line(s) : s \in done(Hydrated)}
    BY <1>3 DEF Reported, Exact
  <2>3. {e \in reports : e.sid \notin Hydrated'} = {line(s) : s \in done(Hydrated')}
    <3> HIDE DEF Hydrated
    <3>1. ASSUME NEW e, e \in reports, e.sid \notin Hydrated'
          PROVE  e \in {line(s) : s \in done(Hydrated')}
      <4>1. PICK s \in done(Hydrated) : e = line(s)
        BY <1>12, <2>2, <3>1
      <4>2. e.sid = s
        BY <4>1
      <4> QED
        BY <3>1, <4>1, <4>2
    <3>2. ASSUME NEW s \in done(Hydrated')
          PROVE  line(s) \in reports /\ line(s).sid \notin Hydrated'
      <4>1. s \in done(Hydrated) /\ s \notin Hydrated'
        BY <1>12, <3>2
      <4> QED
        BY <2>2, <4>1
    <3> QED
      BY <3>1, <3>2
  <2> QED
    BY <2>1, <2>3 DEF Reported, Exact
<1> QED
  BY <1>6, <1>7, <1>8, <1>9, <1>11, <1>14

(* Steps 1 to 3 of the resume by any process: the copy it takes is the file. *)
LEMMA CopyTaken ==
  ASSUME Inv, NEW p \in Procs, proc[p].pc = "read", Verdict(file[proc[p].sid]) = "resumed",
         boot' = boot, file' = file,
         proc' = [proc EXCEPT ![p].pc = "rows", ![p].copy = file[proc[p].sid], ![p].i = 1]
  PROVE  LET s == proc[p].sid
             j == [proc[p] EXCEPT !.pc = "rows", !.copy = file[s], !.i = 1]
         IN
         /\ s \in Sessions /\ j \in ProcType
         /\ proc' = [proc EXCEPT ![p] = j] /\ proc'[p] = j
         /\ j.pc = "rows" /\ j.sid = s /\ j.copy = file[s] /\ j.i = 1 /\ j.acted = proc[p].acted
         /\ Carries(p)'
<1> DEFINE s == proc[p].sid
           f == file[s]
           j == [proc[p] EXCEPT !.pc = "rows", !.copy = f, !.i = 1]
<1>1. proc[p] \in ProcType /\ proc \in [Procs -> ProcType] /\ s \in Sessions
  BY DEF Inv, Typed
<1>2. file[s] \in FileType /\ Continues(file[s], boot[s])
  BY <1>1 DEF Inv, Typed, Kept
<1>3. /\ j \in ProcType /\ proc' = [proc EXCEPT ![p] = j] /\ proc'[p] = j
      /\ j.pc = "rows" /\ j.sid = s /\ j.copy = file[s] /\ j.i = 1 /\ j.acted = proc[p].acted
  <2>1. proc' = [proc EXCEPT ![p] = j]
    OBVIOUS
  <2>2. f \in FileType /\ proc[p].sid = s
    BY <1>2
  <2> HIDE DEF s, f
  <2>3. j \in ProcType /\ j.pc = "rows" /\ j.sid = s /\ j.copy = f /\ j.i = 1 /\ j.acted = proc[p].acted
    BY <1>1, <2>2 DEF ProcType
  <2>4. proc'[p] = j
    BY <1>1, <2>1
  <2> QED
    BY <2>1, <2>3, <2>4 DEF f
<1>4. /\ Len(file[s].rows) \in Nat /\ 1 \in 1 .. (Len(file[s].rows) + 1)
      /\ \A i \in DOMAIN file[s].rows : ~(i < 1)
  <2>1. Len(file[s].rows) \in Nat /\ DOMAIN file[s].rows = 1 .. Len(file[s].rows)
    BY <1>2, FileFacts
  <2> QED
    BY <2>1
<1>5. proc'[p].sid = s /\ proc'[p].pc = "rows" /\ proc'[p].copy = file[s] /\ proc'[p].i = 1
  BY <1>3
<1>6. Carries(p)'
  BY <1>2, <1>4, <1>5 DEF Carries
<1> QED
  BY <1>1, <1>3, <1>6

(* Step 4 on one row by any process. *)
LEMMA RowSettled ==
  ASSUME Inv, NEW p \in Procs, SettleRow(p)
  PROVE  LET s == proc[p].sid
             i == proc[p].i
             c == proc[p].copy
             j == proc'[p]
         IN
         /\ s \in Sessions /\ j \in ProcType /\ proc' = [proc EXCEPT ![p] = j]
         /\ j.pc = "rows" /\ j.sid = s /\ j.i = i + 1
         /\ c \in FileType /\ i \in DOMAIN c.rows
         /\ j.acted = (proc[p].acted \/ c.rows[i].phase \in Open)
         /\ DOMAIN j.copy.rows = DOMAIN c.rows
         /\ \A k \in DOMAIN c.rows : j.copy.rows[k] = IF k = i THEN ResumeRow(c.rows[k]) ELSE c.rows[k]
         /\ replays' \in [Sessions -> [Positions -> Nat]]
         /\ Carries(p)'
<1> DEFINE s == proc[p].sid
           i == proc[p].i
           c == proc[p].copy
           row == c.rows[i]
           new == ResumeRow(row)
           d == [c EXCEPT !.rows = [@ EXCEPT ![i] = new]]
           acted == proc[p].acted \/ row.phase \in Open
           j == [proc[p] EXCEPT !.i = i + 1, !.copy = d, !.acted = acted]
<1>1. proc[p] \in ProcType /\ proc \in [Procs -> ProcType] /\ s \in Sessions /\ proc[p].pc = "rows"
  BY DEF Inv, Typed, SettleRow
<1>2. /\ c \in FileType /\ Continues(c, boot[s]) /\ c.status = file[s].status
      /\ Verdict(c) = "resumed" /\ i \in 1 .. (Len(c.rows) + 1)
      /\ \A k \in DOMAIN c.rows : k < i => c.rows[k].phase \notin Open
  BY <1>1 DEF Inv, Carried, Carries
<1>3. i \in DOMAIN c.rows /\ i \in Nat /\ row \in RowType /\ c.rows \in Seq(RowType)
      /\ DOMAIN c.rows = 1 .. Len(c.rows) /\ Len(c.rows) \in Nat
  <2>1. /\ c.rows \in Seq(RowType) /\ DOMAIN c.rows = 1 .. Len(c.rows) /\ Len(c.rows) \in Nat
        /\ \A k \in DOMAIN c.rows : c.rows[k] \in RowType
    BY <1>2, FileFacts
  <2>2. i <= Len(c.rows)
    BY DEF SettleRow
  <2> HIDE DEF c, i
  <2>3. i \in 1 .. Len(c.rows) /\ i \in Nat
    BY <1>2, <2>1, <2>2
  <2> QED
    BY <2>1, <2>3
<1>4. new \in RowType /\ new.phase \notin Open
  BY <1>3, RowFacts
<1>5. /\ d \in FileType /\ d.status = c.status /\ d.format = c.format /\ d.card = c.card /\ d.pool = c.pool
      /\ d.rows = [c.rows EXCEPT ![i] = new]
      /\ d.rows \in Seq(RowType) /\ Len(d.rows) = Len(c.rows)
  <2> HIDE DEF c, i, new
  <2>1. [c.rows EXCEPT ![i] = new] \in Seq(RowType) /\ Len([c.rows EXCEPT ![i] = new]) = Len(c.rows)
    BY <1>3, <1>4, ExceptSeq
  <2> QED
    BY <1>2, <2>1 DEF FileType
<1>6. DOMAIN d.rows = DOMAIN c.rows
      /\ \A k \in DOMAIN c.rows : d.rows[k] = IF k = i THEN new ELSE c.rows[k]
  BY <1>5
<1>7. j \in ProcType /\ proc' = [proc EXCEPT ![p] = j] /\ proc'[p] = j
  <2>1. proc' = [proc EXCEPT ![p] = j]
    BY DEF SettleRow
  <2>2. j \in ProcType
    <3>1. acted \in BOOLEAN /\ i + 1 \in Nat
      BY <1>3
    <3> HIDE DEF c, i, d, row, acted
    <3> QED
      BY <1>1, <1>5, <3>1 DEF ProcType
  <2> QED
    BY <1>1, <2>1, <2>2
<1>8. /\ j.pc = "rows" /\ j.sid = s /\ j.i = i + 1 /\ j.copy = d
      /\ j.acted = (proc[p].acted \/ row.phase \in Open)
  <2> HIDE DEF c, i, d, acted
  <2>1. /\ j.pc = "rows" /\ j.sid = s /\ j.i = i + 1 /\ j.copy = d /\ j.acted = acted
    BY <1>1 DEF ProcType
  <2> QED
    BY <2>1 DEF acted
<1>9. Carries(p)'
  <2> HIDE DEF d, j
  <2>1. /\ proc'[p].pc = "rows" /\ proc'[p].sid = s /\ proc'[p].copy = d /\ proc'[p].i = i + 1
        /\ file' = file /\ boot' = boot
    BY <1>7, <1>8 DEF SettleRow
  <2>2. Verdict(d) = "resumed"
    BY <1>2, <1>5, FileFacts
  <2>3. Continues(d, boot[s])
    <3>1. boot[s] \in FileType
      BY <1>1 DEF Inv, Typed
    <3>2. ASSUME NEW k \in DOMAIN boot[s].rows
          PROVE  d.rows[k] = boot[s].rows[k] \/ d.rows[k] = ResumeRow(boot[s].rows[k])
      <4>1. /\ k \in DOMAIN c.rows /\ boot[s].rows[k] \in RowType
            /\ c.rows[k] = boot[s].rows[k] \/ c.rows[k] = ResumeRow(boot[s].rows[k])
        BY <1>2, <3>1, <3>2, FileFacts DEF Continues
      <4>2. ResumeRow(ResumeRow(boot[s].rows[k])) = ResumeRow(boot[s].rows[k])
        BY <4>1, RowFacts
      <4> QED
        BY <1>6, <4>1, <4>2
    <3> QED
      BY <1>2, <1>5, <1>6, <3>2 DEF Continues
  <2>4. i + 1 \in 1 .. (Len(d.rows) + 1)
    BY <1>3, <1>5
  <2>5. ASSUME NEW k \in DOMAIN d.rows, k < i + 1
        PROVE  d.rows[k].phase \notin Open
    <3>1. k \in DOMAIN c.rows /\ k \in Nat
      BY <1>3, <1>6, <2>5
    <3>2. CASE k = i
      BY <1>4, <1>6, <3>1, <3>2
    <3>3. CASE k < i
      BY <1>2, <1>3, <1>6, <3>1, <3>3
    <3> QED
      BY <1>3, <2>5, <3>1, <3>2, <3>3
  <2> QED
    BY <1>2, <1>5, <2>1, <2>2, <2>3, <2>4, <2>5 DEF Carries
<1>10. replays' \in [Sessions -> [Positions -> Nat]]
  <2>1. replays \in [Sessions -> [Positions -> Nat]]
    BY DEF Inv, Typed
  <2>2. [replays EXCEPT ![s][i] = @ + 1] \in [Sessions -> [Positions -> Nat]]
    <3> DEFINE counts == [replays[s] EXCEPT ![i] = @ + 1]
    <3>1. replays[s] \in [Positions -> Nat]
      BY <1>1, <2>1
    <3>2. counts \in [Positions -> Nat]
      <4> HIDE DEF i
      <4>1. \A k \in Positions : replays[s][k] \in Nat /\ replays[s][k] + 1 \in Nat
        BY <3>1
      <4> QED
        BY <3>1, <4>1
    <3>3. [replays EXCEPT ![s][i] = @ + 1] = [replays EXCEPT ![s] = counts]
      OBVIOUS
    <3> HIDE DEF counts
    <3> QED
      BY <1>1, <2>1, <3>2, <3>3
  <2>3. replays' = replays \/ replays' = [replays EXCEPT ![s][i] = @ + 1]
    BY DEF SettleRow, row
  <2> QED
    BY <2>1, <2>2, <2>3
<1> QED
  BY <1>1, <1>2, <1>3, <1>6, <1>7, <1>8, <1>9, <1>10

LEMMA ReaderMoves ==
  ASSUME Inv, NEW x \in Readers, NEW j \in ProcType,
         proc' = [proc EXCEPT ![x] = j], j.pc \notin {"idle", "mark", "marking"},
         j.sid \in Sessions,
         proc[x].pc = "idle" \/ j.sid = proc[x].sid,
         UNCHANGED <<run, todo, outcome, pre, reports, boot>>,
         \/ file' = file
         \/ Settled(x) /\ file' = [file EXCEPT ![proc[x].sid] = proc[x].copy],
         store' \in [Sessions -> Readers \cup {None}],
         replays' \in [Sessions -> [Positions -> Nat]],
         Carries(x)'
  PROVE  Inv'
<1>1. x \in Procs /\ j.pc # "idle" /\ Typed
  BY DEF Procs, Inv
<1>2. /\ file' \in [Sessions -> FileType] /\ Kept' /\ Scanned' /\ Reported'
      /\ \A q \in Procs \ {x} : Carries(q)'
  BY <1>1, ReaderStep
<1>3. /\ proc' \in [Procs -> ProcType] /\ proc'[x] = j
      /\ \A q \in Procs \ {x} : proc'[q] = proc[q]
  <2> HIDE DEF ProcType
  <2> QED
    BY <1>1, Replaced
<1>4. Carried'
  BY <1>2 DEF Carried
<1>5. /\ \A p \in Procs : proc'[p].pc # "idle" => proc'[p].sid \in Sessions
      /\ \A y \in Readers : proc'[y].pc \notin {"mark", "marking"}
  BY <1>1, <1>3 DEF Typed, Procs
<1>6. Typed'
  BY <1>1, <1>2, <1>3, <1>5 DEF Typed
<1> QED
  BY <1>2, <1>4, <1>6 DEF Inv

LEMMA HydrateStep ==
  ASSUME Inv, NEW x \in Readers, NEW s \in Sessions, Hydrate(x, s)
  PROVE  Inv'
<1> DEFINE j == [Idle EXCEPT !.pc = "read", !.sid = s]
<1>1. j \in ProcType /\ j.pc = "read" /\ j.sid = s
  BY DEF Idle, ProcType
<1>2. x \in Procs /\ proc \in [Procs -> ProcType] /\ store \in [Sessions -> Readers \cup {None}]
      /\ replays \in [Sessions -> [Positions -> Nat]]
  BY DEF Procs, Inv, Typed
<1>3. proc' = [proc EXCEPT ![x] = j]
  BY DEF Hydrate
<1> HIDE DEF j
<1>4. Carries(x)'
  BY <1>1, <1>2, <1>3 DEF Carries
<1> QED
  BY <1>1, <1>2, <1>3, <1>4, ReaderMoves DEF Hydrate

(* A reader whose resume throws: it is answered, and its copy is gone. *)
LEMMA ReaderThrows ==
  ASSUME Inv, NEW x \in Readers, NEW what, Throw(x, what), proc[x].pc \in {"read", "rows"},
         UNCHANGED <<run, todo, pre, reports, boot, store, replays>>,
         \/ file' = file
         \/ Settled(x) /\ file' = [file EXCEPT ![proc[x].sid] = proc[x].copy]
  PROVE  Inv'
<1> DEFINE j == [proc[x] EXCEPT !.pc = "rejected", !.copy = None]
<1>1. /\ x \in Procs /\ x # Scanner /\ proc \in [Procs -> ProcType] /\ proc[x] \in ProcType
      /\ proc[x].sid \in Sessions
      /\ store \in [Sessions -> Readers \cup {None}] /\ replays \in [Sessions -> [Positions -> Nat]]
  BY ScannerAssumption DEF Procs, Inv, Typed
<1>2. j \in ProcType /\ j.pc = "rejected" /\ j.sid = proc[x].sid
  BY <1>1 DEF ProcType
<1>3. proc' = [proc EXCEPT ![x] = j] /\ outcome' = outcome
  BY <1>1 DEF Throw
<1> HIDE DEF j
<1>4. Carries(x)'
  BY <1>1, <1>2, <1>3 DEF Carries
<1> QED
  BY <1>1, <1>2, <1>3, <1>4, ReaderMoves

LEMMA ReaderReads ==
  ASSUME Inv, NEW x \in Readers, ResumeRead(x)
  PROVE  Inv'
<1>1. /\ x \in Procs /\ x # Scanner
      /\ store \in [Sessions -> Readers \cup {None}] /\ replays \in [Sessions -> [Positions -> Nat]]
  BY ScannerAssumption DEF Procs, Inv, Typed
<1>2. CASE Verdict(file[proc[x].sid]) = "resumed"
  <2> DEFINE s == proc[x].sid
             j == [proc[x] EXCEPT !.pc = "rows", !.copy = file[s], !.i = 1]
  <2>1. /\ proc[x].pc = "read" /\ boot' = boot /\ file' = file
        /\ proc' = [proc EXCEPT ![x].pc = "rows", ![x].copy = file[s], ![x].i = 1]
        /\ UNCHANGED <<run, todo, outcome, pre, reports, replays, store>>
    BY <1>2 DEF ResumeRead
  <2>2. /\ s \in Sessions /\ j \in ProcType /\ proc' = [proc EXCEPT ![x] = j]
        /\ j.pc = "rows" /\ j.sid = s /\ Carries(x)'
    BY <1>1, <1>2, <2>1, CopyTaken
  <2> HIDE DEF j
  <2> QED
    BY <1>1, <2>1, <2>2, ReaderMoves
<1>3. CASE Verdict(file[proc[x].sid]) # "resumed"
  <2>1. Throw(x, Verdict(file[proc[x].sid]))
    BY <1>3 DEF ResumeRead
  <2> QED
    BY <2>1, ReaderThrows DEF ResumeRead
<1> QED
  BY <1>2, <1>3

LEMMA ReaderSettles ==
  ASSUME Inv, NEW x \in Readers, SettleRow(x)
  PROVE  Inv'
<1> DEFINE j == proc'[x]
<1>1. x \in Procs /\ store \in [Sessions -> Readers \cup {None}]
  BY DEF Procs, Inv, Typed
<1>2. /\ proc[x].sid \in Sessions /\ j \in ProcType /\ proc' = [proc EXCEPT ![x] = j]
      /\ j.pc = "rows" /\ j.sid = proc[x].sid
      /\ replays' \in [Sessions -> [Positions -> Nat]] /\ Carries(x)'
  BY <1>1, RowSettled
<1>3. UNCHANGED <<file, run, todo, outcome, pre, reports, store, boot>>
  BY DEF SettleRow
<1> HIDE DEF j
<1> QED
  BY <1>1, <1>2, <1>3, ReaderMoves

LEMMA ReaderWrites ==
  ASSUME Inv, NEW x \in Readers, ResumeWrite(x)
  PROVE  Inv'
<1> DEFINE j == [proc[x] EXCEPT !.pc = "resumed", !.copy = None]
<1>1. /\ x \in Procs /\ proc \in [Procs -> ProcType] /\ proc[x] \in ProcType /\ Settled(x)
      /\ proc[x].sid \in Sessions /\ file \in [Sessions -> FileType]
      /\ store \in [Sessions -> Readers \cup {None}] /\ replays \in [Sessions -> [Positions -> Nat]]
  BY DEF Procs, Inv, Typed, ResumeWrite, Settled
<1>2. j \in ProcType /\ j.pc = "resumed" /\ j.sid = proc[x].sid
  BY <1>1 DEF ProcType
<1>3. proc' = [proc EXCEPT ![x] = j] /\ file' = [file EXCEPT ![proc[x].sid] = proc[x].copy]
  BY DEF ResumeWrite
<1> HIDE DEF j
<1>4. Carries(x)'
  <2>1. Verdict(proc[x].copy) = "resumed" /\ proc[x].copy \in FileType
    BY <1>1, SettledCopy
  <2>2. proc[x].copy.format = "ok"
    BY <2>1, FileFacts
  <2> QED
    BY <1>1, <1>2, <1>3, <2>2 DEF Carries
<1> QED
  BY <1>1, <1>2, <1>3, <1>4, ReaderMoves DEF ResumeWrite

LEMMA ReaderRegisters ==
  ASSUME Inv, NEW x \in Readers, Register(x)
  PROVE  Inv'
<1> DEFINE j == [proc[x] EXCEPT !.pc = "served"]
<1>1. /\ x \in Procs /\ proc \in [Procs -> ProcType] /\ proc[x] \in ProcType
      /\ proc[x].pc = "resumed" /\ proc[x].sid \in Sessions
      /\ store \in [Sessions -> Readers \cup {None}] /\ replays \in [Sessions -> [Positions -> Nat]]
  BY DEF Procs, Inv, Typed, Register
<1>2. j \in ProcType /\ j.pc = "served" /\ j.sid = proc[x].sid
  BY <1>1 DEF ProcType
<1>3. proc' = [proc EXCEPT ![x] = j] /\ store' \in [Sessions -> Readers \cup {None}]
  BY <1>1 DEF Register
<1> HIDE DEF j
<1>4. Carries(x)'
  BY <1>1, <1>2, <1>3 DEF Carries
<1> QED
  BY <1>1, <1>2, <1>3, <1>4, ReaderMoves DEF Register

(* What a step of the scan leaves to show: it may write its settled copy or the mark, no
   reader moves, and the scan's bookkeeping follows. *)

LEMMA ScannerMoves ==
  ASSUME Inv, NEW j \in ProcType, proc' = [proc EXCEPT ![Scanner] = j],
         j.pc # "idle" => j.sid \in Sessions,
         UNCHANGED <<store, boot>>,
         \/ file' = file
         \/ (Settled(Scanner) \/ proc[Scanner].pc = "marking")
              /\ file' = [file EXCEPT ![proc[Scanner].sid] = proc[Scanner].copy],
         run' \in {"scanning", "serving", "exited"}, todo' \in SUBSET Sessions,
         outcome' \in [Sessions -> {None, "resumed", "skipped-terminal", "failed-read",
                                    "failed-resume", "failed-io"}],
         replays' \in [Sessions -> [Positions -> Nat]],
         Carries(Scanner)', Scanned', Reported'
  PROVE  Inv'
<1>1. /\ Scanner \in Procs /\ Typed /\ proc[Scanner] \in ProcType
      /\ \A x \in Readers : x # Scanner
  BY ScannerAssumption DEF Procs, Inv, Typed
<1>2. /\ proc' \in [Procs -> ProcType] /\ proc'[Scanner] = j
      /\ \A q \in Procs \ {Scanner} : proc'[q] = proc[q]
  <2> HIDE DEF ProcType
  <2> QED
    BY <1>1, Replaced
<1>3. Settled(Scanner) \/ proc[Scanner].pc = "marking" => proc[Scanner].sid \in Sessions
  BY <1>1 DEF Settled, Typed
<1>4. \A s \in Sessions : Written(s)
  BY <1>1, <1>3 DEF Written, Typed
<1>5. \A s \in Sessions : file'[s] \in FileType /\ Continues(file'[s], boot[s])
  BY <1>4, FileStep
<1>6. file' \in [Sessions -> FileType]
  <2>1. Settled(Scanner) \/ proc[Scanner].pc = "marking" => proc[Scanner].copy \in FileType
    BY <1>1 DEF Settled, Inv, Carried, Carries
  <2> QED
    BY <1>1, <2>1 DEF Typed
<1>7. Kept'
  BY <1>5 DEF Kept
<1>8. Carried'
  <2>1. \A q \in Procs \ {Scanner} : Carries(q)'
    BY <1>2, <1>4, CarriedOn
  <2> QED
    BY <2>1 DEF Carried
<1>9. /\ \A p \in Procs : proc'[p].pc # "idle" => proc'[p].sid \in Sessions
      /\ \A y \in Readers : proc'[y].pc \notin {"mark", "marking"}
  BY <1>1, <1>2 DEF Typed, Procs
<1>10. Typed'
  BY <1>1, <1>2, <1>6, <1>9 DEF Typed
<1> QED
  BY <1>7, <1>8, <1>10 DEF Inv

LEMMA StillHydrated ==
  ASSUME Typed, NEW j, proc' = [proc EXCEPT ![Scanner] = j]
  PROVE  /\ Hydrated' = Hydrated /\ proc'[Scanner] = j
         /\ \A x \in Readers : proc'[x] = proc[x]
  BY ScannerAssumption DEF Hydrated, Typed, Procs

LEMMA StillExact ==
  ASSUME Exact, Hydrated' = Hydrated, boot' = boot, reports' = reports,
         \A t \in Sessions : outcome'[t] = "resumed" <=> outcome[t] = "resumed"
  PROVE  Exact'
<1> DEFINE done == {t \in Sessions \ Hydrated : outcome[t] = "resumed" /\ OpenRows(boot[t]) # {}}
<1>1. done' = done
  OBVIOUS
<1> QED
  BY <1>1 DEF Exact

(* The scan leaves a session: its outcome is known, or was. *)
LEMMA ScanLeaves ==
  ASSUME Inv, NEW j \in ProcType, proc' = [proc EXCEPT ![Scanner] = j],
         proc[Scanner].pc # "idle", j.pc \notin Resuming,
         j.pc # "idle" => j.sid = proc[Scanner].sid,
         UNCHANGED <<run, todo, boot>>,
         \/ file' = file
         \/ (Settled(Scanner) \/ proc[Scanner].pc = "marking")
              /\ file' = [file EXCEPT ![proc[Scanner].sid] = proc[Scanner].copy],
         NEW o \in {"resumed", "failed-read", "failed-resume"},
         o = "resumed" => file[proc[Scanner].sid].format = "ok",
         \/ outcome' = outcome /\ proc[Scanner].pc \notin Resuming
         \/ outcome' = [outcome EXCEPT ![proc[Scanner].sid] = o]
  PROVE  /\ Scanned' /\ \A t \in Sessions \ Hydrated' : Alone(t)'
         /\ outcome' \in [Sessions -> {None, "resumed", "skipped-terminal", "failed-read",
                                       "failed-resume", "failed-io"}]
<1>1. /\ Typed /\ Kept /\ Scanned /\ Reported /\ Scanner \in Procs
      /\ proc[Scanner].sid \in Sessions /\ proc[Scanner].sid \notin todo
      /\ run = "scanning"
  BY DEF Inv, Typed, Procs, Scanned
<1> PICK s \in Sessions : s = proc[Scanner].sid
  BY <1>1
<1>2. Hydrated' = Hydrated /\ proc'[Scanner] = j
  BY <1>1, StillHydrated
<1>3. \A t \in Sessions : ~ScannerAt(t)'
  BY <1>2 DEF ScannerAt
<1>4. \A t \in todo : file'[t] = file[t] /\ t # s /\ t \in Sessions
  BY <1>1 DEF Typed
<1>5. \A t \in Sessions : t # s => outcome'[t] = outcome[t]
  BY <1>1 DEF Typed
<1>6. (outcome'[s] = outcome[s] /\ proc[Scanner].pc \notin Resuming) \/ outcome'[s] = o
  BY <1>1 DEF Typed
<1>7. Judged(s)'
  <2>1. CASE outcome'[s] = outcome[s] /\ proc[Scanner].pc \notin Resuming
    BY <1>1, <2>1 DEF Scanned, ScannerAt, Judged
  <2>2. CASE outcome'[s] = o
    <3>1. file[s].format = boot[s].format
      BY <1>1 DEF Kept, Continues
    <3> QED
      BY <2>2, <3>1, OutcomeAssumption DEF Judged
  <2> QED
    BY <1>6, <2>1, <2>2
<1>8. \A t \in Sessions \ todo' : Judged(t)'
  <2> SUFFICES ASSUME NEW t \in Sessions \ todo, t # s PROVE Judged(t)'
    BY <1>7
  <2>1. Judged(t)
    BY <1>1 DEF Scanned, ScannerAt
  <2> QED
    BY <1>5, <2>1 DEF Judged
<1>9. Scanned'
  <2>1. \A t \in todo' : outcome'[t] = None /\ file'[t].status = boot'[t].status
    BY <1>1, <1>4, <1>5 DEF Scanned
  <2>2. proc'[Scanner].pc # "idle" => proc'[Scanner].sid \notin todo'
    BY <1>1, <1>2
  <2> QED
    BY <1>1, <1>3, <1>8, <2>1, <2>2 DEF Scanned
<1>10. \A t \in Sessions \ Hydrated' : Alone(t)'
  <2> SUFFICES ASSUME NEW t \in Sessions \ Hydrated PROVE Alone(t)'
    BY <1>2
  <2>1. Alone(t)
    BY <1>1 DEF Reported
  <2> QED
    BY <1>3, <1>4, <2>1 DEF Alone
<1> QED
  BY <1>1, <1>9, <1>10 DEF Typed

(* A resume of the scan throws: its outcome is known; after a card drift the file is to be
   marked. *)

LEMMA ScannerThrows ==
  ASSUME Inv, NEW what \in {"drift", "failed-read", "failed-resume"}, Throw(Scanner, what),
         proc[Scanner].pc \in {"read", "rows"},
         what = "drift" => file' = file /\ file[proc[Scanner].sid].card = "drifted",
         UNCHANGED <<run, todo, pre, reports, boot, store, replays>>,
         \/ file' = file
         \/ Settled(Scanner) /\ file' = [file EXCEPT ![proc[Scanner].sid] = proc[Scanner].copy]
  PROVE  Inv'
<1>1. /\ Typed /\ Scanner \in Procs /\ proc \in [Procs -> ProcType] /\ proc[Scanner] \in ProcType
      /\ proc[Scanner].sid \in Sessions /\ ScannerAt(proc[Scanner].sid)
  BY DEF Inv, Typed, Procs, ScannerAt, Resuming
<1> PICK s \in Sessions : s = proc[Scanner].sid
  BY <1>1
<1> DEFINE j == IF what = "drift" THEN [proc[Scanner] EXCEPT !.pc = "mark"] ELSE Idle
           o == IF what = "drift" THEN "failed-resume" ELSE what
<1>2. /\ j \in ProcType /\ j.pc \in {"idle", "mark"}
      /\ j.pc = "mark" => j.sid = s /\ what = "drift"
  BY <1>1 DEF ProcType, Idle
<1>3. proc' = [proc EXCEPT ![Scanner] = j] /\ outcome' = [outcome EXCEPT ![s] = o]
      /\ o \in {"failed-read", "failed-resume"}
  BY <1>1 DEF Throw
<1> HIDE DEF j, o
<1>4. /\ Scanned' /\ \A t \in Sessions \ Hydrated' : Alone(t)'
      /\ outcome' \in [Sessions -> {None, "resumed", "skipped-terminal", "failed-read",
                                    "failed-resume", "failed-io"}]
  BY <1>2, <1>3, ScanLeaves DEF Resuming
<1>5. Hydrated' = Hydrated /\ proc'[Scanner] = j
  BY <1>1, <1>3, StillHydrated
<1>6. Exact'
  <2>1. outcome[s] = None
    BY <1>1 DEF Inv, Scanned
  <2>2. \A t \in Sessions : outcome'[t] = "resumed" <=> outcome[t] = "resumed"
    BY <1>1, <1>3, <2>1, OutcomeAssumption DEF Typed
  <2> QED
    BY <1>5, <2>2, StillExact DEF Inv, Reported
<1>7. Carries(Scanner)'
  BY <1>2, <1>5 DEF Carries
<1>8. Reported'
  BY <1>4, <1>6 DEF Reported
<1>9. \/ file' = file
      \/ (Settled(Scanner) \/ proc[Scanner].pc = "marking")
           /\ file' = [file EXCEPT ![proc[Scanner].sid] = proc[Scanner].copy]
  OBVIOUS
<1>10. /\ run' \in {"scanning", "serving", "exited"} /\ todo' \in SUBSET Sessions
       /\ replays' \in [Sessions -> [Positions -> Nat]] /\ (j.pc # "idle" => j.sid \in Sessions)
  BY <1>1, <1>2 DEF Typed
<1> QED
  BY <1>2, <1>3, <1>4, <1>7, <1>8, <1>9, <1>10, ScannerMoves

(* The scan takes up a session: it has its outcome at once, or is resumed from now on. *)
LEMMA ScanTakesUp ==
  ASSUME Inv, NEW s \in todo, run = "scanning", proc[Scanner].pc = "idle",
         todo' = todo \ {s}, UNCHANGED <<file, run, reports, replays, store, boot>>,
         NEW j \in ProcType, proc' = [proc EXCEPT ![Scanner] = j],
         \/ /\ j.pc = "idle" /\ UNCHANGED pre
            /\ \E o \in {"failed-read", "failed-io", "skipped-terminal"} :
                 /\ outcome' = [outcome EXCEPT ![s] = o]
                 /\ o = "skipped-terminal" => file[s].status \in Terminal
         \/ /\ j.pc = "read" /\ j.sid = s /\ ~j.acted
            /\ outcome' = outcome /\ pre' = LastCommitted(file[s])
  PROVE  Inv'
<1>1. /\ Typed /\ Scanned /\ Reported /\ Kept /\ Scanner \in Procs /\ s \in Sessions
      /\ outcome[s] = None /\ file[s].status = boot[s].status
  BY DEF Inv, Typed, Procs, Scanned
<1>2. Hydrated' = Hydrated /\ proc'[Scanner] = j
  BY <1>1, StillHydrated
<1>3. /\ \A t \in Sessions : ~ScannerAt(t)
      /\ \A t \in Sessions : ScannerAt(t)' <=> j.pc = "read" /\ t = s
  BY <1>2 DEF ScannerAt, Resuming
<1>4. /\ \A t \in Sessions : t # s => outcome'[t] = outcome[t]
      /\ \/ outcome'[s] = None /\ j.pc = "read"
         \/ /\ outcome'[s] \in {"failed-read", "failed-io", "skipped-terminal"} /\ j.pc = "idle"
            /\ outcome'[s] = "skipped-terminal" => file[s].status \in Terminal
  BY <1>1 DEF Typed
<1>5. /\ outcome' \in [Sessions -> {None, "resumed", "skipped-terminal", "failed-read",
                                    "failed-resume", "failed-io"}]
      /\ todo' \in SUBSET Sessions
  BY <1>1 DEF Typed
<1>6. Scanned'
  <2>1. \A t \in Sessions \ todo' : ScannerAt(t)' \/ Judged(t)'
    <3>1. ASSUME NEW t \in Sessions \ todo, t # s
          PROVE  Judged(t)'
      <4>1. Judged(t)
        BY <1>1, <1>3, <3>1 DEF Scanned
      <4> QED
        BY <1>4, <3>1, <4>1 DEF Judged
    <3>2. j.pc = "idle" => Judged(s)'
      BY <1>1, <1>4, OutcomeAssumption DEF Judged
    <3> QED
      BY <1>3, <1>4, <3>1, <3>2
  <2>2. \A t \in todo' : outcome'[t] = None /\ file'[t].status = boot'[t].status
    BY <1>1, <1>4 DEF Scanned, Typed
  <2>3. \A t \in Sessions : ScannerAt(t)' => outcome'[t] = None
    BY <1>3, <1>4
  <2>4. proc'[Scanner].pc # "idle" => proc'[Scanner].sid \notin todo'
    BY <1>2, <1>4
  <2> QED
    BY <2>1, <2>2, <2>3, <2>4 DEF Scanned
<1>7. Exact'
  <2>1. \A t \in Sessions : outcome'[t] = "resumed" <=> outcome[t] = "resumed"
    BY <1>1, <1>4, OutcomeAssumption
  <2> QED
    BY <1>1, <1>2, <2>1, StillExact DEF Reported
<1>8. \A t \in Sessions \ Hydrated' : Alone(t)'
  <2> SUFFICES ASSUME NEW t \in Sessions \ Hydrated PROVE Alone(t)'
    BY <1>2
  <2>1. Alone(t)
    BY <1>1 DEF Reported
  <2>2. CASE t = s /\ j.pc = "read"
    <3>1. file[s] = boot[s] /\ pre' = LastCommitted(boot[s])
      BY <1>1, <1>4, <2>1, <2>2 DEF Alone
    <3> QED
      BY <1>2, <2>2, <3>1 DEF Alone
  <2>3. CASE ~(t = s /\ j.pc = "read")
    <3>1. ~ScannerAt(t)'
      BY <1>3, <2>3
    <3>2. t \in todo' => t \in todo
      OBVIOUS
    <3> QED
      BY <2>1, <3>1, <3>2 DEF Alone
  <2> QED
    BY <2>2, <2>3
<1>9. Carries(Scanner)'
  BY <1>2 DEF Carries
<1>10. Reported'
  BY <1>7, <1>8 DEF Reported
<1>11. run' \in {"scanning", "serving", "exited"} /\ replays' \in [Sessions -> [Positions -> Nat]]
       /\ (j.pc # "idle" => j.sid \in Sessions)
  BY <1>1, <1>4 DEF Typed
<1> QED
  BY <1>5, <1>6, <1>9, <1>10, <1>11, ScannerMoves

LEMMA ScanReads ==
  ASSUME Inv, NEW s \in Sessions, ScanRead(s) \/ ScanReadFails(s)
  PROVE  Inv'
<1>1. /\ s \in todo /\ run = "scanning" /\ proc[Scanner].pc = "idle" /\ todo' = todo \ {s}
      /\ UNCHANGED <<file, run, reports, replays, store, boot>>
  BY DEF ScanRead, ScanReadFails
<1>2. proc \in [Procs -> ProcType] /\ Scanner \in Procs /\ proc[Scanner] \in ProcType
  BY DEF Inv, Typed, Procs
<1>3. CASE /\ UNCHANGED <<proc, pre>>
           /\ \E o \in {"failed-read", "failed-io", "skipped-terminal"} :
                /\ outcome' = [outcome EXCEPT ![s] = o]
                /\ o = "skipped-terminal" => file[s].status \in Terminal
  <2>1. proc' = [proc EXCEPT ![Scanner] = proc[Scanner]]
    BY <1>2, <1>3
  <2> QED
    BY <1>1, <1>2, <1>3, <2>1, ScanTakesUp
<1>4. CASE /\ proc' = [proc EXCEPT ![Scanner] = [Idle EXCEPT !.pc = "read", !.sid = s]]
           /\ pre' = LastCommitted(file[s]) /\ UNCHANGED outcome
  <2> DEFINE j == [Idle EXCEPT !.pc = "read", !.sid = s]
  <2>1. j \in ProcType /\ j.pc = "read" /\ j.sid = s /\ ~j.acted
    BY DEF Idle, ProcType
  <2>2. proc' = [proc EXCEPT ![Scanner] = j]
    BY <1>4
  <2> HIDE DEF j
  <2> QED
    BY <1>1, <1>4, <2>1, <2>2, ScanTakesUp
<1> QED
  BY <1>3, <1>4 DEF ScanRead, ScanReadFails

LEMMA ScannerReads ==
  ASSUME Inv, ResumeRead(Scanner)
  PROVE  Inv'
<1>1. /\ Typed /\ Scanned /\ Reported /\ Kept /\ Scanner \in Procs /\ proc[Scanner].pc = "read"
      /\ proc[Scanner].sid \in Sessions
      /\ store \in [Sessions -> Readers \cup {None}] /\ replays \in [Sessions -> [Positions -> Nat]]
  BY DEF Procs, Inv, Typed, ResumeRead
<1> PICK s \in Sessions : s = proc[Scanner].sid
  BY <1>1
<1>2. CASE Verdict(file[s]) = "resumed"
  <2> DEFINE j == [proc[Scanner] EXCEPT !.pc = "rows", !.copy = file[s], !.i = 1]
  <2>1. /\ boot' = boot /\ file' = file
        /\ proc' = [proc EXCEPT ![Scanner].pc = "rows", ![Scanner].copy = file[s], ![Scanner].i = 1]
        /\ UNCHANGED <<run, todo, outcome, pre, reports, replays, store>>
    BY <1>2 DEF ResumeRead
  <2>2. /\ j \in ProcType /\ proc' = [proc EXCEPT ![Scanner] = j]
        /\ j.pc = "rows" /\ j.sid = s /\ j.copy = file[s] /\ j.i = 1 /\ j.acted = proc[Scanner].acted
        /\ Carries(Scanner)'
    BY <1>1, <1>2, <2>1, CopyTaken
  <2> HIDE DEF j
  <2>3. Hydrated' = Hydrated /\ proc'[Scanner] = j
    BY <1>1, <2>2, StillHydrated
  <2>4. \A t \in Sessions : (ScannerAt(t)' <=> t = s) /\ (ScannerAt(t) <=> t = s)
    BY <1>1, <2>2, <2>3 DEF ScannerAt, Resuming
  <2>5. Scanned'
    BY <1>1, <2>1, <2>2, <2>3, <2>4 DEF Scanned, Judged
  <2>6. Exact'
    BY <1>1, <2>1, <2>3, StillExact DEF Reported
  <2>7. ASSUME NEW t \in Sessions \ Hydrated'
        PROVE  Alone(t)'
    <3>1. t \notin Hydrated /\ Alone(t)
      BY <1>1, <2>3, <2>7 DEF Reported
    <3>2. CASE t # s
      BY <2>1, <2>4, <3>1, <3>2 DEF Alone
    <3>3. CASE t = s
      <4>1. pre = LastCommitted(boot[s]) /\ file[s] = boot[s] /\ ~proc[Scanner].acted
            /\ (s \in todo => file[s] = boot[s])
        BY <1>1, <2>4, <3>1, <3>3 DEF Alone
      <4>2. file[s] \in FileType
        BY <1>1 DEF Typed
      <4>3. \A k \in DOMAIN file[s].rows : ~(k < 1)
        BY <4>2, FileFacts
      <4> QED
        BY <2>1, <2>2, <2>3, <3>3, <4>1, <4>3 DEF Alone
    <3> QED
      BY <3>2, <3>3
  <2>8. Reported'
    BY <2>6, <2>7 DEF Reported
  <2> QED
    BY <1>1, <2>1, <2>2, <2>5, <2>8, ScannerMoves DEF Typed
<1>3. CASE Verdict(file[s]) # "resumed"
  <2>1. Throw(Scanner, Verdict(file[s])) /\ file' = file
        /\ UNCHANGED <<run, todo, pre, reports, boot, store, replays>>
    BY <1>3 DEF ResumeRead
  <2>2. file[s] \in FileType
    BY <1>1 DEF Typed
  <2>3. /\ Verdict(file[s]) \in {"drift", "failed-read", "failed-resume"}
        /\ Verdict(file[s]) = "drift" => file[s].card = "drifted"
    BY <1>3, <2>2, FileFacts
  <2> QED
    BY <1>1, <2>1, <2>3, ScannerThrows
<1> QED
  BY <1>2, <1>3

LEMMA ScannerSettles ==
  ASSUME Inv, SettleRow(Scanner)
  PROVE  Inv'
<1>1. /\ Typed /\ Scanned /\ Reported /\ Kept /\ Scanner \in Procs /\ proc[Scanner].pc = "rows"
      /\ proc[Scanner].sid \in Sessions
      /\ UNCHANGED <<file, run, todo, outcome, pre, reports, store, boot>>
  BY DEF Procs, Inv, Typed, SettleRow
<1> PICK s \in Sessions : s = proc[Scanner].sid
  BY <1>1
<1> DEFINE j == proc'[Scanner]
           i == proc[Scanner].i
           c == proc[Scanner].copy
<1>2. /\ j \in ProcType /\ proc' = [proc EXCEPT ![Scanner] = j]
      /\ j.pc = "rows" /\ j.sid = s /\ j.i = i + 1
      /\ c \in FileType /\ i \in DOMAIN c.rows
      /\ j.acted = (proc[Scanner].acted \/ c.rows[i].phase \in Open)
      /\ DOMAIN j.copy.rows = DOMAIN c.rows
      /\ \A k \in DOMAIN c.rows : j.copy.rows[k] = IF k = i THEN ResumeRow(c.rows[k]) ELSE c.rows[k]
      /\ replays' \in [Sessions -> [Positions -> Nat]]
      /\ Carries(Scanner)'
  BY <1>1, RowSettled
<1>3. Hydrated' = Hydrated
  <2> HIDE DEF j
  <2> QED
    BY <1>1, <1>2, StillHydrated
<1>4. \A t \in Sessions : (ScannerAt(t)' <=> t = s) /\ (ScannerAt(t) <=> t = s)
  BY <1>1, <1>2 DEF ScannerAt, Resuming
<1>5. Scanned'
  BY <1>1, <1>2, <1>4 DEF Scanned, Judged
<1>6. Exact'
  BY <1>1, <1>3, StillExact DEF Reported
<1>7. ASSUME NEW t \in Sessions \ Hydrated'
      PROVE  Alone(t)'
  <2>1. t \notin Hydrated /\ Alone(t)
    BY <1>1, <1>3, <1>7 DEF Reported
  <2>2. CASE t # s
    BY <1>1, <1>4, <2>1, <2>2 DEF Alone
  <2>3. CASE t = s
    <3>1. /\ pre = LastCommitted(boot[s]) /\ file[s] = boot[s] /\ (s \in todo => file[s] = boot[s])
          /\ \A k \in DOMAIN c.rows : k >= i => c.rows[k] = boot[s].rows[k]
          /\ proc[Scanner].acted <=> \E k \in DOMAIN boot[s].rows : k < i /\ boot[s].rows[k].phase \in Open
      BY <1>1, <1>4, <2>1, <2>3 DEF Alone
    <3>2. DOMAIN c.rows = DOMAIN boot[s].rows /\ DOMAIN c.rows \subseteq Nat /\ i \in Nat
      <4>1. Continues(c, boot[s]) /\ c \in FileType
        BY <1>1 DEF Inv, Carried, Carries
      <4>2. DOMAIN c.rows = 1 .. Len(c.rows) /\ Len(c.rows) \in Nat
        BY <4>1, FileFacts
      <4> QED
        BY <1>2, <4>1, <4>2 DEF Continues
    <3>3. \A k \in DOMAIN j.copy.rows : k >= j.i => j.copy.rows[k] = boot[s].rows[k]
      <4> HIDE DEF c, i, j
      <4> QED
        BY <1>2, <3>1, <3>2
    <3>4. j.acted <=> \E k \in DOMAIN boot[s].rows : k < j.i /\ boot[s].rows[k].phase \in Open
      <4>1. c.rows[i] = boot[s].rows[i] /\ j.acted = (proc[Scanner].acted \/ boot[s].rows[i].phase \in Open)
        BY <1>2, <3>1, <3>2
      <4>2. \A k \in DOMAIN boot[s].rows : k < j.i <=> k < i \/ k = i
        <5> SUFFICES ASSUME NEW k \in DOMAIN boot[s].rows
                     PROVE  k < j.i <=> k < i \/ k = i
          OBVIOUS
        <5>1. k \in Nat /\ i \in Nat /\ j.i = i + 1
          BY <1>2, <3>2
        <5> HIDE DEF i, j
        <5> QED
          BY <5>1
      <4> HIDE DEF c, i, j
      <4> QED
        BY <1>2, <3>1, <3>2, <4>1, <4>2
    <3> QED
      BY <1>1, <1>2, <2>3, <3>1, <3>3, <3>4 DEF Alone
  <2> QED
    BY <2>2, <2>3
<1>8. Reported'
  BY <1>6, <1>7 DEF Reported
<1> HIDE DEF j
<1>9. /\ run' \in {"scanning", "serving", "exited"} /\ todo' \in SUBSET Sessions
      /\ outcome' \in [Sessions -> {None, "resumed", "skipped-terminal", "failed-read",
                                    "failed-resume", "failed-io"}]
      /\ UNCHANGED <<store, boot>> /\ file' = file /\ j.sid \in Sessions
  BY <1>1, <1>2 DEF Typed
<1> QED
  BY <1>2, <1>5, <1>8, <1>9, ScannerMoves

LEMMA ScannerWrites ==
  ASSUME Inv, ResumeWrite(Scanner)
  PROVE  Inv'
<1> DEFINE me == proc[Scanner]
           c == me.copy
           j == [me EXCEPT !.pc = "resumed", !.copy = None]
<1>1. /\ Typed /\ Scanned /\ Reported /\ Kept /\ Scanner \in Procs /\ Settled(Scanner)
      /\ me.pc = "rows" /\ me.sid \in Sessions /\ me \in ProcType /\ me.i > Len(c.rows) /\ me.i \in Nat
  BY DEF Procs, Inv, Typed, ResumeWrite, Settled, ProcType
<1> PICK s \in Sessions : s = me.sid
  BY <1>1
<1>2. j \in ProcType /\ j.pc = "resumed" /\ j.sid = s /\ j.acted = me.acted
  BY <1>1 DEF ProcType
<1>3. /\ proc' = [proc EXCEPT ![Scanner] = j] /\ file' = [file EXCEPT ![s] = c]
      /\ UNCHANGED <<run, todo, outcome, pre, reports, replays, store, boot>>
  BY DEF ResumeWrite
<1> HIDE DEF j
<1>4. Hydrated' = Hydrated /\ proc'[Scanner] = j
  BY <1>1, <1>3, StillHydrated
<1>5. \A t \in Sessions : (ScannerAt(t)' <=> t = s) /\ (ScannerAt(t) <=> t = s)
  BY <1>1, <1>2, <1>4 DEF ScannerAt, Resuming
<1>6. s \notin todo /\ \A t \in Sessions : t # s => file'[t] = file[t]
  BY <1>1, <1>3 DEF Scanned, Typed
<1>7. c \in FileType /\ Continues(c, boot[s]) /\ Verdict(c) = "resumed" /\ file'[s] = c
  BY <1>1, <1>3, SettledCopy DEF Typed
<1>8. Scanned'
  BY <1>1, <1>2, <1>3, <1>4, <1>5, <1>6 DEF Scanned, Judged, Typed
<1>9. Exact'
  BY <1>1, <1>3, <1>4, StillExact DEF Reported
<1>10. ASSUME NEW t \in Sessions \ Hydrated'
       PROVE  Alone(t)'
  <2>1. t \notin Hydrated /\ Alone(t)
    BY <1>1, <1>4, <1>10 DEF Reported
  <2>2. CASE t # s
    BY <1>3, <1>5, <1>6, <2>1, <2>2 DEF Alone
  <2>3. CASE t = s
    <3>1. /\ pre = LastCommitted(boot[s])
          /\ me.acted <=> \E k \in DOMAIN boot[s].rows : k < me.i /\ boot[s].rows[k].phase \in Open
      BY <1>1, <1>5, <2>1, <2>3 DEF Alone
    <3>2. \A k \in DOMAIN boot[s].rows : k < me.i
      <4>1. DOMAIN boot[s].rows = 1 .. Len(c.rows) /\ Len(c.rows) \in Nat
        BY <1>7, FileFacts DEF Continues
      <4> HIDE DEF c, me
      <4> QED
        BY <1>1, <4>1
    <3>3. me.acted <=> OpenRows(boot[s]) # {}
      BY <3>1, <3>2 DEF OpenRows
    <3> QED
      BY <1>2, <1>3, <1>4, <1>6, <2>3, <3>1, <3>3 DEF Alone
  <2> QED
    BY <2>2, <2>3
<1>11. Reported'
  BY <1>9, <1>10 DEF Reported
<1>12. Carries(Scanner)'
  <2>1. c.format = "ok"
    BY <1>7, FileFacts
  <2> QED
    BY <1>2, <1>4, <1>7, <2>1 DEF Carries
<1>13. /\ run' \in {"scanning", "serving", "exited"} /\ todo' \in SUBSET Sessions
       /\ outcome' \in [Sessions -> {None, "resumed", "skipped-terminal", "failed-read",
                                     "failed-resume", "failed-io"}]
       /\ replays' \in [Sessions -> [Positions -> Nat]]
       /\ UNCHANGED <<store, boot>> /\ j.sid \in Sessions
  BY <1>1, <1>2, <1>3 DEF Typed
<1>14. Settled(Scanner) /\ file' = [file EXCEPT ![proc[Scanner].sid] = proc[Scanner].copy]
  BY <1>1, <1>3
<1> QED
  BY <1>2, <1>3, <1>8, <1>11, <1>12, <1>13, <1>14, ScannerMoves

(* Back in the scan with a session resumed. *)
LEMMA ScannerResumed ==
  ASSUME Inv, ScanResumed
  PROVE  Inv'
<1> DEFINE me == proc[Scanner]
<1>1. /\ Typed /\ Scanned /\ Reported /\ Kept /\ Scanner \in Procs
      /\ me.pc = "resumed" /\ me.sid \in Sessions /\ Carries(Scanner)
  BY DEF Procs, Inv, Typed, Carried, ScanResumed
<1> PICK s \in Sessions : s = me.sid
  BY <1>1
<1> PICK j : j = Idle
  OBVIOUS
<1>2. /\ proc' = [proc EXCEPT ![Scanner] = j] /\ outcome' = [outcome EXCEPT ![s] = "resumed"]
      /\ reports' = (IF me.acted THEN reports \cup {[sid |-> s, last |-> pre]} ELSE reports)
      /\ UNCHANGED <<file, run, todo, pre, replays, store, boot>>
  BY DEF ScanResumed
<1>3. j \in ProcType /\ j.pc = "idle"
  BY DEF Idle, ProcType
<1>4. file[s].format = "ok"
  BY <1>1 DEF Carries
<1>5. /\ Scanned' /\ \A t \in Sessions \ Hydrated' : Alone(t)'
      /\ outcome' \in [Sessions -> {None, "resumed", "skipped-terminal", "failed-read",
                                    "failed-resume", "failed-io"}]
  <2>1. proc[Scanner].pc # "idle" /\ j.pc \notin Resuming /\ proc[Scanner].sid = s
    BY <1>1, <1>3 DEF Resuming
  <2> QED
    BY <1>2, <1>3, <1>4, <2>1, ScanLeaves
<1>6. Hydrated' = Hydrated /\ proc'[Scanner] = j
  BY <1>1, <1>2, StillHydrated
<1>7. /\ \A t \in Sessions : t # s => outcome'[t] = outcome[t]
      /\ outcome'[s] = "resumed" /\ outcome[s] = None /\ outcome[s] # "resumed"
  <2>1. outcome[s] = None
    BY <1>1 DEF Scanned, ScannerAt, Resuming
  <2> QED
    BY <1>1, <1>2, <2>1, OutcomeAssumption DEF Typed
<1> DEFINE line(t) == [sid |-> t, last |-> LastCommitted(boot[t])]
           done == {t \in Sessions \ Hydrated : outcome[t] = "resumed" /\ OpenRows(boot[t]) # {}}
           more == {t \in Sessions \ Hydrated : outcome'[t] = "resumed" /\ OpenRows(boot[t]) # {}}
<1>8. {e \in reports : e.sid \notin Hydrated} = {line(t) : t \in done}
  BY <1>1 DEF Reported, Exact
<1>9. {e \in reports' : e.sid \notin Hydrated} = {line(t) : t \in more}
  <2>1. more = done \cup (IF s \notin Hydrated /\ OpenRows(boot[s]) # {} THEN {s} ELSE {})
    BY <1>7
  <2>2. CASE s \in Hydrated
    <3>1. {e \in reports' : e.sid \notin Hydrated} = {e \in reports : e.sid \notin Hydrated}
      BY <1>2, <2>2
    <3>2. more = done
      BY <2>1, <2>2
    <3> QED
      BY <1>8, <3>1, <3>2
  <2>3. CASE s \notin Hydrated
    <3>1. pre = LastCommitted(boot[s]) /\ (me.acted <=> OpenRows(boot[s]) # {})
      <4>1. Alone(s) /\ ScannerAt(s)
        BY <1>1, <2>3 DEF Reported, ScannerAt, Resuming
      <4> QED
        BY <1>1, <4>1 DEF Alone
    <3>2. CASE me.acted
      <4>1. reports' = reports \cup {line(s)} /\ more = done \cup {s}
        BY <1>2, <2>1, <2>3, <3>1, <3>2
      <4>2. {e \in reports' : e.sid \notin Hydrated} =
              {e \in reports : e.sid \notin Hydrated} \cup {line(s)}
        BY <2>3, <4>1
      <4> QED
        BY <1>8, <4>1, <4>2
    <3>3. CASE ~me.acted
      <4>1. reports' = reports /\ more = done
        BY <1>2, <2>1, <3>1, <3>3
      <4> QED
        BY <1>8, <4>1
    <3> QED
      BY <3>2, <3>3
  <2> QED
    BY <2>2, <2>3
<1>10. Reported'
  BY <1>2, <1>5, <1>6, <1>9 DEF Reported, Exact
<1>11. Carries(Scanner)'
  BY <1>3, <1>6 DEF Carries
<1>12. /\ run' \in {"scanning", "serving", "exited"} /\ todo' \in SUBSET Sessions
       /\ replays' \in [Sessions -> [Positions -> Nat]]
  BY <1>1, <1>2 DEF Typed
<1> QED
  BY <1>2, <1>3, <1>5, <1>10, <1>11, <1>12, ScannerMoves

(* The steps that mark a drifted file as failed; no outcome changes. *)
LEMMA ScannerMarks ==
  ASSUME Inv, MarkRead \/ MarkWrite \/ MarkFails
  PROVE  Inv'
<1> DEFINE me == proc[Scanner]
<1>1. /\ Typed /\ Scanned /\ Reported /\ Kept /\ Scanner \in Procs /\ me \in ProcType
      /\ me.pc \in {"mark", "marking"} /\ me.sid \in Sessions /\ Carries(Scanner)
  BY DEF Procs, Inv, Typed, Carried, MarkRead, MarkWrite, MarkFails
<1> PICK s \in Sessions : s = me.sid
  BY <1>1
<1>2. file[s] \in FileType /\ Continues(file[s], boot[s])
  BY <1>1 DEF Typed, Kept
<1>3. UNCHANGED <<run, todo, outcome, pre, reports, replays, store, boot>>
  BY DEF MarkRead, MarkWrite, MarkFails
<1>4. \/ file' = file
      \/ proc[Scanner].pc = "marking" /\ file' = [file EXCEPT ![proc[Scanner].sid] = proc[Scanner].copy]
  BY DEF MarkRead, MarkWrite, MarkFails
<1>5. \E j \in ProcType : /\ proc' = [proc EXCEPT ![Scanner] = j]
                          /\ \/ j.pc = "idle"
                             \/ /\ j.pc = "marking" /\ j.sid = s /\ file' = file
                                /\ j.copy \in FileType /\ Continues(j.copy, boot[s])
                                /\ j.copy.card = "drifted" /\ j.copy.rows = file[s].rows
  <2>1. CASE MarkWrite \/ MarkFails
    <3>1. Idle \in ProcType /\ Idle.pc = "idle"
      BY DEF Idle, ProcType
    <3>2. proc' = [proc EXCEPT ![Scanner] = Idle]
      BY <2>1 DEF MarkWrite, MarkFails
    <3> QED
      BY <3>1, <3>2
  <2>2. CASE MarkRead
    <3> DEFINE d == [file[s] EXCEPT !.status = "Failed"]
               j == [me EXCEPT !.pc = "marking", !.copy = d]
    <3>1. me.pc = "mark" /\ file' = file
      BY <2>2 DEF MarkRead
    <3>2. proc' = [proc EXCEPT ![Scanner] = j]
      BY <2>2 DEF MarkRead
    <3>3. /\ d \in FileType /\ d.card = file[s].card /\ d.rows = file[s].rows
          /\ d.format = file[s].format /\ d.pool = file[s].pool
      BY <1>2 DEF FileType
    <3>4. Continues(d, boot[s])
      BY <1>2, <3>3 DEF Continues
    <3>5. file[s].card = "drifted"
      BY <1>1, <3>1 DEF Carries
    <3> HIDE DEF d
    <3>6. j \in ProcType /\ j.pc = "marking" /\ j.sid = s /\ j.copy = d
      BY <1>1, <3>3 DEF ProcType
    <3> QED
      BY <3>1, <3>2, <3>3, <3>4, <3>5, <3>6
  <2> QED
    BY <2>1, <2>2
<1> PICK j \in ProcType : /\ proc' = [proc EXCEPT ![Scanner] = j]
                          /\ \/ j.pc = "idle"
                             \/ /\ j.pc = "marking" /\ j.sid = s /\ file' = file
                                /\ j.copy \in FileType /\ Continues(j.copy, boot[s])
                                /\ j.copy.card = "drifted" /\ j.copy.rows = file[s].rows
  BY <1>5
<1>6. Hydrated' = Hydrated /\ proc'[Scanner] = j
  BY <1>1, StillHydrated
<1>7. /\ Scanned' /\ \A t \in Sessions \ Hydrated' : Alone(t)'
      /\ outcome' \in [Sessions -> {None, "resumed", "skipped-terminal", "failed-read",
                                    "failed-resume", "failed-io"}]
  <2>1. proc[Scanner].pc # "idle" /\ j.pc \notin Resuming /\ proc[Scanner].pc \notin Resuming
        /\ (j.pc # "idle" => j.sid = proc[Scanner].sid)
    BY <1>1 DEF Resuming
  <2>2. "failed-read" = "resumed" => file[proc[Scanner].sid].format = "ok"
    OBVIOUS
  <2> QED
    BY <1>3, <1>4, <2>1, <2>2, ScanLeaves
<1>8. Exact'
  BY <1>1, <1>3, <1>6, StillExact DEF Reported
<1>9. Reported'
  BY <1>7, <1>8 DEF Reported
<1>10. Carries(Scanner)'
  BY <1>3, <1>6 DEF Carries
<1>11. /\ run' \in {"scanning", "serving", "exited"} /\ todo' \in SUBSET Sessions
       /\ replays' \in [Sessions -> [Positions -> Nat]] /\ (j.pc # "idle" => j.sid \in Sessions)
  BY <1>1, <1>3 DEF Typed
<1> QED
  BY <1>3, <1>4, <1>7, <1>9, <1>10, <1>11, ScannerMoves

LEMMA ScannerEnds ==
  ASSUME Inv, ScanDone
  PROVE  Inv'
<1>1. /\ Typed /\ Scanned /\ Reported /\ Carried /\ run = "scanning" /\ todo = {}
      /\ proc[Scanner].pc = "idle"
      /\ UNCHANGED <<file, proc, todo, outcome, pre, reports, replays, store, boot>>
      /\ run' = IF \E s \in Sessions : outcome[s] = "failed-read" THEN "exited" ELSE "serving"
  BY DEF Inv, ScanDone
<1>2. Hydrated' = Hydrated
  BY <1>1 DEF Hydrated
<1>3. Typed'
  BY <1>1 DEF Typed
<1>4. Scanned'
  BY <1>1 DEF Scanned, ScannerAt, Judged
<1>5. Reported'
  BY <1>1, <1>2 DEF Reported, Exact, Alone, ScannerAt
<1>6. Carried'
  BY <1>1 DEF Carried, Carries
<1>7. Kept'
  BY <1>1 DEF Inv, Kept
<1> QED
  BY <1>3, <1>4, <1>5, <1>6, <1>7 DEF Inv

(* The copies a crash lets through are settled ones. *)
LEMMA CrashWrites ==
  ASSUME Typed, Crash, NEW s \in Sessions
  PROVE  Written(s)
<1> PICK P \in SUBSET {p \in Procs : Settled(p)} :
      file' = [t \in Sessions |-> IF \E p \in P : proc[p].sid = t
                                    THEN proc[CHOOSE p \in P : proc[p].sid = t].copy ELSE file[t]]
  BY DEF Crash
<1>1. CASE \E p \in P : proc[p].sid = s
  <2> DEFINE q == CHOOSE p \in P : proc[p].sid = s
  <2>1. q \in P /\ proc[q].sid = s
    BY <1>1
  <2>2. file'[s] = proc[q].copy
    BY <1>1
  <2> HIDE DEF q
  <2> QED
    BY <2>1, <2>2 DEF Written
<1>2. CASE ~\E p \in P : proc[p].sid = s
  BY <1>2 DEF Written
<1> QED
  BY <1>1, <1>2

LEMMA CrashStep ==
  ASSUME Inv, Crash
  PROVE  Inv'
<1>1. Typed
  BY DEF Inv
<1>2. \A s \in Sessions : Written(s)
  BY <1>1, CrashWrites
<1>3. \A s \in Sessions : file'[s] \in FileType
  BY <1>2, FileStep
<1>4. /\ boot' = file' /\ proc' = [p \in Procs |-> Idle] /\ run' = "scanning" /\ todo' = Sessions
      /\ outcome' = [s \in Sessions |-> None] /\ reports' = {} /\ replays' = NoReplays
      /\ store' = [s \in Sessions |-> None]
  BY DEF Crash
<1>5. file' \in [Sessions -> FileType]
  <2>1. file' = [s \in Sessions |-> file'[s]]
    BY DEF Crash
  <2> QED
    BY <1>3, <2>1
<1>6. Idle \in ProcType /\ Idle.pc = "idle"
  BY DEF Idle, ProcType
<1>7. /\ proc' \in [Procs -> ProcType] /\ \A p \in Procs : proc'[p].pc = "idle"
      /\ Scanner \in Procs
  BY <1>4, <1>6 DEF Procs
<1>8. Typed'
  <2>1. replays' \in [Sessions -> [Positions -> Nat]]
    BY <1>4 DEF NoReplays
  <2>2. \A x \in Readers : proc'[x].pc \notin {"mark", "marking"}
    BY <1>7 DEF Procs
  <2> QED
    BY <1>4, <1>5, <1>7, <2>1, <2>2 DEF Typed
<1>9. Kept'
  BY <1>4, ContinuesItself DEF Kept
<1>10. Carried'
  BY <1>7 DEF Carried, Carries
<1>11. \A s \in Sessions : ~ScannerAt(s)'
  BY <1>7 DEF ScannerAt, Resuming
<1>12. Scanned'
  BY <1>4, <1>7, <1>11 DEF Scanned
<1>13. Reported'
  <2>1. \A s \in Sessions : Alone(s)'
    BY <1>4, <1>11 DEF Alone
  <2>2. Exact'
    <3>1. {t \in Sessions \ Hydrated' : outcome'[t] = "resumed" /\ OpenRows(boot'[t]) # {}} = {}
      BY <1>4, OutcomeAssumption
    <3> QED
      BY <1>4, <3>1 DEF Exact
  <2> QED
    BY <2>1, <2>2 DEF Reported
<1> QED
  BY <1>8, <1>9, <1>10, <1>12, <1>13 DEF Inv

LEMMA Started ==
  ASSUME Init
  PROVE  Inv
<1> PICK f \in [Sessions -> Files] : Start(f)
  BY DEF Init
<1>1. /\ file = f /\ boot = f /\ proc = [p \in Procs |-> Idle] /\ run = "scanning"
      /\ todo = Sessions /\ outcome = [s \in Sessions |-> None] /\ reports = {}
      /\ replays = NoReplays /\ store = [s \in Sessions |-> None]
  BY DEF Start
<1>2. f \in [Sessions -> FileType]
  BY FilesAssumption
<1>3. Idle \in ProcType /\ Idle.pc = "idle"
  BY DEF Idle, ProcType
<1>4. /\ proc \in [Procs -> ProcType] /\ \A p \in Procs : proc[p].pc = "idle"
      /\ Scanner \in Procs
  BY <1>1, <1>3 DEF Procs
<1>5. Typed
  <2>1. replays \in [Sessions -> [Positions -> Nat]]
    BY <1>1 DEF NoReplays
  <2>2. \A x \in Readers : proc[x].pc \notin {"mark", "marking"}
    BY <1>4 DEF Procs
  <2> QED
    BY <1>1, <1>2, <1>4, <2>1, <2>2 DEF Typed
<1>6. Kept
  BY <1>1, ContinuesItself DEF Kept
<1>7. Carried
  BY <1>4 DEF Carried, Carries
<1>8. \A s \in Sessions : ~ScannerAt(s)
  BY <1>4 DEF ScannerAt, Resuming
<1>9. Scanned
  BY <1>1, <1>4, <1>8 DEF Scanned
<1>10. Reported
  <2>1. \A s \in Sessions : Alone(s)
    BY <1>1, <1>8 DEF Alone
  <2>2. Exact
    <3>1. {t \in Sessions \ Hydrated : outcome[t] = "resumed" /\ OpenRows(boot[t]) # {}} = {}
      BY <1>1, OutcomeAssumption
    <3> QED
      BY <1>1, <3>1 DEF Exact
  <2> QED
    BY <2>1, <2>2 DEF Reported
<1> QED
  BY <1>5, <1>6, <1>7, <1>9, <1>10 DEF Inv

(* An error leaves a resume by the same way whoever runs it. *)
LEMMA FailedStep ==
  ASSUME Inv, NEW p \in Procs, ResumeReadFails(p) \/ SettleFails(p) \/ ResumeWriteFails(p)
  PROVE  Inv'
<1>1. /\ proc[p].pc \in {"read", "rows"} /\ Throw(p, "failed-resume")
      /\ UNCHANGED <<run, todo, pre, reports, boot, store, replays>>
      /\ \/ file' = file
         \/ Settled(p) /\ file' = [file EXCEPT ![proc[p].sid] = proc[p].copy]
  BY DEF ResumeReadFails, SettleFails, ResumeWriteFails, Settled
<1>2. CASE p \in Readers
  BY <1>1, <1>2, ReaderThrows
<1>3. CASE p = Scanner
  BY <1>1, <1>3, ScannerThrows
<1> QED
  BY <1>2, <1>3 DEF Procs

LEMMA Steps ==
  ASSUME Inv, [Next]_vars
  PROVE  Inv'
<1>1. ASSUME NEW s \in Sessions, ScanRead(s) \/ ScanReadFails(s)
      PROVE  Inv'
  BY <1>1, ScanReads
<1>2. CASE Progress(Scanner)
  BY <1>2, ScannerReads, ScannerSettles, ScannerWrites DEF Progress
<1>3. CASE ScanResumed
  BY <1>3, ScannerResumed
<1>4. CASE MarkRead \/ MarkWrite \/ MarkFails
  BY <1>4, ScannerMarks
<1>5. CASE ScanDone
  BY <1>5, ScannerEnds
<1>6. ASSUME NEW x \in Readers, NEW s \in Sessions, Hydrate(x, s)
      PROVE  Inv'
  BY <1>6, HydrateStep
<1>7. ASSUME NEW x \in Readers, Progress(x) \/ Register(x)
      PROVE  Inv'
  BY <1>7, ReaderReads, ReaderSettles, ReaderWrites, ReaderRegisters DEF Progress
<1>8. ASSUME NEW p \in Procs, ResumeReadFails(p) \/ SettleFails(p) \/ ResumeWriteFails(p)
      PROVE  Inv'
  BY <1>8, FailedStep
<1>9. CASE Crash
  BY <1>9, CrashStep
<1>10. CASE UNCHANGED vars
  <2>1. /\ UNCHANGED <<file, proc, run, todo, outcome, pre, reports, replays, store, boot>>
        /\ Hydrated' = Hydrated
    BY <1>10 DEF vars, Hydrated
  <2>2. Typed' /\ Kept' /\ Carried'
    BY <2>1 DEF Inv, Typed, Kept, Carried, Carries
  <2>3. Scanned'
    BY <2>1 DEF Inv, Scanned, ScannerAt, Judged
  <2>4. Reported'
    BY <2>1 DEF Inv, Reported, Exact, Alone, ScannerAt
  <2> QED
    BY <2>2, <2>3, <2>4 DEF Inv
<1> QED
  BY <1>1, <1>2, <1>3, <1>4, <1>5, <1>6, <1>7, <1>8, <1>9, <1>10 DEF Next, ScanStep

(* The inductive invariant holds in every reachable state: what the files, the scan and the
   hydrates know of each other (session/boot-scan.ts, state-route.ts, resume.ts). *)
THEOREM Inductive == Spec => []Inv
  BY Started, Steps, PTL DEF Spec

(* What the scan has established when traffic is served: the CrashEvents of the sessions
   nobody hydrates are exact, and every file was one the runner may serve. *)
THEOREM ScanIsExact == Spec => []ScanInv
<1>1. Inv => ScanInv
  <2> SUFFICES ASSUME Inv PROVE ScanInv
    OBVIOUS
  <2>1. TypeOK
    <3>1. Typed /\ Carried
      BY DEF Inv
    <3>2. \A p \in Procs : proc[p] \in ProcType
      BY <3>1 DEF Typed
    <3> QED
      BY <3>1, <3>2 DEF TypeOK, Typed, ProcType, Carried, Carries
  <2>2. CrashReported
    BY DEF Inv, Reported, Exact, CrashReported
  <2>3. ServesOnlyValid
    <3> SUFFICES ASSUME run = "serving", NEW s \in Sessions
                 PROVE  \/ boot[s].format = "ok" \/ boot[s].status \in Terminal
                        \/ outcome[s] \in {"failed-io", "failed-resume"}
      BY DEF ServesOnlyValid
    <3>1. todo = {} /\ proc[Scanner].pc = "idle" /\ outcome[s] # "failed-read"
      BY DEF Inv, Scanned
    <3>2. Judged(s)
      BY <3>1 DEF Inv, Scanned, ScannerAt, Resuming
    <3>3. outcome[s] \in {None, "resumed", "skipped-terminal", "failed-read",
                          "failed-resume", "failed-io"}
      BY DEF Inv, Typed
    <3> QED
      BY <3>1, <3>2, <3>3 DEF Judged
  <2> QED
    BY <2>1, <2>2, <2>3 DEF ScanInv
<1> QED
  BY <1>1, Inductive, PTL

(* A step writes nothing but settled copies and marks. *)
LEMMA StepWrites ==
  ASSUME Inv, [Next]_vars, NEW s \in Sessions
  PROVE  Written(s)
<1>1. Scanner \in Procs /\ file \in [Sessions -> FileType]
  BY DEF Procs, Inv, Typed
<1>2. CASE UNCHANGED file
  BY <1>2 DEF Written
<1>3. ASSUME NEW p \in Procs, ResumeWrite(p) \/ ResumeWriteFails(p)
      PROVE  Written(s)
  <2>1. Settled(p) /\ (file' = file \/ file' = [file EXCEPT ![proc[p].sid] = proc[p].copy])
    BY <1>3 DEF ResumeWrite, ResumeWriteFails
  <2>2. proc[p].sid \in Sessions
    BY <2>1 DEF Settled, Inv, Typed
  <2> QED
    BY <1>1, <2>1, <2>2 DEF Written
<1>4. CASE MarkWrite
  <2>1. /\ proc[Scanner].pc = "marking" /\ proc[Scanner].sid \in Sessions
        /\ file' = [file EXCEPT ![proc[Scanner].sid] = proc[Scanner].copy]
    BY <1>1, <1>4 DEF MarkWrite, Inv, Typed
  <2> QED
    BY <1>1, <2>1 DEF Written
<1>5. CASE Crash
  BY <1>5, CrashWrites DEF Inv
<1>6. CASE UNCHANGED vars
  BY <1>2, <1>6 DEF vars
<1>7. ASSUME NEW p \in Procs, ResumeRead(p) \/ SettleRow(p) \/ ResumeReadFails(p) \/ SettleFails(p)
      PROVE  UNCHANGED file
  BY <1>7 DEF ResumeRead, SettleRow, ResumeReadFails, SettleFails
<1>8. ASSUME NEW x \in Readers, Register(x) \/ \E t \in Sessions : Hydrate(x, t)
      PROVE  UNCHANGED file
  BY <1>8 DEF Register, Hydrate
<1>9. ASSUME \/ \E t \in Sessions : ScanRead(t) \/ ScanReadFails(t)
             \/ ScanResumed \/ MarkRead \/ MarkFails \/ ScanDone
      PROVE  UNCHANGED file
  BY <1>9 DEF ScanRead, ScanReadFails, ScanResumed, MarkRead, MarkFails, ScanDone
<1>10. Readers \subseteq Procs
  BY DEF Procs
<1> QED
  BY <1>1, <1>2, <1>3, <1>4, <1>5, <1>6, <1>7, <1>8, <1>9, <1>10 DEF Next, ScanStep, Progress

(* No overlap of the scan, hydrates and crashes takes a row out of a terminal phase. *)
THEOREM PhasesStick == Spec => TerminalPhasesStick
<1>1. Inv /\ [Next]_vars =>
        \A s \in Sessions : \A j \in DOMAIN file[s].rows :
          file[s].rows[j].phase \notin Open => file'[s].rows[j] = file[s].rows[j]
  <2> SUFFICES ASSUME Inv, [Next]_vars, NEW s \in Sessions, NEW j \in DOMAIN file[s].rows,
                      file[s].rows[j].phase \notin Open
               PROVE  file'[s].rows[j] = file[s].rows[j]
    OBVIOUS
  <2> QED
    BY StepWrites, FileStep
<1>2. Spec => [][Inv /\ Next]_vars
  BY Inductive, PTL DEF Spec
<1> QED
  BY <1>1, <1>2, PTL DEF TerminalPhasesStick
-----------------------------------------------------------------------------
(* Replays are counted by the position of the row, and a crash starts the count anew. *)
Spanned == crashes \in Nat /\ \A s \in Sessions : DOMAIN boot[s].rows \subseteq Positions

LEMMA StepSpans ==
  ASSUME Inv, Spanned, [Next]_vars
  PROVE  Spanned'
<1>1. \/ Crash
      \/ UNCHANGED <<boot, crashes>>
  BY DEF Next, ScanStep, Progress, ScanRead, ScanReadFails, ScanResumed, MarkRead, MarkWrite, MarkFails,
         ScanDone, ResumeRead, SettleRow, ResumeWrite, ResumeReadFails, SettleFails, ResumeWriteFails,
         Hydrate, Register, vars, counters
<1>2. CASE UNCHANGED <<boot, crashes>>
  BY <1>2 DEF Spanned
<1>3. CASE Crash
  <2>1. boot' = file' /\ crashes' = crashes + 1
    BY <1>3 DEF Crash
  <2>2. \A s \in Sessions : DOMAIN file'[s].rows = DOMAIN boot[s].rows
    BY StepWrites, FileStep DEF Continues
  <2> QED
    BY <2>1, <2>2 DEF Spanned
<1> QED
  BY <1>1, <1>2, <1>3

(* With it holds that every file read at a restart has its rows at the positions by which
   replays are counted. *)
THEOREM InvSpans == Spec => [](Inv /\ Spanned)
<1>1. Init => Spanned
  <2> SUFFICES ASSUME Init PROVE Spanned
    OBVIOUS
  <2> PICK f \in [Sessions -> Files] : Start(f) /\ crashes = 0
    BY DEF Init
  <2>1. boot = f
    BY DEF Start
  <2> QED
    BY <2>1 DEF Spanned, Positions
<1> QED
  BY <1>1, Started, Steps, StepSpans, PTL DEF Spec

(* What a call of replayPending is for: the row is pending in a copy that the process may
   resume; the call is counted, and no other step counts one. *)

LEMMA StepReplays ==
  ASSUME Inv, [Next]_vars
  PROVE  \/ replays' = replays
         \/ Crash /\ replays' = NoReplays
         \/ \E p \in Procs : /\ proc[p].pc = "rows"
                             /\ proc[p].i \in DOMAIN proc[p].copy.rows
                             /\ proc[p].copy.rows[proc[p].i].phase = "pending"
                             /\ replays' = [replays EXCEPT ![proc[p].sid][proc[p].i] = @ + 1]
<1>1. ASSUME NEW p \in Procs, SettleRow(p)
      PROVE  \/ replays' = replays
             \/ \E q \in Procs : /\ proc[q].pc = "rows"
                                 /\ proc[q].i \in DOMAIN proc[q].copy.rows
                                 /\ proc[q].copy.rows[proc[q].i].phase = "pending"
                                 /\ replays' = [replays EXCEPT ![proc[q].sid][proc[q].i] = @ + 1]
  <2>1. proc[p].pc = "rows" /\ proc[p].i \in DOMAIN proc[p].copy.rows
    BY <1>1, RowSettled DEF SettleRow
  <2>2. \/ replays' = replays
        \/ /\ proc[p].copy.rows[proc[p].i].phase = "pending"
           /\ replays' = [replays EXCEPT ![proc[p].sid][proc[p].i] = @ + 1]
    BY <1>1 DEF SettleRow
  <2> QED
    BY <2>1, <2>2
<1>2. CASE Crash
  BY <1>2 DEF Crash
<1>3. Scanner \in Procs /\ Readers \subseteq Procs
  BY DEF Procs
<1>4. Crash \/ (\E p \in Procs : SettleRow(p)) \/ replays' = replays
  BY <1>3 DEF Next, ScanStep, Progress, ScanRead, ScanReadFails, ScanResumed, MarkRead, MarkWrite,
         MarkFails, ScanDone, ResumeRead, ResumeWrite, ResumeReadFails, SettleFails, ResumeWriteFails,
         Hydrate, Register, vars
<1> QED
  BY <1>1, <1>2, <1>4

(* Sessions of another card or tool pool keep their rows and are never replayed. *)
THEOREM DriftKept == Spec => DriftNeverReplays
<1>1. ASSUME Inv, Spanned, [Next]_vars, NEW s \in Sessions,
             file[s].card = "drifted" \/ file[s].pool = "stale"
      PROVE  file'[s].rows = file[s].rows /\ (crashes' = crashes => replays'[s] = replays[s])
  <2>1. file'[s].rows = file[s].rows
    BY <1>1, StepWrites, FileStep
  <2>2. CASE replays' = replays
    BY <2>1, <2>2
  <2>3. CASE Crash
    <3>1. crashes' # crashes
      BY <1>1, <2>3 DEF Crash, Spanned
    <3> QED
      BY <2>1, <3>1
  <2>4. ASSUME NEW p \in Procs, proc[p].pc = "rows",
               replays' = [replays EXCEPT ![proc[p].sid][proc[p].i] = @ + 1]
        PROVE  replays'[s] = replays[s]
    <3>1. proc[p].sid # s
      <4> SUFFICES ASSUME proc[p].sid = s PROVE FALSE
        OBVIOUS
      <4>1. /\ proc[p].copy \in FileType /\ Continues(proc[p].copy, boot[s])
            /\ Verdict(proc[p].copy) = "resumed" /\ Continues(file[s], boot[s])
        BY <1>1, <2>4 DEF Inv, Carried, Carries, Kept
      <4>2. proc[p].copy.card = "served" /\ proc[p].copy.pool = "served"
        BY <4>1, FileFacts
      <4>3. file[s].card = "served" /\ file[s].pool = "served"
        BY <4>1, <4>2 DEF Continues
      <4> QED
        BY <1>1, <4>3
    <3>2. replays \in [Sessions -> [Positions -> Nat]]
      BY <1>1 DEF Inv, Typed
    <3> QED
      BY <2>4, <3>1, <3>2
  <2> QED
    BY <1>1, <2>1, <2>2, <2>3, <2>4, StepReplays
<1>2. Spec => [][Inv /\ Spanned /\ Next]_vars
  BY InvSpans, PTL DEF Spec
<1>3. Inv /\ Spanned /\ Next => \A s \in Sessions :
        file[s].card = "drifted" \/ file[s].pool = "stale" =>
          file'[s].rows = file[s].rows /\ (crashes' = crashes => replays'[s] = replays[s])
  BY <1>1
<1> QED
  BY <1>2, <1>3, PTL DEF DriftNeverReplays

(* A row that was committed at the restart is not replayed, nor is one committed since
   unless a hydrate overlaps the scan. *)

THEOREM CommittedKept == Spec => CommittedNotReplayed
<1>1. ASSUME Inv, Spanned, [Next]_vars, NEW s \in Sessions, NEW j \in DOMAIN file[s].rows,
             file[s].rows[j].phase = "committed",
             boot[s].rows[j].phase = "committed" \/ s \notin Hydrated
      PROVE  replays'[s][j] <= replays[s][j]
  <2>1. /\ replays \in [Sessions -> [Positions -> Nat]] /\ Continues(file[s], boot[s])
        /\ boot[s] \in FileType
    BY <1>1 DEF Inv, Typed, Kept
  <2>2. j \in DOMAIN boot[s].rows /\ j \in Positions /\ boot[s].rows[j] \in RowType
    BY <1>1, <2>1, FileFacts DEF Continues, Spanned
  <2>3. replays[s][j] \in Nat
    BY <2>1, <2>2
  <2>4. CASE replays' = replays
    BY <2>3, <2>4
  <2>5. CASE replays' = NoReplays
    <3>1. replays'[s][j] = 0
      BY <2>2, <2>5 DEF NoReplays
    <3> QED
      BY <2>3, <3>1
  <2>6. ASSUME NEW p \in Procs, proc[p].pc = "rows", proc[p].i \in DOMAIN proc[p].copy.rows,
               proc[p].copy.rows[proc[p].i].phase = "pending",
               replays' = [replays EXCEPT ![proc[p].sid][proc[p].i] = @ + 1]
        PROVE  replays'[s][j] = replays[s][j]
    <3>1. ~(proc[p].sid = s /\ proc[p].i = j)
      <4> SUFFICES ASSUME proc[p].sid = s, proc[p].i = j PROVE FALSE
        OBVIOUS
      <4>1. Continues(proc[p].copy, boot[s]) /\ proc[p].copy.rows[j].phase = "pending"
        BY <1>1, <2>6 DEF Inv, Carried, Carries
      <4>2. boot[s].rows[j].phase = "pending"
        BY <2>2, <4>1, RowFacts DEF Continues, Open
      <4>3. p = Scanner
        <5>1. p \notin Readers
          BY <1>1, <2>6, <4>2 DEF Hydrated
        <5> QED
          BY <5>1 DEF Procs
      <4>4. Alone(s) /\ ScannerAt(s)
        BY <1>1, <2>6, <4>2, <4>3 DEF Inv, Reported, ScannerAt, Resuming
      <4>5. file[s] = boot[s]
        BY <2>6, <4>3, <4>4 DEF Alone
      <4> QED
        BY <1>1, <4>2, <4>5
    <3> QED
      BY <2>1, <2>2, <2>6, <3>1
  <2>7. replays'[s][j] = replays[s][j] => replays'[s][j] <= replays[s][j]
    BY <2>3
  <2>8. \/ replays' = replays
        \/ replays' = NoReplays
        \/ \E p \in Procs : /\ proc[p].pc = "rows" /\ proc[p].i \in DOMAIN proc[p].copy.rows
                            /\ proc[p].copy.rows[proc[p].i].phase = "pending"
                            /\ replays' = [replays EXCEPT ![proc[p].sid][proc[p].i] = @ + 1]
    BY <1>1, StepReplays
  <2> QED
    BY <2>4, <2>5, <2>6, <2>7, <2>8
<1>2. Spec => [][Inv /\ Spanned /\ Next]_vars
  BY InvSpans, PTL DEF Spec
<1>3. Inv /\ Spanned /\ Next => \A s \in Sessions : \A j \in DOMAIN file[s].rows :
        /\ file[s].rows[j].phase = "committed"
        /\ boot[s].rows[j].phase = "committed" \/ s \notin Hydrated
        => replays'[s][j] <= replays[s][j]
  BY <1>1
<1> QED
  BY <1>2, <1>3, PTL DEF CommittedNotReplayed

(* Both together: no side effect is replayed that must not be. *)
THEOREM OnlyAllowedReplays == Spec => ReplaysAllowed
  BY DriftKept, CommittedKept DEF ReplaysAllowed
-----------------------------------------------------------------------------
(* Start-up: numbers, recursive definitions and lists of checks.           *)

(* The least of a set of numbers, and induction for sets of numbers. *)
LEMMA LeastOf ==
  ASSUME NEW S \in SUBSET Nat, S # {}
  PROVE  \E m \in S : \A k \in S : m <= k
<1> DEFINE Less == OpToRel(<, Nat)
<1>1. IsWellFoundedOn(Less, Nat)
  BY NatLessThanWellFounded
<1>2. \A m, n \in Nat : m < n => <<m, n>> \in Less
  BY DEF OpToRel
<1> HIDE DEF Less
<1>3. PICK m \in S : \A k \in S : ~(<<k, m>> \in Less)
  BY <1>1, WFMin
<1>4. ASSUME NEW k \in S PROVE m <= k
  <2>1. ~(k < m)
    BY <1>2, <1>3
  <2> QED
    BY <2>1
<1> QED
  BY <1>4

LEMMA CountUp ==
  ASSUME NEW S \in SUBSET Nat, 0 \in S, \A n \in S : n + 1 \in S
  PROVE  S = Nat
<1>1. ASSUME Nat \ S # {} PROVE FALSE
  <2>1. PICK m \in Nat \ S : \A k \in Nat \ S : m <= k
    BY <1>1, LeastOf
  <2>2. m # 0 /\ m - 1 \in Nat /\ (m - 1) + 1 = m /\ ~(m <= m - 1)
    BY <2>1
  <2>3. m - 1 \in S
    BY <2>1, <2>2
  <2> QED
    BY <2>1, <2>2, <2>3
<1> QED
  BY <1>1
-----------------------------------------------------------------------------
(* A list of checks answers ok when every check does. *)
LEMMA AllOk ==
  ASSUME NEW answers, NEW n \in Nat, DOMAIN answers = 1 .. n, FirstBad(answers) = "ok"
  PROVE  \A i \in 1 .. n : answers[i] = "ok"
<1> DEFINE bad == {i \in DOMAIN answers : answers[i] # "ok"}
<1>1. ASSUME bad # {} PROVE FALSE
  <2>1. PICK m \in bad : \A k \in bad : m <= k
    <3>1. bad \in SUBSET Nat
      OBVIOUS
    <3> HIDE DEF bad
    <3> QED
      BY <1>1, <3>1, LeastOf
  <2>2. PICK i \in bad : i = CHOOSE j \in bad : \A k \in bad : j <= k
    BY <2>1
  <2>3. FirstBad(answers) = answers[i]
    BY <1>1, <2>2 DEF FirstBad
  <2> QED
    BY <2>2, <2>3
<1> QED
  BY <1>1

LEMMA TwoOk ==
  ASSUME NEW a, NEW b, FirstBad(<<a, b>>) = "ok"
  PROVE  a = "ok" /\ b = "ok"
<1> DEFINE r == <<a, b>>
<1>1. DOMAIN r = 1 .. 2 /\ r[1] = a /\ r[2] = b
  OBVIOUS
<1> HIDE DEF r
<1>2. FirstBad(r) = "ok"
  BY DEF r
<1>3. \A i \in 1 .. 2 : r[i] = "ok"
  BY <1>1, <1>2, AllOk
<1> QED
  BY <1>1, <1>3

LEMMA ThreeOk ==
  ASSUME NEW a, NEW b, NEW c, FirstBad(<<a, b, c>>) = "ok"
  PROVE  a = "ok" /\ b = "ok" /\ c = "ok"
<1> DEFINE r == <<a, b, c>>
<1>1. DOMAIN r = 1 .. 3 /\ r[1] = a /\ r[2] = b /\ r[3] = c
  OBVIOUS
<1> HIDE DEF r
<1>2. FirstBad(r) = "ok"
  BY DEF r
<1>3. \A i \in 1 .. 3 : r[i] = "ok"
  BY <1>1, <1>2, AllOk
<1> QED
  BY <1>1, <1>3

LEMMA FiveOk ==
  ASSUME NEW a, NEW b, NEW c, NEW d, NEW e, FirstBad(<<a, b, c, d, e>>) = "ok"
  PROVE  a = "ok" /\ b = "ok" /\ c = "ok" /\ d = "ok" /\ e = "ok"
<1> DEFINE r == <<a, b, c, d, e>>
<1>1. DOMAIN r = 1 .. 5 /\ r[1] = a /\ r[2] = b /\ r[3] = c /\ r[4] = d /\ r[5] = e
  OBVIOUS
<1> HIDE DEF r
<1>2. FirstBad(r) = "ok"
  BY DEF r
<1>3. \A i \in 1 .. 5 : r[i] = "ok"
  BY <1>1, <1>2, AllOk
<1> QED
  BY <1>1, <1>3

LEMMA SixOk ==
  ASSUME NEW a, NEW b, NEW c, NEW d, NEW e, NEW f, FirstBad(<<a, b, c, d, e, f>>) = "ok"
  PROVE  a = "ok" /\ b = "ok" /\ c = "ok" /\ d = "ok" /\ e = "ok" /\ f = "ok"
<1> DEFINE r == <<a, b, c, d, e, f>>
<1>1. DOMAIN r = 1 .. 6 /\ r[1] = a /\ r[2] = b /\ r[3] = c /\ r[4] = d /\ r[5] = e /\ r[6] = f
  OBVIOUS
<1> HIDE DEF r
<1>2. FirstBad(r) = "ok"
  BY DEF r
<1>3. \A i \in 1 .. 6 : r[i] = "ok"
  BY <1>1, <1>2, AllOk
<1> QED
  BY <1>1, <1>3

(* A configuration that is not refused passed each of the fourteen checks. *)
LEMMA Passed ==
  ASSUME NEW c, Refusal(c) = "ok"
  PROVE  /\ BearerRefusal(c) = "ok" /\ EarlyRefusal(c) = "ok" /\ TrustRefusal(c) = "ok"
         /\ SplitBrainRefusal(c) = "ok" /\ JwsRefusal(c) = "ok" /\ RegistryRefusal(c) = "ok"
         /\ LateRefusal(c) = "ok" /\ AdapterRefusal(c) = "ok"
<1> DEFINE r == <<BearerRefusal(c), EarlyRefusal(c), AgentsRefusal(c), ClockRefusal(c),
                  TrustRefusal(c), SplitBrainRefusal(c), KeyRefusal(c), CardRefusal(c),
                  DanglingRefusal(c), HandlerPemRefusal(c), JwsRefusal(c), RegistryRefusal(c),
                  LateRefusal(c), AdapterRefusal(c)>>
<1>1. /\ DOMAIN r = 1 .. 14 /\ r[1] = BearerRefusal(c) /\ r[2] = EarlyRefusal(c)
      /\ r[5] = TrustRefusal(c) /\ r[6] = SplitBrainRefusal(c) /\ r[11] = JwsRefusal(c)
      /\ r[12] = RegistryRefusal(c) /\ r[13] = LateRefusal(c) /\ r[14] = AdapterRefusal(c)
  OBVIOUS
<1>2. FirstBad(r) = "ok"
  BY DEF Refusal
<1> HIDE DEF r
<1>3. \A i \in 1 .. 14 : r[i] = "ok"
  BY <1>1, <1>2, AllOk
<1> QED
  BY <1>1, <1>3

(* What a configuration that is not refused is like. *)
LEMMA Vetted ==
  ASSUME NEW c \in Configs, Refusal(c) = "ok"
  PROVE  /\ Public(c) =>
              /\ \A h \in DOMAIN c.hooks \ {"clock", "overlap"} : c.hooks[h] # "ok"
              /\ ~c.dynamic /\ c.agents = "unset" /\ ~c.watch
              /\ c.channel # "dnssec" /\ ~(c.tls /\ c.bearer)
         /\ c.pinned \in {"none", c.trust.kid}
         /\ c.channel = "dnssec" => c.trust.ad
         /\ c.secondary.state = "ok" => c.secondary.kid \in {c.trust.kid, c.trust.successor}
         /\ c.jws = "ok" => \E a \in Range(c.anchors) : a \in c.chain
         /\ c.adapter \in {"none", "confirmed"}
<1>1. Public(c) => ~(c.tls /\ c.bearer)
  BY Passed DEF BearerRefusal, Fails
<1>2. Public(c) => EarlyHooks(c) = {}
  <2> DEFINE x == Fails(c.hooks["poll-tick"] = "bad", "env-malformed")
             y == Fails(EarlyHooks(c) # {} /\ Public(c), "hook-on-public-listener")
  <2>1. FirstBad(<<x, y>>) = "ok"
    BY Passed DEF EarlyRefusal
  <2> HIDE DEF x, y
  <2>2. y = "ok"
    BY <2>1, TwoOk
  <2> QED
    BY <2>2 DEF y, Fails
<1>3. EarlyHooks(c) = {} =>
        /\ \A h \in {"sink-mode", "markers", "crash-after", "handler", "poll-tick", "sink-failure"} :
             c.hooks[h] # "ok"
        /\ c.channel # "dnssec" /\ ~c.watch /\ ~c.dynamic /\ c.agents = "unset"
  BY DEF EarlyHooks, HandlerHooks, BootstrapHooks
<1>4. Public(c) => \A h \in {"consolidation", "cache-hit", "retention"} : c.hooks[h] # "ok"
  <2> DEFINE x == Fails(c.hooks["overlap"] = "bad", "overlap-malformed")
             y == Fails(\E h \in {"consolidation", "cache-hit", "retention", "sink-failure"} :
                          c.hooks[h] = "bad", "env-malformed")
             z == Fails(Public(c) /\ \E h \in {"consolidation", "cache-hit", "retention"} :
                          c.hooks[h] = "ok", "hook-on-public-listener")
  <2>1. FirstBad(<<x, y, z>>) = "ok"
    BY Passed DEF LateRefusal
  <2> HIDE DEF x, y, z
  <2>2. z = "ok"
    BY <2>1, ThreeOk
  <2> QED
    BY <2>2 DEF z, Fails
<1>5. Public(c) => \A h \in DOMAIN c.hooks \ {"clock", "overlap"} : c.hooks[h] # "ok"
  BY <1>2, <1>3, <1>4, ConfigAssumption DEF Hooks
<1>6. (c.pinned = "none" \/ c.trust.kid = c.pinned) /\ (c.channel = "dnssec" => c.trust.ad)
  <2>1. CASE c.channel = "dnssec"
    <3> DEFINE u == Fails(c.trust.state = "missing", "bootstrap-missing")
               v == Fails(c.trust.state = "not-json", "bootstrap-malformed")
               w == Fails(c.trust.state = "empty", "bootstrap-missing")
               x == Fails(~c.trust.ad, "bootstrap-missing")
               y == Fails(c.trust.state = "bad-schema", "bootstrap-malformed")
               z == Fails(c.pinned # "none" /\ c.trust.kid # c.pinned, "bootstrap-missing")
    <3>1. FirstBad(<<u, v, w, x, y, z>>) = "ok"
      BY <2>1, Passed DEF TrustRefusal, DnssecTrustRefusal
    <3> HIDE DEF u, v, w, x, y, z
    <3>2. x = "ok" /\ z = "ok"
      BY <3>1, SixOk
    <3> QED
      BY <3>2 DEF x, z, Fails
  <2>2. CASE c.channel # "dnssec"
    <3> DEFINE v == Fails(c.trust.state = "missing", "bootstrap-missing")
               w == Fails(c.trust.state \in {"bom", "not-json", "bad-expiry"}, "bootstrap-malformed")
               x == Fails(c.trust.state = "bad-schema", "bootstrap-invalid-schema")
               y == Fails(c.trust.state = "expired", "bootstrap-expired")
               z == Fails(c.pinned # "none" /\ c.trust.kid # c.pinned, "bootstrap-missing")
    <3>1. FirstBad(<<v, w, x, y, z>>) = "ok"
      BY <2>2, Passed DEF TrustRefusal, FileTrustRefusal
    <3> HIDE DEF v, w, x, y, z
    <3>2. z = "ok"
      BY <3>1, FiveOk
    <3> QED
      BY <2>2, <3>2 DEF z, Fails
  <2> QED
    BY <2>1, <2>2
<1>8. c.secondary.state = "ok" => c.secondary.kid \in {c.trust.kid, c.trust.successor}
  <2> DEFINE agrees == \/ c.secondary.kid = c.trust.kid /\ c.secondary.spki = c.trust.spki
                       \/ c.trust.successor # "none" /\ c.secondary.kid = c.trust.successor
             x == Fails(c.secondary.state = "missing", "bootstrap-missing")
             y == Fails(c.secondary.state = "not-json", "bootstrap-malformed")
             z == Fails(c.secondary.state = "ok" /\ ~agrees, "bootstrap-split-brain")
  <2>1. FirstBad(<<x, y, z>>) = "ok"
    BY Passed DEF SplitBrainRefusal
  <2> HIDE DEF x, y, z
  <2>2. z = "ok"
    BY <2>1, ThreeOk
  <2> QED
    BY <2>2 DEF z, Fails
<1>9. c.jws = "ok" => \E a \in Range(c.anchors) : a \in c.chain
  <2> DEFINE x == Fails(c.jws \in {"malformed", "bad-header", "bad-typ", "bad-alg", "no-kid",
                                "no-x5c", "bad-cert", "bad-signature"}, "card-signature")
             y == Fails(c.jws = "ok" /\ c.chain \cap Range(c.anchors) = {}, "card-signature")
  <2>1. FirstBad(<<x, y>>) = "ok"
    BY Passed DEF JwsRefusal
  <2> HIDE DEF x, y
  <2>2. y = "ok"
    BY <2>1, TwoOk
  <2> QED
    BY <2>2 DEF y, Fails
<1>10. c.adapter \in {"none", "confirmed"}
  <2>1. AdapterRefusal(c) = "ok"
    BY Passed
  <2>2. c.adapter \notin {"other", "unconfirmed"}
    BY <2>1 DEF AdapterRefusal, Fails
  <2> QED
    BY <2>2, ConfigAssumption
<1> QED
  BY <1>1, <1>2, <1>3, <1>5, <1>6, <1>8, <1>9, <1>10

(* Two sequences of values that start alike and go on alike are alike. *)
LEMMA Agree ==
  ASSUME NEW f, NEW g, NEW m \in Nat, f[0] = g[0],
         \A k \in 0 .. m - 1 : f[k] = g[k] => f[k + 1] = g[k + 1]
  PROVE  \A k \in 0 .. m : f[k] = g[k]
<1> DEFINE S == {k \in Nat : k <= m => f[k] = g[k]}
<1>1. 0 \in S
  OBVIOUS
<1>2. ASSUME NEW k \in S PROVE k + 1 \in S
  <2>1. k + 1 <= m => k \in 0 .. m - 1 /\ f[k] = g[k]
    BY <1>2
  <2> QED
    BY <2>1
<1>3. S = Nat
  <2> HIDE DEF S
  <2>1. S \in SUBSET Nat
    BY DEF S
  <2> QED
    BY <1>1, <1>2, <2>1, CountUp
<1> QED
  BY <1>3

(* A value for each number up to m, each made from the one before. *)
StepOf(step, S, m) == step \in [S -> [1 .. m -> S]]
Chain(f, S, base, m, step) ==
  /\ f \in [0 .. m -> S] /\ f[0] = base
  /\ \A k \in 1 .. m : f[k] = step[f[k - 1]][k]

LEMMA Recursion ==
  ASSUME NEW S, NEW base \in S, NEW m \in Nat, NEW step, StepOf(step, S, m)
  PROVE  \E f : Chain(f, S, base, m, step)
<1>0. step \in [S -> [1 .. m -> S]]
  BY DEF StepOf
<1> DEFINE Upto(f, n) == /\ f \in [0 .. m -> S] /\ f[0] = base
                         /\ \A k \in 1 .. n : f[k] = step[f[k - 1]][k]
           N == {n \in Nat : n <= m => \E f : Upto(f, n)}
<1>1. 0 \in N
  <2>1. Upto([k \in 0 .. m |-> base], 0)
    OBVIOUS
  <2> QED
    BY <2>1
<1>2. ASSUME NEW n \in N PROVE n + 1 \in N
  <2>1. ASSUME n + 1 <= m PROVE \E f : Upto(f, n + 1)
    <3>0. n \in Nat /\ (n <= m => \E f : Upto(f, n))
      BY <1>2
    <3>1. PICK f : Upto(f, n)
      <4> HIDE DEF Upto
      <4>1. n <= m
        BY <2>1, <3>0
      <4> QED
        BY <3>0, <4>1
    <3> DEFINE g == [f EXCEPT ![n + 1] = step[f[n]][n + 1]]
    <3>2. n \in 0 .. m /\ n + 1 \in 1 .. m /\ n + 1 \in 0 .. m /\ f[n] \in S
      BY <2>1, <3>0, <3>1
    <3>3. step[f[n]][n + 1] \in S
      BY <1>0, <3>2
    <3>4. g \in [0 .. m -> S] /\ g[0] = base
      <4>1. f \in [0 .. m -> S] /\ f[0] = base /\ 0 # n + 1 /\ 0 \in 0 .. m
        BY <3>0, <3>1
      <4> QED
        BY <3>2, <3>3, <4>1
    <3>5. ASSUME NEW k \in 1 .. n + 1 PROVE g[k] = step[g[k - 1]][k]
      <4>1. k \in 0 .. m /\ k - 1 \in 0 .. m /\ k - 1 # n + 1
        BY <2>1, <3>0
      <4>2. g[k - 1] = f[k - 1]
        BY <3>1, <4>1
      <4>3. CASE k = n + 1
        BY <3>1, <3>2, <4>2, <4>3
      <4>4. CASE k # n + 1
        <5>1. k \in 1 .. n /\ g[k] = f[k]
          BY <3>1, <4>1, <4>4
        <5> QED
          BY <3>1, <4>2, <5>1
      <4> QED
        BY <4>3, <4>4
    <3> HIDE DEF g
    <3> QED
      BY <3>4, <3>5
  <2> HIDE DEF Upto
  <2> QED
    BY <2>1
<1>3. N = Nat
  <2> HIDE DEF N
  <2>1. N \in SUBSET Nat
    BY DEF N
  <2> QED
    BY <1>1, <1>2, <2>1, CountUp
<1>4. PICK f : Upto(f, m)
  <2> HIDE DEF Upto
  <2>1. m \in N
    BY <1>3
  <2> QED
    BY <2>1
<1> QED
  BY <1>4 DEF Chain
-----------------------------------------------------------------------------
(* The ring of the log, row by row. *)
LEMMA PushTyped ==
  ASSUME NEW X, NEW ring \in Seq(X), NEW row \in X, Len(ring) <= LogCap
  PROVE  Push(ring, row) \in Seq(X) /\ Len(Push(ring, row)) <= LogCap
BY StartAssumption DEF Push

LEMMA PushKeeps ==
  ASSUME NEW X, NEW ring \in Seq(X), NEW row \in X, Len(ring) <= LogCap
  PROVE  /\ row \in Range(Push(ring, row))
         /\ \A r : r \in Range(ring) \/ Len(ring) = LogCap =>
                   r \in Range(Push(ring, row)) \/ Len(Push(ring, row)) = LogCap
<1> DEFINE new == Push(ring, row)
<1>1. CASE Len(ring) = LogCap
  <2>1. Len(new) = LogCap /\ new[LogCap] = row /\ LogCap \in DOMAIN new
    BY <1>1, StartAssumption DEF Push
  <2> HIDE DEF new
  <2>2. row \in Range(new)
    BY <2>1 DEF Range
  <2> QED
    BY <2>1, <2>2 DEF new
<1>2. CASE Len(ring) # LogCap
  <2>1. new = Append(ring, row)
    BY <1>2 DEF Push
  <2>2. /\ DOMAIN new = 1 .. Len(ring) + 1 /\ new[Len(ring) + 1] = row
        /\ DOMAIN ring = 1 .. Len(ring) /\ \A i \in 1 .. Len(ring) : new[i] = ring[i]
    BY <2>1
  <2> HIDE DEF new
  <2>3. \A r : r \in Range(ring) => r \in Range(new)
    BY <2>2 DEF Range
  <2>4. row \in Range(new)
    BY <2>2 DEF Range
  <2> QED
    BY <1>2, <2>3, <2>4 DEF new
<1> QED
  BY <1>1, <1>2

(* A recursive definition has a value at every length: the ring of a list of rows. *)
LEMMA RingOf ==
  ASSUME NEW X, NEW list \in Seq(X)
  PROVE  \E ring \in [0 .. Len(list) -> {s \in Seq(X) : Len(s) <= LogCap}] :
           /\ ring[0] = <<>> /\ PushAll(list) = ring[Len(list)]
           /\ \A n \in 1 .. Len(list) : ring[n] = Push(ring[n - 1], list[n])
<1> DEFINE m == Len(list)
           S == {s \in Seq(X) : Len(s) <= LogCap}
           step == [s \in S |-> [n \in 1 .. m |-> Push(s, list[n])]]
           Body(f) == [n \in 0 .. m |-> IF n = 0 THEN <<>> ELSE Push(f[n - 1], list[n])]
<1>1. m \in Nat /\ <<>> \in S
  BY StartAssumption
<1>2. step \in [S -> [1 .. m -> S]]
  <2>1. ASSUME NEW s \in S, NEW n \in 1 .. m PROVE Push(s, list[n]) \in S
    BY PushTyped
  <2> QED
    BY <2>1
<1>3. PICK f \in [0 .. m -> S] : f[0] = <<>> /\ \A k \in 1 .. m : f[k] = step[f[k - 1]][k]
  <2> DEFINE b == <<>>
  <2>1. b \in S
    BY <1>1
  <2> HIDE DEF m, S, step, b
  <2>2. StepOf(step, S, m)
    BY <1>2 DEF StepOf
  <2>3. \E f : Chain(f, S, b, m, step)
    BY <1>1, <2>1, <2>2, Recursion
  <2> QED
    BY <2>3 DEF b, Chain
<1>4. \A k \in 1 .. m : f[k] = Push(f[k - 1], list[k])
  <2>1. ASSUME NEW k \in 1 .. m PROVE step[f[k - 1]][k] = Push(f[k - 1], list[k])
    <3>1. k - 1 \in 0 .. m /\ f[k - 1] \in S
      BY <1>1
    <3> QED
      BY <3>1
  <2> QED
    BY <1>3, <2>1
<1> HIDE DEF S, step
<1>5. f = Body(f)
  <2>1. ASSUME NEW k \in 0 .. m PROVE f[k] = Body(f)[k]
    <3>1. k = 0 \/ k \in 1 .. m
      BY <1>1
    <3> QED
      BY <1>3, <1>4, <3>1
  <2> QED
    BY <2>1
<1> DEFINE g == CHOOSE g : g = Body(g)
<1>6. g = Body(g)
  BY <1>5
<1>7. PushAll(list) = g[m]
  BY DEF PushAll
<1> HIDE DEF g
<1>8. g[0] = <<>>
  BY <1>1, <1>6
<1>9. \A k \in 1 .. m : g[k] = Push(g[k - 1], list[k])
  BY <1>1, <1>6
<1>10. \A k \in 0 .. m : f[k] = g[k]
  <2>1. \A k \in 0 .. m - 1 : f[k] = g[k] => f[k + 1] = g[k + 1]
    <3>1. \A k \in 0 .. m - 1 : k + 1 \in 1 .. m /\ (k + 1) - 1 = k
      BY <1>1
    <3> QED
      BY <1>4, <1>9, <3>1
  <2>2. f[0] = g[0]
    BY <1>3, <1>8
  <2> HIDE DEF m
  <2> QED
    BY <1>1, <2>1, <2>2, Agree
<1>11. g \in [0 .. m -> S]
  BY <1>6, <1>10
<1> QED
  BY <1>7, <1>8, <1>9, <1>11 DEF S
-----------------------------------------------------------------------------
LogKinds == {"precedence", "agents-md", "crl-refresh-complete", "bootstrap-revoked",
             "retention-sweep-ran"}

(* The ring keeps to the rows of the list, and lacks one of them only when it is full. *)
LEMMA PushAllKeeps ==
  ASSUME NEW X, NEW list \in Seq(X)
  PROVE  /\ PushAll(list) \in Seq(X) /\ Len(PushAll(list)) <= LogCap
         /\ \A r \in Range(list) : r \in Range(PushAll(list)) \/ Len(PushAll(list)) = LogCap
<1> DEFINE m == Len(list)
           S == {s \in Seq(X) : Len(s) <= LogCap}
           Holds(ring, r) == r \in Range(ring) \/ Len(ring) = LogCap
<1>0. m \in Nat
  OBVIOUS
<1>1. PICK ring \in [0 .. m -> S] :
        /\ ring[0] = <<>> /\ PushAll(list) = ring[m]
        /\ \A n \in 1 .. m : ring[n] = Push(ring[n - 1], list[n])
  BY RingOf
<1>2. PushAll(list) \in S
  BY <1>0, <1>1
<1> DEFINE N == {n \in Nat : n <= m => \A i \in 1 .. n : Holds(ring[n], list[i])}
<1>3. 0 \in N
  OBVIOUS
<1>4. ASSUME NEW n \in N PROVE n + 1 \in N
  <2>1. ASSUME n + 1 <= m PROVE \A i \in 1 .. n + 1 : Holds(ring[n + 1], list[i])
    <3>0. n \in Nat /\ n \in 0 .. m /\ n + 1 \in 1 .. m /\ (n + 1) - 1 = n
      BY <1>0, <2>1
    <3>1. /\ ring[n] \in Seq(X) /\ Len(ring[n]) <= LogCap /\ list[n + 1] \in X
          /\ ring[n + 1] = Push(ring[n], list[n + 1])
      BY <1>1, <3>0
    <3>2. /\ list[n + 1] \in Range(ring[n + 1])
          /\ \A r : Holds(ring[n], r) => Holds(ring[n + 1], r)
      BY <3>1, PushKeeps
    <3>3. \A i \in 1 .. n : Holds(ring[n], list[i])
      BY <1>4, <2>1, <3>0
    <3> HIDE DEF Holds, m, S, N
    <3>4. Holds(ring[n + 1], list[n + 1])
      BY <3>2 DEF Holds
    <3>5. \A i \in 1 .. n + 1 : i \in 1 .. n \/ i = n + 1
      BY <3>0
    <3> QED
      BY <3>2, <3>3, <3>4, <3>5
  <2> HIDE DEF Holds
  <2> QED
    BY <2>1
<1>5. N = Nat
  <2> HIDE DEF N
  <2>1. N \in SUBSET Nat
    BY DEF N
  <2> QED
    BY <1>3, <1>4, <2>1, CountUp
<1>6. \A i \in 1 .. m : Holds(PushAll(list), list[i])
  <2> HIDE DEF Holds
  <2>1. m \in N
    BY <1>0, <1>5
  <2> QED
    BY <1>0, <1>1, <2>1
<1>7. ASSUME NEW r \in Range(list) PROVE Holds(PushAll(list), r)
  <2>1. PICK i \in 1 .. m : r = list[i]
    BY DEF Range
  <2> HIDE DEF Holds
  <2> QED
    BY <1>6, <2>1
<1> QED
  BY <1>2, <1>7

(* The rows of a launch name each setting the process is refused for. *)
LEMMA LaunchRowsName ==
  ASSUME NEW c
  PROVE  /\ LaunchRows(c) \in Seq(LogKinds \ {"bootstrap-revoked"})
         /\ \A r \in RefusedFor(c) : r \in Range(LaunchRows(c))
<1> DEFINE v == PrecedenceViolations(c)
           n == Cardinality(v)
           x == [i \in 1 .. n |-> "precedence"]
           y == IF AgentsInvalid(c) THEN <<"agents-md">> ELSE <<>>
           z == <<"crl-refresh-complete">>
           K == LogKinds \ {"bootstrap-revoked"}
<1>1. IsFiniteSet(v)
  <2> DEFINE T == {"agent-type-activeMode", "denylist-tool-requirement",
                   "tool-requirement-loosens-default"}
  <2>1. v \in SUBSET T
    BY DEF PrecedenceViolations
  <2>2. IsFiniteSet({"agent-type-activeMode"})
    BY FS_Singleton
  <2>3. IsFiniteSet(T)
    <3>1. IsFiniteSet({"agent-type-activeMode"} \cup {"denylist-tool-requirement"})
      BY <2>2, FS_AddElement
    <3>2. IsFiniteSet(({"agent-type-activeMode"} \cup {"denylist-tool-requirement"})
                      \cup {"tool-requirement-loosens-default"})
      BY <3>1, FS_AddElement
    <3>3. T = ({"agent-type-activeMode"} \cup {"denylist-tool-requirement"})
              \cup {"tool-requirement-loosens-default"}
      OBVIOUS
    <3> QED
      BY <3>2, <3>3
  <2> HIDE DEF T, v
  <2> QED
    BY <2>1, <2>3, FS_Subset
<1>2. n \in Nat /\ (v # {} => n # 0)
  <2> HIDE DEF v
  <2> QED
    BY <1>1, FS_CardinalityType, FS_EmptySet
<1> HIDE DEF v, n
<1>3. x \in Seq(K) /\ y \in Seq(K) /\ z \in Seq(K)
  <2>1. "precedence" \in K /\ "agents-md" \in K /\ "crl-refresh-complete" \in K
    BY DEF LogKinds
  <2> HIDE DEF K
  <2>2. x \in Seq(K)
    BY <1>2, <2>1
  <2>3. y \in Seq(K)
    BY <2>1
  <2>4. z \in Seq(K)
    BY <2>1
  <2> QED
    BY <2>2, <2>3, <2>4
<1>4. LaunchRows(c) = x \o y \o z
  BY DEF LaunchRows, n, v
<1>5. RefusedFor(c) = {"precedence" : axis \in v} \cup (IF AgentsInvalid(c) THEN {"agents-md"} ELSE {})
  BY DEF RefusedFor, v
<1>6. v # {} => Len(x) # 0 /\ x[1] = "precedence" /\ 1 \in 1 .. Len(x)
  BY <1>2
<1>7. AgentsInvalid(c) => Len(y) = 1 /\ y[1] = "agents-md"
  OBVIOUS
<1>8. ASSUME NEW r \in RefusedFor(c)
      PROVE  (v # {} /\ r = "precedence") \/ (AgentsInvalid(c) /\ r = "agents-md")
  BY <1>5
<1> HIDE DEF x, y, z, K
<1>9. LaunchRows(c) \in Seq(K)
  BY <1>3, <1>4
<1> DEFINE l == LaunchRows(c)
<1>10. /\ DOMAIN l = 1 .. Len(x) + Len(y) + Len(z) /\ {Len(x), Len(y), Len(z)} \subseteq Nat
       /\ \A i \in 1 .. Len(x) : l[i] = x[i]
       /\ \A i \in 1 .. Len(y) : l[Len(x) + i] = y[i]
  BY <1>3, <1>4
<1> HIDE DEF l
<1>11. ASSUME NEW r \in RefusedFor(c) PROVE r \in Range(l)
  <2>1. CASE v # {} /\ r = "precedence"
    <3>1. 1 \in DOMAIN l /\ l[1] = r
      BY <1>6, <1>10, <2>1
    <3> QED
      BY <3>1 DEF Range
  <2>2. CASE AgentsInvalid(c) /\ r = "agents-md"
    <3>1. Len(x) + 1 \in DOMAIN l /\ l[Len(x) + 1] = r
      BY <1>7, <1>10, <2>2
    <3> QED
      BY <3>1 DEF Range
  <2> QED
    BY <1>8, <2>1, <2>2
<1> QED
  BY <1>9, <1>11 DEF K, l
-----------------------------------------------------------------------------
(* A sound pool: entries well formed and classified, one to a name, and a denied name
   only from a batch. *)
Sound(tools, c) ==
  /\ \A t \in tools : WellFormed(t) /\ Classified(t)
  /\ \A t, u \in tools : t.name = u.name => t = u
  /\ \A t \in tools : t.name \in Denied(c) => t.source = "mcp-dynamic"

LEMMA RegisteredIs ==
  ASSUME NEW t, NEW s
  PROVE  /\ Registered(t, s).name = t.name /\ Registered(t, s).source = s
         /\ WellFormed(Registered(t, s)) <=> WellFormed(t)
         /\ Classified(Registered(t, s)) <=> Classified(t)
BY DEF Registered, WellFormed, Classified

LEMMA AddKeepsSound ==
  ASSUME NEW c, NEW tools, Sound(tools, c), NEW t
  PROVE  Sound(AddDynamic(tools, t), c)
<1> DEFINE new == Registered(t, "mcp-dynamic")
<1>1. CASE WellFormed(t) /\ Classified(t) /\ \A u \in tools : u.name # t.name
  <2>1. AddDynamic(tools, t) = tools \cup {new}
    BY <1>1 DEF AddDynamic
  <2>2. new.name = t.name /\ new.source = "mcp-dynamic" /\ WellFormed(new) /\ Classified(new)
    BY <1>1, RegisteredIs
  <2> HIDE DEF new
  <2> QED
    BY <1>1, <2>1, <2>2 DEF Sound
<1>2. CASE ~(WellFormed(t) /\ Classified(t) /\ \A u \in tools : u.name # t.name)
  BY <1>2 DEF AddDynamic
<1> QED
  BY <1>1, <1>2

(* The pool of a launch is sound: main() refuses the tools files that are not. *)
LEMMA LaunchSound ==
  ASSUME NEW c \in Configs, Refusal(c) = "ok"
  PROVE  Sound({Registered(t, "static-fixture") : t \in LoadedTools(c)}, c)
<1> DEFINE x == Fails(\E t \in LoadedTools(c) : ~WellFormed(t), "tools-malformed")
           y == Fails(\E i, j \in Loaded(c) : i # j /\ c.tools[i].name = c.tools[j].name,
                      "tools-malformed")
           z == Fails(\E t \in LoadedTools(c) : ~Classified(t), "tool-pool-stale")
<1>1. x = "ok" /\ y = "ok" /\ z = "ok"
  <2>1. FirstBad(<<x, y, z>>) = "ok"
    BY Passed DEF RegistryRefusal
  <2> HIDE DEF x, y, z
  <2> QED
    BY <2>1, ThreeOk
<1>2. \A t \in LoadedTools(c) : WellFormed(t) /\ Classified(t)
  BY <1>1 DEF Fails
<1>3. \A i, j \in Loaded(c) : c.tools[i].name = c.tools[j].name => i = j
  BY <1>1 DEF Fails
<1>4. \A t, u \in LoadedTools(c) : t.name = u.name => t = u
  BY <1>3 DEF LoadedTools
<1>5. \A t \in LoadedTools(c) : t.name \notin Denied(c)
  BY DEF LoadedTools, Loaded
<1> DEFINE R(t) == Registered(t, "static-fixture")
<1>6. \A t : R(t).name = t.name /\ (WellFormed(R(t)) <=> WellFormed(t)) /\ (Classified(R(t)) <=> Classified(t))
  BY RegisteredIs
<1> HIDE DEF x, y, z, R
<1>7. Sound({R(t) : t \in LoadedTools(c)}, c)
  BY <1>2, <1>4, <1>5, <1>6 DEF Sound
<1> QED
  BY <1>7 DEF R

(* Adding a batch keeps the pool sound. *)
LEMMA AddAllSound ==
  ASSUME NEW c, NEW pile, Sound(pile, c), NEW batch \in Seq(Tools)
  PROVE  Sound(AddAll(pile, batch), c)
<1> DEFINE m == Len(batch)
           U == pile \cup {Registered(t, "mcp-dynamic") : t \in Tools}
           S == SUBSET U
           step == [s \in S |-> [n \in 1 .. m |-> AddDynamic(s, batch[n])]]
           Body(f) == [n \in 0 .. m |-> IF n = 0 THEN pile ELSE AddDynamic(f[n - 1], batch[n])]
<1>1. m \in Nat /\ pile \in S
  OBVIOUS
<1>2. step \in [S -> [1 .. m -> S]]
  <2>1. ASSUME NEW s \in S, NEW n \in 1 .. m PROVE AddDynamic(s, batch[n]) \in S
    <3>1. batch[n] \in Tools
      OBVIOUS
    <3> QED
      BY <3>1 DEF AddDynamic
  <2> QED
    BY <2>1
<1>3. PICK f : Chain(f, S, pile, m, step)
  <2>1. StepOf(step, S, m)
    BY <1>2 DEF StepOf
  <2> HIDE DEF m, S, step
  <2> QED
    BY <1>1, <2>1, Recursion
<1>4. /\ f \in [0 .. m -> S] /\ f[0] = pile
      /\ \A k \in 1 .. m : f[k] = AddDynamic(f[k - 1], batch[k])
  <2>1. f \in [0 .. m -> S] /\ f[0] = pile /\ \A k \in 1 .. m : f[k] = step[f[k - 1]][k]
    BY <1>3 DEF Chain
  <2>2. ASSUME NEW k \in 1 .. m PROVE step[f[k - 1]][k] = AddDynamic(f[k - 1], batch[k])
    <3>1. k - 1 \in 0 .. m /\ f[k - 1] \in S
      BY <1>1, <2>1
    <3> QED
      BY <3>1
  <2> QED
    BY <2>1, <2>2
<1> HIDE DEF S, step
<1>5. f = Body(f)
  <2>1. ASSUME NEW k \in 0 .. m PROVE f[k] = Body(f)[k]
    <3>1. k = 0 \/ k \in 1 .. m
      BY <1>1
    <3> QED
      BY <1>4, <3>1
  <2> QED
    BY <1>4, <2>1
<1> DEFINE g == CHOOSE g : g = Body(g)
<1>6. g = Body(g)
  BY <1>5
<1>7. AddAll(pile, batch) = g[m]
  BY DEF AddAll
<1> HIDE DEF g
<1>8. g[0] = pile /\ \A k \in 1 .. m : g[k] = AddDynamic(g[k - 1], batch[k])
  BY <1>1, <1>6
<1> DEFINE N == {n \in Nat : n <= m => Sound(g[n], c)}
<1>9. 0 \in N
  BY <1>8
<1>10. ASSUME NEW n \in N PROVE n + 1 \in N
  <2>1. ASSUME n + 1 <= m PROVE Sound(g[n + 1], c)
    <3>1. n \in Nat /\ n <= m /\ n + 1 \in 1 .. m /\ (n + 1) - 1 = n
      BY <1>1, <2>1
    <3>2. Sound(g[n], c) /\ g[n + 1] = AddDynamic(g[n], batch[n + 1])
      BY <1>8, <1>10, <3>1
    <3> QED
      BY <3>2, AddKeepsSound
  <2> QED
    BY <2>1
<1>11. N = Nat
  <2> HIDE DEF N
  <2>1. N \in SUBSET Nat
    BY DEF N
  <2> QED
    BY <1>9, <1>10, <2>1, CountUp
<1>12. Sound(g[m], c)
  <2>1. m \in N
    BY <1>1, <1>11
  <2> QED
    BY <1>1, <2>1
<1> QED
  BY <1>7, <1>12
-----------------------------------------------------------------------------
(* What a set of files imports. *)
Imported(c, F) == UNION {c.imports[f] : f \in F}

LEMMA HopOf ==
  ASSUME NEW c \in Configs, NEW n \in Nat
  PROVE  \E hop \in [0 .. n -> SUBSET Documents] :
           /\ hop[0] = {Root} /\ Reach(c, n) = hop[n]
           /\ \A k \in 1 .. n : hop[k] = Imported(c, hop[k - 1])
<1> DEFINE S == SUBSET Documents
           step == [F \in S |-> [k \in 1 .. n |-> Imported(c, F)]]
           Body(f) == [k \in 0 .. n |-> IF k = 0 THEN {Root} ELSE Imported(c, f[k - 1])]
           root == {Root}
<1>1. root \in S
  BY StartAssumption
<1>2. step \in [S -> [1 .. n -> S]]
  <2>1. c.imports \in [Documents -> SUBSET Documents]
    BY ConfigAssumption
  <2>2. ASSUME NEW F \in S PROVE Imported(c, F) \in S
    BY <2>1 DEF Imported
  <2> QED
    BY <2>2
<1>3. PICK f : Chain(f, S, root, n, step)
  <2>1. StepOf(step, S, n)
    BY <1>2 DEF StepOf
  <2> HIDE DEF S, step, root
  <2> QED
    BY <1>1, <2>1, Recursion
<1>4. f \in [0 .. n -> S] /\ f[0] = root /\ \A k \in 1 .. n : f[k] = Imported(c, f[k - 1])
  <2>1. f \in [0 .. n -> S] /\ f[0] = root /\ \A k \in 1 .. n : f[k] = step[f[k - 1]][k]
    BY <1>3 DEF Chain
  <2>2. ASSUME NEW k \in 1 .. n PROVE step[f[k - 1]][k] = Imported(c, f[k - 1])
    <3>1. k - 1 \in 0 .. n /\ f[k - 1] \in S
      BY <2>1
    <3> HIDE DEF S
    <3> QED
      BY <3>1
  <2> QED
    BY <2>1, <2>2
<1> HIDE DEF S, step
<1>5. f = Body(f)
  <2>1. ASSUME NEW k \in 0 .. n PROVE f[k] = Body(f)[k]
    <3>1. k = 0 \/ k \in 1 .. n
      OBVIOUS
    <3> QED
      BY <1>4, <3>1
  <2> QED
    BY <1>4, <2>1
<1> DEFINE g == CHOOSE g : g = Body(g)
<1>6. g = Body(g)
  BY <1>5
<1>7. Reach(c, n) = g[n]
  BY DEF Reach, Imported
<1> HIDE DEF g
<1>8. g[0] = {Root}
  BY <1>6
<1>9. \A k \in 1 .. n : g[k] = Imported(c, g[k - 1])
  <2>1. ASSUME NEW k \in 1 .. n PROVE g[k] = Imported(c, g[k - 1])
    <3>1. k \in 0 .. n /\ k # 0
      OBVIOUS
    <3> QED
      BY <1>6, <3>1
  <2> QED
    BY <2>1
<1>10. \A k \in 0 .. n : f[k] = g[k]
  <2>1. \A k \in 0 .. n - 1 : f[k] = g[k] => f[k + 1] = g[k + 1]
    <3>1. \A k \in 0 .. n - 1 : k + 1 \in 1 .. n /\ (k + 1) - 1 = k
      OBVIOUS
    <3> QED
      BY <1>4, <1>9, <3>1
  <2>2. f[0] = g[0]
    BY <1>4, <1>8
  <2> QED
    BY <2>1, <2>2, Agree
<1>11. g \in [0 .. n -> S]
  BY <1>4, <1>6, <1>10
<1> QED
  BY <1>7, <1>8, <1>9, <1>11 DEF S

(* What one hop more reaches. *)
LEMMA ReachStep ==
  ASSUME NEW c \in Configs, NEW n \in Nat
  PROVE  /\ Reach(c, n) \in SUBSET Documents
         /\ Reach(c, 0) = {Root}
         /\ Reach(c, n + 1) = Imported(c, Reach(c, n))
<1>1. PICK f \in [0 .. n -> SUBSET Documents] :
        /\ f[0] = {Root} /\ Reach(c, n) = f[n]
        /\ \A k \in 1 .. n : f[k] = Imported(c, f[k - 1])
  BY HopOf
<1>2. PICK g \in [0 .. n + 1 -> SUBSET Documents] :
        /\ g[0] = {Root} /\ Reach(c, n + 1) = g[n + 1]
        /\ \A k \in 1 .. n + 1 : g[k] = Imported(c, g[k - 1])
  <2>1. n + 1 \in Nat
    OBVIOUS
  <2> QED
    BY <2>1, HopOf
<1>3. \A k \in 0 .. n : f[k] = g[k]
  <2>1. \A k \in 0 .. n - 1 : f[k] = g[k] => f[k + 1] = g[k + 1]
    <3>1. \A k \in 0 .. n - 1 : k + 1 \in 1 .. n /\ k + 1 \in 1 .. n + 1 /\ (k + 1) - 1 = k
      OBVIOUS
    <3> QED
      BY <1>1, <1>2, <3>1
  <2>2. f[0] = g[0]
    BY <1>1, <1>2
  <2> QED
    BY <2>1, <2>2, Agree
<1>4. Reach(c, 0) = {Root}
  <2>1. PICK h : h[0] = {Root} /\ Reach(c, 0) = h[0]
    <3>1. 0 \in Nat
      OBVIOUS
    <3> QED
      BY <3>1, HopOf
  <2> QED
    BY <2>1
<1>5. Reach(c, n + 1) = Imported(c, g[n])
  <2>1. n + 1 \in 1 .. n + 1 /\ (n + 1) - 1 = n
    OBVIOUS
  <2> QED
    BY <1>2, <2>1
<1>6. n \in 0 .. n
  OBVIOUS
<1> QED
  BY <1>1, <1>3, <1>4, <1>5, <1>6
-----------------------------------------------------------------------------
(* The calls that end well at a depth, given those of the next. *)
Ending(c, d, deeper) ==
  IF d > MaxImportDepth THEN {}
  ELSE {v \in Visits :
          /\ v.file \notin v.stack
          /\ d > 0 => v.file \notin c.h1
          /\ \A g \in c.imports[v.file] : Visit(g, v.stack \cup {v.file}) \in deeper}

LEMMA WalkOf ==
  ASSUME NEW c \in Configs
  PROVE  \E walk : /\ WalkOK(c) <=> Visit(Root, {}) \in walk[0]
                   /\ \A d \in 0 .. MaxImportDepth + 1 : walk[d] = Ending(c, d, walk[d + 1])
<1> DEFINE M == MaxImportDepth
           m == M + 1
           S == SUBSET Visits
           none == {}
           step == [x \in S |-> [n \in 1 .. m |-> Ending(c, m - n, x)]]
           Body(w) == [d \in 0 .. MaxImportDepth + 1 |-> Ending(c, d, w[d + 1])]
<1>1. m \in Nat /\ none \in S /\ M \in Nat
  BY StartAssumption
<1>2. step \in [S -> [1 .. m -> S]]
  <2>1. \A d, x : Ending(c, d, x) \in S
    BY DEF Ending
  <2> HIDE DEF S
  <2> QED
    BY <2>1
<1>3. PICK l : Chain(l, S, none, m, step)
  <2>1. StepOf(step, S, m)
    BY <1>2 DEF StepOf
  <2> HIDE DEF m, S, step, none
  <2> QED
    BY <1>1, <2>1, Recursion
<1>4. /\ l \in [0 .. m -> S] /\ l[0] = {}
      /\ \A n \in 1 .. m : l[n] = Ending(c, m - n, l[n - 1])
  <2>1. l \in [0 .. m -> S] /\ l[0] = {} /\ \A n \in 1 .. m : l[n] = step[l[n - 1]][n]
    BY <1>3 DEF Chain
  <2> HIDE DEF S, m
  <2>2. ASSUME NEW n \in 1 .. m PROVE step[l[n - 1]][n] = Ending(c, m - n, l[n - 1])
    <3>1. n - 1 \in 0 .. m /\ l[n - 1] \in S
      BY <1>1, <2>1
    <3> QED
      BY <3>1
  <2> QED
    BY <2>1, <2>2
<1> HIDE DEF step, S
<1> DEFINE w == [d \in 0 .. m |-> l[m - d]]
<1>5. w = Body(w)
  <2>1. ASSUME NEW d \in 0 .. m PROVE w[d] = Ending(c, d, w[d + 1])
    <3>1. w[d] = l[m - d]
      OBVIOUS
    <3>2. CASE d = m
      <4>1. m - d = 0 /\ d > MaxImportDepth
        BY <1>1, <3>2
      <4> HIDE DEF w
      <4> QED
        BY <1>4, <3>1, <4>1 DEF Ending
    <3>3. CASE d # m
      <4>1. /\ m - d \in 1 .. m /\ d + 1 \in 0 .. m /\ m - (d + 1) = (m - d) - 1
            /\ m - (m - d) = d
        BY <1>1, <3>3
      <4>2. w[d + 1] = l[(m - d) - 1]
        BY <4>1
      <4>3. l[m - d] = Ending(c, m - (m - d), l[(m - d) - 1])
        BY <1>4, <4>1
      <4> HIDE DEF w, m
      <4> QED
        BY <3>1, <4>1, <4>2, <4>3
    <3> QED
      BY <3>2, <3>3
  <2>2. DOMAIN w = 0 .. m /\ w = [d \in 0 .. m |-> w[d]]
    OBVIOUS
  <2> HIDE DEF w
  <2> QED
    BY <2>1, <2>2
<1> HIDE DEF w
<1> DEFINE v == CHOOSE v : v = Body(v)
<1>6. v = Body(v)
  BY <1>5
<1>7. WalkOK(c) <=> Visit(Root, {}) \in v[0]
  BY DEF WalkOK, Ending
<1> HIDE DEF v
<1>8. \A d \in 0 .. MaxImportDepth + 1 : v[d] = Ending(c, d, v[d + 1])
  BY <1>6
<1> QED
  BY <1>7, <1>8

(* The greatest of a bounded set of numbers. *)
LEMMA GreatestOf ==
  ASSUME NEW N \in SUBSET Nat, N # {}, NEW m \in Nat, \A n \in N : n <= m
  PROVE  \E n \in N : \A k \in N : k <= n
<1> DEFINE T == {m - n : n \in N}
<1>1. T \in SUBSET Nat /\ T # {}
  <2>1. ASSUME NEW n \in N PROVE m - n \in Nat
    <3>1. n \in Nat /\ n <= m
      OBVIOUS
    <3> QED
      BY <3>1
  <2> QED
    BY <2>1
<1>2. PICK t \in T : \A k \in T : t <= k
  <2> HIDE DEF T
  <2> QED
    BY <1>1, LeastOf
<1>3. PICK n \in N : t = m - n
  OBVIOUS
<1>4. ASSUME NEW k \in N PROVE k <= n
  <2>1. m - k \in T
    OBVIOUS
  <2>2. t <= m - k
    BY <1>2, <2>1
  <2> HIDE DEF T
  <2> QED
    BY <1>3, <2>2
<1> QED
  BY <1>4

(* Every file that the walk comes to by its imports ends well where the walk does. *)
LEMMA WalkReaches ==
  ASSUME NEW c \in Configs, NEW walk, Visit(Root, {}) \in walk[0],
         \A d \in 0 .. MaxImportDepth + 1 : walk[d] = Ending(c, d, walk[d + 1])
  PROVE  \A d \in 0 .. MaxImportDepth + 1 : \A f \in Reach(c, d) :
           \E stack \in SUBSET Documents : Visit(f, stack) \in walk[d]
<1> DEFINE M == MaxImportDepth
           Ends(d) == \A f \in Reach(c, d) : \E stack \in SUBSET Documents : Visit(f, stack) \in walk[d]
           N == {d \in Nat : d <= M + 1 => Ends(d)}
<1>1. M \in Nat
  BY StartAssumption
<1>2. 0 \in N
  <2>1. Reach(c, 0) = {Root}
    <3>1. 0 \in Nat
      OBVIOUS
    <3> QED
      BY <3>1, ReachStep
  <2> QED
    BY <2>1
<1>3. ASSUME NEW d \in N PROVE d + 1 \in N
  <2>1. ASSUME d + 1 <= M + 1 PROVE Ends(d + 1)
    <3>1. d \in Nat /\ d \in 0 .. M + 1 /\ ~(d > MaxImportDepth)
      BY <1>1, <2>1
    <3>2. Ends(d)
      BY <1>1, <1>3, <2>1, <3>1
    <3> SUFFICES ASSUME NEW f \in Reach(c, d + 1)
                 PROVE  \E stack \in SUBSET Documents : Visit(f, stack) \in walk[d + 1]
      OBVIOUS
    <3>3. Reach(c, d) \in SUBSET Documents /\ Reach(c, d + 1) = Imported(c, Reach(c, d))
      BY <3>1, ReachStep
    <3>4. PICK e \in Reach(c, d) : f \in c.imports[e]
      BY <3>3 DEF Imported
    <3>5. PICK stack \in SUBSET Documents : Visit(e, stack) \in walk[d]
      BY <3>2
    <3>6. walk[d] = Ending(c, d, walk[d + 1])
      BY <3>1
    <3>7. Visit(e, stack).file = e /\ Visit(e, stack).stack = stack
      BY DEF Visit
    <3>8. Visit(f, stack \cup {e}) \in walk[d + 1]
      <4>1. walk[d] = {v \in Visits :
                         /\ v.file \notin v.stack
                         /\ d > 0 => v.file \notin c.h1
                         /\ \A g \in c.imports[v.file] : Visit(g, v.stack \cup {v.file}) \in walk[d + 1]}
        BY <3>1, <3>6 DEF Ending
      <4> DEFINE v == Visit(e, stack)
      <4>2. v \in walk[d] /\ v.file = e /\ v.stack = stack
        BY <3>5, <3>7
      <4> HIDE DEF v
      <4>3. \A g \in c.imports[v.file] : Visit(g, v.stack \cup {v.file}) \in walk[d + 1]
        BY <4>1, <4>2
      <4> QED
        BY <3>4, <4>2, <4>3
    <3>9. stack \cup {e} \in SUBSET Documents
      BY <3>3
    <3> QED
      BY <3>8, <3>9
  <2> HIDE DEF Ends
  <2> QED
    BY <2>1
<1>4. N = Nat
  <2> HIDE DEF N
  <2>1. N \in SUBSET Nat
    BY DEF N
  <2> QED
    BY <1>2, <1>3, <2>1, CountUp
<1> HIDE DEF Ends
<1>5. \A d \in 0 .. M + 1 : d \in Nat /\ d <= M + 1
  BY <1>1
<1>6. \A d \in 0 .. M + 1 : Ends(d)
  BY <1>4, <1>5
<1> QED
  BY <1>6 DEF Ends

(* Once no file is reached, none is reached by more hops. *)
LEMMA ReachStops ==
  ASSUME NEW c \in Configs, NEW m \in Nat, Reach(c, m) = {}
  PROVE  \A k \in Nat : k >= m => Reach(c, k) = {}
<1> DEFINE N == {k \in Nat : Reach(c, m + k) = {}}
<1>1. 0 \in N
  <2>1. m + 0 = m
    OBVIOUS
  <2> QED
    BY <2>1
<1>2. ASSUME NEW k \in N PROVE k + 1 \in N
  <2>1. m + k \in Nat /\ m + (k + 1) = (m + k) + 1 /\ Reach(c, m + k) = {}
    OBVIOUS
  <2>2. Reach(c, (m + k) + 1) = Imported(c, {})
    BY <2>1, ReachStep
  <2>3. Imported(c, {}) = {}
    BY DEF Imported
  <2> QED
    BY <2>1, <2>2, <2>3
<1>3. N = Nat
  <2> HIDE DEF N
  <2>1. N \in SUBSET Nat
    BY DEF N
  <2> QED
    BY <1>1, <1>2, <2>1, CountUp
<1>4. ASSUME NEW k \in Nat, k >= m PROVE Reach(c, k) = {}
  <2>1. k - m \in Nat /\ m + (k - m) = k
    BY <1>4
  <2>2. k - m \in N
    BY <1>3, <2>1
  <2> QED
    BY <2>1, <2>2
<1> QED
  BY <1>4
-----------------------------------------------------------------------------
(* A file of the stack is never reached as deep as the file the walk is at. *)
Above(c, g, f) ==
  \E k \in Nat : f \in Reach(c, k) /\ \A j \in Nat : g \in Reach(c, j) => j < k

LEMMA AboveNext ==
  ASSUME NEW c \in Configs, Reach(c, MaxImportDepth + 1) = {},
         NEW d \in Nat, NEW f \in Reach(c, d), NEW g \in c.imports[f]
  PROVE  /\ \A e : Above(c, e, f) => Above(c, e, g)
         /\ Above(c, f, g) /\ ~Above(c, f, f) /\ g \in Reach(c, d + 1)
<1>1. ASSUME NEW k \in Nat, f \in Reach(c, k) PROVE g \in Reach(c, k + 1)
  <2>1. Reach(c, k + 1) = Imported(c, Reach(c, k))
    BY ReachStep
  <2> QED
    BY <1>1, <2>1 DEF Imported
<1>2. ASSUME NEW e, Above(c, e, f) PROVE Above(c, e, g)
  <2>1. PICK k \in Nat : f \in Reach(c, k) /\ \A j \in Nat : e \in Reach(c, j) => j < k
    BY <1>2 DEF Above
  <2>2. g \in Reach(c, k + 1) /\ k + 1 \in Nat
    BY <1>1, <2>1
  <2>3. \A j \in Nat : j < k => j < k + 1
    BY <2>1
  <2> QED
    BY <2>1, <2>2, <2>3 DEF Above
<1>3. Above(c, f, g)
  <2> DEFINE N == {k \in Nat : f \in Reach(c, k)}
  <2>1. ASSUME NEW k \in N PROVE k <= MaxImportDepth
    <3>1. MaxImportDepth \in Nat
      BY StartAssumption
    <3>2. MaxImportDepth + 1 \in Nat
      BY <3>1
    <3>3. ~(k >= MaxImportDepth + 1)
      BY <2>1, <3>2, ReachStops
    <3> QED
      BY <3>1, <3>3
  <2>2. d \in N /\ N \in SUBSET Nat
    OBVIOUS
  <2>3. PICK m \in N : \A k \in N : k <= m
    <3>1. MaxImportDepth \in Nat
      BY StartAssumption
    <3> HIDE DEF N
    <3> QED
      BY <2>1, <2>2, <3>1, GreatestOf
  <2>4. m + 1 \in Nat /\ g \in Reach(c, m + 1)
    BY <1>1
  <2>5. \A j \in Nat : f \in Reach(c, j) => j < m + 1
    BY <2>3
  <2> QED
    BY <2>4, <2>5 DEF Above
<1>4. ~Above(c, f, f)
  BY DEF Above
<1>5. g \in Reach(c, d + 1)
  BY <1>1
<1> QED
  BY <1>2, <1>3, <1>4, <1>5

(* Where no chain is too long and no imported file redeclares the title, the walk ends
   well from every file it reaches. *)
LEMMA WalkEnds ==
  ASSUME NEW c \in Configs, NEW walk, Reach(c, MaxImportDepth + 1) = {},
         \A k \in 1 .. MaxImportDepth : Reach(c, k) \cap c.h1 = {},
         \A d \in 0 .. MaxImportDepth + 1 : walk[d] = Ending(c, d, walk[d + 1])
  PROVE  Visit(Root, {}) \in walk[0]
<1> DEFINE M == MaxImportDepth
           Ends(d) == \A f \in Reach(c, d) : \A stack \in SUBSET Documents :
                        (\A e \in stack : Above(c, e, f)) => Visit(f, stack) \in walk[d]
           N == {n \in Nat : n <= M + 1 => Ends((M + 1) - n)}
<1>1. M \in Nat
  BY StartAssumption
<1>2. 0 \in N
  <2>1. (M + 1) - 0 = M + 1
    BY <1>1
  <2> QED
    BY <2>1
<1>3. ASSUME NEW n \in N PROVE n + 1 \in N
  <2>1. ASSUME n + 1 <= M + 1 PROVE Ends((M + 1) - (n + 1))
    <3> PICK d : d = M - n
      OBVIOUS
    <3>1. /\ d \in 0 .. M + 1 /\ d \in Nat /\ d <= M /\ (M + 1) - (n + 1) = d /\ (M + 1) - n = d + 1
          /\ (d > 0 => d \in 1 .. MaxImportDepth) /\ n <= M + 1
      BY <1>1, <2>1
    <3>2. Ends(d + 1)
      BY <1>3, <3>1
    <3> SUFFICES ASSUME NEW f \in Reach(c, d), NEW stack \in SUBSET Documents,
                        \A e \in stack : Above(c, e, f)
                 PROVE  Visit(f, stack) \in walk[d]
      BY <3>1
    <3>3. f \in Documents
      BY <3>1, ReachStep
    <3>4. d > 0 => f \notin c.h1
      BY <3>1
    <3>5. f \notin stack
      BY DEF Above
    <3>6. ASSUME NEW g \in c.imports[f] PROVE Visit(g, stack \cup {f}) \in walk[d + 1]
      <4>1. /\ \A e : Above(c, e, f) => Above(c, e, g)
            /\ Above(c, f, g) /\ g \in Reach(c, d + 1)
        BY <3>1, AboveNext
      <4>2. \A e \in stack \cup {f} : Above(c, e, g)
        BY <4>1
      <4>3. stack \cup {f} \in SUBSET Documents
        BY <3>3
      <4> QED
        BY <3>2, <4>1, <4>2, <4>3
    <3> DEFINE v == Visit(f, stack)
    <3>7. v \in Visits /\ v.file = f /\ v.stack = stack
      BY <3>3 DEF Visit, Visits
    <3> HIDE DEF v
    <3>8. walk[d] = {x \in Visits :
                       /\ x.file \notin x.stack
                       /\ d > 0 => x.file \notin c.h1
                       /\ \A g \in c.imports[x.file] : Visit(g, x.stack \cup {x.file}) \in walk[d + 1]}
      <4>1. ~(d > MaxImportDepth) /\ walk[d] = Ending(c, d, walk[d + 1])
        BY <1>1, <3>1
      <4> QED
        BY <4>1 DEF Ending
    <3>9. v \in walk[d]
      BY <3>4, <3>5, <3>6, <3>7, <3>8
    <3> QED
      BY <3>9 DEF v
  <2> HIDE DEF Ends
  <2> QED
    BY <2>1
<1>4. N = Nat
  <2> HIDE DEF N
  <2>1. N \in SUBSET Nat
    BY DEF N
  <2> QED
    BY <1>2, <1>3, <2>1, CountUp
<1>5. Ends(0)
  <2> HIDE DEF Ends
  <2>1. M + 1 \in Nat /\ M + 1 <= M + 1 /\ (M + 1) - (M + 1) = 0
    BY <1>1
  <2>2. M + 1 \in N
    BY <1>4, <2>1
  <2> QED
    BY <2>1, <2>2
<1>6. Root \in Reach(c, 0)
  <2>1. 0 \in Nat
    OBVIOUS
  <2> QED
    BY <2>1, ReachStep
<1> QED
  BY <1>5, <1>6

(* The walk refuses exactly the import graphs with a cycle that is reached, a chain
   longer than the limit, or a second title. *)
LEMMA WalkIs ==
  ASSUME NEW c \in Configs
  PROVE  WalkOK(c) <=>
           /\ Reach(c, MaxImportDepth + 1) = {}
           /\ (UNION {Reach(c, k) : k \in 1 .. MaxImportDepth}) \cap c.h1 = {}
<1>1. PICK walk : /\ WalkOK(c) <=> Visit(Root, {}) \in walk[0]
                  /\ \A d \in 0 .. MaxImportDepth + 1 : walk[d] = Ending(c, d, walk[d + 1])
  BY WalkOf
<1>2. (UNION {Reach(c, k) : k \in 1 .. MaxImportDepth}) \cap c.h1 = {} <=>
        \A k \in 1 .. MaxImportDepth : Reach(c, k) \cap c.h1 = {}
  OBVIOUS
<1>3. ASSUME WalkOK(c)
      PROVE  /\ Reach(c, MaxImportDepth + 1) = {}
             /\ \A k \in 1 .. MaxImportDepth : Reach(c, k) \cap c.h1 = {}
  <2>1. \A d \in 0 .. MaxImportDepth + 1 : \A f \in Reach(c, d) :
           \E stack \in SUBSET Documents : Visit(f, stack) \in walk[d]
    BY <1>1, <1>3, WalkReaches
  <2>2. MaxImportDepth \in Nat
    BY StartAssumption
  <2>3. MaxImportDepth + 1 \in 0 .. MaxImportDepth + 1 /\ MaxImportDepth + 1 > MaxImportDepth
    BY <2>2
  <2>4. walk[MaxImportDepth + 1] = {}
    BY <1>1, <2>3 DEF Ending
  <2>5. Reach(c, MaxImportDepth + 1) = {}
    BY <2>1, <2>3, <2>4
  <2>6. ASSUME NEW k \in 1 .. MaxImportDepth, NEW f \in Reach(c, k) PROVE f \notin c.h1
    <3>1. k \in 0 .. MaxImportDepth + 1 /\ ~(k > MaxImportDepth) /\ k > 0
      BY <2>2
    <3>2. PICK stack \in SUBSET Documents : Visit(f, stack) \in walk[k]
      BY <2>1, <3>1
    <3>3. walk[k] = {x \in Visits :
                       /\ x.file \notin x.stack
                       /\ k > 0 => x.file \notin c.h1
                       /\ \A g \in c.imports[x.file] : Visit(g, x.stack \cup {x.file}) \in walk[k + 1]}
      BY <1>1, <3>1 DEF Ending
    <3>4. Visit(f, stack).file \notin c.h1
      BY <3>1, <3>2, <3>3
    <3> QED
      BY <3>4 DEF Visit
  <2> QED
    BY <2>5, <2>6
<1>4. ASSUME Reach(c, MaxImportDepth + 1) = {},
             \A k \in 1 .. MaxImportDepth : Reach(c, k) \cap c.h1 = {}
      PROVE  WalkOK(c)
  BY <1>1, <1>4, WalkEnds
<1> QED
  BY <1>2, <1>3, <1>4
-----------------------------------------------------------------------------
EntryType == [ver : 0 .. cfg.maxVersion, age : 0 .. Ceiling + 1, left : 0 .. Lifetime]

(* The refreshes: a list that was answered or cached has been published; an answer that
   no other refresh of its anchor overlapped is not older than what is cached. *)
CrlInv ==
  /\ cfg \in Configs /\ booted \in BOOLEAN /\ timer \in 0 .. Interval
  /\ passes \in [Slots -> PassType \cup {NoPass}]
  /\ entries \in [Anchors -> EntryType]
  /\ published \in [Anchors -> 1 .. cfg.maxVersion]
  /\ \A a \in Anchors : entries[a].ver <= published[a]
  /\ \A p \in Slots :
       (passes[p].kind # "idle" /\ passes[p].at = "answered") =>
         /\ passes[p].ver <= published[Head(passes[p].todo)]
         /\ ~passes[p].overlapped => entries[Head(passes[p].todo)].ver <= passes[p].ver

LEMMA PassIs ==
  ASSUME NEW x \in PassType \cup {NoPass}
  PROVE  /\ x.kind = "idle" <=> x = NoPass
         /\ x.kind # "idle" => /\ x \in PassType /\ x.todo \in Seq(Anchors) /\ x.todo # <<>>
                               /\ Head(x.todo) \in Anchors /\ Tail(x.todo) \in Seq(Anchors)
                               /\ x.kind \in {"boot", "timer", "operator"}
<1>1. NoPass.kind = "idle"
  BY DEF NoPass
<1>2. ASSUME x \in PassType
      PROVE  x.kind \in {"boot", "timer", "operator"} /\ x.todo \in Seq(Anchors) /\ x.todo # <<>>
  BY <1>2 DEF PassType
<1>3. \A s \in Seq(Anchors) : s # <<>> => Head(s) \in Anchors /\ Tail(s) \in Seq(Anchors)
  OBVIOUS
<1> QED
  BY <1>1, <1>2, <1>3

LEMMA AskIs ==
  ASSUME NEW kind \in {"boot", "timer", "operator"}, NEW list \in Seq(Anchors), cfg \in Configs
  PROVE  /\ Ask(kind, list) \in PassType \cup {NoPass}
         /\ Ask(kind, list).kind # "idle" => Ask(kind, list).at # "answered"
         /\ Ask(kind, list).kind \in {kind, "idle"}
<1>1. CASE list = <<>>
  BY <1>1 DEF Ask, NoPass
<1>2. CASE list # <<>>
  <2>1. 0 \in 0 .. cfg.maxVersion /\ 0 \in 0 .. Lifetime
    BY ConfigAssumption, StartAssumption
  <2> QED
    BY <1>2, <2>1 DEF Ask, PassType
<1> QED
  BY <1>1, <1>2

LEMMA CrlFrame ==
  ASSUME CrlInv, UNCHANGED <<cfg, booted, passes, entries, published, timer>>
  PROVE  CrlInv'
BY DEF CrlInv, PassType, EntryType

(* A pass that asks, or rests, is sound whatever is cached. *)
LEMMA CrlPass ==
  ASSUME CrlInv, UNCHANGED <<cfg, entries, published>>, booted' \in BOOLEAN, timer' \in 0 .. Interval,
         NEW p \in Slots, NEW x \in PassType \cup {NoPass}, x.kind # "idle" => x.at # "answered",
         passes' = [passes EXCEPT ![p] = x]
  PROVE  CrlInv'
<1>1. passes' \in [Slots -> PassType \cup {NoPass}]
  BY DEF CrlInv
<1>2. (PassType \cup {NoPass})' = PassType \cup {NoPass} /\ EntryType' = EntryType
  BY DEF PassType, EntryType
<1>3. passes'[p] = x /\ \A q \in Slots : q # p => passes'[q] = passes[q]
  BY DEF CrlInv
<1>4. ASSUME NEW q \in Slots, passes'[q].kind # "idle", passes'[q].at = "answered"
      PROVE  /\ passes'[q].ver <= published[Head(passes'[q].todo)]
             /\ ~passes'[q].overlapped => entries[Head(passes'[q].todo)].ver <= passes'[q].ver
  <2>1. q # p /\ passes'[q] = passes[q]
    BY <1>3, <1>4
  <2> QED
    BY <1>4, <2>1 DEF CrlInv
<1> QED
  BY <1>1, <1>2, <1>4 DEF CrlInv

LEMMA CrlAnswer ==
  ASSUME CrlInv, NEW p \in Slots, Answer(p)
  PROVE  CrlInv'
<1> DEFINE a == Head(passes[p].todo)
           new == [passes[p] EXCEPT !.at = "answered", !.ver = published[a], !.left = Lifetime]
<1>1. passes[p] \in PassType /\ a \in Anchors
  BY PassIs DEF CrlInv, Answer
<1>2. published[a] \in 0 .. cfg.maxVersion /\ Lifetime \in 0 .. Lifetime /\ published[a] \in Nat
  BY <1>1, ConfigAssumption, StartAssumption DEF CrlInv
<1>3. /\ new \in PassType /\ new.todo = passes[p].todo /\ new.ver = published[a]
      /\ new.kind # "idle"
  BY <1>1, <1>2 DEF PassType
<1>4. passes' = [passes EXCEPT ![p] = new] /\ UNCHANGED <<cfg, booted, entries, published, timer>>
  BY DEF Answer
<1>5. (PassType \cup {NoPass})' = PassType \cup {NoPass} /\ EntryType' = EntryType
  BY <1>4 DEF PassType, EntryType
<1>6. passes'[p] = new /\ \A q \in Slots : q # p => passes'[q] = passes[q]
  BY <1>4 DEF CrlInv
<1>7. passes' \in [Slots -> PassType \cup {NoPass}]
  BY <1>3, <1>4 DEF CrlInv
<1>8. entries[a].ver <= published[a]
  BY <1>1 DEF CrlInv
<1> HIDE DEF new
<1>9. ASSUME NEW q \in Slots, passes'[q].kind # "idle", passes'[q].at = "answered"
      PROVE  /\ passes'[q].ver <= published[Head(passes'[q].todo)]
             /\ ~passes'[q].overlapped => entries[Head(passes'[q].todo)].ver <= passes'[q].ver
  <2>1. CASE q = p
    BY <1>2, <1>3, <1>6, <1>8, <2>1
  <2>2. CASE q # p
    BY <1>6, <1>9, <2>2 DEF CrlInv
  <2> QED
    BY <2>1, <2>2
<1> QED
  BY <1>4, <1>5, <1>7, <1>9 DEF CrlInv

LEMMA CrlLand ==
  ASSUME CrlInv, NEW p \in Slots, Land(p)
  PROVE  CrlInv'
<1> DEFINE a == Head(passes[p].todo)
           new == Landed(p)
<1>1. passes[p] \in PassType /\ a \in Anchors /\ Tail(passes[p].todo) \in Seq(Anchors)
      /\ passes[p].kind \in {"boot", "timer", "operator"} /\ passes[p].at = "answered"
  BY PassIs DEF CrlInv, Land
<1>2. new \in EntryType /\ new.ver = passes[p].ver /\ new.ver <= published[a]
  <2>1. 0 \in 0 .. Ceiling + 1
    BY StartAssumption
  <2>2. passes[p].ver \in 0 .. cfg.maxVersion /\ passes[p].left \in 0 .. Lifetime
    BY <1>1 DEF PassType
  <2>3. passes[p].ver <= published[a]
    BY <1>1 DEF CrlInv, Land
  <2> QED
    BY <2>1, <2>2, <2>3 DEF Landed, EntryType
<1>3. /\ entries' = [entries EXCEPT ![a] = new] /\ UNCHANGED <<cfg, published>>
      /\ passes' = [q \in Slots |->
            IF q = p THEN Advance(p, TRUE)
            ELSE IF passes[q].kind # "idle" /\ Head(passes[q].todo) = a
                 THEN [passes[q] EXCEPT !.overlapped = TRUE]
                 ELSE passes[q]]
  BY DEF Land
<1>4. booted' \in BOOLEAN /\ timer' \in 0 .. Interval
  <2>1. booted' = (booted \/ BootCompletes(p)) /\ timer' = IF BootCompletes(p) THEN Interval ELSE timer
    BY DEF Land
  <2>2. Interval \in 0 .. Interval
    BY StartAssumption
  <2> QED
    BY <2>1, <2>2 DEF CrlInv
<1>5. (PassType \cup {NoPass})' = PassType \cup {NoPass} /\ EntryType' = EntryType
  BY <1>3 DEF PassType, EntryType
<1>6. /\ Advance(p, TRUE) \in PassType \cup {NoPass}
      /\ Advance(p, TRUE).kind # "idle" => Advance(p, TRUE).at # "answered"
  <2>1. Advance(p, TRUE) = Ask(passes[p].kind, Tail(passes[p].todo))
    BY DEF Advance
  <2> QED
    BY <1>1, <2>1, AskIs DEF CrlInv
<1> HIDE DEF new
<1>7. ASSUME NEW q \in Slots, q # p, passes[q].kind # "idle", Head(passes[q].todo) = a
      PROVE  /\ passes'[q] \in PassType /\ passes'[q].overlapped = TRUE
             /\ passes'[q].ver = passes[q].ver /\ passes'[q].todo = passes[q].todo
             /\ passes'[q].kind = passes[q].kind /\ passes'[q].at = passes[q].at
  <2>1. passes'[q] = [passes[q] EXCEPT !.overlapped = TRUE]
    BY <1>3, <1>7
  <2>2. passes[q] \in PassType
    BY <1>7, PassIs DEF CrlInv
  <2> QED
    BY <2>1, <2>2 DEF PassType
<1>8. ASSUME NEW q \in Slots, q # p, ~(passes[q].kind # "idle" /\ Head(passes[q].todo) = a)
      PROVE  passes'[q] = passes[q]
  BY <1>3, <1>8
<1>9. passes'[p] = Advance(p, TRUE)
  BY <1>3
<1>10. passes' \in [Slots -> PassType \cup {NoPass}]
  <2>1. DOMAIN passes' = Slots /\ passes' = [q \in Slots |-> passes'[q]]
    BY <1>3
  <2>2. ASSUME NEW q \in Slots PROVE passes'[q] \in PassType \cup {NoPass}
    <3>1. passes[q] \in PassType \cup {NoPass}
      BY DEF CrlInv
    <3> QED
      BY <1>6, <1>7, <1>8, <1>9, <3>1
  <2> QED
    BY <2>1, <2>2
<1>11. entries' \in [Anchors -> EntryType]
  BY <1>2, <1>3 DEF CrlInv
<1>12. entries'[a] = new /\ \A b \in Anchors : b # a => entries'[b] = entries[b]
  BY <1>1, <1>3 DEF CrlInv
<1>13. \A b \in Anchors : entries'[b].ver <= published[b]
  BY <1>2, <1>12 DEF CrlInv
<1>14. ASSUME NEW q \in Slots, passes'[q].kind # "idle", passes'[q].at = "answered"
       PROVE  /\ passes'[q].ver <= published[Head(passes'[q].todo)]
              /\ ~passes'[q].overlapped => entries'[Head(passes'[q].todo)].ver <= passes'[q].ver
  <2>1. q # p
    BY <1>6, <1>9, <1>14
  <2>2. CASE passes[q].kind # "idle" /\ Head(passes[q].todo) = a
    <3>1. passes[q].at = "answered" /\ passes'[q].overlapped = TRUE
      BY <1>7, <1>14, <2>1, <2>2
    <3>2. passes[q].ver <= published[Head(passes[q].todo)]
      BY <2>2, <3>1 DEF CrlInv
    <3> QED
      BY <1>7, <2>1, <2>2, <3>1, <3>2
  <2>3. CASE ~(passes[q].kind # "idle" /\ Head(passes[q].todo) = a)
    <3>1. passes'[q] = passes[q]
      BY <1>8, <2>1, <2>3
    <3>2. Head(passes[q].todo) # a /\ Head(passes[q].todo) \in Anchors
      BY <1>14, <2>3, <3>1, PassIs DEF CrlInv
    <3> QED
      BY <1>12, <1>14, <3>1, <3>2 DEF CrlInv
  <2> QED
    BY <2>2, <2>3
<1> QED
  BY <1>3, <1>4, <1>5, <1>10, <1>11, <1>13, <1>14 DEF CrlInv

LEMMA CrlPublish ==
  ASSUME CrlInv, NEW a \in Anchors, Publish(a)
  PROVE  CrlInv'
<1>1. /\ published' = [published EXCEPT ![a] = published[a] + 1] /\ published[a] < cfg.maxVersion
      /\ UNCHANGED <<cfg, booted, passes, entries, timer>>
  BY DEF Publish, crlVars
<1>2. cfg.maxVersion \in Nat /\ \A b \in Anchors : published[b] \in 1 .. cfg.maxVersion
  BY ConfigAssumption DEF CrlInv
<1>3. published[a] + 1 \in 1 .. cfg.maxVersion
  BY <1>1, <1>2
<1>4. published' \in [Anchors -> 1 .. cfg.maxVersion]
  BY <1>1, <1>3 DEF CrlInv
<1>5. \A b \in Anchors : published'[b] = IF b = a THEN published[b] + 1 ELSE published[b]
  BY <1>1 DEF CrlInv
<1>6. ASSUME NEW b \in Anchors, NEW v \in Nat, v <= published[b] PROVE v <= published'[b]
  BY <1>2, <1>5, <1>6
<1>7. \A b \in Anchors : entries[b].ver \in Nat /\ entries[b].ver <= published[b]
  BY <1>2 DEF CrlInv, EntryType
<1>8. ASSUME NEW p \in Slots, passes[p].kind # "idle", passes[p].at = "answered"
      PROVE  passes[p].ver <= published'[Head(passes[p].todo)]
  <2>1. passes[p] \in PassType /\ Head(passes[p].todo) \in Anchors
    BY <1>8, PassIs DEF CrlInv
  <2>2. passes[p].ver \in Nat
    BY <1>2, <2>1 DEF PassType
  <2> QED
    BY <1>6, <1>8, <2>1, <2>2 DEF CrlInv
<1>9. (PassType \cup {NoPass})' = PassType \cup {NoPass} /\ EntryType' = EntryType
  BY <1>1 DEF PassType, EntryType
<1> QED
  BY <1>1, <1>4, <1>6, <1>7, <1>8, <1>9 DEF CrlInv

LEMMA CrlTick ==
  ASSUME CrlInv, Tick
  PROVE  CrlInv' /\ \A a \in Anchors : entries'[a].ver = entries[a].ver
<1> DEFINE down(n) == IF n = 0 THEN 0 ELSE n - 1
<1>1. /\ UNCHANGED <<cfg, booted, published>> /\ timer # 0
      /\ timer' = IF booted THEN timer - 1 ELSE timer
  BY DEF Tick
<1>2. entries' = [a \in Anchors |->
           IF entries[a].ver = 0 THEN NoEntry
           ELSE [entries[a] EXCEPT !.age = IF @ > Ceiling THEN @ ELSE @ + 1, !.left = down(@)]]
  BY DEF Tick
<1>3. passes' = [p \in Slots |->
           IF passes[p].kind # "idle" /\ passes[p].at = "answered"
           THEN [passes[p] EXCEPT !.left = down(@)] ELSE passes[p]]
  BY DEF Tick
<1>4. timer' \in 0 .. Interval
  BY <1>1, StartAssumption DEF CrlInv
<1>5. Lifetime \in Nat /\ Ceiling \in Nat /\ cfg.maxVersion \in Nat
  BY ConfigAssumption, StartAssumption DEF CrlInv
<1>6. \A n \in 0 .. Lifetime : down(n) \in 0 .. Lifetime
  BY <1>5
<1> HIDE DEF down
<1>7. ASSUME NEW a \in Anchors
      PROVE  entries'[a] \in EntryType /\ entries'[a].ver = entries[a].ver
  <2>1. entries[a] \in EntryType
    BY DEF CrlInv
  <2>2. CASE entries[a].ver = 0
    <3>1. entries'[a] = NoEntry
      BY <1>2, <2>2
    <3> QED
      BY <1>5, <2>2, <3>1 DEF NoEntry, EntryType
  <2>3. CASE entries[a].ver # 0
    <3> DEFINE older == IF entries[a].age > Ceiling THEN entries[a].age ELSE entries[a].age + 1
    <3>1. older \in 0 .. Ceiling + 1 /\ down(entries[a].left) \in 0 .. Lifetime
      BY <1>5, <1>6, <2>1 DEF EntryType
    <3>2. entries'[a] = [entries[a] EXCEPT !.age = older, !.left = down(entries[a].left)]
      BY <1>2, <2>3
    <3> HIDE DEF older
    <3> QED
      BY <2>1, <3>1, <3>2 DEF EntryType
  <2> QED
    BY <2>2, <2>3
<1>8. ASSUME NEW p \in Slots
      PROVE  /\ passes'[p] \in PassType \cup {NoPass}
             /\ passes'[p].kind = passes[p].kind
             /\ passes'[p].kind # "idle" =>
                  /\ passes'[p].at = passes[p].at /\ passes'[p].ver = passes[p].ver
                  /\ passes'[p].todo = passes[p].todo /\ passes'[p].overlapped = passes[p].overlapped
  <2>1. passes[p] \in PassType \cup {NoPass}
    BY DEF CrlInv
  <2>2. CASE passes[p].kind # "idle" /\ passes[p].at = "answered"
    <3>1. passes'[p] = [passes[p] EXCEPT !.left = down(passes[p].left)]
      BY <1>3, <2>2
    <3>2. passes[p] \in PassType
      BY <2>1, <2>2, PassIs
    <3>3. down(passes[p].left) \in 0 .. Lifetime
      BY <1>6, <3>2 DEF PassType
    <3> QED
      BY <3>1, <3>2, <3>3 DEF PassType
  <2>3. CASE ~(passes[p].kind # "idle" /\ passes[p].at = "answered")
    <3>1. passes'[p] = passes[p]
      BY <1>3, <2>3
    <3> QED
      BY <2>1, <3>1
  <2> QED
    BY <2>2, <2>3
<1>9. passes' \in [Slots -> PassType \cup {NoPass}] /\ entries' \in [Anchors -> EntryType]
  <2>1. DOMAIN passes' = Slots /\ passes' = [q \in Slots |-> passes'[q]]
    BY <1>3
  <2>2. DOMAIN entries' = Anchors /\ entries' = [q \in Anchors |-> entries'[q]]
    BY <1>2
  <2>3. passes' \in [Slots -> PassType \cup {NoPass}]
    BY <1>8, <2>1
  <2> QED
    BY <1>7, <2>2, <2>3
<1>10. (PassType \cup {NoPass})' = PassType \cup {NoPass} /\ EntryType' = EntryType
  BY <1>1 DEF PassType, EntryType
<1>11. \A a \in Anchors : entries'[a].ver <= published[a]
  BY <1>7 DEF CrlInv
<1>12. ASSUME NEW p \in Slots, passes'[p].kind # "idle", passes'[p].at = "answered"
       PROVE  /\ passes'[p].ver <= published[Head(passes'[p].todo)]
              /\ ~passes'[p].overlapped => entries'[Head(passes'[p].todo)].ver <= passes'[p].ver
  <2>1. /\ passes[p].kind # "idle" /\ passes[p].at = "answered" /\ passes'[p].ver = passes[p].ver
        /\ passes'[p].todo = passes[p].todo /\ passes'[p].overlapped = passes[p].overlapped
    BY <1>8, <1>12
  <2>2. Head(passes[p].todo) \in Anchors
    BY <2>1, PassIs DEF CrlInv
  <2>3. entries'[Head(passes[p].todo)].ver = entries[Head(passes[p].todo)].ver
    BY <1>7, <2>2
  <2> QED
    BY <2>1, <2>3 DEF CrlInv
<1> QED
  BY <1>1, <1>4, <1>7, <1>9, <1>10, <1>11, <1>12 DEF CrlInv
-----------------------------------------------------------------------------
LEMMA CrlInit ==
  ASSUME StartInit
  PROVE  CrlInv
<1>1. cfg \in Configs /\ cfg.maxVersion \in Nat \ {0} /\ Interval \in 0 .. Interval
      /\ 0 \in 0 .. Lifetime /\ 0 \in 0 .. Ceiling + 1
  BY ConfigAssumption, StartAssumption DEF StartInit
<1>2. NoEntry \in EntryType /\ NoEntry.ver = 0
  BY <1>1 DEF NoEntry, EntryType
<1>3. 1 \in 1 .. cfg.maxVersion /\ NoPass.kind = "idle" /\ 0 <= 1
  BY <1>1 DEF NoPass
<1>4. /\ booted = FALSE /\ timer = Interval /\ passes = [p \in Slots |-> NoPass]
      /\ entries = [a \in Anchors |-> NoEntry] /\ published = [a \in Anchors |-> 1]
  BY DEF StartInit
<1>5. \A a \in Anchors : entries[a].ver <= published[a]
  BY <1>2, <1>3, <1>4
<1> QED
  BY <1>1, <1>2, <1>3, <1>4, <1>5 DEF CrlInv

LEMMA CrlDie ==
  ASSUME CrlInv, Die
  PROVE  CrlInv'
<1>1. /\ UNCHANGED <<cfg, published>> /\ booted' = FALSE /\ timer' = Interval
      /\ passes' = [p \in Slots |-> NoPass] /\ entries' = [a \in Anchors |-> NoEntry]
  BY DEF Die
<1>2. cfg \in Configs /\ cfg.maxVersion \in Nat \ {0} /\ Interval \in 0 .. Interval
      /\ 0 \in 0 .. Lifetime /\ 0 \in 0 .. Ceiling + 1
  BY ConfigAssumption, StartAssumption DEF CrlInv
<1>3. NoEntry \in EntryType /\ NoEntry.ver = 0 /\ NoPass.kind = "idle"
  BY <1>2 DEF NoEntry, EntryType, NoPass
<1>4. (PassType \cup {NoPass})' = PassType \cup {NoPass} /\ EntryType' = EntryType
  BY <1>1 DEF PassType, EntryType
<1>5. \A a \in Anchors : published[a] \in Nat
  BY <1>2 DEF CrlInv
<1>6. \A a \in Anchors : entries'[a].ver <= published[a]
  BY <1>1, <1>3, <1>5
<1> QED
  BY <1>1, <1>2, <1>3, <1>4, <1>6 DEF CrlInv

LEMMA CrlLaunch ==
  ASSUME CrlInv, Launch
  PROVE  CrlInv'
<1>1. UNCHANGED <<cfg, published>>
  BY DEF Launch
<1>2. CASE UNCHANGED crlVars
  BY <1>1, <1>2, CrlFrame DEF crlVars
<1>3. CASE booted' = (cfg.anchors = <<>>) /\ passes' = [passes EXCEPT ![1] = Ask("boot", cfg.anchors)]
           /\ UNCHANGED <<timer, entries>>
  <2>1. booted' \in BOOLEAN /\ timer' \in 0 .. Interval /\ 1 \in Slots /\ cfg \in Configs
    BY <1>3, StartAssumption DEF CrlInv, Slots
  <2>2. cfg.anchors \in Seq(Anchors)
    BY <2>1, ConfigAssumption
  <2> DEFINE x == Ask("boot", cfg.anchors)
  <2>3. x \in PassType \cup {NoPass} /\ (x.kind # "idle" => x.at # "answered")
    BY <2>1, <2>2, AskIs
  <2> HIDE DEF x
  <2>4. passes' = [passes EXCEPT ![1] = x]
    BY <1>3 DEF x
  <2>5. UNCHANGED <<cfg, entries, published>>
    BY <1>1, <1>3
  <2> QED
    BY <2>1, <2>3, <2>4, <2>5, CrlPass
<1> QED
  BY <1>2, <1>3 DEF Launch

LEMMA CrlFails ==
  ASSUME CrlInv, NEW p \in Slots, RefreshFails(p)
  PROVE  CrlInv'
<1> DEFINE x == Advance(p, FALSE)
<1>1. /\ UNCHANGED <<cfg, booted, entries, published, timer>>
      /\ passes' = [passes EXCEPT ![p] = x]
  BY DEF RefreshFails
<1>2. passes[p].kind \in {"boot", "timer", "operator"} /\ Tail(passes[p].todo) \in Seq(Anchors)
      /\ cfg \in Configs
  BY PassIs DEF CrlInv, RefreshFails
<1>3. x \in PassType \cup {NoPass} /\ (x.kind # "idle" => x.at # "answered")
  BY <1>2, AskIs, PassIs DEF Advance
<1>4. booted' \in BOOLEAN /\ timer' \in 0 .. Interval
  BY <1>1 DEF CrlInv
<1> HIDE DEF x
<1> QED
  BY <1>1, <1>3, <1>4, CrlPass

LEMMA CrlPassStarts ==
  ASSUME CrlInv, NEW kind \in {"boot", "timer", "operator"}, StartPass(kind),
         UNCHANGED <<cfg, booted, entries, published>>, timer' \in 0 .. Interval
  PROVE  CrlInv'
<1> DEFINE x == Ask(kind, cfg.anchors)
<1>1. PICK p \in Slots : passes' = [passes EXCEPT ![p] = x]
  BY DEF StartPass
<1>2. cfg \in Configs /\ booted' \in BOOLEAN
  BY DEF CrlInv
<1>3. cfg.anchors \in Seq(Anchors)
  BY <1>2, ConfigAssumption
<1>4. x \in PassType \cup {NoPass} /\ (x.kind # "idle" => x.at # "answered")
  BY <1>2, <1>3, AskIs
<1> HIDE DEF x
<1> QED
  BY <1>1, <1>2, <1>4, CrlPass
-----------------------------------------------------------------------------
(* The life of a process: with none there is no state, and the one there is passed the
   checks of main(); the boot pass is over when the scan is. *)
LifeInv ==
  /\ phase \in {"down", "booting", "up"} /\ revoked \in BOOLEAN
  /\ phase = "down" => /\ refusals = {} /\ ~booted /\ ~revoked /\ log = <<>> /\ pool = {}
                       /\ watcher = Resting /\ \A p \in Slots : passes[p].kind = "idle"
  /\ phase # "down" => Refusal(cfg) = "ok" /\ refusals = RefusedFor(cfg)
  /\ phase = "up" => \A p \in Slots : passes[p].kind # "boot"

(* The log: what explains a refusal is there until the ring wraps, and the row of a
   revocation is there once at most. *)
LogInv ==
  /\ log \in Seq(LogKinds) /\ Len(log) <= LogCap
  /\ \A r \in refusals : r \in Range(log) \/ Len(log) = LogCap
  /\ revoked => /\ "bootstrap-revoked" \in Range(log) \/ Len(log) = LogCap
                /\ cfg.watch
  /\ \A i, j \in 1 .. Len(log) : log[i] = "bootstrap-revoked" /\ log[j] = "bootstrap-revoked" => i = j
  /\ ~revoked => \A i \in 1 .. Len(log) : log[i] # "bootstrap-revoked"

(* The tools: a sound pool, and a batch that can be read. *)
ToolInv ==
  /\ Sound(pool, cfg) /\ trigger \in DOMAIN Batches \cup {Empty}
  /\ watcher.at \in {"idle", "read", "truncating"}
  /\ watcher.at = "read" => watcher.batch \in DOMAIN Batches

StartInv == CrlInv /\ LifeInv /\ LogInv /\ ToolInv

(* What the ring has after one row more. *)
LEMMA PushAt ==
  ASSUME NEW X, NEW ring \in Seq(X), NEW row, Len(ring) <= LogCap
  PROVE  \E d \in {0, 1} :
           /\ \A i \in 1 .. Len(Push(ring, row)) :
                \/ i = Len(Push(ring, row)) /\ Push(ring, row)[i] = row
                \/ i + d \in 1 .. Len(ring) /\ Push(ring, row)[i] = ring[i + d]
           /\ Len(Push(ring, row)) \in Nat
<1>1. CASE Len(ring) = LogCap
  <2> DEFINE t == Tail(ring)
             n == Append(t, row)
  <2>1. Push(ring, row) = n
    BY <1>1 DEF Push
  <2>2. ring # <<>>
    BY <1>1, StartAssumption
  <2>3. t \in Seq(X) /\ Len(t) = Len(ring) - 1 /\ \A i \in 1 .. Len(t) : t[i] = ring[i + 1]
    BY <2>2
  <2> HIDE DEF t
  <2>4. /\ Len(n) = Len(t) + 1 /\ n[Len(t) + 1] = row
        /\ \A i \in 1 .. Len(t) : n[i] = t[i]
    BY <2>3
  <2> HIDE DEF n
  <2>5. Len(t) \in Nat /\ Len(ring) \in Nat
    BY <2>3
  <2>6. \A i \in 1 .. Len(n) : (i = Len(n) /\ n[i] = row) \/ (i + 1 \in 1 .. Len(ring) /\ n[i] = ring[i + 1])
    BY <2>3, <2>4, <2>5
  <2> QED
    BY <2>1, <2>4, <2>5, <2>6
<1>2. CASE Len(ring) # LogCap
  <2> DEFINE n == Append(ring, row)
  <2>1. Push(ring, row) = n
    BY <1>2 DEF Push
  <2>2. /\ Len(n) = Len(ring) + 1 /\ n[Len(ring) + 1] = row
        /\ \A i \in 1 .. Len(ring) : n[i] = ring[i]
    OBVIOUS
  <2> HIDE DEF n
  <2>3. \A i \in 1 .. Len(n) : (i = Len(n) /\ n[i] = row) \/ (i + 0 \in 1 .. Len(ring) /\ n[i] = ring[i + 0])
    BY <2>2
  <2>4. Len(n) \in Nat
    BY <2>2
  <2> QED
    BY <2>1, <2>3, <2>4
<1> QED
  BY <1>1, <1>2

(* A row more leaves the log as it must be. *)
LEMMA LogPush ==
  ASSUME LogInv, NEW row \in LogKinds, log' = Push(log, row), UNCHANGED <<cfg, refusals>>,
         \/ row # "bootstrap-revoked" /\ revoked' = revoked
         \/ row = "bootstrap-revoked" /\ ~revoked /\ revoked' = TRUE /\ cfg.watch
  PROVE  LogInv'
<1> DEFINE is(i) == log[i] = "bootstrap-revoked"
<1>1. log \in Seq(LogKinds) /\ Len(log) <= LogCap
  BY DEF LogInv
<1>2. log' \in Seq(LogKinds) /\ Len(log') <= LogCap
  BY <1>1, PushTyped
<1>3. /\ row \in Range(log')
      /\ \A r : r \in Range(log) \/ Len(log) = LogCap => r \in Range(log') \/ Len(log') = LogCap
  BY <1>1, PushKeeps
<1>4. PICK d \in {0, 1} :
        /\ \A i \in 1 .. Len(log') : \/ i = Len(log') /\ log'[i] = row
                                     \/ i + d \in 1 .. Len(log) /\ log'[i] = log[i + d]
        /\ Len(log') \in Nat
  <2>1. \E d \in {0, 1} :
           /\ \A i \in 1 .. Len(Push(log, row)) :
                \/ i = Len(Push(log, row)) /\ Push(log, row)[i] = row
                \/ i + d \in 1 .. Len(log) /\ Push(log, row)[i] = log[i + d]
           /\ Len(Push(log, row)) \in Nat
    BY <1>1, PushAt
  <2> QED
    BY <2>1
<1>5. /\ \A r \in refusals' : r \in Range(log') \/ Len(log') = LogCap
      /\ revoked' => /\ "bootstrap-revoked" \in Range(log') \/ Len(log') = LogCap
                     /\ cfg'.watch
  BY <1>3 DEF LogInv
<1>6. CASE row # "bootstrap-revoked" /\ revoked' = revoked
  <2>1. ASSUME NEW i \in 1 .. Len(log'), log'[i] = "bootstrap-revoked"
        PROVE  i + d \in 1 .. Len(log) /\ log[i + d] = "bootstrap-revoked"
    BY <1>4, <1>6, <2>1
  <2>2. ASSUME NEW i \in 1 .. Len(log'), NEW j \in 1 .. Len(log'),
               log'[i] = "bootstrap-revoked", log'[j] = "bootstrap-revoked"
        PROVE  i = j
    <3>1. /\ i + d \in 1 .. Len(log) /\ log[i + d] = "bootstrap-revoked"
          /\ j + d \in 1 .. Len(log) /\ log[j + d] = "bootstrap-revoked"
      BY <2>1, <2>2
    <3>2. i + d = j + d
      BY <3>1 DEF LogInv
    <3> QED
      BY <1>4, <3>2
  <2>3. ~revoked' => \A i \in 1 .. Len(log') : log'[i] # "bootstrap-revoked"
    BY <1>6, <2>1 DEF LogInv
  <2> QED
    BY <1>2, <1>5, <2>2, <2>3 DEF LogInv
<1>7. CASE row = "bootstrap-revoked" /\ ~revoked /\ revoked' = TRUE
  <2>1. \A i \in 1 .. Len(log) : log[i] # "bootstrap-revoked"
    BY <1>7 DEF LogInv
  <2>2. ASSUME NEW i \in 1 .. Len(log'), log'[i] = "bootstrap-revoked"
        PROVE  i = Len(log')
    BY <1>4, <2>1, <2>2
  <2>3. \A i, j \in 1 .. Len(log') :
          log'[i] = "bootstrap-revoked" /\ log'[j] = "bootstrap-revoked" => i = j
    BY <2>2
  <2> QED
    BY <1>2, <1>5, <1>7, <2>3 DEF LogInv
<1> QED
  BY <1>6, <1>7

LEMMA LogLaunch ==
  ASSUME LogInv, refusals' = RefusedFor(cfg), log' = PushAll(LaunchRows(cfg)),
         ~revoked, UNCHANGED <<cfg, revoked>>
  PROVE  LogInv'
<1> DEFINE list == LaunchRows(cfg)
           K == LogKinds \ {"bootstrap-revoked"}
<1>1. list \in Seq(K) /\ \A r \in RefusedFor(cfg) : r \in Range(list)
  BY LaunchRowsName
<1> HIDE DEF list
<1>2. /\ PushAll(list) \in Seq(K) /\ Len(PushAll(list)) <= LogCap
      /\ \A r \in Range(list) : r \in Range(PushAll(list)) \/ Len(PushAll(list)) = LogCap
  <2> HIDE DEF K
  <2> QED
    BY <1>1, PushAllKeeps
<1>3. log' = PushAll(list)
  BY DEF list
<1>4. \A i \in 1 .. Len(log') : log'[i] \in K
  <2> HIDE DEF K
  <2> QED
    BY <1>2, <1>3
<1>5. log' \in Seq(LogKinds)
  BY <1>2, <1>3
<1>6. \A i \in 1 .. Len(log') : log'[i] # "bootstrap-revoked"
  BY <1>4
<1> HIDE DEF K
<1> QED
  BY <1>1, <1>2, <1>3, <1>5, <1>6 DEF LogInv
-----------------------------------------------------------------------------
LEMMA LifeFrame ==
  ASSUME LifeInv, UNCHANGED <<cfg, phase, refusals, booted, revoked, log, pool, watcher, passes>>
  PROVE  LifeInv'
BY DEF LifeInv

LEMMA LogFrame ==
  ASSUME LogInv, UNCHANGED <<cfg, refusals, revoked, log>>
  PROVE  LogInv'
BY DEF LogInv

LEMMA ToolFrame ==
  ASSUME ToolInv, UNCHANGED <<cfg, pool, trigger, watcher>>
  PROVE  ToolInv'
BY DEF ToolInv

(* Only a launch begins a boot pass. *)
LEMMA LifeRefresh ==
  ASSUME LifeInv, phase # "down",
         UNCHANGED <<cfg, phase, refusals, revoked, log, pool, watcher>>,
         \A p \in Slots : passes'[p].kind = "boot" => passes[p].kind = "boot"
  PROVE  LifeInv'
BY DEF LifeInv

(* A step of the process other than its refreshes. *)
LEMMA LifeRuns ==
  ASSUME LifeInv, phase # "down", revoked' \in BOOLEAN,
         UNCHANGED <<cfg, phase, refusals, booted, passes>>
  PROVE  LifeInv'
BY DEF LifeInv

LEMMA InitKeeps ==
  ASSUME StartInit
  PROVE  StartInv
<1>1. CrlInv
  BY CrlInit
<1>2. NoPass.kind = "idle" /\ Resting.at = "idle"
  BY DEF NoPass, Resting
<1>3. LifeInv
  BY <1>2 DEF StartInit, LifeInv
<1>4. log = <<>> /\ refusals = {} /\ revoked = FALSE
  BY DEF StartInit
<1>5. Len(log) = 0 /\ log \in Seq(LogKinds) /\ 0 <= LogCap
  BY <1>4, StartAssumption
<1>6. LogInv
  BY <1>4, <1>5 DEF LogInv
<1>7. Sound({}, cfg)
  BY DEF Sound
<1>8. ToolInv
  BY <1>2, <1>7 DEF StartInit, ToolInv
<1> QED
  BY <1>1, <1>3, <1>6, <1>8 DEF StartInv

LEMMA DieKeeps ==
  ASSUME StartInv, Die
  PROVE  StartInv'
<1>1. CrlInv'
  BY CrlDie DEF StartInv
<1>2. NoPass.kind = "idle" /\ Resting.at = "idle"
  BY DEF NoPass, Resting
<1>3. /\ phase' = "down" /\ refusals' = {} /\ booted' = FALSE /\ revoked' = FALSE /\ log' = <<>>
      /\ pool' = {} /\ watcher' = Resting /\ passes' = [p \in Slots |-> NoPass]
      /\ UNCHANGED <<cfg, trigger>>
  BY DEF Die
<1>4. LifeInv'
  BY <1>2, <1>3 DEF LifeInv
<1>5. Len(log') = 0 /\ log' \in Seq(LogKinds) /\ 0 <= LogCap
  BY <1>3, StartAssumption
<1>6. LogInv'
  BY <1>3, <1>5 DEF LogInv
<1>7. Sound({}, cfg)
  BY DEF Sound
<1>8. ToolInv'
  BY <1>2, <1>3, <1>7 DEF ToolInv, StartInv
<1> QED
  BY <1>1, <1>4, <1>6, <1>8 DEF StartInv

LEMMA LaunchKeeps ==
  ASSUME StartInv, Launch
  PROVE  StartInv'
<1>0. CrlInv /\ LifeInv /\ LogInv /\ ToolInv
  BY DEF StartInv
<1>1. CrlInv'
  BY <1>0, CrlLaunch
<1>2. UNCHANGED <<cfg, revoked, trigger, watcher>> /\ phase = "down"
  BY DEF Launch
<1>3. CASE UNCHANGED <<phase, refusals, crlVars, log, pool>>
  <2>1. LifeInv'
    BY <1>0, <1>2, <1>3, LifeFrame DEF crlVars
  <2>2. LogInv'
    BY <1>0, <1>2, <1>3, LogFrame
  <2>3. ToolInv'
    BY <1>0, <1>2, <1>3, ToolFrame
  <2> QED
    BY <1>1, <2>1, <2>2, <2>3 DEF StartInv
<1>4. CASE /\ Refusal(cfg) = "ok" /\ phase' = "booting" /\ refusals' = RefusedFor(cfg)
           /\ log' = PushAll(LaunchRows(cfg))
           /\ pool' = {Registered(t, "static-fixture") : t \in LoadedTools(cfg)}
  <2>1. LifeInv'
    BY <1>0, <1>2, <1>4 DEF LifeInv
  <2>2. LogInv'
    BY <1>0, <1>2, <1>4, LogLaunch DEF LifeInv
  <2>3. Sound(pool', cfg)
    BY <1>0, <1>4, LaunchSound DEF CrlInv
  <2>4. ToolInv'
    BY <1>0, <1>2, <2>3 DEF ToolInv
  <2> QED
    BY <1>1, <2>1, <2>2, <2>4 DEF StartInv
<1>5. \/ UNCHANGED <<phase, refusals, crlVars, log, pool>>
      \/ /\ Refusal(cfg) = "ok" /\ phase' = "booting" /\ refusals' = RefusedFor(cfg)
         /\ log' = PushAll(LaunchRows(cfg))
         /\ pool' = {Registered(t, "static-fixture") : t \in LoadedTools(cfg)}
  BY DEF Launch
<1> QED
  BY <1>3, <1>4, <1>5

LEMMA ScanKeeps ==
  ASSUME StartInv, Scan
  PROVE  StartInv'
<1>1. /\ phase = "booting" /\ phase' = "up" /\ \A p \in Slots : passes[p].kind # "boot"
      /\ UNCHANGED <<cfg, refusals, booted, passes, entries, timer, published, revoked, log,
                     pool, trigger, watcher>>
  BY DEF Scan, crlVars, logVars, toolVars
<1>2. CrlInv'
  BY <1>1, CrlFrame DEF StartInv
<1>3. LifeInv'
  BY <1>1 DEF LifeInv, StartInv
<1>4. LogInv'
  BY <1>1, LogFrame DEF StartInv
<1>5. ToolInv'
  BY <1>1, ToolFrame DEF StartInv
<1> QED
  BY <1>2, <1>3, <1>4, <1>5 DEF StartInv

(* A step of the refreshes: it leaves the rest of the process alone. *)
LEMMA RefreshKeeps ==
  ASSUME StartInv, CrlInv', phase # "down",
         UNCHANGED <<cfg, phase, refusals, revoked, logVars, toolVars>>,
         \A p \in Slots : passes'[p].kind = "boot" => passes[p].kind = "boot"
  PROVE  StartInv'
<1>1. UNCHANGED <<log, pool, trigger, watcher>>
  BY DEF logVars, toolVars
<1>2. LifeInv'
  BY <1>1, LifeRefresh DEF StartInv
<1>3. LogInv'
  BY <1>1, LogFrame DEF StartInv
<1>4. ToolInv'
  BY <1>1, ToolFrame DEF StartInv
<1> QED
  BY <1>2, <1>3, <1>4 DEF StartInv

LEMMA InFlight ==
  ASSUME LifeInv, NEW p \in Slots, passes[p].kind # "idle"
  PROVE  phase # "down"
BY DEF LifeInv

LEMMA AnswerKeeps ==
  ASSUME StartInv, NEW p \in Slots, Answer(p)
  PROVE  StartInv'
<1>1. CrlInv'
  BY CrlAnswer DEF StartInv
<1>2. phase # "down"
  BY InFlight DEF StartInv, Answer
<1>3. UNCHANGED <<cfg, phase, refusals, revoked, logVars, toolVars>>
  BY DEF Answer
<1>4. ASSUME NEW q \in Slots PROVE passes'[q].kind = passes[q].kind
  <2>1. passes[q] \in PassType \cup {NoPass} /\ passes[p] \in PassType
    BY PassIs DEF StartInv, CrlInv, Answer
  <2>2. DOMAIN passes = Slots
    BY DEF StartInv, CrlInv
  <2> QED
    BY <2>1, <2>2 DEF Answer, PassType
<1> QED
  BY <1>1, <1>2, <1>3, <1>4, RefreshKeeps

LEMMA LandKeeps ==
  ASSUME StartInv, NEW p \in Slots, Land(p)
  PROVE  StartInv'
<1>1. CrlInv'
  BY CrlLand DEF StartInv
<1>2. phase # "down"
  BY InFlight DEF StartInv, Land
<1>3. UNCHANGED <<cfg, phase, refusals, revoked, logVars, toolVars>>
  BY DEF Land
<1>4. ASSUME NEW q \in Slots, passes'[q].kind = "boot" PROVE passes[q].kind = "boot"
  <2>1. passes' = [r \in Slots |->
            IF r = p THEN Advance(p, TRUE)
            ELSE IF passes[r].kind # "idle" /\ Head(passes[r].todo) = Head(passes[p].todo)
                 THEN [passes[r] EXCEPT !.overlapped = TRUE]
                 ELSE passes[r]]
    BY DEF Land
  <2>2. CASE q = p
    <3>1. passes'[q] = Ask(passes[p].kind, Tail(passes[p].todo))
      BY <2>1, <2>2 DEF Advance
    <3>2. passes[p].kind \in {"boot", "timer", "operator"} /\ Tail(passes[p].todo) \in Seq(Anchors)
          /\ cfg \in Configs
      BY PassIs DEF StartInv, CrlInv, Land
    <3>3. passes'[q].kind \in {passes[p].kind, "idle"}
      BY <3>1, <3>2, AskIs
    <3> QED
      BY <1>4, <2>2, <3>3
  <2>3. CASE q # p /\ passes[q].kind # "idle" /\ Head(passes[q].todo) = Head(passes[p].todo)
    <3>1. passes'[q] = [passes[q] EXCEPT !.overlapped = TRUE]
      BY <2>1, <2>3
    <3>2. passes[q] \in PassType
      BY <2>3, PassIs DEF StartInv, CrlInv
    <3> QED
      BY <1>4, <3>1, <3>2 DEF PassType
  <2>4. CASE q # p /\ ~(passes[q].kind # "idle" /\ Head(passes[q].todo) = Head(passes[p].todo))
    <3>1. passes'[q] = passes[q]
      BY <2>1, <2>4
    <3> QED
      BY <1>4, <3>1
  <2> QED
    BY <2>2, <2>3, <2>4
<1> QED
  BY <1>1, <1>2, <1>3, <1>4, RefreshKeeps

LEMMA FailsKeeps ==
  ASSUME StartInv, NEW p \in Slots, RefreshFails(p)
  PROVE  StartInv'
<1>1. CrlInv'
  BY CrlFails DEF StartInv
<1>2. phase # "down"
  BY InFlight DEF StartInv, RefreshFails
<1>3. UNCHANGED <<cfg, phase, refusals, revoked, logVars, toolVars>>
  BY DEF RefreshFails
<1>4. ASSUME NEW q \in Slots, passes'[q].kind = "boot" PROVE passes[q].kind = "boot"
  <2>1. passes' = [passes EXCEPT ![p] = Advance(p, FALSE)] /\ DOMAIN passes = Slots
    BY DEF RefreshFails, StartInv, CrlInv
  <2>2. CASE q = p
    <3>1. passes[p].kind \in {"boot", "timer", "operator"} /\ Tail(passes[p].todo) \in Seq(Anchors)
          /\ cfg \in Configs
      BY PassIs DEF StartInv, CrlInv, RefreshFails
    <3>2. passes'[q] = Advance(p, FALSE)
      BY <2>1, <2>2
    <3>3. CASE passes[p].kind = "boot"
      BY <2>2, <3>3
    <3>4. CASE passes[p].kind # "boot"
      <4>1. passes'[q] = Ask(passes[p].kind, Tail(passes[p].todo))
        BY <3>2, <3>4 DEF Advance
      <4>2. passes'[q].kind \in {passes[p].kind, "idle"}
        BY <3>1, <4>1, AskIs
      <4> QED
        BY <1>4, <2>2, <4>2
    <3> QED
      BY <3>3, <3>4
  <2>3. CASE q # p
    BY <1>4, <2>1, <2>3
  <2> QED
    BY <2>2, <2>3
<1> QED
  BY <1>1, <1>2, <1>3, <1>4, RefreshKeeps

LEMMA StartPassKeeps ==
  ASSUME StartInv, NEW kind \in {"timer", "operator"}, StartPass(kind), phase # "down",
         UNCHANGED <<cfg, phase, refusals, revoked, booted, entries, published, logVars, toolVars>>,
         timer' \in 0 .. Interval
  PROVE  StartInv'
<1>1. CrlInv'
  BY CrlPassStarts DEF StartInv
<1>2. PICK p \in Slots : passes' = [passes EXCEPT ![p] = Ask(kind, cfg.anchors)]
  BY DEF StartPass
<1>3. cfg.anchors \in Seq(Anchors) /\ cfg \in Configs /\ DOMAIN passes = Slots
  BY ConfigAssumption DEF StartInv, CrlInv
<1>4. Ask(kind, cfg.anchors).kind \in {kind, "idle"}
  BY <1>3, AskIs
<1>5. \A q \in Slots : passes'[q].kind = "boot" => passes[q].kind = "boot"
  BY <1>2, <1>3, <1>4
<1> QED
  BY <1>1, <1>5, RefreshKeeps

LEMMA TimerKeeps ==
  ASSUME StartInv, TimerFires
  PROVE  StartInv'
<1>1. /\ StartPass("timer") /\ booted /\ timer' = Interval
      /\ UNCHANGED <<cfg, phase, refusals, revoked, booted, entries, published, logVars, toolVars>>
  BY DEF TimerFires
<1>2. phase # "down" /\ timer' \in 0 .. Interval
  BY <1>1, StartAssumption DEF StartInv, LifeInv
<1> QED
  BY <1>1, <1>2, StartPassKeeps

LEMMA OperatorKeeps ==
  ASSUME StartInv, OperatorRefresh
  PROVE  StartInv'
<1>1. /\ StartPass("operator") /\ phase # "down" /\ timer' = timer
      /\ UNCHANGED <<cfg, phase, refusals, revoked, booted, entries, published, logVars, toolVars>>
  BY DEF OperatorRefresh
<1>2. timer' \in 0 .. Interval
  BY <1>1 DEF StartInv, CrlInv
<1> QED
  BY <1>1, <1>2, StartPassKeeps

LEMMA TickKeeps ==
  ASSUME StartInv, Tick
  PROVE  StartInv'
<1>1. CrlInv'
  BY CrlTick DEF StartInv
<1>2. phase # "down" /\ UNCHANGED <<cfg, phase, refusals, revoked, log, toolVars>>
  BY DEF Tick
<1>3. ASSUME NEW q \in Slots PROVE passes'[q].kind = passes[q].kind
  <2>1. passes'[q] = IF passes[q].kind # "idle" /\ passes[q].at = "answered"
                     THEN [passes[q] EXCEPT !.left = IF @ = 0 THEN 0 ELSE @ - 1] ELSE passes[q]
    BY DEF Tick
  <2>2. passes[q].kind # "idle" => passes[q] \in PassType
    BY PassIs DEF StartInv, CrlInv
  <2> QED
    BY <2>1, <2>2 DEF PassType
<1>4. UNCHANGED <<pool, trigger, watcher>>
  BY <1>2 DEF toolVars
<1>5. LifeInv'
  BY <1>2, <1>3, <1>4, LifeRefresh DEF StartInv
<1>6. LogInv'
  BY <1>2, LogFrame DEF StartInv
<1>7. ToolInv'
  BY <1>2, <1>4, ToolFrame DEF StartInv
<1> QED
  BY <1>1, <1>5, <1>6, <1>7 DEF StartInv

LEMMA PublishKeeps ==
  ASSUME StartInv, NEW a \in Anchors, Publish(a)
  PROVE  StartInv'
<1>1. CrlInv'
  BY CrlPublish DEF StartInv
<1>2. UNCHANGED <<cfg, phase, refusals, booted, revoked, log, pool, trigger, watcher, passes>>
  BY DEF Publish, crlVars, logVars, toolVars
<1>3. LifeInv'
  BY <1>2, LifeFrame DEF StartInv
<1>4. LogInv'
  BY <1>2, LogFrame DEF StartInv
<1>5. ToolInv'
  BY <1>2, ToolFrame DEF StartInv
<1> QED
  BY <1>1, <1>3, <1>4, <1>5 DEF StartInv

(* A row of the boot session's log. *)
LEMMA RowKeeps ==
  ASSUME StartInv, phase # "down", NEW row \in LogKinds, log' = Push(log, row),
         UNCHANGED <<cfg, phase, refusals, crlVars, published, toolVars>>,
         \/ row # "bootstrap-revoked" /\ revoked' = revoked
         \/ row = "bootstrap-revoked" /\ ~revoked /\ revoked' = TRUE /\ cfg.watch
  PROVE  StartInv'
<1>1. UNCHANGED <<booted, passes, entries, timer, pool, trigger, watcher>>
  BY DEF crlVars, toolVars
<1>2. CrlInv'
  BY <1>1, CrlFrame DEF StartInv
<1>3. revoked' \in BOOLEAN
  BY DEF StartInv, LifeInv
<1>4. LifeInv'
  BY <1>1, <1>3, LifeRuns DEF StartInv
<1>5. LogInv'
  BY LogPush DEF StartInv
<1>6. ToolInv'
  BY <1>1, ToolFrame DEF StartInv
<1> QED
  BY <1>2, <1>4, <1>5, <1>6 DEF StartInv

LEMMA RevocationKeeps ==
  ASSUME StartInv, RevocationTick
  PROVE  StartInv'
<1>1. "bootstrap-revoked" \in LogKinds
  BY DEF LogKinds
<1>2. /\ cfg.watch /\ phase # "down" /\ ~revoked /\ revoked' = TRUE
      /\ log' = Push(log, "bootstrap-revoked")
      /\ UNCHANGED <<cfg, phase, refusals, crlVars, published, toolVars>>
  BY DEF RevocationTick
<1> QED
  BY <1>1, <1>2, RowKeeps

LEMMA HandlerKeeps ==
  ASSUME StartInv, HandlerTick
  PROVE  StartInv'
<1>1. "crl-refresh-complete" \in LogKinds
  BY DEF LogKinds
<1>2. /\ phase # "down" /\ log' = Push(log, "crl-refresh-complete") /\ revoked' = revoked
      /\ UNCHANGED <<cfg, phase, refusals, crlVars, published, toolVars>>
  BY DEF HandlerTick
<1> QED
  BY <1>1, <1>2, RowKeeps

LEMMA SweepKeeps ==
  ASSUME StartInv, RetentionSweep
  PROVE  StartInv'
<1>1. "retention-sweep-ran" \in LogKinds
  BY DEF LogKinds
<1>2. /\ phase # "down" /\ log' = Push(log, "retention-sweep-ran") /\ revoked' = revoked
      /\ UNCHANGED <<cfg, phase, refusals, crlVars, published, toolVars>>
  BY DEF RetentionSweep
<1> QED
  BY <1>1, <1>2, RowKeeps

(* A step of the operator's file or of the watcher. *)
LEMMA WatcherKeeps ==
  ASSUME StartInv, phase # "down", UNCHANGED <<cfg, phase, refusals, crlVars, published, revoked, log>>,
         Sound(pool', cfg), trigger' \in DOMAIN Batches \cup {Empty},
         watcher'.at \in {"idle", "read", "truncating"},
         watcher'.at = "read" => watcher'.batch \in DOMAIN Batches
  PROVE  StartInv'
<1>1. UNCHANGED <<booted, passes, entries, timer>>
  BY DEF crlVars
<1>2. CrlInv'
  BY <1>1, CrlFrame DEF StartInv
<1>3. revoked' \in BOOLEAN
  BY DEF StartInv, LifeInv
<1>4. LifeInv'
  BY <1>1, <1>3, LifeRuns DEF StartInv
<1>5. LogInv'
  BY LogFrame DEF StartInv
<1>6. ToolInv'
  BY DEF ToolInv
<1> QED
  BY <1>2, <1>4, <1>5, <1>6 DEF StartInv

LEMMA TriggerKeeps ==
  ASSUME StartInv, NEW b \in DOMAIN Batches, WriteTrigger(b)
  PROVE  StartInv'
<1>1. /\ phase # "down" /\ trigger' = b /\ UNCHANGED <<pool, watcher, log>>
      /\ UNCHANGED <<cfg, phase, refusals, crlVars, published, revoked>>
  BY DEF WriteTrigger, logVars
<1>2. Sound(pool', cfg) /\ watcher'.at \in {"idle", "read", "truncating"}
      /\ (watcher'.at = "read" => watcher'.batch \in DOMAIN Batches)
      /\ trigger' \in DOMAIN Batches \cup {Empty}
  BY <1>1 DEF StartInv, ToolInv
<1> QED
  BY <1>1, <1>2, WatcherKeeps

LEMMA ReadsKeeps ==
  ASSUME StartInv, WatcherReads
  PROVE  StartInv'
<1>1. /\ phase = "up" /\ trigger # Empty /\ watcher' = [at |-> "read", batch |-> trigger]
      /\ UNCHANGED <<pool, trigger, log>>
      /\ UNCHANGED <<cfg, phase, refusals, crlVars, published, revoked>>
  BY DEF WatcherReads, logVars
<1>2. watcher'.at = "read" /\ watcher'.batch = trigger
  BY <1>1
<1>3. Sound(pool', cfg) /\ trigger' \in DOMAIN Batches \cup {Empty} /\ trigger \in DOMAIN Batches
  BY <1>1 DEF StartInv, ToolInv
<1> QED
  BY <1>1, <1>2, <1>3, WatcherKeeps

LEMMA IngestsKeeps ==
  ASSUME StartInv, WatcherIngests
  PROVE  StartInv'
<1>1. /\ watcher.at = "read" /\ pool' = AddAll(pool, Batches[watcher.batch])
      /\ watcher' = [watcher EXCEPT !.at = "truncating"] /\ UNCHANGED <<trigger, log>>
      /\ UNCHANGED <<cfg, phase, refusals, crlVars, published, revoked>>
  BY DEF WatcherIngests, logVars
<1>2. phase # "down"
  BY <1>1 DEF StartInv, LifeInv, Resting
<1>3. Sound(pool, cfg) /\ trigger' \in DOMAIN Batches \cup {Empty} /\ watcher.batch \in DOMAIN Batches
  BY <1>1 DEF StartInv, ToolInv
<1>4. Sound(pool', cfg)
  <2>1. Batches[watcher.batch] \in Seq(Tools)
    BY <1>3, StartAssumption
  <2> QED
    BY <1>1, <1>3, <2>1, AddAllSound
<1>5. watcher'.at = "truncating"
  BY <1>1
<1> QED
  BY <1>1, <1>2, <1>3, <1>4, <1>5, WatcherKeeps

LEMMA TruncatesKeeps ==
  ASSUME StartInv, WatcherTruncates \/ TruncateFails
  PROVE  StartInv'
<1>1. /\ watcher.at = "truncating" /\ watcher' = Resting /\ trigger' \in {trigger, Empty}
      /\ UNCHANGED <<pool, log>> /\ UNCHANGED <<cfg, phase, refusals, crlVars, published, revoked>>
  BY DEF WatcherTruncates, TruncateFails, logVars
<1>2. phase # "down" /\ watcher'.at = "idle"
  BY <1>1 DEF StartInv, LifeInv, Resting
<1>3. Sound(pool', cfg) /\ trigger' \in DOMAIN Batches \cup {Empty}
  BY <1>1 DEF StartInv, ToolInv
<1> QED
  BY <1>1, <1>2, <1>3, WatcherKeeps

LEMMA RestKeeps ==
  ASSUME StartInv,
         (\E x \in {"absent", "unparsable", "null", "handler-record", cfg.trust.kid} : WriteRevFile(x))
           \/ UNCHANGED startVars
  PROVE  StartInv'
<1>1. UNCHANGED <<cfg, phase, refusals, booted, revoked, log, pool, trigger, watcher, passes,
                  entries, published, timer>>
  BY DEF WriteRevFile, crlVars, logVars, toolVars, startVars
<1>2. CrlInv'
  BY <1>1, CrlFrame DEF StartInv
<1>3. LifeInv'
  BY <1>1, LifeFrame DEF StartInv
<1>4. LogInv'
  BY <1>1, LogFrame DEF StartInv
<1>5. ToolInv'
  BY <1>1, ToolFrame DEF StartInv
<1> QED
  BY <1>2, <1>3, <1>4, <1>5 DEF StartInv

LEMMA StartStep ==
  ASSUME StartInv, [StartNext]_startVars
  PROVE  StartInv'
<1>1. CASE Launch
  BY <1>1, LaunchKeeps
<1>2. CASE Die \/ ScanRefuses \/ RevocationThrows
  BY <1>2, DieKeeps DEF ScanRefuses, RevocationThrows
<1>3. CASE Scan
  BY <1>3, ScanKeeps
<1>4. CASE \E p \in Slots : Answer(p) \/ Land(p) \/ RefreshFails(p)
  BY <1>4, AnswerKeeps, LandKeeps, FailsKeeps
<1>5. CASE TimerFires \/ OperatorRefresh \/ Tick
  BY <1>5, TimerKeeps, OperatorKeeps, TickKeeps
<1>6. CASE \E a \in Anchors : Publish(a)
  BY <1>6, PublishKeeps
<1>7. CASE RevocationTick \/ HandlerTick \/ RetentionSweep
  BY <1>7, RevocationKeeps, HandlerKeeps, SweepKeeps
<1>8. CASE \E b \in DOMAIN Batches : WriteTrigger(b)
  BY <1>8, TriggerKeeps
<1>9. CASE WatcherReads \/ WatcherIngests \/ WatcherTruncates \/ TruncateFails
  BY <1>9, ReadsKeeps, IngestsKeeps, TruncatesKeeps
<1>10. CASE (\E x \in {"absent", "unparsable", "null", "handler-record", cfg.trust.kid} : WriteRevFile(x))
              \/ UNCHANGED startVars
  BY <1>10, RestKeeps
<1> QED
  BY <1>1, <1>2, <1>3, <1>4, <1>5, <1>6, <1>7, <1>8, <1>9, <1>10 DEF StartNext
-----------------------------------------------------------------------------
LEMMA StartInvGives ==
  ASSUME StartInv
  PROVE  ListenerInv
<1>0. CrlInv /\ LifeInv /\ LogInv /\ ToolInv
  BY DEF StartInv
<1>1. cfg \in Configs
  BY <1>0 DEF CrlInv
<1>2. StartTypeOK
  <2>1. Range(cfg.anchors) \subseteq Anchors
    <3>1. cfg.anchors \in Seq(Anchors)
      BY <1>1, ConfigAssumption
    <3> QED
      BY <3>1 DEF Range
  <2> QED
    BY <1>0, <2>1 DEF StartTypeOK, CrlInv, LifeInv, LogInv, ToolInv, EntryType
<1>3. ListensOnlyIfVetted
  <2>1. phase # "down" => Refusal(cfg) = "ok"
    BY <1>0 DEF LifeInv
  <2> SUFFICES ASSUME phase # "down"
               PROVE  ListensOnlyIfVetted
    BY DEF ListensOnlyIfVetted
  <2>2. Refusal(cfg) = "ok"
    BY <2>1
  <2> QED
    BY <1>1, <2>2, Vetted DEF ListensOnlyIfVetted
<1>4. WalkMatchesGraph
  <2> SUFFICES ASSUME phase # "down", cfg.agents = "ok"
               PROVE  "agents-md" \notin refusals <=>
                        /\ Reach(cfg, MaxImportDepth + 1) = {}
                        /\ (UNION {Reach(cfg, k) : k \in 1 .. MaxImportDepth}) \cap cfg.h1 = {}
    BY DEF WalkMatchesGraph
  <2>1. refusals = RefusedFor(cfg)
    BY <1>0 DEF LifeInv
  <2>2. "agents-md" \notin RefusedFor(cfg) <=> ~AgentsInvalid(cfg)
    BY DEF RefusedFor
  <2>3. ~AgentsInvalid(cfg) <=> WalkOK(cfg)
    BY DEF AgentsInvalid
  <2>4. WalkOK(cfg) <=>
           /\ Reach(cfg, MaxImportDepth + 1) = {}
           /\ (UNION {Reach(cfg, k) : k \in 1 .. MaxImportDepth}) \cap cfg.h1 = {}
    BY <1>1, WalkIs
  <2> QED
    BY <2>1, <2>2, <2>3, <2>4
<1>5. PoolVetted
  BY <1>0 DEF ToolInv, Sound, PoolVetted
<1>6. RefusalExplained
  <2> SUFFICES ASSUME phase # "down",
                      NEW r \in refusals \cup (IF revoked THEN {"bootstrap-revoked"} ELSE {})
               PROVE  (r \in Range(log) \/ Len(log) = LogCap) /\ (cfg.bearer => LogReadable)
    BY DEF RefusalExplained
  <2>1. CASE r \in refusals
    BY <1>0, <2>1 DEF LogInv, LogReadable, GateSkipped
  <2>2. CASE r \notin refusals
    <3>1. revoked /\ r = "bootstrap-revoked"
      BY <2>2
    <3> QED
      BY <1>0, <3>1 DEF LogInv, LogReadable, GateSkipped
  <2> QED
    BY <2>1, <2>2
<1> QED
  BY <1>2, <1>3, <1>4, <1>5, <1>6 DEF ListenerInv

(* Whatever is launched, refreshed, polled, written or stopped, and in any order: the
   refreshes, the life of the process, its log and its tools are as they must be. *)
THEOREM StartAlways == StartSpec => []StartInv
<1>1. StartInit => StartInv
  BY InitKeeps
<1>2. StartInv /\ [StartNext]_startVars => StartInv'
  BY StartStep
<1> QED
  BY <1>1, <1>2, PTL DEF StartSpec

(* The listener only serves vetted deployments: every check of main() passed, the import
   walk refused what the import graph forbids, the pool is sound however tools came to it,
   and a refusal can be read in the log (main, loadAgentsMd, ToolRegistry, SystemLogBuffer). *)
THEOREM ListenerVetted == StartSpec => []ListenerInv
<1>1. StartInv => ListenerInv
  BY StartInvGives
<1> QED
  BY <1>1, StartAlways, PTL
-----------------------------------------------------------------------------
(* What the probe needs to answer ok. *)
LEMMA ReadyNeeds ==
  ASSUME Ready'
  PROVE  ~revoked' /\ booted'
<1> DEFINE a == Fails(refusals' # {}, "bootstrap-pending")
           b == Fails(revoked', "bootstrap-pending")
           c == Fails(~booted', "crl-stale")
           d == Fails((\E x \in Range(cfg.anchors) : Expired(x))', "crl-stale")
           e == Fails(cfg'.sinkHalted, "audit-sink-unreachable")
           f == Fails(cfg'.memory = "down", "memory-mcp-unavailable")
<1>1. FirstBad(<<a, b, c, d, e, f>>) = "ok"
  BY DEF Ready, Readiness
<1> HIDE DEF a, b, c, d, e, f
<1>2. b = "ok" /\ c = "ok"
  BY <1>1, SixOk
<1> QED
  BY <1>2 DEF b, c, Fails

(* A cached list is only replaced by a refresh that lands. *)
LEMMA ListsStay ==
  ASSUME StartInv, [StartNext]_startVars, phase' # "down", NEW a \in Anchors,
         entries'[a].ver < entries[a].ver
  PROVE  \E p \in Slots : /\ passes[p].kind # "idle" /\ Head(passes[p].todo) = a
                          /\ passes[p].overlapped
<1>0. CrlInv /\ entries[a].ver \in Nat /\ ~(entries[a].ver < entries[a].ver)
  BY ConfigAssumption DEF StartInv, CrlInv, EntryType
<1>1. CASE \E p \in Slots : Land(p)
  <2> PICK p \in Slots : Land(p)
    BY <1>1
  <2>1. entries' = [entries EXCEPT ![Head(passes[p].todo)] = Landed(p)]
    BY DEF Land
  <2>2. Head(passes[p].todo) = a
    BY <1>0, <2>1 DEF CrlInv
  <2>3. entries'[a].ver = passes[p].ver /\ passes[p].kind # "idle" /\ passes[p].at = "answered"
    BY <2>1, <2>2 DEF CrlInv, StartInv, Landed, Land
  <2>4. passes[p] \in PassType /\ passes[p].ver \in Nat
    BY <2>3, PassIs, ConfigAssumption DEF CrlInv, StartInv, PassType
  <2>5. ~passes[p].overlapped => entries[a].ver <= passes[p].ver
    BY <1>0, <2>2, <2>3 DEF CrlInv
  <2>6. passes[p].overlapped
    BY <1>0, <2>3, <2>4, <2>5
  <2> QED
    BY <2>2, <2>3, <2>6
<1>2. CASE Tick
  <2>1. entries'[a].ver = entries[a].ver
    BY <1>0, <1>2, CrlTick
  <2> QED
    BY <1>0, <2>1
<1>3. CASE Die \/ ScanRefuses \/ RevocationThrows
  BY <1>3 DEF Die, ScanRefuses, RevocationThrows
<1>4. CASE entries' = entries
  BY <1>0, <1>4
<1> QED
  BY <1>1, <1>2, <1>3, <1>4 DEF StartNext, Launch, Scan, Answer, RefreshFails, TimerFires,
     OperatorRefresh, Publish, WriteRevFile, RevocationTick, HandlerTick, RetentionSweep,
     WriteTrigger, WatcherReads, WatcherIngests, WatcherTruncates, TruncateFails, crlVars, startVars

(* A process that is up without having booted never boots. *)
LEMMA BootSticks ==
  ASSUME StartInv, [StartNext]_startVars, phase = "up", ~booted, phase' # "down"
  PROVE  ~booted'
<1>1. \A p \in Slots : passes[p].kind # "boot"
  BY DEF StartInv, LifeInv
<1>2. CASE \E p \in Slots : Land(p)
  BY <1>1, <1>2 DEF Land, BootCompletes
<1>3. CASE Die \/ ScanRefuses \/ RevocationThrows
  BY <1>3 DEF Die, ScanRefuses, RevocationThrows
<1>4. CASE Launch
  BY <1>4 DEF Launch
<1>5. CASE booted' = booted
  BY <1>5
<1> QED
  BY <1>2, <1>3, <1>4, <1>5 DEF StartNext, Tick, Scan, Answer, RefreshFails, TimerFires,
     OperatorRefresh, Publish, WriteRevFile, RevocationTick, HandlerTick, RetentionSweep,
     WriteTrigger, WatcherReads, WatcherIngests, WatcherTruncates, TruncateFails, crlVars, startVars

(* A revocation is latched. *)
LEMMA RevokedSticks ==
  ASSUME StartInv, [StartNext]_startVars, revoked, phase' # "down"
  PROVE  revoked'
<1>1. CASE Die \/ ScanRefuses \/ RevocationThrows
  BY <1>1 DEF Die, ScanRefuses, RevocationThrows
<1>2. CASE RevocationTick
  BY <1>2 DEF RevocationTick
<1>3. CASE revoked' = revoked
  BY <1>3
<1> QED
  BY <1>1, <1>2, <1>3 DEF StartNext, Launch, Tick, Scan, Answer, Land, RefreshFails, TimerFires,
     OperatorRefresh, Publish, WriteRevFile, HandlerTick, RetentionSweep,
     WriteTrigger, WatcherReads, WatcherIngests, WatcherTruncates, TruncateFails, startVars

LEMMA RowOnce ==
  ASSUME NEW list \in Seq(LogKinds),
         \A i, j \in 1 .. Len(list) :
           list[i] = "bootstrap-revoked" /\ list[j] = "bootstrap-revoked" => i = j
  PROVE  Cardinality({i \in DOMAIN list : list[i] = "bootstrap-revoked"}) <= 1
<1> DEFINE S == {i \in DOMAIN list : list[i] = "bootstrap-revoked"}
<1>1. \A i, j \in S : i = j
  <2>1. DOMAIN list = 1 .. Len(list)
    OBVIOUS
  <2> QED
    BY <2>1
<1>2. CASE S = {}
  <2>1. Cardinality(S) = 0
    BY <1>2, FS_EmptySet
  <2> HIDE DEF S
  <2>2. Cardinality(S) <= 1
    BY <2>1
  <2> QED
    BY <2>2 DEF S
<1>3. CASE S # {}
  <2>1. PICK i : S = {i}
    BY <1>1, <1>3
  <2> HIDE DEF S
  <2>2. Cardinality({i}) = 1
    BY FS_Singleton
  <2>3. Cardinality(S) = 1
    BY <2>1, <2>2
  <2> QED
    BY <2>3 DEF S
<1> QED
  BY <1>2, <1>3

(* No refresh loses the last good list, completes a failed boot or takes back a revocation,
   whose row is written once (CrlCache.refresh, BootOrchestrator.boot, RevocationPoller). *)
THEOREM ReadinessKept == StartSpec => ReadinessHolds
<1>1. StartInv /\ [StartNext]_startVars =>
        \A a \in Anchors :
          (phase' # "down" /\ entries'[a].ver < entries[a].ver) =>
             \E p \in Slots : /\ passes[p].kind # "idle"
                              /\ Head(passes[p].todo) = a
                              /\ passes[p].overlapped
  BY ListsStay
<1>2. StartInv /\ [StartNext]_startVars =>
        ((phase = "up" /\ ~booted /\ phase' # "down") => ~Ready')
  BY BootSticks, ReadyNeeds
<1>3. StartInv /\ StartInv' /\ [StartNext]_startVars =>
        ((revoked /\ phase' # "down") =>
           /\ ~Ready'
           /\ Cardinality({i \in DOMAIN log' : log'[i] = "bootstrap-revoked"}) <= 1)
  <2>1. StartInv' => Cardinality({i \in DOMAIN log' : log'[i] = "bootstrap-revoked"}) <= 1
    BY RowOnce DEF StartInv, LogInv
  <2> QED
    BY <2>1, RevokedSticks, ReadyNeeds
<1>4. StartSpec => LastGoodStays
  BY <1>1, StartAlways, PTL DEF StartSpec, LastGoodStays
<1>5. StartSpec => FailedBootSticks
  BY <1>2, StartAlways, PTL DEF StartSpec, FailedBootSticks
<1>6. StartSpec => RevokedStaysUnready
  BY <1>3, StartAlways, PTL DEF StartSpec, RevokedStaysUnready
<1> QED
  BY <1>4, <1>5, <1>6 DEF ReadinessHolds
=============================================================================
