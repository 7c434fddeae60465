----------------------------- MODULE SideEffects -----------------------------
(***************************************************************************)
(* The rows of workflow.side_effects in a session file, and what each      *)
(* writer of the file does to them.  A row keeps its idempotency key, its  *)
(* phase and the audit record id cached for replays; tool, digests and     *)
(* timestamps are left out.                                                *)
(***************************************************************************)
EXTENDS Naturals, Sequences, SequencesExt, FiniteSetsExt

CONSTANT NoAudit   \* a row without _audit_record_id

Phases == {"pending", "inflight", "committed", "compensated"}
Open   == {"pending", "inflight"}

(* The row pushed by bracket-persist before the decision is made. *)
PendingRow(key) == [key |-> key, phase |-> "pending", aud |-> NoAudit]

(* The same row once the decision is on the audit chain, or was refused. *)
CommitRow(rows, i, aud) ==
  [rows EXCEPT ![i] = [@ EXCEPT !.phase = "committed", !.aud = aud]]

CompensateRow(rows, i) == [rows EXCEPT ![i] = [@ EXCEPT !.phase = "compensated"]]

CacheHitsOpen(rows, key) ==
  {i \in DOMAIN rows : rows[i].key = key /\ rows[i].phase \in Open /\ rows[i].aud # NoAudit}

CacheHitsAnyKey(rows, key) ==
  {i \in DOMAIN rows : rows[i].phase = "committed" /\ rows[i].aud # NoAudit}

(* The rows a replayed request may be answered from. *)
CacheHits(rows, key) ==
  {i \in DOMAIN rows : /\ rows[i].key = key
                       /\ rows[i].phase = "committed"
                       /\ rows[i].aud # NoAudit}

(* side_effects.find(...): the earliest hit. *)
FirstHit(rows, key) == rows[Min(CacheHits(rows, key))]

ResumeRowForced(row) ==
  [row EXCEPT !.phase = IF @ = "inflight" THEN "compensated" ELSE "committed"]

(* Step 4 of the resume algorithm on one row: a pending row is replayed and
   committed (without a cached audit id), an inflight one is compensated. *)
ResumeRow(row) ==
  CASE row.phase = "pending"  -> [row EXCEPT !.phase = "committed"]
    [] row.phase = "inflight" -> [row EXCEPT !.phase = "compensated"]
    [] OTHER                  -> row

ResumeRows(rows) == [i \in DOMAIN rows |-> ResumeRow(rows[i])]
=============================================================================
