------------------------------ MODULE MCResume -------------------------------
EXTENDS Resume

Row(k, phase) == [key |-> k, phase |-> phase, aud |-> NoAudit]
File(format, status, card, pool, rows) ==
  [format |-> format, status |-> status, card |-> card, pool |-> pool, rows |-> rows]

CONSTANTS k1, k2

Brackets == {<<Row(k1, "compensated"), Row(k2, "committed"), Row(k2, "pending")>>,
             <<Row(k1, "pending"), Row(k2, "inflight")>>,
             <<Row(k1, "committed"), Row(k1, "pending")>>}

Healthy == {File("ok", "Planning", "served", "served", b) : b \in Brackets}
Broken  == {File("corrupt", "Planning", "served", "served", <<>>),
            File("invalid", "Planning", "served", "served", <<>>),
            File("ok", "Succeeded", "served", "served", <<Row(k1, "committed")>>),
            File("ok", "Planning", "drifted", "served", <<Row(k1, "pending")>>),
            File("ok", "Planning", "served", "stale", <<Row(k1, "pending")>>)}
AllFiles == Healthy \cup Broken
KeySet == {k1, k2}
KeySet2 == {k2}
=============================================================================
