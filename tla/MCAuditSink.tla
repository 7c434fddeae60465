----------------------------- MODULE MCAuditSink -----------------------------
EXTENDS AuditSink, TLC

Symmetry == Permutations(Rows)
=============================================================================
