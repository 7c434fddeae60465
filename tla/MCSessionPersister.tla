-------------------------- MODULE MCSessionPersister --------------------------
(* Instances of SessionPersister for TLC: POSIX and Windows write sequences.  *)
EXTENDS SessionPersister
=============================================================================
