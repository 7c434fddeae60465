----------------------------- MODULE MCObserve ------------------------------
\* Observe for model checking.
EXTENDS Observe

CONSTANT x
=============================================================================
