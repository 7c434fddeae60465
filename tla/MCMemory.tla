------------------------------ MODULE MCMemory ------------------------------
\* Values of the constants for model checking Memory.
EXTENDS Memory

CONSTANTS seed, a

\* One more without a service to wait for: a prefetch may time out,
\* one succeed and one time out again after the probe.
MCMaxCalls == [k \in Kinds |-> IF k \in {"zep", "mem0"} THEN 3 ELSE 4]

MCFaults == {[hang |-> -1, error |-> None], [hang |-> 1, error |-> None], [hang |-> -1, error |-> "search"]}
=============================================================================
