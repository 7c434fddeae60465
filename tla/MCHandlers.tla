----------------------------- MODULE MCHandlers -----------------------------
\* Keys and PDAs for model checking Handlers.
EXTENDS Handlers

CONSTANTS auto, human, spare

\* an Autonomous key near the end of its life with an overlap window, an
\* Interactive key as enrolled at boot, and one that may be enrolled later
MCEnrolled ==
    [k \in Kids |->
        CASE k = auto -> [role |-> "Autonomous", at |-> -2, overlap |-> 0]
          [] k = human -> [role |-> "Interactive", at |-> 0, overlap |-> None]
          [] OTHER -> None]

MCPdas == {[kid |-> auto, from |-> 0, to |-> 1, good |-> TRUE],
           [kid |-> spare, from |-> 0, to |-> 0, good |-> TRUE]}

\* no date at all: such a key never grows old
MCIssuedAts == {None}
=============================================================================
