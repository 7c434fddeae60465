----------------------------- MODULE MCDecisions -----------------------------
EXTENDS Decisions, TLC

Shape(risk, control, require, pda, role, says, residency) ==
  [risk |-> risk, control |-> control, require |-> require, pda |-> pda, role |-> role,
   says |-> says, residency |-> residency]

Plain      == Shape("ReadOnly", "AutoAllow", "none", "none", "Interactive", "allow", "unpinned")
Malformed  == [Plain EXCEPT !.pda = "malformed"]
Unusable   == [Plain EXCEPT !.pda = "unusable"]
Forged     == [Plain EXCEPT !.pda = "forged"]
\* The mode does not permit the tool, and the PDA allows it all the same.
Mismatched == [Plain EXCEPT !.risk = "Destructive", !.control = "Prompt", !.pda = "valid"]
\* The card tightens a mutating tool to Prompt; an agent without a human signs.
Escalating == [Plain EXCEPT !.risk = "Mutating", !.require = "Prompt", !.pda = "valid",
                            !.role = "Autonomous"]
Coordinated == [Escalating EXCEPT !.role = "Coordinator"]
Violating  == [Plain EXCEPT !.residency = "violates"]

Setting(shapes, requests, maxTokens) ==
  [mode |-> "WorkspaceWrite", preHook |-> FALSE, postHook |-> FALSE, escalation |-> TRUE, pda |-> TRUE,
   memoryFails |-> FALSE, serial |-> FALSE, patient |-> FALSE,
   shapes |-> shapes, requests |-> requests, maxTokens |-> maxTokens,
   turnTokens |-> 1, coldStart |-> 1, warmTurn |-> 1, minSamples |-> 3]

\* Two requests in flight at once, with a hook and a tight budget.
Concurrent == [Setting({Plain}, 2, 2) EXCEPT !.preHook = TRUE, !.coldStart = 2]
\* Every way a decision is refused and one a human may approve, one at a time,
\* with a memory backend that is down.
OneAtATime == [Setting({Malformed, Unusable, Mismatched, Escalating, Violating}, 3, 4)
                 EXCEPT !.memoryFails = TRUE, !.serial = TRUE, !.patient = TRUE,
                        !.turnTokens = 2, !.coldStart = 2, !.warmTurn = 3]
\* Two requests, a hook after the decision, no key to verify a PDA with.
Hooked == [Setting({Plain, Unusable}, 2, 2) EXCEPT !.postHook = TRUE, !.pda = FALSE]
\* One request whose PDA is forged or whose handler may not answer a prompt.
Lone == [Setting({Forged, Coordinated, Escalating}, 1, 2) EXCEPT !.escalation = FALSE]
\* Three plain requests and a budget that does not bind.
Resubmitting == Setting({Plain}, 3, 9)

ConcurrentAndSerial == [concurrent |-> Concurrent, serial |-> OneAtATime]
HookedAndLone == [hooked |-> Hooked, lone |-> Lone]
ResubmittingOnly == [resubmitting |-> Resubmitting]
Symmetry == Permutations(Requests)
=============================================================================
