-------------------------- MODULE PermissionResolver --------------------------
(***************************************************************************)
(* The permission resolver: a capability gate, a control that the agent    *)
(* card may only tighten, and the dispatch of the resulting control        *)
(* (permission/resolver.ts), with the variant of GET /permissions/resolve  *)
(* and POST /permissions/decisions that stops before the dispatch          *)
(* (permission/resolve-for-query.ts).                                      *)
(***************************************************************************)
EXTENDS Integers

RiskClasses == {"ReadOnly", "Mutating", "Egress", "Destructive"}
Capabilities == {"ReadOnly", "WorkspaceWrite", "DangerFullAccess"}
Controls == {"AutoAllow", "Prompt", "Deny"}
Requirements == Controls \cup {"none"}   \* "none": the card has no entry
Roles == {"Interactive", "Coordinator", "Autonomous"}
Attested == {"none", "allow", "deny"}    \* what a verified PDA for the tool says

\* CAPABILITY_PERMITS.
Permits(capability) ==
  CASE capability = "ReadOnly"         -> {"ReadOnly"}
    [] capability = "WorkspaceWrite"   -> {"ReadOnly", "Mutating", "Egress"}
    [] capability = "DangerFullAccess" -> RiskClasses

\* CONTROL_RANK.
Rank(control) ==
  CASE control = "AutoAllow" -> 0
    [] control = "Prompt"    -> 1
    [] control = "Deny"      -> 2

Loosens(default, requirement) ==
  requirement # "none" /\ Rank(requirement) < Rank(default)

\* The control after the tighten-only override.
Tightened(default, requirement) ==
  IF requirement = "none" THEN default ELSE requirement

\* resolvePermissionForQuery: the decision field of its answer.
QueryDecision(capability, risk, default, requirement) ==
  IF risk \notin Permits(capability) THEN "CapabilityDenied"
  ELSE IF Loosens(default, requirement) THEN "ConfigPrecedenceViolation"
  ELSE Tightened(default, requirement)

\* resolvePermission: "throws" when the override loosens the default.
Resolution(capability, risk, default, requirement, role, attested) ==
  LET control == Tightened(default, requirement)
  IN  IF risk \notin Permits(capability) THEN "deny"
      ELSE IF Loosens(default, requirement) THEN "throws"
      ELSE IF role = "Autonomous" /\ risk = "Destructive" THEN "deny"
      ELSE IF control = "Deny" THEN "deny"
      ELSE IF control = "AutoAllow" THEN "allow"
      ELSE IF attested = "none" THEN "prompt" ELSE attested

\* resolverImpliesPdaDecision: what a PDA that goes with a decision may say.
Implied(decision) ==
  IF decision = "AutoAllow" THEN {"allow"}
  ELSE IF decision = "Prompt" THEN {"allow", "deny"}
  ELSE {"deny"}
=============================================================================
