-------------------------- MODULE GovernanceRules --------------------------
(***************************************************************************)
(* The pure part of cli/parsers/github_rules.py: what is derived from the  *)
(* effective rules of a branch and from the bypass actors of its rulesets, *)
(* and when the resulting report says that an unreviewed change can land.  *)
(***************************************************************************)
EXTENDS Integers, Sequences

\* Rule types of the rules-for-branch response that any derivation reads.
RuleType == {"pull_request", "non_fast_forward", "deletion", "required_linear_history"}

\* "other" stands for a missing or unrecognised bypass_mode.
BypassMode == {"always", "pull_request", "other"}

GovReasonCode == {"none", "platform_unsupported_tier"}

\* A report of inspect_branch_governance, without its prose.
GovernanceReport ==
  [available : BOOLEAN, pullRequestRequired : BOOLEAN, directPushPrevented : BOOLEAN,
   bypassActors : Nat, adminEnforced : BOOLEAN, linearHistory : BOOLEAN,
   forcePushesBlocked : BOOLEAN, deletionsBlocked : BOOLEAN, warned : BOOLEAN,
   reason : GovReasonCode]

UnavailableGovernance(reason) ==
  [available |-> FALSE, pullRequestRequired |-> FALSE, directPushPrevented |-> FALSE,
   bypassActors |-> 0, adminEnforced |-> FALSE, linearHistory |-> FALSE,
   forcePushesBlocked |-> FALSE, deletionsBlocked |-> FALSE, warned |-> FALSE,
   reason |-> reason]

\* _classify_bypass_actors: an allowlist, so an unknown mode is a full bypass.
AdminEnforced(modes) == \A i \in DOMAIN modes : modes[i] = "pull_request"

\* The report built once both fetches returned: `rules` is the set of rule
\* types present, `modes` the sequence of bypass modes collected, and
\* `bypassUnknown` says that enumerating them failed.
DeriveReport(rules, modes, bypassUnknown) ==
  [available |-> TRUE,
   pullRequestRequired |-> "pull_request" \in rules,
   directPushPrevented |-> "pull_request" \in rules,
   bypassActors |-> Len(modes),
   adminEnforced |-> AdminEnforced(modes),
   linearHistory |-> "required_linear_history" \in rules,
   forcePushesBlocked |-> "non_fast_forward" \in rules,
   deletionsBlocked |-> "deletion" \in rules,
   warned |-> bypassUnknown,
   reason |-> "none"]

\* bypass_permits_unreviewed_change.
BypassPermitsUnreviewedChange(report) ==
  \/ ~report.pullRequestRequired
  \/ ~report.directPushPrevented
  \/ report.bypassActors > 0
  \/ ~report.adminEnforced
=============================================================================
