------------------------------- MODULE Scorer -------------------------------
(***************************************************************************)
(* cli/scorer.py: the Release Confidence Score of one run, from the        *)
(* evidence its other stages collected.                                    *)
(*                                                                         *)
(* Scores are integers.  A raw score is in hundredths of a point (0 to     *)
(* 10000); weights and multipliers are whole percentages; so the weighted  *)
(* total is in millionths of a point and fits TLC's 32-bit integers.  The  *)
(* arithmetic is exact where the code's floats are not; the two can only   *)
(* disagree on a total that lies exactly between two scores.               *)
(***************************************************************************)
EXTENDS MutationGrade, GovernanceRules

TestTotals == [passed : Nat, failed : Nat, errored : Nat, skipped : Nat, flaky : Nat]

\* A line rate is a whole percentage.
Percent == 0..100

PatchReason == {"none", "no_coverable_lines"}

PatchCoverage == [available : BOOLEAN, rate : Percent, reason : PatchReason]

ReviewState == {"approved", "changes_requested", "pending", "not_applicable"}

PullRequest == [present : BOOLEAN, approvers : Nat, required : Nat, review : ReviewState]

\* "absent" is a run without --sarif; "unavailable" one whose input is broken.
SarifReport ==
  [state : {"absent", "unavailable", "available"},
   patchErrors : Nat, patchWarnings : Nat, errors : Nat]

Evidence ==
  [tests : TestTotals, overall : Percent, patch : PatchCoverage, pr : PullRequest,
   governance : GovernanceReport, sarif : SarifReport, mutation : Report]

-----------------------------------------------------------------------------
AtMost(x, cap) == IF x > cap THEN cap ELSE x

Clamp(raw) == IF raw < 0 THEN 0 ELSE AtMost(raw, 10000)

Executed(t) == t.passed + t.failed + t.errored

TestHealth(t) ==
  IF Executed(t) = 0 THEN 0
  ELSE Clamp((10000 * t.passed) \div Executed(t) - AtMost(400 * t.flaky, 3000))

\* An unmeasured patch falls back to 70% of the overall line rate.
PatchScore(patch, overall) ==
  IF patch.available THEN 100 * patch.rate ELSE 70 * overall

OverallScore(overall) == 100 * overall

ApprovalRatio(pr) ==
  LET full == AtMost((10000 * pr.approvers) \div pr.required, 10000)
  IN  IF pr.review # "approved" /\ pr.approvers > 0 THEN full \div 2 ELSE full

ReviewScore(pr) ==
  IF ~pr.present THEN 5000
  ELSE IF pr.review = "changes_requested" THEN 0
  ELSE IF pr.required = 0 THEN 6000
  ELSE ApprovalRatio(pr)

\* Mistake: losing the report costs less than a report that says "bypass".
UnverifiedPenaltyTooSmall == 2000

UnverifiedPenalty == 3500
BypassPenalty == 3500

GovernanceScore(pr, report) ==
  IF ~report.available THEN Clamp(ReviewScore(pr) - UnverifiedPenalty)
  ELSE IF BypassPermitsUnreviewedChange(report) THEN Clamp(ReviewScore(pr) - BypassPenalty)
  ELSE ReviewScore(pr)

\* Mistake: a broken scan counts as one that found nothing.
StaticAnalysisIgnoringBroken(sarif) ==
  IF sarif.state # "available" THEN 10000 ELSE Clamp(10000 - 2500 * sarif.patchErrors)

\* A finding of this patch costs far more than one that was there before.
StaticAnalysisScore(sarif) ==
  LET legacy == IF sarif.errors > sarif.patchErrors THEN sarif.errors - sarif.patchErrors ELSE 0
  IN  IF sarif.state = "absent" THEN 10000
      ELSE IF sarif.state = "unavailable" THEN 7500
      ELSE Clamp(10000 - 2500 * sarif.patchErrors - 500 * sarif.patchWarnings
                       - AtMost(200 * legacy, 1500))

\* Mistake: weights that add up to more than the whole.
ClusterSumOverweight(ev) ==
  35 * TestHealth(ev.tests) + 20 * PatchScore(ev.patch, ev.overall) + 15 * OverallScore(ev.overall)

\* The part of the score the mutation multiplier applies to.
ClusterSum(ev) ==
  30 * TestHealth(ev.tests) + 20 * PatchScore(ev.patch, ev.overall) + 15 * OverallScore(ev.overall)

TotalWeighted(ev) ==
  ClusterSum(ev) * ev.mutation.multiplier
    + 100 * (20 * GovernanceScore(ev.pr, ev.governance) + 15 * StaticAnalysisScore(ev.sarif))

\* Python's round(): to the nearest point, a tie to the even one.
RoundHalfEven(total) ==
  LET point == total \div 1000000
      rest  == total % 1000000
  IN  IF rest > 500000 \/ (rest = 500000 /\ point % 2 = 1) THEN point + 1 ELSE point

\* 100 points, in the unit of the total.
FullScore == 100000000

ScoreValue(ev) ==
  LET total == TotalWeighted(ev)
  IN  RoundHalfEven(IF total < 0 THEN 0 ELSE AtMost(total, FullScore))

-----------------------------------------------------------------------------
(* degraded_reasons.  A reason is the control it names and why, as the      *)
(* code's "control:reason_code" strings are.                               *)

DegradedReason ==
  {"patch_coverage", "mutation_testing", "review", "sarif", "branch_governance"}
    \X (ReasonCode \cup {"no_pr_context", "platform_unsupported_tier", "unverified", "bypass_permitted"})

PatchReasons(patch) ==
  IF patch.available THEN {}
  ELSE {<<"patch_coverage", IF patch.reason # "none" THEN patch.reason ELSE "unavailable">>}

MutationReasons(report) ==
  IF report.reason \in {"none", "no_source_changes", "insufficient_sample"} THEN {}
  ELSE {<<"mutation_testing", report.reason>>}

ReviewReasons(pr) == IF pr.present THEN {} ELSE {<<"review", "no_pr_context">>}

\* Mistake: a broken scan costs points but leaves no reason.
SarifReasonsForgotten(sarif) == {}

SarifReasons(sarif) ==
  IF sarif.state = "unavailable" THEN {<<"sarif", "unavailable">>} ELSE {}

GovernanceReasons(report) ==
  IF ~report.available
    THEN {<<"branch_governance", IF report.reason # "none" THEN report.reason ELSE "unverified">>}
  ELSE IF BypassPermitsUnreviewedChange(report)
    THEN {<<"branch_governance", "bypass_permitted">>}
  ELSE {}

DegradedReasons(ev) ==
  PatchReasons(ev.patch) \cup MutationReasons(ev.mutation) \cup ReviewReasons(ev.pr)
    \cup SarifReasons(ev.sarif) \cup GovernanceReasons(ev.governance)

ScorePipeline(ev) == [value |-> ScoreValue(ev), reasons |-> DegradedReasons(ev)]
=============================================================================
