--------------------------- MODULE MutationGrade ---------------------------
(***************************************************************************)
(* The mutation-testing dispatcher of cli/mutation: how the per-language   *)
(* outcomes of one run are combined into the single report the scorer      *)
(* turns into a multiplier.  Pure operators; MutationRun.tla is the state  *)
(* machine that produces the outcomes.                                     *)
(*                                                                         *)
(* A multiplier is a whole percentage (100 is MULTIPLIER_PASSED, 85 is     *)
(* MULTIPLIER_DEGRADED and MULTIPLIER_UNAVAILABLE, 50 is                   *)
(* MULTIPLIER_FAILED).  The kill rate is never divided out: a threshold of *)
(* T percent over killed + survived is compared by cross-multiplication,   *)
(* which is exact where the code's quotient is rounded.                    *)
(***************************************************************************)
EXTENDS Integers, FiniteSetsExt

CONSTANTS
  Language,   \* the languages the dispatcher has a runner for
  MinSample   \* mutants that must be tested before a tier applies

ASSUME MinSampleAssumption == MinSample \in Nat

Status == {"ran", "unavailable", "not_configured"}

Grade == {"passed", "degraded", "failed", "not_applicable", "insufficient_sample"}

Multiplier == {50, 85, 100}

ReasonCode ==
  { "none", "weak_assertion_coverage", "decorative_coverage", "unavailable", "skipped",
    "no_source_changes", "no_coverable_lines", "insufficient_sample", "not_configured",
    "unconfigured_language_present" }

Report == [available : BOOLEAN, grade : Grade, multiplier : Multiplier, reason : ReasonCode]

-----------------------------------------------------------------------------
(* LanguageRunResult: what one runner reports.                              *)

Outcome(status, killed, survived, timeout) ==
  [status |-> status, killed |-> killed, survived |-> survived, timeout |-> timeout]

Ran(killed, survived, timeout) == Outcome("ran", killed, survived, timeout)

\* A runner that found nothing to mutate (a docstring-only diff, or a file
\* outside source_paths) says "ran" with zero counts.
ExemptRun == Ran(0, 0, 0)

Unavailable == Outcome("unavailable", 0, 0, 0)

NotConfigured == Outcome("not_configured", 0, 0, 0)

-----------------------------------------------------------------------------
(* The report constructors of mutation/common.py.                           *)

NotApplicableReport(reason) ==
  [available |-> FALSE, grade |-> "not_applicable", multiplier |-> 100, reason |-> reason]

UnavailableReport(reason) ==
  [available |-> FALSE, grade |-> "degraded", multiplier |-> 85, reason |-> reason]

SkippedReport == UnavailableReport("skipped")

AtLeast(percent, killed, denom) == 100 * killed >= percent * denom

GradeFromScore(killed, denom) ==
  IF AtLeast(80, killed, denom)
    THEN [available |-> TRUE, grade |-> "passed", multiplier |-> 100, reason |-> "none"]
  ELSE IF AtLeast(60, killed, denom)
    THEN [available |-> TRUE, grade |-> "degraded", multiplier |-> 85,
          reason |-> "weak_assertion_coverage"]
  ELSE [available |-> TRUE, grade |-> "failed", multiplier |-> 50,
        reason |-> "decorative_coverage"]

-----------------------------------------------------------------------------
(* The tail of _combine_results, once at least one language ran.            *)

GradeCounts(killed, survived, timeout) ==
  LET tested == killed + survived + timeout
      denom  == killed + survived
  IN  IF tested = 0 THEN NotApplicableReport("no_coverable_lines")
      ELSE IF tested < MinSample \/ denom = 0
        THEN [available |-> TRUE, grade |-> "insufficient_sample", multiplier |-> 100,
              reason |-> "insufficient_sample"]
      ELSE GradeFromScore(killed, denom)

\* Mistake: the cap replaces the multiplier instead of bounding it.
OverrideForUnconfiguredLanguage(report, unconfigured) ==
  IF ~unconfigured THEN report
  ELSE [report EXCEPT !.multiplier = 85, !.grade = "degraded",
                      !.reason = "unconfigured_language_present"]

\* A touched language with no tool caps the report: never better than
\* "degraded", never an improvement on what the other languages earned.
CapForUnconfiguredLanguage(report, unconfigured) ==
  IF ~unconfigured THEN report
  ELSE [report EXCEPT
          !.multiplier = IF @ > 85 THEN 85 ELSE @,
          !.grade = IF @ \in {"passed", "not_applicable", "insufficient_sample"}
                      THEN "degraded" ELSE @,
          !.reason = "unconfigured_language_present"]

WithStatus(results, status) == {l \in DOMAIN results : results[l].status = status}

\* The sum of one count over the languages that ran.
Total(results, count) == SumFunction([l \in WithStatus(results, "ran") |-> results[l][count]])

CombineResults(results) ==
  IF WithStatus(results, "ran") = {}
    THEN UnavailableReport(IF WithStatus(results, "unavailable") # {}
                             THEN "unavailable" ELSE "not_configured")
    ELSE CapForUnconfiguredLanguage(
           GradeCounts(Total(results, "killed"), Total(results, "survived"),
                       Total(results, "timeout")),
           WithStatus(results, "not_configured") # {})

\* `results` has one entry per language the diff touches outside its tests.
RunMutationTesting(results) ==
  IF DOMAIN results = {} THEN NotApplicableReport("no_source_changes")
                         ELSE CombineResults(results)
=============================================================================
