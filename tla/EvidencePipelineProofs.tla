------------------------ MODULE EvidencePipelineProofs ------------------------
(***************************************************************************)
(* Theorems of EvidencePipeline, for any set of languages, any evidence    *)
(* and any gate, after facts about the pure operators of Scorer and        *)
(* MutationGrade, for every input: the ranges of the parts of a score, and *)
(* the types of reports.                                                   *)
(***************************************************************************)
EXTENDS EvidencePipeline, FiniteSetTheorems, TLAPS

\* A raw score.  (The provers are at home with bounds, not with long ranges.)
Raw == {x \in Int : 0 <= x /\ x <= 10000}

LEMMA AtMostRange ==
  ASSUME NEW x \in Nat, NEW cap \in Nat
  PROVE  AtMost(x, cap) \in Int /\ 0 <= AtMost(x, cap) /\ AtMost(x, cap) <= cap
BY SMT DEF AtMost

LEMMA HalfRange == ASSUME NEW x \in Raw PROVE x \div 2 \in Raw
BY SMT DEF Raw

LEMMA ClampRange == ASSUME NEW x \in Int PROVE Clamp(x) \in Raw
BY DEF Clamp, AtMost, Raw

LEMMA DivNat == ASSUME NEW a \in Nat, NEW b \in Nat, b > 0 PROVE a \div b \in Nat
BY SMT

LEMMA DivPercent ==
  ASSUME NEW a \in Nat, NEW b \in Nat, b > 0, a <= b
  PROVE  (100 * a) \div b \in 0..100
BY SMT

LEMMA TestHealthRange == ASSUME NEW t \in TestTotals PROVE TestHealth(t) \in Raw
<1>1. CASE Executed(t) = 0
  BY <1>1 DEF TestHealth, Raw
<1>2. CASE Executed(t) # 0
  <2>1. Executed(t) \in Nat /\ Executed(t) > 0 /\ 10000 * t.passed \in Nat
    BY <1>2 DEF Executed, TestTotals
  <2>2. (10000 * t.passed) \div Executed(t) \in Nat
    BY <2>1, DivNat
  <2>3. AtMost(400 * t.flaky, 3000) \in Int
    BY DEF AtMost, TestTotals
  <2>4. QED
    BY <1>2, <2>2, <2>3, ClampRange DEF TestHealth
<1>3. QED
  BY <1>1, <1>2

LEMMA PatchScoreRange ==
  ASSUME NEW patch \in PatchCoverage, NEW overall \in Percent
  PROVE  PatchScore(patch, overall) \in Raw
BY DEF PatchScore, PatchCoverage, Percent, Raw

LEMMA ReviewScoreRange == ASSUME NEW pr \in PullRequest PROVE ReviewScore(pr) \in Raw
<1>1. CASE pr.required = 0
  BY <1>1 DEF ReviewScore, PullRequest, Raw
<1>2. CASE pr.required # 0
  <2> DEFINE full == AtMost((10000 * pr.approvers) \div pr.required, 10000)
  <2>1. (10000 * pr.approvers) \div pr.required \in Nat
    <3>1. 10000 * pr.approvers \in Nat /\ pr.required \in Nat /\ pr.required > 0
      BY <1>2 DEF PullRequest
    <3>2. QED
      BY <3>1, DivNat
  <2>2. full \in Raw /\ full \div 2 \in Raw
    <3>1. full \in Raw
      BY SMT, <2>1, AtMostRange DEF Raw
    <3>2. QED
      BY <3>1, HalfRange
  <2>3. ApprovalRatio(pr) \in Raw
    <3>1. ApprovalRatio(pr) \in {full, full \div 2}
      BY DEF ApprovalRatio
    <3>2. QED
      BY <2>2, <3>1
  <2>4. QED
    BY <1>2, <2>3 DEF ReviewScore, Raw
<1>3. QED
  BY <1>1, <1>2

LEMMA GovernanceScoreRange ==
  ASSUME NEW pr \in PullRequest, NEW report \in GovernanceReport
  PROVE  GovernanceScore(pr, report) \in Raw
<1>1. ReviewScore(pr) \in Raw
  BY ReviewScoreRange
<1>2. ReviewScore(pr) - 3500 \in Int
  BY SMT, <1>1 DEF Raw
<1>3. Clamp(ReviewScore(pr) - 3500) \in Raw
  BY <1>2, ClampRange
<1>4. QED
  BY <1>1, <1>3 DEF GovernanceScore, UnverifiedPenalty, BypassPenalty

LEMMA StaticAnalysisScoreRange ==
  ASSUME NEW sarif \in SarifReport
  PROVE  StaticAnalysisScore(sarif) \in Raw
<1> DEFINE legacy == IF sarif.errors > sarif.patchErrors THEN sarif.errors - sarif.patchErrors ELSE 0
           rest == 10000 - 2500 * sarif.patchErrors - 500 * sarif.patchWarnings
                     - AtMost(200 * legacy, 1500)
<1>1. legacy \in Nat /\ sarif.patchErrors \in Nat /\ sarif.patchWarnings \in Nat
  BY SMT DEF SarifReport
<1>2. AtMost(200 * legacy, 1500) \in Int
  <2>1. 200 * legacy \in Nat
    BY SMT, <1>1
  <2>2. QED
    BY SMT, <2>1 DEF AtMost
<1>3. rest \in Int
  <2> HIDE DEF legacy
  <2>1. QED
    BY SMT, <1>1, <1>2
<1>4. Clamp(rest) \in Raw
  BY <1>3, ClampRange
<1>5. 10000 \in Raw /\ 7500 \in Raw
  BY SMT DEF Raw
<1>6. StaticAnalysisScore(sarif) \in {10000, 7500, Clamp(rest)}
  BY SMT DEF StaticAnalysisScore
<1>7. QED
  BY <1>4, <1>5, <1>6

LEMMA RoundRange ==
  ASSUME NEW total \in Int, 0 <= total, total <= 100000000
  PROVE  RoundHalfEven(total) \in 0..100
<1> DEFINE point == total \div 1000000
           rest  == total % 1000000
<1>1. point \in Int /\ 0 <= point /\ point <= 100
  BY SMT
<1>2. rest \in Int /\ (point = 100 => rest = 0)
  BY SMT
<1>3. RoundHalfEven(total) \in {point, point + 1} /\ (rest = 0 => RoundHalfEven(total) = point)
  BY SMT DEF RoundHalfEven
<1>4. QED
  <2> HIDE DEF point, rest
  <2>1. QED
    BY SMT, <1>1, <1>2, <1>3

\* Rounding keeps the order of two totals, and tells apart two that differ by
\* two points.
LEMMA RoundOrder ==
  ASSUME NEW a \in Int, NEW b \in Int, 0 <= a, a <= b
  PROVE  /\ RoundHalfEven(a) <= RoundHalfEven(b)
         /\ a + 2000000 <= b => RoundHalfEven(a) < RoundHalfEven(b)
<1> DEFINE point(t) == t \div 1000000
           rest(t)  == t % 1000000
           up(t)    == rest(t) > 500000 \/ (rest(t) = 500000 /\ point(t) % 2 = 1)
<1>1. \A t \in {a, b} : RoundHalfEven(t) = IF up(t) THEN point(t) + 1 ELSE point(t)
  BY SMT DEF RoundHalfEven
<1>2. /\ point(a) \in Int /\ point(b) \in Int /\ point(a) <= point(b)
      /\ a + 2000000 <= b => point(a) + 2 <= point(b)
  BY SMT
<1>3. point(a) = point(b) /\ up(a) => up(b)
  BY SMT
<1>4. QED
  <2> HIDE DEF point, up
  <2>1. QED
    BY SMT, <1>1, <1>2, <1>3

LEMMA ClusterSumRange ==
  ASSUME NEW found \in Evidence
  PROVE  ClusterSum(found) \in Int /\ 0 <= ClusterSum(found) /\ ClusterSum(found) <= 650000
<1>1. TestHealth(found.tests) \in Raw
  BY TestHealthRange DEF Evidence
<1>2. PatchScore(found.patch, found.overall) \in Raw
  BY PatchScoreRange DEF Evidence
<1>3. OverallScore(found.overall) \in Raw
  BY DEF OverallScore, Evidence, Percent, Raw
<1>4. QED
  BY SMT, <1>1, <1>2, <1>3 DEF ClusterSum, Raw

\* The score of any evidence, however extreme its counts, is 0 to 100 before
\* score_pipeline clamps it: the weights add up, and no component leaves its
\* scale.  So the clamp hides nothing, and the score is the rounded total.
THEOREM ScoreRange ==
  ASSUME NEW found \in Evidence
  PROVE  /\ TotalWeighted(found) \in 0..FullScore
         /\ ScoreValue(found) = RoundHalfEven(TotalWeighted(found))
         /\ ScoreValue(found) \in 0..100
<1> DEFINE cluster == ClusterSum(found)
           governance == GovernanceScore(found.pr, found.governance)
           analysis == StaticAnalysisScore(found.sarif)
<1>1. cluster \in Int /\ 0 <= cluster /\ cluster <= 650000
  BY ClusterSumRange
<1>2. governance \in Raw /\ analysis \in Raw
  BY GovernanceScoreRange, StaticAnalysisScoreRange DEF Evidence
<1>3. found.mutation.multiplier \in {50, 85, 100}
  BY DEF Evidence, Report, Multiplier
<1>4. /\ TotalWeighted(found) \in Int
      /\ 0 <= TotalWeighted(found)
      /\ TotalWeighted(found) <= 100000000
  <2>1. TotalWeighted(found)
          = cluster * found.mutation.multiplier + 100 * (20 * governance + 15 * analysis)
    BY DEF TotalWeighted
  <2> HIDE DEF cluster, governance, analysis
  <2>2. CASE found.mutation.multiplier = 50
    BY SMT, <1>1, <1>2, <2>1, <2>2 DEF Raw
  <2>3. CASE found.mutation.multiplier = 85
    BY SMT, <1>1, <1>2, <2>1, <2>3 DEF Raw
  <2>4. CASE found.mutation.multiplier = 100
    BY SMT, <1>1, <1>2, <2>1, <2>4 DEF Raw
  <2>5. QED
    BY <1>3, <2>2, <2>3, <2>4
<1>5. TotalWeighted(found) \in 0..FullScore
  <2>1. FullScore \in Int /\ TotalWeighted(found) <= FullScore
    BY SMT, <1>4 DEF FullScore
  <2>2. QED
    BY SMT, <1>4, <2>1
<1>6. ScoreValue(found) = RoundHalfEven(TotalWeighted(found))
  BY SMT, <1>4 DEF ScoreValue, AtMost, FullScore
<1>7. RoundHalfEven(TotalWeighted(found)) \in 0..100
  BY SMT, <1>4, RoundRange
<1>8. QED
  BY <1>5, <1>6, <1>7

\* Two bodies of evidence that differ only in a control the multiplier does
\* not touch are ordered as their scores for that control are.
LEMMA SameCluster ==
  ASSUME NEW e \in Evidence, NEW f \in Evidence, ClusterSum(e) = ClusterSum(f),
         e.mutation = f.mutation,
         GovernanceScore(e.pr, e.governance) <= GovernanceScore(f.pr, f.governance),
         StaticAnalysisScore(e.sarif) <= StaticAnalysisScore(f.sarif)
  PROVE  /\ ScoreValue(e) <= ScoreValue(f)
         /\ StaticAnalysisScore(e.sarif) + 2500 <= StaticAnalysisScore(f.sarif)
              => ScoreValue(e) < ScoreValue(f)
<1> DEFINE credit(g) == ClusterSum(g) * g.mutation.multiplier
           governance(g) == GovernanceScore(g.pr, g.governance)
           analysis(g) == StaticAnalysisScore(g.sarif)
<1>1. \A g \in {e, f} : TotalWeighted(g) = credit(g) + 100 * (20 * governance(g) + 15 * analysis(g))
  BY DEF TotalWeighted
<1>2. credit(e) = credit(f) /\ credit(e) \in Int /\ 0 <= credit(e)
  <2>1. ClusterSum(e) \in Int /\ 0 <= ClusterSum(e)
    BY ClusterSumRange
  <2>2. e.mutation.multiplier \in {50, 85, 100}
    BY DEF Evidence, Report, Multiplier
  <2>3. credit(e) = credit(f)
    OBVIOUS
  <2>4. CASE e.mutation.multiplier = 50
    BY SMT, <2>1, <2>3, <2>4
  <2>5. CASE e.mutation.multiplier = 85
    BY SMT, <2>1, <2>3, <2>5
  <2>6. CASE e.mutation.multiplier = 100
    BY SMT, <2>1, <2>3, <2>6
  <2>7. QED
    BY <2>2, <2>4, <2>5, <2>6
<1>3. \A g \in {e, f} : governance(g) \in Raw /\ analysis(g) \in Raw
  BY GovernanceScoreRange, StaticAnalysisScoreRange DEF Evidence
<1>4. governance(e) <= governance(f) /\ analysis(e) <= analysis(f)
  OBVIOUS
<1>5. /\ TotalWeighted(e) \in Int /\ TotalWeighted(f) \in Int
      /\ 0 <= TotalWeighted(e) /\ TotalWeighted(e) <= TotalWeighted(f)
      /\ analysis(e) + 2500 <= analysis(f) => TotalWeighted(e) + 2000000 <= TotalWeighted(f)
  <2> HIDE DEF credit, governance, analysis
  <2>1. QED
    BY SMT, <1>1, <1>2, <1>3, <1>4 DEF Raw
<1>6. /\ RoundHalfEven(TotalWeighted(e)) <= RoundHalfEven(TotalWeighted(f))
      /\ analysis(e) + 2500 <= analysis(f)
           => RoundHalfEven(TotalWeighted(e)) < RoundHalfEven(TotalWeighted(f))
  BY SMT, <1>5, RoundOrder
<1>7. ScoreValue(e) = RoundHalfEven(TotalWeighted(e)) /\ ScoreValue(f) = RoundHalfEven(TotalWeighted(f))
  BY ScoreRange
<1>8. QED
  BY <1>6, <1>7

\* No report of the branch's rules costs at most what any report costs.
LEMMA LosingGovernance ==
  ASSUME NEW pr \in PullRequest, NEW report \in GovernanceReport
  PROVE  GovernanceScore(pr, UnavailableGovernance("none")) <= GovernanceScore(pr, report)
<1> DEFINE review == ReviewScore(pr)
<1>1. review \in Raw
  BY ReviewScoreRange
<1>2. GovernanceScore(pr, UnavailableGovernance("none")) = Clamp(review - 3500)
  BY DEF GovernanceScore, UnavailableGovernance, UnverifiedPenalty
<1>3. GovernanceScore(pr, report) \in {Clamp(review - 3500), review}
  BY DEF GovernanceScore, UnverifiedPenalty, BypassPenalty
<1>4. Clamp(review - 3500) \in Int /\ Clamp(review - 3500) <= review
  <2> HIDE DEF review
  <2>1. QED
    BY SMT, <1>1 DEF Clamp, AtMost, Raw
<1>5. QED
  <2> HIDE DEF review
  <2>1. QED
    BY SMT, <1>2, <1>3, <1>4

-----------------------------------------------------------------------------
(* The mutation report.                                                     *)

LEMMA GradeCountsType ==
  ASSUME NEW killed, NEW survived, NEW timeout
  PROVE  GradeCounts(killed, survived, timeout) \in Report
BY DEF GradeCounts, GradeFromScore, NotApplicableReport, Report, Grade, Multiplier, ReasonCode

LEMMA CapType ==
  ASSUME NEW report \in Report, NEW unconfigured \in BOOLEAN
  PROVE  /\ CapForUnconfiguredLanguage(report, unconfigured) \in Report
         /\ unconfigured => CapForUnconfiguredLanguage(report, unconfigured).reason
                              = "unconfigured_language_present"
<1> DEFINE multiplier == IF report.multiplier > 85 THEN 85 ELSE report.multiplier
           grade == IF report.grade \in {"passed", "not_applicable", "insufficient_sample"}
                      THEN "degraded" ELSE report.grade
           capped == [report EXCEPT !.multiplier = multiplier, !.grade = grade,
                                    !.reason = "unconfigured_language_present"]
<1>1. CASE unconfigured = FALSE
  BY <1>1 DEF CapForUnconfiguredLanguage
<1>2. CASE unconfigured = TRUE
  <2>1. report.multiplier \in Multiplier /\ report.grade \in Grade
    BY DEF Report
  <2>2. multiplier \in Multiplier /\ grade \in Grade /\ "unconfigured_language_present" \in ReasonCode
    BY <2>1 DEF Multiplier, Grade, ReasonCode
  <2>3. CapForUnconfiguredLanguage(report, unconfigured) = capped
    BY <1>2 DEF CapForUnconfiguredLanguage, Report
  <2> HIDE DEF multiplier, grade
  <2>4. capped \in Report /\ capped.reason = "unconfigured_language_present"
    BY <2>2 DEF Report
  <2>5. QED
    BY <2>3, <2>4
<1>3. QED
  BY <1>1, <1>2

LEMMA RunMutationTestingType ==
  ASSUME NEW results
  PROVE  RunMutationTesting(results) \in Report
<1>1. \A reason \in ReasonCode : UnavailableReport(reason) \in Report /\ NotApplicableReport(reason) \in Report
  BY DEF UnavailableReport, NotApplicableReport, Report, Grade, Multiplier
<1>2. {"unavailable", "not_configured", "no_source_changes"} \subseteq ReasonCode
  BY DEF ReasonCode
<1>3. CombineResults(results) \in Report
  BY <1>1, <1>2, GradeCountsType, CapType DEF CombineResults
<1>4. QED
  BY <1>1, <1>2, <1>3 DEF RunMutationTesting

\* When a language was touched, a report whose reason the strict gate lets
\* through has a language that ran and no language without a tool.
LEMMA RunMutationTestingReason ==
  ASSUME NEW results, DOMAIN results # {},
         WithStatus(results, "ran") = {} \/ WithStatus(results, "not_configured") # {}
  PROVE  RunMutationTesting(results).reason
           \in {"unavailable", "not_configured", "unconfigured_language_present"}
<1>1. RunMutationTesting(results) = CombineResults(results)
  BY DEF RunMutationTesting
<1>2. CASE WithStatus(results, "ran") = {}
  BY <1>1, <1>2 DEF CombineResults, UnavailableReport
<1>3. CASE WithStatus(results, "ran") # {}
  <2> DEFINE graded == GradeCounts(Total(results, "killed"), Total(results, "survived"),
                                   Total(results, "timeout"))
             unconfigured == WithStatus(results, "not_configured") # {}
  <2>1. graded \in Report /\ unconfigured \in BOOLEAN /\ unconfigured
    BY <1>3, GradeCountsType
  <2>2. CombineResults(results) = CapForUnconfiguredLanguage(graded, unconfigured)
    BY <1>3 DEF CombineResults
  <2> HIDE DEF graded, unconfigured
  <2>3. QED
    BY <1>1, <2>1, <2>2, CapType
<1>4. QED
  BY <1>2, <1>3

-----------------------------------------------------------------------------
(* One language more, without a tool.                                       *)

\* The report is capped by one more language without a tool, and the counts it
\* is graded by are the same: the sums are of the same function.
LEMMA OneMoreUnconfigured ==
  ASSUME NEW results, NEW l, l \notin DOMAIN results
  PROVE  LET more == [k \in DOMAIN results \cup {l} |->
                        IF k = l THEN NotConfigured ELSE results[k]]
         IN  RunMutationTesting(more).multiplier <= RunMutationTesting(results).multiplier
<1> DEFINE more == [k \in DOMAIN results \cup {l} |->
                      IF k = l THEN NotConfigured ELSE results[k]]
           graded(r) == GradeCounts(Total(r, "killed"), Total(r, "survived"), Total(r, "timeout"))
<1>1. /\ DOMAIN more = DOMAIN results \cup {l}
      /\ more[l].status = "not_configured"
      /\ \A k \in DOMAIN results : more[k] = results[k]
  BY DEF NotConfigured, Outcome
<1> HIDE DEF more
<1>2. /\ WithStatus(more, "ran") = WithStatus(results, "ran")
      /\ l \in WithStatus(more, "not_configured")
  BY <1>1 DEF WithStatus
<1>3. \A count : Total(more, count) = Total(results, count)
  <2> TAKE count
  <2>1. [k \in WithStatus(more, "ran") |-> more[k][count]]
          = [k \in WithStatus(results, "ran") |-> results[k][count]]
    BY <1>1, <1>2 DEF WithStatus
  <2>2. QED
    BY <2>1 DEF Total
<1>4. SUFFICES RunMutationTesting(more).multiplier <= RunMutationTesting(results).multiplier
  BY DEF more
<1>5. RunMutationTesting(more) = CombineResults(more)
  BY <1>1 DEF RunMutationTesting
<1>6. CASE WithStatus(results, "ran") = {}
  <2>1. RunMutationTesting(more).multiplier = 85
    BY <1>2, <1>5, <1>6 DEF CombineResults, UnavailableReport
  <2>2. RunMutationTesting(results).multiplier \in {85, 100}
    BY <1>6 DEF RunMutationTesting, CombineResults, UnavailableReport, NotApplicableReport
  <2>3. QED
    BY <2>1, <2>2
<1>7. CASE WithStatus(results, "ran") # {}
  <2>1. graded(more) = graded(results) /\ graded(results) \in Report
    BY <1>3, GradeCountsType
  <2>2. RunMutationTesting(more) = CapForUnconfiguredLanguage(graded(results), TRUE)
    BY <1>2, <1>5, <1>7, <2>1 DEF CombineResults
  <2>3. \E b \in BOOLEAN :
          RunMutationTesting(results) = CapForUnconfiguredLanguage(graded(results), b)
    BY <1>7 DEF RunMutationTesting, CombineResults, WithStatus
  <2> HIDE DEF graded
  <2>4. CapForUnconfiguredLanguage(graded(results), TRUE).multiplier
          = IF graded(results).multiplier > 85 THEN 85 ELSE graded(results).multiplier
    BY <2>1 DEF CapForUnconfiguredLanguage, Report
  <2>5. \A b \in BOOLEAN :
          CapForUnconfiguredLanguage(graded(results), b).multiplier
            \in {graded(results).multiplier,
                 IF graded(results).multiplier > 85 THEN 85 ELSE graded(results).multiplier}
    BY <2>1 DEF CapForUnconfiguredLanguage, Report
  <2>6. graded(results).multiplier \in {50, 85, 100}
    BY <2>1 DEF Report, Multiplier
  <2> DEFINE m == graded(results).multiplier
  <2>7. RunMutationTesting(more).multiplier = IF m > 85 THEN 85 ELSE m
    BY <2>2, <2>4
  <2>8. RunMutationTesting(results).multiplier \in {m, IF m > 85 THEN 85 ELSE m}
    BY <2>3, <2>5
  <2>9. m \in {50, 85, 100}
    BY <2>6
  <2> HIDE DEF m
  <2>10. QED
    BY <2>7, <2>8, <2>9
<1>8. QED
  BY <1>6, <1>7

\* A smaller multiplier, all else equal, is no better score.
LEMMA SmallerMultiplier ==
  ASSUME NEW found \in Evidence, NEW report \in Report,
         report.multiplier <= found.mutation.multiplier
  PROVE  ScoreValue([found EXCEPT !.mutation = report]) <= ScoreValue(found)
<1> DEFINE less == [found EXCEPT !.mutation = report]
           cluster == ClusterSum(found)
           rest == 100 * (20 * GovernanceScore(found.pr, found.governance)
                            + 15 * StaticAnalysisScore(found.sarif))
<1>1. /\ less.tests = found.tests /\ less.patch = found.patch /\ less.overall = found.overall
      /\ less.pr = found.pr /\ less.governance = found.governance /\ less.sarif = found.sarif
      /\ less.mutation = report
  BY DEF Evidence
<1> HIDE DEF less
<1>2. ClusterSum(less) = cluster
  BY <1>1 DEF ClusterSum
<1>3. /\ TotalWeighted(less) = cluster * report.multiplier + rest
      /\ TotalWeighted(found) = cluster * found.mutation.multiplier + rest
  BY <1>1, <1>2 DEF TotalWeighted
<1>4. cluster \in Int /\ 0 <= cluster
  BY ClusterSumRange
<1>5. rest \in Int /\ 0 <= rest
  <2>1. GovernanceScore(found.pr, found.governance) \in Raw /\ StaticAnalysisScore(found.sarif) \in Raw
    BY GovernanceScoreRange, StaticAnalysisScoreRange DEF Evidence
  <2>2. QED
    BY SMT, <2>1 DEF Raw
<1>6. report.multiplier \in {50, 85, 100} /\ found.mutation.multiplier \in {50, 85, 100}
  BY DEF Evidence, Report, Multiplier
<1>7. /\ TotalWeighted(less) \in Int /\ TotalWeighted(found) \in Int
      /\ 0 <= TotalWeighted(less) /\ TotalWeighted(less) <= TotalWeighted(found)
  <2> HIDE DEF cluster, rest
  <2> DEFINE small == cluster * report.multiplier
             large == cluster * found.mutation.multiplier
  <2>1. small \in Int /\ large \in Int /\ 0 <= small /\ small <= large
    BY SMT, <1>4, <1>6
  <2>2. TotalWeighted(less) = small + rest /\ TotalWeighted(found) = large + rest
    BY <1>3
  <2> HIDE DEF small, large
  <2>3. QED
    BY SMT, <1>5, <2>1, <2>2
<1>8. QED
  <2>1. less \in Evidence
    BY DEF Evidence, less
  <2>2. RoundHalfEven(TotalWeighted(less)) <= RoundHalfEven(TotalWeighted(found))
    BY SMT, <1>7, RoundOrder
  <2>3. ScoreValue(less) <= ScoreValue(found)
    BY <2>1, <2>2, ScoreRange
  <2>4. QED
    BY <2>3 DEF less

-----------------------------------------------------------------------------

LEMMA ScoreBlockType ==
  ASSUME NEW e \in Evidence
  PROVE  ScorePipeline(e) \in [value : 0..100, reasons : SUBSET DegradedReason]
<1>1. ScoreValue(e) \in 0..100
  BY ScoreRange
<1>2. PatchReasons(e.patch) \subseteq DegradedReason
  BY DEF PatchReasons, Evidence, PatchCoverage, PatchReason, DegradedReason, ReasonCode
<1>3. MutationReasons(e.mutation) \subseteq DegradedReason
  BY DEF MutationReasons, Evidence, Report, DegradedReason, ReasonCode
<1>4. ReviewReasons(e.pr) \subseteq DegradedReason
  BY DEF ReviewReasons, DegradedReason, ReasonCode
<1>5. SarifReasons(e.sarif) \subseteq DegradedReason
  BY DEF SarifReasons, DegradedReason, ReasonCode
<1>6. GovernanceReasons(e.governance) \subseteq DegradedReason
  BY DEF GovernanceReasons, Evidence, GovernanceReport, GovReasonCode, DegradedReason, ReasonCode
<1>7. DegradedReasons(e) \in SUBSET DegradedReason
  BY <1>2, <1>3, <1>4, <1>5, <1>6 DEF DegradedReasons
<1>8. QED
  BY <1>1, <1>7 DEF ScorePipeline

\* The sets the run counts are finite.
LEMMA TotalsType == ASSUME NEW report PROVE TotalsOf(report) \in TestTotals
<1> DEFINE flaky == {c \in Finally(report, "passed") :
                      \E i, j \in AttemptsOf(report, c) : i # j}
<1>1. \A S \in SUBSET TestCase : Cardinality(S) \in Nat
  <2> SUFFICES ASSUME NEW S \in SUBSET TestCase PROVE Cardinality(S) \in Nat
    OBVIOUS
  <2>1. IsFiniteSet(S)
    BY TestCasesAssumption, FS_Subset
  <2>2. QED
    BY <2>1, FS_CardinalityType
<1>2. \A outcomes : Finally(report, outcomes) \in SUBSET TestCase
  BY DEF Finally
<1>3. flaky \in SUBSET TestCase
  BY <1>2
<1>4. QED
  BY <1>1, <1>2, <1>3 DEF TotalsOf, TestTotals

LEMMA OverallRateType ==
  ASSUME NEW report \in CoverageReport
  PROVE  OverallRate(report) \in Percent
<1>1. report.rate \in Percent /\ report.records \in Seq(LineRecord)
  BY DEF CoverageReport, Percent
<1>2. CASE report.format # "lcov" \/ report.records = << >>
  BY <1>1, <1>2 DEF OverallRate, Percent
<1>3. CASE report.format = "lcov" /\ report.records # << >>
  <2> DEFINE n == Len(report.records)
  <2>1. n \in Nat /\ n > 0 /\ DOMAIN report.records = 1..n
    BY <1>1, <1>3
  <2>2. HitRecords(report) \in SUBSET (1..n)
    BY <2>1 DEF HitRecords
  <2>3. IsFiniteSet(1..n) /\ Cardinality(1..n) = n
    BY <2>1, FS_Interval
  <2>4. IsFiniteSet(HitRecords(report)) /\ Cardinality(HitRecords(report)) <= n
    BY <2>2, <2>3, FS_Subset
  <2>5. Cardinality(HitRecords(report)) \in Nat
    BY <2>4, FS_CardinalityType
  <2>6. (100 * Cardinality(HitRecords(report))) \div n \in 0..100
    BY <2>1, <2>4, <2>5, DivPercent
  <2>7. QED
    BY <1>3, <2>6 DEF OverallRate, Percent
<1>4. QED
  BY <1>2, <1>3

LEMMA PlacesFinite ==
  ASSUME NEW S \in SUBSET (Path \X Line)
  PROVE  IsFiniteSet(S) /\ Cardinality(S) \in Nat
<1>1. IsFiniteSet(Path \X Line)
  BY PathsAssumption, FS_Product
<1>2. IsFiniteSet(S)
  BY <1>1, FS_Subset
<1>3. QED
  BY <1>2, FS_CardinalityType

LEMMA PatchLineCounts ==
  ASSUME NEW report, NEW changed
  PROVE  /\ PatchLines(report, changed) \in SUBSET (Path \X Line)
         /\ CoveredPatchLines(report, changed) \in SUBSET PatchLines(report, changed)
         /\ IsFiniteSet(CoveredPatchLines(report, changed))
         /\ Cardinality(PatchLines(report, changed)) \in Nat
         /\ Cardinality(CoveredPatchLines(report, changed)) \in Nat
         /\ Cardinality(CoveredPatchLines(report, changed))
              <= Cardinality(PatchLines(report, changed))
         /\ Cardinality(PatchLines(report, changed)) = 0 <=> PatchLines(report, changed) = {}
<1> DEFINE lines == PatchLines(report, changed)
           covered == CoveredPatchLines(report, changed)
<1>1. lines \in SUBSET (Path \X Line)
  BY DEF PatchLines
<1>2. covered \in SUBSET lines
  BY DEF CoveredPatchLines
<1> HIDE DEF lines, covered
<1>3. IsFiniteSet(lines) /\ Cardinality(lines) \in Nat
  BY <1>1, PlacesFinite
<1>4. IsFiniteSet(covered) /\ Cardinality(covered) <= Cardinality(lines)
  BY <1>2, <1>3, FS_Subset
<1>5. Cardinality(covered) \in Nat
  BY <1>4, FS_CardinalityType
<1>6. Cardinality(lines) = 0 <=> lines = {}
  BY <1>3, FS_EmptySet
<1>7. QED
  BY <1>1, <1>2, <1>3, <1>4, <1>5, <1>6 DEF lines, covered

LEMMA PatchCoverageType ==
  ASSUME NEW total \in Nat, NEW covered \in Nat, covered <= total
  PROVE  PatchCoverageOf(total, covered) \in PatchCoverage
<1>1. CASE total = 0
  BY <1>1 DEF PatchCoverageOf, Unmeasured, PatchCoverage, PatchReason, Percent
<1>2. CASE total # 0
  <2>1. (100 * covered) \div total \in 0..100
    BY <1>2, DivPercent
  <2>2. QED
    BY <1>2, <2>1 DEF PatchCoverageOf, PatchCoverage, PatchReason, Percent
<1>3. QED
  BY <1>1, <1>2

LEMMA ResultCounts ==
  ASSUME NEW input, IsFiniteSet(input.results), NEW level, NEW changed
  PROVE  /\ IsFiniteSet(AtLevel(input, level))
         /\ Cardinality(AtLevel(input, level)) \in Nat
         /\ Cardinality(NewAtLevel(input, level, changed)) \in Nat
<1>1. AtLevel(input, level) \in SUBSET input.results
  BY DEF AtLevel, Findings
<1>2. NewAtLevel(input, level, changed) \in SUBSET input.results
  BY <1>1 DEF NewAtLevel
<1>3. IsFiniteSet(AtLevel(input, level)) /\ IsFiniteSet(NewAtLevel(input, level, changed))
  BY <1>1, <1>2, FS_Subset
<1>4. QED
  BY <1>3, FS_CardinalityType

LEMMA SarifType ==
  ASSUME NEW input \in ScanInput, IsFiniteSet(input.results), NEW changed
  PROVE  SarifOf(input, changed) \in SarifReport
<1> DEFINE errors == Cardinality(AtLevel(input, "error")) + LicenseErrors(input)
           newErrors == Cardinality(NewAtLevel(input, "error", changed))
           newWarnings == Cardinality(NewAtLevel(input, "warning", changed))
<1>1. newErrors \in Nat /\ newWarnings \in Nat /\ Cardinality(AtLevel(input, "error")) \in Nat
  BY ResultCounts
<1>2. LicenseErrors(input) \in Nat
  BY DEF LicenseErrors, ScanInput
<1>3. errors \in Nat
  BY <1>1, <1>2
<1>4. SarifOf(input, changed)
        \in {SarifState("absent", 0, 0, 0), SarifState("unavailable", 0, 0, 0),
             SarifState("available", newErrors, newWarnings, errors)}
  BY DEF SarifOf
<1> HIDE DEF errors, newErrors, newWarnings
<1>5. QED
  BY <1>1, <1>3, <1>4 DEF SarifState, SarifReport

LEMMA ScoreLinesType ==
  ASSUME NEW context, NEW lines \in SUBSET (Path \X Line), NEW hit \in SUBSET lines
  PROVE  ScoreLines(context, lines, hit) \in Track
<1> DEFINE vanity == {x \in hit : VanityOnly(context, x[1], x[2])}
<1>1. vanity \in SUBSET (Path \X Line) /\ hit \in SUBSET (Path \X Line)
  OBVIOUS
<1>2. Cardinality(lines) \in Nat /\ Cardinality(hit) \in Nat /\ Cardinality(vanity) \in Nat
  BY <1>1, PlacesFinite
<1>3. QED
  BY <1>2 DEF ScoreLines, NoTrack, Track

LEMMA RealCoverageType ==
  ASSUME NEW context, NEW report, NEW changed
  PROVE  RealCoverage(context, report, changed) \in [overall : Track, patch : Track]
<1>1. NoTrack \in Track
  BY DEF NoTrack, Track
<1>2. ReportLines(report) \in SUBSET (Path \X Line) /\ HitLines(report) \in SUBSET ReportLines(report)
  BY DEF ReportLines, HitLines
<1>3. ScoreLines(context, ReportLines(report), HitLines(report)) \in Track
  BY <1>2, ScoreLinesType
<1>4. ScoreLines(context, PatchLines(report, changed), CoveredPatchLines(report, changed)) \in Track
  BY PatchLineCounts, ScoreLinesType
<1>5. QED
  BY <1>1, <1>3, <1>4 DEF RealCoverage

LEMMA SkippedType == SkippedReport \in Report
BY DEF SkippedReport, UnavailableReport, Report, Grade, Multiplier, ReasonCode

LEMMA TouchedType ==
  /\ Touched(NoChange) = {}
  /\ Touched(NoChange) \in SUBSET Language
  /\ \A diff \in Diffs : /\ DOMAIN ChangedLines(diff) \subseteq Path
                         /\ Touched(ChangedLines(diff)) \in SUBSET Language
<1>1. \A diff \in Diffs : DOMAIN ChangedLines(diff) \subseteq Path
  BY InputsAssumption DEF ChangedLines, Section
<1>2. \A diff \in Diffs : Touched(ChangedLines(diff)) \in SUBSET Language
  BY <1>1, InputsAssumption DEF Touched
<1>3. Touched(NoChange) = {}
  BY DEF Touched, NoChange
<1>4. QED
  BY <1>1, <1>2, <1>3

LEMMA InputTypes ==
  /\ ReportInputs \subseteq ReportInput /\ ContextInputs \subseteq Contexts
  /\ PullRequests \subseteq PullRequest /\ GovernanceInputs \subseteq GovernanceReport
  /\ ScanInputs \subseteq ScanInput /\ LanguageOutcomes \subseteq LanguageOutcome
  /\ Gates \subseteq Gate
BY InputsAssumption

\* Whatever a run meets, what it records keeps its type: in particular the
\* score it signs is a whole number from 0 to 100.
THEOREM PipelineTypeCorrect == Spec => []TypeOK
<1>1. Init => TypeOK
  <2> SUFFICES ASSUME Init PROVE TypeOK
    OBVIOUS
  <2>1. ev \in Evidence
    <3>1. PICK pr \in PullRequests :
            ev = [tests |-> NoTests, overall |-> 0, patch |-> Unmeasured("none"), pr |-> pr,
                  governance |-> UnavailableGovernance("none"), sarif |-> SarifState("absent", 0, 0, 0),
                  mutation |-> UnavailableReport("unavailable")]
      BY DEF Init
    <3>2. NoTests \in TestTotals /\ 0 \in Percent /\ pr \in PullRequest
      BY InputTypes DEF NoTests, TestTotals, Percent
    <3>3. Unmeasured("none") \in PatchCoverage
      BY DEF Unmeasured, PatchCoverage, Percent, PatchReason
    <3>4. UnavailableGovernance("none") \in GovernanceReport
      BY DEF UnavailableGovernance, GovernanceReport, GovReasonCode
    <3>5. SarifState("absent", 0, 0, 0) \in SarifReport
      BY DEF SarifState, SarifReport
    <3>6. UnavailableReport("unavailable") \in Report
      BY DEF UnavailableReport, Report, Grade, Multiplier, ReasonCode
    <3>7. QED
      BY <3>1, <3>2, <3>3, <3>4, <3>5, <3>6 DEF Evidence
  <2>2. outcome \in [{} -> LanguageOutcome]
    BY DEF Init
  <2>3. gate \in Gate
    BY DEF Init, NoGate, Gate
  <2>4. scan \in ScanInput /\ coverage \in CoverageReport /\ contexts \in Contexts
    BY DEF Init, NoScan, ScanInput, NoCoverage, CoverageReport, NoContexts, Contexts
  <2>5. rcs \in [value : 0..100, reasons : SUBSET DegradedReason]
    BY DEF Init, NoRcs
  <2>6. real \in [overall : Track, patch : Track]
    BY DEF Init, NoTrack, Track
  <2>7. QED
    BY <2>1, <2>2, <2>3, <2>4, <2>5, <2>6, ScoreRange DEF Init, TypeOK, Stages
<1>2. TypeOK /\ [Next]_vars => TypeOK'
  <2> SUFFICES ASSUME TypeOK, [Next]_vars PROVE TypeOK'
    OBVIOUS
  <2> USE DEF inputs, verdict
  <2>1. CASE Abort
    BY <2>1 DEF Abort, After, TypeOK, Stages
  <2>2. CASE ParseInputs
    <3>1. PICK input \in ReportInputs :
            /\ coverage' = input.coverage
            /\ ev' = [ev EXCEPT !.tests = TotalsOf(input.tests),
                               !.overall = OverallRate(input.coverage)]
      BY <2>2 DEF ParseInputs
    <3>2. input.coverage \in CoverageReport
      BY InputTypes DEF ReportInput
    <3>3. TotalsOf(input.tests) \in TestTotals /\ OverallRate(input.coverage) \in Percent
      BY <3>2, TotalsType, OverallRateType
    <3>4. ev' \in Evidence
      BY <3>1, <3>3 DEF TypeOK, Evidence
    <3>5. QED
      BY <2>2, <3>1, <3>2, <3>4, ScoreRange DEF ParseInputs, After, TypeOK, Stages
  <2>3. CASE ComputePatchCoverage
    <3>1. Unmeasured("none") \in PatchCoverage
      BY DEF Unmeasured, PatchCoverage, Percent, PatchReason
    <3>2. PatchCoverageOf(Cardinality(PatchLines(coverage, ChangedLines(world.diff))),
                          Cardinality(CoveredPatchLines(coverage, ChangedLines(world.diff))))
            \in PatchCoverage
      BY PatchLineCounts, PatchCoverageType
    <3>3. PICK patch \in PatchCoverage : ev' = [ev EXCEPT !.patch = patch]
      BY <2>3, <3>1, <3>2 DEF ComputePatchCoverage
    <3>4. ev' \in Evidence
      BY <3>3 DEF TypeOK, Evidence
    <3>5. QED
      BY <2>3, <3>4, ScoreRange DEF ComputePatchCoverage, After, TypeOK, Stages
  <2>4. CASE InspectGovernance
    <3>1. ev' \in Evidence
      BY <2>4, InputTypes DEF InspectGovernance, TypeOK, Evidence
    <3>2. QED
      BY <2>4, <3>1, ScoreRange DEF InspectGovernance, After, TypeOK, Stages
  <2>5. CASE IngestSarif
    <3>1. scan' \in ScanInput /\ IsFiniteSet(scan'.results)
      BY <2>5, InputsAssumption DEF IngestSarif
    <3>2. SarifOf(scan', ChangedFor("sarif", lost')) \in SarifReport
      BY <3>1, SarifType
    <3>3. ev' \in Evidence
      BY <2>5, <3>2 DEF IngestSarif, TypeOK, Evidence
    <3>4. lost' \subseteq {"sarif", "mutation", "real"}
      BY <2>5 DEF IngestSarif, MayLoseDiff, TypeOK
    <3>5. QED
      BY <2>5, <3>1, <3>3, <3>4, ScoreRange DEF IngestSarif, After, TypeOK, Stages
  <2>6. CASE MutationTesting
    <3>1. PICK report \in Report : ev' = [ev EXCEPT !.mutation = report]
      BY <2>6, SkippedType, RunMutationTestingType DEF MutationTesting
    <3>2. ev' \in Evidence
      BY <3>1 DEF TypeOK, Evidence
    <3>3. RunLanguages(lost') \in SUBSET Language
      BY TouchedType DEF RunLanguages, ChangedFor, TypeOK, World
    <3>4. \E D \in SUBSET Language : outcome' \in [D -> LanguageOutcome]
      <4>1. CASE outcome' = outcome
        BY <4>1 DEF TypeOK
      <4>2. CASE outcome' \in [RunLanguages(lost') -> LanguageOutcomes]
        BY <3>3, <4>2, InputTypes
      <4>3. QED
        BY <2>6, <4>1, <4>2 DEF MutationTesting
    <3>5. lost' \subseteq {"sarif", "mutation", "real"}
      BY <2>6 DEF MutationTesting, MayLoseDiff, TypeOK
    <3>6. QED
      BY <2>6, <3>2, <3>4, <3>5, ScoreRange DEF MutationTesting, After, TypeOK, Stages
  <2>7. CASE Score
    <3>1. rcs' \in [value : 0..100, reasons : SUBSET DegradedReason]
      BY <2>7, ScoreBlockType DEF Score, TypeOK
    <3>2. QED
      BY <2>7, <3>1 DEF Score, After, TypeOK, Stages
  <2>8. CASE ComputeRealCoverage
    <3>1. real' \in [overall : Track, patch : Track] /\ contexts' \in Contexts
      BY <2>8, RealCoverageType, InputTypes DEF ComputeRealCoverage
    <3>2. lost' \subseteq {"sarif", "mutation", "real"}
      BY <2>8 DEF ComputeRealCoverage, MayLoseDiff, TypeOK
    <3>3. QED
      BY <2>8, <3>1, <3>2 DEF ComputeRealCoverage, After, TypeOK, Stages
  <2>9. CASE WriteAndGate
    BY <2>9 DEF WriteAndGate, After, TypeOK, Stages
  <2>10. CASE Verify
    <3>1. gate' \in Gate /\ admitted' \in BOOLEAN
      BY <2>10, InputTypes DEF Verify
    <3>2. QED
      BY <2>10, <3>1 DEF Verify, After, TypeOK, Stages
  <2>11. CASE UNCHANGED vars
    BY <2>11 DEF vars, TypeOK
  <2>12. QED
    BY <2>1, <2>2, <2>3, <2>4, <2>5, <2>6, <2>7, <2>8, <2>9, <2>10, <2>11 DEF Next, Done
<1>3. QED
  BY <1>1, <1>2, PTL DEF Spec

-----------------------------------------------------------------------------
(* What a strict admission is worth.                                         *)

PatchStages ==
  {"diff_patch_analysis", "github_rules_api", "sarif_ingest", "mutation_testing",
   "rcs_scoring", "real_coverage", "written", "verified"}

ScanStages == PatchStages \ {"diff_patch_analysis", "github_rules_api"}

MutationStages == ScanStages \ {"sarif_ingest"}

ScoreStages == MutationStages \ {"mutation_testing"}

MeasuredPatch ==
  PatchCoverageOf(Cardinality(PatchLines(coverage, Changed)),
                  Cardinality(CoveredPatchLines(coverage, Changed)))

\* Inductive: each loss stays visible in the evidence, the evidence in the
\* reasons, and the reasons in what the gate was asked.
Accounted ==
  /\ stage \in PatchStages =>
       ev.patch = IF world.diffKnown THEN MeasuredPatch ELSE Unmeasured("none")
  /\ stage \in ScanStages /\ ScanKind(scan) = "broken" => ev.sarif.state = "unavailable"
  /\ stage \in MutationStages =>
       IF world.skipped
         THEN ev.mutation = SkippedReport
         ELSE DOMAIN outcome = RunLanguages(lost) /\ ev.mutation = RunMutationTesting(outcome)
  /\ stage \in ScoreStages => rcs = ScorePipeline(ev)
  /\ admitted => stage = "verified" /\ PolicyViolations(rcs, gate, {SubjectDigest}) = {}

\* A gate that is strict and not violated leaves only the excused reasons.
LEMMA StrictGateReasons ==
  ASSUME PolicyViolations(rcs, gate, {SubjectDigest}) = {}, gate.strict
  PROVE  rcs.reasons \subseteq AllowedDegradedReasons
<1> SUFFICES ASSUME ~(rcs.reasons \subseteq AllowedDegradedReasons) PROVE FALSE
  OBVIOUS
<1>1. "degraded" \in PolicyViolations(rcs, gate, {SubjectDigest})
  BY DEF PolicyViolations
<1>2. QED
  BY <1>1

\* The excused reasons, control by control.
LEMMA ExcusedReasons ==
  ASSUME NEW e \in Evidence, DegradedReasons(e) \subseteq AllowedDegradedReasons
  PROVE  /\ e.patch # Unmeasured("none")
         /\ e.pr.present
         /\ e.sarif.state # "unavailable"
         /\ \/ e.governance.available /\ ~BypassPermitsUnreviewedChange(e.governance)
            \/ e.governance.reason = "platform_unsupported_tier"
         /\ e.mutation.reason \notin
              {"skipped", "unavailable", "not_configured", "unconfigured_language_present"}
<1>1. PatchReasons(e.patch) \cup MutationReasons(e.mutation) \cup ReviewReasons(e.pr)
        \cup SarifReasons(e.sarif) \cup GovernanceReasons(e.governance)
        \subseteq AllowedDegradedReasons
  BY DEF DegradedReasons
<1>2. e.patch # Unmeasured("none")
  <2> SUFFICES ASSUME e.patch = Unmeasured("none") PROVE FALSE
    OBVIOUS
  <2>1. <<"patch_coverage", "unavailable">> \in PatchReasons(e.patch)
    BY DEF PatchReasons, Unmeasured
  <2>2. QED
    BY <1>1, <2>1 DEF AllowedDegradedReasons
<1>3. e.pr.present
  BY <1>1 DEF ReviewReasons, AllowedDegradedReasons
<1>4. e.sarif.state # "unavailable"
  BY <1>1 DEF SarifReasons, AllowedDegradedReasons
<1>5. \/ e.governance.available /\ ~BypassPermitsUnreviewedChange(e.governance)
      \/ e.governance.reason = "platform_unsupported_tier"
  BY <1>1 DEF GovernanceReasons, AllowedDegradedReasons
<1>6. e.mutation.reason \notin
        {"skipped", "unavailable", "not_configured", "unconfigured_language_present"}
  BY <1>1 DEF MutationReasons, AllowedDegradedReasons
<1>7. QED
  BY <1>2, <1>3, <1>4, <1>5, <1>6

LEMMA BrokenScanState ==
  ASSUME NEW input, NEW changed, ScanKind(input) = "broken"
  PROVE  SarifOf(input, changed) = SarifState("unavailable", 0, 0, 0)
BY DEF SarifOf

\* No stage loses what Accounted keeps.
LEMMA AccountedHolds == Spec => [](TypeOK /\ Accounted)
<1>1. Init => Accounted
  BY DEF Init, Accounted, PatchStages, ScanStages, MutationStages, ScoreStages
<1>2. TypeOK /\ Accounted /\ [Next]_vars => Accounted'
  <2> SUFFICES ASSUME TypeOK, Accounted, [Next]_vars PROVE Accounted'
    OBVIOUS
  <2> USE DEF PatchStages, ScanStages, MutationStages, ScoreStages, inputs, verdict
  <2>1. CASE Abort \/ ParseInputs
    <3>1. /\ stage \in {"start", "parse_inputs"} /\ stage' \in {"aborted", "parse_inputs"}
          /\ admitted' = admitted
      BY <2>1 DEF Abort, ParseInputs, After
    <3>2. QED
      BY <3>1 DEF Accounted
  <2>2. CASE ComputePatchCoverage
    <3>1. ev'.patch = IF world.diffKnown THEN MeasuredPatch ELSE Unmeasured("none")
      BY <2>2 DEF ComputePatchCoverage, MeasuredPatch, Changed, TypeOK, Evidence
    <3>2. /\ stage = "parse_inputs" /\ stage' = "diff_patch_analysis" /\ admitted' = admitted
          /\ world' = world /\ MeasuredPatch' = MeasuredPatch
      BY <2>2 DEF ComputePatchCoverage, After, MeasuredPatch, Changed
    <3>3. QED
      BY <3>1, <3>2 DEF Accounted
  <2>3. CASE InspectGovernance
    <3>1. ev'.patch = ev.patch /\ world' = world /\ MeasuredPatch' = MeasuredPatch
      BY <2>3 DEF InspectGovernance, TypeOK, Evidence, MeasuredPatch, Changed
    <3>2. stage = "diff_patch_analysis" /\ stage' = "github_rules_api" /\ admitted' = admitted
      BY <2>3 DEF InspectGovernance, After
    <3>3. QED
      BY <3>1, <3>2 DEF Accounted
  <2>4. CASE IngestSarif
    <3>1. /\ ev'.patch = ev.patch /\ world' = world /\ MeasuredPatch' = MeasuredPatch
          /\ ev'.sarif = SarifOf(scan', ChangedFor("sarif", lost'))
      BY <2>4 DEF IngestSarif, TypeOK, Evidence, MeasuredPatch, Changed
    <3>2. stage = "github_rules_api" /\ stage' = "sarif_ingest" /\ admitted' = admitted
      BY <2>4 DEF IngestSarif, After
    <3>3. ScanKind(scan') = "broken" => ev'.sarif.state = "unavailable"
      BY <3>1, BrokenScanState DEF SarifState
    <3>4. QED
      BY <3>1, <3>2, <3>3 DEF Accounted
  <2>5. CASE MutationTesting
    <3>1. /\ ev'.patch = ev.patch /\ ev'.sarif = ev.sarif /\ world' = world /\ scan' = scan
          /\ MeasuredPatch' = MeasuredPatch
      BY <2>5 DEF MutationTesting, TypeOK, Evidence, MeasuredPatch, Changed
    <3>2. stage = "sarif_ingest" /\ stage' = "mutation_testing" /\ admitted' = admitted
      BY <2>5 DEF MutationTesting, After
    <3>3. CASE world.skipped
      <4>1. ev'.mutation = SkippedReport
        BY <2>5, <3>3 DEF MutationTesting, TypeOK, Evidence
      <4>2. QED
        BY <3>1, <3>2, <3>3, <4>1 DEF Accounted
    <3>4. CASE ~world.skipped
      <4>1. /\ ev'.mutation = RunMutationTesting(outcome')
            /\ DOMAIN outcome' = RunLanguages(lost')
        BY <2>5, <3>4 DEF MutationTesting, TypeOK, Evidence
      <4>2. RunLanguages(lost)' = RunLanguages(lost')
        BY <3>1 DEF RunLanguages, ChangedFor
      <4>3. QED
        BY <3>1, <3>2, <3>4, <4>1, <4>2 DEF Accounted
    <3>5. QED
      BY <3>3, <3>4
  <2>6. CASE Score
    BY <2>6 DEF Score, After, RunLanguages, ChangedFor, MeasuredPatch, Changed, Accounted
  <2>7. CASE ComputeRealCoverage
    <3>1. /\ ev' = ev /\ world' = world /\ scan' = scan /\ outcome' = outcome /\ rcs' = rcs
          /\ admitted' = admitted /\ MeasuredPatch' = MeasuredPatch
          /\ stage = "rcs_scoring" /\ stage' = "real_coverage"
      BY <2>7 DEF ComputeRealCoverage, After, MeasuredPatch, Changed
    <3>2. "mutation" \in lost' <=> "mutation" \in lost
      BY <2>7 DEF ComputeRealCoverage, MayLoseDiff
    <3>3. RunLanguages(lost)' = RunLanguages(lost)
      BY <3>1, <3>2 DEF RunLanguages, ChangedFor
    <3>4. QED
      BY <3>1, <3>3 DEF Accounted
  <2>8. CASE WriteAndGate
    BY <2>8 DEF WriteAndGate, After, RunLanguages, ChangedFor, MeasuredPatch, Changed, Accounted
  <2>9. CASE Verify
    BY <2>9 DEF Verify, After, RunLanguages, ChangedFor, MeasuredPatch, Changed, Accounted
  <2>10. CASE UNCHANGED vars
    BY <2>10 DEF vars, RunLanguages, ChangedFor, MeasuredPatch, Changed, Accounted
  <2>11. QED
    BY <2>1, <2>2, <2>3, <2>4, <2>5, <2>6, <2>7, <2>8, <2>9, <2>10 DEF Next, Done
<1>3. QED
  BY <1>1, <1>2, PipelineTypeCorrect, PTL DEF Spec

\* A patch excused from coverage adds no line of a file that the report knows
\* by the file's own path: the lookup finds that path before any other.
LEMMA ExcusedPatchHidesNothing ==
  ASSUME TypeOK, MeasuredPatch = Unmeasured("no_coverable_lines")
  PROVE  \A p \in DOMAIN Changed \cap FilesOf(coverage) :
           Changed[p] \cap Coverable(coverage, p) = {}
<1>1. PatchLines(coverage, Changed) = {}
  <2>1. Cardinality(PatchLines(coverage, Changed)) = 0
    BY DEF MeasuredPatch, PatchCoverageOf, Unmeasured
  <2>2. QED
    BY <2>1, PatchLineCounts
<1> SUFFICES ASSUME NEW p \in DOMAIN Changed \cap FilesOf(coverage),
                    NEW n \in Changed[p] \cap Coverable(coverage, p)
             PROVE  FALSE
  OBVIOUS
<1>2. p \in Path /\ n \in Line
  BY DEF FilesOf, Coverable
<1>3. Resolve(FilesOf(coverage), p) = {p}
  BY DEF Resolve
<1>4. <<p, n>> \in PatchLines(coverage, Changed)
  BY <1>2, <1>3 DEF PatchLines
<1>5. QED
  BY <1>1, <1>4

LEMMA StrictlySafe ==
  ASSUME TypeOK, Accounted
  PROVE  StrictAdmissionSafe
<1> SUFFICES ASSUME admitted, gate.strict
             PROVE  /\ world.diffKnown
                    /\ ev.patch.available
                         \/ \A p \in DOMAIN Changed \cap FilesOf(coverage) :
                              Changed[p] \cap Coverable(coverage, p) = {}
                    /\ ev.pr.present
                    /\ ScanKind(scan) # "broken"
                    /\ \/ ev.governance.available /\ ~BypassPermitsUnreviewedChange(ev.governance)
                       \/ ev.governance.reason = "platform_unsupported_tier"
                    /\ ~world.skipped
                    /\ Ended("not_configured") = {}
                    /\ Touched(Changed) # {} /\ "mutation" \notin lost => Ended("ran") # {}
  BY DEF StrictAdmissionSafe
<1>1. stage = "verified" /\ DegradedReasons(ev) \subseteq AllowedDegradedReasons
  BY StrictGateReasons
     DEF Accounted, ScorePipeline, PatchStages, ScanStages, MutationStages, ScoreStages
<1>2. stage \in PatchStages /\ stage \in ScanStages /\ stage \in MutationStages
  BY <1>1 DEF PatchStages, ScanStages, MutationStages
<1>3. /\ ev.patch # Unmeasured("none")
      /\ ev.pr.present
      /\ ev.sarif.state # "unavailable"
      /\ \/ ev.governance.available /\ ~BypassPermitsUnreviewedChange(ev.governance)
         \/ ev.governance.reason = "platform_unsupported_tier"
      /\ ev.mutation.reason \notin
            {"skipped", "unavailable", "not_configured", "unconfigured_language_present"}
  BY <1>1, ExcusedReasons DEF TypeOK
<1>4. world.diffKnown /\ ev.patch = MeasuredPatch
  BY <1>2, <1>3 DEF Accounted
<1>5. \/ ev.patch.available
      \/ \A p \in DOMAIN Changed \cap FilesOf(coverage) :
           Changed[p] \cap Coverable(coverage, p) = {}
  <2>1. ev.patch.available \/ MeasuredPatch = Unmeasured("no_coverable_lines")
    BY <1>4 DEF MeasuredPatch, PatchCoverageOf
  <2>2. QED
    BY <2>1, ExcusedPatchHidesNothing
<1>6. ScanKind(scan) # "broken"
  BY <1>2, <1>3 DEF Accounted
<1>7. ~world.skipped
  BY <1>2, <1>3 DEF Accounted, SkippedReport, UnavailableReport
<1>8. DOMAIN outcome = RunLanguages(lost) /\ ev.mutation = RunMutationTesting(outcome)
  BY <1>2, <1>7 DEF Accounted
<1>9. DOMAIN outcome # {} => Ended("ran") # {} /\ Ended("not_configured") = {}
  BY <1>3, <1>8, RunMutationTestingReason DEF Ended
<1>10. DOMAIN outcome = {} => Ended("not_configured") = {}
  BY DEF Ended, WithStatus
<1>11. "mutation" \notin lost => DOMAIN outcome = Touched(Changed)
  BY <1>4, <1>8 DEF RunLanguages, ChangedFor, Changed
<1>12. QED
  BY <1>3, <1>4, <1>5, <1>6, <1>7, <1>9, <1>10, <1>11

\* Every loss of a control reaches the gate of a strict consumer: what it
\* admits had its diff known, no known line hidden from the patch's coverage, a
\* pull request, no broken scan, protected rules, and a tool for every touched
\* language, for any languages, reports, scans and gates.
THEOREM StrictAdmission == Spec => []StrictAdmissionSafe
<1>1. TypeOK /\ Accounted => StrictAdmissionSafe
  BY StrictlySafe
<1>2. QED
  BY <1>1, AccountedHolds, PTL

-----------------------------------------------------------------------------
(* What losing a control costs.                                              *)

LEMMA LostGovernanceScore ==
  ASSUME NEW e \in Evidence
  PROVE  ScoreValue([e EXCEPT !.governance = UnavailableGovernance("none")]) <= ScoreValue(e)
<1> DEFINE less == [e EXCEPT !.governance = UnavailableGovernance("none")]
<1>1. UnavailableGovernance("none") \in GovernanceReport
  BY DEF UnavailableGovernance, GovernanceReport, GovReasonCode
<1>2. /\ less \in Evidence
      /\ less.tests = e.tests /\ less.patch = e.patch /\ less.overall = e.overall
      /\ less.mutation = e.mutation /\ less.pr = e.pr /\ less.sarif = e.sarif
      /\ less.governance = UnavailableGovernance("none")
  BY <1>1 DEF Evidence
<1> HIDE DEF less
<1>3. ClusterSum(less) = ClusterSum(e)
  BY <1>2 DEF ClusterSum
<1>4. GovernanceScore(less.pr, less.governance) <= GovernanceScore(e.pr, e.governance)
  BY <1>2, LosingGovernance DEF Evidence
<1>5. StaticAnalysisScore(less.sarif) <= StaticAnalysisScore(e.sarif)
  <2>1. StaticAnalysisScore(e.sarif) \in Raw
    BY StaticAnalysisScoreRange DEF Evidence
  <2>2. QED
    BY SMT, <1>2, <2>1 DEF Raw
<1>6. ScoreValue(less) <= ScoreValue(e)
  BY <1>2, <1>3, <1>4, <1>5, SameCluster
<1>7. QED
  BY <1>6 DEF less

LEMMA BrokenScanScore ==
  ASSUME NEW e \in Evidence, e.sarif.state = "unavailable"
  PROVE  ScoreValue(e) < ScoreValue([e EXCEPT !.sarif = SarifState("available", 0, 0, 0)])
<1> DEFINE clean == [e EXCEPT !.sarif = SarifState("available", 0, 0, 0)]
<1>1. SarifState("available", 0, 0, 0) \in SarifReport
  BY DEF SarifState, SarifReport
<1>2. /\ clean \in Evidence
      /\ clean.tests = e.tests /\ clean.patch = e.patch /\ clean.overall = e.overall
      /\ clean.mutation = e.mutation /\ clean.pr = e.pr /\ clean.governance = e.governance
      /\ clean.sarif = SarifState("available", 0, 0, 0)
  BY <1>1 DEF Evidence
<1> HIDE DEF clean
<1>3. ClusterSum(e) = ClusterSum(clean)
  BY <1>2 DEF ClusterSum
<1>4. StaticAnalysisScore(e.sarif) = 7500 /\ StaticAnalysisScore(clean.sarif) = 10000
  BY SMT, <1>2 DEF StaticAnalysisScore, SarifState, Clamp, AtMost
<1>5. GovernanceScore(e.pr, e.governance) <= GovernanceScore(clean.pr, clean.governance)
  <2>1. GovernanceScore(e.pr, e.governance) \in Raw
    BY GovernanceScoreRange DEF Evidence
  <2>2. QED
    BY SMT, <1>2, <2>1 DEF Raw
<1>6. ScoreValue(e) < ScoreValue(clean)
  BY SMT, <1>2, <1>3, <1>4, <1>5, SameCluster
<1>7. QED
  BY <1>6 DEF clean

\* Withholding the branch's rules never raises the score of a run, whatever
\* they would have said, and a scan that could not be read always costs points
\* against a clean one, whatever else the run recorded.
THEOREM LosingAControlCosts == Spec => []LosingAControlNeverHelps
<1>1. TypeOK /\ Accounted => LosingAControlNeverHelps
  <2> SUFFICES ASSUME TypeOK, Accounted, stage = "rcs_scoring"
               PROVE  /\ ScoreValue([ev EXCEPT !.governance = UnavailableGovernance("none")])
                            <= rcs.value
                      /\ ScanKind(scan) = "broken" =>
                           rcs.value < ScoreValue([ev EXCEPT !.sarif =
                                                     SarifState("available", 0, 0, 0)])
    BY DEF LosingAControlNeverHelps
  <2>1. rcs.value = ScoreValue(ev) /\ ev \in Evidence
    BY DEF Accounted, ScorePipeline, PatchStages, ScanStages, MutationStages, ScoreStages, TypeOK
  <2>2. ScanKind(scan) = "broken" => ev.sarif.state = "unavailable"
    BY DEF Accounted, PatchStages, ScanStages
  <2>3. QED
    BY <2>1, <2>2, LostGovernanceScore, BrokenScanScore
<1>2. QED
  BY <1>1, AccountedHolds, PTL

\* Touching one more language, one without a tool, never raises the score
\* (_cap_for_unconfigured_language).
THEOREM UnconfiguredLanguageCosts == Spec => []UnconfiguredLanguageNeverHelps
<1>1. TypeOK /\ Accounted => UnconfiguredLanguageNeverHelps
  <2> SUFFICES ASSUME TypeOK, Accounted, stage = "rcs_scoring", ~world.skipped,
                      NEW l \in Language \ DOMAIN outcome
               PROVE  LET more == [k \in DOMAIN outcome \cup {l} |->
                                     IF k = l THEN NotConfigured ELSE outcome[k]]
                      IN  ScoreValue([ev EXCEPT !.mutation = RunMutationTesting(more)]) <= rcs.value
    BY DEF UnconfiguredLanguageNeverHelps
  <2> DEFINE more == [k \in DOMAIN outcome \cup {l} |->
                        IF k = l THEN NotConfigured ELSE outcome[k]]
  <2>1. rcs.value = ScoreValue(ev) /\ ev \in Evidence
    BY DEF Accounted, ScorePipeline, PatchStages, ScanStages, MutationStages, ScoreStages, TypeOK
  <2>2. ev.mutation = RunMutationTesting(outcome)
    BY DEF Accounted, PatchStages, ScanStages, MutationStages
  <2>3. RunMutationTesting(more) \in Report
    BY RunMutationTestingType
  <2>4. RunMutationTesting(more).multiplier <= ev.mutation.multiplier
    BY <2>2, OneMoreUnconfigured
  <2> HIDE DEF more
  <2>5. ScoreValue([ev EXCEPT !.mutation = RunMutationTesting(more)]) <= ScoreValue(ev)
    BY <2>1, <2>3, <2>4, SmallerMultiplier
  <2>6. QED
    BY <2>1, <2>5 DEF more
<1>2. QED
  BY <1>1, AccountedHolds, PTL

-----------------------------------------------------------------------------
(* Which lines the patch is answerable for.                                  *)

LEMMA SuffixOfItself == ASSUME NEW S, NEW p \in Seq(S) PROVE IsSuffix(p, p)
<1>1. Len(p) \in Nat
  OBVIOUS
<1>2. Reverse(p) \in Seq({p[i] : i \in 1..Len(p)})
  BY <1>1 DEF Reverse
<1>3. Len(Reverse(p)) \in Nat
  BY <1>2
<1>4. QED
  BY <1>3 DEF IsSuffix, IsPrefix

\* The lookup of a path settles on a key of the same file, and on the path
\* itself wherever that is a key.
LEMMA ResolvedKeys ==
  ASSUME NEW keys \in SUBSET Path, NEW path
  PROVE  /\ \A key \in Resolve(keys, path) : key \in keys /\ Comparable(key, path)
         /\ path \in keys => Resolve(keys, path) = {path}
<1>1. path \in keys => Resolve(keys, path) = {path}
  BY DEF Resolve
<1>2. path \in keys => Comparable(path, path)
  BY PathsAssumption, SuffixOfItself DEF Comparable
<1>3. \A key \in Closest(keys, path) : key \in keys /\ Comparable(key, path)
  BY DEF Closest
<1>4. QED
  BY <1>1, <1>2, <1>3 DEF Resolve

\* Inductive: a stage's report is over the lines that its own diff gave it.
Placed ==
  /\ stage = "sarif_ingest" =>
       IsFiniteSet(scan.results) /\ ev.sarif = SarifOf(scan, ChangedFor("sarif", lost))
  /\ stage = "real_coverage" =>
       real = RealCoverage(contexts, coverage, ChangedFor("real", lost))

LEMMA PlacedHolds == Spec => []Placed
<1>1. Init => Placed
  BY DEF Init, Placed
<1>2. TypeOK /\ Placed /\ [Next]_vars => Placed'
  <2> SUFFICES ASSUME TypeOK, Placed, [Next]_vars PROVE Placed'
    OBVIOUS
  <2> USE DEF inputs, verdict
  <2>1. CASE IngestSarif
    <3>1. stage' = "sarif_ingest" /\ IsFiniteSet(scan'.results) /\ world' = world
      BY <2>1, InputsAssumption DEF IngestSarif, After
    <3>2. ev'.sarif = SarifOf(scan', ChangedFor("sarif", lost'))
      BY <2>1 DEF IngestSarif, TypeOK, Evidence
    <3>3. ChangedFor("sarif", lost)' = ChangedFor("sarif", lost')
      BY <3>1 DEF ChangedFor
    <3>4. QED
      BY <3>1, <3>2, <3>3 DEF Placed
  <2>2. CASE ComputeRealCoverage
    <3>1. /\ stage' = "real_coverage" /\ world' = world /\ coverage' = coverage
          /\ real' = RealCoverage(contexts', coverage, ChangedFor("real", lost'))
      BY <2>2 DEF ComputeRealCoverage, After
    <3>2. ChangedFor("real", lost)' = ChangedFor("real", lost')
      BY <3>1 DEF ChangedFor
    <3>3. QED
      BY <3>1, <3>2 DEF Placed
  <2>3. CASE \/ Abort \/ ParseInputs \/ ComputePatchCoverage \/ InspectGovernance
             \/ MutationTesting \/ Score \/ WriteAndGate \/ Verify
    <3>1. stage' \notin {"sarif_ingest", "real_coverage"}
      BY <2>3 DEF Abort, ParseInputs, ComputePatchCoverage, InspectGovernance,
                  MutationTesting, Score, WriteAndGate, Verify, After
    <3>2. QED
      BY <3>1 DEF Placed
  <2>4. CASE UNCHANGED vars
    BY <2>4 DEF vars, ChangedFor, Placed
  <2>5. QED
    BY <2>1, <2>2, <2>3, <2>4 DEF Next, Done
<1>3. QED
  BY <1>1, <1>2, PipelineTypeCorrect, PTL DEF Spec

LEMMA ChangedIsOfPaths ==
  ASSUME TypeOK, NEW caller, NEW losses
  PROVE  LET changed == ChangedFor(caller, losses)
         IN  /\ DOMAIN changed \in SUBSET Path
             /\ changed \in {NoChange, Changed}
             /\ changed # NoChange => world.diffKnown
             /\ DOMAIN NoChange = {}
             /\ \A p \in DOMAIN Changed : Changed[p] \subseteq Line
<1>1. world.diff \in SUBSET Section
  BY InputsAssumption DEF TypeOK, World
<1>2. DOMAIN Changed \in SUBSET Path
  BY <1>1 DEF Changed, ChangedLines, Section
<1>3. \A p \in DOMAIN Changed : Changed[p] \subseteq Line
  BY <1>1 DEF Changed, ChangedLines, Section
<1>4. QED
  BY <1>2, <1>3 DEF ChangedFor, Changed, NoChange

\* An error on an added line is new under the file's own path, and no finding
\* is new that lies on no added line of a file of its name, for any patch, any
\* scan and any names the scanner gives the files.
THEOREM NewFindingsPlaced == Spec => []NewFindingsAreOfThePatch
<1>1. TypeOK /\ Placed => NewFindingsAreOfThePatch
  <2> SUFFICES ASSUME TypeOK, Placed, stage = "sarif_ingest", ScanKind(scan) = "findings"
               PROVE  /\ ev.sarif.patchErrors
                            <= Cardinality({r \in AtLevel(scan, "error") : OnSomeLine(r)})
                      /\ world.diffKnown /\ lost = {} =>
                           ev.sarif.patchErrors
                             >= Cardinality({r \in AtLevel(scan, "error") : OnOwnLine(r)})
    BY DEF NewFindingsAreOfThePatch
  <2> DEFINE changed == ChangedFor("sarif", lost)
             errors == AtLevel(scan, "error")
             new == NewAtLevel(scan, "error", changed)
             some == {r \in errors : OnSomeLine(r)}
             own == {r \in errors : OnOwnLine(r)}
  <2>1. IsFiniteSet(scan.results) /\ ev.sarif = SarifOf(scan, changed)
    BY DEF Placed
  <2>2. ev.sarif.patchErrors = Cardinality(new)
    <3>1. SarifOf(scan, changed) =
            SarifState("available", Cardinality(new),
                       Cardinality(NewAtLevel(scan, "warning", changed)),
                       Cardinality(errors) + LicenseErrors(scan))
      BY DEF SarifOf
    <3>2. QED
      BY <2>1, <3>1 DEF SarifState
  <2>3. /\ DOMAIN changed \in SUBSET Path /\ changed \in {NoChange, Changed}
        /\ DOMAIN NoChange = {}
        /\ \A p \in DOMAIN Changed : Changed[p] \subseteq Line
    BY ChangedIsOfPaths
  <2>4. new \in SUBSET some
    <3> SUFFICES ASSUME NEW r \in new PROVE r \in errors /\ OnSomeLine(r)
      OBVIOUS
    <3>1. r \in errors /\ IsNew(r, changed)
      BY DEF NewAtLevel
    <3>2. PICK key \in Resolve(DOMAIN changed, r.path) : r.line \in changed[key]
      BY <3>1 DEF IsNew
    <3>3. key \in DOMAIN changed /\ Comparable(key, r.path)
      BY <2>3, ResolvedKeys
    <3>4. changed = Changed
      BY <2>3, <3>3
    <3>5. QED
      BY <3>1, <3>2, <3>3, <3>4 DEF OnSomeLine
  <2>5. world.diffKnown /\ lost = {} => own \in SUBSET new
    <3> SUFFICES ASSUME world.diffKnown, lost = {}, NEW r \in own PROVE r \in new
      OBVIOUS
    <3>1. changed = Changed
      BY DEF ChangedFor, Changed
    <3>2. r \in errors /\ r.path \in DOMAIN changed /\ r.line \in changed[r.path]
      BY <3>1 DEF OnOwnLine
    <3>3. r.path \in Path /\ r.line \in Line
      BY <2>3, <3>1, <3>2
    <3>4. r.path # << >> /\ r.line # 0
      BY <3>3, PathsAssumption
    <3>5. Resolve(DOMAIN changed, r.path) = {r.path}
      BY <2>3, <3>2, ResolvedKeys
    <3>6. IsNew(r, changed)
      BY <3>2, <3>4, <3>5 DEF IsNew
    <3>7. QED
      BY <3>2, <3>6 DEF NewAtLevel
  <2>6. errors \in SUBSET scan.results /\ new \in SUBSET errors
    BY DEF AtLevel, Findings, NewAtLevel
  <2> HIDE DEF changed, errors, new
  <2>7. IsFiniteSet(errors)
    BY <2>1, <2>6, FS_Subset
  <2>8. some \in SUBSET errors
    OBVIOUS
  <2> HIDE DEF some, own
  <2>9. IsFiniteSet(new) /\ IsFiniteSet(some)
    BY <2>6, <2>7, <2>8, FS_Subset
  <2>10. Cardinality(new) <= Cardinality(some)
    BY <2>4, <2>9, FS_Subset
  <2>11. world.diffKnown /\ lost = {} => Cardinality(own) <= Cardinality(new)
    BY <2>5, <2>9, FS_Subset
  <2>12. Cardinality(new) \in Int /\ (world.diffKnown /\ lost = {} => Cardinality(own) \in Int)
    BY <2>5, <2>9, FS_CardinalityType, FS_Subset
  <2>13. QED
    BY <2>2, <2>10, <2>11, <2>12 DEF some, own, errors
<1>2. QED
  BY <1>1, PipelineTypeCorrect, PlacedHolds, PTL

\* The measured and the real coverage of a patch are over the same lines, and
\* only lines that every known test runs without an assertion are discounted.
THEOREM RealCoverageComparable == Spec => []RealCoverageIsOfTheSamePatch
<1>1. TypeOK /\ Accounted /\ Placed => RealCoverageIsOfTheSamePatch
  <2> SUFFICES ASSUME TypeOK, Accounted, Placed, stage = "real_coverage", real.patch.available
               PROVE  /\ ev.patch.available
                      /\ ev.patch.rate = (100 * real.patch.measured) \div real.patch.total
                      /\ real.patch.measured - real.patch.vanity
                           >= Cardinality({x \in CoveredPatchLines(coverage, Changed) : Witnessed(x)})
    BY DEF RealCoverageIsOfTheSamePatch
  <2> DEFINE changed == ChangedFor("real", lost)
             lines == PatchLines(coverage, changed)
             covered == CoveredPatchLines(coverage, changed)
             vanity == {x \in covered : VanityOnly(contexts, x[1], x[2])}
             kept == {x \in covered : Witnessed(x)}
  <2>1. real.patch = ScoreLines(contexts, lines, covered)
    BY DEF Placed, RealCoverage, NoTrack
  <2>2. /\ lines # {}
        /\ real.patch.total = Cardinality(lines) /\ real.patch.measured = Cardinality(covered)
        /\ real.patch.vanity = Cardinality(vanity)
    BY <2>1 DEF ScoreLines, NoTrack
  <2>3. changed = Changed /\ world.diffKnown
    <3>1. DOMAIN changed # {}
      BY <2>2 DEF PatchLines
    <3>2. QED
      BY <3>1, ChangedIsOfPaths
  <2>4. /\ IsFiniteSet(covered) /\ Cardinality(covered) \in Nat /\ Cardinality(lines) # 0
        /\ covered \in SUBSET (Path \X Line)
    BY <2>2, PatchLineCounts
  <2>5. ev.patch = PatchCoverageOf(Cardinality(lines), Cardinality(covered))
    BY <2>3 DEF Accounted, PatchStages, MeasuredPatch
  <2>6. ev.patch.available /\ ev.patch.rate = (100 * Cardinality(covered)) \div Cardinality(lines)
    BY <2>4, <2>5 DEF PatchCoverageOf
  <2>7. kept \in SUBSET (covered \ vanity)
    <3> SUFFICES ASSUME NEW x \in covered, Witnessed(x), VanityOnly(contexts, x[1], x[2])
                 PROVE  FALSE
      OBVIOUS
    <3>1. PICK c \in contexts.ran :
            /\ c.file = x[1] /\ c.line = x[2] /\ c.file \in contexts.files
            /\ ~\E t \in contexts.vanity : Comparable(t.file, c.test.file) /\ t.name = c.test.name
      BY DEF Witnessed
    <3>2. Resolve(contexts.files, x[1]) = {x[1]}
      BY <3>1, ResolvedKeys DEF TypeOK, Contexts
    <3>3. IsVanity(contexts, c.test)
      BY <3>1, <3>2 DEF VanityOnly
    <3>4. {t.file : t \in contexts.vanity} \in SUBSET Path
      BY DEF TypeOK, Contexts, Test
    <3>5. PICK key \in Resolve({t.file : t \in contexts.vanity}, c.test.file) :
            [file |-> key, name |-> c.test.name] \in contexts.vanity
      BY <3>3 DEF IsVanity
    <3>6. Comparable(key, c.test.file)
      BY <3>4, <3>5, ResolvedKeys
    <3>7. QED
      BY <3>1, <3>5, <3>6
  <2>8. vanity \in SUBSET covered
    OBVIOUS
  <2> HIDE DEF covered, vanity, kept
  <2>9. /\ IsFiniteSet(covered \ vanity)
        /\ Cardinality(covered \ vanity) = Cardinality(covered) - Cardinality(covered \cap vanity)
    BY <2>4, FS_Difference
  <2>10. covered \cap vanity = vanity
    BY <2>8
  <2>11. Cardinality(kept) <= Cardinality(covered) - Cardinality(vanity)
    <3>1. Cardinality(kept) <= Cardinality(covered \ vanity)
      BY <2>7, <2>9, FS_Subset
    <3>2. Cardinality(covered \ vanity) = Cardinality(covered) - Cardinality(vanity)
      BY <2>9, <2>10
    <3>3. QED
      BY <3>1, <3>2
  <2>12. kept = {x \in CoveredPatchLines(coverage, Changed) : Witnessed(x)}
    BY <2>3 DEF kept, covered
  <2>13. Cardinality(kept) \in Int /\ Cardinality(vanity) \in Int
    BY <2>4, <2>7, <2>8, <2>9, FS_Subset, FS_CardinalityType
  <2>14. real.patch.measured - real.patch.vanity
           >= Cardinality({x \in CoveredPatchLines(coverage, Changed) : Witnessed(x)})
    BY <2>2, <2>4, <2>11, <2>12, <2>13
  <2>15. QED
    BY <2>2, <2>6, <2>14
<1>2. QED
  BY <1>1, AccountedHolds, PlacedHolds, PTL

-----------------------------------------------------------------------------
(* A run and its verification implement Admission.tla.                     *)

Standing == {"pending", "sound", "excused", "gap"}

LEMMA StandingType == \A c \in Controls : StandingOf(c) \in Standing
BY DEF Controls, Standing, StandingOf, PatchStanding, GovernanceStanding, ScanStanding,
       MutationStanding

\* A step that leaves every settled standing alone, before the verdict, is a
\* step of the promise.
LEMMA SettleStep ==
  ASSUME stage \notin {"aborted", "verified"}, stage' \notin {"aborted", "verified"},
         \A c \in Controls : StandingOf(c) # "pending" => StandingOf(c)' = StandingOf(c),
         \A c \in Controls : StandingOf(c)' \in Standing
  PROVE  Promise!Settle
<1>1. VerdictOf = "open" /\ VerdictOf' = "open"
  BY DEF VerdictOf
<1>2. /\ \A c \in Controls : Standings[c] = StandingOf(c)
      /\ \A c \in Controls : Standings'[c] = StandingOf(c)'
  BY DEF Standings
<1>3. Standings' \in [Controls -> Standing]
  BY DEF Standings
<1>4. QED
  BY <1>1, <1>2, <1>3 DEF Promise!Settle, Standing

LEMMA SameStandings ==
  ASSUME \A c \in Controls : StandingOf(c)' = StandingOf(c)
  PROVE  Standings' = Standings
BY DEF Standings

\* The controls in the order in which a run settles them.
LEMMA SettledSoFar ==
  /\ stage \in {"start", "parse_inputs", "aborted"} =>
       \A c \in Controls : StandingOf(c) = "pending"
  /\ stage = "diff_patch_analysis" =>
       \A c \in {"governance", "scan", "mutation"} : StandingOf(c) = "pending"
  /\ stage = "github_rules_api" => \A c \in {"scan", "mutation"} : StandingOf(c) = "pending"
  /\ stage = "sarif_ingest" => StandingOf("mutation") = "pending"
BY DEF Controls, StandingOf, Reached, StageNumber

LEMMA StandingWhenReached ==
  /\ stage \in PatchStages => /\ StandingOf("review") = IF ev.pr.present THEN "sound" ELSE "gap"
                              /\ StandingOf("patch") = PatchStanding
  /\ stage \in PatchStages \ {"diff_patch_analysis"} => StandingOf("governance") = GovernanceStanding
  /\ stage \in ScanStages => StandingOf("scan") = ScanStanding
  /\ stage \in MutationStages => StandingOf("mutation") = MutationStanding
BY DEF StandingOf, Reached, StageNumber, PatchStages, ScanStages, MutationStages

\* The same facts of the state after a step.
LEMMA StandingTypeNext == \A c \in Controls : StandingOf(c)' \in Standing
BY DEF Controls, Standing, StandingOf, PatchStanding, GovernanceStanding, ScanStanding,
       MutationStanding

LEMMA SettledSoFarNext ==
  stage' \in {"start", "parse_inputs", "aborted"} =>
    \A c \in Controls : StandingOf(c)' = "pending"
BY DEF Controls, StandingOf, Reached, StageNumber

LEMMA StandingWhenReachedNext ==
  /\ stage' \in PatchStages =>
       /\ StandingOf("review")' = IF ev'.pr.present THEN "sound" ELSE "gap"
       /\ StandingOf("patch")' = PatchStanding'
  /\ stage' \in PatchStages \ {"diff_patch_analysis"} =>
       StandingOf("governance")' = GovernanceStanding'
  /\ stage' \in ScanStages => StandingOf("scan")' = ScanStanding'
  /\ stage' \in MutationStages => StandingOf("mutation")' = MutationStanding'
BY DEF StandingOf, Reached, StageNumber, PatchStages, ScanStages, MutationStages

\* What a settled standing depends on.
LEMMA SameReviewAndPatch ==
  ASSUME stage \in PatchStages, stage' \in PatchStages, ev'.pr = ev.pr, ev'.patch = ev.patch,
         world' = world
  PROVE  /\ StandingOf("review")' = StandingOf("review")
         /\ StandingOf("patch")' = StandingOf("patch")
<1>1. PatchStanding' = PatchStanding
  BY DEF PatchStanding
<1>2. QED
  BY <1>1, StandingWhenReached, StandingWhenReachedNext

LEMMA SameGovernance ==
  ASSUME stage \in PatchStages \ {"diff_patch_analysis"},
         stage' \in PatchStages \ {"diff_patch_analysis"}, ev'.governance = ev.governance
  PROVE  StandingOf("governance")' = StandingOf("governance")
<1>1. GovernanceStanding' = GovernanceStanding
  BY DEF GovernanceStanding
<1>2. QED
  BY <1>1, StandingWhenReached, StandingWhenReachedNext

LEMMA SameScan ==
  ASSUME stage \in ScanStages, stage' \in ScanStages, scan' = scan
  PROVE  StandingOf("scan")' = StandingOf("scan")
<1>1. ScanStanding' = ScanStanding
  BY DEF ScanStanding
<1>2. QED
  BY <1>1, StandingWhenReached, StandingWhenReachedNext

LEMMA SameAll ==
  ASSUME stage \in MutationStages, stage' \in MutationStages, world' = world, scan' = scan,
         ev' = ev, outcome' = outcome, "mutation" \in lost' <=> "mutation" \in lost
  PROVE  Standings' = Standings
<1>1. MutationStanding' = MutationStanding
  BY DEF MutationStanding, Ended, Changed
<1>2. StandingOf("mutation")' = StandingOf("mutation")
  BY <1>1, StandingWhenReached, StandingWhenReachedNext
<1>3. /\ stage \in ScanStages /\ stage \in PatchStages \ {"diff_patch_analysis"}
      /\ stage' \in ScanStages /\ stage' \in PatchStages \ {"diff_patch_analysis"}
  BY DEF MutationStages, ScanStages, PatchStages
<1>4. QED
  BY <1>2, <1>3, SameReviewAndPatch, SameGovernance, SameScan, SameStandings DEF Controls

LEMMA NonePending ==
  ASSUME stage \in MutationStages
  PROVE  \A c \in Controls : StandingOf(c) # "pending"
<1>1. stage \in ScanStages /\ stage \in PatchStages \ {"diff_patch_analysis"}
  BY DEF MutationStages, ScanStages, PatchStages
<1>2. QED
  BY <1>1, StandingWhenReached DEF Controls, PatchStanding, GovernanceStanding, ScanStanding,
                                   MutationStanding

-----------------------------------------------------------------------------
\* What a mutation report that the strict gate lets through says of the run.
LEMMA ExcusedMutation ==
  ASSUME NEW results, DOMAIN results # {},
         RunMutationTesting(results).reason \notin
           {"unavailable", "not_configured", "unconfigured_language_present",
            "weak_assertion_coverage", "decorative_coverage"}
  PROVE  LET killed == Total(results, "killed")
             denom  == killed + Total(results, "survived")
             tested == denom + Total(results, "timeout")
         IN  \/ tested = 0 \/ tested < MinSample \/ denom = 0
             \/ 100 * killed >= 80 * denom
<1> DEFINE killed == Total(results, "killed")
           survived == Total(results, "survived")
           timeout == Total(results, "timeout")
<1>1. WithStatus(results, "ran") # {} /\ WithStatus(results, "not_configured") = {}
  BY RunMutationTestingReason
<1>2. RunMutationTesting(results) = GradeCounts(killed, survived, timeout)
  BY <1>1 DEF RunMutationTesting, CombineResults, CapForUnconfiguredLanguage
<1> HIDE DEF killed, survived, timeout
<1>3. GradeCounts(killed, survived, timeout).reason \notin
        {"weak_assertion_coverage", "decorative_coverage"}
  BY <1>2
<1>4. CASE killed + survived + timeout # 0 /\ ~(killed + survived + timeout < MinSample)
           /\ killed + survived # 0
  <2>1. GradeFromScore(killed, killed + survived).reason \notin
          {"weak_assertion_coverage", "decorative_coverage"}
    BY <1>3, <1>4 DEF GradeCounts
  <2>2. AtLeast(80, killed, killed + survived)
    BY <2>1 DEF GradeFromScore
  <2>3. QED
    BY <2>2 DEF AtLeast, killed, survived, timeout
<1>5. QED
  BY <1>4 DEF killed, survived, timeout

\* A strict admission leaves no standing pending and none a gap.
LEMMA StrictStandings ==
  ASSUME TypeOK, Accounted, admitted, gate.strict
  PROVE  \A c \in Controls : StandingOf(c) \in {"sound", "excused"}
<1>1. stage = "verified" /\ DegradedReasons(ev) \subseteq AllowedDegradedReasons
  BY StrictGateReasons
     DEF Accounted, ScorePipeline, PatchStages, ScanStages, MutationStages, ScoreStages
<1>2. stage \in PatchStages \ {"diff_patch_analysis"} /\ stage \in ScanStages /\ stage \in MutationStages
  BY <1>1 DEF PatchStages, ScanStages, MutationStages
<1>3. StrictAdmissionSafe
  BY StrictlySafe
<1>4. StandingOf("review") = "sound"
  BY <1>2, <1>3, StandingWhenReached DEF StrictAdmissionSafe
<1>5. StandingOf("patch") \in {"sound", "excused"}
  BY <1>2, <1>3, StandingWhenReached DEF StrictAdmissionSafe, PatchStanding
<1>6. StandingOf("governance") \in {"sound", "excused"}
  <2>1. StandingOf("governance") = GovernanceStanding
    BY <1>2, StandingWhenReached
  <2>2. GovernanceReasons(ev.governance) \subseteq AllowedDegradedReasons
    BY <1>1 DEF DegradedReasons
  <2>3. ev.governance.available => ~BypassPermitsUnreviewedChange(ev.governance)
    BY <2>2 DEF GovernanceReasons, AllowedDegradedReasons
  <2>4. QED
    BY <1>3, <2>1, <2>3 DEF StrictAdmissionSafe, GovernanceStanding
<1>7. StandingOf("scan") \in {"sound", "excused"}
  BY <1>2, <1>3, StandingWhenReached DEF StrictAdmissionSafe, ScanStanding
<1>8. StandingOf("mutation") \in {"sound", "excused"}
  <2>1. StandingOf("mutation") = MutationStanding
    BY <1>2, StandingWhenReached
  <2>2. ~world.skipped /\ world.diffKnown /\ Ended("not_configured") = {}
    BY <1>3 DEF StrictAdmissionSafe
  <2>3. CASE "mutation" \in lost
    BY <2>1, <2>2, <2>3 DEF MutationStanding
  <2>4. CASE "mutation" \notin lost
    <3>1. DOMAIN outcome = Touched(Changed) /\ ev.mutation = RunMutationTesting(outcome)
      BY <1>2, <2>2, <2>4 DEF Accounted, RunLanguages, ChangedFor, Changed
    <3>2. Touched(Changed) # {} => Ended("ran") # {}
      BY <1>3, <2>4 DEF StrictAdmissionSafe
    <3> DEFINE killed == Total(outcome, "killed")
               denom == killed + Total(outcome, "survived")
               tested == denom + Total(outcome, "timeout")
    <3>3. CASE Touched(Changed) = {}
      <4>1. Ended("ran") = {}
        BY <3>1, <3>3 DEF Ended, WithStatus
      <4>2. QED
        BY <2>1, <2>2, <2>4, <3>3, <4>1 DEF MutationStanding
    <3>4. CASE Touched(Changed) # {}
      <4>1. MutationReasons(ev.mutation) \subseteq AllowedDegradedReasons
        BY <1>1 DEF DegradedReasons
      <4>2. ev.mutation.reason \notin
              {"unavailable", "not_configured", "unconfigured_language_present",
               "weak_assertion_coverage", "decorative_coverage"}
        BY <4>1 DEF MutationReasons, AllowedDegradedReasons
      <4>3. \/ tested = 0 \/ tested < MinSample \/ denom = 0
            \/ 100 * killed >= 80 * denom
        BY <3>1, <3>4, <4>2, ExcusedMutation
      <4>4. QED
        BY <2>1, <2>2, <2>4, <3>2, <3>4, <4>3 DEF MutationStanding
    <3>5. QED
      BY <3>3, <3>4
  <2>5. QED
    BY <2>3, <2>4
<1>9. QED
  BY <1>4, <1>5, <1>6, <1>7, <1>8 DEF Controls

StrictlySettled ==
  admitted /\ gate.strict => \A c \in Controls : StandingOf(c) \in {"sound", "excused"}

LEMMA StrictlySettledHolds == Spec => []StrictlySettled
<1>1. TypeOK /\ Accounted => StrictlySettled
  BY StrictStandings DEF StrictlySettled
<1>2. QED
  BY <1>1, AccountedHolds, PTL

-----------------------------------------------------------------------------
(* Step simulation.                                                          *)

LEMMA StepSimulates ==
  ASSUME TypeOK, StrictlySettled', [Next]_vars
  PROVE  [Promise!Next]_(Promise!vars)
<1> USE DEF inputs, verdict
<1>1. CASE Abort
  <2>1. stage \in {"start", "parse_inputs"} /\ stage' = "aborted"
    BY <1>1 DEF Abort, After
  <2>2. \A c \in Controls : StandingOf(c) = "pending" /\ StandingOf(c)' = "pending"
    BY <2>1, SettledSoFar, SettledSoFarNext
  <2>3. Standings' = Standings
    BY <2>2, SameStandings
  <2>4. VerdictOf = "open" /\ VerdictOf' = "rejected"
    BY <2>1 DEF VerdictOf
  <2>5. QED
    BY <2>3, <2>4 DEF Promise!Next, Promise!Reject
<1>2. CASE ParseInputs
  <2>1. stage = "start" /\ stage' = "parse_inputs"
    BY <1>2 DEF ParseInputs, After
  <2>2. \A c \in Controls : StandingOf(c) = "pending" /\ StandingOf(c)' = "pending"
    BY <2>1, SettledSoFar, SettledSoFarNext
  <2>3. Standings' = Standings /\ VerdictOf' = VerdictOf
    BY <2>1, <2>2, SameStandings DEF VerdictOf
  <2>4. QED
    BY <2>3 DEF Promise!vars
<1>3. CASE ComputePatchCoverage
  <2>1. stage = "parse_inputs" /\ stage' = "diff_patch_analysis"
    BY <1>3 DEF ComputePatchCoverage, After
  <2>2. \A c \in Controls : StandingOf(c) = "pending"
    BY <2>1, SettledSoFar
  <2>3. QED
    BY <2>1, <2>2, StandingTypeNext, SettleStep DEF Promise!Next
<1>4. CASE InspectGovernance
  <2>1. /\ stage = "diff_patch_analysis" /\ stage' = "github_rules_api" /\ world' = world
        /\ ev'.pr = ev.pr /\ ev'.patch = ev.patch
    BY <1>4 DEF InspectGovernance, After, TypeOK, Evidence
  <2>2. StandingOf("review")' = StandingOf("review") /\ StandingOf("patch")' = StandingOf("patch")
    BY <2>1, SameReviewAndPatch DEF PatchStages
  <2>3. \A c \in Controls : StandingOf(c) # "pending" => StandingOf(c)' = StandingOf(c)
    BY <2>1, <2>2, SettledSoFar DEF Controls
  <2>4. QED
    BY <2>1, <2>3, StandingTypeNext, SettleStep DEF Promise!Next
<1>5. CASE IngestSarif
  <2>1. /\ stage = "github_rules_api" /\ stage' = "sarif_ingest" /\ world' = world
        /\ ev'.pr = ev.pr /\ ev'.patch = ev.patch /\ ev'.governance = ev.governance
    BY <1>5 DEF IngestSarif, After, TypeOK, Evidence
  <2>2. /\ StandingOf("review")' = StandingOf("review") /\ StandingOf("patch")' = StandingOf("patch")
        /\ StandingOf("governance")' = StandingOf("governance")
    BY <2>1, SameReviewAndPatch, SameGovernance DEF PatchStages
  <2>3. \A c \in Controls : StandingOf(c) # "pending" => StandingOf(c)' = StandingOf(c)
    BY <2>1, <2>2, SettledSoFar DEF Controls
  <2>4. QED
    BY <2>1, <2>3, StandingTypeNext, SettleStep DEF Promise!Next
<1>6. CASE MutationTesting
  <2>1. /\ stage = "sarif_ingest" /\ stage' = "mutation_testing" /\ world' = world /\ scan' = scan
        /\ ev'.pr = ev.pr /\ ev'.patch = ev.patch /\ ev'.governance = ev.governance
    BY <1>6 DEF MutationTesting, After, TypeOK, Evidence
  <2>2. /\ StandingOf("review")' = StandingOf("review") /\ StandingOf("patch")' = StandingOf("patch")
        /\ StandingOf("governance")' = StandingOf("governance")
        /\ StandingOf("scan")' = StandingOf("scan")
    BY <2>1, SameReviewAndPatch, SameGovernance, SameScan DEF PatchStages, ScanStages
  <2>3. \A c \in Controls : StandingOf(c) # "pending" => StandingOf(c)' = StandingOf(c)
    BY <2>1, <2>2, SettledSoFar DEF Controls
  <2>4. QED
    BY <2>1, <2>3, StandingTypeNext, SettleStep DEF Promise!Next
<1>7. CASE Score \/ ComputeRealCoverage \/ WriteAndGate
  <2>1. /\ stage \in {"mutation_testing", "rcs_scoring", "real_coverage"}
        /\ stage' \in {"rcs_scoring", "real_coverage", "written"}
        /\ world' = world /\ scan' = scan /\ ev' = ev /\ outcome' = outcome
        /\ "mutation" \in lost' <=> "mutation" \in lost
    BY <1>7 DEF Score, ComputeRealCoverage, WriteAndGate, MayLoseDiff, After
  <2>2. Standings' = Standings
    BY <2>1, SameAll DEF MutationStages, ScanStages, PatchStages
  <2>3. VerdictOf' = VerdictOf
    BY <2>1 DEF VerdictOf
  <2>4. QED
    BY <2>2, <2>3 DEF Promise!vars
<1>8. CASE Verify
  <2>1. /\ stage = "written" /\ stage' = "verified"
        /\ world' = world /\ scan' = scan /\ ev' = ev /\ outcome' = outcome /\ lost' = lost
    BY <1>8 DEF Verify, After
  <2>2. Standings' = Standings
    BY <2>1, SameAll DEF MutationStages, ScanStages, PatchStages
  <2>3. VerdictOf = "open" /\ VerdictOf' \in {"strict", "lenient", "rejected"}
    BY <2>1 DEF VerdictOf
  <2>4. CASE VerdictOf' = "rejected"
    BY <2>2, <2>3, <2>4 DEF Promise!Next, Promise!Reject
  <2>5. Promise!Settled
    <3>1. \A c \in Controls : StandingOf(c) # "pending"
      BY <2>1, NonePending DEF MutationStages, ScanStages, PatchStages
    <3>2. QED
      BY <3>1 DEF Promise!Settled, Standings
  <2>6. CASE VerdictOf' = "lenient"
    BY <2>2, <2>3, <2>5, <2>6 DEF Promise!Next, Promise!AdmitLeniently
  <2>7. CASE VerdictOf' = "strict"
    <3>1. admitted' /\ (gate').strict
      BY <2>1, <2>7 DEF VerdictOf
    <3>2. \A c \in Controls : StandingOf(c)' \in {"sound", "excused"}
      BY <3>1 DEF StrictlySettled
    <3>3. \A c \in Controls : Standings[c] # "gap"
      <4>1. \A c \in Controls : Standings'[c] = StandingOf(c)'
        BY DEF Standings
      <4>2. QED
        BY <2>2, <3>2, <4>1
    <3>4. QED
      BY <2>2, <2>3, <2>5, <2>7, <3>3 DEF Promise!Next, Promise!AdmitStrictly
  <2>8. QED
    BY <2>3, <2>4, <2>6, <2>7
<1>9. CASE UNCHANGED vars
  <2>1. \A c \in Controls : StandingOf(c)' = StandingOf(c)
    BY <1>9 DEF vars, Controls, StandingOf, Reached, PatchStanding, GovernanceStanding,
                ScanStanding, MutationStanding, Ended, Changed
  <2>2. VerdictOf' = VerdictOf
    BY <1>9 DEF vars, VerdictOf
  <2>3. QED
    BY <2>1, <2>2, SameStandings DEF Promise!vars
<1>10. QED
  BY <1>1, <1>2, <1>3, <1>4, <1>5, <1>6, <1>7, <1>8, <1>9 DEF Next, Done

\* A run and its verification keep the promise of a gated release: each control
\* is settled once and for good, and a strict admission comes after all of them
\* and over no gap, for any languages, inputs and gates.
THEOREM KeepsThePromise == Spec => PromiseSpec
<1>1. Init => Promise!Init
  <2> SUFFICES ASSUME Init PROVE Promise!Init
    OBVIOUS
  <2>1. stage = "start"
    BY DEF Init
  <2>2. \A c \in Controls : StandingOf(c) = "pending"
    BY <2>1, SettledSoFar
  <2>3. Standings = [c \in Controls |-> "pending"] /\ VerdictOf = "open"
    BY <2>1, <2>2 DEF Standings, VerdictOf
  <2>4. QED
    BY <2>3 DEF Promise!Init
<1>2. TypeOK /\ StrictlySettled' /\ [Next]_vars => [Promise!Next]_(Promise!vars)
  BY StepSimulates
<1>3. QED
  BY <1>1, <1>2, PipelineTypeCorrect, StrictlySettledHolds, PTL DEF Spec, PromiseSpec, Promise!Spec
=============================================================================
