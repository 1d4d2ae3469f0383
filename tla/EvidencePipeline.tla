--------------------------- MODULE EvidencePipeline ---------------------------
(***************************************************************************)
(* One `lucid-assay run` and the `lucid-assay verify` that judges what it  *)
(* produced.  cli/main.py's main() gathers the evidence stage by stage;    *)
(* every stage can lose its control (no base commit, a platform that does  *)
(* not answer, a broken scan, a tool that crashes) and the run goes on,    *)
(* recording the loss in the score and in degraded_reasons.  The gate then *)
(* sees only the score and the reasons, never what happened.               *)
(*                                                                         *)
(* `world` and `outcome` are what really happened, `coverage` and `scan`   *)
(* what the input files say; `ev` is what the run recorded of it.  The     *)
(* properties relate them.                                                 *)
(***************************************************************************)
EXTENDS Scorer, PolicyGate, TestEvidence, ScanReports

CONSTANTS
  LanguageOf,        \* path -> the language its source is tested in, {} for none
  Diffs,             \* what a patch may change
  ReportInputs,      \* the JUnit and coverage reports a run may parse
  ContextInputs,     \* the --coverage-contexts and AST results of a run
  PullRequests,      \* the --pr-* arguments of a run
  GovernanceInputs,  \* the reports inspect_branch_governance may return
  ScanInputs,        \* what the --sarif and --sbom inputs hold
  LanguageOutcomes,  \* what a language's runner may report
  Gates,             \* the gate parameters of a consumer
  RunMinRcs,         \* --min-rcs of the run itself
  SubjectDigest      \* the digest of --image-digest

ReportInput == [tests : Seq(Attempt), coverage : CoverageReport]

LanguageOutcome ==
  [status : Status, killed : Nat, survived : Nat, timeout : Nat]

Gate == [minRcs : Nat, strict : BOOLEAN, digest : {SubjectDigest, NoDigest, "other"}]

ASSUME InputsAssumption ==
  /\ LanguageOf \in [Path -> SUBSET Language]
  /\ Diffs \subseteq SUBSET Section
  /\ ReportInputs \subseteq ReportInput
  /\ ContextInputs \subseteq Contexts
  /\ PullRequests \subseteq PullRequest
  /\ GovernanceInputs \subseteq GovernanceReport
  /\ ScanInputs \subseteq ScanInput /\ \A s \in ScanInputs : IsFiniteSet(s.results)
  /\ LanguageOutcomes \subseteq LanguageOutcome
  /\ Gates \subseteq Gate
  /\ RunMinRcs \in Nat

VARIABLES
  stage,     \* the pipeline stage main() has completed
  world,     \* what the patch changed; whether git can tell; is mutation testing skipped
  lost,      \* the later stages whose own `git diff` failed, the first having worked
  coverage,  \* the coverage report
  scan,      \* what the --sarif and --sbom inputs hold
  outcome,   \* language -> its runner's result, for the touched languages
  contexts,  \* which test ran which line
  ev,        \* the evidence collected so far
  real,      \* the coverage block that discounts tests without an assertion
  rcs,       \* the score block of the statement
  exit,      \* the exit code of the run
  gate,      \* the parameters of the consumer's verify
  admitted   \* what that verify said

inputs == <<coverage, scan, contexts>>
verdict == <<exit, gate, admitted>>
vars == <<stage, world, lost, inputs, outcome, ev, real, rcs, verdict>>

Stages ==
  {"start", "parse_inputs", "diff_patch_analysis", "github_rules_api", "sarif_ingest",
   "mutation_testing", "rcs_scoring", "real_coverage", "written", "verified", "aborted"}

World == [diffKnown : BOOLEAN, diff : Diffs, skipped : BOOLEAN]

NoTests == [passed |-> 0, failed |-> 0, errored |-> 0, skipped |-> 0, flaky |-> 0]

NoContexts == [available |-> FALSE, files |-> {}, ran |-> {}, vanity |-> {}]

NoRcs == [value |-> 0, reasons |-> {}]

NoGate == [minRcs |-> 0, strict |-> FALSE, digest |-> NoDigest]

Unmeasured(reason) == [available |-> FALSE, rate |-> 0, reason |-> reason]

Init ==
  /\ stage = "start"
  /\ world \in World
  /\ lost = {}
  /\ coverage = NoCoverage /\ scan = NoScan /\ contexts = NoContexts
  /\ outcome = [l \in {} |-> Unavailable]
  /\ \E pr \in PullRequests :
       ev = [tests |-> NoTests, overall |-> 0, patch |-> Unmeasured("none"), pr |-> pr,
             governance |-> UnavailableGovernance("none"), sarif |-> SarifState("absent", 0, 0, 0),
             mutation |-> UnavailableReport("unavailable")]
  /\ real = [overall |-> NoTrack, patch |-> NoTrack]
  /\ rcs = NoRcs
  /\ exit = 0
  /\ gate = NoGate
  /\ admitted = FALSE

After(done, next) == stage = done /\ stage' = next

\* An unreadable JUnit or coverage report raises, and so does a diff that git
\* cannot run or Python cannot decode: no statement is written.
Abort ==
  /\ After("start", "aborted") \/ After("parse_inputs", "aborted")
  /\ exit' = 1
  /\ UNCHANGED <<world, lost, inputs, outcome, ev, real, rcs, gate, admitted>>

ParseInputs ==
  /\ After("start", "parse_inputs")
  /\ \E input \in ReportInputs :
       /\ coverage' = input.coverage
       /\ ev' = [ev EXCEPT !.tests = TotalsOf(input.tests),
                          !.overall = OverallRate(input.coverage)]
  /\ UNCHANGED <<world, lost, scan, contexts, outcome, real, rcs, verdict>>

\* compute_patch_coverage: an unknown diff has no reason code; a diff with no
\* coverable changed line has one.
PatchCoverageOf(changed, covered) ==
  IF changed = 0 THEN Unmeasured("no_coverable_lines")
  ELSE [available |-> TRUE, rate |-> (100 * covered) \div changed, reason |-> "none"]

ComputePatchCoverage ==
  /\ After("parse_inputs", "diff_patch_analysis")
  /\ \/ /\ ~world.diffKnown
        /\ ev' = [ev EXCEPT !.patch = Unmeasured("none")]
     \/ /\ world.diffKnown
        /\ LET changed == ChangedLines(world.diff)
           IN  ev' = [ev EXCEPT !.patch =
                        PatchCoverageOf(Cardinality(PatchLines(coverage, changed)),
                                        Cardinality(CoveredPatchLines(coverage, changed)))]
  /\ UNCHANGED <<world, lost, inputs, outcome, real, rcs, verdict>>

InspectGovernance ==
  /\ After("diff_patch_analysis", "github_rules_api")
  /\ \E report \in GovernanceInputs : ev' = [ev EXCEPT !.governance = report]
  /\ UNCHANGED <<world, lost, inputs, outcome, real, rcs, verdict>>

\* compute_patch_modified_lines: every later stage runs `git diff` again, and
\* one that fails reads as a patch without a change.
MayLoseDiff(caller, asks) ==
  IF asks /\ world.diffKnown THEN {lost, lost \cup {caller}} ELSE {lost}

ChangedFor(caller, losses) ==
  IF ~world.diffKnown \/ caller \in losses THEN NoChange ELSE ChangedLines(world.diff)

IngestSarif ==
  /\ After("github_rules_api", "sarif_ingest")
  /\ scan' \in ScanInputs
  /\ lost' \in MayLoseDiff("sarif", scan'.given # {})
  /\ ev' = [ev EXCEPT !.sarif = SarifOf(scan', ChangedFor("sarif", lost'))]
  /\ UNCHANGED <<world, coverage, contexts, outcome, real, rcs, verdict>>

\* _classify_changed_files: the languages whose source the patch names.
Touched(changed) == UNION {LanguageOf[p] : p \in DOMAIN changed}

\* Without a diff nothing is known to be touched, and nothing runs.
RunLanguages(losses) == Touched(ChangedFor("mutation", losses))

MutationTesting ==
  /\ After("sarif_ingest", "mutation_testing")
  /\ \/ /\ world.skipped
        /\ ev' = [ev EXCEPT !.mutation = SkippedReport]
        /\ UNCHANGED <<lost, outcome>>
     \/ /\ ~world.skipped
        /\ lost' \in MayLoseDiff("mutation", TRUE)
        /\ outcome' \in [RunLanguages(lost') -> LanguageOutcomes]
        /\ ev' = [ev EXCEPT !.mutation = RunMutationTesting(outcome')]
  /\ UNCHANGED <<world, inputs, real, rcs, verdict>>

Score ==
  /\ After("mutation_testing", "rcs_scoring")
  /\ rcs' = ScorePipeline(ev)
  /\ UNCHANGED <<world, lost, inputs, outcome, ev, real, verdict>>

\* Informational: the score is settled already.
ComputeRealCoverage ==
  /\ After("rcs_scoring", "real_coverage")
  /\ contexts' \in ContextInputs
  /\ lost' \in MayLoseDiff("real", contexts'.available)
  /\ real' = RealCoverage(contexts', coverage, ChangedFor("real", lost'))
  /\ UNCHANGED <<world, coverage, scan, outcome, ev, rcs, verdict>>

\* The statement is written before the run's own gate decides its exit code.
WriteAndGate ==
  /\ After("real_coverage", "written")
  /\ exit' = IF rcs.value < RunMinRcs THEN 1 ELSE 0
  /\ UNCHANGED <<world, lost, inputs, outcome, ev, real, rcs, gate, admitted>>

\* A consumer verifies the statement with parameters of its own; `trusted`
\* is whether the envelope's signature and identity check out.
Verify ==
  /\ After("written", "verified")
  /\ gate' \in Gates
  /\ \E trusted \in BOOLEAN :
       admitted' = (trusted /\ PolicyViolations(rcs, gate', {SubjectDigest}) = {})
  /\ UNCHANGED <<world, lost, inputs, outcome, ev, real, rcs, exit>>

Done == stage \in {"verified", "aborted"} /\ UNCHANGED vars

Next ==
  \/ Abort
  \/ ParseInputs
  \/ ComputePatchCoverage
  \/ InspectGovernance
  \/ IngestSarif
  \/ MutationTesting
  \/ Score
  \/ ComputeRealCoverage
  \/ WriteAndGate
  \/ Verify
  \/ Done

Spec == Init /\ [][Next]_vars

-----------------------------------------------------------------------------
(* Properties.                                                              *)

\* Every variable stays in its type; in particular the score is 0 to 100, and
\* the clamp at the end of score_pipeline has nothing to cut off.
TypeOK ==
  /\ stage \in Stages
  /\ world \in World
  /\ lost \subseteq {"sarif", "mutation", "real"}
  /\ coverage \in CoverageReport
  /\ scan \in ScanInput
  /\ \E D \in SUBSET Language : outcome \in [D -> LanguageOutcome]
  /\ contexts \in Contexts
  /\ ev \in Evidence
  /\ real \in [overall : Track, patch : Track]
  /\ rcs \in [value : 0..100, reasons : SUBSET DegradedReason]
  /\ TotalWeighted(ev) \in 0..FullScore
  /\ exit \in {0, 1}
  /\ gate \in Gate
  /\ admitted \in BOOLEAN

\* The languages the diff touches that ended with this status.
Ended(status) == WithStatus(outcome, status)

\* The patch as git told it, where it did.
Changed == ChangedLines(world.diff)

\* What a consumer who asked for --disallow-degraded may rely on, whatever
\* the run recorded: the diff was known; a patch excused from coverage adds
\* no line that the report knows of under the file's own path; the change was
\* reviewed as a pull request; no scan was broken; the branch's rules forbid
\* an unreviewed change (or the platform's plan cannot say); mutation testing
\* was not skipped, every touched language had a tool, and at least one tool
\* ran, unless the diff of that stage alone was lost (verify.py's "real,
\* fixable gaps ... still block by design").
StrictAdmissionSafe ==
  admitted /\ gate.strict =>
    /\ world.diffKnown
    /\ ev.patch.available
         \/ \A p \in DOMAIN Changed \cap FilesOf(coverage) :
              Changed[p] \cap Coverable(coverage, p) = {}
    /\ ev.pr.present
    /\ ScanKind(scan) # "broken"
    /\ \/ ev.governance.available /\ ~BypassPermitsUnreviewedChange(ev.governance)
       \/ ev.governance.reason = "platform_unsupported_tier"
    /\ ~world.skipped
    /\ Ended("not_configured") = {}
    /\ Touched(Changed) # {} /\ "mutation" \notin lost => Ended("ran") # {}

\* A scan is judged by the lines it names.  An error on a line this patch
\* adds, reported under the file's own path, always counts as new; a finding
\* never does unless some changed file of that name has that line added
\* (sarif.py, "weigh a newly introduced finding differently").
OnOwnLine(result) == result.path \in DOMAIN Changed /\ result.line \in Changed[result.path]

OnSomeLine(result) ==
  \E p \in DOMAIN Changed : Comparable(p, result.path) /\ result.line \in Changed[p]

NewFindingsAreOfThePatch ==
  stage = "sarif_ingest" /\ ScanKind(scan) = "findings" =>
    /\ ev.sarif.patchErrors <= Cardinality({r \in AtLevel(scan, "error") : OnSomeLine(r)})
    /\ world.diffKnown /\ lost = {} =>
         ev.sarif.patchErrors >= Cardinality({r \in AtLevel(scan, "error") : OnOwnLine(r)})

\* The documented claim that measured and real coverage of the patch are over
\* the same lines (real_coverage.py, "always apples-to-apples comparable"),
\* and that only lines implicated by the export are discounted: a line that a
\* test with an assertion ran, both under their own paths, counts in full.
Witnessed(x) ==
  \E c \in contexts.ran :
    /\ c.file = x[1] /\ c.line = x[2] /\ c.file \in contexts.files
    /\ ~\E t \in contexts.vanity : Comparable(t.file, c.test.file) /\ t.name = c.test.name

RealCoverageIsOfTheSamePatch ==
  stage = "real_coverage" /\ real.patch.available =>
    /\ ev.patch.available
    /\ ev.patch.rate = (100 * real.patch.measured) \div real.patch.total
    /\ real.patch.measured - real.patch.vanity
         >= Cardinality({x \in CoveredPatchLines(coverage, Changed) : Witnessed(x)})

\* Losing a control is never cheaper than what it would have said.  Without a
\* token the run scores no more than with any report on the branch, one that
\* says its rules can be bypassed included (scorer.py,
\* BRANCH_GOVERNANCE_UNVERIFIED_PENALTY), and a broken scanner input costs
\* real points against a clean scan (STATIC_ANALYSIS_UNAVAILABLE_PENALTY).
LosingAControlNeverHelps ==
  stage = "rcs_scoring" =>
    /\ ScoreValue([ev EXCEPT !.governance = UnavailableGovernance("none")]) <= rcs.value
    /\ ScanKind(scan) = "broken" =>
         rcs.value < ScoreValue([ev EXCEPT !.sarif = SarifState("available", 0, 0, 0)])

\* Touching one more language, one without a tool, never raises the score:
\* the cap is never an improvement (_cap_for_unconfigured_language).
UnconfiguredLanguageNeverHelps ==
  stage = "rcs_scoring" /\ ~world.skipped =>
    \A l \in Language \ DOMAIN outcome :
      LET more == [k \in DOMAIN outcome \cup {l} |->
                     IF k = l THEN NotConfigured ELSE outcome[k]]
      IN  ScoreValue([ev EXCEPT !.mutation = RunMutationTesting(more)]) <= rcs.value

\* The documented claim that code no tool assessed never gets full credit: a
\* language whose tool crashed or timed out keeps the multiplier below 100
\* (mutation/__init__.py, "never defaults to full credit").
FailedToolNeverFullCredit ==
  stage = "rcs_scoring" /\ ~world.skipped /\ Ended("unavailable") # {} =>
    ev.mutation.multiplier < 100

-----------------------------------------------------------------------------
(* The admission a strict consumer is promised (Admission.tla), read off    *)
(* what really happened.                                                    *)

StageNumber ==
  [start |-> 0, parse_inputs |-> 1, diff_patch_analysis |-> 2, github_rules_api |-> 3,
   sarif_ingest |-> 4, mutation_testing |-> 5, rcs_scoring |-> 6, real_coverage |-> 7,
   written |-> 8, verified |-> 9, aborted |-> 0]

Reached(s) == StageNumber[stage] >= StageNumber[s]

PatchStanding ==
  IF ~world.diffKnown THEN "gap" ELSE IF ev.patch.available THEN "sound" ELSE "excused"

GovernanceStanding ==
  IF ev.governance.available
    THEN IF BypassPermitsUnreviewedChange(ev.governance) THEN "gap" ELSE "sound"
    ELSE IF ev.governance.reason = "platform_unsupported_tier" THEN "excused" ELSE "gap"

ScanStanding ==
  CASE ScanKind(scan) = "absent" -> "excused"
    [] ScanKind(scan) = "broken" -> "gap"
    [] OTHER -> "sound"

\* Some touched language must have been assessed and none without a tool, and
\* the mutants of the change, where there were enough of them, killed at the
\* passing rate.  (That a tool which failed beside one that ran is no gap, and
\* that a diff lost by this stage alone excuses it, is the code's reading;
\* FailedToolNeverFullCredit is the documented one.)
MutationStanding ==
  LET killed == Total(outcome, "killed")
      denom  == killed + Total(outcome, "survived")
      tested == denom + Total(outcome, "timeout")
  IN  IF \/ world.skipped
         \/ ~world.diffKnown
         \/ Ended("not_configured") # {}
         \/ "mutation" \notin lost /\ Touched(Changed) # {} /\ Ended("ran") = {}
        THEN "gap"
      ELSE IF \/ "mutation" \in lost \/ Ended("ran") = {}
              \/ tested = 0 \/ tested < MinSample \/ denom = 0
        THEN "excused"
      ELSE IF 100 * killed >= 80 * denom THEN "sound" ELSE "gap"

StandingOf(control) ==
  CASE control = "review" ->
         IF ~Reached("diff_patch_analysis") THEN "pending" ELSE IF ev.pr.present THEN "sound" ELSE "gap"
    [] control = "patch" ->
         IF Reached("diff_patch_analysis") THEN PatchStanding ELSE "pending"
    [] control = "governance" ->
         IF Reached("github_rules_api") THEN GovernanceStanding ELSE "pending"
    [] control = "scan" ->
         IF Reached("sarif_ingest") THEN ScanStanding ELSE "pending"
    [] control = "mutation" ->
         IF Reached("mutation_testing") THEN MutationStanding ELSE "pending"

VerdictOf ==
  IF stage = "verified" /\ admitted THEN IF gate.strict THEN "strict" ELSE "lenient"
  ELSE IF stage \in {"verified", "aborted"} THEN "rejected"
  ELSE "open"

Controls == {"review", "patch", "governance", "scan", "mutation"}

Standings == [c \in Controls |-> StandingOf(c)]

Promise ==
  INSTANCE Admission WITH Control <- Controls, standing <- Standings, verdict <- VerdictOf

\* A run and its verification implement the promised admission: no control's
\* standing ever changes once it is settled, and a strict admission follows
\* only when every control is settled and none of them is a gap.
PromiseSpec == Promise!Spec
=============================================================================
