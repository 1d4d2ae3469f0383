-------------------------- MODULE FunctionalAdequacy --------------------------
(***************************************************************************)
(* cli/parsers/functional_adequacy.py, as the attestation pipeline uses it *)
(* before a build is attested (tier "ci") and `lucid-assay                 *)
(* functional-adequacy` after it is deployed (tier "cd").  A contract      *)
(* checked into the repository declares the critical user journeys and the *)
(* tier each must be proven at; a live suite writes one report per stage   *)
(* and may be cut short; the evaluator compares the two.                   *)
(*                                                                         *)
(* The suite and its test framework are external: `executed` is what the   *)
(* suite really did, `files` what it left for the evaluator to read.       *)
(***************************************************************************)
EXTENDS Integers, Sequences, SequencesExt, FiniteSetsExt

CONSTANTS
  Journey,      \* journey ids
  NoId,         \* an id that is blank or malformed
  Stage,        \* stages of a suite, each with a report file of its own
  Contracts,    \* contents of .lucid/functional-verification.json to consider
  StageTests,   \* what the tests of one stage may come to: sequences of Test
  MaxReported   \* MAX_REPORTED_TESTS

EvaluationTier == {"ci", "cd"}
DeclaredTier == {"ci", "cd", "both"}
Framework == {"playwright", "pytest", "generic_json"}

\* A test of the suite: what really came of it, the journeys it is tagged with.
Test == [truth : {"passed", "failed", "skipped"}, journeys : SUBSET Journey]

JourneyEntry == [id : Journey \cup {NoId}, tier : DeclaredTier \cup {"unknown"}]

\* The file: "absent" also stands for unreadable, malformed or not an object.
\* `min` is in hundredths of a percent, and nothing keeps it below 100 percent.
ContractFile ==
  [form : {"absent", "journeys", "declared_journeys"}, entries : Seq(JourneyEntry),
   framework : Framework \cup {"other"}, min : Int]

ASSUME AdequacyAssumption ==
  /\ NoId \notin Journey
  /\ Contracts \subseteq ContractFile
  /\ IsFiniteSet(Stage) /\ StageTests \subseteq Seq(Test)
  /\ MaxReported \in Nat \ {0}

VARIABLES
  contract,  \* the contract file
  tier,      \* the tier being proven
  suite,     \* "waiting", "running", "over" or "evaluated"
  files,     \* stage -> what its report file holds
  executed,  \* the tests the suite really ran at this tier
  aborted,   \* was this tier's suite cut short
  result,    \* the report of the current tier, once evaluated
  attested   \* what the "ci" report said of the journeys

adequacyVars == <<contract, tier, suite, files, executed, aborted, result, attested>>

-----------------------------------------------------------------------------
(* How a framework writes down what came of a test, and how the parsers     *)
(* read it back.                                                            *)

\* External: the encodings a framework may choose.  Playwright keeps every
\* attempt, JUnit the outcome elements, the generic report a word.
Encodings(framework, truth) ==
  CASE framework = "playwright" ->
         [passed  |-> {<<"passed">>, <<"failed", "passed">>},
          skipped |-> {<< >>, <<"skipped">>},
          failed  |-> {<<"timedOut">>, <<"passed", "failed">>}][truth]
    [] framework = "pytest" ->
         [passed  |-> {{}},
          skipped |-> {{"skipped"}},
          failed  |-> {{"failure"}, {"error", "skipped"}}][truth]
    [] OTHER ->
         [passed  |-> {"passed"},
          skipped |-> {"skip"},
          failed  |-> {"errored", "unheard_of"}][truth]

\* _playwright_final_status: the last attempt decides.
PlaywrightStatus(attempts) ==
  IF attempts = << >> THEN "skipped"
  ELSE IF Last(attempts) \in {"passed", "skipped"} THEN Last(attempts) ELSE "failed"

\* _junit_case_status.
JunitStatus(elements) ==
  IF elements \cap {"failure", "error"} # {} THEN "failed"
  ELSE IF "skipped" \in elements THEN "skipped" ELSE "passed"

\* _parse_generic_json_report: a word it does not know is a failure.
GenericStatus(word) ==
  CASE word \in {"passed", "pass"} -> "passed"
    [] word \in {"skipped", "skip"} -> "skipped"
    [] OTHER -> "failed"

CaseStatus(framework, raw) ==
  CASE framework = "playwright" -> PlaywrightStatus(raw)
    [] framework = "pytest" -> JunitStatus(raw)
    [] OTHER -> GenericStatus(raw)

-----------------------------------------------------------------------------
(* The contract.  Journeys are kept by their place in the file.              *)

\* _parse_journey_objects: one bad or repeated entry invalidates them all.
ParseJourneyObjects(entries) ==
  IF entries = << >> THEN [outcome |-> "unconfigured", journeys |-> << >>]
  ELSE IF \/ \E i \in DOMAIN entries : entries[i].id = NoId \/ entries[i].tier \notin DeclaredTier
          \/ \E i, j \in DOMAIN entries : i # j /\ entries[i].id = entries[j].id
    THEN [outcome |-> "invalid", journeys |-> << >>]
  ELSE [outcome |-> "usable", journeys |-> entries]

\* The legacy list of ids: blanks are dropped, repetitions stay, all are "ci".
LegacyJourneys(entries) ==
  LET ids == {i \in DOMAIN entries : entries[i].id # NoId}
  IN  [outcome |-> IF ids = {} THEN "unconfigured" ELSE "usable",
       journeys |-> [i \in ids |-> [id |-> entries[i].id, tier |-> "ci"]]]

\* _load_contract.
LoadContract(file) ==
  CASE file.form = "absent" -> [outcome |-> "unconfigured", journeys |-> << >>]
    [] file.form = "journeys" -> ParseJourneyObjects(file.entries)
    [] OTHER -> LegacyJourneys(file.entries)

\* Mistake: a journey of both tiers is left to the later one.
ResponsibleOnce(journeys, t) ==
  Restrict(journeys, {i \in DOMAIN journeys :
                        journeys[i].tier = t \/ (t = "cd" /\ journeys[i].tier = "both")})

\* The journeys to be proven at tier t, and those left to the other one.
Responsible(journeys, t) ==
  Restrict(journeys, {i \in DOMAIN journeys : journeys[i].tier \in {t, "both"}})

Deferred(journeys, t) ==
  Restrict(journeys, {i \in DOMAIN journeys : journeys[i].tier \notin {t, "both"}})

Ids(journeys) == {journeys[i].id : i \in DOMAIN journeys}

-----------------------------------------------------------------------------
(* The evaluation.                                                          *)

Readable(fs) == {s \in Stage : fs[s].kind = "report"}

\* _parse_reports, over every --functional-report path: a case for each test,
\* by its stage and its place in the report.
ParsedCases(framework, fs) ==
  [p \in UNION {{s} \X DOMAIN fs[s].tests : s \in Readable(fs)} |->
     LET test == fs[p[1]].tests[p[2]]
     IN  [status |-> CaseStatus(framework, test.raw), journeys |-> test.journeys]]

WithCaseStatus(cases, status) == {p \in DOMAIN cases : cases[p].status = status}

JourneysOf(tests) == UNION {t.journeys : t \in tests}

JourneysWith(cases, status) == JourneysOf({cases[p] : p \in WithCaseStatus(cases, status)})

\* _compute_adequacy: a failure anywhere is never masked by a pass elsewhere.
Covered(declared, cases) ==
  Restrict(declared, {i \in DOMAIN declared :
                        declared[i].id \in JourneysWith(cases, "passed")
                                            \ JourneysWith(cases, "failed")})

\* round(covered / declared * 100, 2), in hundredths of a percent.  A quotient
\* halfway between two hundredths goes up (0) or down (1): to the even one
\* where a float holds it, else to where the nearest float lies.
ScorePct(covered, declared, down) ==
  LET n == Cardinality(DOMAIN declared)
  IN  (20000 * Cardinality(DOMAIN covered) + n - down) \div (2 * n)

\* _test_rows: failures first, so that the cap drops passing tests first; the
\* rows that are left, by their status.
TestRows(cases) ==
  LET Capped(n, room) == IF n < room THEN n ELSE room
      failed  == Capped(Cardinality(WithCaseStatus(cases, "failed")), MaxReported)
      skipped == Capped(Cardinality(WithCaseStatus(cases, "skipped")), MaxReported - failed)
      passed  == Capped(Cardinality(WithCaseStatus(cases, "passed")),
                        MaxReported - failed - skipped)
  IN  [failed |-> failed, skipped |-> skipped, passed |-> passed]

NoRows == [failed |-> 0, skipped |-> 0, passed |-> 0]

Report(status, met, code, declared, covered, deferred, rows) ==
  [status |-> status, met |-> met, code |-> code, declared |-> declared, covered |-> covered,
   deferred |-> deferred, rows |-> rows]

NoReport == Report("none", FALSE, "none", << >>, << >>, << >>, NoRows)

\* Only a tiered contract, or the later tier, lists what is deferred.
Tiered(file, t) == file.form = "journeys" \/ t = "cd"

Unavailable(code, declared, deferred) ==
  Report("unavailable", FALSE, code, declared, << >>, deferred, NoRows)

\* _all_reports_failed.
AllFailedCode(t, fs) ==
  IF t = "cd" /\ \A s \in Stage : fs[s].kind = "absent" THEN "execution_aborted"
  ELSE "report_malformed"

\* Mistake: the reports that could be read are evaluated as if they were all.
EvaluatedReadableOnly(file, t, fs, declared, deferred, down) ==
  LET cases   == ParsedCases(file.framework, fs)
      covered == Covered(declared, cases)
      met     == /\ DOMAIN cases # {} /\ WithCaseStatus(cases, "failed") = {}
                 /\ ScorePct(covered, declared, down) >= file.min
  IN  Report("evaluated", met, IF met THEN "none" ELSE "partial_adequacy", declared, covered,
             deferred, IF Tiered(file, t) THEN TestRows(cases) ELSE NoRows)

\* The outcome of reports of which at least one could be read.
Evaluated(file, t, fs, declared, deferred, down) ==
  LET cases   == ParsedCases(file.framework, fs)
      failed  == WithCaseStatus(cases, "failed")
      covered == Covered(declared, cases)
      enough  == ScorePct(covered, declared, down) >= file.min
      lost    == Stage \ Readable(fs)
      code    == IF lost # {}
                   THEN IF t = "cd" /\ \E s \in lost : fs[s].kind = "absent"
                          THEN "execution_aborted" ELSE "report_malformed"
                 ELSE IF DOMAIN cases = {} THEN "no_tests_executed"
                 ELSE IF failed # {} THEN "test_failures"
                 ELSE IF ~enough THEN "partial_adequacy"
                 ELSE "none"
  IN  Report("evaluated", code = "none", code, declared, covered, deferred,
             IF Tiered(file, t) THEN TestRows(cases) ELSE NoRows)

\* evaluate_functional_adequacy.
Evaluate(file, t, fs, given, down) ==
  LET load     == LoadContract(file)
      declared == Responsible(load.journeys, t)
      deferred == IF Tiered(file, t) THEN Deferred(load.journeys, t) ELSE << >>
  IN  IF load.outcome = "invalid" THEN Unavailable("config_invalid", << >>, << >>)
      ELSE IF load.outcome = "unconfigured" \/ DOMAIN declared = {}
        THEN Report("not_configured", FALSE, "not_configured", << >>, << >>, deferred, NoRows)
      ELSE IF ~given THEN Unavailable("report_missing", declared, deferred)
      ELSE IF file.framework \notin Framework
        THEN Unavailable("unsupported_framework", declared, deferred)
      ELSE IF Readable(fs) = {} THEN Unavailable(AllFailedCode(t, fs), declared, deferred)
      ELSE Evaluated(file, t, fs, declared, deferred, down)

-----------------------------------------------------------------------------
(* The suite, and the evaluation that follows it.                           *)

Absent == [kind |-> "absent", tests |-> << >>]
Malformed == [kind |-> "malformed", tests |-> << >>]

NothingWritten == [s \in Stage |-> Absent]

NoContract == [form |-> "absent", entries |-> << >>, framework |-> "other", min |-> 0]

AdequacyInit ==
  /\ contract = NoContract
  /\ tier = "ci" /\ suite = "waiting"
  /\ files = NothingWritten
  /\ executed = {} /\ aborted = FALSE
  /\ result = NoReport /\ attested = NoReport

SuiteStarts ==
  /\ suite = "waiting"
  /\ suite' = "running"
  /\ contract' \in Contracts
  /\ UNCHANGED <<tier, files, executed, aborted, result, attested>>

NotYetRun == {s \in Stage : files[s] = Absent}

\* A stage runs its tests and writes its report, or is killed while writing.
RunStage ==
  /\ suite = "running"
  /\ \E s \in NotYetRun, tests \in StageTests :
       /\ executed' = executed \cup ToSet(tests)
       /\ \/ /\ \E raw \in [DOMAIN tests -> UNION {Encodings(contract.framework, t) :
                                                     t \in {"passed", "failed", "skipped"}}] :
                  /\ \A i \in DOMAIN tests :
                       raw[i] \in Encodings(contract.framework, tests[i].truth)
                  /\ files' = [files EXCEPT ![s] =
                       [kind |-> "report",
                        tests |-> [i \in DOMAIN tests |->
                                     [raw |-> raw[i], journeys |-> tests[i].journeys]]]]
             /\ UNCHANGED <<suite, aborted>>
          \/ /\ files' = [files EXCEPT ![s] = Malformed]
             /\ suite' = "over" /\ aborted' = TRUE
  /\ UNCHANGED <<contract, tier, result, attested>>

\* The suite ends: every stage has run, or the job is cut short.
SuiteEnds ==
  /\ suite = "running"
  /\ suite' = "over" /\ aborted' = (NotYetRun # {})
  /\ UNCHANGED <<contract, tier, files, executed, result, attested>>

\* The evaluator, with or without --functional-report.
EvaluateTier ==
  /\ suite = "over"
  /\ \E given \in BOOLEAN, down \in 0..1 : result' = Evaluate(contract, tier, files, given, down)
  /\ suite' = "evaluated"
  /\ UNCHANGED <<contract, tier, files, executed, aborted, attested>>

\* The attested build is deployed; a fresh checkout holds no report yet.
Deploy ==
  /\ suite = "evaluated" /\ tier = "ci"
  /\ tier' = "cd" /\ suite' = "running"
  /\ attested' = [result EXCEPT !.rows = NoRows]
  /\ files' = NothingWritten /\ executed' = {} /\ aborted' = FALSE /\ result' = NoReport
  /\ UNCHANGED contract

AdequacyStep == SuiteStarts \/ RunStage \/ SuiteEnds \/ EvaluateTier \/ Deploy

-----------------------------------------------------------------------------
(* Properties.                                                              *)

\* The type of the variables.
AdequacyTypeOK ==
  /\ contract \in ContractFile
  /\ tier \in EvaluationTier
  /\ suite \in {"waiting", "running", "over", "evaluated"}
  /\ DOMAIN files = Stage
  /\ executed \subseteq Test /\ aborted \in BOOLEAN
  /\ \A r \in {result, attested} :
       /\ r.status \in {"none", "not_configured", "unavailable", "evaluated"}
       /\ r.met \in BOOLEAN
       /\ r.rows \in [{"failed", "skipped", "passed"} -> Nat]
       /\ r.rows.failed + r.rows.skipped + r.rows.passed <= MaxReported
       /\ Ids(r.covered) \subseteq Ids(r.declared)

\* The tests that really ran and came to this.
Came(truth) == {t \in executed : t.truth = truth}

\* `met` is never true unless a real, complete, passing evaluation ran: the
\* suite was not cut short, no test failed, and the required share of the
\* journeys owed at this tier have a test that really passed ("never true
\* unless a real, passing evaluation actually ran").  And a journey one of
\* whose tests failed counts as covered only where the report of that test was
\* lost, which is then not met ("a real failure anywhere on a declared journey
\* is never masked").
MetIsEarned ==
  /\ result.met =>
       /\ ~aborted
       /\ executed # {} /\ Came("failed") = {}
       /\ LET proven == {i \in DOMAIN result.declared :
                           result.declared[i].id \in JourneysOf(Came("passed"))}
          IN  ScorePct(Restrict(result.declared, proven), result.declared, 0) >= contract.min
  /\ suite = "evaluated" /\ Ids(result.covered) \cap JourneysOf(Came("failed")) # {} =>
       aborted /\ ~result.met

\* Nothing falls between the tiers: an evaluated report of a tiered contract
\* owes or defers every entry that was written down, a misspelt one included,
\* and two reports that met a contract asking for everything leave no journey
\* unproven at a tier it was declared for ("a 100% at one tier can never hide
\* work still owed at the other").  That ends where two decimals do: of twenty
\* thousand journeys, one may be missing from 100%.
NothingFallsBetweenTiers ==
  /\ suite = "evaluated" /\ result.status = "evaluated" /\ contract.form = "journeys" =>
       Ids(result.declared) \cup Ids(result.deferred) = {e.id : e \in ToSet(contract.entries)}
  /\ tier = "cd" /\ result.met /\ attested.met /\ contract.min = 10000 /\ Len(contract.entries) < 20000 =>
       \A j \in ToSet(contract.entries) :
         /\ j.tier \in {"ci", "both"} => j.id \in Ids(attested.covered)
         /\ j.tier \in {"cd", "both"} => j.id \in Ids(result.covered)
=============================================================================
