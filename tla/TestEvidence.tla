---------------------------- MODULE TestEvidence ----------------------------
(***************************************************************************)
(* What a run reads from its test tools: the totals of a JUnit report      *)
(* (cli/parsers/junit.py), the lines a coverage report knows               *)
(* (cli/parsers/coverage.py), the coverage of the patch, and the part of   *)
(* it that only tests without an assertion exercise (cli/real_coverage.py  *)
(* over cli/parsers/coverage_contexts.py).                                 *)
(***************************************************************************)
EXTENDS ChangedLines

CONSTANTS
  TestCase,  \* (classname, name) of a JUnit <testcase>
  TestName   \* what follows a test file's path in a pytest node id

ASSUME TestCasesAssumption == IsFiniteSet(TestCase)

\* A test report is the <testcase> elements in the order of the file.
Attempt == [case : TestCase, outcome : {"passed", "failed", "errored", "skipped"}]

AttemptsOf(report, case) == {i \in DOMAIN report : report[i].case = case}

\* The cases whose last attempt ended so: earlier attempts do not count.
Finally(report, outcome) ==
  {c \in TestCase : \E i \in AttemptsOf(report, c) :
     report[i].outcome = outcome /\ \A j \in AttemptsOf(report, c) : j <= i}

\* A pass after other attempts of the same case is a flaky retry.
TotalsOf(report) ==
  [passed  |-> Cardinality(Finally(report, "passed")),
   failed  |-> Cardinality(Finally(report, "failed")),
   errored |-> Cardinality(Finally(report, "errored")),
   skipped |-> Cardinality(Finally(report, "skipped")),
   flaky   |-> Cardinality({c \in Finally(report, "passed") :
                              \E i, j \in AttemptsOf(report, c) : i # j})]

-----------------------------------------------------------------------------
\* A coverage report: the files it lists, what it says of their lines in the
\* order of the file, and the overall rate its root element states (LCOV
\* states none).
LineRecord == [file : Path, line : Line, hit : BOOLEAN]

CoverageReport ==
  [format : {"cobertura", "lcov", "jacoco"}, rate : 0..100, files : SUBSET Path,
   records : Seq(LineRecord)]

NoCoverage == [format |-> "cobertura", rate |-> 0, files |-> {}, records |-> << >>]

\* A file listed without a line is a key of the lookup all the same.
FilesOf(report) ==
  {p \in Path : p \in report.files \/ \E i \in DOMAIN report.records : report.records[i].file = p}

RecordsOf(report, file, line) ==
  {i \in DOMAIN report.records :
     report.records[i].file = file /\ report.records[i].line = line}

\* The lines of the file that the tool holds for executable.
Coverable(report, file) == {n \in Line : RecordsOf(report, file, n) # {}}

\* Cobertura and JaCoCo merge two records of a line by the higher count; of
\* two LCOV records the last one stands.
Hit(report, file, line) ==
  LET records == RecordsOf(report, file, line)
  IN  \E i \in records :
        /\ report.records[i].hit
        /\ report.format = "lcov" => \A j \in records : j <= i

HitRecords(report) == {i \in DOMAIN report.records : report.records[i].hit}

\* LCOV's rate is counted record by record, duplicates included.
OverallRate(report) ==
  IF report.format # "lcov" THEN report.rate
  ELSE IF report.records = << >> THEN 0
  ELSE (100 * Cardinality(HitRecords(report))) \div Len(report.records)

\* The changed lines, <<file, line>> by git's name, that the report knows of.
PatchLines(report, changed) ==
  {x \in Path \X Line :
     /\ x[1] \in DOMAIN changed
     /\ x[2] \in changed[x[1]]
     /\ \E key \in Resolve(FilesOf(report), x[1]) : x[2] \in Coverable(report, key)}

CoveredPatchLines(report, changed) ==
  {x \in PatchLines(report, changed) :
     \E key \in Resolve(FilesOf(report), x[1]) : Hit(report, key, x[2])}

-----------------------------------------------------------------------------
\* A test, by the path of its file and its name within it.  The name of one
\* parametrised case differs from the name of the function.
Test == [file : Path, name : TestName]

\* `coverage json --show-contexts`: the files it lists and which test ran
\* which line.  `vanity` is the AST walk's part: tests without an assertion.
Contexts ==
  [available : BOOLEAN, files : SUBSET Path,
   ran : SUBSET [file : Path, line : Line, test : Test], vanity : SUBSET Test]

\* _VanityClassifier.is_vanity: the file of the test, as the context names
\* it, is looked up among the files with such tests.
IsVanity(contexts, test) ==
  \E key \in Resolve({t.file : t \in contexts.vanity}, test.file) :
    [file |-> key, name |-> test.name] \in contexts.vanity

\* Mistake: one test without an assertion condemns the line.
VanityAmong(contexts, file, line) ==
  \E key \in Resolve(contexts.files, file) :
    \E c \in contexts.ran : c.file = key /\ c.line = line /\ IsVanity(contexts, c.test)

\* A line that tests are known to run, all of them without an assertion; a
\* line with no known test is left alone.
VanityOnly(contexts, file, line) ==
  \E key \in Resolve(contexts.files, file) :
    LET here == {c \in contexts.ran : c.file = key /\ c.line = line}
    IN  here # {} /\ \A c \in here : IsVanity(contexts, c.test)

Track == [available : BOOLEAN, total : Nat, measured : Nat, vanity : Nat]

NoTrack == [available |-> FALSE, total |-> 0, measured |-> 0, vanity |-> 0]

\* _score_lines over <<file, line>> pairs, those hit among them.
ScoreLines(contexts, lines, hit) ==
  IF lines = {} THEN NoTrack
  ELSE [available |-> TRUE, total |-> Cardinality(lines), measured |-> Cardinality(hit),
        vanity |-> Cardinality({x \in hit : VanityOnly(contexts, x[1], x[2])})]

\* _overall_line_hits: every line of the report, by the report's own paths.
ReportLines(report) == {x \in Path \X Line : x[2] \in Coverable(report, x[1])}

HitLines(report) == {x \in ReportLines(report) : Hit(report, x[1], x[2])}

\* compute_real_coverage: each track degrades by itself.
RealCoverage(contexts, report, changed) ==
  IF ~contexts.available THEN [overall |-> NoTrack, patch |-> NoTrack]
  ELSE [overall |-> ScoreLines(contexts, ReportLines(report), HitLines(report)),
        patch   |-> ScoreLines(contexts, PatchLines(report, changed),
                                         CoveredPatchLines(report, changed))]
=============================================================================
