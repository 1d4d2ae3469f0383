-------------------------- MODULE MCEvidencePipeline --------------------------
(* EvidencePipeline on small inputs.                                         *)
EXTENDS EvidencePipeline

\* A source file, a vendored copy of it, its name relative to the source root
\* and on the scanner's machine; a Go source; a document; a test file.
App == <<"cli", "app">>
Vendored == <<"vendor", "cli", "app">>
Relative == <<"app">>
OnRunner == <<"home", "cli", "app">>
Service == <<"srv">>
Readme == <<"readme">>
Tests == <<"tests", "t_app">>

MCPath == {App, Vendored, Relative, OnRunner, Service, Readme, Tests}

MCLine == 1..2

MCLanguageOf ==
  [p \in MCPath |-> CASE p = App -> {"python"} [] p = Service -> {"go"} [] OTHER -> {}]

Change(path, kind, added) == [path |-> path, kind |-> kind, added |-> added]

\* Python alone; with Go; only a document; nothing that git names plainly; the
\* file and its vendored copy.
MCDiffs ==
  { {Change(App, "text", {1, 2})},
    {Change(App, "text", {1}), Change(Service, "text", {})},
    {Change(Readme, "text", {1})},
    {Change(App, "quoted", {1}), Change(Service, "deleted", {})},
    {Change(App, "text", {2}), Change(Vendored, "text", {1})} }

Ends(case, how) == [case |-> case, outcome |-> how]

At(file, line, hit) == [file |-> file, line |-> line, hit |-> hit]

Coverage(format, rate, files, records) ==
  [format |-> format, rate |-> rate, files |-> files, records |-> records]

\* Everything green, a class recorded twice and a file without a line; nothing executed, and a report
\* that knows two copies of the file but not the file; a flaky test beside a
\* failing one, and two tracefiles of which the later one missed a line.
MCReportInputs ==
  { [tests |-> <<Ends("a", "passed"), Ends("b", "passed")>>,
     coverage |-> Coverage("cobertura", 90, {App, Service},
       <<At(App, 1, TRUE), At(App, 2, FALSE), At(App, 1, FALSE), At(Vendored, 1, TRUE)>>)],
    [tests |-> <<Ends("a", "skipped")>>,
     coverage |-> Coverage("jacoco", 45, {}, <<At(Vendored, 1, TRUE), At(OnRunner, 1, TRUE)>>)],
    [tests |-> <<Ends("a", "failed"), Ends("a", "passed"), Ends("b", "errored")>>,
     coverage |-> Coverage("lcov", 0, {Relative},
       <<At(Relative, 1, TRUE), At(Relative, 2, TRUE), At(Relative, 1, FALSE)>>)] }

Test1(name) == [file |-> Tests, name |-> name]

RanBy(line, name) == [file |-> App, line |-> line, test |-> Test1(name)]

\* No export; line 1 run only by a test without an assertion, line 2 also by
\* one that has some.
MCContextInputs ==
  { NoContexts,
    [available |-> TRUE, files |-> {App}, vanity |-> {Test1("smoke")},
     ran |-> {RanBy(1, "smoke"), RanBy(2, "smoke"), RanBy(2, "checks")}],
    [available |-> TRUE, files |-> {App}, vanity |-> {Test1("smoke")},
     ran |-> {RanBy(1, "smoke"), RanBy(1, "checks")}] }

Pr(present, approvers, required, review) ==
  [present |-> present, approvers |-> approvers, required |-> required, review |-> review]

MCPullRequests == {Pr(FALSE, 0, 0, "not_applicable"), Pr(TRUE, 2, 2, "approved")}

Protected == {"pull_request", "non_fast_forward", "deletion"}

MCGovernanceInputs ==
  { UnavailableGovernance("none"), UnavailableGovernance("platform_unsupported_tier"),
    DeriveReport(Protected, << >>, FALSE), DeriveReport(Protected, <<"always">>, FALSE) }

Found(rule, level, path, line) ==
  [file |-> "lint", rule |-> rule, level |-> level, path |-> path, line |-> line,
   malformed |-> FALSE]

\* An error under the file's own path and under the scanner's, one elsewhere,
\* one without a place, one in a run that is no object, and a warning.
Lint ==
  { Found("eval", "error", App, 1), Found("eval", "error", OnRunner, 2),
    Found("eval", "error", Readme, 2), Found("secret", "error", << >>, 0),
    [Found("secret", "error", App, 2) EXCEPT !.malformed = TRUE],
    Found("style", "missing", App, 2) }

Scan(unreadable, results, sbom) ==
  [given |-> {"lint"}, unreadable |-> unreadable, results |-> results, sbom |-> sbom,
   licenseErrors |-> 1]

MCScanInputs ==
  { NoScan, Scan({"lint"}, {}, "read"), Scan({}, Lint, "lost"),
    [NoScan EXCEPT !.sbom = "read", !.licenseErrors = 9] }

\* The three tiers, a sample below the minimum, only timeouts, a diff with
\* nothing to mutate, a crash and a language without a tool.
MCLanguageOutcomes ==
  { Ran(4, 1, 0), Ran(3, 2, 0), Ran(1, 4, 0), Ran(1, 1, 0), Ran(0, 0, 4),
    ExemptRun, Unavailable, NotConfigured }

MCGates ==
  { [minRcs |-> 0, strict |-> TRUE, digest |-> NoDigest],
    [minRcs |-> 80, strict |-> TRUE, digest |-> SubjectDigest],
    [minRcs |-> 60, strict |-> FALSE, digest |-> "other"],
    [minRcs |-> 80, strict |-> FALSE, digest |-> NoDigest] }
=============================================================================
