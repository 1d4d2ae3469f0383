# lucid-assay in TLA+

lucid-assay runs in a CI job, collects evidence about one change (test results,
coverage of the patch, mutation testing, the branch's protection, static
analysis, the pull request), turns it into a score from 0 to 100 with a list of
*degraded reasons*, writes signed in-toto statements, and later lets a consumer
verify an envelope and gate a release on it. This directory models the parts of
it whose correctness is hard to see and hard to test. Paths below are relative
to the repository root, as in `cli/main.py`.

## The system

| component | code | state it keeps | what it does |
|---|---|---|---|
| run pipeline | `cli/main.py` | pipeline stage, evidence, files in `--out`'s directory | parses inputs, calls every collector in a fixed order, scores, writes, signs, annotates, gates |
| scorer | `cli/scorer.py` | none | evidence -> weighted score, degraded reasons |
| mutation dispatcher | `cli/mutation/__init__.py`, `common.py` | none | runs one runner per touched language, combines, grades, caps |
| Python mutation runner | `cli/mutation/python_runner.py` | the target's `pyproject.toml`, mutmut's cache | narrows `only_mutate`, runs mutmut, exports, restores |
| other runners | `tsjs_runner.py`, `java_runner.py`, `go_runner.py` | the report files their tools leave | run Stryker, PIT or gremlins, read the reports found, count |
| branch governance | `cli/parsers/github_rules.py` | what it has read so far | several HTTP requests -> one report |
| commit author | `cli/parsers/commit_author.py` | the commit the walk is at | several HTTP requests -> whose signature counts |
| patch coverage | `cli/patch_coverage.py` | none | `git diff` against the coverage report |
| scans and SBOM | `cli/parsers/sarif.py`, `sbom.py` | none | merge the scans and the SBOM's license findings into one report; which findings are new |
| lockfiles, S2C2F | `cli/parsers/lockfiles.py`, `s2c2f.py` | none | what the build consumes; 19 supply chain controls over it |
| functional adequacy | `cli/parsers/functional_adequacy.py`, `cli/functional.py` | none | a contract's journeys against the reports of a live suite, before and after deployment |
| diagnostics | `cli/real_coverage.py`, `cli/parsers/ast*` | none | tests without an assertion, coverage without them; never scored |
| statements | `cli/builder.py` and companions | none | serialise what was collected |
| signing | `cli/oidc_signer.py`, `cli/sign.py` | token, certificate, envelope files | token with retries, Fulcio, Rekor, envelope |
| verification | `cli/verify.py` | the envelope it loaded | signature, identity, policy gates, verdict, rewriting the envelope |

How they interact: `main()` is sequential and calls everything else. Nothing
calls back. The concurrency is with the outside: an administrator editing
rulesets between two requests, GitHub indexing a pull request late, mutmut's
workers outliving their run, and a `verify --write-verdict` rewriting the
envelope that a run writes. The failures are everywhere: every collector can
lose its control, and most of them *degrade* (the run continues, with a reason)
where a few abort.

What is hard, and so what the properties are about:

* **Losing a control must never be the cheaper way.** A collector that fails
  leaves a score and reasons; a consumer sees nothing else.
* **Reading a remote state that changes** in several requests, any of which can
  fail, and still returning a report that means something.
* **Editing somebody else's file and caches** around subprocesses that time
  out, and reading report files that somebody else may have left.
* **Naming one file in five ways.** git, the coverage report, the scanners, the
  test contexts and the test inspector are matched by path suffixes.
* **Answering for what was not asked.** A control evaluated from requests that
  failed, a license nobody stated, a suite that was cut short.
* **Rewriting signed files in place**, from more than one process.
* **Saying more than was shown.** A verification works with what it could
  decode and reach, falls back where something is missing, and still says one
  word; a dozen flags and two envelopes decide which.

## Modules

| module | models | extends |
|---|---|---|
| `MutationGrade` | grades, multipliers, combining and capping of the languages' results | |
| `GovernanceRules` | the governance report and what is derived from rules and bypass actors | |
| `Scorer` | `score_pipeline`: every component score, weight, penalty and reason | the two above |
| `PolicyGate` | the policy gates of `verify_dsse_attestation`, as `EvidencePipeline` needs them, and the excused reasons | |
| `ChangedLines` | the diff parser and the lookup of a file by the suffix of its path | |
| `TestEvidence` | JUnit totals, coverage reports, patch coverage, real coverage | `ChangedLines` |
| `ScanReports` | the `--sarif` inputs, merged, with the SBOM's license findings | `ChangedLines` |
| `Admission` | *abstract*: controls are settled once; a strict admission needs all of them without a gap | |
| `EvidencePipeline` | a run from its inputs to the score, and one verification of it | the above; instance of `Admission` |
| `BranchGovernance` | `inspect_branch_governance`, a request per step | `GovernanceRules` |
| `CommitAuthor` | `inspect_commit_author`, a request per step | |
| `SbomIngestion` | components, digests, license policy and curations | |
| `ResolvedDependencies` | the walk over the lockfiles and their twelve parsers | `SbomIngestion` |
| `S2C2F` | the supply chain controls and the requests of some of them | |
| `FunctionalAdequacy` | contract, suite, reports, ledger, tiers | |
| `ProvenanceEvidence` | the evidence steps of `main()` that fill the statement and not the score, in their order | `CommitAuthor` and the four above |
| `MutationRun` | successive runs of the Python runner in one checkout | |
| `ReportRunners` | the runners for TypeScript, Java and Go | |
| `MutationDispatch` | successive runs of `run_mutation_testing` through all four | the two above |
| `EnvelopeFiles` | writing, signing, annotating and verifying the files of successive runs | |
| `ComplianceTracks` | the SLSA checklists: Source levels 1 to 4, Build levels 1 to 3, which statement each is read from | |
| `Verification` | one `lucid-assay verify`: files, gates, identity policy, tracks, verdict, exit status | `PolicyGate`, `ComplianceTracks` |
| `EvidencePipelineProofs`, `ProvenanceEvidenceProofs`, `BranchGovernanceProofs`, `MutationDispatchProofs`, `EnvelopeFilesProofs`, `VerificationProofs` | theorems | the module they are named after |
| `LockfileProofs` | lemmas about the parsers and the walk, for lockfiles of any length | `ResolvedDependencies`, `Induction` |
| `Induction` | induction over numbers and finite sets, without a predicate as a parameter | |
| `MC...` | input sets for TLC | |

### EvidencePipeline and its operators

One action per stage of `main()`, in its order: `ParseInputs` (or `Abort`),
`ComputePatchCoverage`, `InspectGovernance`, `IngestSarif`, `MutationTesting`,
`Score`, `ComputeRealCoverage`, `WriteAndGate`, then `Verify`. `world` is what
is true of the change (its diff as git would print it, whether git can, whether
mutation testing is skipped), `lost` the later stages whose own `git diff`
failed. `coverage`, `scan`, `contexts` and `outcome` are what the tools really
said; `ev`, `real` and `rcs` what the code made of it; the properties compare
the two. Scores are integers in hundredths of a point, so the code's floats are
exact here; the final rounding is half-to-even, as Python's `round`.

A path is a sequence of components. `Comparable` and `Resolve` are the lookup
that patch coverage, scans and contexts share: the longest suffix wins, and a
draw is no match. `Section.kind` says what git prints for a file (a quoted
name, a deleted or a binary file names none).

`InspectGovernance` takes any report that `BranchGovernance` can return;
`MutationTesting` any combination of results the runners can return.

### ProvenanceEvidence

One action per step: the inspection of `CommitAuthor`, `ScansIngested`, the
lockfile walk (one action per directory), the controls of `S2C2F` (one action
per request), and the suite of `FunctionalAdequacy`, once before the statement is written and
once, by the command `lucid-assay functional-adequacy`, after deployment. A
license expression is the set of choices it leaves, each a set of terms. The
four lockfile formats that are scanned line by line keep `entry`, the one under
construction, as the code does; the other eight are picked from entry by entry.
Each parser is given what its patterns tell apart (`LineKinds`, `EntryKinds`).
The dependencies found are a set, as are the test cases by their stage and
place: the code's lists are ordered, but the order only decides which of two
entries with one URI wins, and that is kept. A percentage is rounded to two
decimals, and a tie either way, since Python's `round` decides it by the float's
own error. The rows of a report are how many of each status fit into
MAX_REPORTED_TESTS, failures first.
GitHub's settings may change between two requests for a SECURITY.md; a suite
may be cut short between two stages. An exception that the code does not catch
ends the run in the stage "raised".

### BranchGovernance

`rulesets` is the platform's state, changed by `AdminEdits` between any two
requests. `page`, `rules`, `todo`, `modes` are the local variables of
`_fetch_rules_for_branch` and `_collect_bypass_actors`. A listing is served a
page at a time from the platform's state at that moment, so a deletion between
two pages shifts the rest. An answer need not show all there is: a listing may
end early (at MAX_PAGES, at a next link off GitHub's host, at a 404, at a page
of another shape), an entry may be skipped, and the details of a ruleset may
come without its bypass actors, as for a token without write access, or as a
404. The code takes all of these as answers (`GetRules`, `RulesMisshapen`,
`GetRulesets`, `RulesetsNotFound`, `RulesetsMisshapen`, `DetailWithheld`).
`wasHarmless` and `unseen` are history variables for the properties: which
rulesets, at some moment of the inspection, let nobody bypass, and which ones an
answer left out or moved to a page already read. Details are read in any order;
the code reads them in the order listed. That a branch exists is the one thing
an answer never claims falsely. One exception of the code is left out: a
`bypass_actors` that is a number raises TypeError.

### CommitAuthor

`current`, `source`, `hop` and `attempts` are the loop variables of
`_resolve_signature_source` and of the pull-request lookup; `indexed` is
GitHub's. `RequestFails` covers transport errors, HTTP errors and malformed
bodies, which the code treats alike.

### MutationRun, ReportRunners, MutationDispatch

`pyproject` is the file (as far as `only_mutate` goes), `stats` names the run
whose counts the exported statistics hold, `orphan` the run whose workers a
timeout or a kill left behind. `saved` is `original_text`, present exactly
while the context manager of `_scoped_only_mutate` is open. `Killed` ends a run
without its `finally`.

`reports` holds, for Stryker and for each Maven module, the run that wrote the
report found there and the mutants it names; `tested` is what this run's tool
found out, `late` the run whose Stryker outlived its timeout and may still
write. gremlins reports into a temporary directory of its own and has no slot.
A dispatched run calls the runners of its languages one after the other. The
order between Python and the others does not matter to the files, and Python
goes first here.

### EnvelopeFiles

`statement` and `envelope` are the files. A rewrite of the score's envelope is
two steps, `OpenForWriting` (which truncates) and `Close`, so other processes
run in between. `Verifier` processes are `verify --write-verdict`. A run emits
the score and any of the companions (`emitted`), so a run with fewer of them may
follow one with more. `newest` and `raced` are history variables.

### Verification

One action per stage of `main()` in `cli/verify.py`: `Load` and
`ResolveSlsaStatement` (or `LoadFails`), `EvaluateStatement`, `VerifyIdentity`,
`EvaluateTracks`, `Report` (or `WriteFails`). `primary` and `slsa` are the
envelopes of the command line, `gate` its flags, `slsaStatement` what
`_resolve_slsa_statement` returned; `violations`, `identity`, `levels` and
`verdict` are the fields of `VerificationResult`, `stored` the word in the file
that `--write-verdict` leaves and `exit` the exit status. The parsing of a
payload is abstracted to a record of what the checks look at, a missing or
misshapen field being `Absent`, `Malformed` or FALSE; two different fields that
are wrong in the same way are one value.

Sigstore is external: whether a bundle verifies (`genuine`), what its
certificate says, and whether the trust root can be reached (`online`, chosen
when it is asked). Envelopes are taken as this tool writes them, the payload
being the one the bundle was made for. The code checks the signature of the
primary envelope only; `--slsa-envelope` is decoded. A pattern given with
`--expected-ref` stands for one ref. Negative `--min-rcs` values are left out,
as are usage errors, which end the program before any file is read.

## Runs

| run | what it asks | states | result |
|---|---|---|---|
| `pipeline` | types; what a strict admission guarantees; new findings and real coverage are of the patch; no lost control pays; implements `Admission` | 458,881 | holds |
| `pipeline_unassessed` | a failed tool never gets full credit | | violated |
| `governance` | an available report was answered; a clean report without a warning speaks for every ruleset that was shown; bounded requests | 445,844 | holds |
| `governance_blind` | a clean report does so also with a warning | | violated |
| `commit_author` | never GitHub's own signature on the head, incomplete walks prove nothing, races are won by the retries; licenses, digests, controls and journeys are what was really there; termination | 177,950 | holds |
| `commit_author_web_flow` | no web-flow commit is ever credited | | violated |
| `mutation_run` | counts and reports are this run's, file restored, one configuration for all subprocesses, undetected mutants count, termination | 566,618 | holds |
| `mutation_stale` | counts are this run's, whatever happened | | violated |
| `envelopes` | companions, verdicts and scores of the right run; termination | 152,872 | holds |
| `envelopes_annotate` | a passing run keeps its signed score | | violated |
| `verification` | what PASSED, an admission and exit 0 are worth; flags only take admissions away; the gap named is one | 261,312 | holds |
| `verification_fallback` | a faulty second envelope is not used | | violated |

Each "violated" run checks one sentence of the repository's own documentation
or comments; PROJECT.json quotes it.

**Bounds.** The pipeline is straight-line code: its inputs are the bound. They
include every case of every conditional (below and above each threshold, a
sample below the minimum, only timeouts, a broken, a lost and an absent scan),
seven paths among which a file is named in full, relative to its source root,
on the scanner's machine and as a vendored copy, so that the lookup matches,
is ambiguous, and finds another file; and two languages, which suffice to have
one fail beside one that passes. Three rulesets on one-ruleset pages with
MAX_PAGES 2 give a listing that is complete, one that is cut off and one that
shifts; two edits let a ruleset be disabled and deleted again. Three hops with
chains of up to four commits give resolved, exhausted and squash-terminated
walks. The inputs of the other evidence steps are plain but for one thing (an
SBOM of up to two components; up to three lines after an opening entry in each
line format; up to two entries in the others; a tree of four directories; each
checkout feature and setting), because nothing but the dependencies and the
scan passes from one of these steps to the next; the walk, the SBOM in its
place and the denylist, which do meet, are multiplied. Two stages of up to two
tests and two journeys let a journey pass in one report and fail in another.
Two mutation runs let what the first leaves behind (workers, reports, a narrowed
file) meet the second; two modules of the build and one outside it give every
kind of PIT report. Two runs and two verifiers give a verifier from each run, and two that
write at once. Verification is straight-line too: an envelope is right in
everything or wrong in one thing, alone, with a provenance envelope (right, or
wrong in one thing) or with a second assay envelope. The flags on content and
those on the signer are enumerated completely, but not multiplied with each
other, because the code judges content whoever signed it; the one flag where
both meet, Build Level 3, is in both sets.

**Fairness.** `CommitAuthor` and `ProvenanceEvidence` assume weak fairness of
the run's own steps: each HTTP request has a timeout and each retry delay is
finite, and a test suite ends, be it cut short. Nothing is assumed of GitHub's
indexing, nor of an administrator. `MutationRun` and `MutationDispatch` assume
it of a run's steps, every subprocess having a timeout, and not of workers that
outlive one, nor of a new run beginning. `EnvelopeFiles` assumes it of a run's
steps and not of the verifiers: file operations and signing requests return or
fail.

## What is proved

TLAPS checks the following for every value of the constants.

* `EvidencePipelineProofs!ScoreRange`: the weighted total of any evidence is
  within the scale before `score_pipeline` clamps it. The clamp hides nothing,
  and the score is the rounded total, from 0 to 100. It goes bottom-up: each
  component score lies in 0..10000 (`TestHealthRange`, `ReviewScoreRange`, ...),
  so does their weighted sum, the multiplier does not enlarge it and the
  rounding keeps it in range.
* `EvidencePipelineProofs!PipelineTypeCorrect`: the type invariant, from it.
* `EvidencePipelineProofs!StrictAdmission`. The property speaks of the end of
  the run, so the invariant that is inductive, `Accounted`, says stage by stage
  what has been recorded of each control that was settled (the report of the
  mutation stage is the one `RunMutationTesting` makes of `outcome`, the patch
  coverage is the one measured on the diff, unavailable exactly when the diff
  is unknown or adds no line the report knows, ...). The gap between that and
  the gate is closed by `StrictGateReasons` and `ExcusedReasons`: a strict gate
  lets a run pass only with excused reasons, and no lost control's reason is
  among those.
* `LosingAControlCosts`, for all evidence: rounding is monotone, and tells
  apart totals two points apart (`RoundOrder`).
* `NewFindingsPlaced` and `RealCoverageComparable`, from `Placed`, which ties
  what the two stages wrote to the scan, contexts and diff they read. The
  argument is about the lookup: a path resolves to itself when it is known, and
  otherwise only to one it is comparable with; the rest is the cardinality of
  subsets.
* `KeepsThePromise`: the pipeline implements `Admission`. Each
  action settles the standing of its controls (`SettledSoFar`,
  `StandingWhenReached`) and leaves the others as they were (`SameGovernance`,
  `SameScan`, ...), which makes it a `Settle` (`SettleStep`); `Verify` is an
  admission or a rejection, a strict admission by `StrictlySettled`, which
  follows from `Accounted`.
* `UnconfiguredLanguageCosts`: the combined counts are sums over the languages
  that ran, the same ones with and without it; what it adds is the cap, which
  only lowers the multiplier (`OneMoreUnconfigured`), and a smaller multiplier
  is no better score (`SmallerMultiplier`).
* `BranchGovernanceProofs!TypeCorrect`: with `PageInRange`, without which
  `GetRules` could ask for a page the response does not have.
* `AvailableIsAnswered`: the first 401 or 403 is the last request
  (`AuthFailureStops`), and past the rules the branch exists (`BranchKnown`).
* `UnwarnedCleanWitnessed`, for any number of rulesets, pages and edits, and
  answers that withhold any of it: a clean report without a warning speaks for
  every ruleset that no answer left out. The inductive invariant
  `HarmlessOrToDo` says that a ruleset not yet known harmless is `unseen`, or in
  `todo`, or on a page to come (`After`), or has left a bypass mode behind.
  `RankBounds` and `NextPageOrLater` are the paging argument. How much the
  theorem gives up with `unseen` is said below, under the differences.
* `RequestsAreBounded`, an accounting: `Counted` says at each point what has
  been spent, and that it and the rulesets still in `todo` come to no more than
  the pages and the rulesets they can name.
* `VerificationProofs`: the invariant `IInv` says for each stage what has been
  found so far, ending in `Verdict`: violations are `AllViolations`, the
  function of files, flags and reachability that a whole call computes, and
  levels and word follow from them. The rest is about that function.
  `PassedWitnessed` takes PASSED apart into its levels (`HighestIsAll`: a count
  of n levels, each cumulative, is the first n), and finds the signer on both
  sides: the policy compares it with the certificate, Build Level 3 with the
  builder. `AdmittedAssessed` needs `CleanIsAssay`. `DemandsAreMonotone` goes
  through `Weaker`, an order of flags that each relaxation respects
  (`RelaxationsAreWeaker`) and that admission is monotone in (`WeakerAdmits`).
  `ExitZeroRecorded` and `VerificationTypeCorrect` follow from `IInv`.
  `GapIsReal` compares the banner's arithmetic with the levels themselves.
* `ProvenanceEvidenceProofs`, the commit author: `WalkPlace` says where each request finds the walk (hop,
  attempts, commit in hand); the type invariant and `IncompleteWalks` follow
  from it. `HeadNeverCredited` needs `WalkFromCases`. `ResolvedInTime` goes
  through `Resolving`: for each chain of merges, the walk is on it (`OnChain`)
  and never turns to a pull request; for a squash indexed before the
  inspection, it never turns to a parent (`OnSquash`).
  Each is proved of the inspection alone and again of the run (`...InRun`),
  every step of which is an inspection's, a stutter, or a new beginning
  (`InspectionStep`).
* `ProvenanceEvidenceProofs`, the other steps, each with an invariant of its
  own, for every world a run may find itself in; `EvidenceTypes` puts their
  type invariants together.
  - `SilenceIsNoVerdict` from `ControlsOK`: besides the types, what each answer
    rests on while the requests go on (`Asked`) - which were made, what GitHub
    had when it answered, and that the places already tried had no SECURITY.md
    unless it was moved.
  - `LicensesAreHeld` from `Ingested`: the SBOM and the scan are what the parser
    and the merge make of their files, for as long as anybody reads them. What
    is left is a statement about those two functions: a component that nobody
    may use is not curated away (`ForbiddenIsForbidden`), each one is a finding
    of its own, and so is counted (`ForbiddenAreErrors`).
  - `EveryLockfileIsListed` and `DenylistHolds` from `Walked`: whatever is in
    reach has been listed or is in reach of a directory still pending, and what
    is listed was declared. That a parser lists what a lockfile declares is
    `LockfileProofs!LockfileIsDeclared`. "Declared" is defined without the
    scanner: a block goes from the line that opens it to the first that ends
    it, and its digest is that of the lines in between (`DeclaredByLines`).
    `Follows` relates the scanner's state to the blocks after n lines - it holds
    the block that is open, and has flushed those that ended - and `PipStep`,
    `PnpmStep` and `YarnStep` keep it from line to line. `MergeIs` is the
    deduplication by URI, `ReachableIs` the closure of the directories.
  - `MetOnlyIfEarned` and `TiersLeaveNothing` from `Ran` and `Judged`. `Ran` ties
    the reports to the tests: a row of a readable report tells of a test that
    ran, and a test that ran is told of unless the suite was cut short, which
    always leaves a report missing. `Judged` says the report is what the
    evaluation makes of the files there are, and that the one already attested
    met its contract at the earlier tier. `EncodingIsRead` is about the three
    report formats, `ScoreGrows` and `ScoreOfAll` about the percentage: more
    journeys covered never score less, and 100% means all of them - while there
    are fewer than 20,000, after which rounding to two decimals can hide one.
    `NothingFallsBetweenTiers` states that bound.
* `MutationDispatchProofs`: every step of the whole is, for the Python runner,
  a step of its own, a stutter or a kill from outside (`PythonView`), so its
  invariant `PythonInv` is proved once. `Recoverable` says what was checked in
  is on disk or held by the run that narrowed it, `Narrowed` what the
  subprocesses find, `OwnStats` whose statistics there are. For the report
  files, `ReportAges` bounds the age of what can be found and says that no
  report of this run is at Stryker's path before its Stryker has run.
* `EnvelopeFilesProofs`: `Progress` says what a run has written and signed at
  each step. `OwnVerdicts` extends the verdict's property to the envelopes that
  processes hold in memory, `SignedCompanions` says that a companion once
  signed stays as it was, `Fresh` that without a race whoever is about to
  rewrite the score holds the newest.

The assumptions are the ones named in the modules: inputs have their types, the
set of rulesets is finite, page sizes and bounds are positive, what stands for
nothing is no word of a verdict.

**Induction.** The induction theorems of the library take the claim as a
parameter, which the provers at hand cannot instantiate. Where a claim is about
a recursive function (the scanners), a closure (the directories) or a finite
set (the sums, the counts), the proof collects the numbers, or the finite sets,
of which it holds into a set, and cites `UpToSet` or `FiniteSetFamily` of the
module `Induction`: a set of numbers with 0 and the successors of its members is
everything. Those rest on `Least` - a set of numbers that is not empty has a
least member - which comes from the well-foundedness of `<` on the naturals.

Only model-checked: that runs end (`EvidenceRunEnds`, `DispatchEnds`, `RunsEnd`),
which needs fairness. Every other property of a passing run is the statement of
a theorem.

## Where code and documentation differ

Six differences have a run of their own:

1. A language whose tool failed beside one whose tool ran leaves no reason and
   no smaller multiplier (`cli/mutation/__init__.py:276`).
2. A transport failure while bypass actors are listed keeps a clean report
   (`cli/parsers/github_rules.py:545`).
3. A web-flow squash behind a web-flow merge is credited with GitHub's own
   signature (`cli/parsers/commit_author.py:422`).
4. Counts of another run are reported: after a cache that could not be deleted
   and an export that failed, or beside workers that outlived a timeout. Each
   of the two alone is enough (`cli/mutation/python_runner.py:552`, `:740`).
5. A verdict annotation that fails half way destroys the signed envelope, and
   the run exits 0 (`cli/main.py:675`).
6. A second envelope with a wrong payload type or no signatures is reported as
   not decodable, with the announcement that the Build track falls back to the
   primary one; the Build track is read from it all the same
   (`cli/verify.py:3754`).

More were met and have no run. Where a run passes all the same, the property
makes the exception explicit, or the model has the code's behaviour.

*Scoring and mutation testing.* Skipping mutation testing (0.85) scores above
running it on a failing suite (0.50), though the README calls the skip
fail-closed. Stryker's report is never deleted before a run, and its exit code
is not looked at when a report can be read, so a run that wrote none is counted
by the report of an earlier one; the docstring (`tsjs_runner.py:20`) sees "no
persistent cross-run directory to reset here". A timeout kills `npx` only.
PIT's `NO_COVERAGE` mutants are counted nowhere (`java_runner.py:156`), unlike
gremlins' and Stryker's. PIT's "No mutations found", printed for one module,
exempts the language whatever the others found. A stale `target/` outside the
modules the build reaches is merged, though the docstring
(`java_runner.py:45`) promises "a fresh target/ regardless". gremlins ending
with 0 and no report exempts the language.

*Diff, coverage, scans.* `git diff` is run once per stage. When only the mutation
stage's fails, mutation testing is "not applicable" with full credit and no
reason; when only the scan's fails, new findings are legacy ones. No git at all,
or a diff that is not UTF-8, ends the run. A changed file whose name git quotes
is dropped everywhere. `splitlines()` also splits an added line at a form feed
or U+2028, so that its rest is read as a line of the diff. The suffix lookup can
judge a changed file by another file's coverage, or drop it when two match
equally well. Of an LCOV file that names a source twice the last record wins,
while its totals count twice. One JUnit case with the same class and name in two
suites counts as a flaky retry. Parametrised tests never match the set of tests
without an assertion, and two functions of one name in one file share its
verdict (`cli/real_coverage.py`). An SBOM that could not be read leaves the scan
as it was, without a reason.

*Governance.* A report can be clean, and carry no warning, over rulesets nobody
looked at. `_bypass_actors_for_ruleset` reads a detail without `bypass_actors`
as a ruleset without any (`cli/parsers/github_rules.py:466`), and a token
without write access is given no others; a 404 or a body of another shape reads
the same way (`:464`). A ruleset listing that is no list reads as no rulesets
(`:474`), one that answers 404 likewise (`:411`), an entry of another shape is
skipped (`:479`), and a listing that goes on past MAX_PAGES or to another host
ends there (`:408`, `:424`). The docstring of `bypass_permits_unreviewed_change`
resolves "any ambiguity" to "permits" (`:260`), but none of these reaches it as
one. `UnwarnedCleanIsWitnessed` therefore names them, in `unseen`: it holds of
every ruleset that was shown, and of no other. The same answers to the rules of
the branch leave fewer rules, which only makes a report less clean.

*Author, envelopes.* A squashed pull request with more commits than
one page of the listing is credited with one of its earlier commits
(`cli/parsers/commit_author.py:349`). A `pyproject.toml` with CRLF line endings
is restored with LF (`cli/mutation/python_runner.py:432`). The two envelopes of
a verification are not interchangeable as `_classify_statements` says, because a
primary envelope with provenance fails the gate on its predicate type
(`cli/verify.py:2926`). The docstring of `_validate_rcs_block` speaks of a range
the value is not checked against. A run without `--sbom` leaves the SBOM
envelope of an earlier run where it was (`cli/main.py:1252`).

*Supply chain controls.* `evaluate_s2c2f` "never raises" (`s2c2f.py:1092`), but
`_github_api_status` catches only `HTTPError` and `URLError`, so a read timeout
ends the run; so do a denylist (also one outside the checkout) or a
`manual-updates.json` that is not UTF-8, a `package-lock.json` that is no object
and a URL that `urlparse` refuses in either JSON file. SCA-1 is unmet on a 401, 429 or 5xx,
and SCA-3 on any 403, where the same docstring has network controls degrade to
"not yet reported"; SCA-2 and SCA-4 are unmet when the scan is unavailable, and
UPD-2, UPD-3, SCA-5 and ING-3 when the checkout cannot be resolved. A
SECURITY.md moved between two requests is missed. The pip feed can be met by an
`.npmrc`. The denylist matches by prefix, and names that were not normalised do
not match; ING-3 is met over an empty list when no lockfile could be parsed.

*Lockfiles and SBOMs.* A package two lockfiles name with and without a digest
keeps the one that the directory order brings first. A yarn entry's dependency
called `version` or `integrity` replaces the entry's own. Version ranges in a
`pom.xml` are listed, though the docstring (`lockfiles.py:1085`) excludes them.
The walk follows symbolic links. A curation is consulted for every unclassified
component, also for an expression that mixes AND with OR and names a forbidden
term. In SPDX 3 a concluded NOASSERTION hides the declared
license; in CycloneDX a NOASSERTION entry is a term like any other, which no
policy lists.

*Functional adequacy.* A contract that is not UTF-8 raises, and one that is not
JSON reads as not configured rather than as invalid. Journeys listed twice in a
contract of the old form count twice. Reports left by an earlier suite are not
recognised as such.

## Not modelled

Cryptography and the services of Sigstore and GitHub (external). JSON, XML,
TOML, LCOV and diff syntax as text: what a line or an entry says is an input.
The syntax-tree visitors (`cli/parsers/ast`), which walk the trees of four
languages; the set of tests without an assertion that they return is an input.
The statement builder and the contents of the companion documents, which copy
fields one by one; schema validation; the upload stub; command-line parsing,
logging, wording; the workflow files. Three rare outcomes: a PermissionError of
`entry.is_dir()` during the lockfile walk (`cli/parsers/lockfiles.py:1164`) and an entry
of a Playwright report's results that is no object
(`cli/parsers/functional_adequacy.py:473`) raise and end the run; two writes of one
envelope that interleave into a valid document are taken as a corrupt one.
PROJECT.json lists every component and
why.

## Plan

1. Verification: schema validation of the predicate, field by field, and the
   extracts that are only reported.
2. In `EnvelopeFiles`, the bundle of `cli/oidc_signer.py` in full (certificate
   and log entry obtained one after the other).
3. `MutationRun`: the selection of touched functions, as sets of lines.
4. Proofs: the operators of `ChangedLines` and `TestEvidence` as lemmas of their
   own, and an abstract specification of an envelope's score and verdict that
   `EnvelopeFiles` implements.
