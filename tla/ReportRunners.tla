---------------------------- MODULE ReportRunners ----------------------------
(***************************************************************************)
(* cli/mutation/tsjs_runner.py, java_runner.py and go_runner.py: a run of   *)
(* Stryker, PIT or gremlins over the changed files of one language, and     *)
(* what is made of the report files found afterwards.  Stryker's report is  *)
(* at a fixed path that nobody empties, PIT's are wherever the glob finds   *)
(* one, of which `mvn clean` removes those of the modules it builds, and    *)
(* gremlins' is in a temporary directory of its own.                        *)
(*                                                                         *)
(* The three tools are external: `tested` is what the tool really found out *)
(* about the changed files, `reports` what is on disk.                      *)
(***************************************************************************)
EXTENDS Integers, FiniteSets

CONSTANTS
  Source,       \* source files
  Module,       \* Maven modules of the checkout
  Reactor,      \* those the root pom builds
  Testing       \* what testing may come to: sets of mutants

Tool == {"tsjs", "java", "go"}

\* "uncovered" is Stryker's NoCoverage, PIT's NO_COVERAGE and gremlins' NOT
\* COVERED; "ignored" a mutant outside the diff or one that does not compile.
Mutant == [file : Source, status : {"killed", "survived", "uncovered", "timeout", "ignored"}]

ASSUME ReportRunnersAssumption ==
  /\ Reactor \subseteq Module
  /\ Testing \subseteq SUBSET Mutant /\ \A mutants \in Testing : IsFiniteSet(mutants)
  /\ "stryker" \notin Module

Slot == {"stryker"} \cup Module

\* A report file, of the run whose tool wrote it; one that was there before
\* the first run is of run 0.
ReportFile(of, readable, mutants) == [of |-> of, readable |-> readable, mutants |-> mutants]
NoReportFile == ReportFile(0, FALSE, {})

VARIABLES
  reports,   \* the report files on disk
  late,      \* the run whose Stryker outlived its timeout, 0 if none
  tool,      \* the tool at work, "none" if none
  diffed,    \* the changed files it is given
  tested,    \* what it found out about them
  outcome    \* the last runner's result

reportVars == <<reports, late, tool, diffed, tested, outcome>>

\* The result of a runner, with the runs whose reports it counts.
ToolOutcome(t, status, killed, survived, timeout, of) ==
  [tool |-> t, status |-> status, killed |-> killed, survived |-> survived,
   timeout |-> timeout, of |-> of]

NoOutcome == ToolOutcome("none", "none", 0, 0, 0, {})
Exempt(t) == ToolOutcome(t, "ran", 0, 0, 0, {})
Failed(t) == ToolOutcome(t, "unavailable", 0, 0, 0, {})

RunnersInit ==
  /\ \E left \in SUBSET (Slot \ Reactor), mutants \in Testing :
       reports = [s \in Slot |-> IF s \in left THEN ReportFile(0, TRUE, mutants) ELSE NoReportFile]
  /\ late = 0
  /\ tool = "none" /\ diffed = {} /\ tested = {}
  /\ outcome = NoOutcome

-----------------------------------------------------------------------------
(* Reading the reports.                                                     *)

\* Mistake: a mutant no test reached is neither killed nor survived.
UndetectedIfReached(t) == {"survived"}

\* _UNDETECTED_STATUSES, which java_runner.py has no like of.
Undetected(t) == IF t = "java" THEN {"survived"} ELSE {"survived", "uncovered"}

\* The mutants of some files that a runner counts, each with its report.
Counted(files, inScope, statuses) ==
  {p \in files \X UNION {f.mutants : f \in files} :
     p[2] \in p[1].mutants /\ p[2].file \in inScope /\ p[2].status \in statuses}

\* _collect_from_report, _parse_report and _merge_java_results: files read
\* together are summed, and one that cannot be read fails them all.
Collect(t, files, inScope) ==
  LET Count(statuses) == Cardinality(Counted(files, inScope, statuses))
  IN  IF \E f \in files : ~f.readable THEN Failed(t)
      ELSE ToolOutcome(t, "ran", Count({"killed"}), Count(Undetected(t)), Count({"timeout"}),
                       {f.of : f \in {g \in files : \E m \in g.mutants : m.file \in inScope}})

\* The report files there are in some places.
On(disk, slots) == {disk[s] : s \in slots} \ {NoReportFile}

Ends(result) == tool' = "none" /\ outcome' = result

-----------------------------------------------------------------------------
(* The runners.                                                              *)

\* run(): without a changed file that still exists, or without the tool's
\* configuration, there is nothing to do.  Java asks for class names next
\* and Go for a base commit it may pass on.
StartTool(t, files, configured, scoped) ==
  /\ tool = "none"
  /\ diffed' = files /\ tested' = {}
  /\ IF files = {} \/ ~configured THEN Ends(ToolOutcome(t, "not_configured", 0, 0, 0, {}))
     ELSE IF t = "java" /\ ~scoped THEN Ends(Exempt(t))
     ELSE IF t = "go" /\ ~scoped THEN Ends(Failed(t))
     ELSE tool' = t /\ outcome' = NoOutcome
  /\ UNCHANGED <<reports, late>>

\* The tool cannot be started, or exceeds its time.
ToolFails(t) == tool = t /\ Ends(Failed(t)) /\ UNCHANGED <<diffed, tested>>

\* External: what the tools find out about the changed files.
TestedNow == {mutants \in Testing : \A m \in mutants : m.file \in diffed}

\* What is made of whatever lies at Stryker's report path, whichever exit
\* code it had.
StrykerCollected ==
  LET files == On(reports', {"stryker"})
  IN  Ends(IF files = {} THEN Failed("tsjs") ELSE Collect("tsjs", files, diffed))

StrykerReports(n) ==
  /\ tool = "tsjs"
  /\ tested' \in TestedNow
  /\ \E readable \in BOOLEAN :
       reports' = [reports EXCEPT !["stryker"] = ReportFile(n, readable, tested')]
  /\ StrykerCollected
  /\ UNCHANGED <<late, diffed>>

\* It crashes before it writes, or writes where this runner does not look.
StrykerWritesNothing ==
  /\ tool = "tsjs"
  /\ tested' \in TestedNow
  /\ UNCHANGED <<reports, late, diffed>>
  /\ StrykerCollected

\* The timeout kills npx, not what npx started.
StrykerFails(n) == ToolFails("tsjs") /\ late' \in {late, n} /\ UNCHANGED reports

\* Stryker of an earlier run is done at last.
LateReport ==
  /\ late # 0
  /\ \E mutants \in Testing :
       reports' = [reports EXCEPT !["stryker"] = ReportFile(late, TRUE, mutants)]
  /\ late' = 0
  /\ UNCHANGED <<tool, diffed, tested, outcome>>

\* Mistake: the build is not a clean one.
CleanedIncremental(disk) == disk

\* `mvn clean` over the modules the root pom builds.
Cleaned(disk) == [s \in Slot |-> IF s \in Reactor THEN NoReportFile ELSE disk[s]]

PitFails ==
  /\ ToolFails("java")
  /\ reports' \in {reports, Cleaned(reports)}
  /\ UNCHANGED late

\* One module in which PIT finds nothing to mutate fails the build with "No
\* mutations found", which counts for all of them.
PitFindsNoMutations ==
  /\ tool = "java"
  /\ tested' \in TestedNow
  /\ reports' = Cleaned(reports)
  /\ Ends(Exempt("java"))
  /\ UNCHANGED <<late, diffed>>

\* A build that succeeds: each module it builds has tested some of the files
\* and left a report, if it had any.
PitReports(n) ==
  /\ tool = "java"
  /\ \E parts \in [Reactor -> TestedNow], silent \in SUBSET Reactor, torn \in SUBSET Reactor :
       /\ \A a, b \in Reactor : a # b => parts[a] \cap parts[b] = {}
       /\ \A a \in silent : parts[a] = {}
       /\ tested' = UNION {parts[a] : a \in Reactor}
       /\ reports' = [s \in Slot |->
                        IF s \in Reactor \ silent THEN ReportFile(n, s \notin torn, parts[s])
                        ELSE Cleaned(reports)[s]]
  /\ LET files == On(reports', Module)
     IN  Ends(IF files = {} THEN Failed("java") ELSE Collect("java", files, Source))
  /\ UNCHANGED <<late, diffed>>

GremlinsFails == ToolFails("go") /\ UNCHANGED <<reports, late>>

\* No report and exit code 0: there was nothing to mutate.
GremlinsFindsNothing ==
  /\ tool = "go"
  /\ tested' = {}
  /\ Ends(Exempt("go"))
  /\ UNCHANGED <<reports, late, diffed>>

\* A report in the temporary directory is read whatever the exit code.
GremlinsReports(n) ==
  /\ tool = "go"
  /\ tested' \in TestedNow
  /\ \E readable \in BOOLEAN :
       Ends(Collect("go", {ReportFile(n, readable, tested')}, Source))
  /\ UNCHANGED <<reports, late, diffed>>

\* The end of the tool that run n started.
ToolEnds(n) ==
  \/ StrykerReports(n) \/ StrykerWritesNothing \/ StrykerFails(n)
  \/ PitReports(n) \/ PitFindsNoMutations \/ PitFails
  \/ GremlinsReports(n) \/ GremlinsFindsNothing \/ GremlinsFails

\* The pipeline is killed with its tool.
ToolKilled ==
  /\ tool # "none"
  /\ tool' = "none"
  /\ reports' \in {reports} \cup (IF tool = "java" THEN {Cleaned(reports)} ELSE {})
  /\ UNCHANGED <<late, diffed, tested, outcome>>

-----------------------------------------------------------------------------
(* Properties.                                                              *)

\* The type of the variables.
RunnersTypeOK ==
  /\ reports \in [Slot -> [of : Nat, readable : BOOLEAN, mutants : SUBSET Mutant]]
  /\ late \in Nat
  /\ tool \in Tool \cup {"none"}
  /\ diffed \subseteq Source /\ tested \subseteq Mutant
  /\ outcome.status \in {"none", "ran", "unavailable", "not_configured"}
  /\ outcome.of \subseteq Nat
  /\ outcome.status # "ran" => outcome = ToolOutcome(outcome.tool, outcome.status, 0, 0, 0, {})

\* No count comes of an earlier run's report, but where the code leaves it to
\* the tool ("no persistent cross-run directory to reset here", "guarantees a
\* fresh target/ regardless"): gremlins' counts are always this run's, PIT's
\* but for modules the build no longer reaches, Stryker's unless it left no
\* report of its own to overwrite the old one.
OldReportsOnlyWhereLeft(n) ==
  outcome.status = "ran" =>
    \A old \in outcome.of \ {n} :
      \/ outcome.tool = "tsjs" /\ reports["stryker"].of # n
      \/ outcome.tool = "java" /\ \E m \in Module \ Reactor : reports[m].of = old

\* A mutant that no test detected, whether a test ran and missed it or none
\* reached it, is counted against the language ("an undetected mutant is
\* undetected"), by Stryker and by gremlins: their language is never exempt,
\* nor perfect, with one of them in this run's report.
EscapeesCount(n) ==
  /\ outcome.status = "ran" /\ outcome.survived = 0
  /\ outcome.tool = "go" \/ (outcome.tool = "tsjs" /\ outcome.of = {n})
  => \A m \in tested : m.status \notin {"survived", "uncovered"}
=============================================================================
