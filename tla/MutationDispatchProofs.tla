------------------------ MODULE MutationDispatchProofs ------------------------
(***************************************************************************)
(* Theorems of MutationDispatch, for every checkout, every number of runs  *)
(* and whatever the tools find: first of what the Python runner does to    *)
(* the checkout, then of the report files of the other three.              *)
(***************************************************************************)
EXTENDS MutationDispatch, FiniteSetTheorems, TLAPS

\* The pipeline is killed while no Python step is under way.
KilledOutside ==
  /\ killed' = TRUE
  /\ UNCHANGED <<pyproject, original, editable, stats, orphan, run, pc, changed, saved, result,
                 counted, spoilt>>

\* What any step of the whole is to the Python runner.
PythonView == [Next]_vars \/ KilledOutside

LEMMA EveryStepIsAPythonView == [DispatchNext]_dispatchVars => PythonView
<1> SUFFICES ASSUME [DispatchNext]_dispatchVars PROVE PythonView
  OBVIOUS
<1>1. CASE Dispatch \/ PythonStep
  BY <1>1 DEF Dispatch, PythonStep, Next, PythonView
<1>2. CASE CallRunner \/ RunnerEnds \/ StrykerLate
  BY <1>2 DEF CallRunner, RunnerEnds, StrykerLate, PythonView
<1>3. CASE PipelineKilled
  BY <1>3 DEF PipelineKilled, Next, PythonView, KilledOutside
<1>4. CASE AllDone \/ UNCHANGED dispatchVars
  BY <1>4 DEF AllDone, Done, dispatchVars, PythonView
<1>5. QED
  BY <1>1, <1>2, <1>3, <1>4 DEF DispatchNext

LEMMA ScopeTypes ==
  ASSUME NEW kind \in {"glob", "list", "torn", "nothing"}, NEW files \in SUBSET File
  PROVE  /\ ScopeOf(kind, files) \in Scope
         /\ ScopeOf(kind, files).kind = kind
         /\ ScopeOf(kind, files).files = files
BY DEF ScopeOf, Scope

LEMMA NotSavedType == NotSaved \in Scope /\ NotSaved.kind = "nothing"
BY ScopeTypes DEF NotSaved

LEMMA ListingType == ASSUME NEW files \in SUBSET File PROVE Listing(files) \in Scope
BY ScopeTypes DEF Listing

\* How a run of the Python runner ends.
LEMMA FinishType ==
  ASSUME TypeOK, NEW status \in {"ran", "exempt", "unavailable"}, NEW of \in 0..MaxRuns,
         Finish(status, of)
  PROVE  /\ pyproject' \in Scope /\ saved' \in Scope /\ pc' = "idle"
         /\ result' = status /\ counted' = of
         /\ UNCHANGED <<original, editable, run, changed, killed, spoilt>>
BY NotSavedType DEF TypeOK, Finish, Return

LEMMA TypeInit == Init => TypeOK
<1> SUFFICES ASSUME Init PROVE TypeOK
  OBVIOUS
<1>1. MaxRuns \in Nat /\ ScopeOf("glob", {}) \in Scope /\ NotSaved \in Scope
  BY MutationRunAssumption, ScopeTypes, NotSavedType
<1>2. /\ pyproject \in Scope /\ original \in Scope /\ saved \in Scope
      /\ editable \in BOOLEAN /\ killed \in BOOLEAN /\ spoilt \in BOOLEAN
  BY <1>1 DEF Init
<1>3. /\ stats = 0 /\ orphan = 0 /\ run = 0 /\ counted = 0 /\ pc = "idle" /\ changed = {}
      /\ result = "none" /\ 0 \in 0..MaxRuns
  BY <1>1 DEF Init
<1>4. QED
  BY <1>2, <1>3 DEF TypeOK

LEMMA TypeStep == TypeOK /\ PythonView => TypeOK'
<1> SUFFICES ASSUME TypeOK, PythonView PROVE TypeOK'
  OBVIOUS
<1>0. MaxRuns \in Nat /\ 0 \in 0..MaxRuns /\ NotSaved \in Scope
  BY MutationRunAssumption, NotSavedType
<1>1. CASE StartRun
  <2>1. run + 1 \in 0..MaxRuns
    BY <1>0, <1>1 DEF StartRun, TypeOK
  <2>2. PICK files \in SUBSET File, touched \in BOOLEAN :
          IF files = {} THEN Return("not_configured", 0) /\ changed' = {}
          ELSE IF Exempted(files, touched) THEN Return("exempt", 0) /\ changed' = {}
          ELSE /\ pc' = "reset" /\ changed' = files \cap InSource
               /\ result' = "none" /\ counted' = 0
    BY <1>1 DEF StartRun
  <2>3. QED
    BY <1>0, <1>1, <2>1, <2>2 DEF StartRun, TypeOK, Return, workspace
<1>2. CASE ResetCache
  <2>1. spoilt' \in BOOLEAN
    BY <1>2 DEF ResetCache
  <2>2. QED
    BY <1>0, <1>2, <2>1 DEF ResetCache, TypeOK
<1>3. CASE Narrow
  <2>1. Listing(changed) \in Scope
    BY ListingType DEF TypeOK
  <2>2. QED
    BY <1>3, <2>1 DEF Narrow, TypeOK
<1>4. CASE MutmutRuns
  <2>1. run \in 0..MaxRuns
    BY DEF TypeOK
  <2>2. QED
    BY <1>0, <1>4, <2>1, FinishType DEF MutmutRuns, TimesOut, TypeOK
<1>5. CASE ExportStats
  BY <1>0, <1>5, FinishType DEF ExportStats, TimesOut, TypeOK
<1>6. CASE ReadStats
  <2>1. stats \in 0..MaxRuns
    BY DEF TypeOK
  <2>2. QED
    BY <1>0, <1>6, <2>1, FinishType DEF ReadStats, TypeOK
<1>7. CASE OrphanEnds
  BY <1>0, <1>7 DEF OrphanEnds, TypeOK
<1>8. CASE Killed
  <2>1. ScopeOf("torn", {}) \in Scope
    BY ScopeTypes
  <2>2. QED
    BY <1>0, <1>8, <2>1 DEF Killed, TypeOK
<1>9. CASE UNCHANGED vars
  BY <1>9 DEF vars, TypeOK
<1>10. CASE KilledOutside
  BY <1>10 DEF KilledOutside, TypeOK
<1>11. QED
  BY <1>1, <1>2, <1>3, <1>4, <1>5, <1>6, <1>7, <1>8, <1>9, <1>10 DEF PythonView, Next, Step, Done

-----------------------------------------------------------------------------
(* The checkout.                                                            *)

Working == {"mutmut", "export", "read"}

\* While nothing was killed, what was checked in is either on disk or held
\* by the run that narrowed it.
Recoverable ==
  /\ original = ScopeOf("glob", {})
  /\ pc \notin Working => saved = NotSaved
  /\ ~killed => IF saved = NotSaved THEN pyproject = original ELSE saved = original

\* What the mutmut subprocesses find in pyproject.toml.
Narrowed == pc \in Working /\ editable /\ ~killed => pyproject = Listing(changed)

\* Whose statistics there are for a run that began with a clean cache.
OwnStats ==
  /\ pc \in Working \cup {"narrow"} /\ ~spoilt => orphan = 0 /\ stats \in {0, run}
  /\ pc # "idle" => result # "ran"
  /\ CountsAreOfThisRun

PythonInv == Recoverable /\ Narrowed /\ OwnStats

LEMMA GlobIsNoListing ==
  ASSUME NEW files \in SUBSET File
  PROVE  /\ ScopeOf("glob", {}) # NotSaved /\ ScopeOf("glob", {}) # Listing(files)
         /\ ScopeOf("glob", {}).kind # "torn"
<1>1. ScopeOf("glob", {}).kind = "glob" /\ NotSaved.kind = "nothing" /\ Listing(files).kind = "list"
  BY ScopeTypes, NotSavedType DEF Listing
<1>2. QED
  BY <1>1

LEMMA PythonInit == Init => PythonInv
<1> SUFFICES ASSUME Init PROVE PythonInv
  OBVIOUS
<1>1. /\ original = ScopeOf("glob", {}) /\ pyproject = original /\ saved = NotSaved
      /\ pc = "idle" /\ result = "none"
  BY DEF Init
<1>2. QED
  BY <1>1 DEF PythonInv, Recoverable, Narrowed, OwnStats, CountsAreOfThisRun, Working

\* However a run ends, it puts back what it holds.
LEMMA FinishKeeps ==
  ASSUME TypeOK, PythonInv, NEW status \in {"ran", "exempt", "unavailable"}, NEW of \in 0..MaxRuns,
         Finish(status, of), pc \in Working, status = "ran" /\ ~spoilt => of = run
  PROVE  PythonInv'
<1>1. /\ pc' = "idle" /\ result' = status /\ counted' = of /\ saved' = NotSaved
      /\ UNCHANGED <<original, run, killed, spoilt>>
  BY DEF Finish, Return
<1>2. Recoverable'
  BY <1>1 DEF Finish, PythonInv, Recoverable
<1>3. Narrowed' /\ OwnStats'
  BY <1>1 DEF Narrowed, OwnStats, CountsAreOfThisRun, Working
<1>4. QED
  BY <1>2, <1>3 DEF PythonInv

LEMMA PythonStepKeeps == TypeOK /\ PythonInv /\ PythonView => PythonInv'
<1> SUFFICES ASSUME TypeOK, PythonInv, PythonView PROVE PythonInv'
  OBVIOUS
<1>0. MaxRuns \in Nat /\ 0 \in 0..MaxRuns /\ run \in 0..MaxRuns /\ stats \in 0..MaxRuns
  BY MutationRunAssumption DEF TypeOK
<1>1. CASE StartRun
  <2>1. /\ pc = "idle" /\ pc' \in {"idle", "reset"} /\ result' # "ran"
        /\ UNCHANGED <<workspace, saved, killed, spoilt>>
    BY <1>1 DEF StartRun, Return
  <2>2. QED
    BY <2>1 DEF workspace, PythonInv, Recoverable, Narrowed, OwnStats, CountsAreOfThisRun, Working
<1>2. CASE ResetCache
  <2>1. /\ pc = "reset" /\ pc' = "narrow" /\ stats' \in {0, stats} /\ spoilt' = (stats' # 0 \/ orphan # 0)
        /\ UNCHANGED <<pyproject, original, editable, orphan, run, changed, saved, result, counted, killed>>
    BY <1>2 DEF ResetCache
  <2>2. ~spoilt' => orphan' = 0 /\ stats' = 0
    BY <2>1
  <2>3. QED
    BY <2>1, <2>2 DEF PythonInv, Recoverable, Narrowed, OwnStats, CountsAreOfThisRun, Working
<1>3. CASE Narrow
  <2>1. /\ pc = "narrow" /\ pc' = "mutmut" /\ saved = NotSaved
        /\ UNCHANGED <<original, editable, stats, orphan, run, changed, result, counted, killed, spoilt>>
    BY <1>3 DEF Narrow, PythonInv, Recoverable, Working
  <2>2. OwnStats'
    BY <2>1 DEF PythonInv, OwnStats, CountsAreOfThisRun, Working
  <2>3. ~killed => pyproject = original
    BY <2>1 DEF PythonInv, Recoverable
  <2>4. Recoverable'
    <3>1. original # NotSaved
      BY GlobIsNoListing DEF TypeOK, PythonInv, Recoverable
    <3>2. QED
      BY <1>3, <2>1, <2>3, <3>1 DEF Narrow, PythonInv, Recoverable, Working
  <2>5. Narrowed'
    <3>1. /\ original.kind # "torn" /\ original # Listing(changed)
      BY GlobIsNoListing DEF TypeOK, PythonInv, Recoverable
    <3>2. QED
      BY <1>3, <2>1, <2>3, <3>1 DEF Narrow, Narrowed, Listing
  <2>6. QED
    BY <2>2, <2>4, <2>5 DEF PythonInv
<1>4. CASE MutmutRuns
  <2>1. pc \in Working
    BY <1>4 DEF MutmutRuns, Working
  <2>2. CASE Finish("exempt", 0) \/ Finish("unavailable", 0)
    BY <1>0, <2>1, <2>2, FinishKeeps
  <2>3. CASE pc' = "export" /\ UNCHANGED <<pyproject, original, editable, stats, orphan, run, changed,
                                          saved, result, counted, killed, spoilt>>
    BY <2>1, <2>3 DEF PythonInv, Recoverable, Narrowed, Listing, OwnStats, CountsAreOfThisRun, Working
  <2>4. QED
    BY <1>4, <2>2, <2>3 DEF MutmutRuns
<1>5. CASE ExportStats
  <2>1. pc \in Working
    BY <1>5 DEF ExportStats, Working
  <2>2. CASE Finish("unavailable", 0)
    BY <1>0, <2>1, <2>2, FinishKeeps
  <2>3. CASE /\ pc' = "read" /\ stats' \in {stats, run} \cup ({orphan} \ {0})
             /\ UNCHANGED <<pyproject, original, editable, orphan, run, changed, saved, result,
                            counted, killed, spoilt>>
    <3>1. Recoverable' /\ Narrowed'
      BY <2>1, <2>3 DEF PythonInv, Recoverable, Narrowed, Listing, Working
    <3>2. OwnStats'
      BY <2>1, <2>3 DEF PythonInv, OwnStats, CountsAreOfThisRun, Working
    <3>3. QED
      BY <3>1, <3>2 DEF PythonInv
  <2>4. QED
    BY <1>5, <2>2, <2>3 DEF ExportStats
<1>6. CASE ReadStats
  <2>1. pc \in Working
    BY <1>6 DEF ReadStats, Working
  <2>2. stats # 0 /\ ~spoilt => stats = run
    BY <2>1 DEF PythonInv, OwnStats
  <2>3. QED
    BY <1>0, <1>6, <2>1, <2>2, FinishKeeps DEF ReadStats
<1>7. CASE OrphanEnds
  BY <1>7 DEF OrphanEnds, PythonInv, Recoverable, Narrowed, Listing, OwnStats, CountsAreOfThisRun, Working
<1>8. CASE Killed
  BY <1>8 DEF Killed, PythonInv, Recoverable, Narrowed, OwnStats, CountsAreOfThisRun, Working
<1>9. CASE UNCHANGED vars
  BY <1>9 DEF vars, PythonInv, Recoverable, Narrowed, Listing, OwnStats, CountsAreOfThisRun, Working
<1>10. CASE KilledOutside
  BY <1>10 DEF KilledOutside, PythonInv, Recoverable, Narrowed, OwnStats, CountsAreOfThisRun, Working
<1>11. QED
  BY <1>1, <1>2, <1>3, <1>4, <1>5, <1>6, <1>7, <1>8, <1>9, <1>10 DEF PythonView, Next, Step, Done

LEMMA PythonHolds == DispatchSpec => [](TypeOK /\ PythonInv)
<1>1. DispatchInit => TypeOK /\ PythonInv
  BY TypeInit, PythonInit DEF DispatchInit
<1>2. TypeOK /\ PythonInv /\ [DispatchNext]_dispatchVars => TypeOK' /\ PythonInv'
  BY EveryStepIsAPythonView, TypeStep, PythonStepKeeps
<1>3. QED
  BY <1>1, <1>2, PTL DEF DispatchSpec

\* A kill rate is of this run's mutants, given a cache that could be deleted
\* and no worker of an earlier run (_reset_mutmut_cache, _run_scoped).
THEOREM OwnCounts == DispatchSpec => []CountsAreOfThisRun
<1>1. PythonInv => CountsAreOfThisRun
  BY DEF PythonInv, OwnStats
<1>2. QED
  BY <1>1, PythonHolds, PTL

\* Whatever fails, a run that is not killed leaves pyproject.toml as it was
\* checked in (_scoped_only_mutate).
THEOREM CheckoutRestored == DispatchSpec => []ScopeRestored
<1>1. PythonInv => ScopeRestored
  BY DEF PythonInv, Recoverable, ScopeRestored, Working
<1>2. QED
  BY <1>1, PythonHolds, PTL

\* All subprocesses of a run see the narrowed configuration, where it can be
\* written (run, _scoped_only_mutate).
THEOREM NarrowedThroughout == DispatchSpec => []OneConfigurationPerRun
<1>1. PythonInv => OneConfigurationPerRun
  BY DEF PythonInv, Narrowed, OneConfigurationPerRun, Working
<1>2. QED
  BY <1>1, PythonHolds, PTL

-----------------------------------------------------------------------------
(* The report files.                                                        *)

Reports == [of : Nat, readable : BOOLEAN, mutants : SUBSET Mutant]

LEMMA ReportFileType ==
  ASSUME NEW of \in Nat, NEW readable \in BOOLEAN, NEW mutants \in SUBSET Mutant
  PROVE  /\ ReportFile(of, readable, mutants) \in Reports
         /\ ReportFile(of, readable, mutants).of = of
         /\ ReportFile(of, readable, mutants).mutants = mutants
BY DEF ReportFile, Reports

LEMMA NoReportFileType == NoReportFile \in Reports
<1>1. 0 \in Nat /\ FALSE \in BOOLEAN /\ {} \in SUBSET Mutant
  OBVIOUS
<1>2. QED
  BY <1>1, ReportFileType DEF NoReportFile

LEMMA TestingType ==
  ASSUME NEW mutants \in Testing
  PROVE  mutants \in SUBSET Mutant /\ IsFiniteSet(mutants)
BY ReportRunnersAssumption

LEMMA CleanedType ==
  ASSUME NEW disk \in [Slot -> Reports]
  PROVE  /\ Cleaned(disk) \in [Slot -> Reports]
         /\ \A s \in Slot \ Reactor : Cleaned(disk)[s] = disk[s]
BY NoReportFileType DEF Cleaned

LEMMA StrykerSlot == "stryker" \in Slot \ Reactor /\ "stryker" \notin Module /\ Module \subseteq Slot
BY ReportRunnersAssumption DEF Slot

\* What a runner can return: nothing counted, or counts of the files read.
Uncounted(t, status) == ToolOutcome(t, status, 0, 0, 0, {})

LEMMA UncountedFields ==
  ASSUME NEW t, NEW status
  PROVE  /\ Uncounted(t, status).tool = t /\ Uncounted(t, status).status = status
         /\ Uncounted(t, status).of = {}
BY DEF Uncounted, ToolOutcome

LEMMA CollectCases ==
  ASSUME NEW t, NEW files, NEW inScope
  PROVE  \/ Collect(t, files, inScope) = Uncounted(t, "unavailable")
         \/ /\ Collect(t, files, inScope).tool = t
            /\ Collect(t, files, inScope).status = "ran"
            /\ Collect(t, files, inScope).survived = Cardinality(Counted(files, inScope, Undetected(t)))
            /\ \A of \in Collect(t, files, inScope).of : \E f \in files : of = f.of
BY DEF Collect, Failed, Uncounted, ToolOutcome

\* Who has still to read Stryker's report in this run.
Pending == tool = "tsjs" \/ "tsjs" \in todo

\* Whose reports there can be: none of a later run, and none of this one's
\* at Stryker's path before its Stryker has run.
ReportAges ==
  /\ late <= run /\ reports["stryker"].of <= run
  /\ tool \notin todo
  /\ Pending => reports["stryker"].of # run
  /\ late = run /\ run # 0 => ~Pending /\ ~(outcome.tool = "tsjs" /\ outcome.status = "ran")

DispatchInv == DispatchTypeOK /\ ReportAges /\ ReportsOfThisRun /\ NoEscapeeForgotten

LEMMA DispatchInitially == DispatchInit => DispatchInv
<1> SUFFICES ASSUME DispatchInit PROVE DispatchInv
  OBVIOUS
<1>1. TypeOK /\ pc = "idle" /\ run = 0 /\ todo = {}
  BY TypeInit DEF DispatchInit, Init
<1>2. /\ outcome = Uncounted("none", "none") /\ late = 0 /\ tool = "none" /\ diffed = {} /\ tested = {}
  BY DEF DispatchInit, RunnersInit, NoOutcome, Uncounted
<1>3. outcome.tool = "none" /\ outcome.status = "none" /\ outcome.of = {}
  BY <1>2, UncountedFields
<1>4. PICK left \in SUBSET (Slot \ Reactor), mutants \in Testing :
        reports = [s \in Slot |-> IF s \in left THEN ReportFile(0, TRUE, mutants) ELSE NoReportFile]
  BY DEF DispatchInit, RunnersInit
<1>5. ReportFile(0, TRUE, mutants) \in Reports /\ ReportFile(0, TRUE, mutants).of = 0
  BY TestingType, ReportFileType
<1>6. NoReportFile.of = 0
  BY DEF NoReportFile, ReportFile
<1>7. reports \in [Slot -> Reports] /\ reports["stryker"].of = 0
  BY <1>4, <1>5, <1>6, NoReportFileType, StrykerSlot
<1>8. DispatchTypeOK
  BY <1>1, <1>2, <1>3, <1>7 DEF DispatchTypeOK, RunnersTypeOK, Reports, Uncounted, Tool
<1>9. ReportAges
  BY <1>1, <1>2, <1>3, <1>7 DEF ReportAges, Pending
<1>10. ReportsOfThisRun /\ NoEscapeeForgotten
  BY <1>3 DEF ReportsOfThisRun, OldReportsOnlyWhereLeft, NoEscapeeForgotten, EscapeesCount
<1>11. QED
  BY <1>8, <1>9, <1>10 DEF DispatchInv

OutcomeType(o) ==
  /\ o.status \in {"none", "ran", "unavailable", "not_configured"}
  /\ o.of \subseteq Nat
  /\ o.status # "ran" => o = Uncounted(o.tool, o.status)

LEMMA UncountedType ==
  ASSUME NEW t, NEW status \in {"none", "ran", "unavailable", "not_configured"}
  PROVE  OutcomeType(Uncounted(t, status))
<1>1. Uncounted(t, status).of \subseteq Nat
  BY UncountedFields
<1>2. QED
  BY <1>1, UncountedFields DEF OutcomeType

LEMMA CollectType ==
  ASSUME NEW t, NEW files \in SUBSET Reports, NEW inScope
  PROVE  OutcomeType(Collect(t, files, inScope))
<1>1. CASE Collect(t, files, inScope) = Uncounted(t, "unavailable")
  BY <1>1, UncountedType
<1>2. CASE /\ Collect(t, files, inScope).status = "ran"
           /\ \A of \in Collect(t, files, inScope).of : \E f \in files : of = f.of
  BY <1>2 DEF OutcomeType, Reports
<1>3. QED
  BY <1>1, <1>2, CollectCases

\* The parts of the invariant that a step of the tools can disturb, once
\* their variables are known to keep their types.
LEMMA ToolStepType ==
  ASSUME DispatchInv, reports' \in [Slot -> Reports], late' \in Nat,
         tool' \in Tool \cup {"none"}, diffed' \subseteq Source, tested' \subseteq Mutant,
         OutcomeType(outcome'), todo' \subseteq Tool, TypeOK',
         tool' # "none" => pc' = "idle"
  PROVE  DispatchTypeOK'
BY DEF DispatchTypeOK, RunnersTypeOK, OutcomeType, Uncounted, Reports

LEMMA InvTypes ==
  ASSUME DispatchInv
  PROVE  /\ reports \in [Slot -> Reports] /\ late \in Nat /\ run \in Nat
         /\ tool \in Tool \cup {"none"} /\ diffed \subseteq Source /\ tested \subseteq Mutant
         /\ OutcomeType(outcome) /\ todo \subseteq Tool /\ TypeOK
         /\ tool # "none" => pc = "idle"
         /\ "stryker" \in Slot /\ reports["stryker"] \in Reports
<1>1. /\ reports \in [Slot -> Reports] /\ late \in Nat
      /\ tool \in Tool \cup {"none"} /\ diffed \subseteq Source /\ tested \subseteq Mutant
      /\ OutcomeType(outcome) /\ todo \subseteq Tool /\ TypeOK
      /\ tool # "none" => pc = "idle"
  BY DEF DispatchInv, DispatchTypeOK, RunnersTypeOK, OutcomeType, Uncounted, Reports
<1>2. run \in Nat
  BY <1>1, MutationRunAssumption DEF TypeOK
<1>3. QED
  BY <1>1, <1>2, StrykerSlot

\* A step that leaves the runners' variables alone, but for a tool that is
\* killed and a list cut short.
LEMMA UntouchedKeeps ==
  ASSUME DispatchInv, TypeOK', UNCHANGED <<run, late, diffed, tested, outcome>>,
         \/ UNCHANGED <<reports, tool>>
         \/ tool' = "none" /\ reports' \in {reports, Cleaned(reports)},
         todo' \in {todo, {}}, tool' # "none" => pc' = "idle"
  PROVE  DispatchInv'
<1>0. reports \in [Slot -> Reports]
  BY InvTypes
<1>1. /\ reports' \in [Slot -> Reports] /\ reports'["stryker"] = reports["stryker"]
      /\ \A m \in Module \ Reactor : reports'[m] = reports[m]
  BY <1>0, CleanedType, StrykerSlot
<1>2. DispatchTypeOK'
  BY <1>1, InvTypes, ToolStepType
<1>3. ReportAges'
  BY <1>1, InvTypes DEF DispatchInv, ReportAges, Pending, Tool
<1>4. ReportsOfThisRun' /\ NoEscapeeForgotten'
  BY <1>1 DEF DispatchInv, ReportsOfThisRun, OldReportsOnlyWhereLeft, NoEscapeeForgotten, EscapeesCount
<1>5. QED
  BY <1>2, <1>3, <1>4 DEF DispatchInv

\* A runner that counts nothing: what it returns refers to no report.
LEMMA UncountedKeeps ==
  ASSUME DispatchInv, TypeOK', UNCHANGED run,
         reports' \in {reports, Cleaned(reports)},
         NEW t \in Tool, NEW status \in {"ran", "unavailable", "not_configured"},
         outcome' = Uncounted(t, status), tool' = "none",
         diffed' \subseteq Source, tested' \subseteq Mutant,
         status = "ran" => t = "java" \/ tested' = {},
         t \in todo \/ tool = t, todo' = todo \ {t},
         late' = late \/ (t = "tsjs" /\ status = "unavailable" /\ late' = run)
  PROVE  DispatchInv'
<1>0. reports \in [Slot -> Reports] /\ run \in Nat /\ late \in Nat
  BY InvTypes
<1>1. reports' \in [Slot -> Reports] /\ reports'["stryker"] = reports["stryker"]
  BY <1>0, CleanedType, StrykerSlot
<1>2. DispatchTypeOK'
  BY <1>0, <1>1, InvTypes, UncountedType, ToolStepType
<1>3. outcome'.tool = t /\ outcome'.status = status /\ outcome'.of = {}
  BY UncountedFields
<1>4. ReportAges'
  <2>1. /\ late <= run /\ reports["stryker"].of <= run
        /\ Pending => reports["stryker"].of # run
        /\ late = run /\ run # 0 => ~Pending
    BY DEF DispatchInv, ReportAges
  <2>2. tool' \notin todo' /\ (Pending' => Pending) /\ (t = "tsjs" => Pending /\ ~Pending')
    BY <1>0, InvTypes DEF Tool, Pending
  <2>3. late' <= run' /\ reports'["stryker"].of <= run'
    BY <1>0, <1>1, <2>1
  <2>4. Pending' => reports'["stryker"].of # run'
    BY <1>1, <2>1, <2>2
  <2>5. late' = run' /\ run' # 0 => ~Pending' /\ ~(outcome'.tool = "tsjs" /\ outcome'.status = "ran")
    BY <1>3, <2>1, <2>2
  <2>6. QED
    BY <2>2, <2>3, <2>4, <2>5 DEF ReportAges
<1>5. ReportsOfThisRun'
  BY <1>3 DEF ReportsOfThisRun, OldReportsOnlyWhereLeft
<1>6. NoEscapeeForgotten'
  <2>1. outcome'.of # {run'} /\ (t = "go" /\ status = "ran" => tested' = {})
    BY <1>3
  <2>2. QED
    BY <1>3, <2>1 DEF NoEscapeeForgotten, EscapeesCount
<1>7. QED
  BY <1>2, <1>4, <1>5, <1>6 DEF DispatchInv

LEMMA DispatchKeeps == DispatchInv /\ TypeOK' /\ Dispatch => DispatchInv'
<1> SUFFICES ASSUME DispatchInv, TypeOK', Dispatch PROVE DispatchInv'
  OBVIOUS
<1>1. /\ run \in Nat /\ run' = run + 1 /\ UNCHANGED <<reports, late, tool>>
      /\ diffed' = {} /\ tested' = {} /\ outcome' = Uncounted("none", "none") /\ tool = "none"
  BY InvTypes DEF Dispatch, StartRun, NoOutcome, Uncounted
<1>2. todo' \subseteq Tool
  BY MutationDispatchAssumption DEF Dispatch
<1>3. outcome'.status = "none" /\ outcome'.tool = "none" /\ OutcomeType(outcome')
  BY <1>1, UncountedFields, UncountedType
<1>4. DispatchTypeOK'
  BY <1>1, <1>2, <1>3, InvTypes, ToolStepType
<1>5. ReportAges'
  <2>1. reports["stryker"].of \in Nat /\ late \in Nat
    BY InvTypes DEF Reports
  <2>2. reports["stryker"].of <= run /\ late <= run
    BY DEF DispatchInv, ReportAges
  <2>3. reports'["stryker"].of < run' /\ late' < run'
    BY <1>1, <2>1, <2>2
  <2>4. tool' \notin todo'
    BY <1>1, <1>2 DEF Tool
  <2>5. QED
    BY <1>1, <2>1, <2>3, <2>4 DEF ReportAges, Pending
<1>6. ReportsOfThisRun' /\ NoEscapeeForgotten'
  BY <1>3 DEF ReportsOfThisRun, OldReportsOnlyWhereLeft, NoEscapeeForgotten, EscapeesCount
<1>7. QED
  BY <1>4, <1>5, <1>6 DEF DispatchInv

LEMMA CallRunnerKeeps == DispatchInv /\ TypeOK' /\ CallRunner => DispatchInv'
<1> SUFFICES ASSUME DispatchInv, TypeOK', CallRunner PROVE DispatchInv'
  OBVIOUS
<1>1. PICK t \in todo, files \in SUBSET Source, configured \in BOOLEAN, scoped \in BOOLEAN :
        StartTool(t, files, configured, scoped) /\ todo' = todo \ {t}
  BY DEF CallRunner
<1>2. /\ UNCHANGED <<run, pc, reports, late>> /\ pc = "idle" /\ tool = "none"
      /\ t \in Tool /\ diffed' \subseteq Source /\ tested' = {}
  BY <1>1, InvTypes DEF CallRunner, StartTool, vars
<1>3. CASE tool' = "none" /\ \E status \in {"ran", "unavailable", "not_configured"} :
                               outcome' = Uncounted(t, status)
  BY <1>1, <1>2, <1>3, UncountedKeeps
<1>4. CASE tool' = t /\ outcome' = Uncounted("none", "none")
  <2>1. outcome'.tool = "none" /\ outcome'.status = "none" /\ OutcomeType(outcome')
    BY <1>4, UncountedFields, UncountedType
  <2>2. DispatchTypeOK'
    BY <1>1, <1>2, <1>4, <2>1, InvTypes, ToolStepType
  <2>3. ReportAges'
    BY <1>1, <1>2, <1>4, <2>1 DEF DispatchInv, ReportAges, Pending
  <2>4. ReportsOfThisRun' /\ NoEscapeeForgotten'
    BY <2>1 DEF ReportsOfThisRun, OldReportsOnlyWhereLeft, NoEscapeeForgotten, EscapeesCount
  <2>5. QED
    BY <2>2, <2>3, <2>4 DEF DispatchInv
<1>5. QED
  BY <1>1, <1>3, <1>4 DEF StartTool, Ends, Exempt, Failed, NoOutcome, Uncounted

\* A count of zero over one report means that none of its mutants counts.
LEMMA NothingCounted ==
  ASSUME NEW f, IsFiniteSet(f.mutants), NEW inScope, NEW statuses,
         Cardinality(Counted({f}, inScope, statuses)) = 0,
         NEW m \in f.mutants, m.file \in inScope
  PROVE  m.status \notin statuses
<1> DEFINE theirs == Counted({f}, inScope, statuses)
<1>1. UNION {g.mutants : g \in {f}} = f.mutants
  OBVIOUS
<1>2. theirs = {p \in {f} \X f.mutants :
                   p[2] \in p[1].mutants /\ p[2].file \in inScope /\ p[2].status \in statuses}
  BY <1>1 DEF Counted
<1>3. IsFiniteSet({f} \X f.mutants)
  BY FS_Singleton, FS_Product
<1>4. IsFiniteSet(theirs)
  BY <1>2, <1>3, FS_Subset
<1>5. theirs = {}
  BY <1>4, FS_EmptySet
<1>6. /\ <<f, m>> \in {f} \X f.mutants
      /\ <<f, m>>[1] = f /\ <<f, m>>[2] = m
  OBVIOUS
<1>7. ASSUME m.status \in statuses PROVE <<f, m>> \in theirs
  <2>1. \A p : p \in theirs <=> /\ p \in {f} \X f.mutants /\ p[2] \in p[1].mutants
                                /\ p[2].file \in inScope /\ p[2].status \in statuses
    BY <1>2
  <2> HIDE DEF theirs
  <2>2. QED
    BY <1>6, <1>7, <2>1
<1>8. QED
  BY <1>5, <1>7

\* A runner that collects its counts from one report, of the run at hand or
\* of the one that left it behind.
LEMMA OneReportKeeps ==
  ASSUME DispatchInv, TypeOK', UNCHANGED <<run, late, todo, pc>>,
         NEW t \in {"tsjs", "go"}, tool = t, tool' = "none",
         NEW f \in Reports, NEW inScope, inScope \subseteq Source,
         outcome' = Collect(t, {f}, inScope),
         reports' \in [Slot -> Reports], reports'["stryker"].of <= run,
         diffed' \subseteq Source, tested' \subseteq Mutant,
         t = "tsjs" => reports'["stryker"].of = f.of,
         t = "go" => UNCHANGED reports /\ f.of = run,
         f.of = run => /\ f.mutants = tested' /\ IsFiniteSet(tested')
                       /\ \A m \in tested' : m.file \in inScope
  PROVE  DispatchInv'
<1>1. DispatchTypeOK'
  BY InvTypes, CollectType, ToolStepType
<1>2. /\ outcome'.tool = t
      /\ \/ outcome'.status = "unavailable"
         \/ outcome'.status = "ran" /\ outcome'.of \subseteq {f.of}
            /\ outcome'.survived = Cardinality(Counted({f}, inScope, {"survived", "uncovered"}))
  <2>1. Undetected(t) = {"survived", "uncovered"}
    BY DEF Undetected
  <2>2. CASE outcome' = Uncounted(t, "unavailable")
    BY <2>2, UncountedFields
  <2>3. CASE /\ outcome'.tool = t /\ outcome'.status = "ran"
             /\ outcome'.survived = Cardinality(Counted({f}, inScope, Undetected(t)))
             /\ \A of \in outcome'.of : of = f.of
    BY <2>1, <2>3
  <2>4. QED
    <3> DEFINE c == Collect(t, {f}, inScope)
    <3>1. \/ c = Uncounted(t, "unavailable")
          \/ /\ c.tool = t /\ c.status = "ran"
             /\ c.survived = Cardinality(Counted({f}, inScope, Undetected(t)))
             /\ \A of \in c.of : of = f.of
      BY CollectCases
    <3>2. outcome' = c
      OBVIOUS
    <3> HIDE DEF c
    <3>3. QED
      BY <2>2, <2>3, <3>1, <3>2
<1>3. ReportAges'
  BY <1>2, InvTypes DEF DispatchInv, ReportAges, Pending, Tool
<1>4. ReportsOfThisRun'
  BY <1>2 DEF ReportsOfThisRun, OldReportsOnlyWhereLeft
<1>5. NoEscapeeForgotten'
  <2>1. SUFFICES ASSUME outcome'.status = "ran", outcome'.survived = 0,
                        outcome'.tool = "go" \/ (outcome'.tool = "tsjs" /\ outcome'.of = {run'}),
                        NEW m \in tested'
                 PROVE  m.status \notin {"survived", "uncovered"}
    BY DEF NoEscapeeForgotten, EscapeesCount
  <2>2. f.of = run
    BY <1>2, <2>1
  <2>3. m \in f.mutants /\ m.file \in inScope /\ IsFiniteSet(f.mutants)
    BY <2>1, <2>2
  <2>4. Cardinality(Counted({f}, inScope, {"survived", "uncovered"})) = 0
    BY <1>2, <2>1
  <2>5. QED
    BY <2>3, <2>4, NothingCounted
<1>6. QED
  BY <1>1, <1>3, <1>4, <1>5 DEF DispatchInv

LEMMA StrykerEndsKeep ==
  ASSUME DispatchInv, TypeOK', StrykerReports(run) \/ StrykerWritesNothing, UNCHANGED <<vars, todo>>
  PROVE  DispatchInv'
<1>0. /\ tool = "tsjs" /\ run \in Nat /\ pc = pc' /\ run' = run /\ late' = late
      /\ reports \in [Slot -> Reports] /\ "stryker" \in Slot /\ reports["stryker"] \in Reports
      /\ diffed' = diffed /\ diffed \subseteq Source
  BY InvTypes DEF StrykerReports, StrykerWritesNothing, vars
<1>1. tested' \in Testing /\ \A m \in tested' : m.file \in diffed
  BY DEF StrykerReports, StrykerWritesNothing, TestedNow
<1>2. tested' \subseteq Mutant /\ IsFiniteSet(tested')
  BY <1>1, TestingType
<1>3. /\ reports' \in [Slot -> Reports] /\ reports'["stryker"].of <= run
      /\ reports'["stryker"].of = run => reports'["stryker"].mutants = tested'
  <2>1. CASE StrykerReports(run)
    <3>1. PICK readable \in BOOLEAN :
            reports' = [reports EXCEPT !["stryker"] = ReportFile(run, readable, tested')]
      BY <2>1 DEF StrykerReports
    <3>2. ReportFile(run, readable, tested') \in Reports
      BY <1>0, <1>2, ReportFileType
    <3>3. reports'["stryker"] = ReportFile(run, readable, tested')
      BY <1>0, <3>1
    <3>4. QED
      BY <1>0, <1>2, <3>1, <3>2, <3>3, ReportFileType
  <2>2. CASE StrykerWritesNothing
    BY <1>0, <2>2 DEF StrykerWritesNothing, DispatchInv, ReportAges, Pending
  <2>3. QED
    BY <2>1, <2>2
<1>4. On(reports', {"stryker"}) = {reports'["stryker"]} \ {NoReportFile}
  BY DEF On
<1>5. CASE On(reports', {"stryker"}) = {}
  <2>1. outcome' = Uncounted("tsjs", "unavailable") /\ tool' = "none"
    BY <1>5 DEF StrykerReports, StrykerWritesNothing, StrykerCollected, Ends, Failed, Uncounted
  <2>2. reports' = reports
    <3>1. CASE StrykerReports(run)
      <4>1. reports'["stryker"] = NoReportFile /\ NoReportFile.of = 0
        BY <1>4, <1>5 DEF NoReportFile, ReportFile
      <4>2. reports'["stryker"].of = run
        BY <1>0, <3>1, <1>2, ReportFileType DEF StrykerReports
      <4>3. run # 0
        BY <1>0 DEF DispatchInv, ReportAges, Pending, Reports
      <4>4. QED
        BY <4>1, <4>2, <4>3
    <3>2. CASE StrykerWritesNothing
      BY <3>2 DEF StrykerWritesNothing
    <3>3. QED
      BY <3>1, <3>2
  <2>3. todo' = todo \ {"tsjs"}
    BY <1>0 DEF DispatchInv, ReportAges
  <2>4. QED
    BY <1>0, <1>2, <2>1, <2>2, <2>3, UncountedKeeps DEF Tool
<1>6. CASE On(reports', {"stryker"}) # {}
  <2>1. On(reports', {"stryker"}) = {reports'["stryker"]} /\ reports'["stryker"] \in Reports
    BY <1>0, <1>3, <1>4, <1>6
  <2>2. outcome' = Collect("tsjs", {reports'["stryker"]}, diffed) /\ tool' = "none"
    BY <2>1, <1>6 DEF StrykerReports, StrykerWritesNothing, StrykerCollected, Ends
  <2>3. QED
    BY <1>0, <1>1, <1>2, <1>3, <2>1, <2>2, OneReportKeeps
<1>7. QED
  BY <1>5, <1>6

\* What fails, or finds nothing to mutate, counts nothing.
LEMMA NothingCountedKeeps ==
  ASSUME DispatchInv, TypeOK', UNCHANGED <<vars, todo>>,
         \/ StrykerFails(run) \/ PitFindsNoMutations \/ PitFails \/ GremlinsFindsNothing \/ GremlinsFails
  PROVE  DispatchInv'
<1>0. /\ run' = run /\ diffed \subseteq Source /\ tested \subseteq Mutant
      /\ tool \notin todo
  BY InvTypes DEF vars, DispatchInv, ReportAges
<1>1. CASE StrykerFails(run)
  BY <1>0, <1>1, UncountedKeeps DEF StrykerFails, ToolFails, Ends, Failed, Uncounted, Tool
<1>2. CASE PitFindsNoMutations
  <2>1. tested' \subseteq Mutant
    BY <1>2, TestingType DEF PitFindsNoMutations, TestedNow
  <2>2. QED
    BY <1>0, <1>2, <2>1, UncountedKeeps DEF PitFindsNoMutations, Ends, Exempt, Uncounted, Tool
<1>3. CASE PitFails
  BY <1>0, <1>3, UncountedKeeps DEF PitFails, ToolFails, Ends, Failed, Uncounted, Tool
<1>4. CASE GremlinsFindsNothing
  BY <1>0, <1>4, UncountedKeeps DEF GremlinsFindsNothing, Ends, Exempt, Uncounted, Tool
<1>5. CASE GremlinsFails
  BY <1>0, <1>5, UncountedKeeps DEF GremlinsFails, ToolFails, Ends, Failed, Uncounted, Tool
<1>6. QED
  BY <1>1, <1>2, <1>3, <1>4, <1>5

LEMMA GremlinsReportsKeep ==
  ASSUME DispatchInv, TypeOK', GremlinsReports(run), UNCHANGED <<vars, todo>>
  PROVE  DispatchInv'
<1>1. PICK readable \in BOOLEAN :
        Ends(Collect("go", {ReportFile(run, readable, tested')}, Source))
  BY DEF GremlinsReports
<1>2. tested' \subseteq Mutant /\ IsFiniteSet(tested')
  BY TestingType DEF GremlinsReports, TestedNow
<1>3. DEFINE f == ReportFile(run, readable, tested')
<1>4. f \in Reports /\ f.of = run /\ f.mutants = tested'
  BY <1>2, InvTypes, ReportFileType
<1>5. \A m \in tested' : m.file \in Source
  BY <1>2 DEF Mutant
<1>6. /\ UNCHANGED <<run, late, todo, pc, reports>> /\ tool = "go" /\ diffed' \subseteq Source
      /\ reports' \in [Slot -> Reports] /\ reports'["stryker"].of <= run
  BY InvTypes DEF GremlinsReports, vars, DispatchInv, ReportAges
<1>7. outcome' = Collect("go", {f}, Source) /\ tool' = "none"
  BY <1>1 DEF Ends
<1> HIDE DEF f
<1>8. QED
  BY <1>2, <1>4, <1>5, <1>6, <1>7, OneReportKeeps

\* PIT's reports are of this run in the modules it builds, and of an earlier
\* one only where it does not build.
LEMMA PitReportsKeep ==
  ASSUME DispatchInv, TypeOK', PitReports(run), UNCHANGED <<vars, todo>>
  PROVE  DispatchInv'
<1>0. /\ UNCHANGED <<run, late, todo, pc, diffed>> /\ tool = "java" /\ tool' = "none" /\ run \in Nat
      /\ reports \in [Slot -> Reports] /\ diffed' \subseteq Source
  BY InvTypes DEF PitReports, vars, Ends
<1>1. PICK parts \in [Reactor -> TestedNow], silent \in SUBSET Reactor, torn \in SUBSET Reactor :
        /\ tested' = UNION {parts[a] : a \in Reactor}
        /\ reports' = [s \in Slot |->
                         IF s \in Reactor \ silent THEN ReportFile(run, s \notin torn, parts[s])
                         ELSE Cleaned(reports)[s]]
  BY SMTT(20) DEF PitReports
<1>2. \A a \in Reactor : parts[a] \subseteq Mutant
  BY <1>1, TestingType DEF TestedNow
<1>3. \A a \in Reactor : /\ ReportFile(run, a \notin torn, parts[a]) \in Reports
                         /\ ReportFile(run, a \notin torn, parts[a]).of = run
  BY <1>0, <1>2, ReportFileType
<1>4. /\ reports' \in [Slot -> Reports]
      /\ \A s \in Slot \ Reactor : reports'[s] = reports[s]
      /\ \A s \in Reactor : reports'[s].of = run \/ reports'[s] = NoReportFile
  <2>1. Cleaned(reports) \in [Slot -> Reports] /\ \A s \in Slot \ Reactor : Cleaned(reports)[s] = reports[s]
    BY <1>0, CleanedType
  <2>2. \A s \in Reactor : Cleaned(reports)[s] = NoReportFile
    BY ReportRunnersAssumption DEF Cleaned, Slot
  <2>3. Reactor \subseteq Slot
    BY ReportRunnersAssumption DEF Slot
  <2>4. QED
    BY <1>1, <1>3, <2>1, <2>2, <2>3
<1>5. tested' \subseteq Mutant
  BY <1>1, <1>2
<1>6. /\ OutcomeType(outcome') /\ outcome'.tool = "java"
      /\ outcome'.status = "ran" => \A of \in outcome'.of : \E m \in Module :
                                      reports'[m] # NoReportFile /\ of = reports'[m].of
  <2> DEFINE files == On(reports', Module)
             c == Collect("java", files, Source)
  <2>1. files \in SUBSET Reports /\ \A f \in files : \E m \in Module : f = reports'[m] /\ f # NoReportFile
    BY <1>4, StrykerSlot DEF On
  <2>2. OutcomeType(c)
    <3> HIDE DEF files
    <3>1. QED
      BY <2>1, CollectType
  <2>3. \/ c = Uncounted("java", "unavailable")
        \/ c.tool = "java" /\ c.status = "ran" /\ \A of \in c.of : \E f \in files : of = f.of
    <3> HIDE DEF files
    <3>1. QED
      BY CollectCases
  <2>4. outcome' = Uncounted("java", "unavailable") \/ outcome' = c
    BY DEF PitReports, Ends, Failed, Uncounted
  <2> HIDE DEF files, c
  <2>5. CASE outcome' = Uncounted("java", "unavailable")
    BY <2>5, UncountedType, UncountedFields
  <2>6. CASE outcome' = c /\ c # Uncounted("java", "unavailable")
    BY <2>1, <2>2, <2>3, <2>6
  <2>7. QED
    BY <2>4, <2>5, <2>6
<1>7. DispatchTypeOK'
  BY <1>0, <1>4, <1>5, <1>6, InvTypes, ToolStepType
<1>8. ReportAges'
  <2>1. reports'["stryker"] = reports["stryker"]
    BY <1>4, StrykerSlot
  <2>2. QED
    BY <1>0, <1>6, <2>1, InvTypes DEF DispatchInv, ReportAges, Pending, Tool
<1>9. ReportsOfThisRun'
  <2>1. ASSUME outcome'.status = "ran", NEW of \in outcome'.of, of # run
        PROVE  \E m \in Module \ Reactor : reports'[m].of = of
    BY <1>4, <1>6, <2>1, StrykerSlot
  <2>2. QED
    BY <1>0, <1>6, <2>1 DEF ReportsOfThisRun, OldReportsOnlyWhereLeft
<1>10. NoEscapeeForgotten'
  BY <1>6 DEF NoEscapeeForgotten, EscapeesCount
<1>11. QED
  BY <1>7, <1>8, <1>9, <1>10 DEF DispatchInv

LEMMA StrykerLateKeeps ==
  ASSUME DispatchInv, TypeOK', StrykerLate
  PROVE  DispatchInv'
<1>0. /\ UNCHANGED <<vars, run, pc, todo, tool, diffed, tested, outcome>>
      /\ late # 0 /\ late' = 0 /\ late \in Nat /\ run \in Nat /\ late <= run
      /\ reports \in [Slot -> Reports]
  BY InvTypes DEF StrykerLate, LateReport, vars, DispatchInv, ReportAges
<1>1. PICK mutants \in Testing :
        reports' = [reports EXCEPT !["stryker"] = ReportFile(late, TRUE, mutants)]
  BY DEF StrykerLate, LateReport
<1>2. ReportFile(late, TRUE, mutants) \in Reports /\ ReportFile(late, TRUE, mutants).of = late
  BY <1>0, TestingType, ReportFileType
<1>3. /\ reports' \in [Slot -> Reports] /\ reports'["stryker"].of = late
      /\ \A m \in Module : reports'[m] = reports[m]
  BY <1>0, <1>1, <1>2, StrykerSlot
<1>4. DispatchTypeOK'
  BY <1>0, <1>3, InvTypes, ToolStepType
<1>5. late = run => ~Pending /\ ~(outcome.tool = "tsjs" /\ outcome.status = "ran")
  BY <1>0 DEF DispatchInv, ReportAges
<1>6. ReportAges'
  BY <1>0, <1>3, <1>5 DEF DispatchInv, ReportAges, Pending
<1>7. ReportsOfThisRun'
  BY <1>0, <1>3, <1>5 DEF DispatchInv, ReportsOfThisRun, OldReportsOnlyWhereLeft
<1>8. NoEscapeeForgotten'
  BY <1>0 DEF DispatchInv, NoEscapeeForgotten, EscapeesCount
<1>9. QED
  BY <1>4, <1>6, <1>7, <1>8 DEF DispatchInv

LEMMA DispatchStepKeeps == DispatchInv /\ [DispatchNext]_dispatchVars => DispatchInv'
<1> SUFFICES ASSUME DispatchInv, [DispatchNext]_dispatchVars PROVE DispatchInv'
  OBVIOUS
<1>0. TypeOK' /\ reports \in [Slot -> Reports]
  BY EveryStepIsAPythonView, TypeStep, InvTypes
<1>1. CASE Dispatch
  BY <1>0, <1>1, DispatchKeeps
<1>2. CASE PythonStep
  <2>1. run' = run /\ (tool # "none" => pc' = "idle")
    BY <1>2, InvTypes DEF PythonStep, Step, OrphanEnds, ResetCache, Narrow, MutmutRuns, ExportStats,
                          ReadStats, Finish
  <2>2. QED
    BY <1>0, <1>2, <2>1, UntouchedKeeps DEF PythonStep, reportVars
<1>3. CASE CallRunner
  BY <1>0, <1>3, CallRunnerKeeps
<1>4. CASE RunnerEnds
  BY <1>0, <1>4, StrykerEndsKeep, PitReportsKeep, GremlinsReportsKeep, NothingCountedKeeps
     DEF RunnerEnds, ToolEnds
<1>5. CASE StrykerLate
  BY <1>0, <1>5, StrykerLateKeeps
<1>6. CASE PipelineKilled
  BY <1>0, <1>6, UntouchedKeeps DEF PipelineKilled, Killed, ToolKilled, reportVars
<1>7. CASE AllDone \/ UNCHANGED dispatchVars
  BY <1>0, <1>7, InvTypes, UntouchedKeeps DEF AllDone, Done, dispatchVars, vars, reportVars
<1>8. QED
  BY <1>1, <1>2, <1>3, <1>4, <1>5, <1>6, <1>7 DEF DispatchNext

LEMMA DispatchHolds == DispatchSpec => []DispatchInv
BY DispatchInitially, DispatchStepKeeps, PTL DEF DispatchSpec

\* The types of both parts, and one runner at a time.
THEOREM TypeCorrect == DispatchSpec => []DispatchTypeOK
<1>1. DispatchInv => DispatchTypeOK
  BY DEF DispatchInv
<1>2. QED
  BY <1>1, DispatchHolds, PTL

\* Where the counts of Stryker, PIT and gremlins can come from, over any
\* number of runs (tsjs_runner.py, java_runner.py, go_runner.py).
THEOREM OldReportsConfined == DispatchSpec => []ReportsOfThisRun
<1>1. DispatchInv => ReportsOfThisRun
  BY DEF DispatchInv
<1>2. QED
  BY <1>1, DispatchHolds, PTL

\* No undetected mutant of this run's report goes uncounted by Stryker's or
\* gremlins' runner (_collect_from_report, _UNDETECTED_STATUSES).
THEOREM EscapeesCounted == DispatchSpec => []NoEscapeeForgotten
<1>1. DispatchInv => NoEscapeeForgotten
  BY DEF DispatchInv
<1>2. QED
  BY <1>1, DispatchHolds, PTL
=============================================================================
