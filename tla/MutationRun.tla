----------------------------- MODULE MutationRun -----------------------------
(***************************************************************************)
(* cli/mutation/python_runner.py: successive mutation-testing runs of one  *)
(* checkout, and what they do to it.  A run deletes mutmut's cache, writes *)
(* a narrowed only_mutate list into the target's own pyproject.toml, has   *)
(* several mutmut subprocesses read it, and writes the old text back.  Any *)
(* subprocess can fail or time out, and the run itself can be killed.      *)
(*                                                                         *)
(* mutmut and the workers it starts are external.                          *)
(***************************************************************************)
EXTENDS Naturals

CONSTANTS
  File,         \* source files of the target repository
  InSource,     \* those under [tool.mutmut] source_paths
  MaxRuns       \* bound on the runs of one checkout

ASSUME MutationRunAssumption ==
  /\ InSource \subseteq File
  /\ MaxRuns \in Nat

\* What only_mutate says: the checked-in glob, or a list of files; "torn" is
\* a file whose write was cut short.
Scope == [kind : {"glob", "list", "torn", "nothing"}, files : SUBSET File]

ScopeOf(kind, files) == [kind |-> kind, files |-> files]

Listing(files) == ScopeOf("list", files)

VARIABLES
  pyproject,  \* what only_mutate says in the file on disk
  original,   \* what was checked in
  editable,   \* can the scope line be rewritten with confidence
  stats,      \* the run whose counts mutmut-cicd-stats.json holds, 0 if none
  orphan,     \* the run whose workers outlived their timeout, 0 if none
  run,        \* number of the current or last run
  pc,
  changed,    \* the changed files of the run, narrowed to those in scope
  saved,      \* original_text, while pyproject.toml is narrowed
  result,     \* the runner's result
  counted,    \* the run whose counts that result holds, 0 if it has none
  killed,     \* was some run killed
  spoilt      \* did this run begin with an old cache, or beside old workers

vars == <<pyproject, original, editable, stats, orphan, run, pc, changed, saved, result,
          counted, killed, spoilt>>

NotSaved == ScopeOf("nothing", {})

Init ==
  /\ original = ScopeOf("glob", {})
  /\ pyproject = original
  /\ editable \in BOOLEAN
  /\ stats = 0 /\ orphan = 0 /\ run = 0
  /\ pc = "idle" /\ changed = {} /\ saved = NotSaved
  /\ result = "none" /\ counted = 0 /\ killed = FALSE /\ spoilt = FALSE

workspace == <<pyproject, original, editable, stats, orphan>>

Return(status, of) == pc' = "idle" /\ result' = status /\ counted' = of

\* run(): nothing left of the diff, nothing of it in scope, or nothing of it
\* inside a function: answered before mutmut is touched.
Exempted(files, touched) == files \cap InSource = {} \/ ~touched

StartRun ==
  /\ pc = "idle" /\ run < MaxRuns
  /\ run' = run + 1
  /\ \E files \in SUBSET File, touched \in BOOLEAN :
       IF files = {} THEN Return("not_configured", 0) /\ changed' = {}
       ELSE IF Exempted(files, touched) THEN Return("exempt", 0) /\ changed' = {}
       ELSE /\ pc' = "reset" /\ changed' = files \cap InSource
            /\ result' = "none" /\ counted' = 0
  /\ UNCHANGED <<workspace, saved, killed, spoilt>>

\* Mistake: the cache of the last run is kept.
ResetCacheSkipped ==
  /\ pc = "reset"
  /\ pc' = "narrow"
  /\ UNCHANGED <<workspace, run, changed, saved, result, counted, killed, spoilt>>

\* rmtree(ignore_errors=True) can leave the cache behind.
ResetCache ==
  /\ pc = "reset"
  /\ stats' \in {0, stats}
  /\ spoilt' = (stats' # 0 \/ orphan # 0)
  /\ pc' = "narrow"
  /\ UNCHANGED <<pyproject, original, editable, orphan, run, changed, saved, result, counted, killed>>

\* _scoped_only_mutate, before its body: a file it cannot rewrite with
\* confidence, or that already says the same, is left alone.
Narrow ==
  /\ pc = "narrow"
  /\ pc' = "mutmut"
  /\ IF editable /\ pyproject.kind # "torn" /\ pyproject # Listing(changed)
       THEN saved' = pyproject /\ pyproject' = Listing(changed)
       ELSE UNCHANGED <<pyproject, saved>>
  /\ UNCHANGED <<original, editable, stats, orphan, run, changed, result, counted, killed, spoilt>>

\* Mistake: the early returns skip the restore.
FinishUnrestored(status, of) ==
  /\ Return(status, of)
  /\ pyproject' = (IF saved = NotSaved \/ status # "ran" THEN pyproject ELSE saved)
  /\ saved' = NotSaved
  /\ UNCHANGED <<original, editable, run, changed, killed, spoilt>>

\* _scoped_only_mutate's finally clause, then the runner's result.
Finish(status, of) ==
  /\ Return(status, of)
  /\ pyproject' = (IF saved = NotSaved THEN pyproject ELSE saved)
  /\ saved' = NotSaved
  /\ UNCHANGED <<original, editable, run, changed, killed, spoilt>>

\* The timeout kills the process that was started, not the workers behind it.
TimesOut == orphan' \in {orphan, run}

\* Mistake: only the first subprocess runs under the narrowed configuration.
MutmutRunsThenRestores ==
  /\ pc = "mutmut"
  /\ pc' = "export"
  /\ pyproject' = (IF saved = NotSaved THEN pyproject ELSE saved)
  /\ saved' = NotSaved
  /\ UNCHANGED <<original, editable, stats, orphan, run, changed, result, counted, killed, spoilt>>

\* Mistake: a timeout is reported with a status of its own.
MutmutRunsTimeout ==
  pc = "mutmut" /\ Finish("timeout", 0) /\ TimesOut /\ UNCHANGED stats

\* `mutmut run`: the mutants were tested; nothing matched the diff's
\* functions; it failed or could not be started; or it timed out.
MutmutRuns ==
  /\ pc = "mutmut"
  /\ \/ /\ pc' = "export"
        /\ UNCHANGED <<pyproject, original, editable, stats, orphan, run, changed, saved, result,
                       counted, killed, spoilt>>
     \/ Finish("exempt", 0) /\ UNCHANGED <<stats, orphan>>
     \/ Finish("unavailable", 0) /\ UNCHANGED <<stats, orphan>>
     \/ Finish("unavailable", 0) /\ TimesOut /\ UNCHANGED stats

\* `mutmut export-cicd-stats` writes the aggregate of the whole cache, or
\* fails with an exit code nobody looks at, or times out.  With workers of
\* an earlier run still writing to the cache the aggregate is theirs too.
ExportStats ==
  /\ pc = "export"
  /\ \/ /\ stats' \in {run} \cup ({orphan} \ {0})
        /\ pc' = "read"
        /\ UNCHANGED <<pyproject, original, editable, orphan, run, changed, saved, result, counted,
                       killed, spoilt>>
     \/ /\ pc' = "read"
        /\ UNCHANGED <<pyproject, original, editable, stats, orphan, run, changed, saved, result,
                       counted, killed, spoilt>>
     \/ Finish("unavailable", 0) /\ TimesOut /\ UNCHANGED stats

\* Mistake: missing statistics are waited for.
ReadStatsWaiting ==
  /\ pc = "read" /\ stats # 0
  /\ Finish("ran", stats)
  /\ UNCHANGED <<stats, orphan>>

\* Missing or unreadable statistics are a failure, never zero counts.
ReadStats ==
  /\ pc = "read"
  /\ IF stats = 0 THEN Finish("unavailable", 0) ELSE Finish("ran", stats)
  /\ UNCHANGED <<stats, orphan>>

\* The workers a timeout left behind finish.
OrphanEnds ==
  /\ orphan # 0
  /\ orphan' = 0
  /\ UNCHANGED <<pyproject, original, editable, stats, run, pc, changed, saved, result, counted, killed, spoilt>>

\* The run is killed (a cancelled job, an out-of-memory kill): no finally
\* clause runs, and a write of pyproject.toml may be cut short.
Killed ==
  /\ pc # "idle"
  /\ pc' = "idle" /\ killed' = TRUE
  /\ saved' = NotSaved
  /\ result' = "none"
  /\ \/ UNCHANGED pyproject
     \/ /\ (pc = "narrow" /\ editable) \/ saved # NotSaved
        /\ pyproject' = ScopeOf("torn", {})
  /\ \/ UNCHANGED orphan
     \/ pc \in {"mutmut", "export"} /\ orphan' = run
  /\ UNCHANGED <<original, editable, stats, run, changed, counted, spoilt>>

Done == pc = "idle" /\ run = MaxRuns /\ UNCHANGED vars

Step == ResetCache \/ Narrow \/ MutmutRuns \/ ExportStats \/ ReadStats

Next == StartRun \/ Step \/ OrphanEnds \/ Killed \/ Done

\* Every subprocess has a timeout, so a run that is not killed goes on.
Spec == Init /\ [][Next]_vars /\ WF_vars(Step)

-----------------------------------------------------------------------------
(* Properties.                                                              *)

TypeOK ==
  /\ pyproject \in Scope /\ original \in Scope
  /\ editable \in BOOLEAN /\ killed \in BOOLEAN /\ spoilt \in BOOLEAN
  /\ stats \in 0..MaxRuns /\ orphan \in 0..MaxRuns /\ run \in 0..MaxRuns
  /\ counted \in 0..MaxRuns
  /\ pc \in {"idle", "reset", "narrow", "mutmut", "export", "read"}
  /\ changed \in SUBSET File
  /\ saved \in Scope
  /\ result \in {"none", "ran", "exempt", "unavailable", "not_configured"}

\* A kill rate is never made of another run's mutants, on the two conditions
\* the code leaves to luck: the old cache could be deleted, and no worker of
\* an earlier run was still at work when it was.
CountsAreOfThisRun == result = "ran" /\ ~spoilt => counted = run

\* The documented promise has no conditions (python_runner.py, "a stale
\* result from a previous, differently-scoped PR/run can never bleed into
\* this run's mutation_score").
NoStaleCounts == result = "ran" => counted = run

\* Unless a run was killed, a finished run leaves only_mutate as it was
\* checked in, whatever its subprocesses did.
ScopeRestored == pc = "idle" /\ ~killed => pyproject = original

\* All the mutmut subprocesses of one run see one configuration: the narrowed
\* one, wherever it can be written ("a config inconsistent with what was
\* actually generated").
OneConfigurationPerRun ==
  pc \in {"mutmut", "export", "read"} /\ editable /\ ~killed =>
    pyproject = Listing(changed)
=============================================================================
