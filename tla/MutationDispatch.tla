--------------------------- MODULE MutationDispatch ---------------------------
(***************************************************************************)
(* run_mutation_testing of cli/mutation: the runners of the languages a     *)
(* diff touches are called one after the other, run after run, on one       *)
(* checkout.  They share nothing but the checkout, and no two of them the   *)
(* same file of it, so Python's is called first here.                       *)
(***************************************************************************)
EXTENDS MutationRun, ReportRunners

CONSTANT Diff  \* what diffs touch: sets of languages

ASSUME MutationDispatchAssumption == Diff \subseteq SUBSET ({"python"} \cup Tool)

VARIABLE todo  \* the runners still to be called in this run

dispatchVars == <<vars, reportVars, todo>>

DispatchInit == Init /\ RunnersInit /\ todo = {}

\* A new run begins with its diff split by language.
Dispatch ==
  /\ todo = {} /\ tool = "none"
  /\ StartRun
  /\ \E languages \in Diff :
       /\ "python" \notin languages => result' = "not_configured"
       /\ todo' = languages \ {"python"}
  /\ diffed' = {} /\ tested' = {} /\ outcome' = NoOutcome
  /\ UNCHANGED <<reports, late, tool>>

\* A step of the Python runner.
PythonStep == (Step \/ OrphanEnds) /\ UNCHANGED <<reportVars, todo>>

\* The next runner is called, with the files of its language that changed.
CallRunner ==
  /\ pc = "idle"
  /\ \E t \in todo, files \in SUBSET Source, configured, scoped \in BOOLEAN :
       StartTool(t, files, configured, scoped) /\ todo' = todo \ {t}
  /\ UNCHANGED vars

RunnerEnds == ToolEnds(run) /\ UNCHANGED <<vars, todo>>

StrykerLate == LateReport /\ UNCHANGED <<vars, todo>>

\* The pipeline is killed: with a Python step, or with a tool.
PipelineKilled ==
  \/ Killed /\ todo' = {} /\ UNCHANGED reportVars
  \/ ToolKilled /\ todo' = {} /\ killed' = TRUE
     /\ UNCHANGED <<pyproject, original, editable, stats, orphan, run, pc, changed, saved, result,
                    counted, spoilt>>

AllDone == Done /\ todo = {} /\ tool = "none" /\ UNCHANGED <<reportVars, todo>>

DispatchNext ==
  Dispatch \/ PythonStep \/ CallRunner \/ RunnerEnds \/ StrykerLate \/ PipelineKilled \/ AllDone

\* Every subprocess has a timeout, and nothing waits between two runners.
DispatchSpec ==
  DispatchInit /\ [][DispatchNext]_dispatchVars
    /\ WF_dispatchVars(Step /\ UNCHANGED <<reportVars, todo>>)
    /\ WF_dispatchVars(CallRunner \/ RunnerEnds)

-----------------------------------------------------------------------------
(* Properties.                                                              *)

\* The types of both parts; a runner is called only when the one before it
\* is done.
DispatchTypeOK == TypeOK /\ RunnersTypeOK /\ todo \subseteq Tool /\ (tool # "none" => pc = "idle")

\* The counts of the three report-reading runners, as OldReportsOnlyWhereLeft
\* has them, whichever runs went before and however they ended.
ReportsOfThisRun == OldReportsOnlyWhereLeft(run)

\* Undetected mutants are counted, as EscapeesCount has it, in every run.
NoEscapeeForgotten == EscapeesCount(run)

\* Every run comes to its end.
DispatchEnds == pc # "idle" \/ tool # "none" \/ todo # {} ~> pc = "idle" /\ tool = "none" /\ todo = {}
=============================================================================
