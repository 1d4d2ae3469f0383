---------------------------- MODULE ChangedLines ----------------------------
(***************************************************************************)
(* cli/patch_coverage.py: which lines of which files a patch adds, and the *)
(* lookup by which a coverage report, a scan result and a test context are *)
(* matched with a changed file although every tool names files its own     *)
(* way.  A path is the sequence of its components, normalised already.     *)
(***************************************************************************)
EXTENDS Integers, FiniteSets, SequencesExt

CONSTANTS
  Path,  \* the paths git and the tools may name
  Line   \* line numbers

ASSUME PathsAssumption ==
  /\ IsFiniteSet(Path) /\ Path \subseteq Seq(STRING) \ {<< >>}
  /\ IsFiniteSet(Line) /\ Line \subseteq Nat \ {0}

\* One file's section of `git diff --unified=0`.  git quotes the name of a
\* file with a quote, a backslash or a control character in it.
Section ==
  [path : Path, kind : {"text", "deleted", "binary", "quoted"}, added : SUBSET Line]

\* _parse_diff_output: only a section with a plain `+++ b/` header names a
\* file; a deleted, a binary and a quoted one add nothing.
ChangedLines(diff) ==
  LET named == {s \in diff : s.kind = "text"}
  IN  [p \in {s.path : s \in named} |-> UNION {s.added : s \in {t \in named : t.path = p}}]

NoChange == [p \in {} |-> {}]

-----------------------------------------------------------------------------
\* One path is the other with leading components cut off.
Comparable(p, q) == IsSuffix(p, q) \/ IsSuffix(q, p)

Shared(p, q) == IF Len(p) <= Len(q) THEN Len(p) ELSE Len(q)

\* The keys that share the longest tail with the path.
Closest(keys, path) ==
  LET candidates == {k \in keys : Comparable(k, path)}
  IN  {k \in candidates : \A j \in candidates : Shared(j, path) <= Shared(k, path)}

\* Mistake: the lookup by tail is not preceded by one for the path itself.
ResolveByTail(keys, path) ==
  IF Cardinality(Closest(keys, path)) = 1 THEN Closest(keys, path) ELSE {}

\* _lookup_file_coverage, _lookup_modified_lines and _resolve_by_suffix: the
\* key the path settles on, as a set: a tie settles on none.
Resolve(keys, path) ==
  IF path \in keys THEN {path}
  ELSE IF Cardinality(Closest(keys, path)) = 1 THEN Closest(keys, path)
  ELSE {}
=============================================================================
