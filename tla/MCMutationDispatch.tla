-------------------------- MODULE MCMutationDispatch --------------------------
(* MutationDispatch with a few diffs, and a few things that testing a file  *)
(* may come to.                                                             *)
EXTENDS MutationDispatch

M(f, s) == [file |-> f, status |-> s]
MCTesting == {{}, {M("x", "killed")}, {M("y", "uncovered")}}
MCDiff == {{"python"}, {"tsjs"}, {"java"}, {"python", "go"}}
=============================================================================
