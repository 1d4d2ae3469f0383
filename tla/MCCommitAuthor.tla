--------------------------- MODULE MCCommitAuthor ---------------------------
(* CommitAuthor over the histories of a head that a merge button, a squash  *)
(* button or a direct push leaves behind.                                   *)
EXTENDS CommitAuthor

Human(signed) == [webFlow |-> FALSE, second |-> NoCommit, verified |-> signed]
MergeOf(second) == [webFlow |-> TRUE, second |-> second, verified |-> TRUE]
Squash == [webFlow |-> TRUE, second |-> NoCommit, verified |-> TRUE]

\* The commits named in `bodies`; every other commit is an unsigned human one.
Of(head, bodies, pr) ==
  [head |-> head, pr |-> pr,
   body |-> [c \in Commit |-> IF c \in DOMAIN bodies THEN bodies[c] ELSE Human(FALSE)]]

DirectPush == {Of("c1", [c1 |-> Human(v)], << >>) : v \in BOOLEAN}

\* A chain of one to five merges made by GitHub, over a human commit.
MergeChain ==
  {Of("c1", [c1 |-> MergeOf("c2"), c2 |-> Human(v)], <<"c2">>) : v \in BOOLEAN}
  \cup
  {Of("c1", [c1 |-> MergeOf("c2"), c2 |-> MergeOf("c3"), c3 |-> Human(v)], <<"c3">>) : v \in BOOLEAN}
  \cup
  {Of("c1", [c1 |-> MergeOf("c2"), c2 |-> MergeOf("c3"), c3 |-> MergeOf("c4"), c4 |-> Human(v)],
      <<"c4">>) : v \in BOOLEAN}

\* A squash of a pull request of one to three commits, or of none on record.
SquashOf == {Of("c1", [c1 |-> Squash, c2 |-> Human(TRUE)], pr) :
               pr \in {<< >>, <<"c2">>, <<"c3", "c2">>, <<"c4", "c3", "c2">>}}

\* A pull request whose branch was last brought up to date by GitHub.
UpdatedBranch ==
  {Of("c1", [c1 |-> Squash, c2 |-> MergeOf("c3"), c3 |-> Human(v)], <<"c4", "c2">>) : v \in BOOLEAN}
  \cup {Of("c1", [c1 |-> MergeOf("c2"), c2 |-> Squash], <<"c2">>)}

MCHistories == DirectPush \cup MergeChain \cup SquashOf \cup UpdatedBranch
=============================================================================
