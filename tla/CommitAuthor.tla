----------------------------- MODULE CommitAuthor -----------------------------
(***************************************************************************)
(* inspect_commit_author of cli/parsers/commit_author.py: whose signature  *)
(* stands for the change at the head.  GitHub signs the merges it makes    *)
(* itself ("web-flow"), so a signature found on one of them says nothing   *)
(* of the author: the code walks back through second parents, or, for a    *)
(* squash or rebase, through the pull request GitHub associates with the   *)
(* commit, which it may not have indexed yet.                              *)
(*                                                                         *)
(* One request per step; any request can fail.  The history is external.   *)
(***************************************************************************)
EXTENDS Integers, Sequences

CONSTANTS
  Commit,        \* commit shas
  NoCommit,
  Histories,     \* the histories of the head commit to consider
  MaxHops,       \* _MAX_WEB_FLOW_WALK_BACK_HOPS
  MaxAttempts,   \* _PR_LOOKUP_RETRY_ATTEMPTS
  PerPage        \* per_page of the PR commit listing, which is not paginated

\* A commit: did GitHub make it, its second parent, is its signature valid.
CommitBody ==
  [webFlow : BOOLEAN, second : Commit \cup {NoCommit}, verified : BOOLEAN]

\* A history: the head, every commit, and the commits of the associated PR.
History == [head : Commit, body : [Commit -> CommitBody], pr : Seq(Commit)]

ASSUME CommitAuthorAssumption ==
  /\ NoCommit \notin Commit
  /\ Histories \subseteq History
  /\ MaxHops \in Nat \ {0} /\ MaxAttempts \in Nat \ {0} /\ PerPage \in Nat \ {0}

VARIABLES
  history,
  indexed,    \* has GitHub indexed the head's pull request
  early,      \* was it indexed before the inspection began
  pc,         \* the request about to be made
  current,    \* the commit whose body the walk holds
  source,     \* commit_signature_source_sha: where the walk got to
  target,     \* the commit about to be fetched
  hop,        \* hops made
  attempts,   \* lookups of the associated pull request made
  failed,     \* did a request fail
  verified    \* commit_signature_verified, once determined: "true", "false" or "unknown"

vars == <<history, indexed, early, pc, current, source, target, hop, attempts, failed, verified>>

Body(c) == history.body[c]

\* _web_flow_merge_second_parent
SecondParent(c) == IF Body(c).webFlow THEN Body(c).second ELSE NoCommit

Init ==
  /\ history \in Histories
  /\ indexed \in {FALSE, history.pr # << >>}
  /\ early = indexed
  /\ pc = "commit"
  /\ current = NoCommit /\ source = NoCommit /\ target = history.head
  /\ hop = 0 /\ attempts = 0
  /\ failed = FALSE
  /\ verified = "unknown"

\* GitHub catches up.
GitHubIndexes ==
  /\ ~indexed /\ history.pr # << >> /\ pc # "done"
  /\ indexed' = TRUE
  /\ UNCHANGED <<history, early, pc, current, source, target, hop, attempts, failed, verified>>

\* _report_from_commit_body with the commit the walk settled on.
Credit(c) == pc' = "done" /\ verified' = (IF Body(c).verified THEN "true" ELSE "false")

\* A walk that did not complete credits nothing.
GiveUp == pc' = "done" /\ UNCHANGED verified

\* Mistake: a web-flow commit without a second parent is credited itself.
WalkFromNoSquash(c, h) ==
  IF h = MaxHops THEN GiveUp /\ UNCHANGED target
  ELSE IF SecondParent(c) # NoCommit
    THEN pc' = "parent" /\ target' = SecondParent(c) /\ UNCHANGED verified
  ELSE Credit(c) /\ UNCHANGED target

\* Mistake: one hop fewer than the bound allows.
WalkFromTooShort(c, h) ==
  IF h = MaxHops - 1 THEN GiveUp /\ UNCHANGED target
  ELSE IF SecondParent(c) # NoCommit
    THEN pc' = "parent" /\ target' = SecondParent(c) /\ UNCHANGED verified
  ELSE IF h = 0 /\ Body(c).webFlow
    THEN pc' = "pulls" /\ UNCHANGED <<target, verified>>
  ELSE Credit(c) /\ UNCHANGED target

\* The head of _resolve_signature_source's loop, with the body of c in hand
\* after h hops.
WalkFrom(c, h) ==
  IF h = MaxHops THEN GiveUp /\ UNCHANGED target
  ELSE IF SecondParent(c) # NoCommit
    THEN pc' = "parent" /\ target' = SecondParent(c) /\ UNCHANGED verified
  ELSE IF h = 0 /\ Body(c).webFlow
    THEN pc' = "pulls" /\ UNCHANGED <<target, verified>>
  ELSE Credit(c) /\ UNCHANGED target

FetchHead ==
  /\ pc = "commit"
  /\ current' = target
  /\ WalkFrom(target, 0)
  /\ UNCHANGED <<history, indexed, early, source, hop, attempts, failed>>

FetchParent ==
  /\ pc = "parent"
  /\ current' = target /\ source' = target /\ hop' = hop + 1
  /\ WalkFrom(target, hop + 1)
  /\ UNCHANGED <<history, indexed, early, attempts, failed>>

\* Mistake: the count of lookups starts again instead of running out.
LookUpPullForever ==
  /\ pc = "pulls"
  /\ attempts' = (attempts + 1) % MaxAttempts
  /\ IF indexed THEN pc' = "pr_commits" ELSE UNCHANGED pc
  /\ UNCHANGED <<history, indexed, early, current, source, target, hop, failed, verified>>

\* _fetch_associated_pr_number: an empty list may only mean "not indexed
\* yet", so it alone is asked again, a bounded number of times.
LookUpPull ==
  /\ pc = "pulls"
  /\ attempts' = attempts + 1
  /\ IF indexed THEN pc' = "pr_commits" /\ UNCHANGED verified
     ELSE IF attempts + 1 < MaxAttempts THEN UNCHANGED <<pc, verified>>
     ELSE GiveUp
  /\ UNCHANGED <<history, indexed, early, current, source, target, hop, failed>>

LastListed(pr) == pr[IF Len(pr) < PerPage THEN Len(pr) ELSE PerPage]

\* _fetch_pr_branch_tip_sha: the last entry of the one page it asks for.
ListPullCommits ==
  /\ pc = "pr_commits"
  /\ target' = LastListed(history.pr)
  /\ pc' = "tip"
  /\ UNCHANGED <<history, indexed, early, current, source, hop, attempts, failed, verified>>

FetchTip ==
  /\ pc = "tip"
  /\ current' = target /\ source' = target
  /\ Credit(target)
  /\ UNCHANGED <<history, indexed, early, target, hop, attempts, failed>>

\* Mistake: a failed request credits the commit the walk had reached.
RequestFailsWhereItIs ==
  /\ pc # "done"
  /\ failed' = TRUE
  /\ IF current = NoCommit THEN GiveUp ELSE Credit(current)
  /\ UNCHANGED <<history, indexed, early, current, source, target, hop, attempts>>

\* A transport error, an HTTP error or a malformed body, on any request.
RequestFails ==
  /\ pc # "done"
  /\ failed' = TRUE
  /\ GiveUp
  /\ UNCHANGED <<history, indexed, early, current, source, target, hop, attempts>>

Inspect ==
  \/ FetchHead
  \/ FetchParent
  \/ LookUpPull
  \/ ListPullCommits
  \/ FetchTip
  \/ RequestFails

Done == pc = "done" /\ UNCHANGED vars

Next == Inspect \/ GitHubIndexes \/ Done

\* Every request has a socket timeout and every retry delay is finite.
Spec == Init /\ [][Next]_vars /\ WF_vars(Inspect)

-----------------------------------------------------------------------------
(* Properties.                                                              *)

TypeOK ==
  /\ history \in Histories
  /\ indexed \in BOOLEAN /\ early \in BOOLEAN /\ failed \in BOOLEAN
  /\ pc \in {"commit", "parent", "pulls", "pr_commits", "tip", "done"}
  /\ current \in Commit \cup {NoCommit}
  /\ source \in Commit \cup {NoCommit}
  /\ target \in Commit
  /\ hop \in 0..MaxHops
  /\ attempts \in 0..MaxAttempts
  /\ verified \in {"true", "false", "unknown"}

\* The commit whose signature was reported.
Credited == IF source = NoCommit THEN history.head ELSE source

\* GitHub's own signature on the merge at the head is never reported as the
\* author's: a verdict on a web-flow head always comes from another commit.
HeadWebFlowNeverCredited ==
  verified # "unknown" /\ history.body[history.head].webFlow => source # NoCommit

\* A walk any of whose requests failed, or that ran out of hops or attempts,
\* determines nothing ("an incomplete walk proves nothing either way").
IncompleteWalkDeterminesNothing ==
  /\ failed => verified = "unknown"
  /\ hop = MaxHops => verified = "unknown"

\* path holds the commits on the second-parent walk from the head, by distance.
IsWalk(path, n) ==
  \A i \in 1..n : path[i] = SecondParent(IF i = 1 THEN history.head ELSE path[i - 1])

\* Without a failure, a chain of merges shorter than the bound is always
\* resolved to the commit at its end, and a squash whose pull request was
\* indexed in time to that pull request: nobody's unsigned or signed work
\* goes undetermined because of a race the retries are there for.
ResolvedWithoutFailure ==
  pc = "done" /\ ~failed =>
    /\ \A n \in 1..(MaxHops - 1) : \A path \in [1..n -> Commit] :
         IsWalk(path, n) /\ SecondParent(path[n]) = NoCommit =>
           verified # "unknown" /\ Credited = path[n]
    /\ SecondParent(history.head) = NoCommit /\ Body(history.head).webFlow /\ early =>
         verified # "unknown"

\* The documented promise that the walk ends at a commit whose signature
\* reflects a human's configuration: no web-flow commit is ever credited
\* (commit_author.py, _resolve_signature_source).
NoWebFlowEverCredited == verified = "true" => ~Body(Credited).webFlow
=============================================================================
