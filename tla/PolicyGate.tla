----------------------------- MODULE PolicyGate -----------------------------
(***************************************************************************)
(* The policy gates of cli/verify.py: what a statement's score, its        *)
(* degraded reasons and its subject digests must satisfy before            *)
(* `lucid-assay verify` passes it.  A score block written by this pipeline *)
(* is well formed, so the malformed-block branches are not reached here.   *)
(***************************************************************************)
EXTENDS Integers

CONSTANT NoDigest   \* --require-digest was not given

\* Mistake: an unmeasured patch is taken for one with nothing to cover.
AllowedDegradedReasonsTooWide ==
  { <<"branch_governance", "platform_unsupported_tier">>,
    <<"patch_coverage", "no_coverable_lines">>,
    <<"patch_coverage", "unavailable">>,
    <<"mutation_testing", "no_coverable_lines">> }

\* The causes --disallow-degraded accepts: each is unavoidable, not a gap.
AllowedDegradedReasons ==
  { <<"branch_governance", "platform_unsupported_tier">>,
    <<"patch_coverage", "no_coverable_lines">>,
    <<"mutation_testing", "no_coverable_lines">> }

\* _evaluate_policy_gates.  `rcs` is [value, reasons]; `gate` is the caller's
\* [minRcs, strict, digest]; the run is degraded when it has a reason.
PolicyViolations(rcs, gate, subjectDigests) ==
  {v \in {"below_min_rcs", "digest_not_attested", "degraded"} :
     \/ v = "below_min_rcs" /\ rcs.value < gate.minRcs
     \/ /\ v = "digest_not_attested"
        /\ gate.digest # NoDigest
        /\ gate.digest \notin subjectDigests
     \/ v = "degraded" /\ gate.strict /\ ~(rcs.reasons \subseteq AllowedDegradedReasons)}
=============================================================================
