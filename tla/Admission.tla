----------------------------- MODULE Admission -----------------------------
(***************************************************************************)
(* What a gated release promises, with no word of scores or reasons: each  *)
(* control is settled once, as sound, as excused (there was nothing it     *)
(* could have said) or as a gap; and a change is admitted strictly only    *)
(* when every control is settled and none is a gap.                        *)
(***************************************************************************)
CONSTANT Control

VARIABLES standing, verdict

vars == <<standing, verdict>>

Settled == \A c \in Control : standing[c] # "pending"

Init == standing = [c \in Control |-> "pending"] /\ verdict = "open"

\* One step of a run settles some controls, for good.
Settle ==
  /\ verdict = "open"
  /\ standing' \in [Control -> {"pending", "sound", "excused", "gap"}]
  /\ \A c \in Control : standing[c] # "pending" => standing'[c] = standing[c]
  /\ UNCHANGED verdict

AdmitStrictly ==
  /\ verdict = "open" /\ Settled
  /\ \A c \in Control : standing[c] # "gap"
  /\ verdict' = "strict"
  /\ UNCHANGED standing

\* Without --disallow-degraded only the score decides.
AdmitLeniently == verdict = "open" /\ Settled /\ verdict' = "lenient" /\ UNCHANGED standing

Reject == verdict = "open" /\ verdict' = "rejected" /\ UNCHANGED standing

Next == Settle \/ AdmitStrictly \/ AdmitLeniently \/ Reject

Spec == Init /\ [][Next]_vars
=============================================================================
