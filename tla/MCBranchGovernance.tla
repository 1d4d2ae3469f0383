------------------------- MODULE MCBranchGovernance -------------------------
(* BranchGovernance with three rulesets, one per page of the listing.       *)
EXTENDS BranchGovernance

Config(state, actors) == [state |-> state, actors |-> actors]

MCConfigurations ==
  { Config("gone", << >>), Config("active", << >>), Config("active", <<"always">>),
    Config("active", <<"pull_request">>), Config("disabled", <<"always">>) }

MCRulePages == <<{"deletion"}, {"pull_request", "non_fast_forward"}>>
=============================================================================
