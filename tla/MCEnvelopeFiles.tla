-------------------------- MODULE MCEnvelopeFiles --------------------------
(* EnvelopeFiles with two companion statements next to the score.            *)
EXTENDS EnvelopeFiles

MCCompanions == <<"slsa", "sbom">>
=============================================================================
