SPECIFICATION Spec
CONSTANTS
  Absent = Absent
  Malformed = Malformed
  NoDigest = NoDigest
  Digest = {"d1"}
  Builder = {"sign-client", "actions-runner", "build-job"}
  Repository = {"o/r", "o/r-next"}
  Reason <- MCReason
  Contains <- MCContains
  Issuer = {"github", "gitlab"}
  Ref = {"main"}
  Invocations <- MCInvocations
INVARIANT FaultySlsaEnvelopeFallsBack
