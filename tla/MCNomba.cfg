\* Three concurrent settlements, two of them sharing the advisory lock's key; and two
\* concurrent requests, one of them idempotent.
SPECIFICATION NombaSpec
CONSTANTS
  a1 = a1
  a2 = a2
  b1 = b1
  Sessions = {a1, a2, b1}
  HashSeed <- MCHashSeed
  MaxAttempts = 3
  payout = payout
  listing = listing
  Requests = {payout, listing}
  Idempotent = {payout}
  FailureThreshold = 3
  ResetTimeout = 2
  Window = 4
  Probes = 3
  MaxRetries = 3
INVARIANTS
  NombaTypeOK
  RecordedOnce
  LatestRowDecides
  SettledWasAccepted
  ClosedIsHealthy
PROPERTIES
  OnlyStaleFailuresUnsettle
  CallsEnd
  OpensOnRecent
  AdmitsUnlessSpent
  RequestsEnd
