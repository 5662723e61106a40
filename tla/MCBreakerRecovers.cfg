\* The same requests against the promise that a half-open breaker tests for recovery.
SPECIFICATION NombaSpec
CONSTANTS
  a1 = a1
  a2 = a2
  b1 = b1
  Sessions = {a1, a2, b1}
  HashSeed <- MCHashSeed
  MaxAttempts = 3
  payout = payout
  listing = listing
  Requests = {payout, listing}
  Idempotent = {payout}
  FailureThreshold = 3
  ResetTimeout = 2
  Window = 4
  Probes = 3
  MaxRetries = 3
PROPERTIES
  Recovers
