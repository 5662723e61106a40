\* The same settlements and tasks against the documented retry of failed settlements.
SPECIFICATION NombaSpec
CONSTANTS
  a1 = a1
  a2 = a2
  b1 = b1
  Sessions = {a1, a2, b1}
  HashSeed <- MCHashSeed
  MaxAttempts = 3
  payout = payout
  listing = listing
  Requests = {payout, listing}
  Idempotent = {payout}
  FailureThreshold = 3
  ResetTimeout = 2
  Window = 4
  Probes = 3
  MaxRetries = 3
PROPERTIES
  FailedRetried
