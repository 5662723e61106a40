\* Three tokens of two users through provisioning, spending, revocation, expiry.
SPECIFICATION Spec
CONSTANTS
  u1 = u1
  u2 = u2
  t1 = t1
  t2 = t2
  t3 = t3
  Users = {u1, u2}
  Tokens = {t1, t2, t3}
  Owner <- MCOwner
  Limits <- MCLimits
  Amounts <- MCAmounts
  Spends <- MCSpends
  Overdrafts = {FALSE}
  SpendWindow = 2
  MaxCredit = 2
  LeastUsed <- MCLeastUsed
  LastIssue = 0
  Horizon = 4
  AssignsTokenId = TRUE
  AwareClock = TRUE
INVARIANTS
  TypeOK
  WithinAmount
  LockedAccountsForTokens
PROPERTIES
  ClosedIsFinal
  FundsReturn
CHECK_DEADLOCK FALSE
