\* Three tokens of two users with the tasks an operator starts by hand.
SPECIFICATION OperatedSpec
CONSTANTS
  u1 = u1
  u2 = u2
  t1 = t1
  t2 = t2
  t3 = t3
  Users = {u1, u2}
  Tokens = {t1, t2, t3}
  Owner <- MCOwner
  Limits <- MCLimits
  Amounts <- MCAmounts
  Spends <- MCSpends
  Overdrafts = {FALSE}
  SpendWindow = 2
  MaxCredit = 3
  LeastUsed <- MCLeastUsed
  LastIssue = 0
  Horizon = 4
  AssignsTokenId = TRUE
  AwareClock = TRUE
INVARIANTS
  WithinAmount
CHECK_DEADLOCK FALSE
