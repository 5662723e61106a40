\* Two sessions over two users: lost updates, waits, deadlocks, crashes; and one
\* session at a time: the step-level service is the atomic ledger.
SPECIFICATION LedgersSpec
CONSTANTS
  Users = {u1, u2}
  Sessions = {s1, s2}
  Amounts = {0, 1}
  Overdrafts = {FALSE}
  MaxPosted = 2
  Loner = {s1}
  MorePosted = 5
CHECK_DEADLOCK FALSE
INVARIANTS
  TypeOK
  NonNegative
  DerivableAlone
PROPERTIES
  OnlyStaleWritesDrift
  CallsEnd
  LedgerAlone
