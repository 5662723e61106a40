\* The same ledgers against the promise of verify_balance_integrity.
SPECIFICATION LedgersSpec
CONSTANTS
  Users = {u1, u2}
  Sessions = {s1, s2}
  Amounts = {0, 1}
  Overdrafts = {FALSE}
  MaxPosted = 2
  Loner = {s1}
  MorePosted = 5
CHECK_DEADLOCK FALSE
INVARIANTS
  MatchesEntriesAlone
