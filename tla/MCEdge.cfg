CONSTANTS
  Registrants = {u1, u2}
  Requests = {r1, r2}
  StablePhoneHash = TRUE
  AccountsOpen = TRUE
  SetsDeviceHash = TRUE
  Codes = {k1, k2}
  NoCode = NoCode
  CodeLimit = 2
  e1 = e1
  e2 = e2
  a1 = a1
  a2 = a2
  p1 = p1
  t1 = t1
  t2 = t2
  t3 = t3
  Events = {e1, e2}
  Handlers = {h1, h2}
  PassesTimestamp = TRUE
  Payees = {p1}
  Accounts = {a1, a2}
  Payee <- ThePayees
  Primary = {a1}
  Expected <- TheExpected
  Into <- TheDeposits
  Received <- TheReceived
  Workers = {w1, w2}
  StoresAccounts = TRUE
  FundingMatches = TRUE
  Callers = {c1, c2}
  Lifetimes = {4, 5, 7, 62}
  Margin = 5
  Cap = 55
  Unstated = 60
  Least = 1
  AnswerTime = 1
  Visitors = {v1, v2}
  RequestLimit = 2
  Window = 2
  Users = {p1}
  Amounts = {}
  Overdrafts = {}
  Tokens = {t1, t2, t3}
  Amount <- TheAmounts
  Used <- TheUsed
  Closers = {s1, s2}
SPECIFICATION Spec
CHECK_DEADLOCK FALSE
INVARIANTS
  EdgeTypeOK
  VerifiedUnlessRaced
  OneLoginPerRequest
  AckedIsStored
  CreditsLostOnlyToOverlap
  KeysExpire
  TwiceRefundedOnlyByOverlap
