CONSTANTS
  Verifiers = {v1, v2}
  RowLimit = 1
  Devices = {d1}
  Prints = {f1}
  Checks = {s1, s2}
  Days <- TheDays
  SettlementFindings <- TheFindings
  SendsPayload = TRUE
  SetsPrintHash = TRUE
  TokenLimit = 2
  SignalLimit = 1
SPECIFICATION Spec
INVARIANTS GateTypeOK EligibleWasConfirmed AtMostOneLateToken EvidenceComesWithTokens
PROPERTY OffendersAreListed
