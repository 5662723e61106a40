CONSTANTS
  Devices = {d1}
  Prints = {f1}
  Checks = {s1, s2}
  Days <- TheDays
  SettlementFindings <- TheFindings
  SendsPayload = TRUE
  SetsPrintHash = TRUE
  TokenLimit = 2
  SignalLimit = 1
SPECIFICATION CountedSpec
INVARIANT FailuresAreListed
