CONSTANTS
  Bank = {"A", "B"}
  User = {"u", "v"}
  Tx = {"t1"}
  Call = {"c1"}
  Payment <- OnePayment
  TxOf <- Once
  InitialBalance <- Balances
  HomeBank <- Homes
  MaxIncarnation = 1
  MaxGatewayRuns = 1
  Mortal = {"u"}
  MayGoStale = {}
SPECIFICATION WarmSpec
INVARIANT AbortedIsRolledBack
CHECK_DEADLOCK FALSE
