CONSTANTS
  Bank = {"A", "B"}
  User = {"u", "v"}
  Tx = {"t1", "t2"}
  Call = {"c1", "c2"}
  Payment <- SameSender
  TxOf <- Each
  InitialBalance <- Balances
  HomeBank <- Homes
  MaxIncarnation = 1
  MaxGatewayRuns = 1
  Mortal = {}
  MayGoStale = {}
SPECIFICATION WarmSpec
INVARIANT NoOverdraft
CHECK_DEADLOCK FALSE
