CONSTANTS
  Bank = {"A", "B"}
  User = {"u", "v"}
  Tx = {"t1"}
  Call = {"c1"}
  Payment <- InsideOneBank
  TxOf <- Once
  InitialBalance <- Balances
  HomeBank <- Homes
  MaxIncarnation = 1
  MaxGatewayRuns = 1
  Mortal = {}
  MayGoStale = {}
SPECIFICATION WarmSpec
INVARIANT OnceAndInOrder
CHECK_DEADLOCK FALSE
