CONSTANTS
  Bank = {"A", "B"}
  User = {"u", "v"}
  Tx = {"t1"}
  Call = {"c1"}
  Payment <- OnePayment
  TxOf <- Once
  InitialBalance <- Balances
  HomeBank <- Homes
  MaxIncarnation = 2
  MaxGatewayRuns = 2
  Mortal = {"u"}
  MayGoStale = {"t1"}
SPECIFICATION WarmFairSpec
PROPERTY EveryPaymentEnds
PROPERTY PendingDrains
CHECK_DEADLOCK FALSE
