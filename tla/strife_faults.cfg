CONSTANTS
  Bank = {"A", "B"}
  User = {"u", "v"}
  Tx = {"t1"}
  Call = {"c1", "c2"}
  Payment <- OnePayment
  TxOf <- Resent
  InitialBalance <- Balances
  HomeBank <- Homes
  MaxIncarnation = 2
  MaxGatewayRuns = 2
  Mortal = {"u"}
  MayGoStale = {"t1"}
SPECIFICATION WarmSpec
INVARIANT TypeOK
INVARIANT OnceAndInOrder
INVARIANT LogIsTrue
INVARIANT BothPrepared
PROPERTY KeepsContract
PROPERTY OutcomeIsKept
CHECK_DEADLOCK FALSE
