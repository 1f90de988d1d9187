CONSTANTS
  Bank = {"A", "B"}
  User = {"u", "v", "w"}
  Tx = {"t1", "t2", "t3"}
  Call = {"c1", "c2", "c3"}
  Payment <- ThreePayments
  TxOf <- EachOfThree
  InitialBalance <- Balances
  HomeBank <- AllHomes
  MaxIncarnation = 1
  MaxGatewayRuns = 1
  Mortal = {"u"}
  MayGoStale = {"t1"}
SPECIFICATION WarmSpec
INVARIANT UndisturbedIsAtomic
INVARIANT BooksBalanceInTurn
PROPERTY OutcomeIsKept
CHECK_DEADLOCK FALSE
