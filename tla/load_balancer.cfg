CONSTANTS
  Server = {1, 2}
  Measured <- Loads
  Unresponsive = 2
  MaxSweep = 1
  Punctual = {1}
  MaxStarts = 2
  MaxLBRuns = 2
  Client = {"g1", "g2", "person"}
  Tester = {"g1", "g2"}
  MaxRequests = 3
SPECIFICATION SituationFairSpec
INVARIANTS TypeOK PunctualIsListed IndexInList TakesTurns SummaryIsComplete
PROPERTIES LoadTestEnds DeadAreRemoved LivingAreListed
CHECK_DEADLOCK FALSE
