CONSTANTS
  NumMappers = 2
  NumReducers = 2
  Word = {"a", "b"}
  Input <- TwoFiles
  Part <- Apart
  MaxRuns = 2
SPECIFICATION FairSpec
INVARIANT TypeOK
INVARIANT IndexIsExact
INVARIANT CountsHold
INVARIANT FinishedIsComplete
PROPERTY MasterEnds
CHECK_DEADLOCK FALSE
