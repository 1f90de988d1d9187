CONSTANTS
  Client = {"c1", "c2"}
  User = {"u", "v"}
  Payment = {"p1", "p2"}
  Login <- OfEach
  Sender <- From1And2
  MaxPollers <- TwoAndOne
  MaxOutages = 1
  MaxLines = 2
SPECIFICATION EachOrAloneFairSpec
INVARIANTS TypeOK NothingIsLost
PROPERTY PaymentsAreAnswered
CHECK_DEADLOCK FALSE
