CONSTANTS
  N = 5
  T = 2
SPECIFICATION LateSpec
INVARIANT TypeOK
INVARIANT HonestOrderObeyed
INVARIANT Agreement
CHECK_DEADLOCK FALSE
PROPERTY VotesEnd
