SPECIFICATION FairSpec
CONSTANTS
  MaxMessages = 1
  Calls = {c1}
  TimeoutsConfigured = TRUE
INVARIANT Inv
PROPERTY NotRevived TypingEnds AnswerShown
CHECK_DEADLOCK FALSE
