SPECIFICATION FairSpec
CONSTANTS
  Provider = "deepgram"
  Greeting = FALSE
  ReconnectRetries = 1
  MaxConns = 2
  MaxRequests = 0
INVARIANTS TypeOK OneConnection NoneLeftOpen NoPanic
PROPERTIES CallLives NoZombie
CHECK_DEADLOCK FALSE
