SPECIFICATION FairSpec
CONSTANTS
  Provider = "openai"
  Greeting = TRUE
  ReconnectRetries = 1
  MaxConns = 2
  MaxRequests = 2
INVARIANTS NoneLeftOpen FirstTransfer
PROPERTY CallLives
CHECK_DEADLOCK FALSE
