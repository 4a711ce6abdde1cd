SPECIFICATION Spec
CONSTANTS
  Provider = "openai"
  Greeting = TRUE
  ReconnectRetries = 1
  MaxConns = 3
  MaxRequests = 0
INVARIANT NoPanic
CHECK_DEADLOCK FALSE
