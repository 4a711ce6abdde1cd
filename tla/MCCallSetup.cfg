SPECIFICATION Spec
CONSTANTS
  a = a
  b = b
  serverKey = serverKey
  callerKey = callerKey
  NoKey = NoKey
  m1 = m1
  m2 = m2
  NoModel = NoModel
  p1 = p1
  p2 = p2
  sales = sales
  Calls <- TwoCalls
  Keys <- TwoKeys
  Models <- TwoModels
  Prompts <- TwoPrompts
  Names = {sales}
  Mids <- SomeMids
  Config <- ServerConfig
  Invites <- SomeInvites
  Statuses <- SomeStatuses
INVARIANTS OneKey OwnSession RefusalTellsWhose OfferIdiomatic AnswerSymmetric
CHECK_DEADLOCK FALSE
