SPECIFICATION Spec
CONSTANTS
  l1 = l1
  l2 = l2
  c1 = c1
  Legs = {l1, l2}
  CallIds = {c1}
  CallIdOf <- SameCid
  NoLeg = NoLeg
  NoUsage = NoUsage
  MaxUsage = 0
  Replies = {"known"}
  Greeting = FALSE
  Events = {"hangup"}

PROPERTY LedgerSpec
CHECK_DEADLOCK FALSE
