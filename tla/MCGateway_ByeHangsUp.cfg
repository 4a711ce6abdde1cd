SPECIFICATION Spec
CONSTANTS
  l1 = l1
  l2 = l2
  c1 = c1
  Legs = {l1}
  CallIds = {c1}
  CallIdOf <- OneLeg
  NoLeg = NoLeg
  NoUsage = NoUsage
  MaxUsage = 1
  Replies = {"known"}
  Greeting = TRUE
  Events = {"usage", "speech", "hangup", "transfer"}
INVARIANT ByeHangsUp
CHECK_DEADLOCK FALSE
