SPECIFICATION FairSpec
CONSTANTS
  l1 = l1
  l2 = l2
  c1 = c1
  Legs = {l1}
  CallIds = {c1}
  CallIdOf <- OneLeg
  NoLeg = NoLeg
  NoUsage = NoUsage
  MaxUsage = 1
  Replies = {"known", "orphan"}
  Greeting = TRUE
  Events <- AllEvents
INVARIANTS IndInv Ownership HeaderWithinLog
PROPERTIES NeverCutLive TeardownCompletes GoroutinesStop
CHECK_DEADLOCK FALSE
