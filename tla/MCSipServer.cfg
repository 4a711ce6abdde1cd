SPECIFICATION PairSpec
CONSTANTS
  a = a
  b = b
  i1 = i1
  i2 = i2
  NoCall = NoCall
  Calls = {a, b}
  CallIds = {i1, i2}
  Codecs <- TwoCodecs
  NoCodec <- None
  Invites <- SomeInvites
INVARIANTS IndInv GaugeAccounted NoCallAbandoned OverrideIsolated
PROPERTIES SweptCallsEnd CallsLive
CHECK_DEADLOCK FALSE
