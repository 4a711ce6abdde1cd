SPECIFICATION Spec
CONSTANTS
  a = a
  b = b
  i1 = i1
  i2 = i2
  NoCall = NoCall
  Calls = {a, b}
  CallIds = {i1, i2}
  Codecs <- TwoCodecs
  NoCodec <- None
  Invites <- PlainInvites
INVARIANT SameCodec
CHECK_DEADLOCK FALSE
