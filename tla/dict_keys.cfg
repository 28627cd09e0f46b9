CONSTANTS
  KeySizes = {72}
  IntKeys <- MCIntKeys
  BitsKeys <- MCBitsKeys
  AddrKeys <- MCAddrKeys
  Values = {v1, v2}
  DebugAssertions = FALSE
SPECIFICATION Spec
INVARIANT KeysReadBack
