\* One loop and one failing outcall.
SPECIFICATION Spec
CONSTANTS
  a0 = a0  a1 = a1  a2 = a2  a3 = a3
  b2 = b2  b3 = b3  b4 = b4
  c1 = c1  c2 = c2  c3 = c3  c4 = c4  c5 = c5
  NoBlock = NoBlock
  Block <- MCBlock
  HeightOf <- MCHeightOf
  Prev <- MCPrev
  Chain <- MCChain
  FirstHeight = 0
  Branches <- AB
  MaxReorgDepth = 3
  Outcalls <- SomeOutcalls
  Loops = {1}
  Subscribers = 1
PROPERTY OutcallFailureRetried
