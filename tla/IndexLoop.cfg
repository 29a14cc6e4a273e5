\* One loop: a block tree with a recoverable and an unrecoverable fork,
\* failing outcalls, traps, stops, restarts and upgrades.
SPECIFICATION Spec
CONSTANTS
  a0 = a0  a1 = a1  a2 = a2  a3 = a3
  b2 = b2  b3 = b3  b4 = b4
  c1 = c1  c2 = c2  c3 = c3  c4 = c4  c5 = c5
  NoBlock = NoBlock
  Block <- MCBlock
  HeightOf <- MCHeightOf
  Prev <- MCPrev
  Chain <- MCChain
  FirstHeight = 0
  Branches <- ABC
  MaxReorgDepth = 3
  Outcalls <- SomeOutcalls
  Loops = {1}
  Subscribers = 2
\* What a start on top of a half indexed block does is checked on its own.
CONSTRAINT Orderly
INVARIANTS
  WindowLinked
  RecordsComplete
  LedgerIsReplay
  HalfBlockIsolated
  OnlyBestChainIndexed
  Inductive
PROPERTIES
  FinalityKept
  HaltsOnlyBelowFloor
  Implements
