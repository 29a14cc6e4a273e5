\* Every transaction of up to two inputs, checked while the node moves
\* freely between two branches, three confirmations being enough.
SPECIFICATION FairSpec
CONSTANTS
  a0 = a0  a1 = a1  a2 = a2  a3 = a3
  b1 = b1  b2 = b2  b3 = b3  b4 = b4
  early = early  late = late  plain = plain
  NoBlock = NoBlock
  Block <- MCBlock
  HeightOf <- MCHeightOf
  Prev <- MCPrev
  Chain <- MCChain
  FirstHeight = 0
  Output = {early, late, plain}
  Mined <- MCMined
  Taproot = {early, late}
  Spending <- MCSpending
  CommitConfirmations = 3
  MaxSeen = 3
CHECK_DEADLOCK FALSE
INVARIANTS
  AnswerIsOfBranch
  AcceptedFromSomeChain
  TrapsOnlyOffBranch
  FailsForACause
PROPERTY Ends
