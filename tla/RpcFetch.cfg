\* Replies of one to twelve bytes, which may change.
SPECIFICATION FairSpec
CONSTANTS
  Reply <- MCReply
  Size <- MCSize
  Newline <- MCNewline
  Good <- MCGood
  First = 4
  Limit = 5
  Slack = 1
  Retries = 3
CONSTRAINT FewMoves
\* A call ends.
CHECK_DEADLOCK FALSE
INVARIANTS
  RangesAdjoin
  NotTorn
  FailsForACause
PROPERTY Ends
