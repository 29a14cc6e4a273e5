\* A reply whose last byte would be a range of its own, and no newline.
SPECIFICATION Spec
CONSTANTS
  Reply <- MCReply
  Size <- MCSize
  Newline = {}
  Good <- MCGood
  First = 4
  Limit = 5
  Slack = 1
  Retries = 3
\* A call ends.
CHECK_DEADLOCK FALSE
INVARIANT RangesMakeUpTotal
