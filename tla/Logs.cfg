\* Four entries of any priority in three rounds, buffers of two entries, and
\* a client that may leave out the old ones and the debug entries.
SPECIFICATION Spec
CONSTANTS
  Capacity = 2
  Usize = 16
  Message = {"hash"}
  Limits = {1, 2}
  LastTime = 3
  LastCount = 4
CHECK_DEADLOCK FALSE
INVARIANTS
  PagesNeverRepeat
  PagesComplete
