CONSTANTS
  NULL = NULL
  Thread = {m, i, r}
  Main = m
  Idle = i
  Writers = {m}
  Readers = {r}
  INTQ_BUFSIZE = 3
  MaxBytes = 4
SPECIFICATION FairSpec
INVARIANTS SerialExact NoMissedSignal
PROPERTIES OutputReachesLine ThreadsServed
CHECK_DEADLOCK FALSE
