CONSTANTS
  NULL = NULL
  Thread = {m, i, r, s}
  Main = m
  Idle = i
  Writers = {m}
  Readers = {r, s}
  INTQ_BUFSIZE = 3
  MaxBytes = 2
SPECIFICATION Spec
INVARIANT NoPanic
CHECK_DEADLOCK FALSE
