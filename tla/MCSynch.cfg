CONSTANTS
  m = m
  i = i
  a = a
  b = b
  s = s
  l = l
  c = c
  NULL = NULL
  Thread = {m, i, a, b}
  Main = m
  Idle = i
  Sem = {s}
  Lock = {l}
  Cond = {c}
  LockOf <- OneLock
  MaxValue = 2
SPECIFICATION Spec
INVARIANTS SynchExact SignalNotLost
PROPERTY ActsAsMonitor
CHECK_DEADLOCK FALSE
