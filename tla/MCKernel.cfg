CONSTANTS
  tm = tm
  ti = ti
  ta = ta
  tb = tb
  Thread = {tm, ti, ta, tb}
  Main = tm
  Idle = ti
  TIME_SLICE = 2
  Durations = {0, 2}
  MaxTicks = 4
  MaxTid = 4
  INT64_MAX = 100
  t1 = t1
  t2 = t2
  d16 = d16
  NULL = NULL
  Caller = {t1, t2}
  kernel_pages = 3
  user_pages = 1
  Desc = {d16}
  blocks_per_arena <- TwoBlocks
  BigSizes = {2}
  PageSizes = {1}
  Proc = {"p1", "p2"}
  Paged = {"p1"}
  KernelPages = 6
  UserFrames = {1, 2}
  UPage = {1, 3}
  LoadList <- Pages2
  MaxHeld = 1
  IntrThread = {"t1", "t2"}
  ExtVec = {32, 46}
  IntVec = {14}
  MaxFrames = 2
  Writer = {"w1", "w2"}
  Length = 2
  MaxPrints = 3
  MaxNested = 2
  MaxNoise = 1
  IdeThread = {"t1", "t2"}
  DiskSector = {0}
  DiskData = {0, 1}
  DiskDiagnosis <- Diagnoses
  MaxCapacity = 5
  MaxStrays = 1
  f = f
  g = g
  bad = bad
  NoEntry = NoEntry
  DiskSize = 8
  Name = {f, g}
  BadName = {bad}
  Slots = 2
  Lengths = {0, 2}
  Handle = {t1, t2}
  ReadsFail = FALSE
SPECIFICATION Spec
INVARIANTS MCElemExclusive MCWakeupTickExact MCNoIdleWhileReady MCNoOverlap MCPagesAccounted
           MCFreeListExact MCTlbCoherent MCFramesExact MCIntrExact MCConsoleExact MCIdeDataExact
           MCIdeCompletes MCNoSharedSectors MCCrashSafe MCSectorsAccounted
PROPERTY MCWakeupOnTime
SYMMETRY Alike
