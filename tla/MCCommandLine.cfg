CONSTANTS
  OptionWord <- SeedOptions
  PlainWord <- Actions
  Line <- ShortLines
  WordLen = 2
  LOADER_ARGS_LEN = 8
  BlockName = {"hdb1"}
SPECIFICATION Spec
INVARIANT SeedKept
CHECK_DEADLOCK FALSE
