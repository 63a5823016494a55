CONSTANTS
  NoEntry = NoEntry
  DiskSize = 8
  Name = {f, g}
  BadName = {bad}
  Slots = 2
  Lengths = {0, 2}
  Handle = {h1, h2}
  ReadsFail = TRUE
SPECIFICATION FilesysSpec
INVARIANT NamesUnique
