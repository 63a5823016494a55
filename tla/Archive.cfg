CONSTANTS
  SectorBytes = 2
  ScratchSize = 8
  ArchiveName = {1, 2}
  ArchiveLength = {1, 3}
  FieldSize = 3
  StrayBytes = {0}
  MaxName = 0
  MaxBoots = 2
SPECIFICATION ArchiveSpec
INVARIANT EndMarked
