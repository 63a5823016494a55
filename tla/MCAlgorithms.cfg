CONSTANTS
  MaxOthers = 2
  NavItems = {1, 4, 7}
  Elem = {1, 2, 3, 4}
  Key <- ListKey
  HashElem = {1, 2, 3, 4, 5, 6, 7, 8, 9}
  HashKey <- TableKey
  HashOf <- TableHash
  BEST_ELEMS_PER_BUCKET = 1
  FEWEST_BUCKETS = 2
  ELEM_BITS = 3
  bit_cnt = 5
  SortKeys = {1, 2, 3}
  MaxArray = 6
  MaxString = 5
  IntBits = 8
  HalfBits = 4
  ROW_CNT = 2
  COL_CNT = 3
  TabStop = 2
  Glyph = {"a"}
  MaxChars = 7
  KbdRoom = 1
  BLOCK_SECTOR_SIZE = 2
  DataByte = {0, 1}
  FileLength = 5
  FirstSector = 1
  DataDisk = 5
  MaxRequest = 5
  SectorBytes = 2
  ScratchSize = 6
  ArchiveName = {1, 2}
  ArchiveLength = {1, 3}
  FieldSize = 3
  StrayBytes = {0, 1}
  MaxName = 5
  MaxBoots = 2
  PGSIZE = 4
  PHYS_BASE = 24
  WordSize = 32
  ImageLength = 9
  UserPages = 4
  Executables <- Exes
  SectorWord = 8
  RawSize = 5
  DiskImages <- Images
  MaxCalls = 4
  MaxAccesses = 3
  MemSize = 6
  Letter = {1, 2}
  Delimiters <- DelimiterSets
  OptionWord <- OptionWords
  PlainWord <- PlainWords
  Line <- Lines
  WordLen = 2
  LOADER_ARGS_LEN = 8
  BlockName = {"hdb1"}
SPECIFICATION Spec
INVARIANTS MCShortestStep MCListsExact MCHashExact MCLibraryExact MCTerminalExact
           MCFileDataExact MCArchiveExact MCLoadExact MCPartitionsExact MCCommandLineExact
CHECK_DEADLOCK FALSE
