SPECIFICATION AllSpec
CONSTANTS
  Zones <- MCZones
  DirTrack = 2
  Chunk = 4
  PerSector = 2
  NameLen = 2
  Plain = {"A", "B", "C"}
  FatPerBlock = 8
  RootPerBlock = 2
  RootEntries = 2
  MinClusters = 10
  MaxClusters = 60
  FileSectors16 = 13
  HookLBA = 1
  HookFirst = 2
  HookNext = 3
  HookMax = 6
  NameChars = 2
  ExtChars = 3
  Programs <- MCPrograms
  MaxPrograms = 5
  CardFiles <- MCCardFiles
  OtherImage <- MCOther
  OddFile <- MCOdd
  MaxFiles = 2
  Geos16 <- MCGeos16
  Geos32 <- MCGeos32
  RawSizes = {12, 13, 16}
  Hooks <- MCHooks
  KeptChars = {"A", "B", "C", "D", "6", "4", "T", "X"}
  PageSize = 4
  LowLoad = 2
  RamFloor = 16
  VicBitmap = 48
  WindowLo = 80
  WindowHi = 104
  PlayerROM = 120
  RomPayloadMax = 20
  RomSize = 24
  BasicLoad = 4
  StubEstimate = 2
  CodeSize <- MCCodeSize
  PlayerReserve = 4
  Overrides <- MCOverrides
  RomBanks <- MCRomBanks
  TuneList <- MCTunes
  MaxTunes = 3
  Alnum = {"A", "B", "C", "a", "b", "c"}
  Lower <- MCLower
  Curated <- MCCurated
  WrapOptions <- MCWrapOptions
  C64Options <- MCC64Options
  FilesPerDisk = 3
  UsableBlocks = 10
  BootInputs <- MCBootInputs
  EhBasicParts <- MCEhBasicParts
  LoaderFiles <- MCLoaderFiles
  LoaderOptions <- MCLoaderOptions
  Kernals <- MCKernals
INVARIANTS
  DiskReadsBack
  CardsServe
  PlansPlaceProgram
  EveryTunePlays
  ShelfComplete
  BootIsUpload
  SparseLoads
  KernalKept
CHECK_DEADLOCK FALSE
