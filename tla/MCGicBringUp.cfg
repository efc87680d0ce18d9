\* Both PAL builds: the MADT walk or the DT readers, then the ITS calls.
CONSTANTS
  Builds = {"uefi", "uefi_dt"}
  UefiMadts <- MCUefiMadts
  Platforms <- MCPlatforms
  Garbage <- MCGarbage
  ItsIds = {0, 1, 2}
  DevIds = {d1}
  IntIds = {i1, i2}
  MaxConfigure = 2
  NOT_FOUND = 255
  NULL = NULL
  PmuCompatCount = 11
  PPI_OFFSET = 16
  SPI_OFFSET = 32
  PeJunk = 99
  NONE = NONE
  UninitRd <- MCUninitRd
  WordBase = 16
  GicJunk = 15
SPECIFICATION Spec
INVARIANT TypeOK
INVARIANT WalkWithinDeclaredLength
INVARIANT MsiTargetsRequestedIts
INVARIANT MappedLpisOnListedIts
INVARIANT ItsIndexMatchesHeader
INVARIANT StackCoversEveryPe
INVARIANT DecodedPrefixOfReg
INVARIANT HeaderCountsEntries
INVARIANT MsiFramesAsWritten
INVARIANT CpuInterfacePerPe
PROPERTY Termination
PROPERTY Refines
PROPERTY ReconfigureKeepsTranslators
CHECK_DEADLOCK FALSE
