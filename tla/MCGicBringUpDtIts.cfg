\* pal_uefi_dt: does the first ITS configure find the translators the
\* table builder counted, on an MADT and on a device tree?
CONSTANTS
  Builds = {"uefi_dt"}
  UefiMadts <- MCUefiMadts
  Platforms <- MCPlatforms
  Garbage <- MCGarbage
  ItsIds = {0, 1, 2}
  DevIds = {d1}
  IntIds = {i1, i2}
  MaxConfigure = 2
  NOT_FOUND = 255
  NULL = NULL
  PmuCompatCount = 11
  PPI_OFFSET = 16
  SPI_OFFSET = 32
  PeJunk = 99
  NONE = NONE
  UninitRd <- MCUninitRd
  WordBase = 16
  GicJunk = 15
SPECIFICATION Spec
PROPERTY TranslatorsFoundAsCounted
CHECK_DEADLOCK FALSE
