\* PMU gsivs of a tree with two PMU nodes.
CONSTANTS
  Sources <- MCSources
  PmuCompatCount = 11
  PPI_OFFSET = 16
  SPI_OFFSET = 32
  JUNK = 99
  NONE = NONE
  NULL = NULL
SPECIFICATION Spec
CHECK_DEADLOCK FALSE
INVARIANT PmuGsivInCpuOrder
