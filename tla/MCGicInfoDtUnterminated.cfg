\* DT reader of platform/pal_uefi_dt: EndOfDataWritten.
CONSTANTS
  Dts <- MCDts
  UninitRd <- MCUninitRd
  WordBase = 16
  JUNK = 15
SPECIFICATION Spec
INVARIANT EndOfDataWritten
CHECK_DEADLOCK FALSE
