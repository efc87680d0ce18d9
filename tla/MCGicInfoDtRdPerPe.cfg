\* DT reader of platform/pal_uefi_dt: RedistributorPerPe.
CONSTANTS
  Dts <- MCDts
  UninitRd <- MCUninitRd
  WordBase = 16
  JUNK = 15
SPECIFICATION Spec
INVARIANT RedistributorPerPe
CHECK_DEADLOCK FALSE
