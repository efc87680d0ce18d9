\* DT reader of platform/pal_uefi_dt: CpuInterfacesPerPe.
CONSTANTS
  Dts <- MCDts
  UninitRd <- MCUninitRd
  WordBase = 16
  JUNK = 15
SPECIFICATION Spec
INVARIANT CpuInterfacesPerPe
CHECK_DEADLOCK FALSE
