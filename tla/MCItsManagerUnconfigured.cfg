\* ITS manager of platform/pal_uefi: requests after one configure call.
CONSTANTS
  Platform = "uefi"
  Tables <- MCTables
  ItsIds = {0, 1, 2}
  DevIds = {d1}
  IntIds = {i1, i2}
  MaxConfigure = 1
  NOT_FOUND = 255
  NULL = NULL
SPECIFICATION Spec
PROPERTY MsiOnlyWhenConfigured
CHECK_DEADLOCK FALSE
