\* Test os_e004: FAIL 03 against a serviced interrupt.
CONSTANTS
  BdfTables <- MCBdfTables
  Bdfs <- MCBdfs
  TimeoutLarge = 3
  ProtocolPresent = TRUE
  RegisterMayFail = TRUE
SPECIFICATION Spec
PROPERTY NoFalseTimeout
CHECK_DEADLOCK FALSE
