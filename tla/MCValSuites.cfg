\* The exerciser suite with two cards and the handler racing the poll, the
\* peripheral view, and os_c005/os_c012 on two PEs.
CONSTANTS
  BdfTables <- MCBdfTables
  Bdfs <- MCBdfs
  TimeoutLarge = 3
  ProtocolPresent = TRUE
  RegisterMayFail = TRUE
  Infos <- MCInfos
  Instances = {0, 1, 2, 3}
  Garbage = {7}
  MaxCreates = 1
  NULL = NULL
  Pes = {0, 1}
  Pfr0Values <- MCPfr0
  Mmfr0Values <- MCMmfr0
  Dfr0Values <- MCDfr0
SPECIFICATION Spec
INVARIANT TypeOK
INVARIANT PassMeansDelivered
INVARIANT MappingsReleased
INVARIANT ExerciserTableOfScan
INVARIANT GetInfoAnswersTable
INVARIANT VerdictsMatchRegisters
PROPERTY Termination
CHECK_DEADLOCK FALSE
