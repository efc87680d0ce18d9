\* Test p060 on one or two ECAM regions of a segment: does it ever report
\* FAIL 02 on a platform whose functions are all enumerated?
CONSTANTS
  Platforms <- MCPlatforms
  Fns <- MCFns
  MaxBus <- MCMaxBus
SPECIFICATION Spec
INVARIANT NoFail02OnConformingPlatform
CHECK_DEADLOCK FALSE
