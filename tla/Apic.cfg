SPECIFICATION Spec
CONSTANTS
  Features <- MCFeatures
  Priorities <- MCPriorities
INVARIANTS
  TypeOK
  ServiceClean
  EoiMapped
  TimerConfigured
PROPERTIES
  TimerServed
  ShotKept
  FallbackServed
