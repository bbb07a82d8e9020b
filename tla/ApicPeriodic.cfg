SPECIFICATION Spec
CONSTANTS
  Features <- MCFeatures
  Priorities <- MCPriorities
PROPERTY TimerPeriodic
