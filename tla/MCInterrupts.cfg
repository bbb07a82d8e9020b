SPECIFICATION Spec
CONSTANTS
  Drivers <- MCDrivers
  Faults <- MCFaults
  MaxFaults = 1
INVARIANTS
  TypeOK
  InServiceClean
  IrqOnlyWhenReady
  StackBounded
  ReturnAddressOnTop
  NoUnhandledIrq
  NoLostInterrupt
  NoNullEoi
PROPERTY KeyboardServed
