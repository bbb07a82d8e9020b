SPECIFICATION Spec
CONSTANTS
  Buses = 3
  Devices = 2
  Cards <- MCCards
INVARIANTS
  TypeOK
  LinesSound
  DevicesListed
  LinesCounted
  SingleOnce
PROPERTY ScanEnds
