SPECIFICATION Spec
CONSTANTS
  Irqs <- MCIrqs
  FirmwareMasks <- MCFirmwareMasks
  Hardware <- MCHardware
  FirmwareBytes <- MCFirmwareBytes
  MAX_KEYS = 2
  MAX_FAULTS = 1
  MAX_TICKS = 2
INVARIANTS
  InServiceIsBeingServed
  VerdictIsRight
  ScancodesAreSet1
  RingHoldsKeystrokes
PROPERTIES
  ReachesIdle
  NoByteIsStranded
