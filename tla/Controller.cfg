SPECIFICATION Spec
CONSTANTS
  ClockRange = 8
  MinCycle = 3
  ResponseTimeout = 2
  TestTimeout = 1
  TReady = 2
  TDwu = 2
  TSd = 2
  WakeRetryLimit = 1
  RxRetryLimit = 1
  N = 2
  ModeOf <- MCModeOf
  StartTimes = {4}
  MaxTime = 13
  MaxFaults = 1
  MaxSetups = 2
INVARIANTS
  ControllerTypeOK
  NextTickExact
  TimeoutNotEarly
  CyclesNotHeld
  PortsConsistent
  LineTouchedInSio
PROPERTIES
  PacingKept
