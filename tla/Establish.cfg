SPECIFICATION HSpec
CONSTANTS
  Timed = TRUE
  AutoBaudrate = TRUE
  ConfigRate = 0
  Type0 = FALSE
  Validate = FALSE
  WakeRetryLimit = 1
  TDmt = 1
  TRen = 1
  TDwu = 3
  TSd = 4
  TestTimeout = 2
  ResponseTimeout = 1
  MinCycle = 2
  Faults = {"init", "set_mode", "set_baudrate", "flush_rx", "wake_up", "send", "recv_byte"}
  AppCalls = {"restart"}
  ServiceStates = {}
  d1 = d1
  d2 = d2
  DevIds = {d1}
  Pluggable <- AllDevices
  ExpectedId = d1
  DevRate <- MCDevRate
  CksOctets = {"cks"}
  Type0WriteOd = FALSE
  MaxOwed = 1
  Noise = {"garbled", "truncated"}
INVARIANTS
  PhyAgrees
  WakeBudget
PROPERTIES
  EstablishImplemented
  AnsweredAtItsRate
  TestHoldOff
