SPECIFICATION Spec
CONSTANTS
  Timed = TRUE
  AutoBaudrate = FALSE
  ConfigRate = 0
  Type0 = FALSE
  Validate = TRUE
  WakeRetryLimit = 1
  TDmt = 1
  TRen = 1
  TDwu = 3
  TSd = 4
  TestTimeout = 2
  ResponseTimeout = 1
  MinCycle = 2
  Faults = {}
  AppCalls = {}
  ServiceStates = {}
  d1 = d1
  d2 = d2
  DevIds = {d1}
  Pluggable = {}
  ExpectedId = d1
  DevRate <- MCDevRate
  CksOctets = {"cks"}
  Type0WriteOd = FALSE
  MaxOwed = 1
  Noise = {}
INVARIANTS
  RepliesFramed
