SPECIFICATION Spec
CONSTANTS
  Timed = FALSE
  AutoBaudrate = TRUE
  ConfigRate = 0
  Type0 = TRUE
  Validate = FALSE
  WakeRetryLimit = 1
  TDmt = 1
  TRen = 1
  TDwu = 3
  TSd = 4
  TestTimeout = 2
  ResponseTimeout = 1
  MinCycle = 2
  Faults = {}
  AppCalls = {"restart", "isdu", "event"}
  ServiceStates = {"PREOPERATE", "OPERATE"}
  d1 = d1
  d2 = d2
  DevIds = {d1}
  Pluggable <- AllDevices
  ExpectedId = d1
  DevRate <- MCDevRate
  CksOctets = {"cks"}
  Type0WriteOd = FALSE
  MaxOwed = 1
  Noise = {"garbled", "truncated"}
INVARIANTS
  TypeOK
  PhyAgrees
  ErrorOnlyFromPhy
