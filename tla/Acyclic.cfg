SPECIFICATION FairSpec
CONSTANTS
  BufferSize = 24
  Objects <- MCObjects
  SlotMax = 2
  Store <- MCStore
  Writes <- MCWrites
  OdLens = {1, 8}
  Raisable <- MCRaisable
  EventCalls = {"ack", "details"}
  MaxEventCalls = 1
  MaxLosses = 1
INVARIANTS
  TypeOK
  LossDetected
  
PROPERTIES
  ChannelImplemented
  
  ServiceEnds
  
