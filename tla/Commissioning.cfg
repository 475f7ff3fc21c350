SPECIFICATION CFairSpec
CONSTANTS
  Parameters <- MCParameters
  SystemCommand <- MCSystemCommand
  Storage <- MCStorage
  Stores <- MCStores
  Blocks <- MCBlockSet
  Writes <- MCWrites
  Kept <- MCKept
  MaxAppServices = 2
  MaxRefusals = 1
  PdMax = 32
  DirectParameters <- MCDirect
  BlockPages <- MCBlockPages
  Configs <- MCConfigs
INVARIANTS
  VerifyExact
  BlockFramed
  SelectionWorks
  InspectionSound
PROPERTIES
  BlockEnds
