CONSTANTS
  Models <- MCModels
  Layers <- MCLayers
  NumExperts <- MCNumExperts
  Parts <- MCParts
  PartSize <- MCPartSize
  Residents <- MCResidents
  ResidentSize <- MCResidentSize
  ShardOf <- MCShardOf
  Samples = 7
  Commands = 4
  QK41 = 4
  WordCodes = 4
  ALIGN = 4
  CHUNK = 1
  Checkpoints <- MCCheckpoints
  HeaderSizes = {1, 3, 4, 6}
SPECIFICATION Spec
INVARIANTS RepackSound GgufSound
CHECK_DEADLOCK FALSE
