CONSTANTS
  Models <- MCModels
  Experiments <- MCExperiments
  NExperiments = 2
  ConfigLayers <- NoLayers
  ModelFiles <- MCModelFiles
  Texts <- MCTexts
  Outputs <- MCOutputs
  NotJson = NotJson
  Garbled = Garbled
  PipeSize = 1
  MaxChunks = 3
  Nothing = Nothing
SPECIFICATION FairSpec
CHECK_DEADLOCK FALSE
INVARIANTS
  CountsAgree
  RowsHaveRawText
  ArgumentsArrive
PROPERTIES
  EndsUnlessJammed
