CONSTANTS
  FirstRules <- Default
  NewRules <- NoProposal
  AutoRelaxAfter = 5
  MaxRules = 5
  MaxAlarms = 0
  Categories = {files}
  SkipThreshold = 1
  MaxScore = 0
  Purposes = {p1, p2}
  Templates <- FileOrTool
  StartsInTemplate = TRUE
  DormantAfter = 1
  MaxDay = 2
  Events <- SampleEvents
  files = files
  tools = tools
  p1 = p1
  p2 = p2
SPECIFICATION FairSpec
PROPERTIES
  TurnsEnd
  OldSpec
