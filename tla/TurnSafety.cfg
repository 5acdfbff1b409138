CONSTANTS
  FirstRules <- RansomRule
  NewRules <- Proposed
  AutoRelaxAfter = 2
  MaxRules = 2
  MaxAlarms = 2
  Categories = {files, tools}
  SkipThreshold = 2
  MaxScore = 2
  Purposes = {p1}
  Templates <- FilesOrTools
  StartsInTemplate = FALSE
  DormantAfter = 1
  MaxDay = 0
  Events <- SampleEvents
  files = files
  tools = tools
  p1 = p1
SPECIFICATION Spec
SYMMETRY CategorySymmetry
INVARIANTS
  OnlyExpandedTurnsGrant
  SanctuaryStands
PROPERTIES
  GrowthRespectsGuardian
  GrowthNeedsTrust
