CONSTANTS
  HasRdrand = TRUE
  RandomValues <- MCRandom
  Categories = {"dev_tooling"}
  Purposes = {"rust"}
  Templates <- MCTemplates
  NewRules <- MCNewRules
  RelaxThreshold = 2
  SkipThreshold = 2
  DormancyTicks = 1
  MaxRules = 6
  MaxAlarms = 2
  MaxScore = 2
  MaxTick = 3
  Events <- MCEvents
SPECIFICATION PolicySpec
INVARIANTS
  SameAnswers
PROPERTIES
  SameDesign
