CONSTANTS
  Threads = {t1, t2}
  Ids = {1, 2}
  Categories <- MCCategories
  Words <- MCWords
  LogWords <- MCLogWords
  Triggers = {firstStart}
  Queries <- MCQueries
  Importances = {6}
  Decay <- MCDecay
  limit = 1
  DebugAssertions = TRUE
  CountMax = 1
  MaxDay = 1
  MaxMade = 2
  MaxWrites = 3
  MaxCalls = 2
  MaxSearches = 1
SYMMETRY Sym
SPECIFICATION Spec
INVARIANTS
  FlushedMemoirsStand
  SearchFinds
  UsedFirst
PROPERTIES
  OnlyStaleCopiesUndo
