CONSTANTS
  Upper <- MCUpper
  Purposes = {p1, p2, p3}
  Wanted <- MCWanted
  FirstPort = 5
  LastPort = 6
  MaxHeld = 2
  MaxCalls = 2
  Busy <- MCBusy
  Answers <- MCAnswers
  Nothing = Nothing
SYMMETRY Sym
SPECIFICATION Spec
INVARIANTS
  SharedOnlyByRace
  IsolatedFirst
PROPERTIES
  LosesByVerdict
