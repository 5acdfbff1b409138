CONSTANTS
  Memories = {"a", "b", "c"}
  Estimate <- MCEstimate
  Size <- MCSize
  HitLimit = 2
  MaxContext = 5
  Requests <- MCRequests
  MaxRequests = 2
SPECIFICATION FairSpec
INVARIANTS
  AnswersAccounted
  FailuresAccounted
  OnlyAdoptedStrengthened
PROPERTIES
  RequestsEnd
