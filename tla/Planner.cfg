SPECIFICATION Spec
CONSTANTS
  Records <- MCRecords
  Cases <- MCCases
  Pricing <- MCPricing
  Horizon = 2
  MaxLevel = 3
  None = None
  Unreadable = Unreadable
INVARIANTS
  TypeOK
  DeadIsCandidateOrCounted
  ArrivalOrderIrrelevant
  RescuersFirst
  CutIsTight
  LeftOutShows
  CurveReadsBack
  QuadkeysReadAlike
CHECK_DEADLOCK FALSE
