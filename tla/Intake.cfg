SPECIFICATION FairSpec
CONSTANTS
  good = good
  gone = gone
  bad = bad
  Jobs = {good, gone, bad}
  Size <- MCSize
  Bad <- MCBad
  Gone <- MCGone
  ChunkSize = 2
  SampleSize = 3
INVARIANTS
  TypeOK
  AllOrNothing
  SentFromTheTop
  WrongPlanKeptOut
  SampleBounded
PROPERTIES
  EveryJobAnswered
CHECK_DEADLOCK FALSE
