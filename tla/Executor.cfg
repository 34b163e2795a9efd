SPECIFICATION FairSpec
CONSTANTS
  good = good
  gone = gone
  papers = papers
  Star = Star
  NaN = NaN
  Jobs = {good, gone}
  Size <- MCSize
  Bad = {}
  Messages <- MCMessages
  Gone <- MCGone
  ChunkSize = 1
  SampleSize = 1
  Services = {papers}
  ServiceOf <- MCServiceOf
  Limits <- MCLimits
  Invocations = {k1}
  MaxBatchSize = 2
  MaxRetries = 1
  MaxKills = 1
INVARIANTS
  RefusedNeverFetched
PROPERTIES
  ImplementsPromise
  QueuedPlanDrains
CHECK_DEADLOCK FALSE
