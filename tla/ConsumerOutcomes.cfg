SPECIFICATION FairSpec
CONSTANTS
  papers = papers
  terrain = terrain
  p1 = p1
  p2 = p2
  t1 = t1
  Star = Star
  NaN = NaN
  Messages = {p1, p2, t1}
  Gone = {p2}
  Services = {papers, terrain}
  ServiceOf <- MCServiceOf
  Limits <- MCLimits
  Invocations = {k1, k2}
  MaxBatchSize = 3
  MaxRetries = 1
  MaxKills = 1
PROPERTY
  RetriedIffFailed
CHECK_DEADLOCK FALSE
