SPECIFICATION JobSpec
CONSTANTS
  papers = papers
  terrain = terrain
  mesh = mesh
  Plan <- MCPlan
  Services <- MCServices
  Manifests <- MCManifests
  Override <- MCOverride
  Retries = 1
  Second = 4
  None = None
  Size = 3
  Gone <- MCGone
  Lengths = {21600, 21601}
  JobLimit = 21600
INVARIANTS
  JobTypeOK
  WithinConcurrency
  InOrder
  WrongPlanNotWarmed
  RightPlanNotRefused
PROPERTIES
  SpawnsAreSpaced
  JobEnds
CHECK_DEADLOCK FALSE
