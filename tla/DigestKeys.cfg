SPECIFICATION Spec
CONSTANTS
  papers = papers
  terrain = terrain
  Services <- MCServices
  Docs <- MCDocs
  NoCell = NoCell
  Demands <- MCDemands
  Dates <- MCDates
  Rosters <- MCRosters
  SampleHits = 2
  TopN = 1
  TopRows = 2
  MaxPoints = 3
  MaxFailures = 1
CONSTRAINT Followed
INVARIANTS
  OneRecordPerKey
CHECK_DEADLOCK FALSE
