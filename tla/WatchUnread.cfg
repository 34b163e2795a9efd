SPECIFICATION FairSpec
CONSTANTS
  t1 = t1
  t2 = t2
  t3 = t3
  Tilesets = {t1, t2, t3}
  Rank <- MCRank
  Versions = {v1, v2}
  Absent = Absent
  Nothing = Nothing
  Unplannable = {}
  MaxMoves = 3
  MaxFailures = 0
  MaxMisses = 1
PROPERTIES
  RecordedOnceHanded
