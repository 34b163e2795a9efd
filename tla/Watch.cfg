SPECIFICATION FairSpec
CONSTANTS
  t1 = t1
  t2 = t2
  t3 = t3
  Tilesets = {t1, t2, t3}
  Rank <- MCRank
  Versions = {v1, v2}
  Absent = Absent
  Nothing = Nothing
  Unplannable = {t3}
  MaxMoves = 3
  MaxFailures = 1
  MaxMisses = 1
INVARIANTS
  TypeOK
  OnlyMovedIsHanded
PROPERTIES
  LoopRecordsOnceHanded
  MoveIsHanded
