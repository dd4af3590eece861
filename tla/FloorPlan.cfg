SPECIFICATION FairSpec
CONSTANTS
  p1 = p1
  p2 = p2
  i1 = i1
  i2 = i2
  t1 = t1
  s1 = s1
  s2 = s2
  General = General
  Bar = Bar
  None = None
  TableHandlers = {p1}
  SectorHandlers = {p2}
  Instances = {i1, i2}
  Tables = {t1}
  Sectors = {s1, s2}
  Names = {General, Bar}
INVARIANTS TypeOK LiveTableInLiveSector
PROPERTY EveryInstanceBoots
