\* Two containers and an import on a database with no or some tables.
SPECIFICATION FairSpec
CONSTANTS
  i1 = i1
  i2 = i2
  c1 = c1
  c2 = c2
  Import = {i1}
  Container = {c1, c2}
  Offered <- MCOneOffered
  Table <- MCTable
  Initial <- MCFresh
  Edited = {}
  Author <- MCAuthor
  Name <- MCName
  NoBundle = NoBundle
  None = None
PROPERTY EveryProgramEnds
CHECK_DEADLOCK FALSE
