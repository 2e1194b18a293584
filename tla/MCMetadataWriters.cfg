\* Two imports over an earlier import, an import while a container starts and
\* an operator switches rows off and on, two containers on an empty database.
SPECIFICATION Spec
CONSTANTS
  i1 = i1
  i2 = i2
  c1 = c1
  c2 = c2
  Import = {i1, i2}
  Container = {c1, c2}
  Offered <- MCOffered
  Table <- MCTable
  Initial <- MCRegistered
  Edited <- MCEdited
  Author <- MCAuthor
  Name <- MCName
  NoBundle = NoBundle
  None = None
INVARIANT
  TypeOK
PROPERTIES
  ReplaceSpec
  RefusedForCause
  SwitchedOffStaysOff
CHECK_DEADLOCK FALSE
