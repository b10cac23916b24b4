SPECIFICATION Spec
CONSTANTS
  va = va
  vb = vb
  Null = Null
  NoRow = NoRow
  Instances <- MCInstances
CHECK_DEADLOCK FALSE
INVARIANTS
  TypeOK
  NoStatementLost
  ConflictsAreDocumented
  CleanMergeIsThreeWay
  ConflictingRowKeepsBase
  ReportMatchesFile
