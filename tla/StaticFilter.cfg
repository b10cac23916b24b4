SPECIFICATION Spec
CONSTANTS
  Tables <- MCTables
  ColumnNames <- MCColumnNames
  MaxDepth = 2
  ForeignKeysOf <- MCForeignKeysOf
  KeySets <- MCKeySets
  IntegerKey <- MCIntegerKey
  NoColumn = NoColumn
  StatementsOf <- MCStatementsOf
  MaxQueue = 2
INVARIANTS TypeOK IndexFollowsQueue FilterCoversPairs FilterIsPairwise CascadesCovered
CHECK_DEADLOCK FALSE
