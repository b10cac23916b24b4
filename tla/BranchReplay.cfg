SPECIFICATION FairSpec
CONSTANTS
  r1 = r1
  r2 = r2
  va = va
  Null = Null
  NoRow = NoRow
  Rows = {r1, r2}
  Vals = {va}
  Logs <- MCLogs
  Bases <- MCBases
  Broken <- MCBroken
  Typable <- MCTypable
  MaxTyped = 1
INVARIANTS
  TypeOK
  BranchReplays
  NothingUnseen
PROPERTIES
  Finishes
