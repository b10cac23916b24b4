SPECIFICATION FairSpec
CONSTANTS
  r1 = r1
  r2 = r2
  va = va
  vb = vb
  Null = Null
  NoRow = NoRow
  Rows = {r1, r2}
  Vals = {va, vb}
  MCFamilies <- MCEdited
  Workloads <- MCWorkloads
  Bases <- MCBases
  Edits <- MCEdits
  MaxEdits = 2
INVARIANTS
  TypeOK
  ControlMatchesMain
  BranchOrderKept
PROPERTIES
  IsAtomicMerge
  NotAskedTwice
  Terminates
