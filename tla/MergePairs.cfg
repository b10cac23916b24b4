SPECIFICATION Spec
CONSTANTS
  r1 = r1
  r2 = r2
  va = va
  vb = vb
  Null = Null
  NoRow = NoRow
  Rows = {r1, r2}
  Vals = {va, vb}
  MCFamilies <- MCReviewed
  Workloads <- MCWorkloads
  Bases <- MCBases
  Edits <- MCNoEdits
  MaxEdits = 0
INVARIANTS
  ScanStates
  FixedReplayOrder
  EffectsKept
  ResolutionNotActivated
  NoSilentOverwrite
