SPECIFICATION Spec
SYMMETRY Symmetry
CONSTANTS
  c1 = c1
  c2 = c2
  Conns = {c1, c2}
  Names = {a, b}
  a = a
  b = b
  Settings <- MCSettings
INVARIANTS
  TypeOK
  BufferIsWork
  EveryCommitLogged
  LogFollowsCommits
  LoggedIsCommitted
  LoggedOnce
  RaisedIsUnsafe
