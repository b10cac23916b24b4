SPECIFICATION Spec
SYMMETRY Symmetry
CONSTANTS
  c1 = c1
  c2 = c2
  Conns = {c1, c2}
  Names = {a, b}
  a = a
  b = b
  Settings <- MCReuse
INVARIANTS
  BufferIsWork
