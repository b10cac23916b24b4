SPECIFICATION Spec
CONSTANTS
  a1 = a1
  a2 = a2
  a3 = a3
  a4 = a4
  plain = plain
  ignore = ignore
  replace = replace
  Addresses = {a1, a2, a3, a4}
  Texts = {plain, ignore, replace}
  Clauses = {ignore, replace}
  Logs <- MCLogs
  MaxEdits = 3
SYMMETRY Symmetry
CHECK_DEADLOCK FALSE
INVARIANTS
  ControlRunsOwnSql
