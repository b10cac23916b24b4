SPECIFICATION Spec
CONSTANTS
  main = main
  topic = topic
  Lines = {main, topic}
  MaxCommits = 3
  MaxMerges = 2
CHECK_DEADLOCK FALSE
INVARIANTS
  HistoryKept
