\* One task, a stream that opens and breaks, one fetch at a time.
SPECIFICATION FairSpec
CONSTANTS
  Tasks = {t1}
  Statuses = {"todo", "doing"}
  Fetches = {1}
  Moves = {}
  MaxTries = 1
  MaxWrites = 2
  MaxDrags = 0
PROPERTY StreamCatchesUp
CHECK_DEADLOCK FALSE
