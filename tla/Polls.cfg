\* One run of a pipeline and two requests, two jobs of which one may hang, three notifications
\* and two senders, one card and two fetches.
SPECIFICATION SpecAll
CONSTANTS
  Runs = {1}
  NumSteps = 3
  Stops = {2, 3}
  Sessions = {1, 2}
  Hung = {"a"}
  Ticks = {1, 2, 3}
  MaxAge = 1
  MaxChanges = 1
  Agents = {"dev"}
  Others = {"system"}
  Senders = {1, 2}
  Daemon = 1
  Limit = 2
  MaxRows = 3
  MaxTrouble = 1
  Tasks = {t1}
  Statuses = {"todo", "doing"}
  Fetches = {1, 2}
  Moves = {m1}
  MaxTries = 1
  MaxWrites = 1
  MaxDrags = 1
INVARIANTS TypesOK RunsInOrder  DeliveredForAReason
PROPERTIES FinalIsFinal OthersKeepRunning DeliveredBehindFew PollingCatchesUp
CHECK_DEADLOCK FALSE
