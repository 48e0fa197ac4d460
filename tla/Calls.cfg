\* One webhook that wants both events, every action of an administrator and crashes; a browser
\* that opens three sockets to one gateway.
SPECIFICATION SpecAll
CONSTANTS
  Hooks = {h1}
  Events = {e1, e2}
  Wanted <- AllWanted
  MaxRetries = 3
  RetryBatch = 1
  Kept = 4
  Ping = Ping
  MaxRows = 2
  MaxSockets = 3
  Root = "root"
  MaxAttempts = 2
  MaxMissed = 2
  HasToken = TRUE
  MaxPresses = 2
INVARIANTS TypesOK OneAttemptAtATime RecordIsTrue ConnectionIsShown
PROPERTIES EventsSettle SilenceIsNoticed GivesUp
CHECK_DEADLOCK FALSE
