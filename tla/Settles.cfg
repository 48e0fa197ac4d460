\* Direct providers without crashes: every assigned task ends its
\* round of dispatches, every inbox task is routed.
SPECIFICATION SteadySpec
CONSTANTS
  Agents = {a1}
  Unassigned = Unassigned
  Blank = Blank
  Omitted = Omitted
  Tasks = {t1, t2}
  InitialTasks = {t1, t2}
  Targeted = {}
  Registered = {a1}
  AgentStates = {"idle", "offline"}
  Runs = {}
  Modes = {TRUE}
  Dispatchers = {d1, d2}
  Reviewers = {v1}
  Reconcilers = {}
  Coordinator = Blank
  Bodies = {}
  Reports = {}
  DispatchRetries = 3
  ReviewRetries = 2
  DispatchBatch = 2
  ReviewBatch = 3
  RouteBatch = 5
  ReconcileBatch = 5
  RouteCapacity = 1
  Capacities = {1}
  MaxAttempts = 4
  NoTask = NoTask
  NoRun = NoRun
PROPERTIES TasksSettle
CHECK_DEADLOCK FALSE
