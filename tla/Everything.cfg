\* Every writer of the tasks table at once.
SPECIFICATION Spec
CONSTANTS
  Agents = {a1, a2}
  Unassigned = Unassigned
  Blank = Blank
  Omitted = Omitted
  Tasks = {t1}
  InitialTasks = {}
  Targeted = {}
  Registered = {a1}
  AgentStates = {"idle"}
  Runs = {r1}
  Modes = {TRUE, FALSE}
  Dispatchers = {d1}
  Reviewers = {v1}
  Reconcilers = {k1}
  Coordinator = Blank
  Bodies = {"assigned", "review", "done"}
  Reports = {"completed"}
  DispatchRetries = 1
  ReviewRetries = 1
  DispatchBatch = 3
  ReviewBatch = 3
  RouteBatch = 5
  ReconcileBatch = 5
  RouteCapacity = 3
  Capacities = {1}
  MaxAttempts = 2
  NoTask = NoTask
  NoRun = NoRun
INVARIANTS TypeOK NoOrphanRows
