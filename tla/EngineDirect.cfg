\* The engine with direct providers: two dispatch sessions, one review session,
\* crashes, queue polls.
SPECIFICATION EngineSpec
CONSTANTS
  Agents = {a1}
  Unassigned = Unassigned
  Blank = Blank
  Omitted = Omitted
  Tasks = {t1, t2}
  InitialTasks = {t1, t2}
  Targeted = {}
  Registered = {a1}
  AgentStates = {"idle", "offline"}
  Runs = {}
  Modes = {TRUE}
  Dispatchers = {d1, d2}
  Reviewers = {v1}
  Reconcilers = {}
  Coordinator = Blank
  Bodies = {}
  Reports = {}
  DispatchRetries = 5
  ReviewRetries = 3
  DispatchBatch = 3
  ReviewBatch = 3
  RouteBatch = 5
  ReconcileBatch = 5
  RouteCapacity = 3
  Capacities = {1}
  MaxAttempts = 6
  NoTask = NoTask
  NoRun = NoRun
SYMMETRY Symmetry
INVARIANTS HeldIsInProgress HeldOnce  RetryBudget
PROPERTIES ImplementsFlow
